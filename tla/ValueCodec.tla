------------------------------ MODULE ValueCodec ------------------------------
(* The slot-value encoding (value.rs): tag, big-endian length, payload.  A   *)
(* byte is a digit to the base ByteBase, the length has LenBytes digits and  *)
(* U16, U32, U64 have one, two and three, so that every overflow of the code *)
(* happens among small numbers.                                              *)
EXTENDS Integers, Sequences

CONSTANTS
    ByteBase,  \* 256 in the code
    LenBytes,  \* 4 in the code
    NotUtf8    \* the bytes that occur in no UTF-8 text, such as 0xff

ASSUME CodecWidths ==
    /\ ByteBase \in Nat \ 0..5   \* a byte holds every tag
    /\ LenBytes \in Nat \ {0}
    /\ NotUtf8 \subseteq 0..ByteBase - 1

TagByte == [Utf8 |-> 1, Bytes |-> 2, U16 |-> 3, U32 |-> 4, U64 |-> 5]

FixedWidth == [U16 |-> 1, U32 |-> 2, U64 |-> 3]

HEADER_LEN == 1 + LenBytes

----------------------------------------------------------------------------
Power(n) ==
    LET power[i \in 0..n] == IF i = 0 THEN 1 ELSE power[i - 1] * ByteBase
    IN  power[n]

\* to_be_bytes of a number cast to the width: what does not fit is cut off.
ToBytes(n, width) ==
    LET rest[i \in 0..width] == IF i = 0 THEN n ELSE rest[i - 1] \div ByteBase
    IN  [i \in 1..width |-> rest[width - i] % ByteBase]

\* Mutant of FromBytes: the least significant byte first.
FromLittleEndian(bytes) ==
    LET number[i \in 0..Len(bytes)] ==
            IF i = 0 THEN 0
            ELSE number[i - 1] * ByteBase + bytes[Len(bytes) + 1 - i]
    IN  number[Len(bytes)]

FromBytes(bytes) ==
    LET number[i \in 0..Len(bytes)] ==
            IF i = 0 THEN 0 ELSE number[i - 1] * ByteBase + bytes[i]
    IN  number[Len(bytes)]

Bytes == 0..ByteBase - 1

\* A value is a function whose one-element domain is its variant.
Value(tag, content) == [t \in {tag} |-> content]
Tag(value) == CHOOSE t \in DOMAIN value : TRUE
Content(value) == value[Tag(value)]

Values(payloads) ==
    {Value("Utf8", s) : s \in {p \in payloads :
                                \A i \in DOMAIN p : p[i] \notin NotUtf8}}
    \cup {Value("Bytes", b) : b \in payloads}
    \cup UNION {{Value(tag, n) : n \in 0..Power(FixedWidth[tag]) - 1} :
                tag \in DOMAIN FixedWidth}

Payload(value) ==
    IF Tag(value) \in DOMAIN FixedWidth
    THEN ToBytes(Content(value), FixedWidth[Tag(value)])
    ELSE Content(value)

Encode(value) ==
    <<TagByte[Tag(value)]>> \o ToBytes(Len(Payload(value)), LenBytes)
                            \o Payload(value)

----------------------------------------------------------------------------
Ok(value) == [ok |-> value]
Err(kind) == [err |-> kind]

\* The payload under a known tag, its length already checked.
DecodePayload(tag, payload) ==
    CASE tag \in DOMAIN FixedWidth /\ Len(payload) # FixedWidth[tag] ->
            Err("WrongWidth")
      [] tag \in DOMAIN FixedWidth /\ Len(payload) = FixedWidth[tag] ->
            Ok(Value(tag, FromBytes(payload)))
      [] tag = "Utf8" /\ \E i \in DOMAIN payload : payload[i] \in NotUtf8 ->
            Err("TruncatedValue")
      [] OTHER -> Ok(Value(tag, payload))

Header(blob) ==
    [tags     |-> {t \in DOMAIN TagByte : TagByte[t] = blob[1]},
     declared |-> FromBytes(SubSeq(blob, 2, HEADER_LEN))]

\* Mutant of Decode: bytes after the declared length are ignored.
DecodePrefix(blob) ==
    IF Len(blob) < HEADER_LEN THEN Err("TruncatedValue")
    ELSE LET header  == Header(blob)
             payload == SubSeq(blob, HEADER_LEN + 1, Len(blob))
         IN  IF header.tags = {} THEN Err("UnknownTag")
             ELSE IF Len(payload) < header.declared THEN Err("LengthMismatch")
             ELSE DecodePayload(CHOOSE t \in header.tags : TRUE,
                                SubSeq(payload, 1, header.declared))

Decode(blob) ==
    IF Len(blob) < HEADER_LEN THEN Err("TruncatedValue")
    ELSE LET header  == Header(blob)
             payload == SubSeq(blob, HEADER_LEN + 1, Len(blob))
         IN  IF header.tags = {} THEN Err("UnknownTag")
             ELSE IF Len(payload) # header.declared THEN Err("LengthMismatch")
             ELSE DecodePayload(CHOOSE t \in header.tags : TRUE, payload)
===============================================================================
