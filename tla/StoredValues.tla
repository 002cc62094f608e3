----------------------------- MODULE StoredValues -----------------------------
(* One slot of a profile tree (tree.rs): what set, set_encoded and remove    *)
(* leave in it, and what get, get_encoded and a verifier make of the bytes.  *)
EXTENDS ValueCodec

CONSTANTS
    Payloads,  \* the byte strings values are made of
    Blobs      \* the byte strings set_encoded is handed, by a relay

ASSUME ByteStrings == Payloads \cup Blobs \subseteq Seq(Bytes)

VARIABLES
    leaf,   \* the slot's bytes; none: the slot is absent
    wrote   \* history: the last write, [none], [value] or [blob]

vars == <<leaf, wrote>>

AllValues == Values(Payloads)

None == [none |-> TRUE]

Init == leaf = <<>> /\ wrote = None

SetEncoded(blob) == leaf' = blob /\ wrote' = [blob |-> blob]

Set(value) == leaf' = Encode(value) /\ wrote' = [value |-> value]

Remove == leaf' = <<>> /\ wrote' = None

Next ==
    \/ \E value \in AllValues : Set(value)
    \/ \E blob \in Blobs : SetEncoded(blob)
    \/ Remove

Spec == Init /\ [][Next]_vars

Get == IF leaf = <<>> THEN None ELSE Decode(leaf)

----------------------------------------------------------------------------
\* Properties.

Fits(value) == Len(Payload(value)) < Power(LenBytes)

\* Whatever is written is read back, at every width and length; a payload too
\* long for the length field reads as an error, never as another value, and
\* only a removed slot (or one set to no bytes at all) reads as absent.
ReadsBack ==
    /\ "value" \in DOMAIN wrote =>
        Get = IF Fits(wrote.value) THEN Ok(wrote.value)
                                   ELSE Err("LengthMismatch")
    /\ Get = None <=> wrote \in {None, [blob |-> <<>>]}

\* A value is what get returns exactly if a verifier who encodes that value
\* himself arrives at the slot's bytes: no other encoding of it decodes, the
\* bytes a relay stored without decoding them included.
ReadersAndVerifiersAgree ==
    \A value \in AllValues :
        Fits(value) => (Get = Ok(value) <=> Encode(value) = leaf)
===============================================================================
