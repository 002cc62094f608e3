---------------------------- MODULE MCStoredValues ----------------------------
(* Payloads around every limit of the length field; blobs of every tag byte  *)
(* and length with short payloads, and those too short for a header.         *)
EXTENDS StoredValues

Repeat(byte, n) == [i \in 1..n |-> byte]

Sample == {0, 1, ByteBase - 1}
Short == UNION {[1..n -> Sample] : n \in 0..3}
Limit == Power(LenBytes)

MCPayloads ==
    Short \cup {Repeat(byte, n) : byte \in Sample,
                                  n \in {4, Limit - 1, Limit, Limit + 2, 2 * Limit}}

MCBlobs ==
    Short \cup {<<tag, length>> \o payload : tag \in Bytes, length \in Sample,
                                             payload \in Short}
          \cup {<<tag, 0, length>> \o payload : tag \in Bytes, length \in 0..4,
                                                payload \in Short}
===============================================================================
