\* Six digits to a byte, so lengths below 36 fit; 5 is the byte no UTF-8 text has.
SPECIFICATION Spec
CONSTANTS
    ByteBase = 6
    LenBytes = 2
    NotUtf8 = {5}
    Payloads <- MCPayloads
    Blobs <- MCBlobs
INVARIANTS
    ReadsBack
    ReadersAndVerifiersAgree
