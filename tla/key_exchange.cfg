\* The published keys are 1, 2 and 5 of the ten keys of the subgroup.
SPECIFICATION Spec
CONSTANTS
    Order = 11
    Cofactor = 3
    Seeds = {"s1", "s2"}
    Profiles <- MCProfiles
    CoinIndices = {0, 1}
    Scalar <- MCScalar
    OtherBytes <- MCOtherBytes
    Malformed = Malformed
    NoPoint = NoPoint
    NoNote = NoNote
    Messages = {"m"}
INVARIANTS
    TypeOK
    SecretsAgree
    OnlyKeysAreUsed
    SignaturesNameTheirProfile
