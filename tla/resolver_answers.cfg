SPECIFICATION FairSpec
CONSTANTS
    A = A
    B = B
    S1 = S1
    S2 = S2
    Texts <- TwoTexts
    LauncherIds = {A, B}
    Trim <- TwoTrim
    Decode <- TwoDecode
    NoAddress = NoAddress
    StoreIds = {S1, S2}
    ForeignCoins = {}
    Roots <- MCRoots
    Bodies <- MCBodies
    MaxCoins = 3
    MaxUpdates = 0
    MaxCandidates = 2
    SourceFaults = TRUE
    Repeats = FALSE
    NoStore = NoStore
    NoRequest = NoRequest
    NoAnswer = NoAnswer
    None = None
PROPERTIES ExactWhenQuiet CallReturns
