SPECIFICATION Spec
CONSTANTS
    A = A
    B = B
    S1 = S1
    S2 = S2
    Texts <- MCTexts
    LauncherIds = {A}
    Trim <- MCTrim
    Decode <- MCDecode
    NoAddress = NoAddress
    StoreIds = {S1, S2}
    ForeignCoins = {f}
    Roots <- MCRoots
    Bodies <- MCBodies
    MaxCoins = 2
    MaxUpdates = 1
    MaxCandidates = 2
    SourceFaults = TRUE
    Repeats = TRUE
    NoStore = NoStore
    NoRequest = NoRequest
    NoAnswer = NoAnswer
    None = None
PROPERTY AmbiguousMeansTwoStores
SYMMETRY Stores
