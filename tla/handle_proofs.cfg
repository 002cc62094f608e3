SPECIFICATION Spec
CONSTANTS
    Texts <- MCTexts
    LauncherIds = {"A"}
    Trim <- MCTrim
    Decode <- MCDecode
    NoAddress = NoAddress
    Singleton <- MCSingleton
    Stores <- MCStores
    Store <- MCStore
    Slots = {1, 16}
    Height = 2
    KeyBits <- MCKeyBits
    Blobs = {"header", "v1"}
    BareHeader = "header"
    NoField = NoField
INVARIANTS TypeOK AcceptedClaimsArePublished PublishedClaimsAreAccepted
