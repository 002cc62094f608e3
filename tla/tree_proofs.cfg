SPECIFICATION TreeSpec
CONSTANTS
    Slots = {1, 16, 18}
    Height = 3
    KeyBits <- MCKeyBits
    Blobs = {"header", "v1", "v2"}
    BareHeader = "header"
    NoProof = NoProof
INVARIANTS ProofsAreSound ProofsOutliveTheirSlot RootCommits
