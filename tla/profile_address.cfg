\* The same instance; an address with a space before it is enough.
SPECIFICATION Spec
CONSTANTS
    Texts <- MCTexts
    LauncherIds = {"A"}
    Trim <- MCTrim
    Decode <- MCDecode
    NoAddress = NoAddress
    Slots = {8, 16, 255, 256, 4095, 4096, 61439, 61440}
    Values <- MCValues
    MaxEdits = 3
INVARIANT AddressIsPayable
