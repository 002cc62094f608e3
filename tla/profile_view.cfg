\* 8 is the address slot, 16 a key slot; the others are the ends of the ranges.
SPECIFICATION Spec
CONSTANTS
    Texts <- MCTexts
    LauncherIds = {"A"}
    Trim <- MCTrim
    Decode <- MCDecode
    NoAddress = NoAddress
    Slots = {8, 16, 255, 256, 4095, 4096, 61439, 61440}
    Values <- MCValues
    MaxEdits = 3
INVARIANT ForeignSlotsAreIgnored
