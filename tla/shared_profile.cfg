\* Two values a slot, so that an edit can also restore what was undone.
SPECIFICATION Spec
CONSTANTS
    Devices = {d1, d2}
    Slots = {1, 8}
    Values = {"v", "w"}
    NoHandle = NoHandle
SYMMETRY DeviceSymmetry
INVARIANT TypeOK
PROPERTY OnlyUnseenWorkIsUndone
