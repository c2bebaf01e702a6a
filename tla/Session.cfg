SPECIFICATION SessionSpec
CONSTANTS
    Frames <- SessionFrames
    Levels = {0, 1, 2}
    Window = 1
    MaxInt = 3
    MaxU32 = 5
    MaxBoots = 3
    Never = Never
    Unknown = Unknown
    NoAnswer = NoAnswer
PROPERTY ManagerServed
