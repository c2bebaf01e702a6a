SPECIFICATION Spec
CONSTANTS
    Frames <- AllFrames
    Levels = {0, 1, 2}
    Window = 1
    MaxInt = 2
    MaxU32 = 4
    MaxBoots = 2
    Never = Never
INVARIANTS ServedIffAuthorised NoOracleBeforeMac ReplayBounded
