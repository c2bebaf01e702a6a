SPECIFICATION Spec
CONSTANTS
    OidSpace <- WalkOids
    ValueSpace <- BothValues
    Starts <- Columns
    MaxRepetitionFields <- RepetitionFields
    NonRepeaterFields <- RepeaterFields
    MaxSizes = {484, 512, 850, 65535}
    MAX_BULK_REPETITIONS = 3
    MAX_FRAME_SIZE = 2000
    MaxSteps = 5
INVARIANTS WalkAdvances WalkComplete BulkFollowsRfc RepeatersFit
