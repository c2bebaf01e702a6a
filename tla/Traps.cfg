SPECIFICATION FairSpec
CONSTANTS
    Threads = {t1, t2}
    Loop = loop
    SendTo <- MCSendTo
    PduSizes = {1, 2}
    Overhead <- MCOverhead
    TRAP_MTU_BYTES = 3
    IdSpace = 2
    SaltSpace = 4
    MaxTime = 1
    MaxElapsed = 2
    MaxBoots = 2
    MaxMessages = 3
INVARIANTS IvNeverReused MessageIdsDistinct ResultsTellDelivery
PROPERTY SendTrapReturns
CHECK_DEADLOCK FALSE
