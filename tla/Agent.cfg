SPECIFICATION FairSpec
CONSTANTS
    Clients = {c1}
    MaxConnections = 1
    MaxToken = 2
    EventsCapacity = 2
    PressureHeadroom = 0
    PressureTimeout = 1
    NormalTimeout = 1
    MaxInFlight = 2
    Pieces = {"frame", "half", "junk"}
    Faults = {"accept", "write", "poll"}
    Oids = {o1}
    NoValue = NoValue
    Threads = {t1, t2}
    Main = t1
    MaxSets = 1
    Values <- MCValues
INVARIANTS NothingLeftBuffered NoLostCommand SenderOutlivesLoop
PROPERTIES ImplementsMibService PostedSetsApplied DropReturns QuietConnectionClosed
