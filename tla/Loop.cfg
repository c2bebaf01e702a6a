SPECIFICATION LoopSpec
CONSTANTS
    Clients = {c1, c2, c3}
    MaxConnections = 2
    MaxToken = 4
    EventsCapacity = 2
    PressureHeadroom = 0
    PressureTimeout = 1
    NormalTimeout = 2
    MaxInFlight = 1
    Pieces = {"frame", "junk"}
    Faults = {"accept", "register", "write", "poll"}
    Oids = {}
    Values = {}
    NoValue = NoValue
SYMMETRY ClientSymmetry
INVARIANTS ConnectionLimit SocketsAccountedFor EventsAreLive NoLostReadable
