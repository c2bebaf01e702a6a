SPECIFICATION FairLoopSpec
CONSTANTS
    Clients = {c1, c2}
    MaxConnections = 1
    MaxToken = 3
    EventsCapacity = 4
    PressureHeadroom = 0
    PressureTimeout = 1
    NormalTimeout = 1
    MaxInFlight = 1
    Pieces = {"frame"}
    Faults = {}
    Oids = {}
    Values = {}
    NoValue = NoValue
PROPERTY BacklogAccepted
