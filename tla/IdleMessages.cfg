\* One client, one slot: a message sent in two halves.
SPECIFICATION HSpec
CONSTANTS
    Clients = {c1}
    MaxConnections = 2
    MaxToken = 3
    EventsCapacity = 4
    PressureHeadroom = 0
    PressureTimeout = 1
    NormalTimeout = 2
    MaxInFlight = 2
    Pieces = {"half"}
    Faults = {}
    Oids = {}
    Values = {}
    NoValue = NoValue
PROPERTY SilentConnectionsClosed
