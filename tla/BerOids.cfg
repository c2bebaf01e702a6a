SPECIFICATION CodecSpec
CONSTANTS
    Half = 8
    WordOctets = 2
    DoubleOctets = 4
    MAX_OID_SUB_IDENTIFIERS = 4
    PeerOctets = {1, 9, 8}
    MaxContent = 7
    Lengths = {}
    Unsigned64s = {}
    Oids = {}
INVARIANTS OidsExact
CHECK_DEADLOCK FALSE
