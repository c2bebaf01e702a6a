SPECIFICATION Spec
CONSTANTS
    Half = 16
    WordOctets = 2
    DoubleOctets = 4
    MAX_OID_SUB_IDENTIFIERS = 5
    PeerOctets = {0, 1, 15, 16, 17, 30, 31}
    MaxContent = 5
    Lengths <- MCLengths
    Unsigned64s <- MCLengths
    Oids <- MCOids
    TAG_SEQUENCE = 16
    MaxLengthOctets = 2
    MAX_FRAME_SIZE = 5
    Usize = 1024
    StreamOctets = {0, 1, 3, 16, 17, 18, 31}
    MaxStream = 6
    Tag <- MCTag
    MinMaxSize = 100
    MaxUserName = 2
    MSG_MAX_SIZE = 511
    MacOctets = 2
    SaltOctets = 2
    Answers <- MCAnswers
    ReportCounters <- MCReportCounters
    Uptimes <- MCUptimes
    TrapOids <- MCTrapOids
    SYS_UP_TIME_OID <- MCSysUpTime
    SNMP_TRAP_OID_OID <- MCSnmpTrapOid
    Characters <- MCCharacters
    MaxText = 5
    Components <- MCComponents
    Requests <- MCRequests
    Paddings <- MCPaddings
    Macs <- MCMacs
    Alterations = {0, 4, 16, 17}
INVARIANTS RoundTrip IntegersExact FramesAreTheStream BufferBounded NoFrameGivenUp ParsersAgree OffsetNamesTheMac GenuineVerifies AlterationDetected RequestsAsMeant AnswersAsMeant OidTextsExact
CHECK_DEADLOCK FALSE
