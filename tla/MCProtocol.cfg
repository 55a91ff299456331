CONSTANTS
    Conns = {c1}
    Snis = {"default.org", "here.net", "site.com"}
    DefaultDomain = "default.org"
    SelfNames = {"here.net"}
    AllowedSnis = {}
    DetectProbing = TRUE
    Peers <- MCPeers
    PeekTimeout = 1
    DnsTimeout = 1
    FetchTimeout <- MCFetchTimeout
    CcsTimeout = 1
    TlsTimeout = 1
    Patience <- MCPatience
    Flights <- MCFlights
    Deadline = 7
    QuietPolls = 3
    MaxRecords = 3
    MaxForeign = 5
    ReadSize = 5
    BufferSize = 8
    Kinds = {"rolling", "parallel", "mimicry"}
    ConnectionCount = 2
    LifetimeSeconds = 20
    StaggerSeconds = 1
    LeadSeconds = 1
    ConnectBudget = 1
    TargetPerType = 1
    MaxConnections = 3
    SendRange = {2, 3}
    MinSendingSeconds = 1
    TtlRange = {3, 4}
    Requests = {"r1", "r2"}
    RequestKinds <- MCRequestKinds
    Pins = {"p1", "p2"}
    SslAddresses = {"a1", "a2"}
SPECIFICATION Spec
INVARIANTS
    ClientsServed
    FlightOutcome
    StreamIntact
    TunnelKept
    CallbacksSafe
PROPERTIES
    NoProxyToSelf
    HandshakeEnds
    DeadPoolEnds
    RequestReturns
CHECK_DEADLOCK FALSE
