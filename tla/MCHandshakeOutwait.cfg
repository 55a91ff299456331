CONSTANTS
    Conns = {c1}
    Snis = {"default.org", "site.com"}
    DefaultDomain = "default.org"
    SelfNames = {}
    AllowedSnis = {}
    DetectProbing = TRUE
    Peers <- MCPeers
    PeekTimeout = 3
    DnsTimeout = 5
    FetchTimeout <- MCFetchTimeout
    CcsTimeout = 5
    TlsTimeout = 10
    Patience <- MCPatience
SPECIFICATION ShakeSpec
INVARIANT ClientOutwaits
CHECK_DEADLOCK FALSE
