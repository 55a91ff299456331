CONSTANTS
    MaxReconnections = 1
    MaxStarts = 3
    MaxFullRestarts = 1
    MaxQueueSize = 2
    Null = Null
    Candidates = {"s1", "s2", "s3"}
    MaxProbes = 2
    Scanners = {"w1", "w2"}
    SniCount = 3
    ScanServers = 2
    TrayServers = {"s1", "s2"}
    MaxListeners = 2
    ServiceNames = {"one", "two"}
    Destinations = {"d1"}
    Destinations6 = {}
    MaxKills = 1
    MayFail = {"unnameVpnDns", "restoreResolv"}
    Names = {"n1", "n2", "n3"}
    Blacklisted = {"n1"}
    SplitNames = {"n1", "n2"}
    IPv4s = {"a1"}
    IPv6s = {"b1"}
    Policies = {"include", "exclude"}
    CliServers = {"s1", "s2"}
    Preferences <- MCPreferences
    MaxRestarts = 2
    NoAccess = NoAccess
SPECIFICATION Spec
INVARIANTS
    UsersOutlived
    StrategyNotDestroyedInUse
    SearchResult
    HonestVerdict
    TrayTellsTruth
    PingsCounted
    SettingsKept
    ResolvConfRecoverable
    CleanUndoes
    PluginsHonoured
    ExitsClean
PROPERTIES
    DrivesConnectionManager
    PacketsMove
    Reconnects
    VpnStopReturnsUnlessRaced
    ScanEnds
CHECK_DEADLOCK FALSE
