CONSTANTS
    MaxReconnections = 1
    MaxStarts = 3
    MaxFullRestarts = 1
    MaxQueueSize = 2
    Null = Null
SPECIFICATION VpnSpec
INVARIANT RestartSurvives
CHECK_DEADLOCK FALSE
