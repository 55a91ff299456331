CONSTANTS
    MaxReconnections = 2
    MaxStarts = 3
    Null = Null
SPECIFICATION FairConnSpec
PROPERTY StopReturns
CHECK_DEADLOCK FALSE
