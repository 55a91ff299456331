CONSTANTS
    Clients = {c1, c2}
    Sessions = {s1, s2}
    s1 = s1
    s2 = s2
    u1 = u1
    Users = {u1}
    IPv4s = {a1}
    IPv6s = {b1}
    Mplx = {m1}
    Profiles <- MCProfiles
    Requests <- MCRequests
    MaxActive = 1
    MaxTime = 1
    Null = Null
    Updater = Updater
    Stopper = Stopper
SPECIFICATION FairWebSpec
INVARIANTS
    NoLockCycle
    NatEntryHasOwner
    ReceiversDeliverable
PROPERTIES
    DrivesNatTable
    CloseReturns
    StopReturnsUnlessRaced
CHECK_DEADLOCK FALSE
