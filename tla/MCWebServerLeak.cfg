CONSTANTS
    Clients = {c1, c2}
    Sessions = {s1, s2}
    s1 = s1
    s2 = s2
    u1 = u1
    Users = {u1}
    IPv4s = {a1, a2}
    IPv6s = {b1, b2}
    Mplx = {m1, m2}
    Profiles <- MCProfiles
    Requests <- MCRequests
    MaxActive = 1
    MaxTime = 1
    Null = Null
    Updater = Updater
    Stopper = Stopper
SPECIFICATION WebSpec
INVARIANT ClosedSessionForgotten
CHECK_DEADLOCK FALSE
