CONSTANTS
    Clients = {c1, c2}
    Sessions = {s1}
    Users = {u1}
    IPv4s = {a1, a2}
    IPv6s = {b1}
    Mplx = {m1, m2}
    Profiles <- MCTtlProfiles
    MaxTime = 3
    Null = Null
SPECIFICATION FairNatSpec
PROPERTIES
    TableDrains
    ImplementsFairVpnSessions
