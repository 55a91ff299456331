CONSTANTS
    Clients = {c1, c2, c3}
    Sessions = {s1, s2}
    Users = {u1, u2}
    IPv4s = {a1, a2}
    IPv6s = {b1, b2}
    Mplx = {m1, m2, m3}
    Profiles <- MCProfiles
    MaxTime = 3
    Null = Null
SYMMETRY Symm
SPECIFICATION NatSpec
INVARIANTS
    AddressConservation
    ClientRouting
    NoGhostSession
PROPERTIES
    NothingLost
