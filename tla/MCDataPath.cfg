CONSTANTS
    Clients = {c1, c2}
    Sessions = {s1}
    Users = {u1, u2}
    IPv4s = {a1}
    IPv6s = {b1}
    Mplx = {m1, m2}
    Profiles <- MCProfiles
    MaxTime = 1
    Null = Null
    Sizes = {1}
    Limit = 2
    Second = 1
    Capacity = 0
    MaxBatch = 1
    WriteCapacity = 1
    MaxInFlight = 2
    OneWay = TRUE
SPECIFICATION DataSpec
SYMMETRY Symm
INVARIANTS DeliveredToLessee ChargedToSender WindowBounded
