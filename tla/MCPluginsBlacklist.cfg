CONSTANTS
    Names = {n1, n2}
    Blacklisted = {n1}
    SplitNames = {n1, n2}
    IPv4s = {a1}
    IPv6s = {b1}
    Policies = {"include", "exclude"}
SPECIFICATION PluginSpec
INVARIANT BlacklistComplete
