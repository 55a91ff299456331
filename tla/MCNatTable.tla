----------------------------- MODULE MCNatTable -----------------------------
(* NatTable on small instances.                                            *)
EXTENDS NatTable, TLC

(* A classic bidirectional tunnel, a pool connection that sends for one    *)
(* unit and lives for two, and one that only ever receives.                *)
MCProfiles == {[send |-> 0, ttl |-> 0], [send |-> 1, ttl |-> 2]}
MCTtlProfiles == {[send |-> 1, ttl |-> 2], [send |-> 0, ttl |-> 1]}

Symm == Permutations(Clients) \cup Permutations(Sessions)
        \cup Permutations(Users) \cup Permutations(IPv4s)
        \cup Permutations(IPv6s) \cup Permutations(Mplx)
=============================================================================
