----------------------------- MODULE MCDataPath -----------------------------
(* DataPath on a small instance.                                           *)
EXTENDS DataPath, TLC

(* A connection without end and one that is over after one unit.           *)
MCProfiles == {[send |-> 0, ttl |-> 0], [send |-> 0, ttl |-> 1]}

Symm == Permutations(Mplx) \cup Permutations(Clients) \cup Permutations(Users)
=============================================================================
