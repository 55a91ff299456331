---------------------------- MODULE MCWebServer ----------------------------
(* WebServer on small instances.                                           *)
EXTENDS WebServer, TLC

(* A tunnel without end and a connection that is over after one unit.      *)
Forever == [send |-> 0, ttl |-> 0]
Short == [send |-> 0, ttl |-> 1]
MCProfiles == {Forever, Short}

Ask(s, u, p) == [session_id |-> s, username |-> u, profile |-> p]

CONSTANTS s1, s2, u1

MCRequests == {Ask(s1, u1, Short), Ask(s2, u1, Forever)}
MCLimitRequests == {Ask(s1, u1, Forever), Ask(s2, u1, Forever)}
=============================================================================
