---------------------------- MODULE VpnSessions ----------------------------
(***************************************************************************)
(* What nat::Table promises to its callers, without multiplexers, indexes, *)
(* buckets or the two-phase sweep: a session is owned by one user, leases  *)
(* one address of each family that nobody else leases, keeps them for as   *)
(* long as it has a member, and only then may end.                         *)
(***************************************************************************)
EXTENDS Naturals

CONSTANTS Clients, Sessions, Users, IPv4s, IPv6s, Null

VARIABLES
    lease,   \* the lease of each session id, Null when it names no session
    user     \* the user each connection was accepted for, Null before that

vpnVars == <<lease, user>>

Lease == [owner : Users, ip4 : IPv4s, ip6 : IPv6s, members : SUBSET Clients]

VpnInit ==
    /\ lease = [s \in Sessions |-> Null]
    /\ user = [c \in Clients |-> Null]

Leased == {s \in Sessions : lease[s] # Null}

(* The first connection of a session takes addresses nobody leases.        *)
Open(c, s, u, a4, a6) ==
    /\ user[c] = Null
    /\ lease[s] = Null
    /\ \A x \in Leased : lease[x].ip4 # a4 /\ lease[x].ip6 # a6
    /\ lease' = [lease EXCEPT ![s] = [owner |-> u, ip4 |-> a4, ip6 |-> a6,
                                      members |-> {c}]]
    /\ user' = [user EXCEPT ![c] = u]

(* A further connection of the same user.                                  *)
Join(c, s) ==
    /\ user[c] = Null
    /\ lease[s] # Null
    /\ lease' = [lease EXCEPT ![s].members = @ \cup {c}]
    /\ user' = [user EXCEPT ![c] = lease[s].owner]

(* The connections C are gone and, of the sessions that have no member     *)
(* then, those in S end.                                                   *)
Leave(C, S) ==
    /\ \A s \in S : lease[s] # Null /\ lease[s].members \subseteq C
    /\ lease' = [s \in Sessions |->
                   CASE s \in S -> Null
                     [] s \notin S /\ lease[s] = Null -> Null
                     [] OTHER -> [lease[s] EXCEPT !.members = @ \ C]]
    /\ UNCHANGED user

VpnNext ==
    \/ \E c \in Clients, s \in Sessions, u \in Users, a4 \in IPv4s, a6 \in IPv6s :
          Open(c, s, u, a4, a6)
    \/ \E c \in Clients, s \in Sessions : Join(c, s)
    \/ \E C \in SUBSET Clients, S \in SUBSET Sessions : Leave(C, S)

VpnSpec == VpnInit /\ [][VpnNext]_vpnVars

(* A session that stays without members ends.                              *)
Ends(s) == \E S \in SUBSET Sessions : s \in S /\ Leave({}, S)

FairVpnSpec == VpnSpec /\ \A s \in Sessions : WF_vpnVars(Ends(s))
=============================================================================
