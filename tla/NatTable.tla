------------------------------ MODULE NatTable ------------------------------
(***************************************************************************)
(* The server's NAT table (src/fptn-server/nat): logical VPN sessions, the *)
(* pair of fake addresses each one leases, and the physical connections    *)
(* (one per WebSocket) grouped into it by a ConnectionMultiplexer.         *)
(*                                                                         *)
(* Every action below is one critical section of Table::mutex_.  The sweep *)
(* (Table::UpdateConnectionsStatus) has two of them, a shared one and an   *)
(* exclusive one, and anything may happen between the two.                 *)
(*                                                                         *)
(* Multiplexers are shared_ptr objects, so their identity matters: an      *)
(* object is created once and is never reused (heap[m] = Null until then). *)
(* A ClientID is handed to AddConnection once in its life: web::Session    *)
(* draws it from an atomic counter and opens at most one WebSocket.        *)
(***************************************************************************)
EXTENDS Naturals, FiniteSets

CONSTANTS
    Clients,    \* ClientIDs
    Sessions,   \* session ids clients send, or the server generates
    Users,      \* user names carried by valid tokens
    IPv4s,      \* free_ipv4_ as the constructor of Table fills it
    IPv6s,      \* free_ipv6_ as the constructor of Table fills it
    Mplx,       \* identities of ConnectionMultiplexer objects
    Profiles,   \* [send, ttl] durations a client may ask for
    MaxTime,    \* bound: the last clock value the model explores
    Null        \* nullptr / absent key

ASSUME NullFresh ==
    /\ Null \notin Mplx
    /\ Null \notin [username : Users, session_id : Sessions,
                    fake4 : IPv4s, fake6 : IPv6s]
    /\ Null \notin [username : Users, send : Nat, ttl : Nat, accepted_at : Nat]
    /\ Null \notin [owner : Users, ip4 : IPv4s, ip6 : IPv6s,
                    members : SUBSET Clients]

ASSUME ProfileType == Profiles \subseteq [send : Nat, ttl : Nat]

ASSUME MaxTimeType == MaxTime \in Nat

VARIABLES
    now,              \* std::chrono::steady_clock
    free_ipv4,        \* how often each address is in the vector free_ipv4_
    free_ipv6,        \* (the order of the vector is abstracted)
    session_to_mplx,  \* the four indexes of Table; Null = no entry
    ipv4_to_mplx,
    ipv6_to_mplx,
    client_to_mplx,
    heap,             \* immutable members of each multiplexer, Null = not built
    sending,          \* ConnectionMultiplexer::sending_, by ClientID
    receiving,        \* ConnectionMultiplexer::receiving_, by ClientID
    conn,             \* ClientConnection of each ClientID, Null = never opened
    sweep             \* locals of UpdateConnectionsStatus between its locks

indexes == <<session_to_mplx, ipv4_to_mplx, ipv6_to_mplx, client_to_mplx>>
natVars == <<now, free_ipv4, free_ipv6, indexes, heap, sending, receiving,
             conn, sweep>>

MplxData == [username : Users, session_id : Sessions,
             fake4 : IPv4s, fake6 : IPv6s]

ClientConnection == [username : Users, send : Nat, ttl : Nat,
                     accepted_at : Nat]

SweepIdle == [pending |-> FALSE, expired |-> {}, emptied |-> {}]

NatInit ==
    /\ now = 0
    /\ free_ipv4 = [a \in IPv4s |-> 1]
    /\ free_ipv6 = [a \in IPv6s |-> 1]
    /\ session_to_mplx = [s \in Sessions |-> Null]
    /\ ipv4_to_mplx = [a \in IPv4s |-> Null]
    /\ ipv6_to_mplx = [a \in IPv6s |-> Null]
    /\ client_to_mplx = [c \in Clients |-> Null]
    /\ heap = [m \in Mplx |-> Null]
    /\ sending = [m \in Mplx |-> {}]
    /\ receiving = [m \in Mplx |-> {}]
    /\ conn = [c \in Clients |-> Null]
    /\ sweep = SweepIdle

-----------------------------------------------------------------------------
(* ClientConnection: the role of a connection follows from the clock.      *)

IsBidirectional(k) == k.send = 0 /\ k.ttl = 0

IsSending(k, t) == IsBidirectional(k) \/ t < k.accepted_at + k.send

IsReceiving(k, t) == IsBidirectional(k) \/ t >= k.accepted_at + k.send

IsExpired(k, t) == k.ttl # 0 /\ t >= k.accepted_at + k.ttl

(***************************************************************************)
(* Clock::now() is read separately by IsExpired, IsSending and IsReceiving *)
(* (in that order), so the clock may move between the reads of one call.   *)
(* A reading made in a call that ends at time t is a triple of instants.   *)
(***************************************************************************)
ClockReads(t) ==
    {r \in [expired : now..t, sending : now..t, receiving : now..t] :
        r.expired <= r.sending /\ r.sending <= r.receiving}

(* Wrong variant: the receiving role is decided first, so a connection can *)
(* be neither sending nor receiving when send_until passes in between.     *)
PlacedReceiving_ReadFirst(k, r) == IsReceiving(k, r.expired)

(* PlaceByRole: which of the two buckets a connection is pushed to.        *)
PlacedSending(k, r) == IsSending(k, r.sending)
PlacedReceiving(k, r) == IsReceiving(k, r.receiving)

-----------------------------------------------------------------------------
(* Table                                                                   *)

Held(m) == sending[m] \cup receiving[m]

Live(m) == heap[m] # Null /\ session_to_mplx[heap[m].session_id] = m

GetNumberActiveSessionByUsername(u) ==
    Cardinality({s \in Sessions : /\ session_to_mplx[s] # Null
                                  /\ heap[session_to_mplx[s]].username = u})

(* The cases in which AddConnection returns nullptr.                       *)
AddConnectionRefused(s, u) ==
    \/ /\ session_to_mplx[s] # Null
       /\ heap[session_to_mplx[s]].username # u
    \/ /\ session_to_mplx[s] = Null
       /\ \/ \A a \in IPv4s : free_ipv4[a] = 0
          \/ \A a \in IPv6s : free_ipv6[a] = 0

NewConnection(u, p) ==
    [username |-> u, send |-> p.send, ttl |-> p.ttl, accepted_at |-> now]

(* Wrong variant: anyone who knows the session_id may join.                *)
JoinSession_AnyUser(c, s, u, p) ==
    LET m == session_to_mplx[s]
        k == NewConnection(u, p)
    IN  /\ conn[c] = Null
        /\ m # Null
        /\ c \notin Held(m)
        /\ \E t \in {i \in {now, now + 1} : i <= MaxTime} :
             \E r \in ClockReads(t) :
                /\ sending' = [sending EXCEPT ![m] =
                                 IF PlacedSending(k, r) THEN @ \cup {c} ELSE @]
                /\ receiving' = [receiving EXCEPT ![m] =
                                 IF PlacedReceiving(k, r) THEN @ \cup {c} ELSE @]
                /\ now' = t
        /\ conn' = [conn EXCEPT ![c] = k]
        /\ client_to_mplx' = [client_to_mplx EXCEPT ![c] = m]
        /\ UNCHANGED <<free_ipv4, free_ipv6, session_to_mplx, ipv4_to_mplx,
                       ipv6_to_mplx, heap, sweep>>

(* AddConnection, joining the session that s already names.                *)
JoinSession(c, s, u, p) ==
    LET m == session_to_mplx[s]
        k == NewConnection(u, p)
    IN  /\ conn[c] = Null
        /\ m # Null
        /\ heap[m].username = u
        /\ c \notin Held(m)
        /\ \E t \in {i \in {now, now + 1} : i <= MaxTime} :
             \E r \in ClockReads(t) :
                /\ sending' = [sending EXCEPT ![m] =
                                 IF PlacedSending(k, r) THEN @ \cup {c} ELSE @]
                /\ receiving' = [receiving EXCEPT ![m] =
                                 IF PlacedReceiving(k, r) THEN @ \cup {c} ELSE @]
                /\ now' = t
        /\ conn' = [conn EXCEPT ![c] = k]
        /\ client_to_mplx' = [client_to_mplx EXCEPT ![c] = m]
        /\ UNCHANGED <<free_ipv4, free_ipv6, session_to_mplx, ipv4_to_mplx,
                       ipv6_to_mplx, heap, sweep>>

(* AddConnection, creating the session and leasing a pair of addresses.    *)
CreateSession(c, s, u, p) ==
    LET k == NewConnection(u, p)
    IN  /\ conn[c] = Null
        /\ session_to_mplx[s] = Null
        /\ \E m \in Mplx, a4 \in IPv4s, a6 \in IPv6s :
             /\ heap[m] = Null
             /\ free_ipv4[a4] > 0
             /\ free_ipv6[a6] > 0
             /\ heap' = [heap EXCEPT ![m] = [username |-> u, session_id |-> s,
                                             fake4 |-> a4, fake6 |-> a6]]
             /\ free_ipv4' = [free_ipv4 EXCEPT ![a4] = @ - 1]
             /\ free_ipv6' = [free_ipv6 EXCEPT ![a6] = @ - 1]
             /\ session_to_mplx' = [session_to_mplx EXCEPT ![s] = m]
             /\ ipv4_to_mplx' = [ipv4_to_mplx EXCEPT ![a4] = m]
             /\ ipv6_to_mplx' = [ipv6_to_mplx EXCEPT ![a6] = m]
             /\ client_to_mplx' = [client_to_mplx EXCEPT ![c] = m]
             /\ \E t \in {i \in {now, now + 1} : i <= MaxTime} :
                  \E r \in ClockReads(t) :
                     /\ sending' = [sending EXCEPT ![m] =
                                      IF PlacedSending(k, r) THEN {c} ELSE {}]
                     /\ receiving' = [receiving EXCEPT ![m] =
                                      IF PlacedReceiving(k, r) THEN {c} ELSE {}]
                     /\ now' = t
        /\ conn' = [conn EXCEPT ![c] = k]
        /\ UNCHANGED sweep

AddConnection(c, s, u, p) ==
    \/ JoinSession(c, s, u, p)
    \/ CreateSession(c, s, u, p)

(* Wrong variants: "already released" is judged by the key alone, or the   *)
(* emptiness seen by the sweep is trusted at its second lock.              *)
ReleasableIn_KeyOnly(E, snd, rcv) ==
    {m \in E : /\ snd[m] = {} /\ rcv[m] = {}
               /\ session_to_mplx[heap[m].session_id] # Null}

ReleasableIn_StaleEmpty(E, snd, rcv) ==
    {m \in E : session_to_mplx[heap[m].session_id] = m}

(***************************************************************************)
(* ReleaseSessionIfEmpty for each multiplexer of E, given the buckets as   *)
(* they stand at that point of the critical section.                       *)
(***************************************************************************)
ReleasableIn(E, snd, rcv) ==
    {m \in E : /\ snd[m] = {} /\ rcv[m] = {}
               /\ session_to_mplx[heap[m].session_id] = m}

ReleaseSessionIfEmpty(E, snd, rcv) ==
    LET R == ReleasableIn(E, snd, rcv)
        gone4 == {heap[m].fake4 : m \in R}
        gone6 == {heap[m].fake6 : m \in R}
        ids == {heap[m].session_id : m \in R}
    IN  /\ free_ipv4' = [a \in IPv4s |-> free_ipv4[a] +
                            Cardinality({m \in R : heap[m].fake4 = a})]
        /\ free_ipv6' = [a \in IPv6s |-> free_ipv6[a] +
                            Cardinality({m \in R : heap[m].fake6 = a})]
        /\ ipv4_to_mplx' = [a \in IPv4s |-> IF a \in gone4 THEN Null
                                            ELSE ipv4_to_mplx[a]]
        /\ ipv6_to_mplx' = [a \in IPv6s |-> IF a \in gone6 THEN Null
                                            ELSE ipv6_to_mplx[a]]
        /\ session_to_mplx' = [s \in Sessions |-> IF s \in ids THEN Null
                                                  ELSE session_to_mplx[s]]

(* Wrong variants: only the first bucket that holds the connection is      *)
(* cleaned, or emptiness is tested before the connection is removed.       *)
DelConnectionByClientId_OneBucket(c) ==
    LET m == client_to_mplx[c]
    IN  /\ m # Null
        /\ client_to_mplx' = [client_to_mplx EXCEPT ![c] = Null]
        /\ sending' = [sending EXCEPT ![m] = @ \ {c}]
        /\ receiving' = [receiving EXCEPT ![m] =
                           IF c \in sending[m] THEN @ ELSE @ \ {c}]
        /\ ReleaseSessionIfEmpty({m}, sending', receiving')
        /\ UNCHANGED <<now, heap, conn, sweep>>

DelConnectionByClientId_ReleaseFirst(c) ==
    LET m == client_to_mplx[c]
    IN  /\ m # Null
        /\ client_to_mplx' = [client_to_mplx EXCEPT ![c] = Null]
        /\ sending' = [sending EXCEPT ![m] = @ \ {c}]
        /\ receiving' = [receiving EXCEPT ![m] = @ \ {c}]
        /\ ReleaseSessionIfEmpty({m}, sending, receiving)
        /\ UNCHANGED <<now, heap, conn, sweep>>

DelConnectionByClientId(c) ==
    LET m == client_to_mplx[c]
    IN  /\ m # Null
        /\ client_to_mplx' = [client_to_mplx EXCEPT ![c] = Null]
        /\ sending' = [sending EXCEPT ![m] = @ \ {c}]
        /\ receiving' = [receiving EXCEPT ![m] = @ \ {c}]
        /\ ReleaseSessionIfEmpty({m}, sending', receiving')
        /\ UNCHANGED <<now, heap, conn, sweep>>

(***************************************************************************)
(* UpdateConnectionsStatus, under the shared lock: every live multiplexer  *)
(* re-sorts its connections and drops the expired ones.  Nothing is left   *)
(* to do when nothing expired and no multiplexer is empty.                 *)
(***************************************************************************)
SweepBuckets ==
    LET live == {m \in Mplx : Live(m)}
        held == UNION {Held(m) : m \in live}
    IN  /\ ~sweep.pending
        /\ \E t \in {i \in {now, now + 1} : i <= MaxTime} :
           \E r \in [held -> ClockReads(t)] :
             LET expired == {c \in held : IsExpired(conn[c], r[c].expired)}
                 snd(m) == {c \in Held(m) \ expired : PlacedSending(conn[c], r[c])}
                 rcv(m) == {c \in Held(m) \ expired : PlacedReceiving(conn[c], r[c])}
                 emptied == {m \in live : snd(m) = {} /\ rcv(m) = {}}
             IN  /\ sending' = [m \in Mplx |-> IF m \in live THEN snd(m)
                                               ELSE sending[m]]
                 /\ receiving' = [m \in Mplx |-> IF m \in live THEN rcv(m)
                                                 ELSE receiving[m]]
                 /\ sweep' = IF expired = {} /\ emptied = {} THEN SweepIdle
                             ELSE [pending |-> TRUE, expired |-> expired,
                                   emptied |-> emptied]
                 /\ now' = t
        /\ UNCHANGED <<free_ipv4, free_ipv6, indexes, heap, conn>>

(* Wrong variants: the client index keeps the expired connections, or the  *)
(* emptied sessions are never released.                                    *)
SweepCommit_KeepIndex ==
    /\ sweep.pending
    /\ ReleaseSessionIfEmpty(sweep.emptied, sending, receiving)
    /\ sweep' = SweepIdle
    /\ UNCHANGED <<now, client_to_mplx, heap, sending, receiving, conn>>

SweepCommit_KeepSessions ==
    /\ sweep.pending
    /\ client_to_mplx' = [c \in Clients |-> IF c \in sweep.expired THEN Null
                                            ELSE client_to_mplx[c]]
    /\ sweep' = SweepIdle
    /\ UNCHANGED <<now, free_ipv4, free_ipv6, session_to_mplx, ipv4_to_mplx,
                   ipv6_to_mplx, heap, sending, receiving, conn>>

(* UpdateConnectionsStatus, under the exclusive lock taken afterwards.     *)
SweepCommit ==
    /\ sweep.pending
    /\ client_to_mplx' = [c \in Clients |-> IF c \in sweep.expired THEN Null
                                            ELSE client_to_mplx[c]]
    /\ ReleaseSessionIfEmpty(sweep.emptied, sending, receiving)
    /\ sweep' = SweepIdle
    /\ UNCHANGED <<now, heap, sending, receiving, conn>>

Tick ==
    /\ now < MaxTime
    /\ now' = now + 1
    /\ UNCHANGED <<free_ipv4, free_ipv6, indexes, heap, sending, receiving,
                   conn, sweep>>

NatNext ==
    \/ \E c \in Clients, s \in Sessions, u \in Users, p \in Profiles :
          AddConnection(c, s, u, p)
    \/ \E c \in Clients : DelConnectionByClientId(c)
    \/ SweepBuckets
    \/ SweepCommit
    \/ Tick

NatSpec == NatInit /\ [][NatNext]_natVars

(***************************************************************************)
(* The updater thread calls UpdateConnectionsStatus every second for as    *)
(* long as the server runs, and time passes.                               *)
(***************************************************************************)
NatFairness ==
    /\ WF_natVars(Tick)
    /\ WF_natVars(SweepBuckets)
    /\ WF_natVars(SweepCommit)

FairNatSpec == NatSpec /\ NatFairness

-----------------------------------------------------------------------------
(* Properties                                                              *)

(* The type of every variable: the free vectors hold each address some     *)
(* number of times, indexes hold built multiplexers or nothing, buckets    *)
(* hold accepted connections.                                              *)
NatTypeOK ==
    /\ now \in 0..MaxTime
    /\ free_ipv4 \in [IPv4s -> Nat]
    /\ free_ipv6 \in [IPv6s -> Nat]
    /\ session_to_mplx \in [Sessions -> Mplx \cup {Null}]
    /\ ipv4_to_mplx \in [IPv4s -> Mplx \cup {Null}]
    /\ ipv6_to_mplx \in [IPv6s -> Mplx \cup {Null}]
    /\ client_to_mplx \in [Clients -> Mplx \cup {Null}]
    /\ heap \in [Mplx -> MplxData \cup {Null}]
    /\ sending \in [Mplx -> SUBSET Clients]
    /\ receiving \in [Mplx -> SUBSET Clients]
    /\ conn \in [Clients -> ClientConnection \cup {Null}]
    /\ sweep \in [pending : BOOLEAN, expired : SUBSET Clients,
                  emptied : SUBSET Mplx]

(* No lease is lost or given twice: an address is in the free vector       *)
(* exactly once when no live session holds it and not at all when one      *)
(* does, and the address indexes name exactly the live session that holds  *)
(* it (Table::AddConnection, Table::ReleaseSessionIfEmpty).                *)
AddressConservation ==
    /\ \A a \in IPv4s : free_ipv4[a] = IF ipv4_to_mplx[a] = Null THEN 1 ELSE 0
    /\ \A a \in IPv6s : free_ipv6[a] = IF ipv6_to_mplx[a] = Null THEN 1 ELSE 0
    /\ \A a \in IPv4s, m \in Mplx :
          ipv4_to_mplx[a] = m <=> (Live(m) /\ heap[m].fake4 = a)
    /\ \A a \in IPv6s, m \in Mplx :
          ipv6_to_mplx[a] = m <=> (Live(m) /\ heap[m].fake6 = a)

(* A connection in a bucket is routed: its multiplexer is the live one of  *)
(* its session and client_to_mplx_ leads to it.  An entry of               *)
(* client_to_mplx_ whose connection is in no bucket is one the running     *)
(* sweep has expired and is about to erase (GetMultiplexerByClientId).     *)
ClientRouting ==
    \A c \in Clients, m \in Mplx :
       /\ c \in Held(m) => client_to_mplx[c] = m /\ Live(m)
       /\ client_to_mplx[c] = m => c \in Held(m) \/ c \in sweep.expired

(* No session outlives its connections, whatever AddConnection and         *)
(* DelConnectionByClientId do between the two locks of the sweep: a live   *)
(* session without connections is one the running sweep will release.      *)
NoGhostSession ==
    \A m \in Mplx : Live(m) /\ Held(m) = {} => m \in sweep.emptied

(* A session carries the connections of one user only: joining by          *)
(* session_id never crosses users, not even when an id is reused after the *)
(* release of its first session (the username check of AddConnection).     *)
UserIsolation ==
    \A m \in Mplx : \A c \in Held(m) : conn[c].username = heap[m].username

(* A multiplexer stops being live, and so gives its addresses back, only   *)
(* in a step that leaves it without connections: no client loses its lease *)
(* to a sweep that decided before the client joined.                       *)
ReleasedOnlyWhenEmpty ==
    [][\A m \in Mplx : Live(m) /\ ~Live(m)' => Held(m)' = {}]_natVars

(* The sweep and AddConnection never lose a connection: it leaves the      *)
(* buckets only by DelConnectionByClientId or once its ttl is over, even   *)
(* though the clock moves between the role checks of PlaceByRole.          *)
NeverDropped ==
    [][/\ \A m \in Mplx : \A c \in Held(m) \ Held(m)' :
             client_to_mplx'[c] = Null \/ IsExpired(conn[c], now')
       /\ \A c \in Clients : conn[c] = Null /\ conn'[c] # Null =>
             \E m \in Mplx : c \in Held(m)']_natVars

(* While the table changes, no lease and no connection is lost.            *)
NothingLost == ReleasedOnlyWhenEmpty /\ NeverDropped

(* A connection with a ttl that ends within the explored time is out of    *)
(* the table in the end, and for good.                                     *)
ExpiredLeave ==
    \A c \in Clients :
       (/\ conn[c] # Null
        /\ conn[c].ttl # 0
        /\ conn[c].accepted_at + conn[c].ttl <= MaxTime)
       ~> [](client_to_mplx[c] = Null)

(* No lease leaks: once every connection the table holds has an end (and   *)
(* stays so), all addresses are back in the free vectors.                  *)
LeasesReturn ==
    <>[](\A c \in Clients :
           client_to_mplx[c] = Null \/ IsExpired(conn[c], MaxTime))
    => <>[](/\ \A a \in IPv4s : free_ipv4[a] = 1
            /\ \A a \in IPv6s : free_ipv6[a] = 1)

(* What has expired is gone in the end, connections and leases.            *)
TableDrains == ExpiredLeave /\ LeasesReturn

-----------------------------------------------------------------------------
(* The table implements VpnSessions: the lease of a session id is what its *)
(* multiplexer holds, its members are the connections in the buckets.      *)
LeaseOf(s) ==
    LET m == session_to_mplx[s]
    IN  IF m = Null THEN Null
        ELSE [owner |-> heap[m].username, ip4 |-> heap[m].fake4,
              ip6 |-> heap[m].fake6, members |-> Held(m)]

Abstract == INSTANCE VpnSessions WITH
    lease <- [s \in Sessions |-> LeaseOf(s)],
    user <- [c \in Clients |-> IF conn[c] = Null THEN Null
                               ELSE conn[c].username]

(* Every step of the table is a step of the promised session service, and  *)
(* under the updater's fairness a session left without members ends unless *)
(* somebody joins it first.                                                *)
ImplementsFairVpnSessions == Abstract!FairVpnSpec
=============================================================================
