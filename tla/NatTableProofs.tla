--------------------------- MODULE NatTableProofs ---------------------------
(***************************************************************************)
(* Proofs about NatTable, for any sets of clients, sessions, users and     *)
(* addresses and any clock bound.                                          *)
(***************************************************************************)
EXTENDS NatTable, FiniteSetTheorems, TLAPS

(* An entry of session_to_mplx_ is filed under the id of its multiplexer.  *)
SessionIndexOK ==
    \A s \in Sessions : session_to_mplx[s] # Null =>
        /\ heap[session_to_mplx[s]] # Null
        /\ heap[session_to_mplx[s]].session_id = s

(* Whatever the buckets or the client index mention has been built.        *)
AcceptedOK ==
    \A c \in Clients, m \in Mplx :
        /\ c \in Held(m) => conn[c] # Null
        /\ client_to_mplx[c] = m => heap[m] # Null /\ conn[c] # Null

(* What the locals of the sweep are known to mean between its two locks.   *)
SweepOK ==
    /\ ~sweep.pending => sweep.expired = {} /\ sweep.emptied = {}
    /\ \A c \in sweep.expired :
          conn[c] # Null /\ \A m \in Mplx : c \notin Held(m)
    /\ \A m \in sweep.emptied : heap[m] # Null

(* The inductive invariant.                                                *)
NatInv ==
    /\ NatTypeOK
    /\ SessionIndexOK
    /\ AddressConservation
    /\ AcceptedOK
    /\ SweepOK
    /\ ClientRouting
    /\ NoGhostSession
    /\ UserIsolation

-----------------------------------------------------------------------------
(* At most one releasable multiplexer holds an address, so ReleaseSession- *)
(* IfEmpty pushes an address at most once.                                 *)
LEMMA AtMostOne ==
    ASSUME NEW S, NEW x, \A y \in S : y = x
    PROVE  Cardinality(S) = IF x \in S THEN 1 ELSE 0
<1>1. CASE x \in S
  <2>1. S = {x}
    BY <1>1
  <2> QED
    BY <2>1, <1>1, FS_Singleton
<1>2. CASE x \notin S
  <2>1. S = {}
    BY <1>2
  <2> QED
    BY <2>1, <1>2, FS_EmptySet
<1> QED
  BY <1>1, <1>2

(* ReleaseSessionIfEmpty ends exactly the releasable sessions and keeps    *)
(* the books on addresses and session ids.                                 *)
LEMMA ReleaseEffect ==
    ASSUME NatTypeOK, SessionIndexOK, AddressConservation,
           NEW E \in SUBSET Mplx, NEW snd, NEW rcv,
           \A m \in E : heap[m] # Null,
           ReleaseSessionIfEmpty(E, snd, rcv), heap' = heap
    PROVE  /\ \A m \in Mplx :
                 Live(m)' <=> Live(m) /\ m \notin ReleasableIn(E, snd, rcv)
           /\ free_ipv4' \in [IPv4s -> Nat]
           /\ free_ipv6' \in [IPv6s -> Nat]
           /\ session_to_mplx' \in [Sessions -> Mplx \cup {Null}]
           /\ ipv4_to_mplx' \in [IPv4s -> Mplx \cup {Null}]
           /\ ipv6_to_mplx' \in [IPv6s -> Mplx \cup {Null}]
           /\ SessionIndexOK'
           /\ AddressConservation'
<1> DEFINE R == ReleasableIn(E, snd, rcv)
           gone4 == {heap[m].fake4 : m \in R}
           gone6 == {heap[m].fake6 : m \in R}
           ids == {heap[m].session_id : m \in R}
<1>1. /\ free_ipv4' = [a \in IPv4s |-> free_ipv4[a] +
                          Cardinality({m \in R : heap[m].fake4 = a})]
      /\ free_ipv6' = [a \in IPv6s |-> free_ipv6[a] +
                          Cardinality({m \in R : heap[m].fake6 = a})]
      /\ ipv4_to_mplx' = [a \in IPv4s |-> IF a \in gone4 THEN Null
                                          ELSE ipv4_to_mplx[a]]
      /\ ipv6_to_mplx' = [a \in IPv6s |-> IF a \in gone6 THEN Null
                                          ELSE ipv6_to_mplx[a]]
      /\ session_to_mplx' = [s \in Sessions |-> IF s \in ids THEN Null
                                                ELSE session_to_mplx[s]]
  BY DEF ReleaseSessionIfEmpty
<1>2. \A m \in R : m \in Mplx /\ heap[m] # Null /\ Live(m)
  BY DEF ReleasableIn, Live
<1> HIDE DEF R
<1>3. \A m \in Mplx : heap[m] # Null => heap[m] \in MplxData
  BY DEF NatTypeOK
<1>4. Null \notin Mplx
  BY NullFresh
<1>5. /\ session_to_mplx \in [Sessions -> Mplx \cup {Null}]
      /\ ipv4_to_mplx \in [IPv4s -> Mplx \cup {Null}]
      /\ ipv6_to_mplx \in [IPv6s -> Mplx \cup {Null}]
  BY DEF NatTypeOK
<1>6. \A m \in Mplx : Live(m) => (heap[m].session_id \in ids <=> m \in R)
  BY <1>2, <1>3 DEF Live
<1>7. \A m \in Mplx : Live(m)' <=> Live(m) /\ m \notin R
  BY <1>1, <1>3, <1>4, <1>6 DEF Live, MplxData
<1>8. \A m \in Mplx, a \in IPv4s :
         Live(m) /\ heap[m].fake4 = a => (a \in gone4 <=> m \in R)
  BY <1>2 DEF AddressConservation
<1>9. \A m \in Mplx, a \in IPv6s :
         Live(m) /\ heap[m].fake6 = a => (a \in gone6 <=> m \in R)
  BY <1>2 DEF AddressConservation
<1>10. SessionIndexOK'
  BY <1>1, <1>5 DEF SessionIndexOK
<1>11. ASSUME NEW a \in IPv4s
       PROVE  free_ipv4'[a] = IF ipv4_to_mplx'[a] = Null THEN 1 ELSE 0
  <2>1. free_ipv4[a] = IF ipv4_to_mplx[a] = Null THEN 1 ELSE 0
    BY DEF AddressConservation
  <2>2. \A y \in {m \in R : heap[m].fake4 = a} : y = ipv4_to_mplx[a]
    BY <1>2 DEF AddressConservation
  <2>3. Cardinality({m \in R : heap[m].fake4 = a}) =
          IF ipv4_to_mplx[a] \in {m \in R : heap[m].fake4 = a} THEN 1 ELSE 0
    BY <2>2, AtMostOne
  <2>4. a \in gone4 <=> ipv4_to_mplx[a] \in {m \in R : heap[m].fake4 = a}
    BY <1>2 DEF AddressConservation
  <2>5. Null \notin R
    BY <1>2, <1>4
  <2> QED
    BY <1>1, <2>1, <2>3, <2>4, <2>5
<1>12. ASSUME NEW a \in IPv6s
       PROVE  free_ipv6'[a] = IF ipv6_to_mplx'[a] = Null THEN 1 ELSE 0
  <2>1. free_ipv6[a] = IF ipv6_to_mplx[a] = Null THEN 1 ELSE 0
    BY DEF AddressConservation
  <2>2. \A y \in {m \in R : heap[m].fake6 = a} : y = ipv6_to_mplx[a]
    BY <1>2 DEF AddressConservation
  <2>3. Cardinality({m \in R : heap[m].fake6 = a}) =
          IF ipv6_to_mplx[a] \in {m \in R : heap[m].fake6 = a} THEN 1 ELSE 0
    BY <2>2, AtMostOne
  <2>4. a \in gone6 <=> ipv6_to_mplx[a] \in {m \in R : heap[m].fake6 = a}
    BY <1>2 DEF AddressConservation
  <2>5. Null \notin R
    BY <1>2, <1>4
  <2> QED
    BY <1>1, <2>1, <2>3, <2>4, <2>5
<1>13. \A a \in IPv4s, m \in Mplx :
          ipv4_to_mplx'[a] = m <=> (Live(m)' /\ heap'[m].fake4 = a)
  <2>1. \A a \in IPv4s, m \in Mplx :
          ipv4_to_mplx[a] = m <=> (Live(m) /\ heap[m].fake4 = a)
    BY DEF AddressConservation
  <2> QED
    BY <1>1, <1>4, <1>7, <1>8, <2>1
<1>14. \A a \in IPv6s, m \in Mplx :
          ipv6_to_mplx'[a] = m <=> (Live(m)' /\ heap'[m].fake6 = a)
  <2>1. \A a \in IPv6s, m \in Mplx :
          ipv6_to_mplx[a] = m <=> (Live(m) /\ heap[m].fake6 = a)
    BY DEF AddressConservation
  <2> QED
    BY <1>1, <1>4, <1>7, <1>9, <2>1
<1>15. AddressConservation'
  BY <1>11, <1>12, <1>13, <1>14 DEF AddressConservation
<1>16. free_ipv4' \in [IPv4s -> Nat] /\ free_ipv6' \in [IPv6s -> Nat]
  BY <1>1, <1>11, <1>12
<1> QED
  BY <1>1, <1>5, <1>7, <1>10, <1>15, <1>16 DEF R

(* The two role checks read the clock in the order that leaves no gap:     *)
(* whatever happens in between, PlaceByRole puts a connection somewhere.   *)
LEMMA SomeRole ==
    ASSUME NEW k \in ClientConnection, NEW t \in Nat, now \in Nat,
           NEW r \in ClockReads(t)
    PROVE  PlacedSending(k, r) \/ PlacedReceiving(k, r)
<1>1. r.sending \in Nat /\ r.receiving \in Nat /\ r.sending <= r.receiving
  BY DEF ClockReads
<1>2. k.accepted_at + k.send \in Nat
  BY DEF ClientConnection
<1> QED
  BY <1>1, <1>2 DEF PlacedSending, PlacedReceiving, IsSending, IsReceiving

(* A connection that may start now is a ClientConnection.                  *)
LEMMA NewConnectionType ==
    ASSUME NatTypeOK, NEW u \in Users, NEW p \in Profiles
    PROVE  /\ NewConnection(u, p) \in ClientConnection
           /\ NewConnection(u, p) # Null
           /\ NewConnection(u, p).username = u
<1>1. now \in Nat
  BY MaxTimeType DEF NatTypeOK
<1>2. p.send \in Nat /\ p.ttl \in Nat
  BY ProfileType
<1> QED
  BY <1>1, <1>2, NullFresh DEF NewConnection, ClientConnection

(* AddConnection adds the connection to the live session that s names, and  *)
(* to no other.                                                            *)
LEMMA JoinEffect ==
    ASSUME NatInv, NEW c \in Clients, NEW s \in Sessions, NEW u \in Users,
           NEW p \in Profiles, JoinSession(c, s, u, p)
    PROVE  /\ session_to_mplx[s] \in Mplx
           /\ Live(session_to_mplx[s])
           /\ heap[session_to_mplx[s]].username = u
           /\ conn[c] = Null
           /\ conn' = [conn EXCEPT ![c] = NewConnection(u, p)]
           /\ client_to_mplx' = [client_to_mplx EXCEPT ![c] = session_to_mplx[s]]
           /\ UNCHANGED <<free_ipv4, free_ipv6, session_to_mplx, ipv4_to_mplx,
                          ipv6_to_mplx, heap, sweep>>
           /\ now' \in 0..MaxTime
           /\ sending' \in [Mplx -> SUBSET Clients]
           /\ receiving' \in [Mplx -> SUBSET Clients]
           /\ \A x \in Mplx : Held(x)' = IF x = session_to_mplx[s]
                                         THEN Held(x) \cup {c} ELSE Held(x)
<1> DEFINE m == session_to_mplx[s]
           k == NewConnection(u, p)
<1> USE DEF NatInv
<1>1. m \in Mplx /\ m # Null /\ conn[c] = Null /\ heap[m].username = u
  BY DEF JoinSession, NatTypeOK
<1>2. Live(m)
  BY <1>1 DEF SessionIndexOK, Live
<1>3. k \in ClientConnection /\ k # Null /\ k.username = u
  BY NewConnectionType
<1>4. /\ conn' = [conn EXCEPT ![c] = k]
      /\ client_to_mplx' = [client_to_mplx EXCEPT ![c] = m]
      /\ UNCHANGED <<free_ipv4, free_ipv6, session_to_mplx, ipv4_to_mplx,
                     ipv6_to_mplx, heap, sweep>>
  BY DEF JoinSession
<1>5. PICK t \in {i \in {now, now + 1} : i <= MaxTime} : \E r \in ClockReads(t) :
         /\ sending' = [sending EXCEPT ![m] =
                          IF PlacedSending(k, r) THEN @ \cup {c} ELSE @]
         /\ receiving' = [receiving EXCEPT ![m] =
                          IF PlacedReceiving(k, r) THEN @ \cup {c} ELSE @]
         /\ now' = t
  BY DEF JoinSession
<1>6. PICK r \in ClockReads(t) :
         /\ sending' = [sending EXCEPT ![m] =
                          IF PlacedSending(k, r) THEN @ \cup {c} ELSE @]
         /\ receiving' = [receiving EXCEPT ![m] =
                          IF PlacedReceiving(k, r) THEN @ \cup {c} ELSE @]
         /\ now' = t
  BY <1>5
<1>7. now \in Nat /\ t \in Nat /\ t \in 0..MaxTime
  BY MaxTimeType DEF NatTypeOK
<1>8. PlacedSending(k, r) \/ PlacedReceiving(k, r)
  BY <1>3, <1>7, SomeRole
<1> HIDE DEF k
<1>9. \A x \in Mplx : Held(x)' = IF x = m THEN Held(x) \cup {c} ELSE Held(x)
  BY <1>1, <1>6, <1>8 DEF Held, NatTypeOK
<1>10. /\ sending' \in [Mplx -> SUBSET Clients]
       /\ receiving' \in [Mplx -> SUBSET Clients]
  BY <1>1, <1>6 DEF NatTypeOK
<1> QED
  BY <1>1, <1>2, <1>4, <1>6, <1>7, <1>9, <1>10 DEF k

LEMMA JoinKeepsInv ==
    ASSUME NatInv, NEW c \in Clients, NEW s \in Sessions, NEW u \in Users,
           NEW p \in Profiles, JoinSession(c, s, u, p)
    PROVE  NatInv'
<1> DEFINE m == session_to_mplx[s]
           k == NewConnection(u, p)
<1> USE DEF NatInv
<1>1. m \in Mplx /\ Live(m) /\ heap[m].username = u /\ conn[c] = Null
  BY JoinEffect
<1>2. m # Null
  BY <1>1, NullFresh
<1>3. k \in ClientConnection /\ k # Null /\ k.username = u
  BY NewConnectionType
<1>4. /\ conn' = [conn EXCEPT ![c] = k]
      /\ client_to_mplx' = [client_to_mplx EXCEPT ![c] = m]
      /\ UNCHANGED <<free_ipv4, free_ipv6, session_to_mplx, ipv4_to_mplx,
                     ipv6_to_mplx, heap, sweep>>
  BY JoinEffect
<1> HIDE DEF k
<1>6. /\ now' \in 0..MaxTime
      /\ sending' \in [Mplx -> SUBSET Clients]
      /\ receiving' \in [Mplx -> SUBSET Clients]
  BY JoinEffect
<1>9. \A x \in Mplx : Held(x)' = IF x = m THEN Held(x) \cup {c} ELSE Held(x)
  BY JoinEffect
<1>10. \A x \in Mplx : Live(x)' <=> Live(x)
  BY <1>4 DEF Live
<1>11. NatTypeOK'
  BY <1>1, <1>3, <1>4, <1>6 DEF NatTypeOK
<1>12. SessionIndexOK'
  BY <1>4 DEF SessionIndexOK
<1>13. AddressConservation'
  BY <1>4 DEF AddressConservation, Live
<1>14. c \notin sweep.expired
  BY <1>1 DEF SweepOK
<1>15. \A x \in Mplx : c \notin Held(x)
  BY <1>1 DEF AcceptedOK
<1>16. /\ conn'[c] = k /\ client_to_mplx'[c] = m
       /\ \A d \in Clients : d # c => conn'[d] = conn[d]
                                      /\ client_to_mplx'[d] = client_to_mplx[d]
  BY <1>4 DEF NatTypeOK
<1>17. AcceptedOK'
  BY <1>1, <1>2, <1>3, <1>4, <1>9, <1>16 DEF AcceptedOK, Live
<1>18. SweepOK'
  BY <1>4, <1>9, <1>14, <1>16 DEF SweepOK, NatTypeOK
<1>19. ClientRouting'
  BY <1>1, <1>2, <1>4, <1>9, <1>10, <1>15, <1>16 DEF ClientRouting
<1>20. NoGhostSession'
  BY <1>4, <1>9, <1>10 DEF NoGhostSession
<1>21. UserIsolation'
  <2>1. \A x \in Mplx : Held(x) \subseteq Clients
    BY DEF Held, NatTypeOK
  <2> QED
    BY <1>1, <1>3, <1>4, <1>9, <1>15, <1>16, <2>1 DEF UserIsolation
<1> QED
  BY <1>11, <1>12, <1>13, <1>17, <1>18, <1>19, <1>20, <1>21

(* AddConnection builds a multiplexer, with c as its one connection, for an *)
(* id that names no session and a pair of free addresses.                  *)
LEMMA CreateEffect ==
    ASSUME NatInv, NEW c \in Clients, NEW s \in Sessions, NEW u \in Users,
           NEW p \in Profiles, CreateSession(c, s, u, p)
    PROVE  /\ conn[c] = Null /\ session_to_mplx[s] = Null
           /\ conn' = [conn EXCEPT ![c] = NewConnection(u, p)] /\ sweep' = sweep
           /\ now' \in 0..MaxTime
           /\ sending' \in [Mplx -> SUBSET Clients]
           /\ receiving' \in [Mplx -> SUBSET Clients]
           /\ \E m \in Mplx, a4 \in IPv4s, a6 \in IPv6s :
                /\ heap[m] = Null
                /\ Held(m) = {}
                /\ free_ipv4[a4] = 1 /\ ipv4_to_mplx[a4] = Null
                /\ free_ipv6[a6] = 1 /\ ipv6_to_mplx[a6] = Null
                /\ heap' = [heap EXCEPT ![m] = [username |-> u, session_id |-> s,
                                                fake4 |-> a4, fake6 |-> a6]]
                /\ free_ipv4' = [free_ipv4 EXCEPT ![a4] = @ - 1]
                /\ free_ipv6' = [free_ipv6 EXCEPT ![a6] = @ - 1]
                /\ session_to_mplx' = [session_to_mplx EXCEPT ![s] = m]
                /\ ipv4_to_mplx' = [ipv4_to_mplx EXCEPT ![a4] = m]
                /\ ipv6_to_mplx' = [ipv6_to_mplx EXCEPT ![a6] = m]
                /\ client_to_mplx' = [client_to_mplx EXCEPT ![c] = m]
                /\ \A x \in Mplx : Held(x)' = IF x = m THEN {c} ELSE Held(x)
<1> DEFINE k == NewConnection(u, p)
<1> USE DEF NatInv
<1>1. conn[c] = Null /\ session_to_mplx[s] = Null
  BY DEF CreateSession
<1>2. k \in ClientConnection /\ k # Null /\ k.username = u
  BY NewConnectionType
<1>3. conn' = [conn EXCEPT ![c] = k] /\ sweep' = sweep
  BY DEF CreateSession
<1>4. PICK m \in Mplx, a4 \in IPv4s, a6 \in IPv6s :
         /\ heap[m] = Null
         /\ free_ipv4[a4] > 0
         /\ free_ipv6[a6] > 0
         /\ heap' = [heap EXCEPT ![m] = [username |-> u, session_id |-> s,
                                         fake4 |-> a4, fake6 |-> a6]]
         /\ free_ipv4' = [free_ipv4 EXCEPT ![a4] = @ - 1]
         /\ free_ipv6' = [free_ipv6 EXCEPT ![a6] = @ - 1]
         /\ session_to_mplx' = [session_to_mplx EXCEPT ![s] = m]
         /\ ipv4_to_mplx' = [ipv4_to_mplx EXCEPT ![a4] = m]
         /\ ipv6_to_mplx' = [ipv6_to_mplx EXCEPT ![a6] = m]
         /\ client_to_mplx' = [client_to_mplx EXCEPT ![c] = m]
         /\ \E t \in {i \in {now, now + 1} : i <= MaxTime} :
              \E r \in ClockReads(t) :
                 /\ sending' = [sending EXCEPT ![m] =
                                  IF PlacedSending(k, r) THEN {c} ELSE {}]
                 /\ receiving' = [receiving EXCEPT ![m] =
                                  IF PlacedReceiving(k, r) THEN {c} ELSE {}]
                 /\ now' = t
  BY DEF CreateSession
<1>5. PICK t \in {i \in {now, now + 1} : i <= MaxTime} :
         \E r \in ClockReads(t) :
            /\ sending' = [sending EXCEPT ![m] =
                             IF PlacedSending(k, r) THEN {c} ELSE {}]
            /\ receiving' = [receiving EXCEPT ![m] =
                             IF PlacedReceiving(k, r) THEN {c} ELSE {}]
            /\ now' = t
  BY <1>4
<1>6. PICK r \in ClockReads(t) :
         /\ sending' = [sending EXCEPT ![m] =
                          IF PlacedSending(k, r) THEN {c} ELSE {}]
         /\ receiving' = [receiving EXCEPT ![m] =
                          IF PlacedReceiving(k, r) THEN {c} ELSE {}]
         /\ now' = t
  BY <1>5
<1>7. now \in Nat /\ t \in Nat /\ t \in 0..MaxTime
  BY MaxTimeType DEF NatTypeOK
<1>8. PlacedSending(k, r) \/ PlacedReceiving(k, r)
  BY <1>2, <1>7, SomeRole
<1> HIDE DEF k
<1>9. Held(m) = {}
  BY <1>4 DEF ClientRouting, Live, Held, NatTypeOK
<1>10. \A x \in Mplx : Held(x)' = IF x = m THEN {c} ELSE Held(x)
  BY <1>6, <1>8 DEF Held, NatTypeOK
<1>11. /\ sending' \in [Mplx -> SUBSET Clients]
       /\ receiving' \in [Mplx -> SUBSET Clients]
  BY <1>6 DEF NatTypeOK
<1>12. free_ipv4[a4] = 1 /\ ipv4_to_mplx[a4] = Null
  <2>1. free_ipv4[a4] = IF ipv4_to_mplx[a4] = Null THEN 1 ELSE 0
    BY DEF AddressConservation
  <2> QED
    BY <1>4, <2>1
<1>13. free_ipv6[a6] = 1 /\ ipv6_to_mplx[a6] = Null
  <2>1. free_ipv6[a6] = IF ipv6_to_mplx[a6] = Null THEN 1 ELSE 0
    BY DEF AddressConservation
  <2> QED
    BY <1>4, <2>1
<1>14. conn' = [conn EXCEPT ![c] = NewConnection(u, p)]
  BY <1>3 DEF k
<1>15. now' \in 0..MaxTime
  BY <1>6, <1>7
<1> QED
  BY <1>1, <1>3, <1>4, <1>9, <1>10, <1>11, <1>12, <1>13, <1>14, <1>15

LEMMA CreateKeepsInv ==
    ASSUME NatInv, NEW c \in Clients, NEW s \in Sessions, NEW u \in Users,
           NEW p \in Profiles, CreateSession(c, s, u, p)
    PROVE  NatInv'
<1> DEFINE k == NewConnection(u, p)
<1> USE DEF NatInv
<1>1. conn[c] = Null /\ session_to_mplx[s] = Null
  BY CreateEffect
<1>2. k \in ClientConnection /\ k # Null /\ k.username = u
  BY NewConnectionType
<1>3. conn' = [conn EXCEPT ![c] = k] /\ sweep' = sweep
  BY CreateEffect
<1> HIDE DEF k
<1>4. PICK m \in Mplx, a4 \in IPv4s, a6 \in IPv6s :
         /\ heap[m] = Null
         /\ Held(m) = {}
         /\ free_ipv4[a4] = 1 /\ ipv4_to_mplx[a4] = Null
         /\ free_ipv6[a6] = 1 /\ ipv6_to_mplx[a6] = Null
         /\ heap' = [heap EXCEPT ![m] = [username |-> u, session_id |-> s,
                                         fake4 |-> a4, fake6 |-> a6]]
         /\ free_ipv4' = [free_ipv4 EXCEPT ![a4] = @ - 1]
         /\ free_ipv6' = [free_ipv6 EXCEPT ![a6] = @ - 1]
         /\ session_to_mplx' = [session_to_mplx EXCEPT ![s] = m]
         /\ ipv4_to_mplx' = [ipv4_to_mplx EXCEPT ![a4] = m]
         /\ ipv6_to_mplx' = [ipv6_to_mplx EXCEPT ![a6] = m]
         /\ client_to_mplx' = [client_to_mplx EXCEPT ![c] = m]
         /\ \A x \in Mplx : Held(x)' = IF x = m THEN {c} ELSE Held(x)
  BY CreateEffect
<1>6. /\ now' \in 0..MaxTime
      /\ sending' \in [Mplx -> SUBSET Clients]
      /\ receiving' \in [Mplx -> SUBSET Clients]
  BY CreateEffect
<1>9. Held(m) = {}
  BY <1>4
<1>10. \A x \in Mplx : Held(x)' = IF x = m THEN {c} ELSE Held(x)
  BY <1>4
<1>11. /\ heap'[m] \in MplxData /\ heap'[m] # Null
       /\ heap'[m].username = u /\ heap'[m].session_id = s
       /\ heap'[m].fake4 = a4 /\ heap'[m].fake6 = a6
       /\ \A x \in Mplx : x # m => heap'[x] = heap[x]
  BY <1>4, NullFresh DEF MplxData, NatTypeOK
<1>12. /\ session_to_mplx'[s] = m
       /\ \A z \in Sessions : z # s => session_to_mplx'[z] = session_to_mplx[z]
  BY <1>4 DEF NatTypeOK
<1>13. Null \notin Mplx
  BY NullFresh
<1>14. \A x \in Mplx : heap[x] # Null => heap[x].session_id \in Sessions
  BY DEF NatTypeOK, MplxData
<1>15. \A x \in Mplx : Live(x)' <=> (x = m \/ Live(x))
  <2>1. Live(m)'
    BY <1>11, <1>12 DEF Live
  <2>2. ASSUME NEW x \in Mplx, x # m PROVE Live(x)' <=> Live(x)
    BY <1>1, <1>11, <1>12, <1>13, <1>14, <2>2 DEF Live
  <2> QED
    BY <2>1, <2>2
<1>16. free_ipv4[a4] = 1 /\ ipv4_to_mplx[a4] = Null
  BY <1>4
<1>17. free_ipv6[a6] = 1 /\ ipv6_to_mplx[a6] = Null
  BY <1>4
<1>18. NatTypeOK'
  <2>2. free_ipv4' \in [IPv4s -> Nat] /\ free_ipv6' \in [IPv6s -> Nat]
    BY <1>4, <1>16, <1>17 DEF NatTypeOK
  <2>4. heap' \in [Mplx -> MplxData \cup {Null}]
    BY <1>4, <1>11 DEF NatTypeOK
  <2> QED
    BY <1>2, <1>3, <1>4, <1>6, <2>2, <2>4 DEF NatTypeOK
<1>19. SessionIndexOK'
  BY <1>4, <1>11, <1>12, <1>13 DEF SessionIndexOK, NatTypeOK
<1>20. AddressConservation'
  <2>1. \A a \in IPv4s :
          free_ipv4'[a] = IF ipv4_to_mplx'[a] = Null THEN 1 ELSE 0
    BY <1>4, <1>13, <1>16 DEF AddressConservation, NatTypeOK
  <2>2. \A a \in IPv6s :
          free_ipv6'[a] = IF ipv6_to_mplx'[a] = Null THEN 1 ELSE 0
    BY <1>4, <1>13, <1>17 DEF AddressConservation, NatTypeOK
  <2>3. ~Live(m)
    BY <1>4 DEF Live
  <2>4. \A a \in IPv4s, x \in Mplx :
          ipv4_to_mplx'[a] = x <=> (Live(x)' /\ heap'[x].fake4 = a)
    <3>1. \A a \in IPv4s, x \in Mplx :
            ipv4_to_mplx[a] = x <=> (Live(x) /\ heap[x].fake4 = a)
      BY DEF AddressConservation
    <3>2. /\ ipv4_to_mplx'[a4] = m
          /\ \A a \in IPv4s : a # a4 => ipv4_to_mplx'[a] = ipv4_to_mplx[a]
      BY <1>4 DEF NatTypeOK
    <3> QED
      BY <1>11, <1>13, <1>15, <1>16, <2>3, <3>1, <3>2
  <2>5. \A a \in IPv6s, x \in Mplx :
          ipv6_to_mplx'[a] = x <=> (Live(x)' /\ heap'[x].fake6 = a)
    <3>1. \A a \in IPv6s, x \in Mplx :
            ipv6_to_mplx[a] = x <=> (Live(x) /\ heap[x].fake6 = a)
      BY DEF AddressConservation
    <3>2. /\ ipv6_to_mplx'[a6] = m
          /\ \A a \in IPv6s : a # a6 => ipv6_to_mplx'[a] = ipv6_to_mplx[a]
      BY <1>4 DEF NatTypeOK
    <3> QED
      BY <1>11, <1>13, <1>15, <1>17, <2>3, <3>1, <3>2
  <2> QED
    BY <2>1, <2>2, <2>4, <2>5 DEF AddressConservation
<1>21. c \notin sweep.expired
  BY <1>1 DEF SweepOK
<1>22. \A x \in Mplx : c \notin Held(x)
  BY <1>1 DEF AcceptedOK
<1>23. /\ conn'[c] = k /\ client_to_mplx'[c] = m
       /\ \A d \in Clients : d # c => conn'[d] = conn[d]
                                      /\ client_to_mplx'[d] = client_to_mplx[d]
  BY <1>3, <1>4 DEF NatTypeOK
<1>24. AcceptedOK'
  BY <1>2, <1>10, <1>11, <1>23 DEF AcceptedOK
<1>25. SweepOK'
  BY <1>3, <1>10, <1>11, <1>21, <1>23 DEF SweepOK, NatTypeOK
<1>26. ClientRouting'
  BY <1>3, <1>9, <1>10, <1>15, <1>22, <1>23 DEF ClientRouting
<1>27. NoGhostSession'
  BY <1>3, <1>10, <1>15 DEF NoGhostSession
<1>28. UserIsolation'
  <2>1. \A x \in Mplx : Held(x) \subseteq Clients
    BY DEF Held, NatTypeOK
  <2> QED
    BY <1>2, <1>10, <1>11, <1>22, <1>23, <2>1 DEF UserIsolation
<1> QED
  BY <1>18, <1>19, <1>20, <1>24, <1>25, <1>26, <1>27, <1>28

LEMMA DelKeepsInv ==
    ASSUME NatInv, NEW c \in Clients, DelConnectionByClientId(c)
    PROVE  NatInv'
<1> USE DEF NatInv
<1>1. PICK m \in Mplx : m = client_to_mplx[c] /\ heap[m] # Null
  BY DEF DelConnectionByClientId, NatTypeOK, AcceptedOK
<1> DEFINE R == ReleasableIn({m}, sending', receiving')
<1>2. /\ client_to_mplx' = [client_to_mplx EXCEPT ![c] = Null]
      /\ sending' = [sending EXCEPT ![m] = @ \ {c}]
      /\ receiving' = [receiving EXCEPT ![m] = @ \ {c}]
      /\ ReleaseSessionIfEmpty({m}, sending', receiving')
      /\ UNCHANGED <<now, heap, conn, sweep>>
  BY <1>1 DEF DelConnectionByClientId
<1>3. /\ \A x \in Mplx : Live(x)' <=> Live(x) /\ x \notin R
      /\ free_ipv4' \in [IPv4s -> Nat]
      /\ free_ipv6' \in [IPv6s -> Nat]
      /\ session_to_mplx' \in [Sessions -> Mplx \cup {Null}]
      /\ ipv4_to_mplx' \in [IPv4s -> Mplx \cup {Null}]
      /\ ipv6_to_mplx' \in [IPv6s -> Mplx \cup {Null}]
      /\ SessionIndexOK'
      /\ AddressConservation'
  <2>1. {m} \in SUBSET Mplx /\ \A x \in {m} : heap[x] # Null
    BY <1>1
  <2> QED
    BY <1>2, <2>1, ReleaseEffect
<1>4. \A x \in Mplx : Held(x)' = IF x = m THEN Held(x) \ {c} ELSE Held(x)
  BY <1>1, <1>2 DEF Held, NatTypeOK
<1>5. R = IF Held(m)' = {} /\ Live(m) THEN {m} ELSE {}
  BY <1>1 DEF ReleasableIn, Live, Held
<1>6. \A x \in Mplx : c \in Held(x) => x = m
  BY <1>1 DEF ClientRouting
<1>7. /\ client_to_mplx'[c] = Null
      /\ \A d \in Clients : d # c => client_to_mplx'[d] = client_to_mplx[d]
  BY <1>2 DEF NatTypeOK
<1>8. Null \notin Mplx
  BY NullFresh
<1> HIDE DEF R
<1>9. NatTypeOK'
  BY <1>1, <1>2, <1>3 DEF NatTypeOK
<1>10. AcceptedOK'
  BY <1>2, <1>4, <1>7, <1>8 DEF AcceptedOK
<1>11. SweepOK'
  BY <1>2, <1>4 DEF SweepOK
<1>12. ClientRouting'
  BY <1>1, <1>2, <1>3, <1>4, <1>5, <1>6, <1>7, <1>8 DEF ClientRouting
<1>13. NoGhostSession'
  BY <1>1, <1>2, <1>3, <1>4, <1>5 DEF NoGhostSession
<1>14. UserIsolation'
  BY <1>2, <1>4 DEF UserIsolation
<1> QED
  BY <1>3, <1>9, <1>10, <1>11, <1>12, <1>13, <1>14

LEMMA SweepCommitKeepsInv ==
    ASSUME NatInv, SweepCommit
    PROVE  NatInv'
<1> DEFINE R == ReleasableIn(sweep.emptied, sending, receiving)
<1> USE DEF NatInv
<1>1. /\ client_to_mplx' = [c \in Clients |-> IF c \in sweep.expired THEN Null
                                              ELSE client_to_mplx[c]]
      /\ ReleaseSessionIfEmpty(sweep.emptied, sending, receiving)
      /\ sweep' = SweepIdle
      /\ UNCHANGED <<now, heap, sending, receiving, conn>>
  BY DEF SweepCommit
<1>2. sweep.emptied \in SUBSET Mplx /\ \A x \in sweep.emptied : heap[x] # Null
  BY DEF NatTypeOK, SweepOK
<1>3. /\ \A x \in Mplx : Live(x)' <=> Live(x) /\ x \notin R
      /\ free_ipv4' \in [IPv4s -> Nat]
      /\ free_ipv6' \in [IPv6s -> Nat]
      /\ session_to_mplx' \in [Sessions -> Mplx \cup {Null}]
      /\ ipv4_to_mplx' \in [IPv4s -> Mplx \cup {Null}]
      /\ ipv6_to_mplx' \in [IPv6s -> Mplx \cup {Null}]
      /\ SessionIndexOK'
      /\ AddressConservation'
  BY <1>1, <1>2, ReleaseEffect
<1>4. \A x \in Mplx : Held(x)' = Held(x)
  BY <1>1 DEF Held
<1>5. \A x \in Mplx :
         x \in R <=> x \in sweep.emptied /\ Held(x) = {} /\ Live(x)
  BY <1>2 DEF ReleasableIn, Live, Held
<1>6. sweep'.pending = FALSE /\ sweep'.expired = {} /\ sweep'.emptied = {}
  BY <1>1 DEF SweepIdle
<1>7. Null \notin Mplx
  BY NullFresh
<1> HIDE DEF R
<1>8. NatTypeOK'
  <2>1. sweep' \in [pending : BOOLEAN, expired : SUBSET Clients,
                    emptied : SUBSET Mplx]
    BY <1>1 DEF SweepIdle
  <2> QED
    BY <1>1, <1>3, <2>1 DEF NatTypeOK
<1>9. AcceptedOK'
  BY <1>1, <1>4, <1>7 DEF AcceptedOK
<1>10. SweepOK'
  BY <1>6 DEF SweepOK
<1>11. ClientRouting'
  BY <1>1, <1>3, <1>4, <1>5, <1>6, <1>7 DEF ClientRouting, SweepOK
<1>12. NoGhostSession'
  BY <1>3, <1>4, <1>5, <1>6 DEF NoGhostSession
<1>13. UserIsolation'
  BY <1>1, <1>4 DEF UserIsolation
<1> QED
  BY <1>3, <1>8, <1>9, <1>10, <1>11, <1>12, <1>13

LEMMA TickKeepsInv ==
    ASSUME NatInv, Tick
    PROVE  NatInv'
<1> USE DEF NatInv, Tick, indexes
<1>1. NatTypeOK'
  BY MaxTimeType DEF NatTypeOK
<1>2. SessionIndexOK' /\ AddressConservation' /\ AcceptedOK' /\ SweepOK'
  BY DEF SessionIndexOK, AddressConservation, AcceptedOK, SweepOK, Live, Held
<1>3. ClientRouting' /\ NoGhostSession' /\ UserIsolation'
  BY DEF ClientRouting, NoGhostSession, UserIsolation, Live, Held
<1> QED
  BY <1>1, <1>2, <1>3

(* The first half of the sweep drops expired connections and no others,     *)
(* and finds the live sessions that are left without any.                  *)
LEMMA SweepEffect ==
    ASSUME NatInv, SweepBuckets
    PROVE  /\ ~sweep.pending
           /\ UNCHANGED <<free_ipv4, free_ipv6, indexes, heap, conn>>
           /\ now' \in 0..MaxTime
           /\ sending' \in [Mplx -> SUBSET Clients]
           /\ receiving' \in [Mplx -> SUBSET Clients]
           /\ sweep' \in [pending : BOOLEAN, expired : SUBSET Clients,
                           emptied : SUBSET Mplx]
           /\ ~sweep'.pending => sweep'.expired = {} /\ sweep'.emptied = {}
           /\ \A c \in sweep'.expired : conn[c] # Null /\ IsExpired(conn[c], now')
           /\ \A m \in Mplx : Held(m)' = Held(m) \ sweep'.expired
           /\ \A m \in Mplx : m \in sweep'.emptied <=> Live(m) /\ Held(m)' = {}
<1> DEFINE live == {m \in Mplx : Live(m)}
           held == UNION {Held(m) : m \in live}
<1> USE DEF NatInv
<1>1. ~sweep.pending /\ UNCHANGED <<free_ipv4, free_ipv6, indexes, heap, conn>>
  BY DEF SweepBuckets
<1>2. PICK t \in {i \in {now, now + 1} : i <= MaxTime} :
      \E r \in [held -> ClockReads(t)] :
        LET expired == {c \in held : IsExpired(conn[c], r[c].expired)}
            snd(m) == {c \in Held(m) \ expired : PlacedSending(conn[c], r[c])}
            rcv(m) == {c \in Held(m) \ expired : PlacedReceiving(conn[c], r[c])}
            emptied == {m \in live : snd(m) = {} /\ rcv(m) = {}}
        IN  /\ sending' = [m \in Mplx |-> IF m \in live THEN snd(m)
                                          ELSE sending[m]]
            /\ receiving' = [m \in Mplx |-> IF m \in live THEN rcv(m)
                                            ELSE receiving[m]]
            /\ sweep' = IF expired = {} /\ emptied = {} THEN SweepIdle
                        ELSE [pending |-> TRUE, expired |-> expired,
                              emptied |-> emptied]
            /\ now' = t
  BY DEF SweepBuckets
<1>3. PICK r \in [held -> ClockReads(t)] :
        LET expired == {c \in held : IsExpired(conn[c], r[c].expired)}
            snd(m) == {c \in Held(m) \ expired : PlacedSending(conn[c], r[c])}
            rcv(m) == {c \in Held(m) \ expired : PlacedReceiving(conn[c], r[c])}
            emptied == {m \in live : snd(m) = {} /\ rcv(m) = {}}
        IN  /\ sending' = [m \in Mplx |-> IF m \in live THEN snd(m)
                                          ELSE sending[m]]
            /\ receiving' = [m \in Mplx |-> IF m \in live THEN rcv(m)
                                            ELSE receiving[m]]
            /\ sweep' = IF expired = {} /\ emptied = {} THEN SweepIdle
                        ELSE [pending |-> TRUE, expired |-> expired,
                              emptied |-> emptied]
            /\ now' = t
  BY <1>2
<1> DEFINE expired == {c \in held : IsExpired(conn[c], r[c].expired)}
           snd(m) == {c \in Held(m) \ expired : PlacedSending(conn[c], r[c])}
           rcv(m) == {c \in Held(m) \ expired : PlacedReceiving(conn[c], r[c])}
           emptied == {m \in live : snd(m) = {} /\ rcv(m) = {}}
<1>4. /\ sending' = [m \in Mplx |-> IF m \in live THEN snd(m) ELSE sending[m]]
      /\ receiving' = [m \in Mplx |-> IF m \in live THEN rcv(m)
                                      ELSE receiving[m]]
      /\ sweep' = IF expired = {} /\ emptied = {} THEN SweepIdle
                  ELSE [pending |-> TRUE, expired |-> expired,
                        emptied |-> emptied]
      /\ now' = t
  BY <1>3
<1>5. now \in Nat /\ t \in Nat /\ t \in 0..MaxTime
  BY MaxTimeType DEF NatTypeOK
<1>6. held \subseteq Clients /\ \A c \in held : conn[c] \in ClientConnection
  BY DEF NatTypeOK, Held, AcceptedOK
<1>7. \A m \in live : Held(m) \subseteq held
  OBVIOUS
<1>8. \A c \in held : PlacedSending(conn[c], r[c]) \/ PlacedReceiving(conn[c], r[c])
  BY <1>5, <1>6, SomeRole
<1>9. \A m \in Mplx : m \notin live => Held(m) = {}
  BY DEF ClientRouting, Held, NatTypeOK
<1>10. \A m \in live : snd(m) \cup rcv(m) = Held(m) \ expired
  BY <1>7, <1>8
<1>11. \A m \in Mplx : Held(m)' = Held(m) \ expired
  <2>1. \A m \in live : Held(m)' = snd(m) \cup rcv(m)
    BY <1>4 DEF Held
  <2>2. \A m \in Mplx : m \notin live => Held(m)' = Held(m)
    BY <1>4 DEF Held
  <2> QED
    BY <1>9, <1>10, <2>1, <2>2
<1>13. \A m \in Mplx : m \in emptied <=> Live(m) /\ Held(m) \ expired = {}
  BY <1>10
<1>14. sweep'.expired = expired /\ sweep'.emptied = emptied
       /\ (~sweep'.pending => expired = {} /\ emptied = {})
  BY <1>4 DEF SweepIdle
<1>15. expired \subseteq Clients /\ emptied \subseteq Mplx
  BY <1>6
<1>16. sweep' \in [pending : BOOLEAN, expired : SUBSET Clients,
                   emptied : SUBSET Mplx]
  BY <1>4, <1>15 DEF SweepIdle
<1>17. sending' \in [Mplx -> SUBSET Clients]
       /\ receiving' \in [Mplx -> SUBSET Clients]
  <2>1. \A m \in live : snd(m) \subseteq Clients /\ rcv(m) \subseteq Clients
    BY <1>6, <1>7
  <2> QED
    BY <1>4, <2>1 DEF NatTypeOK
<1>18. \A c \in expired : conn[c] # Null /\ IsExpired(conn[c], t)
  <2> SUFFICES ASSUME NEW c \in expired
               PROVE  conn[c] # Null /\ IsExpired(conn[c], t)
    OBVIOUS
  <2>1. c \in held /\ IsExpired(conn[c], r[c].expired)
    OBVIOUS
  <2>2. r[c] \in ClockReads(t)
    BY <2>1
  <2>3. r[c].expired \in Nat /\ r[c].expired <= t
    BY <1>5, <2>2 DEF ClockReads
  <2>4. conn[c] \in ClientConnection /\ conn[c] # Null
    BY <1>6, <2>1, NullFresh DEF ClientConnection
  <2>5. conn[c].accepted_at + conn[c].ttl \in Nat
    BY <2>4 DEF ClientConnection
  <2> QED
    BY <1>5, <2>1, <2>3, <2>4, <2>5 DEF IsExpired
<1> HIDE DEF expired, emptied, held, live, snd, rcv
<1> QED
  BY <1>1, <1>4, <1>5, <1>11, <1>13, <1>14, <1>16, <1>17, <1>18

LEMMA SweepBucketsKeepsInv ==
    ASSUME NatInv, SweepBuckets
    PROVE  NatInv'
<1> USE DEF NatInv
<1>1. ~sweep.pending /\ UNCHANGED <<free_ipv4, free_ipv6, indexes, heap, conn>>
  BY SweepEffect
<1>2. \A m \in Mplx : Held(m)' = Held(m) \ sweep'.expired
  BY SweepEffect
<1>3. \A m \in Mplx : Live(m)' <=> Live(m)
  BY <1>1 DEF Live, indexes
<1>4. NatTypeOK'
  BY <1>1, SweepEffect DEF NatTypeOK, indexes
<1>5. SessionIndexOK' /\ AddressConservation'
  BY <1>1 DEF SessionIndexOK, AddressConservation, Live, indexes
<1>6. AcceptedOK'
  BY <1>1, <1>2 DEF AcceptedOK, indexes
<1>7. SweepOK'
  <2>1. \A m \in sweep'.emptied : m \in Mplx /\ heap[m] # Null
    BY <1>4, SweepEffect DEF Live, NatTypeOK
  <2>2. ~sweep'.pending => sweep'.expired = {} /\ sweep'.emptied = {}
    BY SweepEffect
  <2>3. \A c \in sweep'.expired : conn[c] # Null
    BY SweepEffect
  <2> QED
    BY <1>1, <1>2, <2>1, <2>2, <2>3 DEF SweepOK
<1>8. ClientRouting'
  <2>1. \A c \in Clients, m \in Mplx : client_to_mplx[c] = m => c \in Held(m)
    BY <1>1 DEF ClientRouting, SweepOK
  <2> QED
    BY <1>1, <1>2, <1>3, <2>1 DEF ClientRouting, indexes
<1>9. NoGhostSession'
  BY <1>2, <1>3, SweepEffect DEF NoGhostSession
<1>10. UserIsolation'
  BY <1>1, <1>2 DEF UserIsolation
<1> QED
  BY <1>4, <1>5, <1>6, <1>7, <1>8, <1>9, <1>10

LEMMA StutterKeepsInv ==
    ASSUME NatInv, UNCHANGED natVars
    PROVE  NatInv'
<1> USE DEF NatInv, natVars, indexes
<1>1. NatTypeOK'
  BY DEF NatTypeOK
<1>2. SessionIndexOK' /\ AddressConservation' /\ AcceptedOK' /\ SweepOK'
  BY DEF SessionIndexOK, AddressConservation, AcceptedOK, SweepOK, Live, Held
<1>3. ClientRouting' /\ NoGhostSession' /\ UserIsolation'
  BY DEF ClientRouting, NoGhostSession, UserIsolation, Live, Held
<1> QED
  BY <1>1, <1>2, <1>3

LEMMA InitInv ==
    ASSUME NatInit
    PROVE  NatInv
<1> USE DEF NatInit
<1>1. Null \notin Mplx
  BY NullFresh
<1>2. \A m \in Mplx : Held(m) = {} /\ ~Live(m)
  BY DEF Held, Live
<1>3. NatTypeOK
  BY MaxTimeType DEF NatTypeOK, SweepIdle
<1>4. SessionIndexOK /\ AcceptedOK /\ ClientRouting
  BY <1>1, <1>2 DEF SessionIndexOK, AcceptedOK, ClientRouting
<1>5. AddressConservation
  BY <1>1, <1>2 DEF AddressConservation
<1>6. SweepOK /\ NoGhostSession /\ UserIsolation
  BY <1>2 DEF SweepOK, SweepIdle, NoGhostSession, UserIsolation
<1> QED
  BY <1>3, <1>4, <1>5, <1>6 DEF NatInv

LEMMA NextInv ==
    ASSUME NatInv, [NatNext]_natVars
    PROVE  NatInv'
<1>1. ASSUME NEW c \in Clients, NEW s \in Sessions, NEW u \in Users,
             NEW p \in Profiles, AddConnection(c, s, u, p)
      PROVE  NatInv'
  BY <1>1, JoinKeepsInv, CreateKeepsInv DEF AddConnection
<1>2. ASSUME NEW c \in Clients, DelConnectionByClientId(c)
      PROVE  NatInv'
  BY <1>2, DelKeepsInv
<1>3. CASE SweepBuckets
  BY <1>3, SweepBucketsKeepsInv
<1>4. CASE SweepCommit
  BY <1>4, SweepCommitKeepsInv
<1>5. CASE Tick
  BY <1>5, TickKeepsInv
<1>6. CASE UNCHANGED natVars
  BY <1>6, StutterKeepsInv
<1> QED
  BY <1>1, <1>2, <1>3, <1>4, <1>5, <1>6 DEF NatNext

(* The invariant holds in every reachable state of the table.              *)
THEOREM NatInvariant == NatSpec => []NatInv
<1>1. NatInit => NatInv
  BY InitInv
<1>2. NatInv /\ [NatNext]_natVars => NatInv'
  BY NextInv
<1> QED
  BY <1>1, <1>2, PTL DEF NatSpec

(* Every variable of the table keeps its type.                             *)
THEOREM NatTypeCorrect == NatSpec => []NatTypeOK
<1>1. NatInv => NatTypeOK
  BY DEF NatInv
<1> QED
  BY <1>1, NatInvariant, PTL

(* No lease of an address is ever lost or given twice.                     *)
THEOREM LeasesConserved == NatSpec => []AddressConservation
<1>1. NatInv => AddressConservation
  BY DEF NatInv
<1> QED
  BY <1>1, NatInvariant, PTL

(* Buckets, the client index and the session index agree, but for what the *)
(* running sweep is about to erase.                                        *)
THEOREM RoutingAgrees == NatSpec => []ClientRouting
<1>1. NatInv => ClientRouting
  BY DEF NatInv
<1> QED
  BY <1>1, NatInvariant, PTL

(* No session is left behind without connections.                          *)
THEOREM NoSessionLeaks == NatSpec => []NoGhostSession
<1>1. NatInv => NoGhostSession
  BY DEF NatInv
<1> QED
  BY <1>1, NatInvariant, PTL

(* No session ever carries the connections of two users.                   *)
THEOREM UsersIsolated == NatSpec => []UserIsolation
<1>1. NatInv => UserIsolation
  BY DEF NatInv
<1> QED
  BY <1>1, NatInvariant, PTL

-----------------------------------------------------------------------------
(* No step takes a live session from the connections it still has.         *)
LEMMA ReleaseStep ==
    ASSUME NatInv, NatNext, NEW m \in Mplx, Live(m), ~Live(m)'
    PROVE  Held(m)' = {}
<1> USE DEF NatInv
<1>1. ASSUME NEW c \in Clients, NEW s \in Sessions, NEW u \in Users,
             NEW p \in Profiles, JoinSession(c, s, u, p)
      PROVE  FALSE
  BY <1>1 DEF JoinSession, Live
<1>2. ASSUME NEW c \in Clients, NEW s \in Sessions, NEW u \in Users,
             NEW p \in Profiles, CreateSession(c, s, u, p)
      PROVE  FALSE
  <2>1. PICK x \in Mplx :
           /\ heap[x] = Null
           /\ session_to_mplx' = [session_to_mplx EXCEPT ![s] = x]
           /\ \E d : heap' = [heap EXCEPT ![x] = d]
    BY <1>2 DEF CreateSession
  <2>2. session_to_mplx[s] = Null /\ m # Null
    BY <1>2, NullFresh DEF CreateSession
  <2>3. heap'[m] = heap[m] /\ heap[m].session_id \in Sessions
    BY <2>1 DEF Live, NatTypeOK, MplxData
  <2> QED
    BY <2>1, <2>2, <2>3 DEF Live, NatTypeOK
<1>3. ASSUME NEW c \in Clients, DelConnectionByClientId(c)
      PROVE  Held(m)' = {}
  <2>1. PICK x \in Mplx : x = client_to_mplx[c] /\ heap[x] # Null
    BY <1>3 DEF DelConnectionByClientId, NatTypeOK, AcceptedOK
  <2>2. {x} \in SUBSET Mplx /\ \A y \in {x} : heap[y] # Null
    BY <2>1
  <2>3. ReleaseSessionIfEmpty({x}, sending', receiving') /\ heap' = heap
    BY <1>3, <2>1 DEF DelConnectionByClientId
  <2>4. m \in ReleasableIn({x}, sending', receiving')
    BY <2>2, <2>3, ReleaseEffect
  <2> QED
    BY <2>4 DEF ReleasableIn, Held
<1>4. CASE SweepBuckets
  BY <1>4 DEF SweepBuckets, indexes, Live
<1>5. CASE SweepCommit
  <2>1. sweep.emptied \in SUBSET Mplx /\ \A y \in sweep.emptied : heap[y] # Null
    BY DEF NatTypeOK, SweepOK
  <2>2. /\ ReleaseSessionIfEmpty(sweep.emptied, sending, receiving)
        /\ UNCHANGED <<heap, sending, receiving>>
    BY <1>5 DEF SweepCommit
  <2>3. m \in ReleasableIn(sweep.emptied, sending, receiving)
    BY <2>1, <2>2, ReleaseEffect
  <2> QED
    BY <2>2, <2>3 DEF ReleasableIn, Held
<1>6. CASE Tick
  BY <1>6 DEF Tick, indexes, Live
<1> QED
  BY <1>1, <1>2, <1>3, <1>4, <1>5, <1>6 DEF NatNext, AddConnection

(* A session gives its addresses back only when its last connection is     *)
(* gone.                                                                   *)
THEOREM LeaseKeptWhileUsed == NatSpec => ReleasedOnlyWhenEmpty
<1>1. NatInv /\ [NatNext]_natVars =>
        [\A m \in Mplx : Live(m) /\ ~Live(m)' => Held(m)' = {}]_natVars
  BY ReleaseStep
<1> QED
  BY <1>1, NatInvariant, PTL DEF NatSpec, ReleasedOnlyWhenEmpty

-----------------------------------------------------------------------------
(* DelConnectionByClientId takes c, and only c, out of the buckets and the *)
(* client index.                                                           *)
LEMMA DelEffect ==
    ASSUME NatInv, NEW c \in Clients, DelConnectionByClientId(c)
    PROVE  /\ UNCHANGED <<heap, conn>>
           /\ client_to_mplx'[c] = Null
           /\ \A x \in Mplx : Held(x)' = Held(x) \ {c}
           /\ \A s \in Sessions : session_to_mplx'[s] \in {session_to_mplx[s], Null}
<1> USE DEF NatInv
<1>1. PICK m \in Mplx : m = client_to_mplx[c]
  BY DEF DelConnectionByClientId, NatTypeOK
<1>2. /\ client_to_mplx' = [client_to_mplx EXCEPT ![c] = Null]
      /\ sending' = [sending EXCEPT ![m] = @ \ {c}]
      /\ receiving' = [receiving EXCEPT ![m] = @ \ {c}]
      /\ ReleaseSessionIfEmpty({m}, sending', receiving')
      /\ UNCHANGED <<now, heap, conn, sweep>>
  BY <1>1 DEF DelConnectionByClientId
<1>3. client_to_mplx'[c] = Null
  BY <1>2 DEF NatTypeOK
<1>4. \A x \in Mplx : c \in Held(x) => x = m
  BY <1>1 DEF ClientRouting
<1>5. \A x \in Mplx : Held(x)' = Held(x) \ {c}
  BY <1>2, <1>4 DEF Held, NatTypeOK
<1>6. \A s \in Sessions : session_to_mplx'[s] \in {session_to_mplx[s], Null}
  BY <1>2 DEF ReleaseSessionIfEmpty
<1> QED
  BY <1>2, <1>3, <1>5, <1>6

(* A connection leaves the buckets only when it is deleted or has expired, *)
(* and one that is accepted is put into a bucket.                          *)
LEMMA DropStep ==
    ASSUME NatInv, NatNext
    PROVE  /\ \A m \in Mplx : \A c \in Held(m) \ Held(m)' :
                 client_to_mplx'[c] = Null \/ IsExpired(conn[c], now')
           /\ \A c \in Clients : conn[c] = Null /\ conn'[c] # Null =>
                 \E m \in Mplx : c \in Held(m)'
<1> DEFINE Kept == /\ \A m \in Mplx : \A c \in Held(m) \ Held(m)' :
                         client_to_mplx'[c] = Null \/ IsExpired(conn[c], now')
                   /\ \A c \in Clients : conn[c] = Null /\ conn'[c] # Null =>
                         \E m \in Mplx : c \in Held(m)'
<1>1. ASSUME NEW c \in Clients, NEW s \in Sessions, NEW u \in Users,
             NEW p \in Profiles, JoinSession(c, s, u, p)
      PROVE  Kept
  <2>1. /\ session_to_mplx[s] \in Mplx
        /\ conn' = [conn EXCEPT ![c] = NewConnection(u, p)]
        /\ \A x \in Mplx : Held(x)' = IF x = session_to_mplx[s]
                                      THEN Held(x) \cup {c} ELSE Held(x)
    BY <1>1, JoinEffect
  <2>2. \A d \in Clients : d # c => conn'[d] = conn[d]
    BY <2>1 DEF NatInv, NatTypeOK
  <2> QED
    BY <2>1, <2>2
<1>2. ASSUME NEW c \in Clients, NEW s \in Sessions, NEW u \in Users,
             NEW p \in Profiles, CreateSession(c, s, u, p)
      PROVE  Kept
  <2>1. PICK m \in Mplx : /\ Held(m) = {}
                          /\ \A x \in Mplx : Held(x)' = IF x = m THEN {c} ELSE Held(x)
    BY <1>2, CreateEffect
  <2>2. conn' = [conn EXCEPT ![c] = NewConnection(u, p)]
    BY <1>2, CreateEffect
  <2>3. \A d \in Clients : d # c => conn'[d] = conn[d]
    BY <2>2 DEF NatInv, NatTypeOK
  <2> QED
    BY <2>1, <2>3
<1>3. ASSUME NEW c \in Clients, DelConnectionByClientId(c)
      PROVE  Kept
  BY <1>3, DelEffect
<1>4. CASE SweepBuckets
  BY <1>4, SweepEffect
<1>5. CASE SweepCommit
  BY <1>5 DEF SweepCommit, Held
<1>6. CASE Tick
  BY <1>6 DEF Tick, Held
<1> QED
  BY <1>1, <1>2, <1>3, <1>4, <1>5, <1>6 DEF NatNext, AddConnection

(* While the table changes, no lease and no connection is lost.            *)
THEOREM NothingIsLost == NatSpec => NothingLost
<1>1. NatInv /\ [NatNext]_natVars =>
        [/\ \A m \in Mplx : \A c \in Held(m) \ Held(m)' :
               client_to_mplx'[c] = Null \/ IsExpired(conn[c], now')
         /\ \A c \in Clients : conn[c] = Null /\ conn'[c] # Null =>
               \E m \in Mplx : c \in Held(m)']_natVars
  BY DropStep
<1>2. NatSpec => NeverDropped
  BY <1>1, NatInvariant, PTL DEF NatSpec, NeverDropped
<1> QED
  BY <1>2, LeaseKeptWhileUsed DEF NothingLost

-----------------------------------------------------------------------------
(* The table implements the session service of VpnSessions.                *)

(* What a session id names, read off a multiplexer.                        *)
LEMMA LeaseFields ==
    ASSUME NatInv, NEW s \in Sessions
    PROVE  /\ session_to_mplx[s] = Null => LeaseOf(s) = Null
           /\ session_to_mplx[s] # Null =>
                /\ session_to_mplx[s] \in Mplx
                /\ Live(session_to_mplx[s])
                /\ LeaseOf(s) = [owner |-> heap[session_to_mplx[s]].username,
                                 ip4 |-> heap[session_to_mplx[s]].fake4,
                                 ip6 |-> heap[session_to_mplx[s]].fake6,
                                 members |-> Held(session_to_mplx[s])]
                /\ LeaseOf(s) # Null
<1> USE DEF NatInv
<1>1. session_to_mplx[s] \in Mplx \cup {Null}
  BY DEF NatTypeOK
<1> SUFFICES ASSUME session_to_mplx[s] # Null
             PROVE  /\ Live(session_to_mplx[s])
                    /\ LeaseOf(s) # Null
  BY <1>1 DEF LeaseOf
<1>2. Live(session_to_mplx[s])
  BY <1>1 DEF Live, SessionIndexOK
<1>3. heap[session_to_mplx[s]] \in MplxData
  BY <1>1, <1>2 DEF Live, NatTypeOK
<1>4. Held(session_to_mplx[s]) \in SUBSET Clients
  BY <1>1 DEF Held, NatTypeOK
<1>5. LeaseOf(s) \in [owner : Users, ip4 : IPv4s, ip6 : IPv6s,
                      members : SUBSET Clients]
  BY <1>3, <1>4 DEF LeaseOf, MplxData
<1> QED
  BY <1>2, <1>5, NullFresh

(* A step that only takes connections out of the buckets, and ids out of   *)
(* the session index, is a Leave: by ReleaseStep the sessions that end     *)
(* have no member left.                                                    *)
LEMMA LeaveStep ==
    ASSUME NatInv, NatInv', NatNext, NEW C \in SUBSET Clients,
           UNCHANGED <<heap, conn>>,
           \A x \in Mplx : Held(x)' = Held(x) \ C,
           \A s \in Sessions : session_to_mplx'[s] \in {session_to_mplx[s], Null}
    PROVE  \E S \in SUBSET Sessions : Abstract!Leave(C, S)
<1> DEFINE S == {s \in Sessions : session_to_mplx[s] # Null /\ session_to_mplx'[s] = Null}
<1>1. \A s \in S : LeaseOf(s) # Null /\ LeaseOf(s).members \subseteq C
  <2> SUFFICES ASSUME NEW s \in S
               PROVE  LeaseOf(s) # Null /\ LeaseOf(s).members \subseteq C
    OBVIOUS
  <2>1. PICK m \in Mplx : /\ m = session_to_mplx[s] /\ Live(m)
                          /\ LeaseOf(s) # Null /\ LeaseOf(s).members = Held(m)
    BY LeaseFields
  <2>2. heap[m].session_id = s
    BY <2>1 DEF NatInv, SessionIndexOK
  <2>3. ~Live(m)'
    BY <2>1, <2>2, NullFresh DEF Live
  <2>4. Held(m)' = {}
    BY <2>1, <2>3, ReleaseStep
  <2> QED
    BY <2>1, <2>4
<1>2. \A s \in Sessions :
        LeaseOf(s)' = CASE s \in S -> Null
                        [] s \notin S /\ LeaseOf(s) = Null -> Null
                        [] OTHER -> [LeaseOf(s) EXCEPT !.members = @ \ C]
  <2> SUFFICES ASSUME NEW s \in Sessions
               PROVE  LeaseOf(s)' = CASE s \in S -> Null
                        [] s \notin S /\ LeaseOf(s) = Null -> Null
                        [] OTHER -> [LeaseOf(s) EXCEPT !.members = @ \ C]
    OBVIOUS
  <2> DEFINE m == session_to_mplx[s]
  <2>1. CASE session_to_mplx'[s] = Null
    <3>1. LeaseOf(s)' = Null
      BY <2>1 DEF LeaseOf
    <3>2. s \notin S => LeaseOf(s) = Null
      BY <2>1 DEF LeaseOf
    <3> QED
      BY <3>1, <3>2
  <2>2. CASE session_to_mplx'[s] # Null
    <3>1. session_to_mplx'[s] = m /\ s \notin S
      BY <2>2
    <3>2. m \in Mplx /\ LeaseOf(s) # Null
          /\ LeaseOf(s) = [owner |-> heap[m].username, ip4 |-> heap[m].fake4,
                           ip6 |-> heap[m].fake6, members |-> Held(m)]
      BY <2>2, <3>1, LeaseFields
    <3>3. LeaseOf(s)' = [owner |-> heap[m].username, ip4 |-> heap[m].fake4,
                         ip6 |-> heap[m].fake6, members |-> Held(m) \ C]
      BY <2>2, <3>1, <3>2 DEF LeaseOf
    <3> QED
      BY <3>1, <3>2, <3>3
  <2> QED
    BY <2>1, <2>2
<1> HIDE DEF S
<1>3. S \in SUBSET Sessions
  BY DEF S
<1>4. Abstract!Leave(C, S)
  BY <1>1, <1>2, <1>3 DEF Abstract!Leave
<1> QED
  BY <1>3, <1>4

(* A function that differs from another at one point is its EXCEPT.        *)
LEMMA ExceptAt ==
    ASSUME NEW S, NEW f, NEW g, NEW s \in S, NEW v,
           f = [z \in S |-> f[z]], g = [z \in S |-> g[z]],
           g[s] = v, \A z \in S : z # s => g[z] = f[z]
    PROVE  g = [f EXCEPT ![s] = v]
OBVIOUS

(* AddConnection to a session that exists is a Join.                       *)
LEMMA JoinStep ==
    ASSUME NatInv, NEW c \in Clients, NEW s \in Sessions, NEW u \in Users,
           NEW p \in Profiles, JoinSession(c, s, u, p)
    PROVE  Abstract!Join(c, s)
<1>1. PICK m \in Mplx : /\ m = session_to_mplx[s] /\ Live(m)
                        /\ heap[m].username = u
                        /\ \A x \in Mplx : Held(x)' = IF x = m THEN Held(x) \cup {c}
                                                      ELSE Held(x)
  BY JoinEffect
<1>2. /\ conn[c] = Null
      /\ conn' = [conn EXCEPT ![c] = NewConnection(u, p)]
      /\ UNCHANGED <<session_to_mplx, heap>>
  BY JoinEffect
<1>3. NewConnection(u, p) # Null /\ NewConnection(u, p).username = u
  BY NewConnectionType DEF NatInv
<1>4. conn'[c] = NewConnection(u, p) /\ \A d \in Clients : d # c => conn'[d] = conn[d]
  BY <1>2 DEF NatInv, NatTypeOK
<1>5. /\ LeaseOf(s) # Null
      /\ LeaseOf(s) = [owner |-> heap[m].username, ip4 |-> heap[m].fake4,
                       ip6 |-> heap[m].fake6, members |-> Held(m)]
  BY <1>1, NullFresh, LeaseFields
<1>6. LeaseOf(s)' = [LeaseOf(s) EXCEPT !.members = @ \cup {c}]
  <2>1. LeaseOf(s)' = [owner |-> heap[m].username, ip4 |-> heap[m].fake4,
                       ip6 |-> heap[m].fake6, members |-> Held(m) \cup {c}]
    BY <1>1, <1>2, NullFresh DEF LeaseOf
  <2>2. PICK N : N = Held(m) \cup {c}
    OBVIOUS
  <2>3. [LeaseOf(s) EXCEPT !.members = N] =
          [owner |-> heap[m].username, ip4 |-> heap[m].fake4,
           ip6 |-> heap[m].fake6, members |-> N]
    BY <1>5
  <2>4. LeaseOf(s).members = Held(m)
    BY <1>5
  <2> QED
    BY <2>1, <2>2, <2>3, <2>4
<1>7. ASSUME NEW z \in Sessions, z # s
      PROVE  LeaseOf(z)' = LeaseOf(z)
  <2>1. CASE session_to_mplx[z] = Null
    BY <1>2, <2>1 DEF LeaseOf
  <2>2. CASE session_to_mplx[z] # Null
    <3>1. PICK x \in Mplx : x = session_to_mplx[z] /\ heap[x].session_id = z
      BY <2>2 DEF NatInv, NatTypeOK, SessionIndexOK
    <3>2. x # m
      BY <1>1, <1>7, <3>1, NullFresh DEF NatInv, SessionIndexOK
    <3>3. Held(x)' = Held(x)
      BY <1>1, <3>2
    <3> QED
      BY <1>2, <3>1, <3>3 DEF LeaseOf
  <2> QED
    BY <2>1, <2>2
<1>8. \A d \in Clients :
        (IF conn'[d] = Null THEN Null ELSE conn'[d].username) =
        IF d = c THEN LeaseOf(s).owner
        ELSE IF conn[d] = Null THEN Null ELSE conn[d].username
  BY <1>1, <1>3, <1>4, <1>5
<1> DEFINE lease == [z \in Sessions |-> LeaseOf(z)]
           user == [d \in Clients |-> IF conn[d] = Null THEN Null ELSE conn[d].username]
<1>9. lease' = [lease EXCEPT ![s] = [lease[s] EXCEPT !.members = @ \cup {c}]]
  BY <1>6, <1>7, ExceptAt
<1>10. user' = [user EXCEPT ![c] = lease[s].owner]
  BY <1>8, ExceptAt
<1>11. user[c] = Null /\ lease[s] # Null
  BY <1>2, <1>5
<1> QED
  BY <1>9, <1>10, <1>11 DEF Abstract!Join

(* AddConnection to a new session is an Open: an address in the free       *)
(* vector is one that no session leases.                                   *)
LEMMA OpenStep ==
    ASSUME NatInv, NEW c \in Clients, NEW s \in Sessions, NEW u \in Users,
           NEW p \in Profiles, CreateSession(c, s, u, p)
    PROVE  \E a4 \in IPv4s, a6 \in IPv6s : Abstract!Open(c, s, u, a4, a6)
<1>1. PICK m \in Mplx, a4 \in IPv4s, a6 \in IPv6s :
         /\ heap[m] = Null
         /\ ipv4_to_mplx[a4] = Null
         /\ ipv6_to_mplx[a6] = Null
         /\ heap' = [heap EXCEPT ![m] = [username |-> u, session_id |-> s,
                                         fake4 |-> a4, fake6 |-> a6]]
         /\ session_to_mplx' = [session_to_mplx EXCEPT ![s] = m]
         /\ \A x \in Mplx : Held(x)' = IF x = m THEN {c} ELSE Held(x)
  BY CreateEffect
<1>2. /\ conn[c] = Null /\ session_to_mplx[s] = Null
      /\ conn' = [conn EXCEPT ![c] = NewConnection(u, p)]
  BY CreateEffect
<1>3. NewConnection(u, p) # Null /\ NewConnection(u, p).username = u
  BY NewConnectionType DEF NatInv
<1>4. conn'[c] = NewConnection(u, p) /\ \A d \in Clients : d # c => conn'[d] = conn[d]
  BY <1>2 DEF NatInv, NatTypeOK
<1>5. /\ heap'[m] = [username |-> u, session_id |-> s, fake4 |-> a4, fake6 |-> a6]
      /\ \A x \in Mplx : x # m => heap'[x] = heap[x]
      /\ session_to_mplx'[s] = m
      /\ \A z \in Sessions : z # s => session_to_mplx'[z] = session_to_mplx[z]
  BY <1>1 DEF NatInv, NatTypeOK
<1>6. LeaseOf(s) = Null
  BY <1>2 DEF LeaseOf
<1>7. LeaseOf(s)' = [owner |-> u, ip4 |-> a4, ip6 |-> a6, members |-> {c}]
  <2>1. /\ heap'[m].username = u /\ heap'[m].fake4 = a4 /\ heap'[m].fake6 = a6
        /\ Held(m)' = {c} /\ m # Null
    BY <1>1, <1>5, NullFresh
  <2> QED
    BY <1>5, <2>1 DEF LeaseOf
<1>8. ASSUME NEW z \in Sessions, z # s
      PROVE  LeaseOf(z)' = LeaseOf(z)
  <2>1. CASE session_to_mplx[z] = Null
    BY <1>5, <1>8, <2>1 DEF LeaseOf
  <2>2. CASE session_to_mplx[z] # Null
    <3>1. PICK x \in Mplx : x = session_to_mplx[z] /\ heap[x] # Null
      BY <2>2 DEF NatInv, NatTypeOK, SessionIndexOK
    <3>2. x # m
      BY <1>1, <3>1
    <3>3. Held(x)' = Held(x) /\ heap'[x] = heap[x] /\ session_to_mplx'[z] = x
      BY <1>1, <1>5, <1>8, <3>1, <3>2
    <3> QED
      BY <3>1, <3>3 DEF LeaseOf
  <2> QED
    BY <2>1, <2>2
<1>9. \A z \in Sessions : LeaseOf(z) # Null => LeaseOf(z).ip4 # a4 /\ LeaseOf(z).ip6 # a6
  <2> SUFFICES ASSUME NEW z \in Sessions, LeaseOf(z) # Null
               PROVE  LeaseOf(z).ip4 # a4 /\ LeaseOf(z).ip6 # a6
    OBVIOUS
  <2>1. PICK x \in Mplx : /\ Live(x)
                          /\ LeaseOf(z).ip4 = heap[x].fake4
                          /\ LeaseOf(z).ip6 = heap[x].fake6
    BY LeaseFields
  <2> QED
    BY <1>1, <2>1, NullFresh DEF NatInv, AddressConservation
<1>10. \A d \in Clients :
         (IF conn'[d] = Null THEN Null ELSE conn'[d].username) =
         IF d = c THEN u ELSE IF conn[d] = Null THEN Null ELSE conn[d].username
  BY <1>3, <1>4
<1> DEFINE lease == [z \in Sessions |-> LeaseOf(z)]
           user == [d \in Clients |-> IF conn[d] = Null THEN Null ELSE conn[d].username]
<1>11. lease' = [lease EXCEPT ![s] = [owner |-> u, ip4 |-> a4, ip6 |-> a6,
                                      members |-> {c}]]
  BY <1>7, <1>8, ExceptAt
<1>12. user' = [user EXCEPT ![c] = u]
  BY <1>10, ExceptAt
<1>13. user[c] = Null /\ lease[s] = Null
  BY <1>2, <1>6
<1>14. \A x \in {z \in Sessions : lease[z] # Null} : lease[x].ip4 # a4 /\ lease[x].ip6 # a6
  BY <1>9
<1>15. Abstract!Open(c, s, u, a4, a6)
  BY <1>11, <1>12, <1>13, <1>14 DEF Abstract!Open, Abstract!Leased
<1> QED
  BY <1>15

(* What does not touch sessions, buckets and connections is not seen.      *)
LEMMA HiddenStep ==
    ASSUME UNCHANGED <<session_to_mplx, heap, sending, receiving, conn>>
    PROVE  UNCHANGED Abstract!vpnVars
BY DEF Abstract!vpnVars, LeaseOf, Held

(* Every step of the table is one of the session service, or is not seen.  *)
LEMMA NextImplements ==
    ASSUME NatInv, NatInv', [NatNext]_natVars
    PROVE  [Abstract!VpnNext]_(Abstract!vpnVars)
<1>1. ASSUME NEW c \in Clients, NEW s \in Sessions, NEW u \in Users,
             NEW p \in Profiles, JoinSession(c, s, u, p)
      PROVE  Abstract!VpnNext
  BY <1>1, JoinStep DEF Abstract!VpnNext
<1>2. ASSUME NEW c \in Clients, NEW s \in Sessions, NEW u \in Users,
             NEW p \in Profiles, CreateSession(c, s, u, p)
      PROVE  Abstract!VpnNext
  BY <1>2, OpenStep DEF Abstract!VpnNext
<1>3. ASSUME NEW c \in Clients, DelConnectionByClientId(c)
      PROVE  Abstract!VpnNext
  <2>1. {c} \in SUBSET Clients /\ NatNext
    BY <1>3 DEF NatNext
  <2>2. \E S \in SUBSET Sessions : Abstract!Leave({c}, S)
    BY <1>3, <2>1, DelEffect, LeaveStep
  <2> QED
    BY <2>1, <2>2 DEF Abstract!VpnNext
<1>4. CASE SweepBuckets
  <2>1. /\ sweep'.expired \in SUBSET Clients /\ NatNext
        /\ UNCHANGED <<heap, conn>> /\ session_to_mplx' = session_to_mplx
        /\ \A x \in Mplx : Held(x)' = Held(x) \ sweep'.expired
    BY <1>4, SweepEffect DEF NatNext, indexes
  <2>2. \A s \in Sessions : session_to_mplx'[s] \in {session_to_mplx[s], Null}
    BY <2>1
  <2>3. \E S \in SUBSET Sessions : Abstract!Leave(sweep'.expired, S)
    BY <2>1, <2>2, LeaveStep
  <2> QED
    BY <2>1, <2>3 DEF Abstract!VpnNext
<1>5. CASE SweepCommit
  <2>1. /\ NatNext
        /\ UNCHANGED <<heap, conn, sending, receiving>>
        /\ ReleaseSessionIfEmpty(sweep.emptied, sending, receiving)
    BY <1>5 DEF NatNext, SweepCommit
  <2>2. \A s \in Sessions : session_to_mplx'[s] \in {session_to_mplx[s], Null}
    BY <2>1 DEF ReleaseSessionIfEmpty
  <2>3. \A x \in Mplx : Held(x)' = Held(x) \ {}
    BY <2>1 DEF Held
  <2>4. \E S \in SUBSET Sessions : Abstract!Leave({}, S)
    BY <2>1, <2>2, <2>3, LeaveStep
  <2> QED
    BY <2>4 DEF Abstract!VpnNext
<1>6. CASE Tick
  BY <1>6, HiddenStep DEF Tick, indexes
<1>7. CASE UNCHANGED natVars
  BY <1>7, HiddenStep DEF natVars, indexes
<1> QED
  BY <1>1, <1>2, <1>3, <1>4, <1>5, <1>6, <1>7 DEF NatNext, AddConnection

(* The table implements the session service: every behaviour of the table, *)
(* seen through LeaseOf, is one of VpnSessions.                            *)
THEOREM ImplementsVpnSessions == NatSpec => Abstract!VpnSpec
<1>1. NatInit => Abstract!VpnInit
  BY DEF NatInit, Abstract!VpnInit, LeaseOf
<1>2. NatInv /\ NatInv' /\ [NatNext]_natVars => [Abstract!VpnNext]_(Abstract!vpnVars)
  BY NextImplements
<1> QED
  BY <1>1, <1>2, NatInvariant, PTL DEF NatSpec, Abstract!VpnSpec
=============================================================================
