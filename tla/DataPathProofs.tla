--------------------------- MODULE DataPathProofs ---------------------------
(***************************************************************************)
(* Proofs about DataPath, for any number of packets on their way in both   *)
(* directions, any sizes and any channel capacities.                       *)
(***************************************************************************)
EXTENDS DataPath, NatTableProofs

(* Whom a packet to address a may be given to by multiplexer m.            *)
Leases(m, a) == heap[m] # Null /\ a \in {heap[m].fake4, heap[m].fake6}
Owns(m, c) == heap[m] # Null /\ conn[c] # Null
              /\ conn[c].username = heap[m].username

(* client_to_mplx_ leads to a session of the client's own user, also in    *)
(* the sweep's gap, when the connection is in no bucket any more.          *)
IndexOwned ==
    \A c \in Clients, m \in Mplx : client_to_mplx[c] = m => Owns(m, c)

(* What the locals of RunToClient mean between two lookups.                *)
ToOK ==
    /\ to.at \in {"shape", "pick", "change"} =>
         /\ to.packets # <<>>
         /\ to.nat_session \in Mplx
         /\ Leases(to.nat_session, Head(to.packets).dst)
    /\ to.at = "change" =>
         to.client_id \in Clients /\ Owns(to.nat_session, to.client_id)

(* What the locals of RunFromClient mean between two lookups.              *)
FromOK ==
    from.at \in {"shape", "filter"} =>
       /\ from.packets # <<>>
       /\ from.session \in Mplx
       /\ Owns(from.session, Head(from.packets).client)

(* Everything already routed.                                              *)
RoutedOK ==
    \A c \in Clients :
       \A p \in Elements(batches[c]) \cup Elements(write_channel[c]) :
          Leases(p.via, p.dst) /\ Owns(p.via, c)

SentOK == \A p \in Elements(prepared) : Owns(p.via, p.client)

(* The inductive invariant, on top of NatInv.                              *)
PathInv ==
    /\ DataTypeOK
    /\ ToOK
    /\ FromOK
    /\ RoutedOK
    /\ SentOK
    /\ WindowBounded

-----------------------------------------------------------------------------
(* What a sequence holds after Append, after SendBatch, and of a packet    *)
(* less.                                                                   *)
LEMMA ElementsOfAppend ==
    ASSUME NEW S, NEW q \in Seq(S), NEW x \in S
    PROVE  Elements(Append(q, x)) = Elements(q) \cup {x}
<1>1. Len(Append(q, x)) = Len(q) + 1 /\ Len(q) \in Nat
  OBVIOUS
<1>2. \A i \in 1..Len(q) : Append(q, x)[i] = q[i]
  OBVIOUS
<1>3. Append(q, x)[Len(q) + 1] = x
  OBVIOUS
<1>4. Elements(Append(q, x)) \subseteq Elements(q) \cup {x}
  <2> SUFFICES ASSUME NEW i \in 1..(Len(q) + 1)
               PROVE  Append(q, x)[i] \in Elements(q) \cup {x}
    BY <1>1 DEF Elements
  <2>1. CASE i \in 1..Len(q)
    BY <2>1, <1>2 DEF Elements
  <2>2. CASE i = Len(q) + 1
    BY <2>2, <1>3
  <2> QED
    BY <2>1, <2>2, <1>1
<1>5. Elements(q) \cup {x} \subseteq Elements(Append(q, x))
  <2>1. x \in Elements(Append(q, x))
    BY <1>1, <1>3 DEF Elements
  <2>2. ASSUME NEW i \in 1..Len(q)
        PROVE  q[i] \in Elements(Append(q, x))
    <3>1. i \in 1..Len(Append(q, x))
      BY <1>1
    <3> QED
      BY <3>1, <1>2 DEF Elements
  <2> QED
    BY <2>1, <2>2 DEF Elements
<1> QED
  BY <1>4, <1>5

LEMMA ElementsWritten ==
    ASSUME NEW S, NEW q \in Seq(S), NEW b \in Seq(S), Len(q) <= WriteCapacity
    PROVE  /\ Written(q, b) \in Seq(S)
           /\ Len(Written(q, b)) <= WriteCapacity
           /\ Elements(Written(q, b)) \subseteq Elements(q) \cup Elements(b)
<1> DEFINE room == WriteCapacity - Len(q)
           n == IF Len(b) < room THEN Len(b) ELSE room
           h == SubSeq(b, 1, n)
<1>1. n \in 0..Len(b) /\ n <= room /\ Len(q) \in Nat
  BY DataPathTypes
<1>2. Written(q, b) = q \o h
  BY DEF Written
<1> HIDE DEF n
<1>3. h \in Seq(S) /\ Len(h) = n /\ \A i \in 1..n : h[i] = b[i]
  BY <1>1
<1> HIDE DEF h
<1>4. q \o h \in Seq(S) /\ Len(q \o h) = Len(q) + n
  BY <1>1, <1>3
<1>5. ASSUME NEW i \in 1..(Len(q) + n)
      PROVE  (q \o h)[i] \in Elements(q) \cup Elements(b)
  <2>1. CASE i <= Len(q)
    <3>1. (q \o h)[i] = q[i] /\ i \in 1..Len(q)
      BY <2>1, <1>1, <1>3
    <3> QED
      BY <3>1 DEF Elements
  <2>2. CASE i > Len(q)
    <3>1. (q \o h)[i] = h[i - Len(q)] /\ i - Len(q) \in 1..n
      BY <2>2, <1>1, <1>3
    <3>2. i - Len(q) \in 1..Len(b) /\ h[i - Len(q)] = b[i - Len(q)]
      BY <3>1, <1>1, <1>3
    <3> QED
      BY <3>1, <3>2 DEF Elements
  <2>3. i <= Len(q) \/ i > Len(q)
    BY <1>1
  <2> QED
    BY <2>1, <2>2, <2>3
<1>6. Elements(q \o h) \subseteq Elements(q) \cup Elements(b)
  BY <1>4, <1>5 DEF Elements
<1>7. Len(q \o h) <= WriteCapacity
  BY <1>1, <1>4, DataPathTypes
<1> QED
  BY <1>2, <1>4, <1>6, <1>7

LEMMA ElementsOfRest ==
    ASSUME NEW S, NEW q \in Seq(S), NEW n \in 1..Len(q)
    PROVE  /\ SubSeq(q, n + 1, Len(q)) \in Seq(S)
           /\ Len(SubSeq(q, n + 1, Len(q))) <= Len(q)
           /\ Elements(SubSeq(q, n + 1, Len(q))) \subseteq Elements(q)
<1> DEFINE h == SubSeq(q, n + 1, Len(q))
<1>1. h \in Seq(S) /\ Len(h) = Len(q) - n /\ Len(q) \in Nat
  OBVIOUS
<1>2. \A i \in 1..(Len(q) - n) : h[i] = q[n + i] /\ n + i \in 1..Len(q)
  OBVIOUS
<1> HIDE DEF h
<1>3. Elements(h) \subseteq Elements(q)
  BY <1>1, <1>2 DEF Elements
<1> QED
  BY <1>1, <1>3 DEF h

LEMMA ElementsOfNothing == Elements(<<>>) = {}
BY DEF Elements

(* What Channel returns and leaves are sequences of its packets.           *)
LEMMA ChannelTypes ==
    ASSUME NEW S, NEW q \in Seq(S), Len(q) <= Capacity + 1
    PROVE  /\ Waited(q) \in Seq(S)
           /\ Left(q) \in Seq(S) /\ Len(Left(q)) <= Capacity + 1
           /\ \A x \in S : Push(q, x) \in Seq(S) /\ Len(Push(q, x)) <= Capacity + 1
<1> DEFINE n == IF Len(q) < MaxBatch THEN Len(q) ELSE MaxBatch
<1>1. n \in 0..Len(q) /\ Len(q) \in Nat
  BY DataPathTypes
<1>2. Waited(q) = SubSeq(q, 1, n)
  BY DEF Waited
<1> HIDE DEF n
<1>3. Waited(q) \in Seq(S) /\ Len(Waited(q)) = n
  BY <1>1, <1>2
<1>4. Left(q) = SubSeq(q, n + 1, Len(q))
  BY <1>3 DEF Left
<1>5. Left(q) \in Seq(S) /\ Len(Left(q)) = Len(q) - n
  BY <1>1, <1>4
<1>6. Len(Left(q)) <= Capacity + 1
  BY <1>1, <1>5, DataPathTypes
<1>7. \A x \in S : Push(q, x) \in Seq(S) /\ Len(Push(q, x)) <= Capacity + 1
  BY <1>1, DataPathTypes DEF Push
<1> QED
  BY <1>3, <1>5, <1>6, <1>7

LEMMA ElementsType ==
    ASSUME NEW S, NEW q \in Seq(S), NEW x \in Elements(q)
    PROVE  x \in S
BY DEF Elements

-----------------------------------------------------------------------------
(* Steps of the data path are steps of the NAT table.                      *)
LEMMA PathDrivesNat ==
    ASSUME [DataNext]_dataVars
    PROVE  [NatNext]_natVars
<1>1. ASSUME NEW c \in Clients, NEW s \in Sessions, NEW u \in Users,
             NEW p \in Profiles,
             HandleWebSocket(c, s, u, p) \/ HandleWebSocket2(c, s, u, p)
      PROVE  NatNext
  BY <1>1 DEF HandleWebSocket, HandleWebSocket2, HandleWsOpenConnection, NatNext
<1>2. ASSUME NEW c \in Clients,
             Mark(c) \/ CloseErase(c) \/ CloseDel(c) \/ RunSender(c)
      PROVE  [NatNext]_natVars
  BY <1>2 DEF Mark, CloseErase, CloseDel, RunSender, NatNext
<1>3. ASSUME SweepBuckets \/ SweepCommit \/ Tick
      PROVE  NatNext
  BY <1>3 DEF NatNext
<1>4. ASSUME NEW a \in IPv4s \cup IPv6s, NEW size \in Sizes, Arrive(a, size)
      PROVE  UNCHANGED natVars
  BY <1>4 DEF Arrive
<1>5. ASSUME NEW c \in Clients, NEW size \in Sizes, RunReader(c, size)
      PROVE  UNCHANGED natVars
  BY <1>5 DEF RunReader
<1>6. ASSUME ToStep
      PROVE  UNCHANGED natVars
  BY <1>6 DEF ToStep, ToWait, ToLook, ToShape, ToPick, ToChange, ToFlush, ToDone
<1>7. ASSUME FromStep
      PROVE  UNCHANGED natVars
  BY <1>7 DEF FromStep, FromWait, FromLook, FromShape, FromFilter, FromSend
<1> QED
  BY <1>1, <1>2, <1>3, <1>4, <1>5, <1>6, <1>7 DEF DataNext, dataVars

FactsKept ==
    /\ \A m \in Mplx : \A a : Leases(m, a) => Leases(m, a)'
    /\ \A m \in Mplx, c \in Clients : Owns(m, c) => Owns(m, c)'

(* The table never rebuilds a multiplexer or a connection, so what a       *)
(* lookup found out stays true after the lease is over.                    *)
LEMMA FactsStay ==
    ASSUME NatTypeOK, [NatNext]_natVars
    PROVE  FactsKept
<1>1. \A m \in Mplx : heap[m] # Null => heap'[m] = heap[m]
  <2>1. ASSUME NEW c \in Clients, NEW s \in Sessions, NEW u \in Users,
               NEW p \in Profiles, CreateSession(c, s, u, p)
        PROVE  \A m \in Mplx : heap[m] # Null => heap'[m] = heap[m]
    BY <2>1 DEF CreateSession, NatTypeOK
  <2>2. ASSUME NEW c \in Clients, NEW s \in Sessions, NEW u \in Users,
               NEW p \in Profiles, JoinSession(c, s, u, p)
        PROVE  heap' = heap
    BY <2>2 DEF JoinSession
  <2>3. ASSUME NEW c \in Clients, DelConnectionByClientId(c)
        PROVE  heap' = heap
    BY <2>3 DEF DelConnectionByClientId
  <2>4. SweepBuckets \/ SweepCommit \/ Tick \/ UNCHANGED natVars => heap' = heap
    BY DEF SweepBuckets, SweepCommit, Tick, natVars
  <2> QED
    BY <2>1, <2>2, <2>3, <2>4 DEF NatNext, AddConnection
<1>2. \A c \in Clients : conn[c] # Null => conn'[c] = conn[c]
  <2>1. ASSUME NEW c \in Clients, NEW s \in Sessions, NEW u \in Users,
               NEW p \in Profiles, AddConnection(c, s, u, p)
        PROVE  conn[c] = Null /\ conn' = [conn EXCEPT ![c] = NewConnection(u, p)]
    BY <2>1 DEF AddConnection, CreateSession, JoinSession
  <2>2. ASSUME NEW c \in Clients, DelConnectionByClientId(c)
        PROVE  conn' = conn
    BY <2>2 DEF DelConnectionByClientId
  <2>3. SweepBuckets \/ SweepCommit \/ Tick \/ UNCHANGED natVars => conn' = conn
    BY DEF SweepBuckets, SweepCommit, Tick, natVars
  <2> QED
    BY <2>1, <2>2, <2>3 DEF NatNext, NatTypeOK
<1> QED
  BY <1>1, <1>2 DEF FactsKept, Leases, Owns

LEMMA IndexStaysOwned ==
    ASSUME NatInv, IndexOwned, FactsKept, [NatNext]_natVars
    PROVE  IndexOwned'
<1> USE DEF NatInv
<1>1. client_to_mplx \in [Clients -> Mplx \cup {Null}] /\ Null \notin Mplx
  BY NullFresh DEF NatTypeOK
<1>2. ASSUME \A d \in Clients : client_to_mplx'[d] \in {client_to_mplx[d], Null}
      PROVE  IndexOwned'
  BY <1>1, <1>2 DEF IndexOwned, FactsKept
<1>3. ASSUME NEW c \in Clients, NEW s \in Sessions, NEW u \in Users,
             NEW p \in Profiles, AddConnection(c, s, u, p)
      PROVE  IndexOwned'
  <2>1. PICK m \in Mplx : /\ client_to_mplx' = [client_to_mplx EXCEPT ![c] = m]
                          /\ heap'[m] # Null /\ heap'[m].username = u
    <3>1. CASE JoinSession(c, s, u, p)
      <4>1. PICK m \in Mplx : m = session_to_mplx[s]
        BY <3>1 DEF JoinSession, NatTypeOK
      <4>2. heap[m] # Null /\ heap[m].username = u /\ heap' = heap
        BY <3>1, <4>1, <1>1 DEF JoinSession, SessionIndexOK
      <4>3. client_to_mplx' = [client_to_mplx EXCEPT ![c] = m]
        BY <3>1, <4>1 DEF JoinSession
      <4> QED
        BY <4>2, <4>3
    <3>2. CASE CreateSession(c, s, u, p)
      <4>1. PICK m \in Mplx, a4 \in IPv4s, a6 \in IPv6s :
              /\ heap' = [heap EXCEPT ![m] = [username |-> u, session_id |-> s,
                                              fake4 |-> a4, fake6 |-> a6]]
              /\ client_to_mplx' = [client_to_mplx EXCEPT ![c] = m]
        BY <3>2 DEF CreateSession
      <4>2. [username |-> u, session_id |-> s, fake4 |-> a4, fake6 |-> a6]
              \in [username : Users, session_id : Sessions,
                   fake4 : IPv4s, fake6 : IPv6s]
        OBVIOUS
      <4>3. heap'[m] = [username |-> u, session_id |-> s,
                        fake4 |-> a4, fake6 |-> a6]
        BY <4>1 DEF NatTypeOK
      <4>4. heap'[m] # Null /\ heap'[m].username = u
        BY <4>2, <4>3, NullFresh
      <4> QED
        BY <4>1, <4>4
    <3> QED
      BY <1>3, <3>1, <3>2 DEF AddConnection
  <2>2. conn' = [conn EXCEPT ![c] = NewConnection(u, p)]
    BY <1>3 DEF AddConnection, JoinSession, CreateSession
  <2>3. conn'[c] # Null /\ conn'[c].username = u
    BY <2>2, NewConnectionType DEF NatTypeOK
  <2>4. Owns(m, c)'
    BY <2>1, <2>3 DEF Owns
  <2>5. \A d \in Clients : client_to_mplx'[d] = IF d = c THEN m ELSE client_to_mplx[d]
    BY <1>1, <2>1
  <2> QED
    BY <1>1, <2>4, <2>5 DEF IndexOwned, FactsKept
<1>4. ASSUME NEW c \in Clients, DelConnectionByClientId(c)
      PROVE  IndexOwned'
  BY <1>1, <1>2, <1>4 DEF DelConnectionByClientId
<1>5. ASSUME SweepBuckets \/ SweepCommit \/ Tick \/ UNCHANGED natVars
      PROVE  IndexOwned'
  BY <1>1, <1>2, <1>5 DEF SweepBuckets, SweepCommit, Tick, natVars, indexes
<1> QED
  BY <1>3, <1>4, <1>5 DEF NatNext

LEMMA ToStays ==
    ASSUME DataTypeOK, ToOK, FactsKept, UNCHANGED to
    PROVE  ToOK'
BY DEF ToOK, FactsKept

LEMMA FromStays ==
    ASSUME DataTypeOK, FromOK, FactsKept, UNCHANGED from
    PROVE  FromOK'
<1>1. ASSUME from.packets # <<>>
      PROVE  Head(from.packets).client \in Clients
  <2>1. from.packets \in Seq(Outbound)
    BY DEF DataTypeOK
  <2>2. Head(from.packets) \in Outbound
    BY <1>1, <2>1
  <2> QED
    BY <2>2 DEF Outbound
<1> QED
  BY <1>1 DEF FromOK, FactsKept

LEMMA RoutedStays ==
    ASSUME DataTypeOK, RoutedOK, FactsKept,
           \A c \in Clients :
              Elements(batches'[c]) \cup Elements(write_channel'[c])
                 \subseteq Elements(batches[c]) \cup Elements(write_channel[c])
    PROVE  RoutedOK'
<1> SUFFICES ASSUME NEW c \in Clients,
                    NEW p \in Elements(batches'[c]) \cup Elements(write_channel'[c])
             PROVE  Leases(p.via, p.dst)' /\ Owns(p.via, c)'
  BY DEF RoutedOK
<1>1. p \in Elements(batches[c]) \cup Elements(write_channel[c])
  OBVIOUS
<1>2. batches[c] \in Seq(Routed) /\ write_channel[c] \in Seq(Routed)
  BY DEF DataTypeOK
<1>3. p \in Routed
  BY <1>1, <1>2, ElementsType
<1> QED
  BY <1>1, <1>3 DEF RoutedOK, FactsKept, Routed

LEMMA SentStays ==
    ASSUME DataTypeOK, SentOK, FactsKept, UNCHANGED prepared
    PROVE  SentOK'
<1> SUFFICES ASSUME NEW p \in Elements(prepared)
             PROVE  Owns(p.via, p.client)'
  BY DEF SentOK
<1>1. p \in Sent
  BY ElementsType DEF DataTypeOK
<1> QED
  BY <1>1 DEF SentOK, FactsKept, Sent

(* CheckSpeedLimit and what follows it keep a window within its bound.     *)
LEMMA WindowStays ==
    ASSUME DataTypeOK, WindowBounded, NatTypeOK, NEW m \in Mplx,
           NEW d \in Directions, NEW size \in Sizes,
           CheckSpeedLimit(bucket[m][d], size),
           bucket' = [bucket EXCEPT ![m][d] = Poured(@, size)]
    PROVE  /\ bucket' \in [Mplx -> [Directions -> [amount : Nat, since : Nat]]]
           /\ WindowBounded'
<1> DEFINE b == bucket[m][d]
<1>1. b \in [amount : Nat, since : Nat] /\ size \in Nat /\ now \in Nat
  BY DataPathTypes, MaxTimeType DEF DataTypeOK, NatTypeOK
<1>2. Poured(b, size) \in [amount : Nat, since : Nat]
  BY <1>1 DEF Poured
<1>3. Poured(b, size).amount < Limit \/ Poured(b, size).amount \in Sizes \cup {0}
  <2>1. CASE WindowOver(b)
    BY <2>1 DEF Poured
  <2>2. CASE ~WindowOver(b)
    BY <2>2, <1>1 DEF Poured, CheckSpeedLimit
  <2> QED
    BY <2>1, <2>2
<1>4. bucket' = [bucket EXCEPT ![m] = [bucket[m] EXCEPT ![d] = Poured(b, size)]]
  OBVIOUS
<1> HIDE DEF b
<1>5. bucket' \in [Mplx -> [Directions -> [amount : Nat, since : Nat]]]
  BY <1>2, <1>4 DEF DataTypeOK
<1>6. ASSUME NEW n \in Mplx, NEW e \in Directions
      PROVE  bucket'[n][e] = IF n = m /\ e = d THEN Poured(b, size)
                                               ELSE bucket[n][e]
  <2>1. /\ bucket \in [Mplx -> [Directions -> [amount : Nat, since : Nat]]]
        /\ bucket[m] \in [Directions -> [amount : Nat, since : Nat]]
    BY DEF DataTypeOK
  <2>2. CASE n = m
    <3>1. bucket'[n] = [bucket[m] EXCEPT ![d] = Poured(b, size)]
      BY <1>4, <2>1, <2>2
    <3> QED
      BY <2>1, <2>2, <3>1
  <2>3. CASE n # m
    BY <1>4, <2>1, <2>3
  <2> QED
    BY <2>2, <2>3
<1> QED
  BY <1>3, <1>5, <1>6 DEF WindowBounded

-----------------------------------------------------------------------------
(* Sessions come and go without disturbing what was routed before.         *)
LEMMA OpeningKeepsInv ==
    ASSUME NatTypeOK, NatTypeOK', PathInv, FactsKept, NEW c \in Clients,
           NEW s \in Sessions, NEW u \in Users, NEW p \in Profiles,
           HandleWebSocket(c, s, u, p) \/ HandleWebSocket2(c, s, u, p)
    PROVE  PathInv'
<1> USE DEF PathInv
<1>1. /\ sessions' = sessions \cup {c}
      /\ bucket' = [m \in Mplx |-> IF heap[m] = Null /\ heap'[m] # Null
                                   THEN [d \in Directions |-> NewBucket]
                                   ELSE bucket[m]]
      /\ UNCHANGED <<unchanged_ip, from_network, to, batches, write_channel,
                     from_client, from, prepared>>
  BY DEF HandleWebSocket, HandleWebSocket2, HandleWsOpenConnection
<1>2. opening' \in [Clients -> Mplx \cup {Null}]
  BY ZenonT(30) DEF HandleWebSocket, HandleWebSocket2, DataTypeOK, NatTypeOK
<1>3. NewBucket \in [amount : Nat, since : Nat] /\ NewBucket.amount = 0
  BY MaxTimeType DEF NewBucket, NatTypeOK
<1>4. bucket' \in [Mplx -> [Directions -> [amount : Nat, since : Nat]]]
  BY <1>1, <1>3 DEF DataTypeOK
<1>5. WindowBounded'
  <2> SUFFICES ASSUME NEW m \in Mplx, NEW d \in Directions
               PROVE  \/ bucket'[m][d].amount < Limit
                      \/ bucket'[m][d].amount \in Sizes \cup {0}
    BY DEF WindowBounded
  <2>1. bucket'[m][d] = NewBucket \/ bucket'[m][d] = bucket[m][d]
    BY <1>1
  <2> QED
    BY <2>1, <1>3 DEF WindowBounded
<1>6. DataTypeOK'
  BY <1>1, <1>2, <1>4 DEF DataTypeOK
<1> QED
  BY <1>1, <1>5, <1>6, ToStays, FromStays, RoutedStays, SentStays

LEMMA OthersKeepInv ==
    ASSUME PathInv, FactsKept, NEW c \in Clients,
           Mark(c) \/ CloseErase(c) \/ RunSender(c)
    PROVE  PathInv'
<1> USE DEF PathInv
<1>1. UNCHANGED <<bucket, from_network, to, batches, from_client, from, prepared>>
  BY DEF Mark, CloseErase, RunSender
<1>2. PICK q : /\ \/ UNCHANGED write_channel
                  \/ write_channel' = [write_channel EXCEPT ![c] = q]
               /\ q = <<>> \/ \E n \in 1..Len(write_channel[c]) :
                    q = SubSeq(write_channel[c], n + 1, Len(write_channel[c]))
  BY DEF Mark, CloseErase, RunSender
<1>3. /\ sessions' \subseteq Clients
      /\ opening' \in [Clients -> Mplx \cup {Null}]
      /\ unchanged_ip' \subseteq Mplx
  BY DEF Mark, CloseErase, RunSender, DataTypeOK
<1>4. /\ write_channel \in [Clients -> Seq(Routed)]
      /\ write_channel[c] \in Seq(Routed)
      /\ \A d \in Clients : Len(write_channel[d]) <= WriteCapacity
  BY DEF DataTypeOK
<1>5. /\ q \in Seq(Routed) /\ Len(q) <= WriteCapacity
      /\ Elements(q) \subseteq Elements(write_channel[c])
  <2>1. CASE q = <<>>
    BY <2>1, DataPathTypes, ElementsOfNothing
  <2>2. ASSUME NEW n \in 1..Len(write_channel[c]),
               q = SubSeq(write_channel[c], n + 1, Len(write_channel[c]))
        PROVE  /\ q \in Seq(Routed) /\ Len(q) <= WriteCapacity
               /\ Elements(q) \subseteq Elements(write_channel[c])
    BY <1>4, <2>2, ElementsOfRest, DataPathTypes
  <2> QED
    BY <1>2, <2>1, <2>2
<1>6. /\ write_channel' \in [Clients -> Seq(Routed)]
      /\ \A d \in Clients : /\ Len(write_channel'[d]) <= WriteCapacity
                            /\ Elements(write_channel'[d])
                                 \subseteq Elements(write_channel[d])
  BY <1>2, <1>4, <1>5
<1>7. DataTypeOK'
  BY <1>1, <1>3, <1>6 DEF DataTypeOK
<1>8. RoutedOK'
  BY <1>1, <1>6, RoutedStays
<1>9. WindowBounded'
  BY <1>1 DEF WindowBounded
<1> QED
  BY <1>1, <1>7, <1>8, <1>9, ToStays, FromStays, SentStays

LEMMA PathUnchangedKeepsInv ==
    ASSUME PathInv, FactsKept, UNCHANGED pathVars
    PROVE  PathInv'
<1> USE DEF PathInv, pathVars
<1>1. DataTypeOK'
  BY DEF DataTypeOK
<1>2. RoutedOK'
  BY RoutedStays
<1>3. WindowBounded'
  BY DEF WindowBounded
<1> QED
  BY <1>1, <1>2, <1>3, ToStays, FromStays, SentStays

LEMMA EnteringKeepsInv ==
    ASSUME PathInv, FactsKept, NEW size \in Sizes,
           \/ \E a \in IPv4s \cup IPv6s : Arrive(a, size)
           \/ \E c \in Clients : RunReader(c, size)
    PROVE  PathInv'
<1> USE DEF PathInv
<1>1. UNCHANGED <<sessions, opening, unchanged_ip, bucket, to, batches,
                  write_channel, from, prepared>>
  BY DEF Arrive, RunReader
<1>2. from_network' \in Seq(Inbound) /\ Len(from_network') <= Capacity + 1
  <2>1. from_network \in Seq(Inbound) /\ Len(from_network) <= Capacity + 1
    BY DEF DataTypeOK
  <2>2. ASSUME NEW a \in IPv4s \cup IPv6s, Arrive(a, size)
        PROVE  from_network' = Push(from_network, [dst |-> a, size |-> size])
    BY <2>2 DEF Arrive
  <2>3. ASSUME NEW a \in IPv4s \cup IPv6s
        PROVE  [dst |-> a, size |-> size] \in Inbound
    BY DEF Inbound
  <2>4. ASSUME NEW c \in Clients, RunReader(c, size)
        PROVE  UNCHANGED from_network
    BY <2>4 DEF RunReader
  <2> QED
    BY <2>1, <2>2, <2>3, <2>4, ChannelTypes
<1>3. from_client' \in Seq(Outbound) /\ Len(from_client') <= Capacity + 1
  <2>1. from_client \in Seq(Outbound) /\ Len(from_client) <= Capacity + 1
    BY DEF DataTypeOK
  <2>2. ASSUME NEW c \in Clients, RunReader(c, size)
        PROVE  from_client' = Push(from_client, [client |-> c, size |-> size])
    BY <2>2 DEF RunReader
  <2>3. ASSUME NEW c \in Clients
        PROVE  [client |-> c, size |-> size] \in Outbound
    BY DEF Outbound
  <2>4. ASSUME NEW a \in IPv4s \cup IPv6s, Arrive(a, size)
        PROVE  UNCHANGED from_client
    BY <2>4 DEF Arrive
  <2> QED
    BY <2>1, <2>2, <2>3, <2>4, ChannelTypes
<1>4. DataTypeOK'
  BY <1>1, <1>2, <1>3 DEF DataTypeOK
<1>5. RoutedOK'
  BY <1>1, RoutedStays
<1>6. WindowBounded'
  BY <1>1 DEF WindowBounded
<1> QED
  BY <1>1, <1>4, <1>5, <1>6, ToStays, FromStays, SentStays

-----------------------------------------------------------------------------
(* RunToClient, lookup by lookup.                                          *)
LEMMA LookupKeepsInv ==
    ASSUME NatInv, PathInv, FactsKept, ToWait \/ ToLook \/ ToPick \/ ToDone
    PROVE  PathInv'
<1> USE DEF PathInv
<1>1. UNCHANGED <<sessions, opening, unchanged_ip, bucket, batches,
                  write_channel, from_client, from, prepared>>
  BY DEF ToWait, ToLook, ToPick, ToDone
<1>2. /\ to \in [at : {"wait", "look", "shape", "pick", "change"},
                 packets : Seq(Inbound), nat_session : Mplx \cup {Null},
                 client_id : Clients \cup {Null}]
      /\ to.packets \in Seq(Inbound)
      /\ from_network \in Seq(Inbound) /\ Len(from_network) <= Capacity + 1
  BY DEF DataTypeOK
<1>3. Null \notin Mplx /\ <<>> \in Seq(Inbound)
  BY NullFresh
<1>4. /\ to' \in [at : {"wait", "look", "shape", "pick", "change"},
                  packets : Seq(Inbound), nat_session : Mplx \cup {Null},
                  client_id : Clients \cup {Null}]
      /\ from_network' \in Seq(Inbound) /\ Len(from_network') <= Capacity + 1
      /\ ToOK'
  <2>1. CASE ToWait
    <3>1. /\ to' = [to EXCEPT !.at = "look", !.packets = Waited(from_network)]
          /\ from_network' = Left(from_network)
      BY <2>1 DEF ToWait
    <3>2. Waited(from_network) \in Seq(Inbound)
      BY <1>2, ChannelTypes
    <3>3. Left(from_network) \in Seq(Inbound) /\ Len(Left(from_network)) <= Capacity + 1
      BY <1>2, ChannelTypes
    <3> QED
      BY <1>2, <3>1, <3>2, <3>3 DEF ToOK
  <2>2. CASE ToLook
    <3> DEFINE a == Head(to.packets).dst
               m == GetMultiplexerByFakeIP(a)
    <3>1. to.at = "look" /\ to.packets # <<>> /\ UNCHANGED from_network
      BY <2>2 DEF ToLook
    <3>2. to' = IF m = Null THEN ToNext
                ELSE [to EXCEPT !.at = "shape", !.nat_session = m]
      BY <2>2 DEF ToLook
    <3>3. Head(to.packets) \in Inbound /\ Tail(to.packets) \in Seq(Inbound)
      BY <1>2, <3>1
    <3>4. a \in IPv4s \cup IPv6s
      BY <3>3 DEF Inbound
    <3>5. m \in Mplx \cup {Null}
      BY <3>4 DEF GetMultiplexerByFakeIP, NatInv, NatTypeOK
    <3>6. m # Null => Leases(m, a)
      BY <1>3, <3>4, <3>5
         DEF GetMultiplexerByFakeIP, Leases, NatInv, AddressConservation, Live
    <3> HIDE DEF m
    <3>7. CASE m = Null
      BY <1>2, <3>1, <3>2, <3>3, <3>7 DEF ToNext, ToIdle, ToOK
    <3>8. CASE m # Null
      <4>1. /\ to'.at = "shape" /\ to'.packets = to.packets /\ to'.nat_session = m
            /\ to' \in [at : {"wait", "look", "shape", "pick", "change"},
                        packets : Seq(Inbound), nat_session : Mplx \cup {Null},
                        client_id : Clients \cup {Null}]
        BY <1>2, <3>2, <3>5, <3>8
      <4>2. PICK n \in Mplx, y \in IPv4s \cup IPv6s : n = m /\ y = a
        BY <3>4, <3>5, <3>8
      <4>3. Leases(n, y)'
        BY <3>6, <3>8, <4>2 DEF FactsKept
      <4>4. to'.nat_session = n /\ Head(to'.packets).dst = y /\ to'.packets # <<>>
        BY <3>1, <4>1, <4>2
      <4>5. ToOK'
        BY <4>1, <4>3, <4>4 DEF ToOK, Leases
      <4> QED
        BY <1>2, <3>1, <4>1, <4>5
    <3> QED
      BY <3>7, <3>8
  <2>3. CASE ToPick
    <3>1. to.at = "pick" /\ UNCHANGED from_network
      BY <2>3 DEF ToPick
    <3>2. /\ to.packets # <<>> /\ to.nat_session \in Mplx
          /\ Leases(to.nat_session, Head(to.packets).dst)
      BY <3>1 DEF ToOK
    <3>3. Tail(to.packets) \in Seq(Inbound)
      BY <1>2, <3>2
    <3>4. CASE to' = ToNext
      BY <1>2, <3>1, <3>3, <3>4 DEF ToNext, ToIdle, ToOK
    <3>5. ASSUME NEW c \in receiving[to.nat_session],
                 to' = [to EXCEPT !.at = "change", !.client_id = c]
          PROVE  /\ to' \in [at : {"wait", "look", "shape", "pick", "change"},
                             packets : Seq(Inbound),
                             nat_session : Mplx \cup {Null},
                             client_id : Clients \cup {Null}]
                 /\ ToOK'
      <4>1. c \in Clients /\ c \in Held(to.nat_session)
        BY <3>2 DEF NatInv, NatTypeOK, Held
      <4>2. Owns(to.nat_session, c)
        BY <3>2, <4>1 DEF Owns, Leases, NatInv, AcceptedOK, UserIsolation
      <4>3. /\ to'.at = "change" /\ to'.packets = to.packets
            /\ to'.nat_session = to.nat_session /\ to'.client_id = c
            /\ to' \in [at : {"wait", "look", "shape", "pick", "change"},
                        packets : Seq(Inbound), nat_session : Mplx \cup {Null},
                        client_id : Clients \cup {Null}]
        BY <1>2, <3>5, <4>1
      <4>4. PICK n \in Mplx, y \in IPv4s \cup IPv6s :
               n = to.nat_session /\ y = Head(to.packets).dst
        <5>1. Head(to.packets) \in Inbound
          BY <1>2, <3>2
        <5> QED
          BY <5>1, <3>2 DEF Inbound
      <4>5. Leases(n, y)' /\ Owns(n, c)'
        BY <3>2, <4>1, <4>2, <4>4 DEF FactsKept
      <4>6. ToOK'
        BY <3>2, <4>1, <4>3, <4>4, <4>5 DEF ToOK, Leases, Owns
      <4> QED
        BY <4>3, <4>6
    <3> QED
      BY <1>2, <2>3, <3>1, <3>4, <3>5 DEF ToPick
  <2>4. CASE ToDone
    BY <1>2, <1>3, <2>4 DEF ToDone, ToIdle, ToOK
  <2> QED
    BY <2>1, <2>2, <2>3, <2>4
<1>5. DataTypeOK'
  BY <1>1, <1>4 DEF DataTypeOK
<1>6. RoutedOK'
  BY <1>1, RoutedStays
<1>7. WindowBounded'
  BY <1>1 DEF WindowBounded
<1> QED
  BY <1>1, <1>4, <1>5, <1>6, <1>7, FromStays, SentStays

(* The next packet of the loop.                                            *)
LEMMA ToNextOK ==
    ASSUME DataTypeOK, to.packets # <<>>
    PROVE  /\ ToNext \in [at : {"wait", "look", "shape", "pick", "change"},
                          packets : Seq(Inbound), nat_session : Mplx \cup {Null},
                          client_id : Clients \cup {Null}]
           /\ ToNext.at = "look"
<1>1. Tail(to.packets) \in Seq(Inbound)
  BY DEF DataTypeOK
<1> QED
  BY <1>1 DEF ToNext, ToIdle

LEMMA ToShapeKeepsInv ==
    ASSUME NatInv, PathInv, FactsKept, ToShape
    PROVE  PathInv'
<1> USE DEF PathInv
<1>1. UNCHANGED <<sessions, opening, unchanged_ip, from_network, batches,
                  write_channel, from_client, from, prepared>>
  BY DEF ToShape
<1>2. PICK m \in Mplx : m = to.nat_session
  BY DEF ToShape, ToOK
<1>3. to.at = "shape" /\ to.packets # <<>>
  BY DEF ToShape, ToOK
<1>4. PICK size \in Sizes : size = Head(to.packets).size
  <2>1. to.packets \in Seq(Inbound)
    BY DEF DataTypeOK
  <2>2. Head(to.packets) \in Inbound
    BY <1>3, <2>1
  <2> QED
    BY <2>2 DEF Inbound
<1>5. CASE /\ CheckSpeedLimit(bucket[m]["to_client"], size)
           /\ bucket' = [bucket EXCEPT ![m]["to_client"] = Poured(@, size)]
           /\ to' = [to EXCEPT !.at = "pick"]
  <2>1. /\ bucket' \in [Mplx -> [Directions -> [amount : Nat, since : Nat]]]
        /\ WindowBounded'
    BY <1>5, WindowStays DEF Directions, NatInv
  <2>2. /\ to' \in [at : {"wait", "look", "shape", "pick", "change"},
                    packets : Seq(Inbound), nat_session : Mplx \cup {Null},
                    client_id : Clients \cup {Null}]
        /\ to'.at = "pick" /\ to'.packets = to.packets
        /\ to'.nat_session = to.nat_session
    BY <1>5 DEF DataTypeOK
  <2>3. PICK y : y = Head(to.packets).dst
    OBVIOUS
  <2>4. Leases(m, y)'
    BY <1>2, <1>3, <2>3 DEF ToOK, FactsKept
  <2>5. ToOK'
    BY <1>2, <1>3, <2>2, <2>3, <2>4 DEF ToOK, Leases
  <2>6. DataTypeOK'
    BY <1>1, <2>1, <2>2 DEF DataTypeOK
  <2> QED
    BY <1>1, <2>1, <2>5, <2>6, FromStays, RoutedStays, SentStays
<1>6. CASE to' = ToNext /\ UNCHANGED bucket
  <2>1. DataTypeOK'
    BY <1>1, <1>3, <1>6, ToNextOK DEF DataTypeOK
  <2>2. ToOK'
    BY <1>3, <1>6, ToNextOK DEF ToOK
  <2>3. WindowBounded'
    BY <1>6 DEF WindowBounded
  <2> QED
    BY <1>1, <2>1, <2>2, <2>3, FromStays, RoutedStays, SentStays
<1> QED
  BY <1>2, <1>4, <1>5, <1>6 DEF ToShape

LEMMA ToChangeKeepsInv ==
    ASSUME PathInv, FactsKept, ToChange
    PROVE  PathInv'
<1> USE DEF PathInv
<1>1. UNCHANGED <<sessions, opening, unchanged_ip, bucket, from_network,
                  write_channel, from_client, from, prepared>>
  BY DEF ToChange
<1>2. to.at = "change" /\ to.packets # <<>> /\ to' = ToNext
  BY DEF ToChange, ToOK
<1>3. PICK m \in Mplx, c \in Clients, y \in IPv4s \cup IPv6s :
         m = to.nat_session /\ c = to.client_id /\ y = Head(to.packets).dst
  <2>1. to.packets \in Seq(Inbound)
    BY DEF DataTypeOK
  <2>2. Head(to.packets) \in Inbound
    BY <1>2, <2>1
  <2> QED
    BY <1>2, <2>2 DEF ToOK, Inbound
<1>4. Leases(m, y)' /\ Owns(m, c)'
  BY <1>2, <1>3 DEF ToOK, FactsKept
<1> DEFINE p == [dst |-> y, via |-> m]
<1>5. p \in Routed /\ p.dst = y /\ p.via = m
  BY DEF Routed
<1>6. \/ UNCHANGED batches
      \/ batches' = [batches EXCEPT ![c] = Append(@, p)]
  BY <1>3 DEF ToChange
<1> HIDE DEF p
<1>7. batches \in [Clients -> Seq(Routed)]
  BY DEF DataTypeOK
<1>8. batches' \in [Clients -> Seq(Routed)]
  <2>1. Append(batches[c], p) \in Seq(Routed)
    BY <1>5, <1>7
  <2> QED
    BY <1>6, <1>7, <2>1
<1>9. DataTypeOK'
  BY <1>1, <1>2, <1>8, ToNextOK DEF DataTypeOK
<1>10. ToOK'
  BY <1>2, ToNextOK DEF ToOK
<1>11. RoutedOK'
  <2>1. CASE UNCHANGED batches
    BY <1>1, <2>1, RoutedStays
  <2>2. CASE batches' = [batches EXCEPT ![c] = Append(@, p)]
    <3> SUFFICES ASSUME NEW d \in Clients,
                        NEW q \in Elements(batches'[d]) \cup
                                  Elements(write_channel'[d])
                 PROVE  Leases(q.via, q.dst)' /\ Owns(q.via, d)'
      BY DEF RoutedOK
    <3>1. batches'[d] = IF d = c THEN Append(batches[d], p) ELSE batches[d]
      BY <1>7, <2>2
    <3>2. batches[d] \in Seq(Routed) /\ write_channel[d] \in Seq(Routed)
      BY DEF DataTypeOK
    <3>3. Elements(Append(batches[d], p)) = Elements(batches[d]) \cup {p}
      BY <1>5, <3>2, ElementsOfAppend
    <3>4. CASE q \in Elements(batches[d]) \cup Elements(write_channel[d])
      <4>1. q \in Routed
        BY <3>2, <3>4, ElementsType
      <4> QED
        BY <3>4, <4>1 DEF RoutedOK, FactsKept, Routed
    <3>5. CASE d = c /\ q = p
      BY <1>4, <1>5, <3>5
    <3> QED
      BY <1>1, <3>1, <3>3, <3>4, <3>5
  <2> QED
    BY <1>6, <2>1, <2>2
<1>12. WindowBounded'
  BY <1>1 DEF WindowBounded
<1> QED
  BY <1>1, <1>9, <1>10, <1>11, <1>12, FromStays, SentStays

LEMMA ToFlushKeepsInv ==
    ASSUME PathInv, FactsKept, NEW c \in Clients, ToFlush(c)
    PROVE  PathInv'
<1> USE DEF PathInv
<1>1. UNCHANGED <<sessions, opening, unchanged_ip, bucket, from_network, to,
                  from_client, from, prepared>>
  BY DEF ToFlush
<1>2. /\ batches \in [Clients -> Seq(Routed)]
      /\ write_channel \in [Clients -> Seq(Routed)]
      /\ \A d \in Clients : Len(write_channel[d]) <= WriteCapacity
  BY DEF DataTypeOK
<1>3. batches' = [batches EXCEPT ![c] = <<>>]
  BY DEF ToFlush
<1>4. \/ write_channel' = write_channel
      \/ write_channel' = [write_channel EXCEPT ![c] = Written(@, batches[c])]
  BY DEF ToFlush
<1>5. /\ Written(write_channel[c], batches[c]) \in Seq(Routed)
      /\ Len(Written(write_channel[c], batches[c])) <= WriteCapacity
      /\ Elements(Written(write_channel[c], batches[c]))
            \subseteq Elements(write_channel[c]) \cup Elements(batches[c])
  BY <1>2, ElementsWritten
<1>6. <<>> \in Seq(Routed)
  OBVIOUS
<1>7. batches' \in [Clients -> Seq(Routed)]
  BY <1>2, <1>3, <1>6
<1>8. /\ write_channel' \in [Clients -> Seq(Routed)]
      /\ \A d \in Clients : Len(write_channel'[d]) <= WriteCapacity
  BY <1>2, <1>4, <1>5
<1>9. DataTypeOK'
  BY <1>1, <1>7, <1>8 DEF DataTypeOK
<1>10. RoutedOK'
  <2>1. ASSUME NEW d \in Clients
        PROVE  Elements(batches'[d]) \cup Elements(write_channel'[d])
                 \subseteq Elements(batches[d]) \cup Elements(write_channel[d])
    <3>1. CASE d # c
      BY <1>2, <1>3, <1>4, <3>1
    <3>2. CASE d = c
      BY <1>2, <1>3, <1>4, <1>5, <3>2, ElementsOfNothing
    <3> QED
      BY <3>1, <3>2
  <2> QED
    BY <2>1, RoutedStays
<1>11. WindowBounded'
  BY <1>1 DEF WindowBounded
<1> QED
  BY <1>1, <1>9, <1>10, <1>11, ToStays, FromStays, SentStays

-----------------------------------------------------------------------------
(* RunFromClient, lookup by lookup.                                        *)
LEMMA FromNextOK ==
    ASSUME DataTypeOK, from.packets # <<>>
    PROVE  /\ FromNext \in [at : {"wait", "look", "shape", "filter"},
                            packets : Seq(Outbound), session : Mplx \cup {Null}]
           /\ FromNext.at = "look"
<1>1. Tail(from.packets) \in Seq(Outbound)
  BY DEF DataTypeOK
<1> QED
  BY <1>1 DEF FromNext, FromIdle

LEMMA FromWaitKeepsInv ==
    ASSUME PathInv, FactsKept, FromWait \/ FromSend
    PROVE  PathInv'
<1> USE DEF PathInv
<1>1. UNCHANGED <<sessions, opening, unchanged_ip, bucket, from_network, to,
                  batches, write_channel>>
  BY DEF FromWait, FromSend
<1>2. /\ from \in [at : {"wait", "look", "shape", "filter"},
                   packets : Seq(Outbound), session : Mplx \cup {Null}]
      /\ from_client \in Seq(Outbound) /\ Len(from_client) <= Capacity + 1
      /\ prepared \in Seq(Sent)
  BY DEF DataTypeOK
<1>3. /\ from' \in [at : {"wait", "look", "shape", "filter"},
                    packets : Seq(Outbound), session : Mplx \cup {Null}]
      /\ from_client' \in Seq(Outbound) /\ Len(from_client') <= Capacity + 1
      /\ prepared' \in {prepared, <<>>}
      /\ FromOK'
  <2>1. CASE FromWait
    <3>1. /\ from' = [from EXCEPT !.at = "look", !.packets = Waited(from_client)]
          /\ from_client' = Left(from_client) /\ prepared' = prepared
      BY <2>1 DEF FromWait
    <3>2. Waited(from_client) \in Seq(Outbound)
      BY <1>2, ChannelTypes
    <3>3. Left(from_client) \in Seq(Outbound) /\ Len(Left(from_client)) <= Capacity + 1
      BY <1>2, ChannelTypes
    <3> QED
      BY <1>2, <3>1, <3>2, <3>3 DEF FromOK
  <2>2. CASE FromSend
    <3>1. <<>> \in Seq(Outbound)
      OBVIOUS
    <3> QED
      BY <1>2, <2>2, <3>1 DEF FromSend, FromIdle, FromOK
  <2> QED
    BY <2>1, <2>2
<1>4. prepared' \in Seq(Sent)
  <2>1. <<>> \in Seq(Sent)
    OBVIOUS
  <2> QED
    BY <1>2, <1>3, <2>1
<1>5. DataTypeOK'
  BY <1>1, <1>3, <1>4 DEF DataTypeOK
<1>6. SentOK'
  <2>1. CASE prepared' = prepared
    BY <2>1, SentStays
  <2>2. CASE prepared' = <<>>
    BY <2>2, ElementsOfNothing DEF SentOK
  <2> QED
    BY <1>3, <2>1, <2>2
<1>7. WindowBounded'
  BY <1>1 DEF WindowBounded
<1> QED
  BY <1>1, <1>3, <1>5, <1>6, <1>7, ToStays, RoutedStays

LEMMA FromLookKeepsInv ==
    ASSUME NatInv, IndexOwned, PathInv, FactsKept, FromLook
    PROVE  PathInv'
<1> USE DEF PathInv
<1>1. UNCHANGED <<sessions, opening, unchanged_ip, bucket, from_network, to,
                  batches, write_channel, from_client, prepared>>
  BY DEF FromLook
<1>2. /\ from \in [at : {"wait", "look", "shape", "filter"},
                   packets : Seq(Outbound), session : Mplx \cup {Null}]
      /\ from.packets \in Seq(Outbound) /\ from.packets # <<>>
  BY DEF DataTypeOK, FromLook
<1>3. PICK c \in Clients : c = Head(from.packets).client
  <2>1. Head(from.packets) \in Outbound
    BY <1>2
  <2> QED
    BY <2>1 DEF Outbound
<1>4. PICK m \in Mplx \cup {Null} : m = client_to_mplx[c]
  BY DEF NatInv, NatTypeOK
<1>5. from' = IF m = Null THEN FromNext
              ELSE [from EXCEPT !.at = "shape", !.session = m]
  BY <1>3, <1>4 DEF FromLook
<1>6. /\ from' \in [at : {"wait", "look", "shape", "filter"},
                    packets : Seq(Outbound), session : Mplx \cup {Null}]
      /\ FromOK'
  <2>1. CASE m = Null
    BY <1>2, <1>5, <2>1, FromNextOK DEF FromOK
  <2>2. CASE m # Null
    <3>1. m \in Mplx
      BY <2>2
    <3>2. Owns(m, c)
      BY <1>4, <3>1 DEF IndexOwned
    <3>4. Owns(m, c)'
      BY <3>1, <3>2 DEF FactsKept
    <3>5. /\ from' \in [at : {"wait", "look", "shape", "filter"},
                        packets : Seq(Outbound), session : Mplx \cup {Null}]
          /\ from'.packets = from.packets /\ from'.session = m
      BY <1>2, <1>5, <2>2, <3>1
    <3> QED
      BY <1>2, <1>3, <3>1, <3>4, <3>5 DEF FromOK, Owns
  <2> QED
    BY <2>1, <2>2
<1>7. DataTypeOK'
  BY <1>1, <1>6 DEF DataTypeOK
<1>8. WindowBounded'
  BY <1>1 DEF WindowBounded
<1> QED
  BY <1>1, <1>6, <1>7, <1>8, ToStays, RoutedStays, SentStays

LEMMA FromShapeKeepsInv ==
    ASSUME NatInv, PathInv, FactsKept, FromShape
    PROVE  PathInv'
<1> USE DEF PathInv
<1>1. UNCHANGED <<sessions, opening, unchanged_ip, from_network, to, batches,
                  write_channel, from_client, prepared>>
  BY DEF FromShape
<1>2. PICK m \in Mplx : m = from.session
  BY DEF FromShape, FromOK
<1>3. from.at = "shape" /\ from.packets # <<>>
  BY DEF FromShape, FromOK
<1>4. PICK c \in Clients, size \in Sizes :
         c = Head(from.packets).client /\ size = Head(from.packets).size
  <2>1. from.packets \in Seq(Outbound)
    BY DEF DataTypeOK
  <2>2. Head(from.packets) \in Outbound
    BY <1>3, <2>1
  <2> QED
    BY <2>2 DEF Outbound
<1>5. CASE /\ CheckSpeedLimit(bucket[m]["from_client"], size)
           /\ bucket' = [bucket EXCEPT ![m]["from_client"] = Poured(@, size)]
           /\ from' = [from EXCEPT !.at = "filter"]
  <2>1. /\ bucket' \in [Mplx -> [Directions -> [amount : Nat, since : Nat]]]
        /\ WindowBounded'
    BY <1>5, WindowStays DEF Directions, NatInv
  <2>2. /\ from' \in [at : {"wait", "look", "shape", "filter"},
                      packets : Seq(Outbound), session : Mplx \cup {Null}]
        /\ from'.packets = from.packets /\ from'.session = from.session
    BY <1>5 DEF DataTypeOK
  <2>3. Owns(m, c)'
    BY <1>2, <1>3, <1>4 DEF FromOK, FactsKept
  <2>4. FromOK'
    BY <1>2, <1>3, <1>4, <2>2, <2>3 DEF FromOK, Owns
  <2>5. DataTypeOK'
    BY <1>1, <2>1, <2>2 DEF DataTypeOK
  <2> QED
    BY <1>1, <2>1, <2>4, <2>5, ToStays, RoutedStays, SentStays
<1>6. CASE from' = FromNext /\ UNCHANGED bucket
  <2>1. DataTypeOK'
    BY <1>1, <1>3, <1>6, FromNextOK DEF DataTypeOK
  <2>2. FromOK'
    BY <1>3, <1>6, FromNextOK DEF FromOK
  <2>3. WindowBounded'
    BY <1>6 DEF WindowBounded
  <2> QED
    BY <1>1, <2>1, <2>2, <2>3, ToStays, RoutedStays, SentStays
<1> QED
  BY <1>2, <1>4, <1>5, <1>6 DEF FromShape

LEMMA FromFilterKeepsInv ==
    ASSUME PathInv, FactsKept, FromFilter
    PROVE  PathInv'
<1> USE DEF PathInv
<1>1. UNCHANGED <<sessions, opening, unchanged_ip, bucket, from_network, to,
                  batches, write_channel, from_client>>
  BY DEF FromFilter
<1>2. from.at = "filter" /\ from.packets # <<>> /\ from' = FromNext
  BY DEF FromFilter, FromOK
<1>3. PICK m \in Mplx, c \in Clients :
         m = from.session /\ c = Head(from.packets).client
  <2>1. from.packets \in Seq(Outbound)
    BY DEF DataTypeOK
  <2>2. Head(from.packets) \in Outbound
    BY <1>2, <2>1
  <2> QED
    BY <1>2, <2>2 DEF FromOK, Outbound
<1>4. Owns(m, c)'
  BY <1>2, <1>3 DEF FromOK, FactsKept
<1> DEFINE p == [client |-> c, via |-> m]
<1>5. p \in Sent /\ p.client = c /\ p.via = m
  BY DEF Sent
<1>6. prepared' = prepared \/ prepared' = Append(prepared, p)
  BY <1>3 DEF FromFilter
<1> HIDE DEF p
<1>7. prepared \in Seq(Sent)
  BY DEF DataTypeOK
<1>8. prepared' \in Seq(Sent)
  BY <1>5, <1>6, <1>7
<1>9. DataTypeOK'
  BY <1>1, <1>2, <1>8, FromNextOK DEF DataTypeOK
<1>10. FromOK'
  BY <1>2, FromNextOK DEF FromOK
<1>11. SentOK'
  <2>1. CASE prepared' = prepared
    BY <2>1, SentStays
  <2>2. CASE prepared' = Append(prepared, p)
    <3> SUFFICES ASSUME NEW q \in Elements(prepared')
                 PROVE  Owns(q.via, q.client)'
      BY DEF SentOK
    <3>1. q \in Elements(prepared) \/ q = p
      BY <1>5, <1>7, <2>2, ElementsOfAppend
    <3>2. CASE q \in Elements(prepared)
      <4>1. q \in Sent
        BY <1>7, <3>2, ElementsType
      <4> QED
        BY <3>2, <4>1 DEF SentOK, FactsKept, Sent
    <3>3. CASE q = p
      BY <1>4, <1>5, <3>3
    <3> QED
      BY <3>1, <3>2, <3>3
  <2> QED
    BY <1>6, <2>1, <2>2
<1>12. WindowBounded'
  BY <1>1 DEF WindowBounded
<1> QED
  BY <1>1, <1>9, <1>10, <1>11, <1>12, ToStays, RoutedStays

-----------------------------------------------------------------------------
(* The inductive invariant of the composition.                             *)
DataInv == NatInv /\ IndexOwned /\ PathInv

LEMMA DataInitInv ==
    ASSUME DataInit
    PROVE  DataInv
<1>1. NatInv
  BY InitInv DEF DataInit
<1>2. IndexOwned
  BY NullFresh DEF DataInit, NatInit, IndexOwned
<1>3. DataTypeOK
  <2>1. NewBucket \in [amount : Nat, since : Nat]
    BY <1>1, MaxTimeType DEF NewBucket, NatInv, NatTypeOK
  <2>2. \A S : <<>> \in Seq(S) /\ Len(<<>>) = 0
    OBVIOUS
  <2>3. /\ ToIdle \in [at : {"wait", "look", "shape", "pick", "change"},
                       packets : Seq(Inbound), nat_session : Mplx \cup {Null},
                       client_id : Clients \cup {Null}]
        /\ FromIdle \in [at : {"wait", "look", "shape", "filter"},
                         packets : Seq(Outbound), session : Mplx \cup {Null}]
    BY <2>2 DEF ToIdle, FromIdle
  <2> QED
    BY <2>1, <2>2, <2>3, DataPathTypes DEF DataInit, DataTypeOK
<1>4. ToOK /\ FromOK
  BY DEF DataInit, ToOK, FromOK, ToIdle, FromIdle
<1>5. RoutedOK /\ SentOK
  BY ElementsOfNothing DEF DataInit, RoutedOK, SentOK
<1>6. WindowBounded
  BY DEF DataInit, WindowBounded, NewBucket
<1> QED
  BY <1>1, <1>2, <1>3, <1>4, <1>5, <1>6 DEF DataInv, PathInv

LEMMA DataNextInv ==
    ASSUME DataInv, [DataNext]_dataVars
    PROVE  DataInv'
<1> USE DEF DataInv
<1>1. [NatNext]_natVars
  BY PathDrivesNat
<1>2. NatInv'
  BY <1>1, NextInv
<1>3. FactsKept /\ NatTypeOK /\ NatTypeOK'
  BY <1>1, <1>2, FactsStay DEF NatInv
<1>4. IndexOwned'
  BY <1>1, <1>3, IndexStaysOwned
<1>5. PathInv'
  <2>1. ASSUME NEW c \in Clients, NEW s \in Sessions, NEW u \in Users,
               NEW p \in Profiles,
               HandleWebSocket(c, s, u, p) \/ HandleWebSocket2(c, s, u, p)
        PROVE  PathInv'
    BY <1>3, <2>1, OpeningKeepsInv
  <2>2. ASSUME NEW c \in Clients, Mark(c) \/ CloseErase(c) \/ RunSender(c)
        PROVE  PathInv'
    BY <1>3, <2>2, OthersKeepInv
  <2>3. ASSUME UNCHANGED pathVars
        PROVE  PathInv'
    BY <1>3, <2>3, PathUnchangedKeepsInv
  <2>4. ASSUME NEW a \in IPv4s \cup IPv6s, NEW size \in Sizes, Arrive(a, size)
        PROVE  PathInv'
    BY <1>3, <2>4, EnteringKeepsInv
  <2>5. ASSUME NEW c \in Clients, NEW size \in Sizes, RunReader(c, size)
        PROVE  PathInv'
    BY <1>3, <2>5, EnteringKeepsInv
  <2>6. ASSUME ToStep
        PROVE  PathInv'
    BY <1>3, <2>6, LookupKeepsInv, ToShapeKeepsInv, ToChangeKeepsInv,
       ToFlushKeepsInv DEF ToStep
  <2>7. ASSUME FromStep
        PROVE  PathInv'
    BY <1>3, <2>7, FromWaitKeepsInv, FromLookKeepsInv, FromShapeKeepsInv,
       FromFilterKeepsInv DEF FromStep
  <2> QED
    BY <2>1, <2>2, <2>3, <2>4, <2>5, <2>6, <2>7
       DEF DataNext, CloseDel, dataVars
<1> QED
  BY <1>2, <1>4, <1>5

(* Whatever the order of lookups, opens, closes and sweeps, the data path  *)
(* and the table keep their books.                                         *)
THEOREM DataInvariant == DataSpec => []DataInv
<1>1. DataInit => DataInv
  BY DataInitInv
<1>2. DataInv /\ [DataNext]_dataVars => DataInv'
  BY DataNextInv
<1> QED
  BY <1>1, <1>2, PTL DEF DataSpec

(* Every variable of the data path keeps its type, and a Channel holds at  *)
(* most one packet more than max_capacity_.                                *)
THEOREM DataTypeCorrect == DataSpec => []DataTypeOK
<1>1. DataInv => DataTypeOK
  BY DEF DataInv, PathInv
<1> QED
  BY <1>1, DataInvariant, PTL

(* RunToClient queues a packet only for a client of the user whose session *)
(* leased the address it was sent to.                                      *)
THEOREM PacketsReachLessee == DataSpec => []DeliveredToLessee
<1>1. DataInv => DeliveredToLessee
  BY DEF DataInv, PathInv, RoutedOK, DeliveredToLessee, Leases, Owns
<1> QED
  BY <1>1, DataInvariant, PTL

(* RunFromClient charges a packet to the session of the user who sent it.  *)
THEOREM PacketsChargedRight == DataSpec => []ChargedToSender
<1>1. DataInv => ChargedToSender
  BY DEF DataInv, PathInv, SentOK, ChargedToSender, Owns
<1> QED
  BY <1>1, DataInvariant, PTL

(* LeakyBucket never lets a window exceed the limit by more than the one   *)
(* packet that opens it.                                                   *)
THEOREM WindowsStayBounded == DataSpec => []WindowBounded
<1>1. DataInv => WindowBounded
  BY DEF DataInv, PathInv
<1> QED
  BY <1>1, DataInvariant, PTL
=============================================================================
