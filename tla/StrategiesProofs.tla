-------------------------- MODULE StrategiesProofs --------------------------
(***************************************************************************)
(* Proofs about the pools of connections: RollingTunnel and                *)
(* ParallelTunnels keep the tunnel up while they replace its connections,  *)
(* for every lifetime, budget and number of connections.                   *)
(***************************************************************************)
EXTENDS Strategies, FiniteSetTheorems, SequenceTheorems, WellFoundedInduction, TLAPS

-----------------------------------------------------------------------------
(* RollingTunnel: the inductive invariant                                  *)

ContextType == [st : {"connecting", "up", "lost"}, life : Nat, send : Nat, budget : Nat,
                status : {"creating", "sending", "receiving"}]

Contexts(s) == \A i \in DOMAIN s : s[i] \in ContextType

AllUp(s) == \A i \in DOMAIN s : IsUp(s[i])

(* Where the coroutine of RollingTunnel can be, and what it has in hand.   *)
RollTypes ==
    /\ mgr \in {"new", "remove", "creating", "commit", "notify", "sleep", "over", "returned"}
    /\ Contexts(tunnels) /\ Contexts(cand)
    /\ cand = << >> \/ DOMAIN cand = {1}
    /\ mgr \in {"creating", "commit"} => cand # << >>
    /\ mgr = "new" => ~notified /\ ~active

(* The connection swapped in is up, and so is the one in use, unless the   *)
(* network lost one.                                                       *)
RollUp ==
    ~faulty => /\ AllUp(tunnels)
               /\ mgr = "commit" => AllUp(cand)
               /\ notified /\ active => DOMAIN tunnels # {}

RollInv == strategy = "rolling" => RollTypes /\ RollUp

-----------------------------------------------------------------------------
LEMMA RollInitially == PoolInit => RollInv
BY DEF PoolInit, RollInv, RollTypes, RollUp, Contexts, AllUp

(* What changes while a second passes is how long is left.                 *)
LEMMA OlderEffect ==
    ASSUME NEW s, Contexts(s)
    PROVE  /\ DOMAIN Older(s) = DOMAIN s /\ Contexts(Older(s))
           /\ AllUp(s) => AllUp(Older(s))
<1>1. \A n \in Nat : Less(n) \in Nat
  BY DEF Less
<1>2. DOMAIN Older(s) = DOMAIN s
  BY DEF Older
<1>3. ASSUME NEW i \in DOMAIN s
      PROVE  Older(s)[i] \in ContextType /\ Older(s)[i].st = s[i].st
  <2>1. s[i] \in ContextType
    BY DEF Contexts
  <2>2. /\ Less(s[i].life) \in Nat /\ Less(s[i].send) \in Nat /\ Less(s[i].budget) \in Nat
    BY <1>1, <2>1 DEF ContextType
  <2>3. Older(s)[i] = [s[i] EXCEPT !.life = Less(s[i].life), !.send = Less(s[i].send),
                                   !.budget = Less(s[i].budget)]
    BY DEF Older
  <2> DEFINE l == Less(s[i].life)
             m == Less(s[i].send)
             n == Less(s[i].budget)
  <2> HIDE DEF l, m, n
  <2>4. /\ l \in Nat /\ m \in Nat /\ n \in Nat
        /\ Older(s)[i] = [s[i] EXCEPT !.life = l, !.send = m, !.budget = n]
    BY <2>2, <2>3 DEF l, m, n
  <2> QED
    BY <2>1, <2>4 DEF ContextType
<1> QED
  BY <1>2, <1>3 DEF Contexts, AllUp, IsUp

LEMMA ManageKeeps ==
    ASSUME RollTypes, RollUp, strategy = "rolling", Manage
    PROVE  RollTypes' /\ RollUp'
<1> USE DEF RollTypes, RollUp
<1>1. CASE RollingManage
  <2>1. \/ active' = FALSE /\ mgr' = "over" /\ UNCHANGED cand
        \/ /\ cand' = << ConnectionContext(LifetimeSeconds, 0) >> /\ mgr' = "creating"
           /\ active' = active
        \/ mgr' = "notify" /\ UNCHANGED cand /\ active' = active
    BY <1>1 DEF RollingManage
  <2>2. UNCHANGED <<tunnels, notified, faulty>>
    BY <1>1 DEF RollingManage
  <2>3. ConnectionContext(LifetimeSeconds, 0) \in ContextType
    BY LifetimeAssumption DEF ConnectionContext, ContextType
  <2>4. Contexts(<< ConnectionContext(LifetimeSeconds, 0) >>)
        /\ DOMAIN << ConnectionContext(LifetimeSeconds, 0) >> = {1}
    BY <2>3 DEF Contexts
  <2> QED
    BY <2>1, <2>2, <2>4 DEF Contexts, AllUp
<1>2. CASE RenewConnection
  BY <1>2 DEF RenewConnection, Contexts, AllUp
<1>3. CASE ConnectionReady
  BY <1>3 DEF ConnectionReady, Contexts, AllUp
<1>4. CASE CreateFailed
  BY <1>4 DEF CreateFailed, Contexts, AllUp
<1>5. CASE NotifyConnectedOnce
  <2>1. /\ mgr' = "sleep" /\ UNCHANGED <<tunnels, cand, active, faulty>>
        /\ notified' = (notified \/ UpTunnel)
    BY <1>5 DEF NotifyConnectedOnce
  <2>2. UpTunnel => DOMAIN tunnels # {}
    BY DEF UpTunnel
  <2> QED
    BY <2>1, <2>2 DEF Contexts, AllUp
<1>6. CASE RunEventLoop
  BY <1>6 DEF RunEventLoop, Contexts, AllUp
<1>7. CASE Second
  <2>1. /\ tunnels' = Older(tunnels) /\ cand' = Older(cand)
        /\ UNCHANGED <<active, notified, faulty>>
        /\ \/ mgr = "sleep" /\ mgr' = "remove"
           \/ mgr = "creating" /\ mgr' = mgr
    BY <1>7 DEF Second
  <2> QED
    BY <2>1, OlderEffect
<1> QED
  BY <1>1, <1>2, <1>3, <1>4, <1>5, <1>6, <1>7
     DEF Manage, RemoveClosedConnections, ParallelMissing, RemoveExpiredConnections,
         UpdateConnectionsStatus, MimicryMissing, MimicryFill, AddConnection, IsPoolEmpty

LEMMA NetworkKeeps ==
    ASSUME RollTypes, RollUp, CandUp \/ CandLost \/ TunnelLost
    PROVE  RollTypes' /\ RollUp'
<1> USE DEF RollTypes, RollUp
<1>1. ASSUME NEW x \in {"up", "lost"}, cand # << >>, cand' = << [cand[1] EXCEPT !.st = x] >>
      PROVE  /\ Contexts(cand') /\ cand' # << >> /\ DOMAIN cand' = {1}
             /\ x = "up" => AllUp(cand')
  <2> DEFINE y == [cand[1] EXCEPT !.st = x]
  <2>1. y \in ContextType /\ y.st = x
    BY <1>1 DEF Contexts, ContextType
  <2>2. cand' = << y >>
    BY <1>1
  <2> HIDE DEF y
  <2>3. DOMAIN cand' = {1} /\ cand'[1] = y
    BY <2>2
  <2>4. cand' # << >>
    BY <2>2
  <2> QED
    BY <2>1, <2>3, <2>4 DEF Contexts, AllUp, IsUp
<1>2. CASE CandUp
  <2>1. cand # << >> /\ cand' = << [cand[1] EXCEPT !.st = "up"] >>
        /\ UNCHANGED <<active, tunnels, mgr, notified, faulty>>
    BY <1>2 DEF CandUp
  <2>2. Contexts(cand') /\ cand' # << >> /\ DOMAIN cand' = {1} /\ AllUp(cand')
    BY <1>1, <2>1
  <2> QED
    BY <2>1, <2>2 DEF Contexts, AllUp
<1>3. CASE CandLost
  <2>1. cand # << >> /\ cand' = << [cand[1] EXCEPT !.st = "lost"] >> /\ faulty'
        /\ UNCHANGED <<active, tunnels, mgr, notified>>
    BY <1>3 DEF CandLost
  <2>2. Contexts(cand') /\ cand' # << >> /\ DOMAIN cand' = {1}
    BY <1>1, <2>1
  <2> QED
    BY <2>1, <2>2 DEF Contexts
<1>4. CASE TunnelLost
  <2>1. PICK i \in DOMAIN tunnels : tunnels' = [tunnels EXCEPT ![i].st = "lost"]
    BY <1>4 DEF TunnelLost
  <2>2. faulty' /\ UNCHANGED <<active, cand, mgr, notified>>
    BY <1>4 DEF TunnelLost
  <2>3. Contexts(tunnels')
    BY ZenonT(30), <2>1 DEF Contexts, ContextType
  <2> QED
    BY <2>2, <2>3 DEF Contexts
<1> QED
  BY <1>2, <1>3, <1>4

LEMMA StrategyStays == PoolNext => strategy' = strategy
BY DEF PoolNext, PoolStart, PoolStop, Manage, CandUp, CandLost, TunnelLost,
   RollingManage, RenewConnection, RemoveClosedConnections, ParallelMissing,
   RemoveExpiredConnections, UpdateConnectionsStatus, MimicryMissing, MimicryFill,
   ConnectionReady, AddConnection, CreateFailed, IsPoolEmpty, NotifyConnectedOnce,
   RunEventLoop, Second

LEMMA RollStep ==
    ASSUME RollInv, [PoolNext]_poolVars
    PROVE  RollInv'
<1>1. strategy' = strategy
  BY StrategyStays DEF poolVars
<1>2. SUFFICES ASSUME strategy = "rolling" PROVE RollTypes' /\ RollUp'
  BY <1>1 DEF RollInv
<1>3. RollTypes /\ RollUp
  BY <1>2 DEF RollInv
<1>4. CASE PoolStart
  BY <1>3, <1>4 DEF PoolStart, RollTypes, RollUp, Contexts, AllUp
<1>5. CASE PoolStop
  BY <1>3, <1>5 DEF PoolStop, RollTypes, RollUp, Contexts, AllUp
<1>6. CASE UNCHANGED poolVars
  BY <1>3, <1>6 DEF poolVars, RollTypes, RollUp, Contexts, AllUp
<1> QED
  BY <1>2, <1>3, <1>4, <1>5, <1>6, ManageKeeps, NetworkKeeps DEF PoolNext

(* RollingTunnel never leaves Send without a connection: one replaces the  *)
(* other only when it is up.  None of the numbers matter for this.         *)
THEOREM RollingNeverDrops == PoolSpec => [](strategy = "rolling" => AlwaysATunnel)
<1>1. RollInv => (strategy = "rolling" => AlwaysATunnel)
  BY DEF RollInv, RollUp, AllUp, AlwaysATunnel, UpTunnel
<1> QED
  BY <1>1, RollInitially, RollStep, PTL DEF PoolSpec

-----------------------------------------------------------------------------
(* Numbers: what a recursion over the connections would be for is said of  *)
(* sets of numbers, of which the least can be taken.                       *)

LEMMA LeastExists ==
    ASSUME NEW T \in SUBSET Nat, T # {}
    PROVE  \E x \in T : \A y \in T : x <= y
<1>1. PICK x \in T : \A y \in T : ~ (<<y, x>> \in OpToRel(<, Nat))
  BY WFMin, NatLessThanWellFounded
<1>2. ASSUME NEW y \in T PROVE x <= y
  <2>1. x \in Nat /\ y \in Nat
    OBVIOUS
  <2>2. ~ (y < x)
    BY <1>1, <2>1 DEF OpToRel
  <2> QED
    BY <2>1, <2>2
<1> QED
  BY <1>2

LEMMA GreatestIs ==
    ASSUME NEW T \in SUBSET Nat, T # {}, NEW n \in Nat, \A t \in T : t <= n
    PROVE  Max(T) \in T /\ \A t \in T : t <= Max(T)
<1> DEFINE Above == {m \in Nat : \A t \in T : t <= m}
<1>1. PICK m \in Above : \A y \in Above : m <= y
  <2>1. n \in Above
    OBVIOUS
  <2> QED
    BY <2>1, LeastExists
<1>2. m \in T
  <2>1. SUFFICES ASSUME m \notin T PROVE FALSE
    OBVIOUS
  <2>2. \A t \in T : t < m
    BY <2>1, <1>1
  <2>3. m - 1 \in Nat
    <3>1. PICK t \in T : TRUE
      OBVIOUS
    <3>2. t \in Nat /\ t < m /\ m \in Nat
      BY <1>1, <2>2, <3>1
    <3> QED
      BY <3>2
  <2>4. \A t \in T : t <= m - 1
    BY <1>1, <2>2
  <2>5. m - 1 \in Above
    BY <2>3, <2>4
  <2> QED
    BY <1>1, <2>5
<1>3. \E x \in T : \A y \in T : x >= y
  BY <1>1, <1>2
<1> QED
  BY <1>3 DEF Max

LEMMA TimesMonotone == \A g, c, n \in Nat : c <= n => g * c <= g * n
<1>1. SUFFICES ASSUME NEW g \in Nat, NEW c \in Nat, NEW n \in Nat, c <= n
               PROVE  g * c <= g * n
  OBVIOUS
<1>2. PICK d \in Nat : n = c + d
  <2>1. n - c \in Nat /\ n = c + (n - c)
    BY <1>1
  <2> QED
    BY <2>1
<1>3. g * n = g * c + g * d
  BY <1>2
<1>4. g * d \in Nat /\ g * c \in Nat
  OBVIOUS
<1> QED
  BY <1>3, <1>4

(* Two slots fit into a lifetime.                                          *)
LEMMA SlotBounds == SlotSeconds \in Nat /\ SlotSeconds + SlotSeconds <= LifetimeSeconds
<1>1. ConnectionCount \in Nat /\ ConnectionCount >= 2 /\ LifetimeSeconds \in Nat
  BY ConnectionCountAssumption, LifetimeAssumption
<1> DEFINE s == LifetimeSeconds \div ConnectionCount
<1>2. s \in Nat /\ ConnectionCount * s <= LifetimeSeconds
  BY <1>1
<1>3. s * 2 <= s * ConnectionCount
  BY <1>1, <1>2, TimesMonotone
<1> QED
  BY <1>1, <1>2, <1>3 DEF SlotSeconds

-----------------------------------------------------------------------------
(* ParallelTunnels::NextLifetimeSeconds                                    *)

(* A connection whose close is scheduled within a lifetime.                *)
Mortal == {x \in ContextType : x.life <= LifetimeSeconds /\ x.budget <= ConnectBudget}

LEMMA DueBounds ==
    /\ LifetimeSeconds \in Nat /\ Due \subseteq 1..LifetimeSeconds
    /\ Due \in SUBSET Nat /\ IsFiniteSet(Due)
<1>1. LifetimeSeconds \in Nat /\ Due \subseteq 1..LifetimeSeconds
  BY LifetimeAssumption DEF Due
<1>2. IsFiniteSet(1..LifetimeSeconds)
  BY <1>1, FS_Interval
<1>3. IsFiniteSet(Due)
  BY <1>1, <1>2, FS_Subset
<1> QED
  BY <1>1, <1>3

LEMMA LastDue ==
    ASSUME Due # {}
    PROVE  /\ Max(Due) \in Due /\ Max(Due) \in Nat
           /\ \A t \in Due : t \in Nat /\ t <= LifetimeSeconds /\ t <= Max(Due)
<1>1. LifetimeSeconds \in Nat /\ Due \in SUBSET Nat
  BY DueBounds
<1>2. \A t \in Due : t \in Nat /\ t <= LifetimeSeconds
  BY DueBounds
<1>3. Max(Due) \in Due /\ \A t \in Due : t <= Max(Due)
  BY <1>1, <1>2, GreatestIs
<1> QED
  BY <1>2, <1>3

LEMMA DueCount ==
    ASSUME tunnels \in Seq(Mortal)
    PROVE  Cardinality(Due) <= Len(tunnels)
<1> DEFINE I == {i \in DOMAIN tunnels : tunnels[i].life \in 1..LifetimeSeconds}
           f == [i \in I |-> tunnels[i].life]
<1>1. DOMAIN tunnels = 1..Len(tunnels) /\ Len(tunnels) \in Nat
  BY LenProperties
<1>2. IsFiniteSet(1..Len(tunnels)) /\ Cardinality(1..Len(tunnels)) = Len(tunnels)
  BY <1>1, FS_Interval
<1>3. I \in SUBSET (1..Len(tunnels))
  BY <1>1
<1>4. IsFiniteSet(I) /\ Cardinality(I) <= Len(tunnels)
  BY <1>2, <1>3, FS_Subset
<1>5. f \in Surjection(I, Due)
  <2>1. f \in [I -> Due]
    BY DEF Due
  <2>2. ASSUME NEW t \in Due PROVE \E i \in I : f[i] = t
    BY DEF Due
  <2> QED
    BY <2>1, <2>2 DEF Surjection
<1>6. Cardinality(Due) <= Cardinality(I) /\ IsFiniteSet(Due)
  BY <1>4, <1>5, FS_Surjection
<1>7. Cardinality(Due) \in Nat /\ Cardinality(I) \in Nat
  BY <1>4, <1>6, FS_CardinalityType
<1> QED
  BY <1>1, <1>4, <1>6, <1>7

(* The gap before a close begins at the close before it, or now.           *)
LEMMA PreviousIs ==
    ASSUME NEW t \in Due
    PROVE  /\ Previous(t) \in Due \cup {0} /\ Previous(t) \in Nat /\ Previous(t) < t
           /\ \A s \in Due : s < t => s <= Previous(t)
           /\ t \in Nat /\ Gap(t) \in 1..LifetimeSeconds /\ t = Previous(t) + Gap(t)
<1> DEFINE T == {s \in Due \cup {0} : s < t}
<1>1. t \in Nat /\ t > 0 /\ t <= LifetimeSeconds /\ LifetimeSeconds \in Nat
  BY DueBounds
<1>2. T \in SUBSET Nat /\ 0 \in T /\ \A s \in T : s <= t
  <2>1. Due \cup {0} \in SUBSET Nat
    BY DueBounds
  <2>2. T \in SUBSET Nat /\ 0 \in T
    BY <1>1, <2>1
  <2>3. \A s \in T : s \in Nat /\ s < t
    BY <2>2
  <2> QED
    BY <1>1, <2>2, <2>3
<1>3. Max(T) \in T /\ \A s \in T : s <= Max(T)
  BY <1>1, <1>2, GreatestIs
<1>4. Previous(t) = Max(T)
  BY DEF Previous
<1>5. Previous(t) \in Due \cup {0} /\ Previous(t) < t /\ Previous(t) \in Nat
  BY <1>2, <1>3, <1>4
<1>6. \A s \in Due : s < t => s <= Previous(t)
  BY <1>3, <1>4
<1> QED
  BY <1>1, <1>5, <1>6 DEF Gap

LEMMA WidestGapIs ==
    ASSUME Due # {}
    PROVE  WidestGap \in Due /\ \A u \in Due : Gap(u) <= Gap(WidestGap)
<1> DEFINE G == {Gap(u) : u \in Due}
           m == Max(G)
           W == {u \in Due : Gap(u) = m}
<1>1. \A u \in Due : Gap(u) \in Nat /\ Gap(u) <= LifetimeSeconds
  BY PreviousIs, DueBounds
<1>2. G \in SUBSET Nat /\ G # {} /\ \A g \in G : g <= LifetimeSeconds
  BY <1>1
<1>3. m \in G /\ \A g \in G : g <= m
  BY <1>2, DueBounds, GreatestIs
<1> HIDE DEF m
<1>4. W \in SUBSET Nat /\ W # {}
  BY <1>3, DueBounds
<1>5. PICK w \in W : \A u \in W : w <= u
  BY <1>4, LeastExists
<1>6. w \in Due /\ Gap(w) = m
  OBVIOUS
<1>7. \A u \in Due : Gap(u) < Gap(w) \/ (Gap(u) = Gap(w) /\ w <= u)
  <2> TAKE u \in Due
  <2>1. Gap(u) <= m /\ Gap(u) \in Nat /\ m \in Nat
    BY <1>1, <1>2, <1>3
  <2>2. Gap(u) = m => w <= u
    BY <1>5
  <2> QED
    BY <1>6, <2>1, <2>2
<1>8. /\ WidestGap \in Due
      /\ \A u \in Due : Gap(u) < Gap(WidestGap) \/ (Gap(u) = Gap(WidestGap) /\ WidestGap <= u)
  BY <1>6, <1>7 DEF WidestGap
<1> QED
  BY <1>1, <1>8

(* Gaps of at most g add up to at most g for every close so far.           *)
LEMMA GapsAddUp ==
    ASSUME NEW g \in Nat, \A t \in Due : Gap(t) <= g
    PROVE  \A t \in Due : t <= g * Cardinality({s \in Due : s <= t})
<1> DEFINE Upto(t) == {s \in Due : s <= t}
           Bad == {t \in Due : ~ (t <= g * Cardinality(Upto(t)))}
<1>1. SUFFICES ASSUME Bad # {} PROVE FALSE
  OBVIOUS
<1>2. PICK t \in Bad : \A u \in Bad : t <= u
  <2>1. Bad \in SUBSET Nat
    BY DueBounds
  <2> QED
    BY <1>1, <2>1, LeastExists
<1>3. t \in Due /\ t \in Nat /\ ~ (t <= g * Cardinality(Upto(t)))
  BY DueBounds
<1> DEFINE p == Previous(t)
<1>4. /\ p \in Due \cup {0} /\ p \in Nat /\ p < t /\ \A s \in Due : s < t => s <= p
      /\ Gap(t) \in Nat /\ t = p + Gap(t)
  BY <1>3, PreviousIs, DueBounds
<1> HIDE DEF p
<1>5. Upto(t) = Upto(p) \cup {t} /\ t \notin Upto(p)
  <2>1. \A s \in Due : s \in Nat /\ (s <= t <=> s <= p \/ s = t)
    <3> TAKE s \in Due
    <3>1. s \in Nat
      BY DueBounds
    <3>2. s < t => s <= p
      BY <1>4
    <3> QED
      BY <1>3, <1>4, <3>1, <3>2
  <2>2. ~ (t <= p)
    BY <1>3, <1>4
  <2> QED
    BY <1>3, <2>1, <2>2
<1>6. IsFiniteSet(Upto(p)) /\ Cardinality(Upto(p)) \in Nat
  <2>1. Upto(p) \in SUBSET Due
    OBVIOUS
  <2>2. IsFiniteSet(Upto(p))
    BY <2>1, DueBounds, FS_Subset
  <2> QED
    BY <2>2, FS_CardinalityType
<1>7. Cardinality(Upto(t)) = Cardinality(Upto(p)) + 1
  BY <1>5, <1>6, FS_AddElement
<1>8. p <= g * Cardinality(Upto(p))
  <2>1. CASE p \in Due
    BY <1>2, <1>3, <1>4, <2>1
  <2>2. CASE p = 0
    BY <1>6, <2>2
  <2> QED
    BY <1>4, <2>1, <2>2
<1>9. Gap(t) <= g
  BY <1>3
<1> DEFINE c == Cardinality(Upto(p))
<1> HIDE DEF c
<1>10. c \in Nat /\ p <= g * c /\ g * (c + 1) = g * c + g /\ g * c \in Nat
  BY <1>6, <1>8 DEF c
<1>11. t <= g * (c + 1)
  BY <1>4, <1>9, <1>10
<1>12. Cardinality(Upto(t)) = c + 1
  BY <1>7 DEF c
<1> QED
  BY <1>3, <1>11, <1>12

(* With the spacing the strategies choose, a gap that is halved leaves     *)
(* more than StaggerSeconds on both sides.                                 *)
LEMMA WideEnough ==
    ASSUME tunnels \in Seq(Mortal), Len(tunnels) <= ConnectionCount, Due # {},
           Max(Due) + SlotSeconds > LifetimeSeconds
    PROVE  Gap(WidestGap) >= 2 * StaggerSeconds + 2
<1> DEFINE g == 2 * StaggerSeconds + 1
           m == Max(Due)
           c == Cardinality({s \in Due : s <= m})
<1>1. g \in Nat /\ ConnectionCount \in Nat /\ ConnectionCount * g <= LifetimeSeconds - SlotSeconds
  BY SpacingAssumption, ConnectionCountAssumption
<1>2. m \in Due /\ m \in Nat
  BY LastDue
<1>3. \A t \in Due : Gap(t) \in Nat
  BY PreviousIs, DueBounds
<1>4. SUFFICES ASSUME Gap(WidestGap) <= g PROVE FALSE
  <2>1. Gap(WidestGap) \in Nat /\ StaggerSeconds \in Nat
    BY <1>3, WidestGapIs, SpacingAssumption
  <2> QED
    BY <2>1
<1>5. \A t \in Due : Gap(t) <= g
  <2> TAKE t \in Due
  <2>1. Gap(t) <= Gap(WidestGap) /\ WidestGap \in Due
    BY WidestGapIs
  <2>2. Gap(t) \in Nat /\ Gap(WidestGap) \in Nat
    BY <1>3, <2>1
  <2> QED
    BY <1>1, <1>4, <2>1, <2>2
<1> HIDE DEF g, m
<1>6. m <= g * c
  BY <1>1, <1>2, <1>5, GapsAddUp
<1>7. c \in Nat /\ c <= ConnectionCount
  <2>1. {s \in Due : s <= m} \in SUBSET Due
    OBVIOUS
  <2>2. IsFiniteSet({s \in Due : s <= m}) /\ c <= Cardinality(Due)
    BY <2>1, DueBounds, FS_Subset
  <2>3. c \in Nat /\ Cardinality(Due) \in Nat
    BY <2>2, DueBounds, FS_CardinalityType
  <2>4. Cardinality(Due) <= Len(tunnels) /\ Len(tunnels) \in Nat
    BY DueCount, LenProperties
  <2> QED
    BY <1>1, <2>2, <2>3, <2>4
<1> HIDE DEF c
<1>8. g * c <= g * ConnectionCount
  BY <1>1, <1>7, TimesMonotone
<1>9. g * ConnectionCount = ConnectionCount * g /\ g * c \in Nat /\ g * ConnectionCount \in Nat
  BY <1>1, <1>7
<1>10. m <= LifetimeSeconds - SlotSeconds
  BY <1>1, <1>2, <1>6, <1>8, <1>9, SlotBounds, DueBounds
<1>11. m + SlotSeconds > LifetimeSeconds
  BY DEF m
<1> QED
  BY <1>2, <1>10, <1>11, SlotBounds, DueBounds

(* A new connection is never due together with another: its close lies     *)
(* further than StaggerSeconds from every scheduled one, and within a      *)
(* lifetime (ParallelTunnels::NextLifetimeSeconds).                        *)
THEOREM NextLifetimeFits ==
    ASSUME tunnels \in Seq(Mortal), Len(tunnels) <= ConnectionCount
    PROVE  /\ NextLifetimeSeconds \in 1..LifetimeSeconds
           /\ \A t \in Due : \/ t - NextLifetimeSeconds > StaggerSeconds
                             \/ NextLifetimeSeconds - t > StaggerSeconds
           /\ Due = {} => NextLifetimeSeconds = SlotSeconds
           /\ Due # {} => \/ Max(Due) > LifetimeSeconds - SlotSeconds
                          \/ NextLifetimeSeconds = Max(Due) + SlotSeconds
<1> DEFINE x == NextLifetimeSeconds
<1>1. /\ StaggerSeconds \in Nat /\ LeadSeconds \in Nat /\ ConnectBudget \in Nat
      /\ LifetimeSeconds \in Nat /\ SlotSeconds \in Nat /\ SlotSeconds <= LifetimeSeconds
      /\ StaggerSeconds < SlotSeconds /\ SlotSeconds > 0
  BY SpacingAssumption, LifetimeAssumption, SlotBounds
<1>2. CASE Due = {}
  <2>1. x = SlotSeconds
    BY <1>2 DEF NextLifetimeSeconds
  <2> QED
    BY <1>1, <1>2, <2>1
<1>3. CASE Due # {} /\ Max(Due) + SlotSeconds <= LifetimeSeconds
  <2>1. x = Max(Due) + SlotSeconds
    BY <1>3 DEF NextLifetimeSeconds
  <2>2. Max(Due) \in Nat /\ \A t \in Due : t \in Nat /\ t <= Max(Due)
    BY <1>3, LastDue
  <2> HIDE DEF x
  <2>3. x \in 1..LifetimeSeconds
    BY <1>1, <1>3, <2>1, <2>2
  <2>4. \A t \in Due : x - t > StaggerSeconds
    BY <1>1, <2>1, <2>2
  <2> QED
    BY <1>3, <2>1, <2>3, <2>4 DEF x
<1>4. CASE Due # {} /\ ~ (Max(Due) + SlotSeconds <= LifetimeSeconds)
  <2> DEFINE w == WidestGap
             p == Previous(w)
             h == Gap(w) \div 2
  <2>1. x = p + h
    BY <1>4 DEF NextLifetimeSeconds
  <2>2. Max(Due) \in Nat
    BY <1>4, LastDue
  <2>3. Max(Due) > LifetimeSeconds - SlotSeconds /\ Max(Due) + SlotSeconds > LifetimeSeconds
    BY <1>1, <1>4, <2>2
  <2>4. w \in Due /\ w \in Nat /\ w <= LifetimeSeconds
    BY <1>4, WidestGapIs, LastDue
  <2>5. /\ p \in Nat /\ p < w /\ \A s \in Due : s < w => s <= p
        /\ Gap(w) \in Nat /\ w = p + Gap(w)
    BY <2>4, PreviousIs, DueBounds
  <2>6. Gap(w) >= 2 * StaggerSeconds + 2
    BY <1>4, <2>3, WideEnough
  <2> HIDE DEF w, p, x
  <2>7. h \in Nat /\ 2 * h <= Gap(w) /\ Gap(w) <= 2 * h + 1
    BY <2>5
  <2> HIDE DEF h
  <2>8. x - p > StaggerSeconds /\ w - x > StaggerSeconds /\ x \in Nat
    BY <1>1, <2>1, <2>5, <2>6, <2>7
  <2>9. x \in 1..LifetimeSeconds
    BY <1>1, <2>4, <2>5, <2>8
  <2>10. \A t \in Due : t - x > StaggerSeconds \/ x - t > StaggerSeconds
    <3> TAKE t \in Due
    <3>1. t \in Nat /\ (t < w => t <= p)
      BY <2>5, DueBounds
    <3> QED
      BY <1>1, <2>4, <2>5, <2>8, <3>1
  <2> QED
    BY <1>4, <2>3, <2>9, <2>10 DEF x
<1> QED
  BY <1>2, <1>3, <1>4

-----------------------------------------------------------------------------
(* ParallelTunnels: the inductive invariant                                *)

Lives(s) == {s[i].life : i \in DOMAIN s}

(* Every life there is, that of the connection under way included.         *)
AllLives == Lives(tunnels) \cup Lives(cand)

(* Where the coroutine of ParallelTunnels can be, and what it has in hand. *)
PoolTypes ==
    /\ mgr \in {"new", "remove", "missing", "check", "creating", "commit",
                "notify", "sleep", "over", "returned"}
    /\ tunnels \in Seq(Mortal)
    /\ cand \in Seq(Mortal) /\ Len(cand) <= 1
    /\ mgr \in {"creating", "commit"} => Len(cand) = 1
    /\ mgr = "new" \/ (active /\ mgr \notin {"creating", "commit"}) => cand = << >>
    /\ lastSpawn \in 0..StaggerSeconds
    /\ mgr = "new" => ~active /\ ~notified /\ tunnels = << >>

(* Two lives that are not about to end, end further apart than two         *)
(* connections are opened.                                                 *)
Apart(a, b) ==
    a > LeadSeconds /\ b > LeadSeconds =>
       a - b > StaggerSeconds \/ b - a > StaggerSeconds

Spaced ==
    /\ \A i, j \in DOMAIN tunnels : i # j => Apart(tunnels[i].life, tunnels[j].life)
    /\ \A i \in DOMAIN tunnels, k \in DOMAIN cand : Apart(tunnels[i].life, cand[k].life)

(* The pool is full only while one of its connections is about to be       *)
(* replaced, by one that is up when the lead of the other is over.         *)
RoomLeft ==
    /\ Len(tunnels) + Len(cand) <= ConnectionCount + 1
    /\ Len(tunnels) + Len(cand) = ConnectionCount + 1 =>
          \E x, y \in AllLives : y = 0 \/ x >= y + LeadSeconds

(* Some connection outlives the wait for the next one: the one under way,  *)
(* or the pause since the last.                                            *)
Reserve ==
    /\ mgr \in {"creating", "commit"} =>
          \E x \in AllLives : x > LeadSeconds + StaggerSeconds + cand[1].budget
    /\ mgr \in {"remove", "missing", "check", "notify", "sleep"} /\ tunnels # << >> =>
          \E x \in Lives(tunnels) : x >= LeadSeconds + StaggerSeconds - lastSpawn
    /\ mgr \in {"check", "notify", "sleep"} /\ tunnels # << >> =>
          \E x \in Lives(tunnels) : x > LeadSeconds

Manned ==
    /\ AllUp(tunnels)
    /\ mgr = "commit" => AllUp(cand)
    /\ notified => tunnels # << >>
    /\ mgr = "missing" => \A i \in DOMAIN tunnels : tunnels[i].life > 0

Kept == active /\ ~faulty => Manned /\ RoomLeft /\ Reserve

ParallelInv == strategy = "parallel" => PoolTypes /\ Spaced /\ Kept

-----------------------------------------------------------------------------
LEMMA Numbers ==
    /\ ConnectionCount \in Nat /\ ConnectionCount >= 2
    /\ LifetimeSeconds \in Nat /\ ConnectBudget \in Nat
    /\ StaggerSeconds \in Nat /\ LeadSeconds \in Nat /\ LeadSeconds > 0
    /\ SlotSeconds \in Nat /\ SlotSeconds + SlotSeconds <= LifetimeSeconds
    /\ LeadSeconds + StaggerSeconds + ConnectBudget < SlotSeconds
    /\ 2 * LeadSeconds <= LifetimeSeconds - SlotSeconds
BY ConnectionCountAssumption, LifetimeAssumption, SpacingAssumption, SlotBounds

LEMMA ParallelInitially == PoolInit => ParallelInv
<1>1. SUFFICES ASSUME PoolInit PROVE PoolTypes /\ Spaced /\ Kept
  BY DEF ParallelInv
<1>2. /\ tunnels = << >> /\ cand = << >> /\ mgr = "new" /\ ~active /\ ~notified
      /\ lastSpawn = StaggerSeconds
  BY <1>1 DEF PoolInit
<1>3. << >> \in Seq(Mortal) /\ Len(<< >>) = 0
  BY EmptySeq
<1> QED
  BY <1>2, <1>3, Numbers DEF PoolTypes, Spaced, Kept

LEMMA ConnectionsAre ==
    ASSUME PoolTypes
    PROVE  /\ DOMAIN tunnels = 1..Len(tunnels) /\ Len(tunnels) \in Nat
           /\ DOMAIN cand = 1..Len(cand) /\ Len(cand) \in {0, 1}
           /\ \A i \in DOMAIN tunnels : tunnels[i] \in Mortal
           /\ \A k \in DOMAIN cand : cand[k] \in Mortal /\ k = 1
           /\ tunnels = << >> <=> Len(tunnels) = 0
           /\ cand = << >> <=> Len(cand) = 0
<1>1. tunnels \in Seq(Mortal) /\ cand \in Seq(Mortal) /\ Len(cand) <= 1
  BY DEF PoolTypes
<1>2. DOMAIN tunnels = 1..Len(tunnels) /\ Len(tunnels) \in Nat
  BY <1>1, LenProperties
<1>3. DOMAIN cand = 1..Len(cand) /\ Len(cand) \in Nat
  BY <1>1, LenProperties
<1>4. /\ \A i \in DOMAIN tunnels : tunnels[i] \in Mortal
      /\ \A k \in DOMAIN cand : cand[k] \in Mortal
  BY <1>1, <1>2, <1>3, ElementOfSeq
<1>5. tunnels = << >> <=> Len(tunnels) = 0
  BY <1>1, EmptySeq
<1>6. cand = << >> <=> Len(cand) = 0
  BY <1>1, EmptySeq
<1>7. Len(cand) \in {0, 1}
  BY <1>1, <1>3
<1>8. \A k \in DOMAIN cand : k = 1
  BY <1>3, <1>7
<1> QED
  BY <1>2, <1>3, <1>4, <1>5, <1>6, <1>7, <1>8

LEMMA MortalIs ==
    ASSUME NEW x \in Mortal
    PROVE  /\ x \in ContextType /\ x.life \in 0..LifetimeSeconds
           /\ x.budget \in 0..ConnectBudget /\ x.st \in {"connecting", "up", "lost"}
BY Numbers DEF Mortal, ContextType

(* Another state of the connection leaves its times alone.                 *)
LEMMA StateChange ==
    ASSUME NEW x \in Mortal, NEW s \in {"connecting", "up", "lost"}
    PROVE  LET y == [x EXCEPT !.st = s]
           IN  y \in Mortal /\ y.life = x.life /\ y.budget = x.budget /\ y.st = s
<1> DEFINE y == [x EXCEPT !.st = s]
<1>1. x \in ContextType /\ x.life <= LifetimeSeconds /\ x.budget <= ConnectBudget
  BY DEF Mortal
<1>2. y \in ContextType /\ y.life = x.life /\ y.budget = x.budget /\ y.st = s
  BY <1>1 DEF ContextType
<1> QED
  BY <1>1, <1>2 DEF Mortal

LEMMA OlderMortals ==
    ASSUME NEW s \in Seq(Mortal)
    PROVE  /\ Older(s) \in Seq(Mortal) /\ Len(Older(s)) = Len(s) /\ DOMAIN Older(s) = DOMAIN s
           /\ \A i \in DOMAIN s : /\ Older(s)[i].life = Less(s[i].life)
                                  /\ Older(s)[i].budget = Less(s[i].budget)
                                  /\ s[i].life \in Nat /\ s[i].budget \in Nat
           /\ AllUp(s) => AllUp(Older(s))
<1>1. s \in [1..Len(s) -> Mortal] /\ Len(s) \in Nat /\ DOMAIN s = 1..Len(s)
  BY LenProperties
<1>2. \A i \in DOMAIN s : s[i] \in Mortal
  BY <1>1
<1>3. Contexts(s)
  BY <1>2, MortalIs DEF Contexts
<1>4. DOMAIN Older(s) = DOMAIN s /\ Contexts(Older(s)) /\ (AllUp(s) => AllUp(Older(s)))
  BY <1>3, OlderEffect
<1>5. ASSUME NEW i \in DOMAIN s
      PROVE  /\ Older(s)[i].life = Less(s[i].life) /\ Older(s)[i].budget = Less(s[i].budget)
             /\ s[i].life \in Nat /\ s[i].budget \in Nat
             /\ Older(s)[i] \in Mortal
  <2>1. s[i] \in ContextType /\ s[i].life \in 0..LifetimeSeconds /\ s[i].budget \in 0..ConnectBudget
    BY <1>2, MortalIs
  <2>2. Older(s)[i] = [s[i] EXCEPT !.life = Less(s[i].life), !.send = Less(s[i].send),
                                   !.budget = Less(s[i].budget)]
    BY DEF Older
  <2>3. Older(s)[i].life = Less(s[i].life) /\ Older(s)[i].budget = Less(s[i].budget)
    BY <2>1, <2>2 DEF ContextType
  <2>4. Less(s[i].life) <= LifetimeSeconds /\ Less(s[i].budget) <= ConnectBudget
    BY <2>1, Numbers DEF Less
  <2>5. Older(s)[i] \in ContextType
    BY <1>4 DEF Contexts
  <2> QED
    BY <2>1, <2>3, <2>4, <2>5 DEF Mortal
<1>6. Older(s) \in [1..Len(s) -> Mortal]
  BY <1>1, <1>5 DEF Older
<1>7. Older(s) \in Seq(Mortal)
  BY <1>1, <1>6, SeqDef
<1>8. Len(Older(s)) = Len(s)
  BY <1>1, <1>4, <1>7, LenProperties
<1> QED
  BY <1>4, <1>5, <1>7, <1>8

(* The connections that stay, stay once each and in their order.           *)
LEMMA KeepEffect ==
    ASSUME PoolTypes, NEW kept \in SUBSET DOMAIN tunnels,
           NEW f \in [1..Cardinality(kept) -> kept],
           \A i, j \in DOMAIN f : i < j => f[i] < f[j],
           tunnels' = [i \in DOMAIN f |-> tunnels[f[i]]]
    PROVE  /\ tunnels' \in Seq(Mortal) /\ Len(tunnels') <= Len(tunnels)
           /\ DOMAIN tunnels' = DOMAIN f
           /\ \A i \in DOMAIN f : f[i] \in kept /\ tunnels'[i] = tunnels[f[i]]
           /\ \A i, j \in DOMAIN f : i # j => f[i] # f[j]
           /\ \A k \in kept : \E i \in DOMAIN f : f[i] = k
           /\ Len(tunnels') = Len(tunnels) => kept = DOMAIN tunnels
<1> DEFINE n == Cardinality(kept)
<1>1. /\ DOMAIN tunnels = 1..Len(tunnels) /\ Len(tunnels) \in Nat
      /\ \A i \in DOMAIN tunnels : tunnels[i] \in Mortal
  BY ConnectionsAre
<1>2. IsFiniteSet(DOMAIN tunnels) /\ Cardinality(DOMAIN tunnels) = Len(tunnels)
  BY <1>1, FS_Interval
<1>3. IsFiniteSet(kept) /\ n <= Len(tunnels) /\ (n = Len(tunnels) => kept = DOMAIN tunnels)
  BY <1>2, FS_Subset
<1>4. n \in Nat
  BY <1>3, FS_CardinalityType
<1> HIDE DEF n
<1>5. f \in [1..n -> kept] /\ DOMAIN f = 1..n
  BY DEF n
<1>6. tunnels' \in [1..n -> Mortal] /\ DOMAIN tunnels' = 1..n
  BY <1>1, <1>5
<1>7. tunnels' \in Seq(Mortal)
  <2>1. tunnels' \in UNION {[1..k -> Mortal] : k \in Nat}
    BY Zenon, <1>4, <1>6
  <2> QED
    BY Zenon, <2>1, SeqDef
<1>8. Len(tunnels') = n
  <2>1. DOMAIN tunnels' = 1..Len(tunnels') /\ Len(tunnels') \in Nat
    BY <1>7, LenProperties
  <2> QED
    BY <1>4, <1>6, <2>1
<1>9. \A i, j \in DOMAIN f : i # j => f[i] # f[j]
  <2>1. ASSUME NEW i \in DOMAIN f, NEW j \in DOMAIN f, i # j PROVE f[i] # f[j]
    <3>1. f[i] \in Nat /\ f[j] \in Nat /\ i \in Nat /\ j \in Nat
      <4>1. f[i] \in kept /\ f[j] \in kept /\ i \in 1..n /\ j \in 1..n
        BY <1>5
      <4>2. kept \subseteq 1..Len(tunnels)
        BY <1>1
      <4> QED
        BY <1>1, <1>4, <4>1, <4>2
    <3>2. CASE i < j
      BY <3>1, <3>2
    <3>3. CASE j < i
      BY <3>1, <3>3
    <3> QED
      BY <2>1, <3>1, <3>2, <3>3
  <2> QED
    BY <2>1
<1>10. f \in Injection(1..n, kept)
  BY <1>5, <1>9 DEF Injection, IsInjective
<1>11. Cardinality(1..n) = n
  BY <1>4, FS_Interval
<1>12. f \in Surjection(1..n, kept)
  BY <1>3, <1>10, <1>11, FS_Injection DEF n
<1>13. \A k \in kept : \E i \in DOMAIN f : f[i] = k
  BY <1>5, <1>12 DEF Surjection
<1>14. \A i \in DOMAIN f : f[i] \in kept /\ tunnels'[i] = tunnels[f[i]]
  BY <1>5
<1> QED
  BY <1>3, <1>5, <1>6, <1>7, <1>8, <1>9, <1>13, <1>14

LEMMA RemoveEffect ==
    ASSUME PoolTypes, RemoveClosedConnections
    PROVE  \E kept \in SUBSET DOMAIN tunnels, f \in [1..Len(tunnels') -> 1..Len(tunnels)] :
              /\ kept = {i \in DOMAIN tunnels : tunnels[i].st # "lost" /\ tunnels[i].life > 0}
              /\ tunnels' \in Seq(Mortal) /\ Len(tunnels') <= Len(tunnels)
              /\ DOMAIN tunnels' = DOMAIN f
              /\ \A i \in DOMAIN f : f[i] \in kept /\ tunnels'[i] = tunnels[f[i]]
              /\ \A i, j \in DOMAIN f : i # j => f[i] # f[j]
              /\ \A k \in kept : \E i \in DOMAIN f : f[i] = k
              /\ Len(tunnels') = Len(tunnels) => kept = DOMAIN tunnels
<1> DEFINE kept == {i \in DOMAIN tunnels : tunnels[i].st # "lost" /\ tunnels[i].life > 0}
<1>1. PICK f \in [1..Cardinality(kept) -> kept] :
         /\ \A i, j \in DOMAIN f : i < j => f[i] < f[j]
         /\ tunnels' = [i \in DOMAIN f |-> tunnels[f[i]]]
  BY DEF RemoveClosedConnections, Keep
<1>2. kept \in SUBSET DOMAIN tunnels
  OBVIOUS
<1> HIDE DEF kept
<1>3. /\ tunnels' \in Seq(Mortal) /\ Len(tunnels') <= Len(tunnels)
      /\ DOMAIN tunnels' = DOMAIN f
      /\ \A i \in DOMAIN f : f[i] \in kept /\ tunnels'[i] = tunnels[f[i]]
      /\ \A i, j \in DOMAIN f : i # j => f[i] # f[j]
      /\ \A k \in kept : \E i \in DOMAIN f : f[i] = k
      /\ Len(tunnels') = Len(tunnels) => kept = DOMAIN tunnels
  BY <1>1, <1>2, KeepEffect
<1>4. f \in [1..Len(tunnels') -> 1..Len(tunnels)]
  <2>1. DOMAIN tunnels' = 1..Len(tunnels') /\ DOMAIN tunnels = 1..Len(tunnels)
    BY <1>3, LenProperties, ConnectionsAre
  <2> QED
    BY <1>1, <1>2, <1>3, <2>1
<1>5. kept = {i \in DOMAIN tunnels : tunnels[i].st # "lost" /\ tunnels[i].life > 0}
  BY DEF kept
<1> QED
  BY <1>2, <1>3, <1>4, <1>5

(* What ParallelTunnels does of what a pool may do.                        *)
ParallelNext ==
    \/ PoolStart \/ PoolStop \/ RemoveClosedConnections \/ ParallelMissing
    \/ ConnectionReady \/ AddConnection \/ CreateFailed \/ IsPoolEmpty
    \/ NotifyConnectedOnce \/ RunEventLoop \/ Second \/ CandUp \/ CandLost \/ TunnelLost

LEMMA ParallelSteps ==
    ASSUME PoolTypes, strategy = "parallel", PoolNext
    PROVE  ParallelNext
BY DEF PoolTypes, PoolNext, ParallelNext, Manage, RollingManage, RenewConnection,
       RemoveExpiredConnections, UpdateConnectionsStatus, MimicryMissing, MimicryFill

(* The connection a round of ParallelTunnels begins.                       *)
LEMMA SpawnEffect ==
    ASSUME PoolTypes, ParallelMissing, mgr' # "check"
    PROVE  /\ active /\ mgr' = "creating" /\ Len(tunnels) <= ConnectionCount
           /\ Cardinality({i \in DOMAIN tunnels :
                              IsUp(tunnels[i]) /\ tunnels[i].life > LeadSeconds}) < ConnectionCount
           /\ cand' \in Seq(Mortal) /\ Len(cand') = 1 /\ DOMAIN cand' = {1}
           /\ cand'[1].life = NextLifetimeSeconds /\ cand'[1].budget = ConnectBudget
           /\ NextLifetimeSeconds \in 1..LifetimeSeconds
           /\ \A t \in Due : \/ t - NextLifetimeSeconds > StaggerSeconds
                             \/ NextLifetimeSeconds - t > StaggerSeconds
           /\ Due = {} => NextLifetimeSeconds = SlotSeconds
           /\ Due # {} => \/ Max(Due) > LifetimeSeconds - SlotSeconds
                          \/ NextLifetimeSeconds = Max(Due) + SlotSeconds
<1> DEFINE healthy == {i \in DOMAIN tunnels : IsUp(tunnels[i]) /\ tunnels[i].life > LeadSeconds}
           x == NextLifetimeSeconds
           c == ConnectionContext(x, 0)
<1>1. /\ active /\ mgr' = "creating"
      /\ ~ (Cardinality(healthy) >= ConnectionCount) /\ ~ (Len(tunnels) >= ConnectionCount + 1)
      /\ cand' = << c >>
  BY DEF ParallelMissing
<1>2. /\ DOMAIN tunnels = 1..Len(tunnels) /\ Len(tunnels) \in Nat
  BY ConnectionsAre
<1>3. Len(tunnels) <= ConnectionCount
  BY <1>1, <1>2, Numbers
<1>4. Cardinality(healthy) < ConnectionCount
  <2>1. IsFiniteSet(DOMAIN tunnels) /\ healthy \in SUBSET DOMAIN tunnels
    BY <1>2, FS_Interval
  <2>2. Cardinality(healthy) \in Nat
    BY <2>1, FS_Subset, FS_CardinalityType
  <2> QED
    BY <1>1, <2>2, Numbers
<1>5. tunnels \in Seq(Mortal)
  BY DEF PoolTypes
<1>6. /\ x \in 1..LifetimeSeconds
      /\ \A t \in Due : t - x > StaggerSeconds \/ x - t > StaggerSeconds
      /\ Due = {} => x = SlotSeconds
      /\ Due # {} => Max(Due) > LifetimeSeconds - SlotSeconds \/ x = Max(Due) + SlotSeconds
  BY <1>3, <1>5, NextLifetimeFits
<1> HIDE DEF x
<1>7. c \in Mortal /\ c.life = x /\ c.budget = ConnectBudget
  BY <1>6, Numbers DEF ConnectionContext, Mortal, ContextType
<1> HIDE DEF c
<1>8. cand' \in Seq(Mortal) /\ Len(cand') = 1 /\ DOMAIN cand' = {1} /\ cand'[1] = c
  BY <1>1, <1>7
<1> QED
  BY <1>1, <1>3, <1>4, <1>6, <1>7, <1>8 DEF x

(* A connection that came up joins the others.                             *)
LEMMA AddEffect ==
    ASSUME PoolTypes, strategy = "parallel", AddConnection
    PROVE  /\ tunnels' \in Seq(Mortal) /\ Len(tunnels') = Len(tunnels) + 1
           /\ DOMAIN tunnels' = 1..Len(tunnels) + 1
           /\ \A i \in DOMAIN tunnels : i \in DOMAIN tunnels' /\ tunnels'[i] = tunnels[i]
           /\ tunnels'[Len(tunnels) + 1] = cand[1]
           /\ \A i \in DOMAIN tunnels' : i \in DOMAIN tunnels \/ i = Len(tunnels) + 1
           /\ Len(cand) = 1 /\ DOMAIN cand = {1} /\ cand' = << >> /\ mgr' = "check" /\ lastSpawn' = 0
           /\ UNCHANGED <<active, notified, faulty>>
<1>1. /\ mgr = "commit" /\ tunnels' = tunnels \o cand /\ cand' = << >> /\ mgr' = "check"
      /\ lastSpawn' = 0 /\ UNCHANGED <<active, notified, faulty>>
  BY DEF AddConnection, AfterCreate
<1>2. tunnels \in Seq(Mortal) /\ cand \in Seq(Mortal) /\ Len(cand) = 1
  BY <1>1 DEF PoolTypes
<1>3. DOMAIN tunnels = 1..Len(tunnels) /\ Len(tunnels) \in Nat /\ DOMAIN cand = {1}
  BY <1>2, ConnectionsAre
<1>4. /\ tunnels' \in Seq(Mortal) /\ Len(tunnels') = Len(tunnels) + 1
      /\ \A i \in 1..Len(tunnels) + 1 :
            tunnels'[i] = IF i <= Len(tunnels) THEN tunnels[i] ELSE cand[i - Len(tunnels)]
  <2> DEFINE t == tunnels
             c == cand
             s == t \o c
  <2>1. t \in Seq(Mortal) /\ c \in Seq(Mortal) /\ Len(c) = 1
    BY <1>2
  <2> HIDE DEF t, c
  <2>2. /\ s \in Seq(Mortal) /\ Len(s) = Len(t) + Len(c)
        /\ \A i \in 1..Len(t) + Len(c) : s[i] = IF i <= Len(t) THEN t[i] ELSE c[i - Len(t)]
    BY <2>1, ConcatProperties
  <2>3. tunnels' = s /\ t = tunnels /\ c = cand
    BY <1>1 DEF t, c
  <2> HIDE DEF s
  <2> QED
    BY <2>1, <2>2, <2>3
<1>5. DOMAIN tunnels' = 1..Len(tunnels) + 1
  BY <1>4, LenProperties
<1>6. tunnels'[Len(tunnels) + 1] = cand[1]
  BY <1>3, <1>4
<1>7. \A i \in DOMAIN tunnels : i \in DOMAIN tunnels' /\ tunnels'[i] = tunnels[i]
  BY <1>3, <1>4, <1>5
<1>8. \A i \in DOMAIN tunnels' : i \in DOMAIN tunnels \/ i = Len(tunnels) + 1
  BY <1>3, <1>5
<1> QED
  BY <1>1, <1>2, <1>3, <1>4, <1>5, <1>6, <1>7, <1>8

(* The network changes the state of one connection, and no time.           *)
LEMMA CandChange ==
    ASSUME PoolTypes, NEW s \in {"connecting", "up", "lost"},
           cand # << >>, cand' = << [cand[1] EXCEPT !.st = s] >>
    PROVE  /\ cand' \in Seq(Mortal) /\ Len(cand') = 1 /\ Len(cand) = 1
           /\ DOMAIN cand = {1} /\ DOMAIN cand' = {1}
           /\ cand'[1].life = cand[1].life /\ cand'[1].budget = cand[1].budget
           /\ cand'[1].st = s
<1> DEFINE y == [cand[1] EXCEPT !.st = s]
<1>1. Len(cand) = 1 /\ DOMAIN cand = {1} /\ cand[1] \in Mortal
  <2>1. Len(cand) = 1
    BY ConnectionsAre
  <2>2. DOMAIN cand = {1}
    BY <2>1, ConnectionsAre
  <2> QED
    BY <2>1, <2>2, ConnectionsAre
<1>2. y \in Mortal /\ y.life = cand[1].life /\ y.budget = cand[1].budget /\ y.st = s
  BY <1>1, StateChange
<1> HIDE DEF y
<1>3. cand' = << y >>
  BY DEF y
<1>4. cand' \in Seq(Mortal) /\ Len(cand') = 1 /\ DOMAIN cand' = {1} /\ cand'[1] = y
  BY <1>2, <1>3
<1> QED
  BY <1>1, <1>2, <1>4

LEMMA TunnelChange ==
    ASSUME PoolTypes, TunnelLost
    PROVE  /\ tunnels' \in Seq(Mortal) /\ Len(tunnels') = Len(tunnels)
           /\ DOMAIN tunnels' = DOMAIN tunnels
           /\ \A j \in DOMAIN tunnels : tunnels'[j].life = tunnels[j].life
<1>1. PICK i \in DOMAIN tunnels : tunnels' = [tunnels EXCEPT ![i].st = "lost"]
  BY DEF TunnelLost
<1> DEFINE y == [tunnels[i] EXCEPT !.st = "lost"]
<1>2. /\ tunnels \in Seq(Mortal) /\ DOMAIN tunnels = 1..Len(tunnels) /\ Len(tunnels) \in Nat
      /\ tunnels[i] \in Mortal
  BY ConnectionsAre DEF PoolTypes
<1>3. y \in Mortal /\ y.life = tunnels[i].life
  BY <1>2, StateChange
<1>4. tunnels' = [tunnels EXCEPT ![i] = y]
  BY <1>1
<1> HIDE DEF y
<1>5. /\ tunnels' \in Seq(Mortal) /\ Len(tunnels') = Len(tunnels)
      /\ \A j \in 1..Len(tunnels) : tunnels'[j] = IF j = i THEN y ELSE tunnels[j]
  BY <1>2, <1>3, <1>4, ExceptSeq
<1>6. DOMAIN tunnels' = DOMAIN tunnels
  BY <1>2, <1>5, LenProperties
<1> QED
  BY <1>2, <1>3, <1>5, <1>6

LEMMA PoolTypesKept ==
    ASSUME PoolTypes, strategy = "parallel", ParallelNext
    PROVE  PoolTypes'
<1>0. << >> \in Seq(Mortal) /\ Len(<< >>) = 0
  BY EmptySeq
<1>1. CASE PoolStart
  BY <1>0, <1>1 DEF PoolStart, PoolTypes
<1>2. CASE PoolStop
  BY <1>0, <1>2 DEF PoolStop, PoolTypes
<1>3. CASE RemoveClosedConnections
  <2>1. tunnels' \in Seq(Mortal)
    BY <1>3, RemoveEffect
  <2>2. mgr = "remove" /\ mgr' = "missing" /\ UNCHANGED <<active, cand, lastSpawn, notified>>
    BY <1>3 DEF RemoveClosedConnections
  <2> QED
    BY <2>1, <2>2 DEF PoolTypes
<1>4. CASE ParallelMissing
  <2>1. mgr = "missing" /\ UNCHANGED <<active, tunnels, lastSpawn, notified>>
    BY <1>4 DEF ParallelMissing
  <2>2. CASE mgr' = "check"
    <3>1. UNCHANGED cand
      BY <1>4, <2>2 DEF ParallelMissing
    <3> QED
      BY <2>1, <2>2, <3>1 DEF PoolTypes
  <2>3. CASE mgr' # "check"
    <3>1. mgr' = "creating" /\ cand' \in Seq(Mortal) /\ Len(cand') = 1
      BY <1>4, <2>3, SpawnEffect
    <3> QED
      BY <2>1, <3>1 DEF PoolTypes
  <2> QED
    BY <2>2, <2>3
<1>5. CASE ConnectionReady
  BY <1>5 DEF ConnectionReady, PoolTypes
<1>6. CASE AddConnection
  <2>1. /\ tunnels' \in Seq(Mortal) /\ cand' = << >> /\ mgr' = "check" /\ lastSpawn' = 0
        /\ UNCHANGED <<active, notified>>
    BY <1>6, AddEffect
  <2> QED
    BY <1>0, <2>1, Numbers DEF PoolTypes
<1>7. CASE CreateFailed
  BY <1>0, <1>7 DEF CreateFailed, PoolTypes
<1>8. CASE IsPoolEmpty
  BY <1>8 DEF IsPoolEmpty, PoolTypes
<1>9. CASE NotifyConnectedOnce
  BY <1>9 DEF NotifyConnectedOnce, PoolTypes
<1>10. CASE RunEventLoop
  BY <1>10 DEF RunEventLoop, PoolTypes
<1>11. CASE Second
  <2>1. /\ tunnels' = Older(tunnels) /\ cand' = Older(cand) /\ UNCHANGED <<active, notified>>
        /\ lastSpawn' = IF lastSpawn < StaggerSeconds THEN lastSpawn + 1 ELSE lastSpawn
        /\ (mgr = "sleep" /\ mgr' = "remove") \/ (mgr = "creating" /\ mgr' = "creating")
    BY <1>11 DEF Second
  <2>2. /\ tunnels' \in Seq(Mortal) /\ cand' \in Seq(Mortal) /\ Len(cand') = Len(cand)
    BY <2>1, OlderMortals DEF PoolTypes
  <2>3. lastSpawn' \in 0..StaggerSeconds
    BY <2>1, Numbers DEF PoolTypes
  <2>4. cand = << >> => cand' = << >>
    BY <2>2, EmptySeq
  <2> QED
    BY <2>1, <2>2, <2>3, <2>4 DEF PoolTypes
<1>12. CASE CandUp
  <2>1. /\ cand # << >> /\ cand' = << [cand[1] EXCEPT !.st = "up"] >>
        /\ UNCHANGED <<tunnels, active, mgr, notified, lastSpawn>>
    BY <1>12 DEF CandUp
  <2>2. cand' \in Seq(Mortal) /\ Len(cand') = 1
    BY <2>1, CandChange
  <2> QED
    BY <2>1, <2>2 DEF PoolTypes
<1>13. CASE CandLost
  <2>1. /\ cand # << >> /\ cand' = << [cand[1] EXCEPT !.st = "lost"] >>
        /\ UNCHANGED <<tunnels, active, mgr, notified, lastSpawn>>
    BY <1>13 DEF CandLost
  <2>2. cand' \in Seq(Mortal) /\ Len(cand') = 1
    BY <2>1, CandChange
  <2> QED
    BY <2>1, <2>2 DEF PoolTypes
<1>14. CASE TunnelLost
  <2>1. UNCHANGED <<cand, active, mgr, notified, lastSpawn>>
    BY <1>14 DEF TunnelLost
  <2>2. tunnels' \in Seq(Mortal) /\ Len(tunnels') = Len(tunnels)
    BY <1>14, TunnelChange
  <2>3. tunnels = << >> => tunnels' = << >>
    BY <2>2, EmptySeq
  <2> QED
    BY <2>1, <2>2, <2>3 DEF PoolTypes
<1> QED
  BY <1>1, <1>2, <1>3, <1>4, <1>5, <1>6, <1>7, <1>8, <1>9, <1>10, <1>11, <1>12, <1>13, <1>14
     DEF ParallelNext

-----------------------------------------------------------------------------
(* ParallelTunnels: the closes stay apart                                  *)

LEMMA ApartWithAge ==
    ASSUME NEW a \in Nat, NEW b \in Nat, Apart(a, b)
    PROVE  Apart(Less(a), Less(b))
<1>1. CASE a = 0
  BY <1>1, Numbers DEF Apart, Less
<1>2. CASE b = 0
  BY <1>2, Numbers DEF Apart, Less
<1>3. CASE a > 0 /\ b > 0
  BY <1>3, Numbers DEF Apart, Less
<1> QED
  BY <1>1, <1>2, <1>3

LEMMA ApartSymmetric == \A a, b : Apart(a, b) => Apart(b, a)
BY DEF Apart

LEMMA SpacedKept ==
    ASSUME PoolTypes, Spaced, strategy = "parallel", ParallelNext
    PROVE  Spaced'
<1>1. CASE UNCHANGED <<tunnels, cand>>
  BY <1>1 DEF Spaced, Apart
<1>2. CASE PoolStop
  BY <1>2 DEF PoolStop, Spaced, Apart
<1>3. CASE RemoveClosedConnections
  <2>1. UNCHANGED cand
    BY <1>3 DEF RemoveClosedConnections
  <2>2. PICK kept \in SUBSET DOMAIN tunnels, f \in [1..Len(tunnels') -> 1..Len(tunnels)] :
          /\ DOMAIN tunnels' = DOMAIN f
          /\ \A i \in DOMAIN f : f[i] \in kept /\ tunnels'[i] = tunnels[f[i]]
          /\ \A i, j \in DOMAIN f : i # j => f[i] # f[j]
    BY <1>3, RemoveEffect
  <2>3. \A i \in DOMAIN tunnels' : f[i] \in DOMAIN tunnels /\ tunnels'[i] = tunnels[f[i]]
    BY <2>2
  <2>4. ASSUME NEW i \in DOMAIN tunnels', NEW j \in DOMAIN tunnels', i # j
        PROVE  Apart(tunnels'[i].life, tunnels'[j].life)
    <3>1. f[i] # f[j]
      BY <2>2, <2>4
    <3> QED
      BY <2>3, <3>1 DEF Spaced
  <2>5. ASSUME NEW i \in DOMAIN tunnels', NEW k \in DOMAIN cand'
        PROVE  Apart(tunnels'[i].life, cand'[k].life)
    BY <2>1, <2>3 DEF Spaced
  <2> QED
    BY <2>4, <2>5 DEF Spaced, Apart
<1>4. CASE ParallelMissing /\ ~ UNCHANGED cand
  <2>1. UNCHANGED tunnels /\ mgr' # "check"
    BY <1>4 DEF ParallelMissing
  <2>2. /\ DOMAIN cand' = {1} /\ cand'[1].life = NextLifetimeSeconds
        /\ NextLifetimeSeconds \in 1..LifetimeSeconds
        /\ \A t \in Due : \/ t - NextLifetimeSeconds > StaggerSeconds
                          \/ NextLifetimeSeconds - t > StaggerSeconds
    BY <1>4, <2>1, SpawnEffect
  <2>3. ASSUME NEW i \in DOMAIN tunnels
        PROVE  Apart(tunnels[i].life, NextLifetimeSeconds)
    <3>1. SUFFICES ASSUME tunnels[i].life > LeadSeconds
                   PROVE  \/ tunnels[i].life - NextLifetimeSeconds > StaggerSeconds
                          \/ NextLifetimeSeconds - tunnels[i].life > StaggerSeconds
      BY DEF Apart
    <3>2. tunnels[i].life \in 0..LifetimeSeconds
      BY ConnectionsAre, MortalIs
    <3>3. tunnels[i].life \in 1..LifetimeSeconds
      BY <3>1, <3>2, Numbers
    <3>4. tunnels[i].life \in Due
      BY <3>3 DEF Due
    <3> QED
      BY <2>2, <3>4
  <2> QED
    BY <2>1, <2>2, <2>3 DEF Spaced, Apart
<1>5. CASE AddConnection
  <2>1. /\ \A i \in DOMAIN tunnels : i \in DOMAIN tunnels' /\ tunnels'[i] = tunnels[i]
        /\ tunnels'[Len(tunnels) + 1] = cand[1]
        /\ \A i \in DOMAIN tunnels' : i \in DOMAIN tunnels \/ i = Len(tunnels) + 1
        /\ DOMAIN cand = {1} /\ cand' = << >>
    BY <1>5, AddEffect
  <2>2. ASSUME NEW i \in DOMAIN tunnels', NEW j \in DOMAIN tunnels', i # j
        PROVE  Apart(tunnels'[i].life, tunnels'[j].life)
    <3>1. CASE i \in DOMAIN tunnels /\ j \in DOMAIN tunnels
      BY <2>1, <2>2, <3>1 DEF Spaced
    <3>2. CASE i \in DOMAIN tunnels /\ j = Len(tunnels) + 1
      BY <2>1, <3>2 DEF Spaced
    <3>3. CASE j \in DOMAIN tunnels /\ i = Len(tunnels) + 1
      BY <2>1, <3>3, ApartSymmetric DEF Spaced
    <3> QED
      BY <2>1, <2>2, <3>1, <3>2, <3>3
  <2>3. DOMAIN cand' = {}
    BY <2>1
  <2> QED
    BY <2>2, <2>3 DEF Spaced, Apart
<1>6. CASE CreateFailed
  BY <1>6 DEF CreateFailed, Spaced, Apart
<1>7. CASE Second
  <2>1. tunnels' = Older(tunnels) /\ cand' = Older(cand)
    BY <1>7 DEF Second
  <2>2. tunnels \in Seq(Mortal) /\ cand \in Seq(Mortal)
    BY DEF PoolTypes
  <2>3. /\ DOMAIN tunnels' = DOMAIN tunnels /\ DOMAIN cand' = DOMAIN cand
        /\ \A i \in DOMAIN tunnels : tunnels'[i].life = Less(tunnels[i].life)
                                     /\ tunnels[i].life \in Nat
        /\ \A k \in DOMAIN cand : cand'[k].life = Less(cand[k].life) /\ cand[k].life \in Nat
    BY <2>1, <2>2, OlderMortals
  <2>4. ASSUME NEW i \in DOMAIN tunnels', NEW j \in DOMAIN tunnels', i # j
        PROVE  Apart(tunnels'[i].life, tunnels'[j].life)
    <3>1. Apart(tunnels[i].life, tunnels[j].life)
      BY <2>3, <2>4 DEF Spaced
    <3> QED
      BY <2>3, <3>1, ApartWithAge
  <2>5. ASSUME NEW i \in DOMAIN tunnels', NEW k \in DOMAIN cand'
        PROVE  Apart(tunnels'[i].life, cand'[k].life)
    <3>1. Apart(tunnels[i].life, cand[k].life)
      BY <2>3 DEF Spaced
    <3> QED
      BY <2>3, <3>1, ApartWithAge
  <2> QED
    BY <2>4, <2>5 DEF Spaced, Apart
<1>8. CASE CandUp \/ CandLost
  <2>1. UNCHANGED tunnels /\ cand # << >>
    BY <1>8 DEF CandUp, CandLost
  <2>2. PICK s \in {"up", "lost"} : cand' = << [cand[1] EXCEPT !.st = s] >>
    BY <1>8 DEF CandUp, CandLost
  <2>3. DOMAIN cand' = {1} /\ DOMAIN cand = {1} /\ cand'[1].life = cand[1].life
    BY <2>1, <2>2, CandChange
  <2> QED
    BY <2>1, <2>3 DEF Spaced, Apart
<1>9. CASE TunnelLost
  <2>1. UNCHANGED cand
    BY <1>9 DEF TunnelLost
  <2>2. /\ DOMAIN tunnels' = DOMAIN tunnels
        /\ \A j \in DOMAIN tunnels : tunnels'[j].life = tunnels[j].life
    BY <1>9, TunnelChange
  <2> QED
    BY <2>1, <2>2 DEF Spaced, Apart
<1>10. ParallelMissing \/ PoolStart \/ ConnectionReady \/ IsPoolEmpty \/ NotifyConnectedOnce
         \/ RunEventLoop => UNCHANGED tunnels
  BY DEF ParallelMissing, PoolStart, ConnectionReady, IsPoolEmpty, NotifyConnectedOnce, RunEventLoop
<1>11. PoolStart \/ ConnectionReady \/ IsPoolEmpty \/ NotifyConnectedOnce
         \/ RunEventLoop => UNCHANGED cand
  BY DEF PoolStart, ConnectionReady, IsPoolEmpty, NotifyConnectedOnce, RunEventLoop
<1> QED
  BY <1>1, <1>2, <1>3, <1>4, <1>5, <1>6, <1>7, <1>8, <1>9, <1>10, <1>11 DEF ParallelNext

-----------------------------------------------------------------------------
(* ParallelTunnels: a connection is always left                            *)

LEMMA LivesAre ==
    ASSUME PoolTypes
    PROVE  /\ AllLives \in SUBSET (0..LifetimeSeconds) /\ AllLives \in SUBSET Nat
           /\ Lives(tunnels) \in SUBSET AllLives
           /\ cand = << >> => AllLives = Lives(tunnels)
           /\ lastSpawn \in Nat /\ lastSpawn <= StaggerSeconds
<1>1. \A i \in DOMAIN tunnels : tunnels[i].life \in 0..LifetimeSeconds
  BY ConnectionsAre, MortalIs
<1>2. \A k \in DOMAIN cand : cand[k].life \in 0..LifetimeSeconds
  BY ConnectionsAre, MortalIs
<1>3. AllLives \in SUBSET (0..LifetimeSeconds) /\ Lives(tunnels) \in SUBSET AllLives
  BY <1>1, <1>2 DEF AllLives, Lives
<1>4. cand = << >> => AllLives = Lives(tunnels)
  BY DEF AllLives, Lives
<1>5. lastSpawn \in Nat /\ lastSpawn <= StaggerSeconds
  BY Numbers DEF PoolTypes
<1>6. AllLives \in SUBSET Nat
  BY <1>3, Numbers
<1> QED
  BY <1>3, <1>4, <1>5, <1>6

(* At most one connection is removed while the next is not yet up, and     *)
(* never the last.                                                         *)
LEMMA RemoveKeeps ==
    ASSUME PoolTypes, Kept, RemoveClosedConnections, active, ~faulty
    PROVE  Manned' /\ RoomLeft' /\ Reserve'
<1>1. /\ mgr = "remove" /\ mgr' = "missing"
      /\ UNCHANGED <<active, cand, lastSpawn, notified, faulty>>
  BY DEF RemoveClosedConnections
<1>2. Manned /\ RoomLeft /\ Reserve
  BY DEF Kept
<1>3. cand = << >> /\ Len(cand) = 0
  BY <1>1, ConnectionsAre DEF PoolTypes
<1>4. PICK kept \in SUBSET DOMAIN tunnels, f \in [1..Len(tunnels') -> 1..Len(tunnels)] :
         /\ kept = {i \in DOMAIN tunnels : tunnels[i].st # "lost" /\ tunnels[i].life > 0}
         /\ tunnels' \in Seq(Mortal) /\ Len(tunnels') <= Len(tunnels)
         /\ DOMAIN tunnels' = DOMAIN f
         /\ \A i \in DOMAIN f : f[i] \in kept /\ tunnels'[i] = tunnels[f[i]]
         /\ \A k \in kept : \E i \in DOMAIN f : f[i] = k
         /\ Len(tunnels') = Len(tunnels) => kept = DOMAIN tunnels
  BY RemoveEffect
<1>5. /\ \A i \in DOMAIN tunnels' : f[i] \in DOMAIN tunnels /\ tunnels'[i] = tunnels[f[i]]
                                    /\ tunnels[f[i]].life > 0
  BY <1>4
<1>6. \A k \in DOMAIN tunnels : tunnels[k].life > 0 => tunnels[k].life \in Lives(tunnels')
  <2> TAKE k \in DOMAIN tunnels
  <2> HAVE tunnels[k].life > 0
  <2>1. tunnels[k].st # "lost"
    BY <1>2 DEF Manned, AllUp, IsUp
  <2>2. k \in kept
    BY <1>4, <2>1
  <2>3. PICK i \in DOMAIN f : f[i] = k
    BY <1>4, <2>2
  <2> QED
    BY <1>4, <2>3 DEF Lives
<1>7. AllUp(tunnels')
  BY <1>2, <1>5 DEF Manned, AllUp, IsUp
<1>8. \A i \in DOMAIN tunnels' : tunnels'[i].life > 0
  BY <1>5
<1>9. ASSUME tunnels # << >>
      PROVE  \E x \in Lives(tunnels') : x >= LeadSeconds + StaggerSeconds - lastSpawn
  <2>1. PICK x \in Lives(tunnels) : x >= LeadSeconds + StaggerSeconds - lastSpawn
    BY <1>1, <1>2, <1>9 DEF Reserve
  <2>2. x \in Nat
    BY LivesAre
  <2>3. x > 0
    BY <2>1, <2>2, LivesAre, Numbers
  <2>4. PICK k \in DOMAIN tunnels : x = tunnels[k].life
    BY DEF Lives
  <2> QED
    BY <1>6, <2>1, <2>3, <2>4
<1>10. tunnels # << >> => tunnels' # << >>
  BY <1>9 DEF Lives
<1>11. Manned'
  BY <1>1, <1>2, <1>7, <1>8, <1>10 DEF Manned
<1>12. Len(tunnels) \in Nat /\ Len(tunnels') \in Nat /\ Len(cand') = 0
  BY <1>1, <1>3, <1>4, ConnectionsAre, LenProperties
<1>13. RoomLeft'
  <2>1. Len(tunnels) <= ConnectionCount + 1
    BY <1>2, <1>3, <1>12 DEF RoomLeft
  <2>2. ASSUME Len(tunnels') = ConnectionCount + 1
        PROVE  \E x, y \in AllLives' : y = 0 \/ x >= y + LeadSeconds
    <3>1. Len(tunnels) = ConnectionCount + 1 /\ Len(tunnels') = Len(tunnels)
      BY <1>4, <1>12, <2>1, <2>2, Numbers
    <3>2. PICK x, y \in AllLives : y = 0 \/ x >= y + LeadSeconds
      BY <1>2, <1>3, <1>12, <3>1, Numbers DEF RoomLeft
    <3>3. AllLives \in SUBSET Lives(tunnels')
      <4>1. \A k \in DOMAIN tunnels : tunnels[k].life > 0
        BY <1>4, <3>1
      <4>2. AllLives = Lives(tunnels)
        BY <1>3, LivesAre
      <4> QED
        BY <1>6, <4>1, <4>2 DEF Lives
    <3>4. AllLives \in SUBSET AllLives'
      BY <3>3 DEF AllLives
    <3> QED
      BY <3>2, <3>4
  <2>3. /\ Len(tunnels') + Len(cand') = Len(tunnels')
        /\ Len(tunnels') <= ConnectionCount + 1
    BY <1>4, <1>12, <2>1, Numbers
  <2> QED
    BY <2>2, <2>3 DEF RoomLeft
<1>14. tunnels' # << >> => tunnels # << >>
  <2>1. tunnels = << >> => Len(tunnels') = 0
    BY <1>4, <1>12, ConnectionsAre
  <2> QED
    BY <1>4, <2>1, EmptySeq
<1>15. Reserve'
  BY <1>1, <1>9, <1>14 DEF Reserve
<1> QED
  BY <1>11, <1>13, <1>15

(* While no connection is due to be opened, one that is there lasts.       *)
LEMMA WaitKeeps ==
    ASSUME PoolTypes, Kept, ParallelMissing, mgr' = "check", active, ~faulty,
           tunnels # << >>
    PROVE  \E x \in Lives(tunnels) : x > LeadSeconds
<1> DEFINE healthy == {i \in DOMAIN tunnels : IsUp(tunnels[i]) /\ tunnels[i].life > LeadSeconds}
<1>1. /\ mgr = "missing"
      /\ \/ Cardinality(healthy) >= ConnectionCount
         \/ Len(tunnels) >= ConnectionCount + 1
         \/ lastSpawn < StaggerSeconds
  BY DEF ParallelMissing
<1>2. Manned /\ RoomLeft /\ Reserve
  BY DEF Kept
<1>3. cand = << >> /\ Len(cand) = 0 /\ Len(tunnels) \in Nat /\ AllLives = Lives(tunnels)
  BY <1>1, ConnectionsAre, LivesAre DEF PoolTypes
<1>4. Lives(tunnels) \in SUBSET Nat
  BY LivesAre
<1>5. CASE Cardinality(healthy) >= ConnectionCount
  <2>1. healthy # {}
    <3>1. SUFFICES ASSUME healthy = {} PROVE FALSE
      OBVIOUS
    <3>2. Cardinality(healthy) = 0
      BY <3>1, FS_EmptySet
    <3> QED
      BY <1>5, <3>2, Numbers
  <2>2. PICK i \in DOMAIN tunnels : tunnels[i].life > LeadSeconds
    BY <2>1
  <2> QED
    BY <2>2 DEF Lives
<1>6. CASE Len(tunnels) >= ConnectionCount + 1
  <2>1. Len(tunnels) + Len(cand) = ConnectionCount + 1
    BY <1>2, <1>3, <1>6, Numbers DEF RoomLeft
  <2>2. PICK x, y \in Lives(tunnels) : y = 0 \/ x >= y + LeadSeconds
    BY <1>2, <1>3, <2>1 DEF RoomLeft
  <2>3. y > 0
    BY <1>1, <1>2 DEF Manned, Lives
  <2>4. x > LeadSeconds
    BY <1>4, <2>2, <2>3, Numbers
  <2> QED
    BY <2>4
<1>7. CASE lastSpawn < StaggerSeconds
  <2>1. PICK x \in Lives(tunnels) : x >= LeadSeconds + StaggerSeconds - lastSpawn
    BY <1>1, <1>2 DEF Reserve
  <2>2. x > LeadSeconds
    BY <1>4, <1>7, <2>1, LivesAre, Numbers
  <2> QED
    BY <2>2
<1> QED
  BY <1>1, <1>5, <1>6, <1>7

(* The new connection, or the one due last, outlives the wait for it; the  *)
(* pool is full only if one of the old ones is not healthy.                *)
LEMMA SpawnKeeps ==
    ASSUME PoolTypes, Kept, ParallelMissing, mgr' # "check", active, ~faulty
    PROVE  Manned' /\ RoomLeft' /\ Reserve'
<1> DEFINE healthy == {i \in DOMAIN tunnels : IsUp(tunnels[i]) /\ tunnels[i].life > LeadSeconds}
           new == NextLifetimeSeconds
<1>1. Manned /\ RoomLeft /\ Reserve
  BY DEF Kept
<1>2. mgr = "missing" /\ UNCHANGED <<active, tunnels, notified, faulty, lastSpawn>>
  BY DEF ParallelMissing
<1>3. /\ mgr' = "creating" /\ Len(tunnels) <= ConnectionCount
      /\ Cardinality(healthy) < ConnectionCount
      /\ Len(cand') = 1 /\ DOMAIN cand' = {1}
      /\ cand'[1].life = new /\ cand'[1].budget = ConnectBudget
      /\ new \in 1..LifetimeSeconds
      /\ Due = {} => new = SlotSeconds
      /\ Due # {} => Max(Due) > LifetimeSeconds - SlotSeconds \/ new = Max(Due) + SlotSeconds
  BY SpawnEffect
<1> HIDE DEF new
<1>4. new \in AllLives' /\ Lives(tunnels) \in SUBSET AllLives'
  BY <1>2, <1>3 DEF AllLives, Lives
<1>5. Due \in SUBSET Lives(tunnels)
  BY DEF Due, Lives
<1>6. new \in Nat /\ Len(tunnels) \in Nat
  BY <1>3, ConnectionsAre, Numbers
<1>7. \E x \in AllLives' : x > LeadSeconds + StaggerSeconds + ConnectBudget
  <2>1. CASE Due = {}
    BY <1>3, <1>4, <2>1, Numbers
  <2>2. CASE Due # {} /\ new = Max(Due) + SlotSeconds
    BY <1>4, <2>2, LastDue, Numbers
  <2>3. CASE Due # {} /\ Max(Due) > LifetimeSeconds - SlotSeconds
    <3>1. Max(Due) \in AllLives' /\ Max(Due) \in Nat
      BY <1>4, <1>5, <2>3, LastDue
    <3>2. Max(Due) > LeadSeconds + StaggerSeconds + ConnectBudget
      BY <2>3, <3>1, Numbers
    <3> QED
      BY <3>1, <3>2
  <2> QED
    BY <1>3, <2>1, <2>2, <2>3
<1>8. ASSUME Len(tunnels) = ConnectionCount
      PROVE  \E x, y \in AllLives' : y = 0 \/ x >= y + LeadSeconds
  <2>1. DOMAIN tunnels = 1..Len(tunnels)
    BY ConnectionsAre
  <2>2. healthy # DOMAIN tunnels
    <3>1. Cardinality(DOMAIN tunnels) = ConnectionCount
      BY <1>8, <2>1, FS_Interval, Numbers
    <3> QED
      BY <1>3, <3>1, Numbers
  <2>3. PICK i \in DOMAIN tunnels : ~ (tunnels[i].life > LeadSeconds)
    BY <1>1, <2>2 DEF Manned, AllUp
  <2> DEFINE y == tunnels[i].life
  <2>4. y \in 0..LifetimeSeconds /\ y <= LeadSeconds /\ y \in AllLives'
    <3>1. y \in 0..LifetimeSeconds
      BY ConnectionsAre, MortalIs
    <3>2. y \in AllLives'
      BY <1>4 DEF Lives
    <3> QED
      BY <2>3, <3>1, <3>2, Numbers
  <2>5. y # 0 => y \in Due
    BY <2>4, Numbers DEF Due
  <2> HIDE DEF y
  <2>6. CASE y = 0
    BY <2>4, <2>6
  <2>7. CASE Due # {} /\ new = Max(Due) + SlotSeconds /\ y # 0
    <3>1. y <= Max(Due) /\ Max(Due) \in Nat
      BY <2>5, <2>7, LastDue
    <3>2. new >= y + LeadSeconds
      BY <2>4, <2>7, <3>1, Numbers
    <3> QED
      BY <1>4, <2>4, <3>2
  <2>8. CASE Due # {} /\ Max(Due) > LifetimeSeconds - SlotSeconds
    <3>1. Max(Due) \in AllLives' /\ Max(Due) \in Nat
      BY <1>4, <1>5, <2>8, LastDue
    <3>2. Max(Due) >= y + LeadSeconds
      BY <2>4, <2>8, <3>1, Numbers
    <3> QED
      BY <2>4, <3>1, <3>2
  <2> QED
    BY <1>3, <2>5, <2>6, <2>7, <2>8
<1>9. Manned'
  BY <1>1, <1>2, <1>3 DEF Manned, AllUp
<1>10. RoomLeft'
  <2>1. Len(tunnels') = Len(tunnels) /\ Len(cand') = 1
    BY <1>2, <1>3
  <2> QED
    BY <1>3, <1>6, <1>8, <2>1, Numbers DEF RoomLeft
<1>11. Reserve'
  BY <1>3, <1>7 DEF Reserve
<1> QED
  BY <1>9, <1>10, <1>11

LEMMA AddKeeps ==
    ASSUME PoolTypes, strategy = "parallel", Kept, AddConnection, active, ~faulty
    PROVE  Manned' /\ RoomLeft' /\ Reserve'
<1>1. Manned /\ RoomLeft /\ Reserve /\ mgr = "commit"
  BY DEF Kept, AddConnection
<1>2. /\ Len(tunnels') = Len(tunnels) + 1 /\ DOMAIN tunnels' = 1..Len(tunnels) + 1
      /\ tunnels' \in Seq(Mortal)
      /\ \A i \in DOMAIN tunnels : i \in DOMAIN tunnels' /\ tunnels'[i] = tunnels[i]
      /\ tunnels'[Len(tunnels) + 1] = cand[1]
      /\ \A i \in DOMAIN tunnels' : i \in DOMAIN tunnels \/ i = Len(tunnels) + 1
      /\ Len(cand) = 1 /\ DOMAIN cand = {1} /\ cand' = << >> /\ mgr' = "check" /\ lastSpawn' = 0
      /\ UNCHANGED <<active, notified, faulty>>
  BY AddEffect
<1>3. Len(tunnels) \in Nat /\ Len(cand') = 0 /\ Len(tunnels) + 1 \in DOMAIN tunnels'
  BY <1>2, ConnectionsAre
<1>4. AllLives \in SUBSET Lives(tunnels') /\ Lives(tunnels') \in SUBSET AllLives'
  <2>1. Lives(tunnels) \in SUBSET Lives(tunnels')
    BY <1>2 DEF Lives
  <2>2. Lives(cand) \in SUBSET Lives(tunnels')
    BY <1>2, <1>3 DEF Lives
  <2> QED
    BY <2>1, <2>2 DEF AllLives
<1>5. AllUp(tunnels')
  <2>1. AllUp(tunnels) /\ AllUp(cand)
    BY <1>1 DEF Manned
  <2> QED
    BY <1>2, <2>1 DEF AllUp
<1>6. tunnels' # << >>
  BY <1>3
<1>7. Manned'
  BY <1>2, <1>5, <1>6 DEF Manned
<1>8. RoomLeft'
  <2>1. Len(tunnels') + Len(cand') = Len(tunnels) + Len(cand)
    BY <1>2, <1>3
  <2> QED
    BY <1>1, <1>4, <2>1 DEF RoomLeft
<1>9. PICK x \in AllLives : x > LeadSeconds + StaggerSeconds + cand[1].budget
  BY <1>1 DEF Reserve
<1>10. x \in Nat /\ cand[1].budget \in 0..ConnectBudget /\ x \in Lives(tunnels')
  BY <1>2, <1>4, LivesAre, ConnectionsAre, MortalIs
<1>11. x > LeadSeconds /\ x >= LeadSeconds + StaggerSeconds - 0
  BY <1>9, <1>10, Numbers
<1>12. Reserve'
  BY <1>2, <1>10, <1>11 DEF Reserve
<1> QED
  BY <1>7, <1>8, <1>12

(* A second less for all of them leaves their distances as they are.       *)
LEMMA SecondKeeps ==
    ASSUME PoolTypes, Kept, Second, active, ~faulty
    PROVE  Manned' /\ RoomLeft' /\ Reserve'
<1>1. /\ tunnels' = Older(tunnels) /\ cand' = Older(cand) /\ UNCHANGED <<active, notified, faulty>>
      /\ lastSpawn' = IF lastSpawn < StaggerSeconds THEN lastSpawn + 1 ELSE lastSpawn
      /\ \/ mgr = "sleep" /\ mgr' = "remove"
         \/ mgr = "creating" /\ mgr' = "creating" /\ cand[1].budget > 0
  BY DEF Second
<1>2. Manned /\ RoomLeft /\ Reserve
  BY DEF Kept
<1>3. tunnels \in Seq(Mortal) /\ cand \in Seq(Mortal)
  BY DEF PoolTypes
<1>4. /\ Len(tunnels') = Len(tunnels) /\ Len(cand') = Len(cand)
      /\ DOMAIN tunnels' = DOMAIN tunnels /\ DOMAIN cand' = DOMAIN cand
      /\ \A i \in DOMAIN tunnels : tunnels'[i].life = Less(tunnels[i].life)
      /\ \A k \in DOMAIN cand : cand'[k].life = Less(cand[k].life)
                                /\ cand'[k].budget = Less(cand[k].budget)
      /\ AllUp(tunnels) => AllUp(tunnels')
      /\ tunnels' \in Seq(Mortal)
  BY <1>1, <1>3, OlderMortals
<1>5. \A x \in Lives(tunnels) : Less(x) \in Lives(tunnels')
  BY <1>4 DEF Lives
<1>6. \A x \in AllLives : Less(x) \in AllLives'
  <2>1. \A x \in Lives(cand) : Less(x) \in Lives(cand')
    BY <1>4 DEF Lives
  <2> QED
    BY <1>5, <2>1 DEF AllLives
<1>7. tunnels' # << >> => tunnels # << >>
  BY <1>4, <1>3, EmptySeq
<1>8. tunnels # << >> => tunnels' # << >>
  BY <1>4, <1>3, EmptySeq
<1>9. Manned'
  BY <1>1, <1>2, <1>4, <1>8 DEF Manned
<1>10. RoomLeft'
  <2>1. ASSUME Len(tunnels) + Len(cand) = ConnectionCount + 1
        PROVE  \E x, y \in AllLives' : y = 0 \/ x >= y + LeadSeconds
    <3>1. PICK x, y \in AllLives : y = 0 \/ x >= y + LeadSeconds
      BY <1>2, <2>1 DEF RoomLeft
    <3>2. x \in Nat /\ y \in Nat /\ Less(x) \in AllLives' /\ Less(y) \in AllLives'
      BY <1>6, LivesAre
    <3>3. Less(y) = 0 \/ Less(x) >= Less(y) + LeadSeconds
      BY <3>1, <3>2, Numbers DEF Less
    <3> QED
      BY <3>2, <3>3
  <2> QED
    BY <1>2, <1>4, <2>1 DEF RoomLeft
<1>11. CASE mgr = "sleep" /\ mgr' = "remove"
  <2>1. ASSUME tunnels # << >>
        PROVE  \E x \in Lives(tunnels') : x >= LeadSeconds + StaggerSeconds - lastSpawn'
    <3>1. lastSpawn \in Nat /\ lastSpawn <= StaggerSeconds
      BY LivesAre
    <3>2. CASE lastSpawn < StaggerSeconds
      <4>1. PICK x \in Lives(tunnels) : x >= LeadSeconds + StaggerSeconds - lastSpawn
        BY <1>2, <1>11, <2>1 DEF Reserve
      <4>2. x \in Nat /\ Less(x) \in Lives(tunnels')
        BY <1>5, LivesAre
      <4>3. Less(x) >= LeadSeconds + StaggerSeconds - lastSpawn'
        BY <1>1, <3>1, <3>2, <4>1, <4>2, Numbers DEF Less
      <4> QED
        BY <4>2, <4>3
    <3>3. CASE lastSpawn = StaggerSeconds
      <4>1. PICK x \in Lives(tunnels) : x > LeadSeconds
        BY <1>2, <1>11, <2>1 DEF Reserve
      <4>2. x \in Nat /\ Less(x) \in Lives(tunnels')
        BY <1>5, LivesAre
      <4>3. Less(x) >= LeadSeconds + StaggerSeconds - lastSpawn'
        BY <1>1, <3>1, <3>3, <4>1, <4>2, Numbers DEF Less
      <4> QED
        BY <4>2, <4>3
    <3> QED
      BY <3>1, <3>2, <3>3, Numbers
  <2>2. tunnels' # << >> => \E x \in Lives(tunnels') : x >= LeadSeconds + StaggerSeconds - lastSpawn'
    BY <1>7, <2>1
  <2>3. mgr' = "remove"
    BY <1>11
  <2> QED
    BY <1>9, <1>10, <2>2, <2>3 DEF Reserve
<1>12. CASE mgr = "creating" /\ mgr' = "creating" /\ cand[1].budget > 0
  <2>1. DOMAIN cand = {1} /\ cand[1].budget \in 0..ConnectBudget
    <3>1. Len(cand) = 1
      BY <1>12 DEF PoolTypes
    <3>2. DOMAIN cand = {1} /\ cand[1] \in Mortal
      BY <3>1, ConnectionsAre
    <3> QED
      BY <3>2, MortalIs
  <2>2. PICK x \in AllLives : x > LeadSeconds + StaggerSeconds + cand[1].budget
    BY <1>2, <1>12 DEF Reserve
  <2>3. x \in Nat /\ Less(x) \in AllLives'
    BY <1>6, LivesAre
  <2>4. cand'[1].budget = Less(cand[1].budget)
    BY <1>4, <2>1
  <2>5. Less(x) > LeadSeconds + StaggerSeconds + cand'[1].budget
    <3> DEFINE b == cand[1].budget
    <3>1. b \in Nat /\ b > 0
      BY <1>12, <2>1, Numbers
    <3>2. x > LeadSeconds + StaggerSeconds + b /\ cand'[1].budget = Less(b)
      BY <2>2, <2>4
    <3> HIDE DEF b
    <3>3. Less(x) > LeadSeconds + StaggerSeconds + Less(b)
      BY <2>3, <3>1, <3>2, Numbers DEF Less
    <3> QED
      BY <3>2, <3>3
  <2>6. mgr' = "creating" /\ \E z \in AllLives' : z > LeadSeconds + StaggerSeconds + cand'[1].budget
    BY <1>12, <2>3, <2>5
  <2> QED
    BY <1>9, <1>10, <2>6 DEF Reserve
<1> QED
  BY <1>1, <1>11, <1>12

LEMMA KeptKept ==
    ASSUME PoolTypes, strategy = "parallel", Kept, ParallelNext
    PROVE  Kept'
<1>1. SUFFICES ASSUME active', ~faulty' PROVE Manned' /\ RoomLeft' /\ Reserve'
  BY DEF Kept
<1>2. CASE PoolStart
  <2>1. /\ mgr = "new" /\ mgr' = "remove" /\ UNCHANGED <<tunnels, cand, notified>>
    BY <1>2 DEF PoolStart
  <2>2. tunnels = << >> /\ cand = << >> /\ ~notified
    BY <2>1 DEF PoolTypes
  <2>3. Len(<< >>) = 0
    OBVIOUS
  <2>4. Manned'
    BY <2>1, <2>2 DEF Manned, AllUp
  <2>5. RoomLeft'
    BY <2>1, <2>2, <2>3, Numbers DEF RoomLeft
  <2>6. Reserve'
    BY <2>1, <2>2 DEF Reserve
  <2> QED
    BY <2>4, <2>5, <2>6
<1>3. CASE PoolStop
  BY <1>1, <1>3 DEF PoolStop
<1>4. CASE RemoveClosedConnections
  <2>1. active /\ ~faulty
    BY <1>1, <1>4 DEF RemoveClosedConnections
  <2> QED
    BY <1>4, <2>1, RemoveKeeps
<1>5. CASE ParallelMissing
  <2>1. active /\ ~faulty /\ mgr = "missing" /\ UNCHANGED <<tunnels, notified, lastSpawn>>
    BY <1>1, <1>5 DEF ParallelMissing
  <2>2. CASE mgr' = "check"
    <3>1. UNCHANGED cand
      BY <1>5, <2>2 DEF ParallelMissing
    <3>2. Manned /\ RoomLeft /\ Reserve
      BY <2>1 DEF Kept
    <3>3. tunnels # << >> => \E x \in Lives(tunnels) : x > LeadSeconds
      BY <1>5, <2>1, <2>2, WaitKeeps
    <3>4. Manned'
      BY <2>1, <2>2, <3>2 DEF Manned, AllUp
    <3>5. RoomLeft'
      BY <2>1, <3>1, <3>2 DEF RoomLeft, AllLives, Lives
    <3>6. Lives(tunnels)' = Lives(tunnels) /\ tunnels' = tunnels /\ lastSpawn' = lastSpawn
      BY <2>1 DEF Lives
    <3>7. Reserve'
      BY <2>1, <2>2, <3>2, <3>3, <3>6 DEF Reserve
    <3> QED
      BY <3>4, <3>5, <3>7
  <2>3. CASE mgr' # "check"
    BY <1>5, <2>1, <2>3, SpawnKeeps
  <2> QED
    BY <2>2, <2>3
<1>6. CASE AddConnection
  <2>1. active /\ ~faulty
    BY <1>1, <1>6 DEF AddConnection
  <2> QED
    BY <1>6, <2>1, AddKeeps
<1>7. CASE Second
  <2>1. active /\ ~faulty
    BY <1>1, <1>7 DEF Second
  <2> QED
    BY <1>7, <2>1, SecondKeeps
<1>8. CASE CreateFailed \/ CandLost \/ TunnelLost
  BY <1>1, <1>8 DEF CreateFailed, CandLost, TunnelLost
<1>9. CASE RunEventLoop
  BY <1>1, <1>9 DEF RunEventLoop
<1>10. CASE ConnectionReady \/ IsPoolEmpty \/ NotifyConnectedOnce
  <2>1. /\ UNCHANGED <<tunnels, cand, faulty, lastSpawn>> /\ active
        /\ \/ mgr = "creating" /\ mgr' = "commit" /\ IsUp(cand[1]) /\ notified' = notified
           \/ mgr = "check" /\ mgr' = "notify" /\ notified' = notified
           \/ mgr = "notify" /\ mgr' = "sleep" /\ notified' = (notified \/ UpTunnel)
    BY <1>1, <1>10 DEF ConnectionReady, IsPoolEmpty, NotifyConnectedOnce
  <2>2. Manned /\ RoomLeft /\ Reserve
    BY <1>1, <2>1 DEF Kept
  <2>3. UpTunnel => tunnels # << >>
    BY DEF UpTunnel
  <2>4. ASSUME mgr = "creating", IsUp(cand[1]) PROVE AllUp(cand)
    BY <2>4, ConnectionsAre DEF AllUp
  <2>5. Manned'
    <3>1. notified' => tunnels' # << >>
      BY Zenon, <2>1, <2>2, <2>3 DEF Manned
    <3>2. AllUp(tunnels') /\ mgr' # "missing"
      BY <2>1, <2>2 DEF Manned, AllUp
    <3>3. mgr' = "commit" => AllUp(cand')
      BY <2>1, <2>4 DEF AllUp
    <3> QED
      BY <3>1, <3>2, <3>3 DEF Manned
  <2>6. Lives(tunnels)' = Lives(tunnels) /\ AllLives' = AllLives
    BY <2>1 DEF Lives, AllLives
  <2>7. RoomLeft'
    BY <2>1, <2>2, <2>6 DEF RoomLeft
  <2>8. Reserve'
    BY <2>1, <2>2, <2>6 DEF Reserve
  <2> QED
    BY <2>5, <2>7, <2>8
<1>11. CASE CandUp
  <2>1. /\ cand # << >> /\ cand' = << [cand[1] EXCEPT !.st = "up"] >>
        /\ UNCHANGED <<tunnels, active, mgr, notified, lastSpawn, faulty>>
    BY <1>11 DEF CandUp
  <2>2. /\ DOMAIN cand' = {1} /\ DOMAIN cand = {1} /\ Len(cand') = 1 /\ Len(cand) = 1
        /\ cand'[1].life = cand[1].life /\ cand'[1].budget = cand[1].budget
        /\ cand'[1].st = "up"
    BY <2>1, CandChange
  <2>3. Manned /\ RoomLeft /\ Reserve
    BY <1>1, <2>1 DEF Kept
  <2>4. AllUp(cand')
    BY <2>2 DEF AllUp, IsUp
  <2>5. Manned'
    BY <2>1, <2>3, <2>4 DEF Manned, AllUp
  <2>6. Lives(tunnels)' = Lives(tunnels) /\ AllLives' = AllLives
    BY <2>1, <2>2 DEF Lives, AllLives
  <2>7. RoomLeft'
    BY <2>1, <2>2, <2>3, <2>6 DEF RoomLeft
  <2>8. Reserve'
    BY <2>1, <2>2, <2>3, <2>6 DEF Reserve
  <2> QED
    BY <2>5, <2>7, <2>8
<1> QED
  BY <1>2, <1>3, <1>4, <1>5, <1>6, <1>7, <1>8, <1>9, <1>10, <1>11 DEF ParallelNext

-----------------------------------------------------------------------------
LEMMA ParallelStep ==
    ASSUME ParallelInv, [PoolNext]_poolVars
    PROVE  ParallelInv'
<1>1. strategy' = strategy
  BY StrategyStays DEF poolVars
<1>2. SUFFICES ASSUME strategy = "parallel" PROVE PoolTypes' /\ Spaced' /\ Kept'
  BY <1>1 DEF ParallelInv
<1>3. PoolTypes /\ Spaced /\ Kept
  BY <1>2 DEF ParallelInv
<1>4. CASE PoolNext
  <2>1. ParallelNext
    BY <1>2, <1>3, <1>4, ParallelSteps
  <2> QED
    BY <1>2, <1>3, <2>1, PoolTypesKept, SpacedKept, KeptKept
<1>5. CASE UNCHANGED poolVars
  <2>1. UNCHANGED <<strategy, active, tunnels, cand, lastSpawn, mgr, notified, faulty>>
    BY <1>5 DEF poolVars
  <2>2. PoolTypes'
    BY <1>3, <2>1 DEF PoolTypes
  <2>3. Spaced'
    BY <1>3, <2>1 DEF Spaced, Apart
  <2>4. Lives(tunnels)' = Lives(tunnels) /\ AllLives' = AllLives
    BY <2>1 DEF Lives, AllLives
  <2>5. (Manned => Manned') /\ (RoomLeft => RoomLeft') /\ (Reserve => Reserve')
    BY <2>1, <2>4 DEF Manned, AllUp, RoomLeft, Reserve
  <2> QED
    BY <1>3, <2>1, <2>2, <2>3, <2>5 DEF Kept
<1> QED
  BY <1>4, <1>5

(* Ageing connections are replaced without a gap and not all at once:      *)
(* RollingTunnel swaps when the new one is up, ParallelTunnels opens a     *)
(* replacement a lead before the close and spaces the closes.  For every   *)
(* number of connections, lifetime, pause and lead that leave room.        *)
THEOREM TunnelIsKept == PoolSpec => []TunnelKept
<1> DEFINE Inv == strategy \in Kinds /\ RollInv /\ ParallelInv
<1>1. PoolInit => Inv
  BY RollInitially, ParallelInitially DEF PoolInit
<1>2. Inv /\ [PoolNext]_poolVars => Inv'
  <2>1. [PoolNext]_poolVars => strategy' = strategy
    BY StrategyStays DEF poolVars
  <2> QED
    BY <2>1, RollStep, ParallelStep
<1>3. Inv => TunnelKept
  <2>1. SUFFICES ASSUME Inv PROVE AlwaysATunnel /\ ClosedOneAtATime
    BY DEF TunnelKept
  <2>2. strategy \in {"rolling", "parallel", "mimicry"}
    BY <2>1, StrategyKindsAssumption
  <2>3. CASE strategy = "rolling"
    BY <2>1, <2>3 DEF RollInv, RollUp, AllUp, AlwaysATunnel, UpTunnel, ClosedOneAtATime
  <2>4. CASE strategy = "mimicry"
    BY <2>4 DEF AlwaysATunnel, ClosedOneAtATime
  <2>5. CASE strategy = "parallel"
    <3>1. PoolTypes /\ Spaced /\ Kept
      BY <2>1, <2>5 DEF ParallelInv
    <3>2. AlwaysATunnel
      <4>1. SUFFICES ASSUME active, notified, ~faulty PROVE UpTunnel
        BY DEF AlwaysATunnel
      <4>2. AllUp(tunnels) /\ tunnels # << >>
        BY <3>1, <4>1 DEF Kept, Manned
      <4>3. 1 \in DOMAIN tunnels
        BY <3>1, <4>2, ConnectionsAre
      <4> QED
        BY <4>2, <4>3 DEF AllUp, UpTunnel
    <3>3. ClosedOneAtATime
      <4>1. SUFFICES ASSUME NEW i \in DOMAIN tunnels, NEW j \in DOMAIN tunnels, i # j,
                            tunnels[i].life > LeadSeconds, tunnels[j].life >= tunnels[i].life
                     PROVE  tunnels[j].life - tunnels[i].life > StaggerSeconds
        BY DEF ClosedOneAtATime
      <4>2. tunnels[i].life \in Nat /\ tunnels[j].life \in Nat
        BY <3>1, ConnectionsAre, MortalIs, Numbers
      <4>3. Apart(tunnels[i].life, tunnels[j].life)
        BY <3>1, <4>1 DEF Spaced
      <4> QED
        BY <4>1, <4>2, <4>3, Numbers DEF Apart
    <3> QED
      BY <3>2, <3>3
  <2> QED
    BY <2>2, <2>3, <2>4, <2>5
<1> QED
  BY <1>1, <1>2, <1>3, PTL DEF PoolSpec
=============================================================================
