----------------------------- MODULE Strategies -----------------------------
(***************************************************************************)
(* The strategies that replace their connections as they age:              *)
(* RollingTunnel, ParallelTunnels (DualTunnel, TripleTunnel) and           *)
(* BrowserMimicry, each a coroutine on the thread that called Start.       *)
(* PersistentTunnel is part of ConnectionManager.                          *)
(*                                                                         *)
(* A connection is a WebsocketClient seen from outside: connecting, up     *)
(* (IsStarted) or lost (IsStopped).  Times count down in seconds.          *)
(***************************************************************************)
EXTENDS Integers, Sequences, FiniteSets, FiniteSetsExt

CONSTANTS
    Kinds,            \* the strategies to run: of "rolling", "parallel", "mimicry"
    ConnectionCount,  \* of ParallelTunnels
    LifetimeSeconds,  \* of a connection of ParallelTunnels; kRenewAfterSeconds
    StaggerSeconds,   \* between two connections of ParallelTunnels
    LeadSeconds,      \* kReplacementLeadSeconds, kReplacementLead
    ConnectBudget,    \* how long CreateNewConnection waits
    TargetPerType,    \* BrowserMimicry: half of min_connections
    MaxConnections,   \* BrowserMimicry: max_connections
    SendRange,        \* sending_mode_range, in seconds
    MinSendingSeconds,\* min_sending_seconds
    TtlRange          \* connection_ttl_range, in seconds

ASSUME StrategyKindsAssumption == Kinds \subseteq {"rolling", "parallel", "mimicry"}
ASSUME ConnectionCountAssumption == ConnectionCount \in Nat \ {0, 1}
ASSUME LifetimeAssumption == LifetimeSeconds \in Nat \ {0} /\ ConnectBudget \in Nat

SlotSeconds == LifetimeSeconds \div ConnectionCount

(* The numbers of DualTunnel and TripleTunnel (2 or 3 connections, 600 s,  *)
(* one every 30 s, 2 s of lead, 5 s to connect) leave room: a replacement  *)
(* is up within its slot, and every gap that is halved is wide enough.     *)
ASSUME SpacingAssumption ==
    /\ StaggerSeconds \in Nat /\ LeadSeconds \in Nat \ {0}
    /\ LeadSeconds + StaggerSeconds + ConnectBudget < SlotSeconds
    /\ 2 * LeadSeconds <= LifetimeSeconds - SlotSeconds
    /\ ConnectionCount * (2 * StaggerSeconds + 1) <= LifetimeSeconds - SlotSeconds

VARIABLES
    strategy,   \* the strategy in use
    active,     \* running_
    tunnels,    \* connections_, all_connections_; or the one active_connection_
    cand,       \* the connection under way: << >> or << connection >>
    missing,    \* BrowserMimicry: connections still to create in this round
    lastSpawn,  \* seconds since the last one was added, up to StaggerSeconds
    mgr,        \* where the managing coroutine is
    notified,   \* connected_notified_
    faulty      \* a connection was lost or could not be made

poolVars == <<strategy, active, tunnels, cand, missing, lastSpawn, mgr, notified, faulty>>

-----------------------------------------------------------------------------
(* A new connection with so long to live, and to send.                     *)
ConnectionContext(ttl, send) ==
    [st |-> "connecting", life |-> ttl, send |-> send, budget |-> ConnectBudget,
     status |-> "creating"]

IsUp(x) == x.st = "up"

UpTunnel == \E i \in DOMAIN tunnels : IsUp(tunnels[i])

-----------------------------------------------------------------------------
(* ParallelTunnels::NextLifetimeSeconds                                    *)

(* When the connections are due to be closed.  The code sorts a list of    *)
(* these seconds; one that is there twice leaves a gap of 0, which is never *)
(* the widest, so that their set decides.                                  *)
Due == {tunnels[i].life : i \in DOMAIN tunnels} \cap 1..LifetimeSeconds

(* The gap before a scheduled close, and the first widest of them.         *)
Previous(t) == Max({s \in Due \cup {0} : s < t})
Gap(t) == t - Previous(t)
WidestGap ==
    CHOOSE t \in Due : \A u \in Due : Gap(u) < Gap(t) \/ (Gap(u) = Gap(t) /\ t <= u)

(* Wrong variant: every connection gets the full lifetime.                 *)
NextLifetimeSeconds_Full == LifetimeSeconds

NextLifetimeSeconds ==
    CASE Due = {} -> SlotSeconds
      [] Due # {} /\ Max(Due) + SlotSeconds <= LifetimeSeconds -> Max(Due) + SlotSeconds
      [] OTHER -> Previous(WidestGap) + Gap(WidestGap) \div 2

-----------------------------------------------------------------------------
PoolInit ==
    /\ strategy \in Kinds
    /\ active = FALSE /\ notified = FALSE /\ faulty = FALSE
    /\ tunnels = << >> /\ cand = << >> /\ missing = << >>
    /\ lastSpawn = StaggerSeconds
    /\ mgr = "new"

(* Start spawns the coroutine and runs its event loop.                     *)
PoolStart ==
    /\ mgr = "new"
    /\ active' = TRUE
    /\ mgr' = "remove"
    /\ UNCHANGED <<strategy, tunnels, cand, missing, lastSpawn, notified, faulty>>

(* RunEventLoop leaves, and Start returns, once running_ is false; whatever*)
(* the coroutine was waiting for is not resumed.                           *)
RunEventLoop ==
    /\ ~active /\ mgr \in {"sleep", "creating", "over"}
    /\ mgr' = "returned"
    /\ UNCHANGED <<strategy, active, tunnels, cand, missing, lastSpawn, notified, faulty>>

(* Stop, from another thread.  A step of the coroutine that has begun goes *)
(* on to its next wait.                                                    *)
PoolStop ==
    /\ active
    /\ active' = FALSE
    /\ tunnels' = << >>
    /\ UNCHANGED <<strategy, cand, missing, lastSpawn, mgr, notified, faulty>>

-----------------------------------------------------------------------------
(* The beginning of a round                                                *)

(* Those for which ok holds stay, in their order.                          *)
Keep(ok(_)) ==
    LET kept == {i \in DOMAIN tunnels : ok(tunnels[i])}
    IN  \E f \in [1..Cardinality(kept) -> kept] :
           /\ \A i, j \in DOMAIN f : i < j => f[i] < f[j]
           /\ tunnels' = [i \in DOMAIN f |-> tunnels[f[i]]]

(* RollingTunnel::ManageCoroutine                                          *)
RollingManage ==
    /\ strategy = "rolling" /\ mgr = "remove"
    /\ IF \E i \in DOMAIN tunnels : tunnels[i].st = "lost"
       THEN active' = FALSE /\ mgr' = "over" /\ UNCHANGED cand
       ELSE /\ IF tunnels = << >> \/ tunnels[1].life = 0
               THEN cand' = << ConnectionContext(LifetimeSeconds, 0) >> /\ mgr' = "creating"
               ELSE mgr' = "notify" /\ UNCHANGED cand
            /\ UNCHANGED active
    /\ UNCHANGED <<strategy, tunnels, missing, lastSpawn, notified, faulty>>

(* ParallelTunnels::RemoveClosedConnections                                *)
RemoveClosedConnections ==
    /\ strategy = "parallel" /\ mgr = "remove"
    /\ Keep(LAMBDA x : x.st # "lost" /\ x.life > 0)
    /\ mgr' = "missing"
    /\ UNCHANGED <<strategy, active, cand, missing, lastSpawn, notified, faulty>>

(* ParallelTunnels::CreateMissingConnections                               *)
ParallelMissing ==
    /\ strategy = "parallel" /\ mgr = "missing"
    /\ LET healthy == {i \in DOMAIN tunnels : IsUp(tunnels[i]) /\ tunnels[i].life > LeadSeconds}
       IN  IF \/ ~active
              \/ Cardinality(healthy) >= ConnectionCount
              \/ Len(tunnels) >= ConnectionCount + 1
              \/ lastSpawn < StaggerSeconds
           THEN mgr' = "check" /\ UNCHANGED cand
           ELSE cand' = << ConnectionContext(NextLifetimeSeconds, 0) >> /\ mgr' = "creating"
    /\ UNCHANGED <<strategy, active, tunnels, missing, lastSpawn, notified, faulty>>

(* BrowserMimicry::RemoveExpiredConnections looks at the age only: kError  *)
(* is a status that nothing but Stop sets.                                 *)
RemoveExpiredConnections ==
    /\ strategy = "mimicry" /\ mgr = "remove"
    /\ Keep(LAMBDA x : x.life > 0)
    /\ mgr' = "status"
    /\ UNCHANGED <<strategy, active, cand, missing, lastSpawn, notified, faulty>>

(* BrowserMimicry::UpdateConnectionsStatus                                 *)
UpdateConnectionsStatus ==
    /\ strategy = "mimicry" /\ mgr = "status"
    /\ tunnels' = [i \in DOMAIN tunnels |->
          LET x == tunnels[i]
          IN  CASE x.status = "sending" /\ x.send = 0 -> [x EXCEPT !.status = "receiving"]
                [] x.status = "creating" /\ IsUp(x) ->
                     [x EXCEPT !.status = IF x.send > 0 THEN "sending" ELSE "receiving"]
                [] OTHER -> x]
    /\ mgr' = "missing"
    /\ UNCHANGED <<strategy, active, cand, missing, lastSpawn, notified, faulty>>

Shortfall(n) == IF n >= TargetPerType THEN 0 ELSE TargetPerType - n

(* BrowserMimicry::CreateMissingConnections counts first ...               *)
MimicryMissing ==
    /\ strategy = "mimicry" /\ mgr = "missing"
    /\ LET of(s) == {i \in DOMAIN tunnels : tunnels[i].status = s}
           sending == {i \in of("sending") : tunnels[i].send > LeadSeconds}
           receiving == {i \in of("receiving") : tunnels[i].life > LeadSeconds}
           need == [i \in 1..Shortfall(Cardinality(sending)) |-> "sending"]
                     \o [i \in 1..Shortfall(Cardinality(receiving)) |-> "receiving"]
       IN  IF active THEN missing' = need /\ mgr' = "fill"
           ELSE mgr' = "check" /\ UNCHANGED missing
    /\ UNCHANGED <<strategy, active, tunnels, cand, lastSpawn, notified, faulty>>

(* ... and then creates one after the other, up to the limit.              *)
MimicryFill ==
    /\ mgr = "fill"
    /\ IF missing = << >> \/ Len(tunnels) >= MaxConnections
       THEN mgr' = "check" /\ UNCHANGED <<cand, missing>>
       ELSE /\ \E ttl \in TtlRange :
                  \E send \in IF Head(missing) = "sending" THEN SendRange ELSE {MinSendingSeconds} :
                     cand' = << ConnectionContext(ttl, send) >>
            /\ missing' = Tail(missing)
            /\ mgr' = "creating"
    /\ UNCHANGED <<strategy, active, tunnels, lastSpawn, notified, faulty>>

-----------------------------------------------------------------------------
(* CreateNewConnection, the same loop in all three                         *)

AfterCreate == IF strategy = "mimicry" THEN "fill" ELSE "check"

(* The new connection is up: RollingTunnel swaps it in, the others add it. *)
ConnectionReady ==
    /\ mgr = "creating" /\ active
    /\ IsUp(cand[1])
    /\ mgr' = "commit"
    /\ UNCHANGED <<strategy, active, tunnels, cand, missing, lastSpawn, notified, faulty>>

(* Wrong variant: the old connection is dropped first.                     *)
RenewConnection_DropFirst ==
    /\ mgr = "commit" /\ strategy = "rolling"
    /\ tunnels' = IF tunnels = << >> THEN cand ELSE << >>
    /\ cand' = << >>
    /\ mgr' = "notify"
    /\ UNCHANGED <<strategy, active, missing, lastSpawn, notified, faulty>>

(* RollingTunnel::RenewConnection; Stop may have been here already.        *)
RenewConnection ==
    /\ mgr = "commit" /\ strategy = "rolling"
    /\ tunnels' = cand
    /\ cand' = << >>
    /\ mgr' = "notify"
    /\ UNCHANGED <<strategy, active, missing, lastSpawn, notified, faulty>>

AddConnection ==
    /\ mgr = "commit" /\ strategy # "rolling"
    /\ tunnels' = tunnels \o cand
    /\ cand' = << >>
    /\ lastSpawn' = IF strategy = "parallel" THEN 0 ELSE lastSpawn
    /\ mgr' = AfterCreate
    /\ UNCHANGED <<strategy, active, missing, notified, faulty>>

(* It failed or took too long: RollingTunnel ends, the others go on with   *)
(* what they have.                                                         *)
CreateFailed ==
    /\ mgr = "creating" /\ active
    /\ cand[1].st = "lost" \/ (cand[1].st = "connecting" /\ cand[1].budget = 0)
    /\ cand' = << >>
    /\ missing' = << >>
    /\ faulty' = TRUE
    /\ IF strategy = "rolling" THEN active' = FALSE /\ mgr' = "over"
       ELSE mgr' = "check" /\ UNCHANGED active
    /\ UNCHANGED <<strategy, tunnels, lastSpawn, notified>>

(* Wrong variant: an empty pool waits for better times.                    *)
IsPoolEmpty_GoesOn ==
    /\ mgr = "check"
    /\ mgr' = "notify"
    /\ UNCHANGED <<strategy, active, tunnels, cand, missing, lastSpawn, notified, faulty>>

(* IsPoolEmpty ends the strategy: ConnectionManager will reconnect.        *)
IsPoolEmpty ==
    /\ mgr = "check"
    /\ IF tunnels = << >> THEN active' = FALSE /\ mgr' = "over"
       ELSE mgr' = "notify" /\ UNCHANGED active
    /\ UNCHANGED <<strategy, tunnels, cand, missing, lastSpawn, notified, faulty>>

NotifyConnectedOnce ==
    /\ mgr = "notify"
    /\ notified' = (notified \/ UpTunnel)
    /\ mgr' = "sleep"
    /\ UNCHANGED <<strategy, active, tunnels, cand, missing, lastSpawn, faulty>>

-----------------------------------------------------------------------------
(* The network                                                             *)

CandUp ==
    /\ cand # << >> /\ cand[1].st = "connecting"
    /\ cand' = << [cand[1] EXCEPT !.st = "up"] >>
    /\ UNCHANGED <<strategy, active, tunnels, missing, lastSpawn, mgr, notified, faulty>>

CandLost ==
    /\ cand # << >> /\ cand[1].st # "lost"
    /\ cand' = << [cand[1] EXCEPT !.st = "lost"] >>
    /\ faulty' = TRUE
    /\ UNCHANGED <<strategy, active, tunnels, missing, lastSpawn, mgr, notified>>

TunnelLost ==
    /\ \E i \in DOMAIN tunnels :
          IsUp(tunnels[i]) /\ tunnels' = [tunnels EXCEPT ![i].st = "lost"]
    /\ faulty' = TRUE
    /\ UNCHANGED <<strategy, active, cand, missing, lastSpawn, mgr, notified>>

Less(n) == IF n > 0 THEN n - 1 ELSE 0
Older(s) == [i \in DOMAIN s |->
               [s[i] EXCEPT !.life = Less(@), !.send = Less(@), !.budget = Less(@)]]

(* A second passes while the coroutine sleeps or waits for a connection.   *)
Second ==
    /\ active
    /\ \/ mgr = "sleep" /\ mgr' = "remove"
       \/ /\ mgr = "creating" /\ cand[1].st = "connecting" /\ cand[1].budget > 0
          /\ UNCHANGED mgr
    /\ tunnels' = Older(tunnels)
    /\ cand' = Older(cand)
    /\ lastSpawn' = IF lastSpawn < StaggerSeconds THEN lastSpawn + 1 ELSE lastSpawn
    /\ UNCHANGED <<strategy, active, missing, notified, faulty>>

Manage ==
    \/ RollingManage \/ RenewConnection
    \/ RemoveClosedConnections \/ ParallelMissing
    \/ RemoveExpiredConnections \/ UpdateConnectionsStatus
    \/ MimicryMissing \/ MimicryFill
    \/ ConnectionReady \/ AddConnection \/ CreateFailed
    \/ IsPoolEmpty \/ NotifyConnectedOnce \/ RunEventLoop \/ Second

PoolNext == PoolStart \/ PoolStop \/ Manage \/ CandUp \/ CandLost \/ TunnelLost

PoolSpec == PoolInit /\ [][PoolNext]_poolVars

(* The event loop polls; a connection that is up or lost stays so.         *)
FairPoolSpec == PoolSpec /\ WF_poolVars(Manage)

-----------------------------------------------------------------------------
(* Properties                                                              *)

(* Replacing connections as they age never leaves the tunnel without one:  *)
(* once connected, and while the network does its part, Send finds a       *)
(* connection that is up.                                                  *)
AlwaysATunnel ==
    strategy # "mimicry" /\ active /\ notified /\ ~faulty => UpTunnel

(* The pool of ParallelTunnels keeps closing its sockets one at a time     *)
(* instead of all at once: two of them are due further apart than they     *)
(* were opened, so a replacement fits between the two closes.              *)
ClosedOneAtATime ==
    strategy = "parallel" /\ ~faulty =>
       \A i, j \in DOMAIN tunnels :
          i # j /\ tunnels[i].life > LeadSeconds /\ tunnels[j].life >= tunnels[i].life
             => tunnels[j].life - tunnels[i].life > StaggerSeconds

(* Ageing connections are replaced without a gap and not all at once.      *)
TunnelKept == AlwaysATunnel /\ ClosedOneAtATime

(* No strategy sits on dead connections for ever: either one comes up or   *)
(* Start returns, so that ConnectionManager can reconnect.                 *)
DeadPoolEnds ==
    (active /\ ~UpTunnel) ~>
       (UpTunnel \/ (cand # << >> /\ IsUp(cand[1])) \/ mgr = "returned")
=============================================================================
