-------------------------- MODULE VpnManagerProofs --------------------------
(***************************************************************************)
(* Proofs about ConnectionManager and about the VpnManager that drives it, *)
(* for any number of attempts, restarts and starts and any capacity of the *)
(* queue.                                                                  *)
(***************************************************************************)
EXTENDS VpnManager, TLAPS

-----------------------------------------------------------------------------
(* ConnectionManager                                                       *)

(***************************************************************************)
(* The inductive invariant.  Stop calls the strategy without the mutex, so *)
(* what keeps the strategy alive is who may clear it: Run only while       *)
(* running_ is set, and Stop clears running_ before it looks.              *)
(***************************************************************************)
InTunnel == {"create", "enable", "connect", "loop"}
InStop == {"strategy", "call", "join"}

(* Run counts an attempt only after it saw that one was left.              *)
AttemptLeft ==
    pc \in InTunnel \cup {"make", "begin", "after", "clean", "count"} =>
       attempts < MaxReconnections

(* What th_, Run and running_ say of each other.                           *)
ThreadAgrees ==
    /\ thread = "live" <=> pc # "none"
    /\ running /\ caller # "terminated" => thread = "live"
    /\ thread = "live" => running \/ caller \in InStop
    /\ caller \in InStop \cup {"reset", "destroyed"} => ~running
    /\ caller \in InStop \cup {"flag"} => thread # "none"
    /\ caller \in {"reset", "destroyed"} => thread = "none"
    /\ caller = "terminated" => thread = "ended"

(* When there is a strategy, and when there is none.                       *)
StrategyKnown ==
    /\ running /\ pc \in {"none", "top", "make", "count", "end"} => strategy = Null
    /\ thread = "none" /\ caller # "reset" => strategy = Null
    /\ thread = "ended" /\ caller \notin InStop => strategy = Null
    /\ caller = "call" => strategy # Null
    /\ mutex => running /\ strategy # Null
    /\ pc \in InTunnel => strategy # Null

ConnInv == ConnTypeOK /\ AttemptLeft /\ ThreadAgrees /\ StrategyKnown

USE DEF InTunnel, InStop

(* ConnInv holds when the manager is built.                                *)
LEMMA ConnInitInv == ConnInit => ConnInv
<1> SUFFICES ASSUME ConnInit PROVE ConnInv  OBVIOUS
<1> USE MaxReconnectionsType, MaxStartsType DEF ConnInit
<1>1. ConnTypeOK
  <2>1. 0 \in 0..MaxReconnections /\ 0 \in 0..MaxStarts  OBVIOUS
  <2>2. Null \in Strategy \cup {Null}  OBVIOUS
  <2> QED BY <2>1, <2>2 DEF ConnTypeOK
<1>2. AttemptLeft  BY DEF AttemptLeft
<1>3. ThreadAgrees  BY DEF ThreadAgrees
<1>4. StrategyKnown  BY DEF StrategyKnown
<1> QED BY <1>1, <1>2, <1>3, <1>4 DEF ConnInv

(* A step that changes nothing keeps ConnInv.                              *)
LEMMA ConnStutter == ConnInv /\ UNCHANGED connVars => ConnInv'
BY DEF connVars, ConnInv, ConnTypeOK, AttemptLeft, ThreadAgrees, StrategyKnown

(* Start, the steps of Stop and the destructor keep ConnInv.               *)
LEMMA OwnerKeepsInv ==
    ASSUME ConnInv, (~running /\ Start) \/ StopCheck \/ StopStep \/ Destroy
    PROVE  ConnInv'
<1> USE MaxReconnectionsType, MaxStartsType
         DEF ConnInv, ConnTypeOK, AttemptLeft, ThreadAgrees, StrategyKnown
<1>1. CASE ~running /\ Start  BY <1>1 DEF Start
<1>2. CASE StopCheck  BY <1>2 DEF StopCheck
<1>3. CASE StopFlag  BY <1>3 DEF StopFlag
<1>4. CASE StopLook  BY <1>4 DEF StopLook
<1>5. CASE StopCall
  <2>1. strategy \in Strategy  BY <1>5 DEF StopCall
  <2>2. strategy' \in Strategy
    BY <1>5, <2>1 DEF StopCall, Halted, Strategy, WsStates
  <2>3. strategy' # Null  BY <2>2, NullIsNoStrategy
  <2> QED BY <1>5, <2>2, <2>3 DEF StopCall
<1>6. CASE StopJoin  BY <1>6 DEF StopJoin
<1>7. CASE StopReset  BY <1>7 DEF StopReset
<1>8. CASE Destroy  BY <1>8 DEF Destroy
<1> QED BY <1>1, <1>2, <1>3, <1>4, <1>5, <1>6, <1>7, <1>8 DEF StopStep

(* Inside PersistentTunnel::Start there is a strategy, and updating its    *)
(* flags leaves a strategy.                                                *)
LEMMA StrategyUpdate ==
    /\ \A s \in Strategy, b \in BOOLEAN : [s EXCEPT !.running = b] \in Strategy
    /\ \A s \in Strategy, w \in WsStates : [s EXCEPT !.ws = w] \in Strategy
    /\ \A s \in Strategy : s # Null
BY NullIsNoStrategy DEF Strategy

(* Sending keeps ConnInv.                                                  *)
LEMMA SendKeepsInv ==
    ASSUME ConnInv, SendBegin \/ SendEnd
    PROVE  ConnInv'
BY DEF ConnInv, ConnTypeOK, AttemptLeft, ThreadAgrees, StrategyKnown,
       SendBegin, SendEnd

(* A coroutine of the websocket keeps ConnInv.                             *)
LEMMA WsKeepsInv ==
    ASSUME ConnInv, NEW from, NEW to \in WsStates, WsStep(from, to)
    PROVE  ConnInv'
<1>1. strategy \in Strategy  BY DEF ConnInv, ConnTypeOK, StrategyKnown, WsStep
<1>2. strategy' \in Strategy /\ strategy' # Null
  BY <1>1, StrategyUpdate DEF WsStep
<1> QED BY <1>1, <1>2, StrategyUpdate
        DEF ConnInv, ConnTypeOK, AttemptLeft, ThreadAgrees, StrategyKnown, WsStep

(* Every step of Run, PersistentTunnel::Start included, keeps ConnInv.     *)
LEMMA RunKeepsInv ==
    ASSUME ConnInv, RunStep
    PROVE  ConnInv'
<1> USE MaxReconnectionsType
         DEF ConnInv, ConnTypeOK, AttemptLeft, ThreadAgrees, StrategyKnown, At
<1>1. CASE RunTop  BY <1>1 DEF RunTop
<1>2. CASE RunMake
  <2>1. [running |-> FALSE, ws |-> "none"] \in Strategy  BY DEF Strategy, WsStates
  <2> QED BY <1>2, <2>1, StrategyUpdate DEF RunMake
<1>3. CASE RunBegin  BY <1>3 DEF RunBegin
<1>4. CASE TunnelCreate \/ TunnelEnable \/ TunnelConnect \/ TunnelLeave
  <2>1. strategy \in Strategy
    BY <1>4 DEF TunnelCreate, TunnelEnable, TunnelConnect, TunnelLeave
  <2>2. strategy' \in Strategy /\ strategy' # Null
    BY <1>4, <2>1, StrategyUpdate
       DEF TunnelCreate, TunnelEnable, TunnelConnect, TunnelLeave, WsStates
  <2> QED BY <1>4, <2>1, <2>2
          DEF TunnelCreate, TunnelEnable, TunnelConnect, TunnelLeave
<1>5. CASE RunAfter  BY <1>5 DEF RunAfter
<1>6. CASE RunClean  BY <1>6 DEF RunClean
<1>7. CASE RunCount  BY <1>7 DEF RunCount
<1>8. CASE RunEnd  BY <1>8 DEF RunEnd
<1> QED BY <1>1, <1>2, <1>3, <1>4, <1>5, <1>6, <1>7, <1>8 DEF RunStep

(* ConnInv is an invariant of the manager.                                 *)
THEOREM ConnInvariant == ConnSpec => []ConnInv
<1>1. ASSUME ConnInv, ConnNext  PROVE ConnInv'
  <2>1. CASE (~running /\ Start) \/ StopCheck \/ StopStep \/ Destroy
    BY <1>1, <2>1, OwnerKeepsInv
  <2>2. CASE SendBegin \/ SendEnd  BY <1>1, <2>2, SendKeepsInv
  <2>3. CASE RunStep  BY <1>1, <2>3, RunKeepsInv
  <2>4. CASE WsConnected \/ WsConnectFailed \/ WsLost \/ WsWatchdog
    <3>1. {"up", "lost", "stopped"} \subseteq WsStates  BY DEF WsStates
    <3> QED BY <1>1, <2>4, <3>1, WsKeepsInv
            DEF WsConnected, WsConnectFailed, WsLost, WsWatchdog
  <2> QED BY <1>1, <2>1, <2>2, <2>3, <2>4 DEF ConnNext
<1>2. ConnInv /\ [ConnNext]_connVars => ConnInv'  BY <1>1, ConnStutter
<1> QED BY <1>2, ConnInitInv, PTL DEF ConnSpec

(* Every variable of the manager keeps its type; reconnection_attempts_    *)
(* in particular never passes max_reconnections.                           *)
THEOREM ConnTypeCorrect == ConnSpec => []ConnTypeOK
<1>1. ConnInv => ConnTypeOK  BY DEF ConnInv
<1> QED BY <1>1, ConnInvariant, PTL

(* Stop, Send and Run never use a strategy that another thread destroyed,  *)
(* although Stop reads and calls it without the mutex.                     *)
THEOREM StrategySafe == ConnSpec => []StrategyNotDestroyedInUse
<1>1. ConnInv => StrategyNotDestroyedInUse
  BY DEF ConnInv, StrategyKnown, StrategyNotDestroyedInUse
<1> QED BY <1>1, ConnInvariant, PTL

(* IsStarted is true only while Run's thread is there to act on it.        *)
THEOREM IsStartedTruthful == ConnSpec => []IsStartedIsTrue
<1>1. ConnInv => IsStartedIsTrue
  BY DEF ConnInv, ConnTypeOK, ThreadAgrees, IsStartedIsTrue
<1> QED BY <1>1, ConnInvariant, PTL

(* After a Stop that returned true, only Start brings the thread or the    *)
(* strategy back.                                                          *)
THEOREM StopIsQuiet == ConnSpec => QuietAfterStop
<1> DEFINE Quiet == caller = "idle" /\ thread = "none" /\ strategy = Null
           Kept == starts' > starts \/ (thread' = "none" /\ strategy' = Null)
<1>1. ConnInv /\ [ConnNext]_connVars => (Quiet => Kept)
  <2> SUFFICES ASSUME ConnInv, [ConnNext]_connVars, Quiet PROVE Kept  OBVIOUS
  <2>1. pc = "none" /\ ~running  BY DEF ConnInv, ConnTypeOK, ThreadAgrees
  <2>2. CASE Start
    BY <2>2 DEF Start, ConnInv, ConnTypeOK
  <2>3. CASE StopCheck \/ StopStep \/ Destroy \/ SendBegin \/ SendEnd
    BY <2>1, <2>3 DEF StopCheck, StopStep, StopFlag, StopLook, StopCall,
       StopJoin, StopReset, Destroy, SendBegin, SendEnd
  <2>4. CASE RunStep \/ WsConnected \/ WsConnectFailed \/ WsLost \/ WsWatchdog
    BY <2>1, <2>4 DEF RunStep, RunTop, RunMake, RunBegin, RunAfter, RunClean,
       RunCount, RunEnd, TunnelCreate, TunnelEnable, TunnelConnect, TunnelLeave,
       At, WsConnected, WsConnectFailed, WsLost, WsWatchdog, WsStep
  <2>5. CASE UNCHANGED connVars  BY <2>5 DEF connVars
  <2> QED BY <2>2, <2>3, <2>4, <2>5 DEF ConnNext
<1> QED BY <1>1, ConnInvariant, PTL DEF ConnSpec, QuietAfterStop

-----------------------------------------------------------------------------
(* VpnManager                                                              *)

Quiet == {"none", "ended"}

(* Where running_ of the ConnectionManager is known to be false: this is   *)
(* what makes the two calls of Start legal.                                *)
NotStarted ==
    /\ main \in {"idle", "tun", "client"} => ~running
    /\ supervisor \in {"stop", "backoff", "restart"} => ~running

(* How far Start and Stop have come tells which threads are there.         *)
MainOrder ==
    /\ main \in {"idle", "tun", "client", "threads"} =>
          supervisor = "none" /\ worker = "none"
    /\ main \in {"tunstop", "clientstop", "reset", "stopped"} =>
          supervisor \in Quiet /\ worker \in Quiet
    /\ main \in {"clientstop", "reset", "stopped"} =>
          tun = "gone" /\ reader = "idle"
    /\ main \in {"client", "threads"} => tun = "open"
    /\ main = "stopped" => caller \in {"destroyed", "terminated"}
    /\ vpn_running => main \in {"tun", "client", "threads", "up"}

(* Who holds mutex_ does so while running_ is set and finds the objects    *)
(* Stop drops afterwards.                                                  *)
HolderSafe ==
    /\ worker \notin Quiet => tun = "open"
    /\ worker = "sending" \/ reader = "sending" => vpn_running
    /\ caller = "destroyed" => main = "stopped"

VpnInv == VpnTypeOK /\ NotStarted /\ MainOrder /\ HolderSafe

USE DEF Quiet

(* VpnInv holds when the client is built.                                  *)
LEMMA VpnInitInv == VpnInit => VpnInv
<1> SUFFICES ASSUME VpnInit PROVE VpnInv  OBVIOUS
<1>1. VpnTypeOK
  <2>1. 0 \in 0..MaxQueueSize /\ 0 \in Nat  BY MaxQueueSizeType
  <2>2. FALSE \in BOOLEAN  OBVIOUS
  <2> QED BY <2>1, <2>2, Zenon DEF VpnInit, VpnTypeOK
<1>2. NotStarted /\ MainOrder /\ HolderSafe
  BY DEF VpnInit, ConnInit, NotStarted, MainOrder, HolderSafe
<1> QED BY <1>1, <1>2 DEF VpnInv

(* A step that changes nothing keeps VpnInv.                               *)
LEMMA VpnStutter == VpnInv /\ UNCHANGED clientVars => VpnInv'
BY DEF clientVars, connVars, vpnVars, VpnInv, VpnTypeOK, NotStarted, MainOrder,
       HolderSafe

(* Start and Stop keep VpnInv.                                             *)
LEMMA MainKeepsInv ==
    ASSUME VpnInv, StartFlag \/ StopClear \/ MainStep
    PROVE  VpnInv'
<1> USE DEF VpnInv, VpnTypeOK, NotStarted, MainOrder, HolderSafe, Main,
            connVars, supVars
<1>1. CASE StartFlag  BY <1>1 DEF StartFlag
<1>2. CASE StopClear
  <2>1. vpn_running' \in BOOLEAN /\ ~vpn_running'  BY <1>2 DEF StopClear
  <2> QED BY <1>2, <2>1 DEF StopClear, MutexFree
<1>3. CASE StartTun
  <2>1. routes' \in BOOLEAN  BY <1>3 DEF StartTun
  <2> QED BY <1>3, <2>1 DEF StartTun
<1>4. CASE StartTunFailed  BY <1>4 DEF StartTunFailed
<1>5. CASE StartClient  BY <1>5 DEF StartClient, Start
<1>6. CASE StartThreads  BY <1>6 DEF StartThreads
<1>7. CASE StopNotify  BY <1>7 DEF StopNotify
<1>8. CASE StopThreads  BY <1>8 DEF StopThreads
<1>9. CASE StopTun  BY <1>9 DEF StopTun
<1>10. CASE StopClient  BY <1>10 DEF StopClient, ClientStop, StopCheck
<1>11. CASE StopResetClient  BY <1>11 DEF StopResetClient, Destroy
<1> QED BY <1>1, <1>2, <1>3, <1>4, <1>5, <1>6, <1>7, <1>8, <1>9, <1>10, <1>11
        DEF MainStep

(* The supervisor keeps VpnInv.                                            *)
LEMMA SupKeepsInv ==
    ASSUME VpnInv, SupStep
    PROVE  VpnInv'
<1> USE DEF VpnInv, VpnTypeOK, NotStarted, MainOrder, HolderSafe, Sup,
            connVars, supVars
<1>1. CASE SupWake  BY <1>1 DEF SupWake
<1>2. CASE SupLook
  <2>1. reconnecting' \in BOOLEAN /\ ever_connected' \in BOOLEAN
    BY <1>2 DEF SupLook
  <2> QED BY <1>2, <2>1 DEF SupLook
<1>3. CASE SupDecide
  <2>1. routes' \in BOOLEAN /\ gave_up' \in BOOLEAN /\ reconnecting' \in BOOLEAN
    BY <1>3 DEF SupDecide
  <2> QED BY <1>3, <2>1 DEF SupDecide
<1>4. CASE SupStop
  <2>1. routes' \in BOOLEAN  BY <1>4 DEF SupStop
  <2> QED BY <1>4, <2>1 DEF SupStop, ClientStop, StopCheck
<1>5. CASE SupBackoff  BY <1>5 DEF SupBackoff
<1>6. CASE SupRestart  BY <1>6 DEF SupRestart, Start
<1> QED BY <1>1, <1>2, <1>3, <1>4, <1>5, <1>6 DEF SupStep

(* The worker and the handler that feeds it keep VpnInv.                   *)
LEMMA WorkKeepsInv ==
    ASSUME VpnInv, WorkStep \/ PacketFromWebSocket
    PROVE  VpnInv'
<1> USE MaxQueueSizeType
        DEF VpnInv, VpnTypeOK, NotStarted, MainOrder, HolderSafe, Work,
            connVars, supVars
<1>1. CASE WorkTop  BY <1>1 DEF WorkTop
<1>2. CASE WorkTest  BY <1>2 DEF WorkTest
<1>3. CASE WorkBlock  BY <1>3 DEF WorkBlock
<1>4. CASE WorkFiltered  BY <1>4 DEF WorkFiltered
<1>5. CASE WorkLock  BY <1>5 DEF WorkLock
<1>6. CASE WorkSent  BY <1>6 DEF WorkSent
<1>7. CASE PacketFromWebSocket  BY <1>7 DEF PacketFromWebSocket
<1> QED BY <1>1, <1>2, <1>3, <1>4, <1>5, <1>6, <1>7 DEF WorkStep

(* The reader of the TUN device keeps VpnInv.                              *)
LEMMA ReadKeepsInv ==
    ASSUME VpnInv, ReadStep
    PROVE  VpnInv'
<1> USE DEF VpnInv, VpnTypeOK, NotStarted, MainOrder, HolderSafe, Read,
            connVars, supVars
<1>1. CASE ReadCheck  BY <1>1 DEF ReadCheck
<1>2. CASE ReadLock  BY <1>2 DEF ReadLock
<1>3. CASE ReadSend  BY <1>3 DEF ReadSend, SendBegin, vpnVars
<1>4. CASE ReadDone  BY <1>4 DEF ReadDone, SendEnd
<1> QED BY <1>1, <1>2, <1>3, <1>4 DEF ReadStep

(* A step inside ConnectionManager starts no run and destroys nothing.     *)
LEMMA ClientStepEffect ==
    ASSUME ClientStep
    PROVE  /\ UNCHANGED vpnVars
           /\ running' => running
           /\ \/ caller' = caller
              \/ /\ caller \notin {"destroyed", "terminated"}
                 /\ caller' \notin {"destroyed", "terminated"}
<1>1. CASE StopStep /\ UNCHANGED vpnVars
  BY <1>1 DEF StopStep, StopFlag, StopLook, StopCall, StopJoin, StopReset
<1>2. CASE RunStep /\ UNCHANGED vpnVars
  BY <1>2 DEF RunStep, RunTop, RunMake, RunBegin, RunAfter, RunClean, RunCount,
     RunEnd, TunnelCreate, TunnelEnable, TunnelConnect, TunnelLeave
<1>3. CASE /\ WsConnected \/ WsConnectFailed \/ WsLost \/ WsWatchdog
           /\ UNCHANGED vpnVars
  BY <1>3 DEF WsConnected, WsConnectFailed, WsLost, WsWatchdog, WsStep
<1> QED BY <1>1, <1>2, <1>3 DEF ClientStep

(* VpnInv is an invariant of the client.                                   *)
THEOREM VpnInvariant == VpnSpec => []VpnInv
<1>1. ASSUME VpnInv, VpnNext  PROVE VpnInv'
  <2>1. CASE StartFlag \/ StopClear \/ MainStep  BY <1>1, <2>1, MainKeepsInv
  <2>2. CASE SupStep  BY <1>1, <2>2, SupKeepsInv
  <2>3. CASE WorkStep \/ PacketFromWebSocket  BY <1>1, <2>3, WorkKeepsInv
  <2>4. CASE ReadStep  BY <1>1, <2>4, ReadKeepsInv
  <2>5. CASE ClientStep
    BY <1>1, <2>5, ClientStepEffect
       DEF VpnInv, VpnTypeOK, NotStarted, MainOrder, HolderSafe, vpnVars
  <2> QED BY <1>1, <2>1, <2>2, <2>3, <2>4, <2>5 DEF VpnNext
<1>2. VpnInv /\ [VpnNext]_clientVars => VpnInv'  BY <1>1, VpnStutter
<1> QED BY <1>2, VpnInitInv, PTL DEF VpnSpec

(* Every variable of VpnManager keeps its type; the queue in particular    *)
(* never holds more than kMaxQueueSize packets.                            *)
THEOREM VpnTypeCorrect == VpnSpec => []VpnTypeOK
<1>1. VpnInv => VpnTypeOK  BY DEF VpnInv
<1> QED BY <1>1, VpnInvariant, PTL

(* Nobody uses the TUN device or the client after Stop dropped them.       *)
THEOREM UsersSafe == VpnSpec => []UsersOutlived
<1>1. VpnInv => UsersOutlived
  BY DEF VpnInv, MainOrder, HolderSafe, UsersOutlived
<1> QED BY <1>1, VpnInvariant, PTL

(* A step of the client is, for its ConnectionManager, a step of           *)
(* ConnectionManager or no step at all.                                    *)
LEMMA StepMaps ==
    ASSUME VpnInv, [VpnNext]_clientVars
    PROVE  [ConnNext]_connVars
<1>1. CASE StartFlag \/ StopClear \/ MainStep
  <2>1. CASE StartClient
    BY <2>1 DEF StartClient, Main, VpnInv, NotStarted, ConnNext
  <2>2. CASE StopClient
    BY <2>2 DEF StopClient, ClientStop, ConnNext
  <2>3. CASE StopResetClient
    BY <2>3 DEF StopResetClient, ConnNext
  <2>4. CASE \/ StartFlag \/ StopClear \/ StartTun \/ StartTunFailed
             \/ StartThreads \/ StopNotify \/ StopThreads \/ StopTun
    BY <2>4 DEF StartFlag, StopClear, StartTun, StartTunFailed, StartThreads,
       StopNotify, StopThreads, StopTun
  <2> QED BY <1>1, <2>1, <2>2, <2>3, <2>4 DEF MainStep
<1>2. CASE SupStep
  <2>1. CASE SupRestart
    BY <2>1 DEF SupRestart, Sup, VpnInv, NotStarted, ConnNext
  <2>2. CASE SupStop  BY <2>2 DEF SupStop, ClientStop, ConnNext
  <2>3. CASE SupWake \/ SupLook \/ SupDecide \/ SupBackoff
    BY <2>3 DEF SupWake, SupLook, SupDecide, SupBackoff
  <2> QED BY <1>2, <2>1, <2>2, <2>3 DEF SupStep
<1>3. CASE WorkStep \/ PacketFromWebSocket
  BY <1>3 DEF WorkStep, WorkTop, WorkTest, WorkBlock, WorkFiltered, WorkLock,
     WorkSent, PacketFromWebSocket
<1>4. CASE ReadStep
  BY <1>4 DEF ReadStep, ReadCheck, ReadLock, ReadSend, ReadDone, ConnNext
<1>5. CASE ClientStep  BY <1>5 DEF ClientStep, ConnNext
<1>6. CASE UNCHANGED clientVars  BY <1>6 DEF clientVars
<1> QED BY <1>1, <1>2, <1>3, <1>4, <1>5, <1>6 DEF VpnNext

(* VpnManager drives its ConnectionManager as that one expects, so what is *)
(* proved of ConnectionManager holds in the client.                        *)
THEOREM VpnDrivesConnectionManager == VpnSpec => DrivesConnectionManager
<1>1. VpnInit => ConnInit  BY DEF VpnInit
<1> QED BY <1>1, StepMaps, VpnInvariant, PTL
        DEF VpnSpec, ConnSpec, DrivesConnectionManager

(* Once Stop has returned nothing moves: the supervisor and the worker are *)
(* joined, the reader is idle and its device gone, and Run has returned.   *)
THEOREM StopIsFinal == VpnSpec => StoppedForGood
<1>1. ASSUME VpnInv, ConnInv, [VpnNext]_clientVars, main = "stopped"
      PROVE  UNCHANGED clientVars
  <2>1. /\ supervisor \in Quiet /\ worker \in Quiet
        /\ tun = "gone" /\ reader = "idle"
        /\ caller \in {"destroyed", "terminated"}
    BY <1>1 DEF VpnInv, MainOrder
  <2>2. pc = "none"
    BY <1>1, <2>1 DEF ConnInv, ConnTypeOK, ThreadAgrees
  <2>3. ~(StartFlag \/ StopClear \/ MainStep)
    BY <1>1 DEF StartFlag, StopClear, MainStep, Main, StartTun, StartTunFailed,
       StartClient, StartThreads, StopNotify, StopThreads, StopTun, StopClient,
       StopResetClient
  <2>4. ~SupStep
    BY <2>1 DEF SupStep, Sup, SupWake, SupLook, SupDecide, SupStop, SupBackoff,
       SupRestart
  <2>5. ~WorkStep
    BY <2>1 DEF WorkStep, Work, WorkTop, WorkTest, WorkBlock, WorkFiltered,
       WorkLock, WorkSent
  <2>6. ~PacketFromWebSocket /\ ~ReadStep
    BY <2>1, <2>2 DEF PacketFromWebSocket, ReadStep, ReadCheck, ReadLock,
       ReadSend, ReadDone, Read
  <2>7. ~ClientStep
    BY <2>1, <2>2 DEF ClientStep, StopStep, StopFlag, StopLook, StopCall,
       StopJoin, StopReset, RunStep, RunTop, RunMake, RunBegin, RunAfter,
       RunClean, RunCount, RunEnd, TunnelCreate, TunnelEnable, TunnelConnect,
       TunnelLeave, At, WsConnected, WsConnectFailed, WsLost, WsWatchdog, WsStep
  <2> QED BY <1>1, <2>3, <2>4, <2>5, <2>6, <2>7 DEF VpnNext
<1>2. VpnSpec => []ConnInv
  BY VpnDrivesConnectionManager, ConnInvariant, PTL DEF DrivesConnectionManager
<1> QED BY <1>1, <1>2, VpnInvariant, PTL DEF VpnSpec, StoppedForGood
=============================================================================
