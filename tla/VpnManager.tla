----------------------------- MODULE VpnManager -----------------------------
(***************************************************************************)
(* The client's VpnManager (fptn-client/vpn) over its ConnectionManager:   *)
(* the thread that calls Start and Stop (main), the supervisor that        *)
(* restarts a connection that gave up, the worker that moves packets from  *)
(* the websocket's queue to the TUN device, and the reader of the TUN      *)
(* device, which sends packets to the server.                              *)
(*                                                                         *)
(* Start and Stop are called by one thread, Start once: Stop drops the     *)
(* client and the TUN device it was built with.  mutex_ of VpnManager is   *)
(* held by whoever is "sending".  queue_mutex_ is held by a worker that    *)
(* found nothing to do and has not yet blocked ("blocking"); its other     *)
(* critical sections are one step.                                         *)
(***************************************************************************)
EXTENDS ConnectionManager

CONSTANTS
    MaxFullRestarts,   \* config_.max_full_restarts, 0 = unlimited
    MaxQueueSize       \* kMaxQueueSize

ASSUME MaxFullRestartsType == MaxFullRestarts \in Nat
ASSUME MaxQueueSizeType == MaxQueueSize \in Nat \ {0}

VARIABLES
    vpn_running,      \* VpnManager::running_
    main,             \* where the thread of Start and Stop is
    supervisor,       \* where Supervise is
    worker,           \* where ProcessWebSocketPackets is
    reader,           \* where HandleOnPacketFromVirtualNetworkInterface is
    queue,            \* size of ws_packet_queue_
    tun,              \* virtual_net_interface: "closed", "open" or "gone"
    routes,           \* the routes of route_manager are applied
    ever_connected,   \* the flags of the supervisor
    gave_up,
    reconnecting,
    restarts          \* full_restart_count

vpnVars == <<vpn_running, main, supervisor, worker, reader, queue, tun, routes,
             ever_connected, gave_up, reconnecting, restarts>>
supVars == <<routes, ever_connected, gave_up, reconnecting, restarts>>
clientVars == <<connVars, vpnVars>>

VpnInit ==
    /\ ConnInit
    /\ vpn_running = FALSE
    /\ main = "idle"
    /\ supervisor = "none"
    /\ worker = "none"
    /\ reader = "idle"
    /\ queue = 0
    /\ tun = "closed"
    /\ routes = FALSE
    /\ ever_connected = FALSE
    /\ gave_up = FALSE
    /\ reconnecting = FALSE
    /\ restarts = 0

(* Nothing runs in a process that std::terminate has ended.                *)
Main(p, q) == caller # "terminated" /\ main = p /\ main' = q
Sup(p, q) == caller # "terminated" /\ supervisor = p /\ supervisor' = q
Work(p, q) == caller # "terminated" /\ worker = p /\ worker' = q
Read(p, q) == caller # "terminated" /\ reader = p /\ reader' = q

MutexFree == worker # "sending" /\ reader # "sending"

(* http_client->Stop(): an early return, or the steps of StopStep, after   *)
(* which caller is idle again.                                             *)
ClientStop == IF running THEN StopCheck ELSE UNCHANGED connVars

ClientConnected == running /\ strategy # Null /\ strategy.ws = "up"

-----------------------------------------------------------------------------
(* Start                                                                   *)

StartFlag ==
    /\ Main("idle", "tun")
    /\ vpn_running' = TRUE
    /\ UNCHANGED <<connVars, supervisor, worker, reader, queue, tun, supVars>>

(* One of the five attempts to open the TUN device succeeds.               *)
StartTun ==
    /\ Main("tun", "client")
    /\ tun' = "open"
    /\ routes' = TRUE
    /\ UNCHANGED <<connVars, vpn_running, supervisor, worker, reader, queue,
                   ever_connected, gave_up, reconnecting, restarts>>

(* None does: Start returns false, and running_ stays true.                *)
StartTunFailed ==
    /\ Main("tun", "up")
    /\ UNCHANGED <<connVars, vpn_running, supervisor, worker, reader, queue,
                   tun, supVars>>

StartClient ==
    /\ Main("client", "threads")
    /\ Start
    /\ UNCHANGED <<vpn_running, supervisor, worker, reader, queue, tun, supVars>>

StartThreads ==
    /\ Main("threads", "up")
    /\ worker' = "top"
    /\ supervisor' = "wait"
    /\ UNCHANGED <<connVars, vpn_running, reader, queue, tun, supVars>>

-----------------------------------------------------------------------------
(* Stop                                                                    *)

(* Wrong variant: running_ is cleared without the mutex.                   *)
StopClear_NoMutex ==
    /\ Main("up", "notify")
    /\ vpn_running' = FALSE
    /\ UNCHANGED <<connVars, supervisor, worker, reader, queue, tun, supVars>>

StopClear ==
    /\ Main("up", "notify")
    /\ MutexFree
    /\ vpn_running' = FALSE
    /\ UNCHANGED <<connVars, supervisor, worker, reader, queue, tun, supVars>>

(* Wrong variant: nobody is notified.                                      *)
StopNotify_Silent ==
    /\ Main("notify", "join")
    /\ UNCHANGED <<connVars, vpn_running, supervisor, worker, reader, queue,
                   tun, supVars>>

(* ws_queue_cv_.notify_all() reaches a worker that sleeps already.  (The   *)
(* waits of the supervisor have timeouts.)                                 *)
StopNotify ==
    /\ Main("notify", "join")
    /\ worker' = IF worker = "asleep" THEN "test" ELSE worker
    /\ UNCHANGED <<connVars, vpn_running, supervisor, reader, queue, tun,
                   supVars>>

StopThreads ==
    /\ Main("join", "tunstop")
    /\ supervisor \in {"none", "ended"}
    /\ worker \in {"none", "ended"}
    /\ UNCHANGED <<connVars, vpn_running, supervisor, worker, reader, queue,
                   tun, supVars>>

(* virtual_net_interface->Stop(), which joins the reader, and reset().     *)
StopTun ==
    /\ Main("tunstop", "clientstop")
    /\ reader = "idle"
    /\ tun' = "gone"
    /\ UNCHANGED <<connVars, vpn_running, supervisor, worker, reader, queue,
                   supVars>>

StopClient ==
    /\ Main("clientstop", "reset")
    /\ ClientStop
    /\ UNCHANGED <<vpn_running, supervisor, worker, reader, queue, tun, supVars>>

(* http_client.reset()                                                     *)
StopResetClient ==
    /\ Main("reset", "stopped")
    /\ Destroy
    /\ UNCHANGED <<vpn_running, supervisor, worker, reader, queue, tun, supVars>>

MainStep ==
    \/ StartTun \/ StartTunFailed \/ StartClient \/ StartThreads
    \/ StopNotify \/ StopThreads \/ StopTun \/ StopClient \/ StopResetClient

-----------------------------------------------------------------------------
(* Supervise                                                               *)

SupWake ==
    /\ Sup("wait", IF vpn_running THEN "look" ELSE "ended")
    /\ UNCHANGED <<connVars, vpn_running, main, worker, reader, queue, tun,
                   supVars>>

(* IsConnected, under the mutex of ConnectionManager.                      *)
SupLook ==
    /\ ~mutex
    /\ IF ClientConnected
       THEN /\ Sup("look", "wait")
            /\ ever_connected' = TRUE
            /\ restarts' = 0
            /\ reconnecting' = FALSE
       ELSE /\ Sup("look", "decide")
            /\ reconnecting' = (reconnecting \/ ever_connected)
            /\ UNCHANGED <<ever_connected, restarts>>
    /\ UNCHANGED <<connVars, vpn_running, main, worker, reader, queue, tun,
                   routes, gave_up>>

Exhausted == MaxFullRestarts > 0 /\ restarts >= MaxFullRestarts

(* Wrong variant: what is not connected is restarted at once, without      *)
(* asking IsStarted and without a Stop.                                    *)
SupDecide_Hasty ==
    /\ Sup("decide", "backoff")
    /\ restarts' = restarts + 1
    /\ UNCHANGED <<connVars, vpn_running, main, worker, reader, queue, tun,
                   routes, ever_connected, gave_up, reconnecting>>

SupDecide ==
    /\ Sup("decide", IF running THEN "wait"
                     ELSE IF Exhausted THEN "ended" ELSE "stop")
    /\ IF running \/ ~Exhausted
       THEN UNCHANGED <<routes, gave_up, reconnecting>>
       ELSE routes' = FALSE /\ gave_up' = TRUE /\ reconnecting' = FALSE
    /\ restarts' = IF running \/ Exhausted THEN restarts ELSE restarts + 1
    /\ UNCHANGED <<connVars, vpn_running, main, worker, reader, queue, tun,
                   ever_connected>>

SupStop ==
    /\ Sup("stop", "backoff")
    /\ ClientStop
    /\ routes' = FALSE
    /\ UNCHANGED <<vpn_running, main, worker, reader, queue, tun,
                   ever_connected, gave_up, reconnecting, restarts>>

SupBackoff ==
    /\ caller = "idle"
    /\ Sup("backoff", IF vpn_running THEN "restart" ELSE "ended")
    /\ UNCHANGED <<connVars, vpn_running, main, worker, reader, queue, tun,
                   supVars>>

SupRestart ==
    /\ Sup("restart", "wait")
    /\ routes' = TRUE
    /\ Start
    /\ UNCHANGED <<vpn_running, main, worker, reader, queue, tun,
                   ever_connected, gave_up, reconnecting, restarts>>

SupStep ==
    SupWake \/ SupLook \/ SupDecide \/ SupStop \/ SupBackoff \/ SupRestart

-----------------------------------------------------------------------------
(* ProcessWebSocketPackets                                                 *)

WorkTop ==
    /\ Work("top", IF vpn_running THEN "test" ELSE "ended")
    /\ UNCHANGED <<connVars, vpn_running, main, supervisor, reader, queue, tun,
                   supVars>>

(* The predicate of the wait, and what follows when it holds: everything   *)
(* queued becomes the batch.                                               *)
WorkTest ==
    /\ Work("test", IF queue > 0 THEN "batch"
                    ELSE IF vpn_running THEN "blocking" ELSE "ended")
    /\ queue' = 0
    /\ UNCHANGED <<connVars, vpn_running, main, supervisor, reader, tun, supVars>>

WorkBlock ==
    /\ Work("blocking", "asleep")
    /\ UNCHANGED <<connVars, vpn_running, main, supervisor, reader, queue, tun,
                   supVars>>

(* Every packet of the batch may have been consumed by a plugin.           *)
WorkFiltered ==
    /\ Work("batch", "top")
    /\ UNCHANGED <<connVars, vpn_running, main, supervisor, reader, queue, tun,
                   supVars>>

WorkLock ==
    /\ MutexFree
    /\ Work("batch", IF vpn_running THEN "sending" ELSE "top")
    /\ UNCHANGED <<connVars, vpn_running, main, supervisor, reader, queue, tun,
                   supVars>>

WorkSent ==
    /\ Work("sending", "top")
    /\ UNCHANGED <<connVars, vpn_running, main, supervisor, reader, queue, tun,
                   supVars>>

WorkStep ==
    WorkTop \/ WorkTest \/ WorkBlock \/ WorkFiltered \/ WorkLock \/ WorkSent

(* Wrong variant: a packet is queued without waking the worker.            *)
PacketFromWebSocket_Silent ==
    /\ caller # "terminated"
    /\ pc = "loop" /\ ClientConnected
    /\ vpn_running
    /\ worker # "blocking"
    /\ queue < MaxQueueSize
    /\ queue' = queue + 1
    /\ UNCHANGED <<connVars, vpn_running, main, supervisor, worker, reader, tun,
                   supVars>>

(* HandleOnPacketFromWebSocket, called by the websocket's reader on the    *)
(* thread of ConnectionManager::Run; a full queue drops the packet.        *)
PacketFromWebSocket ==
    /\ caller # "terminated"
    /\ pc = "loop" /\ ClientConnected
    /\ vpn_running
    /\ worker # "blocking"
    /\ queue < MaxQueueSize
    /\ queue' = queue + 1
    /\ worker' = IF worker = "asleep" THEN "test" ELSE worker
    /\ UNCHANGED <<connVars, vpn_running, main, supervisor, reader, tun, supVars>>

-----------------------------------------------------------------------------
(* HandleOnPacketFromVirtualNetworkInterface                               *)

ReadCheck ==
    /\ tun = "open"
    /\ vpn_running
    /\ Read("idle", "lock")
    /\ UNCHANGED <<connVars, vpn_running, main, supervisor, worker, queue, tun,
                   supVars>>

ReadLock ==
    /\ MutexFree
    /\ Read("lock", IF vpn_running THEN "sending" ELSE "idle")
    /\ UNCHANGED <<connVars, vpn_running, main, supervisor, worker, queue, tun,
                   supVars>>

(* ConnectionManager::Send, when there is a strategy to send with ...      *)
ReadSend ==
    /\ reader = "sending"
    /\ SendBegin
    /\ UNCHANGED vpnVars

(* ... and the end of the call, sent or not.                               *)
ReadDone ==
    /\ Read("sending", "idle")
    /\ \/ SendEnd
       \/ ~mutex /\ ~(strategy # Null /\ running) /\ UNCHANGED connVars
    /\ UNCHANGED <<vpn_running, main, supervisor, worker, queue, tun, supVars>>

ReadStep == ReadCheck \/ ReadLock \/ ReadSend \/ ReadDone

-----------------------------------------------------------------------------
ClientStep ==
    \/ StopStep /\ UNCHANGED vpnVars
    \/ RunStep /\ UNCHANGED vpnVars
    \/ (WsConnected \/ WsConnectFailed) /\ UNCHANGED vpnVars
    \/ WsLost /\ UNCHANGED vpnVars
    \/ WsWatchdog /\ UNCHANGED vpnVars

VpnNext ==
    \/ StartFlag \/ StopClear \/ MainStep
    \/ SupStep
    \/ WorkStep
    \/ PacketFromWebSocket
    \/ ReadStep
    \/ ClientStep

VpnSpec == VpnInit /\ [][VpnNext]_clientVars

(***************************************************************************)
(* The fairness of ConnectionManager, and threads that are not blocked go  *)
(* on.  Nobody has to start or stop the VPN, no packet has to come, the    *)
(* supervisor competes with Sends for the mutex.                           *)
(***************************************************************************)
VpnFairness ==
    /\ WF_clientVars(MainStep)
    /\ WF_clientVars(SupStep)
    /\ SF_clientVars(SupLook)
    /\ WF_clientVars(WorkStep)
    /\ SF_clientVars(WorkLock)
    /\ WF_clientVars(ReadLock)
    /\ WF_clientVars(ReadSend \/ ReadDone)
    /\ WF_clientVars(StopStep /\ UNCHANGED vpnVars)
    /\ SF_clientVars(StopFlag /\ UNCHANGED vpnVars)
    /\ WF_clientVars(RunStep /\ UNCHANGED vpnVars)
    /\ SF_clientVars((RunMake \/ RunClean) /\ UNCHANGED vpnVars)
    /\ WF_clientVars((WsConnected \/ WsConnectFailed) /\ UNCHANGED vpnVars)
    /\ WF_clientVars(WsWatchdog /\ UNCHANGED vpnVars)

FairVpnSpec == VpnSpec /\ VpnFairness

-----------------------------------------------------------------------------
(* Properties                                                              *)

(* The type of every variable; the queue never exceeds its capacity.       *)
VpnTypeOK ==
    /\ vpn_running \in BOOLEAN
    /\ main \in {"idle", "tun", "client", "threads", "up", "notify", "join",
                 "tunstop", "clientstop", "reset", "stopped"}
    /\ supervisor \in {"none", "wait", "look", "decide", "stop", "backoff",
                       "restart", "ended"}
    /\ worker \in {"none", "top", "test", "blocking", "asleep", "batch",
                   "sending", "ended"}
    /\ reader \in {"idle", "lock", "sending"}
    /\ queue \in 0..MaxQueueSize
    /\ tun \in {"closed", "open", "gone"}
    /\ routes \in BOOLEAN
    /\ ever_connected \in BOOLEAN
    /\ gave_up \in BOOLEAN
    /\ reconnecting \in BOOLEAN
    /\ restarts \in Nat

(* Stop drops the TUN device and the client, without the mutex, only when  *)
(* nobody uses them: not the worker inside SendBatch, not the reader       *)
(* inside Send, not the supervisor.                                        *)
UsersOutlived ==
    /\ worker = "sending" => tun = "open"
    /\ reader = "sending" => vpn_running /\ caller # "destroyed"
    /\ main = "stopped" => supervisor \in {"none", "ended"}

(* Stop is final: once it has returned, no thread of the VPN is left that  *)
(* could change anything, neither VpnManager's nor ConnectionManager's.    *)
StoppedForGood ==
    [][main = "stopped" => UNCHANGED clientVars]_clientVars

(* VpnManager uses its ConnectionManager as that one expects: one call of  *)
(* Start or Stop at a time, Start only when it is not started, no Send to  *)
(* a manager that is being destroyed.                                      *)
DrivesConnectionManager == ConnSpec

(* No packet from the server waits for the next one: what is queued leaves *)
(* the queue, unless the VPN is stopped or the process is terminated.      *)
PacketsMove ==
    queue > 0 ~> queue = 0 \/ ~vpn_running \/ caller = "terminated"

(* The worker looked at running_ before Stop cleared it and sleeps only    *)
(* after Stop has notified: running_ is not written under queue_mutex_.    *)
WakeupMissed == main = "join" /\ worker = "blocking"

(* Stop entered PersistentTunnel::Stop before Start had set its flag.      *)
StopOvertakesStart == caller = "call" /\ pc \in {"create", "enable"}

(* Stop returns or ends the process, unless one of these two races happens.*)
VpnStopReturnsUnlessRaced ==
    []~(WakeupMissed \/ StopOvertakesStart) =>
       (main = "notify" ~> main = "stopped" \/ caller = "terminated")

(* The supervisor's restart of a connection that gave up is a restart, not *)
(* the end of the process.                                                 *)
RestartSurvives == ~(caller = "terminated" /\ main = "up")
=============================================================================
