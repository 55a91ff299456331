------------------------- MODULE ConnectionManager -------------------------
(***************************************************************************)
(* The client's ConnectionManager (fptn-protocol-lib/connection), with the *)
(* PersistentTunnel strategy and the part of its WebsocketClient that      *)
(* decides when the strategy's loop ends.                                  *)
(*                                                                         *)
(* Three threads meet here: the one that calls Start and Stop, the one     *)
(* Start spawns (Run), and any thread that calls Send.  The websocket's    *)
(* coroutines are polled by Run's thread, inside PersistentTunnel::Start.  *)
(***************************************************************************)
EXTENDS Naturals

CONSTANTS
    MaxReconnections,   \* config_.common.max_reconnections
    MaxStarts,          \* bound: how often Start is called
    Null                \* nullptr

ASSUME MaxReconnectionsType == MaxReconnections \in Nat
ASSUME MaxStartsType == MaxStarts \in Nat

VARIABLES
    running,      \* ConnectionManager::running_
    mutex,        \* ConnectionManager::mutex_ is held by a Send
    thread,       \* th_: "none" (not joinable), "live", or "ended", unjoined
    pc,           \* where Run is
    strategy,     \* strategy_connection_: Null or [running, ws]
    attempts,     \* reconnection_attempts_
    caller,       \* where the owner of the manager is: inside Stop, "destroyed"
                  \* after it, "terminated" once std::terminate was called
    starts        \* how often Start has been called

connVars == <<running, mutex, thread, pc, strategy, attempts, caller, starts>>

(***************************************************************************)
(* WebsocketClient by its flags: "new" before Run; "connecting" and "up"   *)
(* while running_, without and with was_connected_; "lost" when a reader   *)
(* or sender ended and cleared was_connected_; "stopped" after Stop.       *)
(***************************************************************************)
WsStates == {"none", "new", "connecting", "up", "lost", "stopped"}

WsRunning(s) == s.ws \in {"connecting", "up", "lost"}

Strategy == [running : BOOLEAN, ws : WsStates]

ASSUME NullIsNoStrategy == Null \notin Strategy

ConnInit ==
    /\ running = FALSE
    /\ mutex = FALSE
    /\ thread = "none"
    /\ pc = "none"
    /\ strategy = Null
    /\ attempts = 0
    /\ caller = "idle"
    /\ starts = 0

-----------------------------------------------------------------------------
(* Start and Stop, as their caller runs them.                              *)

(* Assigning a new thread to a joinable std::thread terminates.            *)
Start ==
    /\ caller = "idle"
    /\ starts < MaxStarts
    /\ starts' = starts + 1
    /\ running' = TRUE
    /\ IF thread = "none"
       THEN /\ thread' = "live" /\ pc' = "top" /\ attempts' = 0
            /\ UNCHANGED caller
       ELSE /\ caller' = "terminated"
            /\ UNCHANGED <<thread, pc, attempts>>
    /\ UNCHANGED <<mutex, strategy>>

StopCheck ==
    /\ caller = "idle"
    /\ running
    /\ caller' = "flag"
    /\ UNCHANGED <<running, mutex, thread, pc, strategy, attempts, starts>>

StopFlag ==
    /\ caller = "flag"
    /\ ~mutex
    /\ caller' = IF running THEN "strategy" ELSE "idle"
    /\ running' = FALSE
    /\ UNCHANGED <<mutex, thread, pc, strategy, attempts, starts>>

(* if (strategy_connection_), read without the mutex ...                   *)
StopLook ==
    /\ caller = "strategy"
    /\ caller' = IF strategy = Null THEN "join" ELSE "call"
    /\ UNCHANGED <<running, mutex, thread, pc, strategy, attempts, starts>>

(* PersistentTunnel::Stop: SetRunningStatus(false), and WebsocketClient::  *)
(* Stop, which does nothing to a client that is not running.               *)
Halted(s) == [running |-> FALSE,
              ws |-> IF WsRunning(s) THEN "stopped" ELSE s.ws]

(* ... and the call.                                                       *)
StopCall ==
    /\ caller = "call"
    /\ strategy' = Halted(strategy)
    /\ caller' = "join"
    /\ UNCHANGED <<running, mutex, thread, pc, attempts, starts>>

StopJoin ==
    /\ caller = "join"
    /\ thread # "live"
    /\ thread' = "none"
    /\ caller' = "reset"
    /\ UNCHANGED <<running, mutex, pc, strategy, attempts, starts>>

StopReset ==
    /\ caller = "reset"
    /\ strategy' = Null
    /\ caller' = "idle"
    /\ UNCHANGED <<running, mutex, thread, pc, attempts, starts>>

(* ~ConnectionManager, after the Stop that ~Client calls; the destructor   *)
(* of a joinable std::thread terminates.                                   *)
Destroy ==
    /\ caller = "idle"
    /\ ~running
    /\ ~mutex
    /\ strategy' = Null
    /\ caller' = IF thread = "none" THEN "destroyed" ELSE "terminated"
    /\ UNCHANGED <<running, mutex, thread, pc, attempts, starts>>

StopStep ==
    StopFlag \/ StopLook \/ StopCall \/ StopJoin \/ StopReset

(* Send holds the mutex while it uses the strategy.                        *)
SendBegin ==
    /\ ~mutex
    /\ strategy # Null /\ running
    /\ mutex' = TRUE
    /\ UNCHANGED <<running, thread, pc, strategy, attempts, caller, starts>>

SendEnd ==
    /\ mutex
    /\ mutex' = FALSE
    /\ UNCHANGED <<running, thread, pc, strategy, attempts, caller, starts>>

-----------------------------------------------------------------------------
(* Run                                                                     *)

At(p, q) == pc = p /\ pc' = q

RunTop ==
    /\ At("top", IF running /\ attempts < MaxReconnections THEN "make" ELSE "end")
    /\ UNCHANGED <<running, mutex, thread, strategy, attempts, caller, starts>>

RunMake ==
    /\ At("make", "begin")
    /\ ~mutex
    /\ strategy' = IF running THEN [running |-> FALSE, ws |-> "none"]
                   ELSE strategy
    /\ UNCHANGED <<running, mutex, thread, attempts, caller, starts>>

RunBegin ==
    /\ At("begin", IF running /\ strategy # Null THEN "create" ELSE "after")
    /\ UNCHANGED <<running, mutex, thread, strategy, attempts, caller, starts>>

(* PersistentTunnel::Start                                                 *)
TunnelCreate ==
    /\ At("create", "enable")
    /\ strategy' = [strategy EXCEPT !.ws = "new"]
    /\ UNCHANGED <<running, mutex, thread, attempts, caller, starts>>

TunnelEnable ==
    /\ At("enable", "connect")
    /\ strategy' = [strategy EXCEPT !.running = TRUE]
    /\ UNCHANGED <<running, mutex, thread, attempts, caller, starts>>

TunnelConnect ==
    /\ At("connect", "loop")
    /\ strategy' = [strategy EXCEPT !.ws = "connecting"]
    /\ UNCHANGED <<running, mutex, thread, attempts, caller, starts>>

TunnelLeave ==
    /\ At("loop", "after")
    /\ ~strategy.running \/ strategy.ws = "stopped"
    /\ strategy' = [strategy EXCEPT !.running = FALSE]
    /\ UNCHANGED <<running, mutex, thread, attempts, caller, starts>>

(* The websocket's coroutines, polled by the loop.                         *)
WsStep(from, to) ==
    /\ pc = "loop"
    /\ strategy.running
    /\ strategy.ws = from
    /\ strategy' = [strategy EXCEPT !.ws = to]
    /\ UNCHANGED <<running, mutex, thread, pc, attempts, caller, starts>>

WsConnected == WsStep("connecting", "up")
WsConnectFailed == WsStep("connecting", "stopped")
WsLost == WsStep("up", "lost")

(* Wrong variant: the watchdog looks for an attempt that hangs, not for a  *)
(* connection that was lost.                                               *)
WsWatchdog_IgnoresLost == WsStep("connecting", "stopped")

WsWatchdog == WsStep("lost", "stopped")

RunAfter ==
    /\ At("after", IF running THEN "clean" ELSE "end")
    /\ UNCHANGED <<running, mutex, thread, strategy, attempts, caller, starts>>

(* Wrong variant: running_ is not looked at again under the mutex.         *)
RunClean_Unchecked ==
    /\ At("clean", "count")
    /\ ~mutex
    /\ strategy' = Null
    /\ UNCHANGED <<running, mutex, thread, attempts, caller, starts>>

RunClean ==
    /\ At("clean", "count")
    /\ ~mutex
    /\ strategy' = IF running THEN Null ELSE strategy
    /\ UNCHANGED <<running, mutex, thread, attempts, caller, starts>>

(* A closed window starts the count again; the window is two minutes.      *)
RunCount ==
    /\ At("count", "top")
    /\ attempts' \in {0, attempts + 1}
    /\ UNCHANGED <<running, mutex, thread, strategy, caller, starts>>

RunEnd ==
    /\ At("end", "none")
    /\ running' = FALSE
    /\ thread' = "ended"
    /\ UNCHANGED <<mutex, strategy, attempts, caller, starts>>

RunStep ==
    \/ RunTop \/ RunMake \/ RunBegin \/ RunAfter \/ RunClean \/ RunCount
    \/ RunEnd \/ TunnelCreate \/ TunnelEnable \/ TunnelConnect \/ TunnelLeave

-----------------------------------------------------------------------------
(* The owner (VpnManager, through http::Client) starts the manager when    *)
(* IsStarted says no, stops it at any time, destroys it in the end.        *)
ConnNext ==
    \/ ~running /\ Start
    \/ StopCheck \/ StopStep \/ Destroy
    \/ SendBegin \/ SendEnd
    \/ RunStep
    \/ WsConnected \/ WsConnectFailed \/ WsLost \/ WsWatchdog

ConnSpec == ConnInit /\ [][ConnNext]_connVars

(***************************************************************************)
(* Threads that are not blocked go on, and a thread that waits for the     *)
(* mutex gets it in the end, however many Sends it competes with (strong   *)
(* fairness: a Send holds it only to queue a packet); a connection attempt *)
(* ends one way or the other (every phase of Connect has a timeout); the   *)
(* watchdog timer fires.  Nothing makes a connection that is up end.       *)
(***************************************************************************)
ConnFairness ==
    /\ WF_connVars(StopStep)
    /\ WF_connVars(SendEnd)
    /\ WF_connVars(RunStep)
    /\ SF_connVars(StopFlag)
    /\ SF_connVars(RunMake \/ RunClean)
    /\ WF_connVars((WsConnected \/ WsConnectFailed))
    /\ WF_connVars(WsWatchdog)

FairConnSpec == ConnSpec /\ ConnFairness

-----------------------------------------------------------------------------
(* Properties                                                              *)

(* The type of every variable.                                             *)
ConnTypeOK ==
    /\ running \in BOOLEAN
    /\ mutex \in BOOLEAN
    /\ thread \in {"none", "live", "ended"}
    /\ pc \in {"none", "top", "make", "begin", "create", "enable", "connect",
               "loop", "after", "clean", "count", "end"}
    /\ strategy \in Strategy \cup {Null}
    /\ attempts \in 0..MaxReconnections
    /\ caller \in {"idle", "flag", "strategy", "call", "join", "reset",
                  "destroyed", "terminated"}
    /\ starts \in 0..MaxStarts

(* Nobody uses a destroyed strategy: neither Stop, which calls it without  *)
(* the mutex, nor a Send, nor Run inside strategy_connection_->Start().    *)
StrategyNotDestroyedInUse ==
    /\ caller = "call" => strategy # Null
    /\ mutex => strategy # Null
    /\ pc \in {"create", "enable", "connect", "loop"} => strategy # Null

(* IsStarted tells the truth: running_ is set only while a Run thread will *)
(* still act on it, and a Run that returned has cleared it, so that the    *)
(* supervisor sees that it has to restart.                                 *)
IsStartedIsTrue ==
    caller # "terminated" =>
        /\ running => thread = "live" /\ pc # "none"
        /\ thread = "ended" => pc = "none"

(* Stop leaves nothing behind: once it has returned true the thread is     *)
(* joined, the strategy is gone and nothing brings either back before the  *)
(* next Start.                                                             *)
QuietAfterStop ==
    [][caller = "idle" /\ thread = "none" /\ strategy = Null =>
          starts' > starts \/ (thread' = "none" /\ strategy' = Null)]_connVars

(* A lost connection is replaced: unless somebody stops the manager or it  *)
(* gives up, a new attempt to connect follows.                             *)
Reconnects ==
    strategy # Null /\ strategy.ws = "lost" ~>
       \/ strategy # Null /\ strategy.ws = "connecting"
       \/ ~running

(* Stop returns: it should complete without crash or hang.                 *)
StopReturns == caller = "flag" ~> caller = "idle"
=============================================================================
