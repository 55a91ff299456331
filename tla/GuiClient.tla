----------------------------- MODULE GuiClient ------------------------------
(***************************************************************************)
(* The tray application: the GUI thread with its menu, its timers and its  *)
(* message boxes (each runs a nested event loop), the worker that runs     *)
(* startVpn, and the pool that pings the servers.  The worker and the GUI  *)
(* thread share vpn_client_, cancel_connecting_ and selected_server_, of   *)
(* which only the flag is synchronised.                                    *)
(***************************************************************************)
EXTENDS Integers, Sequences, FiniteSets

CONSTANTS
    TrayServers,   \* servers of the menu, by host and port
    MaxListeners   \* bound: handlers of the ping timer told apart

NoServer == "noServer"

ASSUME TrayAssumption == IsFiniteSet(TrayServers) /\ MaxListeners \in Nat

VARIABLES
    ui,           \* connection_state_; "quit" once the application left
    cancelled,    \* cancel_connecting_
    inProgress,   \* connecting_in_progress_
    smart,        \* smart_connect_
    selServer,    \* selected_server_
    token,        \* pre_obtained_token_: the server that issued it
    job,          \* where startVpn is
    client,       \* vpn_client_: the server it is for and its state
    popups,       \* open message boxes, the latest last
    lostNoticed,  \* handleTimer's static reconnection_in_progress
    crashed       \* the worker used a vpn_client_ that was gone

trayVars == <<ui, cancelled, inProgress, smart, selServer, token, job, client, popups,
              lostNoticed, crashed>>

VARIABLES
    pinging,    \* start_pinging_
    listeners,  \* handlers connected to ping_timer_
    firing,     \* handlers that still have to run for this timeout
    toPing,     \* servers the running handler still has to post
    pending,    \* pending_pings_
    pingJobs    \* jobs of ping_thread_pool_, by server

pingVars == <<pinging, listeners, firing, toPing, pending, pingJobs>>

guiVars == <<trayVars, pingVars>>

NoClient == [server |-> NoServer, st |-> "none"]
NoJob == [at |-> "idle", server |-> NoServer, ok |-> FALSE]

GuiInit ==
    /\ ui = "none" /\ cancelled = FALSE /\ inProgress = FALSE /\ smart = FALSE
    /\ selServer = NoServer /\ token = NoServer /\ job = NoJob /\ client = NoClient
    /\ popups = << >> /\ lostNoticed = FALSE /\ crashed = FALSE
    /\ pinging = TRUE /\ listeners = 1 /\ firing = 0 /\ toPing = {} /\ pending = 0
    /\ pingJobs = [s \in TrayServers |-> 0]

-----------------------------------------------------------------------------
(* SettingsModel: pings                                                    *)

(* Every Start after a Stop connects one more handler to the same timer.   *)
StartPingMonitoring ==
    /\ pinging' = TRUE
    /\ listeners' = IF ~pinging /\ listeners < MaxListeners THEN listeners + 1 ELSE listeners
    /\ UNCHANGED <<firing, toPing, pending, pingJobs>>

StopPingMonitoring ==
    /\ pinging' = FALSE
    /\ UNCHANGED <<listeners, firing, toPing, pending, pingJobs>>

(* The GUI thread is not inside a handler of the timer.                    *)
GuiFree == firing = 0 /\ toPing = {} /\ ~crashed /\ ui # "quit"

PingTimer ==
    /\ GuiFree
    /\ firing' = listeners
    /\ UNCHANGED <<trayVars, pinging, listeners, toPing, pending, pingJobs>>

(* Wrong variant: a handler does not look whether pings are under way.     *)
OnPingTimeout_Always ==
    /\ firing > 0 /\ toPing = {}
    /\ firing' = firing - 1
    /\ IF ~pinging THEN UNCHANGED <<pending, toPing>>
       ELSE pending' = Cardinality(TrayServers) /\ toPing' = TrayServers
    /\ UNCHANGED <<trayVars, pinging, listeners, pingJobs>>

(* One handler: nothing to do while pings are under way; else count the    *)
(* servers, then post a job for each.                                      *)
OnPingTimeout ==
    /\ firing > 0 /\ toPing = {}
    /\ firing' = firing - 1
    /\ IF ~pinging \/ pending > 0 THEN UNCHANGED <<pending, toPing>>
       ELSE pending' = Cardinality(TrayServers) /\ toPing' = TrayServers
    /\ UNCHANGED <<trayVars, pinging, listeners, pingJobs>>

PostPing ==
    /\ \E s \in toPing : /\ toPing' = toPing \ {s}
                         /\ pingJobs' = [pingJobs EXCEPT ![s] = @ + 1]
    /\ UNCHANGED <<trayVars, pinging, listeners, firing, pending>>

(* The job ends, answered or not; what it stores for the menu is left out. *)
PingServer(s) ==
    /\ pingJobs[s] > 0
    /\ pingJobs' = [pingJobs EXCEPT ![s] = @ - 1]
    /\ pending' = pending - 1
    /\ UNCHANGED <<trayVars, pinging, listeners, firing, toPing>>

-----------------------------------------------------------------------------
(* The menu                                                                *)

(* vpn_client_->Stop(); vpn_client_.reset().  If the worker is inside      *)
(* Start of that object, anything may happen.                              *)
StopVpn ==
    /\ client' = NoClient
    /\ crashed' \in IF job.at = "starting" /\ client # NoClient THEN BOOLEAN ELSE {crashed}

(* Wrong variant: a new attempt forgets that the running one was given up. *)
HandleConnecting_Uncancels ==
    /\ ui' = "connecting"
    /\ StopPingMonitoring
    /\ cancelled' = FALSE
    /\ IF inProgress THEN UNCHANGED <<inProgress, job>>
       ELSE inProgress' = TRUE /\ job' = [NoJob EXCEPT !.at = "gateway"]

(* handleConnecting starts one worker, "only once!".                       *)
HandleConnecting ==
    /\ ui' = "connecting"
    /\ StopPingMonitoring
    /\ IF inProgress THEN UNCHANGED <<cancelled, inProgress, job>>
       ELSE cancelled' = FALSE /\ inProgress' = TRUE /\ job' = [NoJob EXCEPT !.at = "gateway"]

(* A server of the menu, or Smart Connect; onConnectToServer.              *)
OnConnectToServer ==
    /\ GuiFree /\ ui = "none"
    /\ \/ smart' = TRUE /\ UNCHANGED selServer
       \/ smart' = FALSE /\ selServer' \in TrayServers
    /\ HandleConnecting
    /\ UNCHANGED <<token, client, popups, lostNoticed, crashed>>

(* The "Connecting..." entry: the worker is told to give up.               *)
HandleDefaultState ==
    /\ GuiFree /\ ui = "connecting"
    /\ ui' = "none" /\ cancelled' = TRUE
    /\ StartPingMonitoring
    /\ StopVpn
    /\ UNCHANGED <<inProgress, smart, selServer, token, job, popups, lostNoticed>>

(* The "Disconnect" and "Reconnecting..." entries.                         *)
OnDisconnectFromServer ==
    /\ GuiFree /\ ui = "connected"
    /\ ui' = "none"
    /\ StartPingMonitoring
    /\ StopVpn
    /\ UNCHANGED <<cancelled, inProgress, smart, selServer, token, job, popups, lostNoticed>>

(* Quit is disabled while connecting; taken here with no message open.     *)
Quit ==
    /\ GuiFree /\ ui \in {"none", "connected"} /\ popups = << >>
    /\ ui' = "quit"
    /\ StopPingMonitoring
    /\ StopVpn
    /\ UNCHANGED <<cancelled, inProgress, smart, selServer, token, job, popups, lostNoticed>>

-----------------------------------------------------------------------------
(* Events of the GUI thread                                                *)

(* The watcher's finished signal: an attempt that was given up says        *)
(* nothing; a failed one opens a message, inside of which it is still in   *)
(* progress.                                                               *)
WatcherFinished ==
    /\ GuiFree /\ job.at = "finished"
    /\ job' = NoJob
    /\ CASE cancelled -> inProgress' = FALSE /\ UNCHANGED <<ui, cancelled, popups>>
         [] ~cancelled /\ job.ok -> /\ ui' = "connected" /\ inProgress' = FALSE
                                    /\ UNCHANGED <<cancelled, popups>>
         [] ~cancelled /\ ~job.ok -> /\ popups' = Append(popups, "failed")
                                     /\ UNCHANGED <<ui, inProgress, cancelled>>
    /\ UNCHANGED <<smart, selServer, token, client, lostNoticed, crashed, pingVars>>

(* handleTimer, once in the life of the process: the flag stays set.       *)
HandleTimer ==
    /\ GuiFree /\ ui = "connected" /\ client.st = "dead" /\ ~lostNoticed
    /\ lostNoticed' = TRUE
    /\ popups' = Append(popups, "lost")
    /\ UNCHANGED <<ui, cancelled, inProgress, smart, selServer, token, job, client, crashed, pingVars>>

(* The message is closed: handleDisconnecting, then handleDefaultState,    *)
(* whatever happened while it was open.                                    *)
HandleDisconnecting ==
    /\ GuiFree /\ popups # << >>
    /\ popups' = SubSeq(popups, 1, Len(popups) - 1)
    /\ ui' = "none" /\ cancelled' = TRUE
    /\ inProgress' = (inProgress /\ popups[Len(popups)] # "failed")
    /\ StartPingMonitoring
    /\ StopVpn
    /\ UNCHANGED <<smart, selServer, token, job, lostNoticed>>

-----------------------------------------------------------------------------
(* startVpn, on the worker's thread                                        *)

Finish(ok) == job' = [job EXCEPT !.at = "finished", !.ok = ok]

GoOn(next) == job' = [job EXCEPT !.at = next]

(* if (cancel_connecting_) return false;                                   *)
UnlessCancelled(next) == IF cancelled THEN Finish(FALSE) ELSE GoOn(next)

CheckGateway ==
    /\ job.at = "gateway"
    /\ Finish(FALSE) \/ UnlessCancelled("search")
    /\ UNCHANGED <<ui, cancelled, inProgress, smart, selServer, token, client, popups,
                   lostNoticed, crashed, pingVars>>

(* Smart Connect: FindServerByLogin.                                       *)
FindBestServer ==
    /\ job.at = "search"
    /\ \/ ~smart /\ GoOn("resolve") /\ UNCHANGED <<selServer, token>>
       \/ smart /\ Finish(FALSE) /\ UNCHANGED <<selServer, token>>
       \/ /\ smart /\ GoOn("resolve")
          /\ \E s \in TrayServers : selServer' = s /\ token' = s
    /\ UNCHANGED <<ui, cancelled, inProgress, smart, client, popups, lostNoticed, crashed, pingVars>>

ResolveServer ==
    /\ job.at = "resolve"
    /\ \/ Finish(FALSE)
       \/ job' = IF cancelled THEN [job EXCEPT !.at = "finished", !.ok = FALSE]
                 ELSE [job EXCEPT !.at = "login", !.server = selServer]
    /\ UNCHANGED <<ui, cancelled, inProgress, smart, selServer, token, client, popups,
                   lostNoticed, crashed, pingVars>>

(* A token kept from an earlier search replaces the login.                 *)
LoginToServer ==
    /\ job.at = "login"
    /\ token' = NoServer
    /\ \/ token = NoServer /\ Finish(FALSE)
       \/ UnlessCancelled("dns")
    /\ UNCHANGED <<ui, cancelled, inProgress, smart, selServer, client, popups,
                   lostNoticed, crashed, pingVars>>

(* GetDns, the route manager and the plugins.                              *)
PrepareRoutes ==
    /\ job.at = "dns"
    /\ Finish(FALSE) \/ UnlessCancelled("build")
    /\ UNCHANGED <<ui, cancelled, inProgress, smart, selServer, token, client, popups,
                   lostNoticed, crashed, pingVars>>

(* vpn_client_ = std::make_unique<VpnManager>, replacing a leftover one.   *)
BuildClient ==
    /\ job.at = "build"
    /\ client' = [server |-> job.server, st |-> "built"]
    /\ UnlessCancelled("start")
    /\ UNCHANGED <<ui, cancelled, inProgress, smart, selServer, token, popups,
                   lostNoticed, crashed, pingVars>>

(* vpn_client_->Start(): the pointer may have been reset since the check.  *)
LaunchClient ==
    /\ job.at = "start"
    /\ IF client = NoClient THEN crashed' = TRUE /\ UNCHANGED <<client, job>>
       ELSE /\ client' = [client EXCEPT !.st = "starting"]
            /\ GoOn("starting")
            /\ UNCHANGED crashed
    /\ UNCHANGED <<ui, cancelled, inProgress, smart, selServer, token, popups, lostNoticed, pingVars>>

ClientStarted ==
    /\ job.at = "starting"
    /\ UnlessCancelled("wait")
    /\ UNCHANGED <<ui, cancelled, inProgress, smart, selServer, token, client, popups,
                   lostNoticed, crashed, pingVars>>

(* while (!vpn_client_->IsStarted()), for at most ten seconds; the flag is *)
(* not looked at, so a cancel here leaves a null pointer to follow.        *)
WaitUntilStarted ==
    /\ job.at = "wait"
    /\ \/ client = NoClient /\ crashed' = TRUE /\ UNCHANGED job
       \/ client # NoClient /\ Finish(client.st = "up" /\ ~cancelled) /\ UNCHANGED crashed
    /\ UNCHANGED <<ui, cancelled, inProgress, smart, selServer, token, client, popups,
                   lostNoticed, pingVars>>

StartVpn == ~crashed /\ (\/ CheckGateway \/ FindBestServer \/ ResolveServer \/ LoginToServer
                         \/ PrepareRoutes \/ BuildClient \/ LaunchClient \/ ClientStarted
                         \/ WaitUntilStarted)

(* The tunnel comes up, or goes down for good (IsStarted turns false).     *)
ClientUp ==
    /\ ~crashed /\ client.st = "starting"
    /\ client' = [client EXCEPT !.st = "up"]
    /\ UNCHANGED <<ui, cancelled, inProgress, smart, selServer, token, job, popups,
                   lostNoticed, crashed, pingVars>>

ClientDies ==
    /\ ~crashed /\ client.st \in {"starting", "up"}
    /\ client' = [client EXCEPT !.st = "dead"]
    /\ UNCHANGED <<ui, cancelled, inProgress, smart, selServer, token, job, popups,
                   lostNoticed, crashed, pingVars>>

Menu == OnConnectToServer \/ HandleDefaultState \/ OnDisconnectFromServer \/ Quit

GuiNext ==
    \/ Menu \/ WatcherFinished \/ HandleTimer \/ HandleDisconnecting
    \/ StartVpn \/ ClientUp \/ ClientDies
    \/ PingTimer \/ OnPingTimeout \/ PostPing
    \/ \E s \in TrayServers : PingServer(s)

GuiSpec == GuiInit /\ [][GuiNext]_guiVars

-----------------------------------------------------------------------------
(* Properties                                                              *)

(* The tray tells the truth, whatever is clicked while a worker runs or a  *)
(* message is open: shown connected, there is a client, for the server the *)
(* "Disconnect" entry names; shown disconnected or gone, with no worker at *)
(* work, no tunnel is up; and only one worker exists while the flag says   *)
(* so.                                                                     *)
TrayTellsTruth ==
    ~crashed =>
       /\ ui = "connected" => client # NoClient /\ client.server = selServer
       /\ ui \in {"none", "quit"} /\ job = NoJob => client.st \notin {"starting", "up"}
       /\ job # NoJob => inProgress

(* pending_pings_ is the number of pings posted or about to be, and no     *)
(* server is pinged twice at once, however many handlers the timer has.    *)
PingsCounted ==
    /\ pending = Cardinality(toPing) + Cardinality({s \in TrayServers : pingJobs[s] > 0})
    /\ \A s \in TrayServers : pingJobs[s] <= 1
=============================================================================
