----------------------------- MODULE CliClient ------------------------------
(***************************************************************************)
(* The command-line client from main to exit: the choice of a server, the  *)
(* login, the tunnel and its supervisor, the loop that waits for a signal, *)
(* and the clean-up.  The supervisor applies and cleans the routes on a    *)
(* thread of its own while main does so too; what the commands do to the   *)
(* system is in Routes, how the race picks a server in ServerSearch.       *)
(***************************************************************************)
EXTENDS Naturals, Sequences

CONSTANTS
    CliServers,       \* the servers of the access token
    Preferences,      \* possible values of --preferred-server, split
    MaxRestarts,      \* --max-full-restarts
    NoAccess

ASSUME MaxRestartsType == MaxRestarts \in Nat \ {0}

VARIABLES
    cli,        \* where main is; "terminated": std::terminate ended the process
    prefs,      \* preferred servers still to be looked at
    router,     \* --disable-routing: no RouteManager, unlimited restarts
    resolvable, \* servers whose host name resolves
    accepting,  \* servers that accept the user's login
    chosen,     \* selected_server
    access,     \* the server the access token was obtained from
    vpnUp,      \* VpnManager::running_
    http,       \* http_client: "none", "started", "connected", "down"
    everUp,     \* ever_connected_
    gaveUp,     \* gave_up_
    supervising, \* where Supervise is: "watching", "backoff", "apply", "restart"
    fullRestarts,   \* full_restart_count
    routesOn,   \* RouteManager::running_
    signalled   \* SIGINT or SIGTERM has come

cliVars == <<cli, prefs, router, resolvable, accepting, chosen, access, vpnUp, http,
             everUp, gaveUp, supervising, fullRestarts, routesOn, signalled>>
worldVars == <<router, resolvable, accepting>>
choiceVars == <<prefs, chosen, access>>
tunnelVars == <<vpnUp, http, everUp, gaveUp, supervising, fullRestarts, routesOn>>

CliInit ==
    /\ cli = "config"
    /\ prefs \in Preferences
    /\ router \in BOOLEAN
    /\ resolvable \in SUBSET CliServers
    /\ accepting \in SUBSET CliServers
    /\ chosen = NoAccess /\ access = NoAccess
    /\ vpnUp = FALSE /\ http = "none" /\ everUp = FALSE /\ gaveUp = FALSE
    /\ supervising = "none" /\ fullRestarts = 0
    /\ routesOn = FALSE /\ signalled = FALSE

-----------------------------------------------------------------------------
(* main, up to the tunnel                                                  *)

(* The name service may stop answering while main is at work.              *)
DnsFails(s) ==
    /\ cli \in {"config", "prefer", "race", "resolve"}
    /\ s \in resolvable
    /\ resolvable' = resolvable \ {s}
    /\ UNCHANGED <<cli, router, accepting, choiceVars, tunnelVars, signalled>>

(* Options, gateway and access token; each of them may end the program.    *)
ParseConfig ==
    /\ cli = "config"
    /\ cli' \in {"exit", IF prefs = << >> THEN "race" ELSE "prefer"}
    /\ UNCHANGED <<worldVars, choiceVars, tunnelVars, signalled>>

(* The next preferred server is taken if it is in the token (GetServer)    *)
(* and its host resolves; it is not asked for a login.                     *)
TryPreferred ==
    /\ cli = "prefer"
    /\ IF prefs = << >>
       THEN cli' = "race" /\ UNCHANGED <<prefs, chosen>>
       ELSE IF Head(prefs) \in CliServers /\ Head(prefs) \in resolvable
            THEN cli' = "resolve" /\ chosen' = Head(prefs) /\ UNCHANGED prefs
            ELSE prefs' = Tail(prefs) /\ UNCHANGED <<cli, chosen>>
    /\ UNCHANGED <<worldVars, access, tunnelVars, signalled>>

(* FindServerByLogin over all servers of the token.                        *)
LoginRace ==
    /\ cli = "race"
    /\ IF accepting \cap resolvable = {}
       THEN cli' = "exit" /\ UNCHANGED <<chosen, access>>
       ELSE \E s \in accepting \cap resolvable :
               cli' = "resolve" /\ chosen' = s /\ access' = s
    /\ UNCHANGED <<worldVars, prefs, tunnelVars, signalled>>

CliResolve ==
    /\ cli = "resolve"
    /\ cli' = IF chosen \in resolvable THEN "login" ELSE "exit"
    /\ UNCHANGED <<worldVars, choiceVars, tunnelVars, signalled>>

(* Login keeps a token that was set before; otherwise it asks the server.  *)
CliLogin ==
    /\ cli = "login"
    /\ IF access # NoAccess
       THEN cli' = "dns" /\ UNCHANGED access
       ELSE IF chosen \in accepting
            THEN cli' = "dns" /\ access' = chosen
            ELSE cli' = "exit" /\ UNCHANGED access
    /\ UNCHANGED <<worldVars, prefs, chosen, tunnelVars, signalled>>

CliGetDns ==
    /\ cli = "dns"
    /\ cli' \in {"start", "exit"}
    /\ UNCHANGED <<worldVars, choiceVars, tunnelVars, signalled>>

(* VpnManager::Start.  If the TUN device does not open, it leaves running_ *)
(* set and starts nothing else; main does not look at what it returns.     *)
CliStart ==
    /\ cli = "start"
    /\ cli' = "loop"
    /\ vpnUp' = TRUE
    /\ \/ /\ routesOn' = ~router
          /\ http' = "started" /\ supervising' = "watching"
       \/ UNCHANGED <<routesOn, http, supervising>>
    /\ UNCHANGED <<worldVars, choiceVars, everUp, gaveUp, fullRestarts, signalled>>

-----------------------------------------------------------------------------
(* The tunnel: ConnectionManager connects, loses the connection, and ends  *)
(* by itself when its own reconnections are used up.  Its thread is then   *)
(* never joined: Stop sees running_ clear and returns.                     *)

HttpMoves ==
    /\ \/ http = "started" /\ http' = "connected"
       \/ http = "connected" /\ http' = "started"
       \/ http = "started" /\ http' = "down"
    /\ UNCHANGED <<cli, worldVars, choiceVars, vpnUp, everUp, gaveUp, supervising,
                   fullRestarts, routesOn, signalled>>

(* A round of Supervise's loop, every two seconds or when woken.  Without  *)
(* a limit the number of restarts is not told apart.                       *)
Supervise ==
    /\ supervising = "watching"
    /\ CASE ~vpnUp -> supervising' = "ended" /\ UNCHANGED <<everUp, gaveUp, fullRestarts, routesOn, http>>
         [] vpnUp /\ http = "connected" ->
               everUp' = TRUE /\ fullRestarts' = 0 /\ UNCHANGED <<supervising, gaveUp, routesOn, http>>
         [] vpnUp /\ http = "started" ->
               UNCHANGED <<supervising, everUp, gaveUp, fullRestarts, routesOn, http>>
         [] vpnUp /\ http = "down" /\ ~router /\ fullRestarts = MaxRestarts ->
               /\ supervising' = "ended" /\ gaveUp' = TRUE /\ routesOn' = FALSE
               /\ UNCHANGED <<everUp, fullRestarts, http>>
         [] OTHER ->
               /\ fullRestarts' = IF router THEN 1 ELSE fullRestarts + 1
               /\ routesOn' = FALSE /\ supervising' = "backoff"
               /\ UNCHANGED <<everUp, gaveUp, http>>
    /\ UNCHANGED <<cli, worldVars, choiceVars, vpnUp, signalled>>

(* After the backoff running_ is read once more ...                        *)
BackoffEnds ==
    /\ supervising = "backoff"
    /\ supervising' = IF vpnUp THEN "apply" ELSE "ended"
    /\ UNCHANGED <<cli, worldVars, choiceVars, vpnUp, http, everUp, gaveUp, fullRestarts,
                   routesOn, signalled>>

(* ... the routes are applied ...                                          *)
ApplyAgain ==
    /\ supervising = "apply"
    /\ routesOn' = ~router
    /\ supervising' = "restart"
    /\ UNCHANGED <<cli, worldVars, choiceVars, vpnUp, http, everUp, gaveUp, fullRestarts,
                   signalled>>

(* ... and Start assigns to the thread nobody joined: std::terminate.  No  *)
(* restart outlives this, and so Supervise never counts up to its limit.   *)
StartAgain ==
    /\ supervising = "restart" /\ cli # "terminated"
    /\ cli' = "terminated"
    /\ UNCHANGED <<worldVars, choiceVars, tunnelVars, signalled>>

-----------------------------------------------------------------------------
(* WaitForSignal and the clean-up                                          *)

(* VpnManager::IsStarted: before the first connection it says whether the  *)
(* client is started, afterwards whether the supervisor has given up.      *)
VpnIsStarted == vpnUp /\ ~gaveUp /\ (everUp \/ http \in {"started", "connected"})

CheckConnection ==
    /\ cli = "loop"
    /\ ~VpnIsStarted
    /\ cli' = "clean"
    /\ UNCHANGED <<worldVars, choiceVars, tunnelVars, signalled>>

OnSignal ==
    /\ cli = "loop"
    /\ cli' = "clean"
    /\ signalled' = TRUE
    /\ UNCHANGED <<worldVars, choiceVars, tunnelVars>>

(* RouteManager::Clean, while the supervisor is still running.             *)
MainClean ==
    /\ cli = "clean"
    /\ cli' = "stop"
    /\ routesOn' = FALSE
    /\ UNCHANGED <<worldVars, choiceVars, vpnUp, http, everUp, gaveUp, supervising,
                   fullRestarts, signalled>>

(* VpnManager::Stop lowers running_, then joins the supervisor ...         *)
MainStop ==
    /\ cli = "stop"
    /\ vpnUp' = FALSE
    /\ cli' = "join"
    /\ UNCHANGED <<worldVars, choiceVars, http, everUp, gaveUp, supervising, fullRestarts,
                   routesOn, signalled>>

(* Wrong variant: Stop does not join the supervisor.                       *)
MainJoin_NoJoin ==
    /\ cli = "join"
    /\ IF http = "down" THEN cli' = "terminated" /\ UNCHANGED http
       ELSE cli' = "destroy" /\ http' = "none"
    /\ UNCHANGED <<worldVars, choiceVars, vpnUp, everUp, gaveUp, supervising, fullRestarts,
                   routesOn, signalled>>

(* ... and destroys the client; one that ended by itself still has its     *)
(* thread, and that terminates the program.                                *)
MainJoin ==
    /\ cli = "join"
    /\ supervising \in {"none", "ended"}
    /\ IF http = "down" THEN cli' = "terminated" /\ UNCHANGED http
       ELSE cli' = "destroy" /\ http' = "none"
    /\ UNCHANGED <<worldVars, choiceVars, vpnUp, everUp, gaveUp, supervising, fullRestarts,
                   routesOn, signalled>>

(* ~RouteManager cleans what is still applied.                             *)
DestroyRoutes ==
    /\ cli = "destroy"
    /\ cli' = "exit"
    /\ routesOn' = FALSE
    /\ UNCHANGED <<worldVars, choiceVars, vpnUp, http, everUp, gaveUp, supervising,
                   fullRestarts, signalled>>

CliNext ==
    \/ ParseConfig \/ TryPreferred \/ LoginRace \/ CliResolve \/ CliLogin \/ CliGetDns
    \/ CliStart \/ HttpMoves \/ Supervise \/ BackoffEnds \/ ApplyAgain
    \/ StartAgain
    \/ \E s \in CliServers : DnsFails(s)
    \/ CheckConnection \/ OnSignal \/ MainClean \/ MainStop \/ MainJoin \/ DestroyRoutes

CliSpec == CliInit /\ [][CliNext]_cliVars

-----------------------------------------------------------------------------
(* Properties                                                              *)

(* However main's clean-up and the supervisor's restart interleave, main   *)
(* ends without routes applied and with no thread of the tunnel left.  The *)
(* one exception is a client that used up its own reconnections: then the  *)
(* process is terminated, by main with the routes cleaned or by the        *)
(* supervisor's restart, which leaves them applied.  And a tunnel only     *)
(* ever runs to the server that issued its token.                          *)
ExitsClean ==
    /\ cli = "exit" => ~routesOn /\ supervising \in {"none", "ended"} /\ http = "none"
    /\ cli = "terminated" => http = "down" /\ (routesOn => supervising = "restart")
    /\ vpnUp => access = chosen /\ chosen \in accepting
=============================================================================
