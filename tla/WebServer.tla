----------------------------- MODULE WebServer -----------------------------
(***************************************************************************)
(* web::Server and the life of its web::Sessions over the NAT table: the   *)
(* open callback, Session::Close and the close callback, the thread that   *)
(* expires connections (Manager::RunUpdateConnectionsStatus) and shutdown  *)
(* (Manager::Stop, Server::Stop).                                          *)
(*                                                                         *)
(* One WebSocket connection is one Session; its coroutines share a strand, *)
(* so a session is one sequential actor, named by its ClientID.  The       *)
(* updater and the stopping thread are two more.  All of them may call     *)
(* Close on the same session.                                              *)
(*                                                                         *)
(* A critical section in which the caller waits for nothing is one step.   *)
(* Server::Stop keeps Server::mutex_ while it waits, so the lock is a      *)
(* variable that only Stop holds across steps; a Session::mutex_ is held   *)
(* across steps by whoever tears the session down.                         *)
(***************************************************************************)
EXTENDS NatTable

CONSTANTS
    Requests,    \* [session_id, username, profile] a client may ask for
    MaxActive,   \* max_active_sessions_per_user
    Updater,     \* the thread of RunUpdateConnectionsStatus
    Stopper      \* the thread that runs Manager::Stop

Actors == Clients \cup {Updater, Stopper}

ASSUME ActorsDistinct ==
    /\ Updater \notin Clients /\ Stopper \notin Clients /\ Updater # Stopper
    /\ Null \notin Actors

ASSUME RequestType ==
    Requests \subseteq [session_id : Sessions, username : Users,
                        profile : Profiles]

ASSUME MaxActiveType == MaxActive \in Nat

VARIABLES
    strand,       \* where the coroutines of each session are
    request,      \* the request a session was opened with
    running,      \* Session::running_
    was_opened,   \* Session::ws_session_was_opened_
    sess_lock,    \* holder of each Session::mutex_
    closing,      \* [at, of] of each actor: its position in Close of a session
    sessions,     \* Server::sessions_ (the keys)
    srv_running,  \* Server::running_
    srv_lock,     \* Server::mutex_ held across steps
    todo,         \* sessions the updater and the stopper have yet to close
    updater,      \* position of the updater
    stopper       \* position of the stopping thread

webVars == <<strand, request, running, was_opened, sess_lock, closing,
             sessions, srv_running, srv_lock, todo, updater, stopper>>
allVars == <<natVars, webVars>>

NotClosing == [at |-> "no", of |-> Null]

WebInit ==
    /\ NatInit
    /\ strand = [c \in Clients |-> "none"]
    /\ request = [c \in Clients |-> Null]
    /\ running = [c \in Clients |-> FALSE]
    /\ was_opened = [c \in Clients |-> FALSE]
    /\ sess_lock = [c \in Clients |-> Null]
    /\ closing = [x \in Actors |-> NotClosing]
    /\ sessions = {}
    /\ srv_running = TRUE
    /\ srv_lock = Null
    /\ todo = [x \in {Updater, Stopper} |-> {}]
    /\ updater = "idle"
    /\ stopper = "idle"

Idle(x) == closing[x] = NotClosing

(* A call of Close on session c by actor x.                                *)
CallClose(x, c) == closing' = [closing EXCEPT ![x] = [at |-> "check", of |-> c]]

(* ioc_.stop() has been called: no handler of a session starts any more.   *)
IocStopped == stopper \in {"join", "updater", "done"}

-----------------------------------------------------------------------------
(* The session's own coroutine.  It is suspended at "reading", "accepting" *)
(* and "serving"; elsewhere it occupies a thread of the io_context.        *)

Suspended(c) ==
    /\ strand[c] \in {"none", "reading", "accepting", "serving", "done"}
    /\ Idle(c)

(* Listener::Run accepts a socket and spawns Session::Run.  Listener::Stop *)
(* is called after Server::running_ is cleared, before the lock.           *)
Accept(c) ==
    /\ strand[c] = "none"
    /\ stopper \in {"idle", "lock"}
    /\ strand' = [strand EXCEPT ![c] = "reading"]
    /\ running' = [running EXCEPT ![c] = TRUE]
    /\ UNCHANGED <<natVars, request, was_opened, sess_lock, closing, sessions,
                   srv_running, srv_lock, todo, updater, stopper>>

(* The session gives up: a failed handshake, a plain HTTP exchange, a read *)
(* or write error, the end of the peer.  Every way out of Run, RunReader   *)
(* and RunSender calls Close.                                              *)
GiveUp(c) ==
    /\ strand[c] \in {"reading", "accepting", "serving"}
    /\ ~IocStopped
    /\ strand' = [strand EXCEPT ![c] = "done"]
    /\ CallClose(c, c)
    /\ UNCHANGED <<natVars, request, running, was_opened, sess_lock, sessions,
                   srv_running, srv_lock, todo, updater, stopper>>

(* HandleWsOpenConnection up to its lock: url, token and session limit.    *)
LimitExceeded(u) == GetNumberActiveSessionByUsername(u) > MaxActive

OpenRequest(c, q) ==
    /\ strand[c] = "reading"
    /\ ~IocStopped
    /\ srv_running
    /\ ~LimitExceeded(q.username)
    /\ strand' = [strand EXCEPT ![c] = "open"]
    /\ request' = [request EXCEPT ![c] = q]
    /\ UNCHANGED <<natVars, running, was_opened, sess_lock, closing, sessions,
                   srv_running, srv_lock, todo, updater, stopper>>

(* HandleWsOpenConnection under Server::mutex_, with a NAT entry made.     *)
OpenInsert(c) ==
    LET q == request[c]
    IN  /\ strand[c] = "open"
        /\ srv_lock = Null
        /\ srv_running
        /\ c \notin sessions
        /\ AddConnection(c, q.session_id, q.username, q.profile)
        /\ sessions' = sessions \cup {c}
        /\ strand' = [strand EXCEPT ![c] = "inserted"]
        /\ UNCHANGED <<request, running, was_opened, sess_lock, closing,
                       srv_running, srv_lock, todo, updater, stopper>>

(* ... and when it returns nullptr: HandleWebSocket fails, Run closes.     *)
OpenRefused(c) ==
    /\ strand[c] = "open"
    /\ srv_lock = Null
    /\ \/ ~srv_running
       \/ c \in sessions
       \/ AddConnectionRefused(request[c].session_id, request[c].username)
    /\ strand' = [strand EXCEPT ![c] = "done"]
    /\ CallClose(c, c)
    /\ UNCHANGED <<natVars, request, running, was_opened, sess_lock, sessions,
                   srv_running, srv_lock, todo, updater, stopper>>

(* Wrong variant: the session is never marked as opened.                   *)
MarkOpened_Forgotten(c) ==
    /\ strand[c] = "inserted"
    /\ strand' = [strand EXCEPT ![c] = "accepting"]
    /\ UNCHANGED <<natVars, request, running, was_opened, sess_lock, closing,
                   sessions, srv_running, srv_lock, todo, updater, stopper>>

(* Back in HandleWebSocket: only now is the session marked as opened.      *)
MarkOpened(c) ==
    /\ strand[c] = "inserted"
    /\ was_opened' = [was_opened EXCEPT ![c] = TRUE]
    /\ strand' = [strand EXCEPT ![c] = "accepting"]
    /\ UNCHANGED <<natVars, request, running, sess_lock, closing, sessions,
                   srv_running, srv_lock, todo, updater, stopper>>

(* async_accept and the IP assignment succeed, RunReader and RunSender     *)
(* start.  On a socket that Close has closed they fail (GiveUp).           *)
Serve(c) ==
    /\ strand[c] = "accepting"
    /\ running[c]
    /\ ~IocStopped
    /\ strand' = [strand EXCEPT ![c] = "serving"]
    /\ UNCHANGED <<natVars, request, running, was_opened, sess_lock, closing,
                   sessions, srv_running, srv_lock, todo, updater, stopper>>

-----------------------------------------------------------------------------
(* Session::Close, by any actor.                                           *)

At(x, where) == closing[x].at = where

Goto(x, where) == closing' = [closing EXCEPT ![x].at = where]

Return(x) == closing' = [closing EXCEPT ![x] = NotClosing]

CloseCheck(x) ==
    /\ At(x, "check")
    /\ IF running[closing[x].of] THEN Goto(x, "lock") ELSE Return(x)
    /\ UNCHANGED <<natVars, strand, request, running, was_opened, sess_lock,
                   sessions, srv_running, srv_lock, todo, updater, stopper>>

(* Wrong variant: running_ is left for the end of Close to clear.          *)
CloseLock_FlagLast(x) ==
    LET c == closing[x].of
    IN  /\ At(x, "lock")
        /\ sess_lock[c] = Null
        /\ IF running[c]
           THEN /\ sess_lock' = [sess_lock EXCEPT ![c] = x]
                /\ Goto(x, "teardown")
           ELSE /\ Return(x)
                /\ UNCHANGED sess_lock
        /\ UNCHANGED <<natVars, strand, request, running, was_opened, sessions,
                       srv_running, srv_lock, todo, updater, stopper>>

(* The mutex is taken, running_ is checked again and cleared.              *)
CloseLock(x) ==
    LET c == closing[x].of
    IN  /\ At(x, "lock")
        /\ sess_lock[c] = Null
        /\ IF running[c]
           THEN /\ sess_lock' = [sess_lock EXCEPT ![c] = x]
                /\ running' = [running EXCEPT ![c] = FALSE]
                /\ Goto(x, "teardown")
           ELSE /\ Return(x)
                /\ UNCHANGED <<sess_lock, running>>
        /\ UNCHANGED <<natVars, strand, request, was_opened, sessions,
                       srv_running, srv_lock, todo, updater, stopper>>

(* Channel, socket and streams are closed; was there a session to report?  *)
CloseTeardown(x) ==
    LET c == closing[x].of
    IN  /\ At(x, "teardown")
        /\ IF was_opened[c]
           THEN Goto(x, "callback") /\ UNCHANGED sess_lock
           ELSE Return(x) /\ sess_lock' = [sess_lock EXCEPT ![c] = Null]
        /\ UNCHANGED <<natVars, strand, request, running, was_opened, sessions,
                       srv_running, srv_lock, todo, updater, stopper>>

(* Wrong variant: the callback always takes Server::mutex_.                *)
CloseCallback_AlwaysLock(x) ==
    /\ At(x, "callback")
    /\ Goto(x, "erase")
    /\ UNCHANGED <<natVars, strand, request, running, was_opened, sess_lock,
                   sessions, srv_running, srv_lock, todo, updater, stopper>>

(* HandleWsCloseConnection: Server::running_ decides whether to lock.      *)
CloseCallback(x) ==
    /\ At(x, "callback")
    /\ Goto(x, IF srv_running THEN "erase" ELSE "del")
    /\ UNCHANGED <<natVars, strand, request, running, was_opened, sess_lock,
                   sessions, srv_running, srv_lock, todo, updater, stopper>>

(* Wrong variant: the callback is done once the session is erased.         *)
CloseErase_NatForgotten(x) ==
    /\ At(x, "erase")
    /\ srv_lock = Null
    /\ sessions' = sessions \ {closing[x].of}
    /\ sess_lock' = [sess_lock EXCEPT ![closing[x].of] = Null]
    /\ Return(x)
    /\ UNCHANGED <<natVars, strand, request, running, was_opened,
                   srv_running, srv_lock, todo, updater, stopper>>

(* The session is taken out of sessions_ under Server::mutex_.             *)
CloseErase(x) ==
    LET c == closing[x].of
    IN  /\ At(x, "erase")
        /\ srv_lock = Null
        /\ sessions' = sessions \ {c}
        /\ Goto(x, IF c \in sessions THEN "nested" ELSE "del")
        /\ UNCHANGED <<natVars, strand, request, running, was_opened,
                       sess_lock, srv_running, srv_lock, todo, updater, stopper>>

(* The callback calls Close on the session it erased, whose mutex its      *)
(* caller holds: the call returns only if running_ is false by now.        *)
CloseNested(x) ==
    /\ At(x, "nested")
    /\ ~running[closing[x].of]
    /\ Goto(x, "del")
    /\ UNCHANGED <<natVars, strand, request, running, was_opened, sess_lock,
                   sessions, srv_running, srv_lock, todo, updater, stopper>>

(* Wrong variant: the client index is cleaned, the session is not.         *)
CloseDel_IndexOnly(x) ==
    LET c == closing[x].of
    IN  /\ At(x, "del")
        /\ client_to_mplx' = [client_to_mplx EXCEPT ![c] = Null]
        /\ sess_lock' = [sess_lock EXCEPT ![c] = Null]
        /\ Return(x)
        /\ UNCHANGED <<now, free_ipv4, free_ipv6, session_to_mplx,
                       ipv4_to_mplx, ipv6_to_mplx, heap, sending, receiving,
                       conn, sweep, strand, request, running, was_opened,
                       sessions, srv_running, srv_lock, todo, updater, stopper>>

(* nat_table_->DelConnectionByClientId, and the end of Close.              *)
CloseDel(x) ==
    LET c == closing[x].of
    IN  /\ At(x, "del")
        /\ \/ DelConnectionByClientId(c)
           \/ client_to_mplx[c] = Null /\ UNCHANGED natVars
        /\ sess_lock' = [sess_lock EXCEPT ![c] = Null]
        /\ Return(x)
        /\ UNCHANGED <<strand, request, running, was_opened, sessions,
                       srv_running, srv_lock, todo, updater, stopper>>

CloseStep(x) ==
    \/ CloseCheck(x) \/ CloseLock(x) \/ CloseTeardown(x)
    \/ CloseCallback(x) \/ CloseErase(x) \/ CloseNested(x) \/ CloseDel(x)

-----------------------------------------------------------------------------
(* Manager::RunUpdateConnectionsStatus                                     *)

UpdateSweep ==
    /\ updater = "idle"
    /\ stopper = "idle"
    /\ SweepBuckets
    /\ updater' = IF sweep'.pending THEN "commit" ELSE "idle"
    /\ UNCHANGED <<strand, request, running, was_opened, sess_lock, closing,
                   sessions, srv_running, srv_lock, todo, stopper>>

UpdateCommit ==
    /\ updater = "commit"
    /\ SweepCommit
    /\ todo' = [todo EXCEPT ![Updater] = sweep.expired]
    /\ updater' = "closing"
    /\ UNCHANGED <<strand, request, running, was_opened, sess_lock, closing,
                   sessions, srv_running, srv_lock, stopper>>

(* GetSessionById (a shared lock of Server::mutex_) and Close.             *)
UpdateClose(c) ==
    /\ updater = "closing"
    /\ Idle(Updater)
    /\ c \in todo[Updater]
    /\ srv_lock = Null
    /\ todo' = [todo EXCEPT ![Updater] = @ \ {c}]
    /\ IF c \in sessions THEN CallClose(Updater, c) ELSE UNCHANGED closing
    /\ UNCHANGED <<natVars, strand, request, running, was_opened, sess_lock,
                   sessions, srv_running, srv_lock, updater, stopper>>

UpdateSleep ==
    /\ updater = "closing"
    /\ Idle(Updater)
    /\ todo[Updater] = {}
    /\ updater' = "idle"
    /\ UNCHANGED <<natVars, strand, request, running, was_opened, sess_lock,
                   closing, sessions, srv_running, srv_lock, todo, stopper>>

-----------------------------------------------------------------------------
(* Manager::Stop and Server::Stop                                          *)

StopBegin ==
    /\ stopper = "idle"
    /\ srv_running' = FALSE
    /\ stopper' = "lock"
    /\ UNCHANGED <<natVars, strand, request, running, was_opened, sess_lock,
                   closing, sessions, srv_lock, todo, updater>>

StopLock ==
    /\ stopper = "lock"
    /\ srv_lock' = Stopper
    /\ todo' = [todo EXCEPT ![Stopper] = sessions]
    /\ stopper' = "closing"
    /\ UNCHANGED <<natVars, strand, request, running, was_opened, sess_lock,
                   closing, sessions, srv_running, updater>>

StopClose(c) ==
    /\ stopper = "closing"
    /\ Idle(Stopper)
    /\ c \in todo[Stopper]
    /\ todo' = [todo EXCEPT ![Stopper] = @ \ {c}]
    /\ CallClose(Stopper, c)
    /\ UNCHANGED <<natVars, strand, request, running, was_opened, sess_lock,
                   sessions, srv_running, srv_lock, updater, stopper>>

(* sessions_.clear() and ioc_.stop().                                      *)
StopIoc ==
    /\ stopper = "closing"
    /\ Idle(Stopper)
    /\ todo[Stopper] = {}
    /\ sessions' = {}
    /\ stopper' = "join"
    /\ UNCHANGED <<natVars, strand, request, running, was_opened, sess_lock,
                   closing, srv_running, srv_lock, todo, updater>>

(* Wrong variant: without ioc_.stop() the threads return when no coroutine *)
(* is left.                                                                *)
StopJoin_NoIocStop ==
    /\ stopper = "join"
    /\ \A c \in Clients : strand[c] \in {"none", "done"} /\ Idle(c)
    /\ srv_lock' = Null
    /\ stopper' = "updater"
    /\ UNCHANGED <<natVars, strand, request, running, was_opened, sess_lock,
                   closing, sessions, srv_running, todo, updater>>

(* The io_context's threads are joined with Server::mutex_ still held.     *)
StopJoin ==
    /\ stopper = "join"
    /\ \A c \in Clients : Suspended(c)
    /\ srv_lock' = Null
    /\ stopper' = "updater"
    /\ UNCHANGED <<natVars, strand, request, running, was_opened, sess_lock,
                   closing, sessions, srv_running, todo, updater>>

StopJoinUpdater ==
    /\ stopper = "updater"
    /\ updater = "idle"
    /\ stopper' = "done"
    /\ UNCHANGED <<natVars, strand, request, running, was_opened, sess_lock,
                   closing, sessions, srv_running, srv_lock, todo, updater>>

-----------------------------------------------------------------------------
SessionStep(c) ==
    \/ \E q \in Requests : OpenRequest(c, q)
    \/ OpenInsert(c) \/ OpenRefused(c) \/ MarkOpened(c) \/ Serve(c)

UpdaterStep ==
    \/ UpdateSweep \/ UpdateCommit \/ UpdateSleep
    \/ \E c \in Clients : UpdateClose(c)

StopperStep ==
    \/ StopLock \/ StopIoc \/ StopJoin \/ StopJoinUpdater
    \/ \E c \in Clients : StopClose(c)

WebNext ==
    \/ \E c \in Clients : Accept(c) \/ GiveUp(c) \/ SessionStep(c)
    \/ \E x \in Actors : CloseStep(x)
    \/ UpdaterStep
    \/ StopBegin
    \/ StopperStep
    \/ Tick /\ UNCHANGED webVars

WebSpec == WebInit /\ [][WebNext]_allVars

(***************************************************************************)
(* A thread that is inside a handler, the updater and the stopping thread  *)
(* go on as long as they are not blocked.  Peers owe us nothing: nothing   *)
(* makes a client connect, send its request or hang up.                    *)
(***************************************************************************)
WebFairness ==
    /\ \A c \in Clients :
          WF_allVars(OpenInsert(c) \/ OpenRefused(c) \/ MarkOpened(c))
    /\ \A x \in Actors : WF_allVars(CloseStep(x))
    /\ WF_allVars(UpdaterStep)
    /\ WF_allVars(StopperStep)
    /\ WF_allVars(Tick /\ UNCHANGED webVars)

FairWebSpec == WebSpec /\ WebFairness

-----------------------------------------------------------------------------
(* Properties                                                              *)

(* The type of every variable of the server; an actor inside Close is      *)
(* inside the Close of some session.                                       *)
WebTypeOK ==
    /\ strand \in [Clients -> {"none", "reading", "open", "inserted",
                               "accepting", "serving", "done"}]
    /\ request \in [Clients -> Requests \cup {Null}]
    /\ running \in [Clients -> BOOLEAN]
    /\ was_opened \in [Clients -> BOOLEAN]
    /\ sess_lock \in [Clients -> Actors \cup {Null}]
    /\ closing \in [Actors -> {NotClosing} \cup
                       [at : {"check", "lock", "teardown", "callback",
                              "erase", "nested", "del"}, of : Clients]]
    /\ sessions \subseteq Clients
    /\ srv_running \in BOOLEAN
    /\ srv_lock \in {Null, Stopper}
    /\ todo \in [{Updater, Stopper} -> SUBSET Clients]
    /\ updater \in {"idle", "commit", "closing"}
    /\ stopper \in {"idle", "lock", "closing", "join", "updater", "done"}

TearsDown(x, c) == closing[x].of = c /\ sess_lock[c] = x

(* Server::mutex_ and Session::mutex_ are taken in both orders (Stop: the  *)
(* server's first; the close callback: the session's first), and yet Stop  *)
(* never waits for a session whose holder waits for the server: that       *)
(* holder would have seen Server::running_ false (HandleWsCloseConnection).*)
NoLockCycle ==
    \A x \in Actors, c \in Clients :
       ~ /\ srv_lock = Stopper
         /\ At(Stopper, "lock") /\ closing[Stopper].of = c
         /\ TearsDown(x, c) /\ At(x, "erase")

(* No orphaned NAT entry: while the server runs, a connection the table    *)
(* routes belongs to a session that is running or is being torn down by    *)
(* somebody who has yet to delete the entry.                               *)
NatEntryHasOwner ==
    \A c \in Clients :
       srv_running /\ client_to_mplx[c] # Null =>
          running[c] \/ \E x \in Actors : TearsDown(x, c)

(* What NAT hands to RunToClient can be delivered: while the server runs a *)
(* connection in a receiving bucket is one GetSessionById finds, unless    *)
(* its teardown is already past sessions_.erase.                           *)
ReceiversDeliverable ==
    \A m \in Mplx : \A c \in receiving[m] :
       srv_running => c \in sessions
                      \/ \E x \in Actors : TearsDown(x, c)
                                            /\ closing[x].at \in {"nested", "del"}

(* The server drives the table as the table expects: every step of the     *)
(* server is a step of NatTable or leaves the table alone.                 *)
DrivesNatTable == NatSpec

(* While nobody stops the server, every Close returns, whoever else closes *)
(* the same session or opens another one.                                  *)
CloseReturns ==
    [](stopper = "idle") => \A x \in Actors : At(x, "check") ~> Idle(x)

(* An io_context thread waits for Server::mutex_ while Stop holds it.      *)
IocWaitsForStop ==
    /\ srv_lock = Stopper
    /\ \E c \in Clients : strand[c] = "open" \/ At(c, "erase")
                          \/ (At(c, "lock") /\ sess_lock[c] # Null)

(* Stop returns unless an io_context thread was already on its way to      *)
(* Server::mutex_ when Stop took it; then Stop joins a thread that waits   *)
(* for Stop.                                                               *)
StopReturnsUnlessRaced ==
    []~IocWaitsForStop => (stopper = "lock" ~> stopper = "done")

(* The server keeps no closed session: Close "triggers the close callback  *)
(* -> NAT/table cleanup".                                                  *)
ClosedSessionForgotten ==
    \A c \in Clients :
       srv_running /\ c \in sessions /\ strand[c] = "done" /\ ~running[c] =>
          \E x \in Actors : closing[x].of = c

(* At most max_active_sessions_per_user sessions of a user are active.     *)
SessionLimit ==
    \A u \in Users : GetNumberActiveSessionByUsername(u) <= MaxActive
=============================================================================
