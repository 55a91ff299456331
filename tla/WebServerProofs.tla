-------------------------- MODULE WebServerProofs --------------------------
(***************************************************************************)
(* The web server drives the NAT table only through the table's own        *)
(* operations, so what is proved of the table holds in the server; and     *)
(* whoever closes a session, locks never cycle and entries of the table    *)
(* never lose their owner.                                                 *)
(***************************************************************************)
EXTENDS WebServer, NatTableProofs

(* A session that is about to open has a request to open with.             *)
OpenHasRequest ==
    \A c \in Clients : strand[c] = "open" => request[c] \in Requests

WebInv == WebTypeOK /\ OpenHasRequest

LEMMA WebInitInv ==
    ASSUME WebInit
    PROVE  WebInv
BY DEF WebInit, WebInv, WebTypeOK, OpenHasRequest

(* The steps of a session's own coroutine.                                 *)
LEMMA SessionKeepsInv ==
    ASSUME WebInv, NEW c \in Clients, Accept(c) \/ GiveUp(c) \/ SessionStep(c)
    PROVE  WebInv'
<1> USE DEF WebInv, WebTypeOK, OpenHasRequest
<1>1. CASE Accept(c)
  BY <1>1 DEF Accept
<1>2. CASE GiveUp(c)
  BY <1>2 DEF GiveUp, CallClose, Actors
<1>3. ASSUME NEW q \in Requests, OpenRequest(c, q)
      PROVE  WebInv'
  BY <1>3 DEF OpenRequest
<1>4. CASE OpenInsert(c)
  BY <1>4 DEF OpenInsert
<1>5. CASE OpenRefused(c)
  BY <1>5 DEF OpenRefused, CallClose, Actors
<1>6. CASE MarkOpened(c)
  BY <1>6 DEF MarkOpened
<1>7. CASE Serve(c)
  BY <1>7 DEF Serve
<1> QED
  BY <1>1, <1>2, <1>3, <1>4, <1>5, <1>6, <1>7 DEF SessionStep

(* The steps of Close.                                                     *)
LEMMA CloseKeepsInv ==
    ASSUME WebInv, NEW x \in Actors, CloseStep(x)
    PROVE  WebInv'
<1> USE DEF WebInv, WebTypeOK, OpenHasRequest, At, Goto, Return
<1>1. closing[x] # NotClosing => closing[x].of \in Clients
  OBVIOUS
<1>2. closing[x].at # "no" => closing[x] # NotClosing
  BY DEF NotClosing
<1>3. CASE CloseCheck(x)
  <2>1. closing' = [closing EXCEPT ![x].at = "lock"]
        \/ closing' = [closing EXCEPT ![x] = NotClosing]
    BY <1>3 DEF CloseCheck
  <2>2. closing[x].at = "check"
    BY <1>3 DEF CloseCheck
  <2>3. closing' \in [Actors -> {NotClosing} \cup
                       [at : {"check", "lock", "teardown", "callback",
                              "erase", "nested", "del"}, of : Clients]]
    BY <1>1, <1>2, <2>1, <2>2
  <2> QED
    BY <1>3, <2>3 DEF CloseCheck
<1>4. CASE CloseLock(x)
  <2>1. closing[x].at = "lock" /\ closing[x].of \in Clients
    BY <1>1, <1>2, <1>4 DEF CloseLock
  <2>2. CASE running[closing[x].of]
    <3>1. closing' = [closing EXCEPT ![x].at = "teardown"]
      BY <1>4, <2>2 DEF CloseLock
    <3>2. closing' \in [Actors -> {NotClosing} \cup
                         [at : {"check", "lock", "teardown", "callback",
                                "erase", "nested", "del"}, of : Clients]]
      BY <1>1, <1>2, <2>1, <3>1
    <3>3. /\ sess_lock' \in [Clients -> Actors \cup {Null}]
          /\ running' \in [Clients -> BOOLEAN]
      BY <1>4, <2>1, <2>2 DEF CloseLock
    <3> QED
      BY <1>4, <3>2, <3>3 DEF CloseLock
  <2>3. CASE ~running[closing[x].of]
    BY <1>4, <2>1, <2>3 DEF CloseLock
  <2> QED
    BY <2>2, <2>3
<1>5. CASE CloseTeardown(x)
  BY <1>1, <1>2, <1>5 DEF CloseTeardown
<1>6. CASE CloseCallback(x)
  BY <1>1, <1>2, <1>6 DEF CloseCallback
<1>7. CASE CloseErase(x)
  BY <1>1, <1>2, <1>7 DEF CloseErase
<1>8. CASE CloseNested(x)
  BY <1>1, <1>2, <1>8 DEF CloseNested
<1>9. CASE CloseDel(x)
  BY <1>1, <1>2, <1>9 DEF CloseDel
<1> QED
  BY <1>3, <1>4, <1>5, <1>6, <1>7, <1>8, <1>9 DEF CloseStep

(* The steps of the updater and of the stopping thread.                    *)
LEMMA ThreadsKeepInv ==
    ASSUME NatTypeOK, WebInv, UpdaterStep \/ StopBegin \/ StopperStep
    PROVE  WebInv'
<1> USE DEF WebInv, WebTypeOK, OpenHasRequest
<1>1. CASE UpdateSweep
  BY <1>1 DEF UpdateSweep
<1>2. CASE UpdateCommit
  <2>1. sweep.expired \subseteq Clients
    BY DEF NatTypeOK
  <2> QED
    BY <1>2, <2>1 DEF UpdateCommit
<1>3. ASSUME NEW c \in Clients, UpdateClose(c)
      PROVE  WebInv'
  BY <1>3 DEF UpdateClose, CallClose, Actors
<1>4. CASE UpdateSleep
  BY <1>4 DEF UpdateSleep
<1>5. CASE StopBegin
  BY <1>5 DEF StopBegin
<1>6. CASE StopLock
  BY <1>6 DEF StopLock
<1>7. ASSUME NEW c \in Clients, StopClose(c)
      PROVE  WebInv'
  BY <1>7 DEF StopClose, CallClose, Actors
<1>8. CASE StopIoc
  BY <1>8 DEF StopIoc
<1>9. CASE StopJoin
  BY <1>9 DEF StopJoin
<1>10. CASE StopJoinUpdater
  BY <1>10 DEF StopJoinUpdater
<1> QED
  BY <1>1, <1>2, <1>3, <1>4, <1>5, <1>6, <1>7, <1>8, <1>9, <1>10
     DEF UpdaterStep, StopperStep

(* Each step of the server is a step of the table, or none.                *)
LEMMA StepDrivesNat ==
    ASSUME WebInv, [WebNext]_allVars
    PROVE  [NatNext]_natVars
<1> USE DEF WebInv
<1>1. ASSUME NEW c \in Clients, Accept(c) \/ GiveUp(c) \/ SessionStep(c)
      PROVE  [NatNext]_natVars
  <2>1. CASE OpenInsert(c)
    <3> DEFINE q == request[c]
    <3>1. q \in Requests
      BY <2>1 DEF OpenInsert, OpenHasRequest
    <3>2. /\ q.session_id \in Sessions
          /\ q.username \in Users
          /\ q.profile \in Profiles
      BY <3>1, RequestType
    <3>3. AddConnection(c, q.session_id, q.username, q.profile)
      BY <2>1 DEF OpenInsert
    <3> QED
      BY <3>2, <3>3 DEF NatNext
  <2>2. CASE ~OpenInsert(c)
    BY <1>1, <2>2 DEF SessionStep, Accept, GiveUp, OpenRequest, OpenRefused,
                      MarkOpened, Serve
  <2> QED
    BY <2>1, <2>2
<1>2. ASSUME NEW x \in Actors, CloseStep(x)
      PROVE  [NatNext]_natVars
  <2>1. CASE CloseDel(x)
    <3>1. closing[x].of \in Clients
      BY <2>1 DEF CloseDel, At, WebTypeOK, NotClosing
    <3>2. DelConnectionByClientId(closing[x].of) \/ UNCHANGED natVars
      BY <2>1 DEF CloseDel
    <3> QED
      BY <3>1, <3>2 DEF NatNext
  <2>2. CASE ~CloseDel(x)
    BY <1>2, <2>2 DEF CloseStep, CloseCheck, CloseLock, CloseTeardown,
                      CloseCallback, CloseErase, CloseNested
  <2> QED
    BY <2>1, <2>2
<1>3. CASE UpdaterStep
  BY <1>3 DEF UpdaterStep, UpdateSweep, UpdateCommit, UpdateSleep,
              UpdateClose, NatNext
<1>4. CASE StopBegin \/ StopperStep
  BY <1>4 DEF StopBegin, StopperStep, StopLock, StopIoc, StopJoin,
              StopJoinUpdater, StopClose
<1>5. CASE Tick /\ UNCHANGED webVars
  BY <1>5 DEF NatNext
<1>6. CASE UNCHANGED allVars
  BY <1>6 DEF allVars
<1> QED
  BY <1>1, <1>2, <1>3, <1>4, <1>5, <1>6 DEF WebNext

(* A step of the server keeps both invariants.                             *)
LEMMA WebNextInv ==
    ASSUME NatInv, WebInv, [WebNext]_allVars
    PROVE  NatInv' /\ WebInv'
<1>1. NatInv'
  BY StepDrivesNat, NextInv
<1>2. NatTypeOK
  BY DEF NatInv
<1>3. CASE \E c \in Clients : Accept(c) \/ GiveUp(c) \/ SessionStep(c)
  BY <1>1, <1>3, SessionKeepsInv
<1>4. CASE \E x \in Actors : CloseStep(x)
  BY <1>1, <1>4, CloseKeepsInv
<1>5. CASE UpdaterStep \/ StopBegin \/ StopperStep
  BY <1>1, <1>2, <1>5, ThreadsKeepInv
<1>6. CASE UNCHANGED webVars
  BY <1>1, <1>6 DEF webVars, WebInv, WebTypeOK, OpenHasRequest
<1> QED
  BY <1>3, <1>4, <1>5, <1>6 DEF WebNext, allVars

(* Both invariants hold throughout the life of the server.                 *)
THEOREM WebInvariant == WebSpec => [](NatInv /\ WebInv)
<1>1. WebInit => NatInv /\ WebInv
  BY WebInitInv, InitInv DEF WebInit
<1>2. NatInv /\ WebInv /\ [WebNext]_allVars => (NatInv /\ WebInv)'
  BY WebNextInv
<1> QED
  BY <1>1, <1>2, PTL DEF WebSpec

(* Every variable of the server keeps its type.                            *)
THEOREM WebTypeCorrect == WebSpec => []WebTypeOK
<1>1. WebInv => WebTypeOK
  BY DEF WebInv
<1> QED
  BY <1>1, WebInvariant, PTL

(* The server, seen through the table's variables, is the table: open      *)
(* callbacks, close callbacks, the updater and Stop change it by the       *)
(* operations of Table only.                                               *)
THEOREM ServerDrivesNatTable == WebSpec => DrivesNatTable
<1>1. WebInit => NatInit
  BY DEF WebInit
<1>2. WebInv /\ [WebNext]_allVars => [NatNext]_natVars
  BY StepDrivesNat
<1> QED
  BY <1>1, <1>2, WebInvariant, PTL DEF WebSpec, NatSpec, DrivesNatTable
-----------------------------------------------------------------------------
(* Locks and owners                                                        *)

(* Where Close holds the mutex of the session it tears down.               *)
Holding == {"teardown", "callback", "erase", "nested", "del"}

(* Where a session's coroutine is once its request was accepted or refused.*)
Past == {"inserted", "accepting", "serving", "done"}

(* Who holds a Session::mutex_ is inside that session's Close, and has     *)
(* cleared running_.                                                       *)
LocksHeld ==
    /\ \A x \in Actors : closing[x].at \in Holding =>
          sess_lock[closing[x].of] = x /\ ~running[closing[x].of]
    /\ \A c \in Clients : sess_lock[c] # Null =>
          closing[sess_lock[c]].of = c /\ closing[sess_lock[c]].at \in Holding

(* The stopping thread closes sessions after it has cleared running_.      *)
StopClears ==
    /\ stopper # "idle" => ~srv_running
    /\ closing[Stopper] # NotClosing => stopper = "closing"

(* A coroutine closes its own session only, and last.                      *)
ClosesItself ==
    \A c \in Clients : closing[c] # NotClosing => closing[c].of = c /\ strand[c] = "done"

(* Nobody closes, lists or routes a session that has not been opened.      *)
PastOpen ==
    /\ \A x \in Actors : closing[x] # NotClosing => strand[closing[x].of] \in Past
    /\ \A c \in sessions \cup todo[Updater] \cup todo[Stopper] : strand[c] \in Past
    /\ \A c \in Clients : conn[c] # Null => strand[c] \in Past
    /\ \A c \in Clients : strand[c] \in {"reading", "open"} => running[c]

(* What the updater closes the sweep has taken out of the table.           *)
UpdaterClosesExpired ==
    /\ \A c \in todo[Updater] : client_to_mplx[c] = Null
    /\ closing[Updater] # NotClosing => client_to_mplx[closing[Updater].of] = Null

(* A session with an entry is marked as opened, or about to be.            *)
EntryMarked ==
    \A c \in Clients : client_to_mplx[c] # Null => was_opened[c] \/ strand[c] = "inserted"

(* ReceiversDeliverable for every entry of the client index.               *)
EntryListed ==
    \A c \in Clients :
       srv_running /\ client_to_mplx[c] # Null =>
          c \in sessions \/ \E x \in Actors : TearsDown(x, c)
                                /\ closing[x].at \in {"nested", "del"}

OwnInv ==
    /\ LocksHeld /\ StopClears /\ ClosesItself /\ PastOpen
    /\ UpdaterClosesExpired /\ EntryMarked /\ EntryListed
    /\ NoLockCycle /\ NatEntryHasOwner

(* What an open callback does to the table.                                *)
LEMMA InsertEffect ==
    ASSUME NatInv, WebInv, NEW c \in Clients, OpenInsert(c)
    PROVE  \E m \in Mplx : /\ client_to_mplx' = [client_to_mplx EXCEPT ![c] = m]
                           /\ \A d \in Clients \ {c} : conn'[d] = conn[d]
<1> DEFINE q == request[c]
<1>1. AddConnection(c, q.session_id, q.username, q.profile)
  BY DEF OpenInsert
<1>2. conn' = [conn EXCEPT ![c] = NewConnection(q.username, q.profile)]
  BY <1>1 DEF AddConnection, JoinSession, CreateSession
<1>3. \A d \in Clients \ {c} : conn'[d] = conn[d]
  BY <1>2 DEF NatInv, NatTypeOK
<1>4. CASE JoinSession(c, q.session_id, q.username, q.profile)
  <2>1. q \in Requests
    BY DEF OpenInsert, WebInv, OpenHasRequest
  <2>2. q.session_id \in Sessions
    BY <2>1, RequestType
  <2>3. session_to_mplx[q.session_id] \in Mplx
    BY <1>4, <2>2 DEF JoinSession, NatInv, NatTypeOK
  <2> QED
    BY <1>3, <1>4, <2>3 DEF JoinSession
<1>5. CASE CreateSession(c, q.session_id, q.username, q.profile)
  BY <1>3, <1>5 DEF CreateSession
<1> QED
  BY <1>1, <1>4, <1>5 DEF AddConnection

LEMMA SessionKeepsOwners ==
    ASSUME NatInv, WebInv, OwnInv,
           NEW c \in Clients, Accept(c) \/ GiveUp(c) \/ SessionStep(c)
    PROVE  OwnInv'
<1> USE DEF OwnInv, WebInv, WebTypeOK, LocksHeld, StopClears, ClosesItself, PastOpen,
            UpdaterClosesExpired, EntryMarked, EntryListed, NoLockCycle, NatEntryHasOwner,
            Holding, Past, TearsDown, At, Actors, NotClosing
<1>0. Updater \notin Clients /\ Stopper \notin Clients /\ Null \notin Clients /\ Null # Updater /\ Null # Stopper
  BY ActorsDistinct
<1>1. CASE Accept(c)
  BY <1>0, <1>1 DEF Accept, natVars, indexes
<1>2. CASE GiveUp(c)
  BY <1>0, <1>2 DEF GiveUp, CallClose, natVars, indexes
<1>3. ASSUME NEW q \in Requests, OpenRequest(c, q)
      PROVE  OwnInv'
  BY <1>0, <1>3 DEF OpenRequest, natVars, indexes
<1>4. CASE OpenInsert(c)
  <2>1. PICK m \in Mplx : /\ client_to_mplx' = [client_to_mplx EXCEPT ![c] = m]
                          /\ \A d \in Clients \ {c} : conn'[d] = conn[d]
    BY <1>4, InsertEffect
  <2>2. m # Null
    BY NullFresh
  <2>3. client_to_mplx \in [Clients -> Mplx \cup {Null}]
    BY DEF NatInv, NatTypeOK
  <2> QED
    BY <1>0, <1>4, <2>1, <2>2, <2>3 DEF OpenInsert
<1>5. CASE OpenRefused(c)
  BY <1>0, <1>5 DEF OpenRefused, CallClose, natVars, indexes
<1>6. CASE MarkOpened(c)
  BY <1>0, <1>6 DEF MarkOpened, natVars, indexes
<1>7. CASE Serve(c)
  BY <1>0, <1>7 DEF Serve, natVars, indexes
<1> QED
  BY <1>1, <1>2, <1>3, <1>4, <1>5, <1>6, <1>7 DEF SessionStep

(* What a step inside Close does to the position of its actor.             *)
LEMMA GotoEffect ==
    ASSUME WebTypeOK, NEW x \in Actors, closing[x].at # "no",
           NEW w \in Holding \cup {"lock"}, Goto(x, w)
    PROVE  /\ closing'[x] # NotClosing
           /\ closing'[x].at = w /\ closing'[x].of = closing[x].of
           /\ \A y \in Actors \ {x} : closing'[y] = closing[y]
<1>1. closing[x] \in [at : {"check", "lock", "teardown", "callback",
                            "erase", "nested", "del"}, of : Clients]
  BY DEF WebTypeOK, NotClosing
<1>2. closing'[x] = [closing[x] EXCEPT !.at = w]
  BY DEF Goto, WebTypeOK
<1>3. closing'[x].at = w /\ closing'[x].of = closing[x].of
  BY <1>1, <1>2
<1> QED
  BY <1>3 DEF Goto, WebTypeOK, NotClosing, Holding

LEMMA ReturnEffect ==
    ASSUME WebTypeOK, NEW x \in Actors, Return(x)
    PROVE  /\ closing'[x] = NotClosing
           /\ closing'[x].at = "no" /\ closing'[x].of = Null
           /\ \A y \in Actors \ {x} : closing'[y] = closing[y]
BY DEF Return, WebTypeOK, NotClosing

LEMMA CloseKeepsOwners ==
    ASSUME NatInv, WebInv, OwnInv, NEW x \in Actors, CloseStep(x)
    PROVE  OwnInv'
<1> DEFINE c == closing[x].of
<1> USE DEF OwnInv, LocksHeld, StopClears, ClosesItself, PastOpen,
            UpdaterClosesExpired, EntryMarked, EntryListed, NoLockCycle, NatEntryHasOwner,
            Holding, Past, TearsDown, At
<1>0. Updater \notin Clients /\ Stopper \notin Clients /\ Updater # Stopper
      /\ Null \notin Clients /\ Null # Updater /\ Null # Stopper
      /\ Actors = Clients \cup {Updater, Stopper}
  BY ActorsDistinct DEF Actors
<1>1. WebTypeOK /\ sess_lock \in [Clients -> Actors \cup {Null}] /\ running \in [Clients -> BOOLEAN]
      /\ client_to_mplx \in [Clients -> Mplx \cup {Null}]
  BY DEF WebInv, WebTypeOK, NatInv, NatTypeOK
<1>2. c \in Clients /\ closing[x].at # "no" /\ closing[x] # NotClosing
  BY <1>1 DEF WebTypeOK, NotClosing, CloseStep, CloseCheck, CloseLock, CloseTeardown,
              CloseCallback, CloseErase, CloseNested, CloseDel
<1>t. /\ \A y \in Actors : closing[y].at \in Holding => closing[y].of \in Clients
      /\ \A d \in Clients : sess_lock[d] \in Actors \/ sess_lock[d] = Null
      /\ closing[Updater] # NotClosing => closing[Updater].of \in Clients
  BY <1>0, <1>1 DEF WebTypeOK, NotClosing
<1>3. CASE CloseCheck(x)
  <2>1. UNCHANGED <<client_to_mplx, conn, strand, running, was_opened, sess_lock, sessions,
                    srv_running, srv_lock, todo, stopper>> /\ closing[x].at = "check"
    BY <1>3 DEF CloseCheck, natVars, indexes
  <2>2. CASE running[c]
    <3>1. Goto(x, "lock")
      BY <1>3, <2>2 DEF CloseCheck
    <3> QED
      BY <1>0, <1>1, <1>2, <2>1, <2>2, <3>1, GotoEffect
  <2>3. CASE ~running[c]
    <3>1. Return(x)
      BY <1>3, <2>3 DEF CloseCheck
    <3> QED
      BY <1>0, <1>1, <1>2, <2>1, <2>3, <3>1, ReturnEffect
  <2> QED
    BY <2>2, <2>3
<1>4. CASE CloseLock(x)
  <2>1. UNCHANGED <<client_to_mplx, conn, strand, was_opened, sessions,
                    srv_running, srv_lock, todo, stopper>> /\ closing[x].at = "lock"
        /\ sess_lock[c] = Null
    BY <1>4 DEF CloseLock, natVars, indexes
  <2>2. CASE running[c]
    <3>1. Goto(x, "teardown")
      BY <1>4, <2>2 DEF CloseLock
    <3>2. /\ sess_lock'[c] = x /\ running'[c] = FALSE
          /\ \A d \in Clients \ {c} : sess_lock'[d] = sess_lock[d] /\ running'[d] = running[d]
      BY <1>1, <1>2, <1>4, <2>2 DEF CloseLock
    <3>3. LocksHeld'
      <4>1. closing'[x].at = "teardown" /\ closing'[x].of = c
               /\ \A y \in Actors \ {x} : closing'[y] = closing[y]
        BY <1>1, <1>2, <3>1, GotoEffect
      <4>2. \A y \in Actors : closing'[y].at \in Holding =>
               sess_lock'[closing'[y].of] = y /\ ~running'[closing'[y].of]
        BY <1>0, <1>2, <1>t, <4>1 , <2>1, <3>2
      <4>3. \A d \in Clients : sess_lock'[d] # Null =>
               closing'[sess_lock'[d]].of = d /\ closing'[sess_lock'[d]].at \in Holding
        BY <1>0, <1>2, <1>t, <4>1 , <2>1, <3>2
      <4> QED
        BY <4>2, <4>3
    <3>4. (StopClears /\ ClosesItself /\ PastOpen)'
      BY <1>0, <1>1, <1>2, <2>1, <2>2, <3>1, <3>2, GotoEffect
    <3>5. (UpdaterClosesExpired /\ EntryMarked)'
      BY <1>0, <1>1, <1>2, <2>1, <2>2, <3>1, <3>2, GotoEffect
    <3>6. EntryListed'
      BY <1>0, <1>1, <1>2, <2>1, <2>2, <3>1, <3>2, GotoEffect
    <3>7. NoLockCycle'
      BY <1>0, <1>1, <1>2, <2>1, <2>2, <3>1, <3>2, GotoEffect
    <3>8. NatEntryHasOwner'
      BY <1>0, <1>1, <1>2, <2>1, <2>2, <3>1, <3>2, GotoEffect
    <3> QED
      BY <3>3, <3>4, <3>5, <3>6, <3>7, <3>8
  <2>3. CASE ~running[c]
    <3>1. Return(x) /\ UNCHANGED <<sess_lock, running>>
      BY <1>4, <2>3 DEF CloseLock
    <3> QED
      BY <1>0, <1>1, <1>2, <2>1, <2>3, <3>1, ReturnEffect
  <2> QED
    BY <2>2, <2>3
<1>5. CASE CloseTeardown(x)
  <2>1. UNCHANGED <<client_to_mplx, conn, strand, running, was_opened, sessions,
                    srv_running, srv_lock, todo, stopper>> /\ closing[x].at = "teardown"
    BY <1>5 DEF CloseTeardown, natVars, indexes
  <2>2. CASE was_opened[c]
    <3>1. Goto(x, "callback") /\ UNCHANGED sess_lock
      BY <1>5, <2>2 DEF CloseTeardown
    <3> QED
      BY <1>0, <1>1, <1>2, <2>1, <3>1, GotoEffect
  <2>3. CASE ~was_opened[c]
    <3>1. Return(x)
      BY <1>5, <2>3 DEF CloseTeardown
    <3>2. sess_lock'[c] = Null /\ \A d \in Clients \ {c} : sess_lock'[d] = sess_lock[d]
      BY <1>1, <1>2, <1>5, <2>3 DEF CloseTeardown
    <3>3. srv_running => client_to_mplx[c] = Null
      BY <1>0, <1>2, <2>3
    <3>4. LocksHeld'
      <4>1. closing'[x].at = "no" /\ closing'[x].of = Null
               /\ \A y \in Actors \ {x} : closing'[y] = closing[y]
        BY <1>1, <1>2, <3>1, ReturnEffect
      <4>2. \A y \in Actors : closing'[y].at \in Holding =>
               sess_lock'[closing'[y].of] = y /\ ~running'[closing'[y].of]
        BY <1>0, <1>2, <1>t, <4>1 , <2>1, <3>2
      <4>3. \A d \in Clients : sess_lock'[d] # Null =>
               closing'[sess_lock'[d]].of = d /\ closing'[sess_lock'[d]].at \in Holding
        BY <1>0, <1>2, <1>t, <4>1 , <2>1, <3>2
      <4> QED
        BY <4>2, <4>3
    <3>5. (StopClears /\ ClosesItself /\ PastOpen)'
      BY <1>0, <1>1, <1>2, <2>1, <3>1, <3>2, <3>3, ReturnEffect
    <3>6. (UpdaterClosesExpired /\ EntryMarked)'
      BY <1>0, <1>1, <1>2, <2>1, <3>1, <3>2, <3>3, ReturnEffect
    <3>7. EntryListed'
      BY <1>0, <1>1, <1>2, <2>1, <3>1, <3>2, <3>3, ReturnEffect
    <3>8. NoLockCycle'
      BY <1>0, <1>1, <1>2, <2>1, <3>1, <3>2, <3>3, ReturnEffect
    <3>9. NatEntryHasOwner'
      BY <1>0, <1>1, <1>2, <2>1, <3>1, <3>2, <3>3, ReturnEffect
    <3> QED
      BY <3>4, <3>5, <3>6, <3>7, <3>8, <3>9
  <2> QED
    BY <2>2, <2>3
<1>6. CASE CloseCallback(x)
  <2>1. UNCHANGED <<client_to_mplx, conn, strand, running, was_opened, sess_lock, sessions,
                    srv_running, srv_lock, todo, stopper>> /\ closing[x].at = "callback"
    BY <1>6 DEF CloseCallback, natVars, indexes
  <2>2. (Goto(x, "erase") /\ srv_running) \/ Goto(x, "del")
    BY <1>6 DEF CloseCallback
  <2>3. LocksHeld'
    BY <1>0, <1>1, <1>2, <2>1, <2>2, GotoEffect
  <2>4. (StopClears /\ ClosesItself /\ PastOpen)'
    BY <1>0, <1>1, <1>2, <2>1, <2>2, GotoEffect
  <2>5. (UpdaterClosesExpired /\ EntryMarked)'
    BY <1>0, <1>1, <1>2, <2>1, <2>2, GotoEffect
  <2>6. EntryListed'
    BY <1>0, <1>1, <1>2, <2>1, <2>2, GotoEffect
  <2>7. NoLockCycle'
    <3>1. CASE Goto(x, "erase") /\ srv_running
      <4>1. closing[Stopper] = NotClosing
        BY <3>1
      <4>2. x # Stopper /\ closing'[Stopper] = closing[Stopper]
        BY <1>0, <1>1, <1>2, <3>1, <4>1, GotoEffect
      <4> QED
        BY <4>1, <4>2 DEF NotClosing
    <3>2. CASE Goto(x, "del")
      BY <1>0, <1>1, <1>2, <2>1, <3>2, GotoEffect
    <3> QED
      BY <2>2, <3>1, <3>2
  <2>8. NatEntryHasOwner'
    BY <1>0, <1>1, <1>2, <2>1, <2>2, GotoEffect
  <2> QED
    BY <2>3, <2>4, <2>5, <2>6, <2>7, <2>8
<1>7. CASE CloseErase(x)
  <2>1. UNCHANGED <<client_to_mplx, conn, strand, running, was_opened, sess_lock,
                    srv_running, srv_lock, todo, stopper>> /\ closing[x].at = "erase"
        /\ sessions' = sessions \ {c}
    BY <1>7 DEF CloseErase, natVars, indexes
  <2>2. Goto(x, "nested") \/ Goto(x, "del")
    BY <1>7 DEF CloseErase
  <2> QED
    BY <1>0, <1>1, <1>2, <2>1, <2>2, GotoEffect
<1>8. CASE CloseNested(x)
  <2>1. UNCHANGED <<client_to_mplx, conn, strand, running, was_opened, sess_lock, sessions,
                    srv_running, srv_lock, todo, stopper>> /\ closing[x].at = "nested"
        /\ Goto(x, "del")
    BY <1>8 DEF CloseNested, natVars, indexes
  <2> QED
    BY <1>0, <1>1, <1>2, <2>1, GotoEffect
<1>9. CASE CloseDel(x)
  <2>1. UNCHANGED <<conn, strand, running, was_opened, sessions,
                    srv_running, srv_lock, todo, stopper>> /\ closing[x].at = "del" /\ Return(x)
    BY <1>9 DEF CloseDel, DelConnectionByClientId, natVars
  <2>2. /\ sess_lock'[c] = Null /\ client_to_mplx'[c] = Null
        /\ \A d \in Clients \ {c} : /\ sess_lock'[d] = sess_lock[d]
                                    /\ client_to_mplx'[d] = client_to_mplx[d]
    BY <1>1, <1>2, <1>9 DEF CloseDel, DelConnectionByClientId, natVars, indexes
  <2>3. LocksHeld'
    <3>1. closing'[x].at = "no" /\ closing'[x].of = Null
               /\ \A y \in Actors \ {x} : closing'[y] = closing[y]
      BY <1>1, <1>2, <2>1, ReturnEffect
    <3>2. \A y \in Actors : closing'[y].at \in Holding =>
             sess_lock'[closing'[y].of] = y /\ ~running'[closing'[y].of]
      BY <1>0, <1>2, <1>t, <3>1 , <2>1, <2>2
    <3>3. \A d \in Clients : sess_lock'[d] # Null =>
             closing'[sess_lock'[d]].of = d /\ closing'[sess_lock'[d]].at \in Holding
      BY <1>0, <1>2, <1>t, <3>1 , <2>1, <2>2
    <3> QED
      BY <3>2, <3>3
  <2>4. (StopClears /\ ClosesItself /\ PastOpen)'
    BY <1>0, <1>1, <1>2, <2>1, <2>2, ReturnEffect
  <2>5. (UpdaterClosesExpired /\ EntryMarked)'
    <3>1. \A d \in Clients : client_to_mplx'[d] # Null => client_to_mplx'[d] = client_to_mplx[d]
      BY <2>2
    <3>2. EntryMarked'
      BY <2>1, <3>1
    <3>3. \A d \in todo'[Updater] : client_to_mplx'[d] = Null
      BY <1>1, <2>1, <3>1 DEF WebTypeOK
    <3>4. closing'[Updater] = NotClosing \/ closing'[Updater] = closing[Updater]
      BY <1>0, <1>1, <2>1, ReturnEffect
    <3>5. closing'[Updater] # NotClosing => client_to_mplx'[closing'[Updater].of] = Null
      BY <1>t, <3>1, <3>4
    <3> QED
      BY <3>2, <3>3, <3>5
  <2>6. EntryListed'
    BY <1>0, <1>1, <1>2, <2>1, <2>2, ReturnEffect
  <2>7. NoLockCycle'
    BY <1>0, <1>1, <1>2, <2>1, <2>2, ReturnEffect
  <2>8. NatEntryHasOwner'
    BY <1>0, <1>1, <1>2, <2>1, <2>2, ReturnEffect
  <2> QED
    BY <2>3, <2>4, <2>5, <2>6, <2>7, <2>8
<1> QED
  BY <1>3, <1>4, <1>5, <1>6, <1>7, <1>8, <1>9 DEF CloseStep

LEMMA ThreadsKeepOwners ==
    ASSUME NatInv, WebInv, OwnInv, UpdaterStep \/ StopBegin \/ StopperStep
    PROVE  OwnInv'
<1> USE DEF OwnInv, WebInv, WebTypeOK, LocksHeld, StopClears, ClosesItself, PastOpen,
            UpdaterClosesExpired, EntryMarked, EntryListed, NoLockCycle, NatEntryHasOwner,
            Holding, Past, TearsDown, At, Actors, NotClosing
<1>0. Updater \notin Clients /\ Stopper \notin Clients /\ Updater # Stopper /\ Null \notin Clients /\ Null # Updater /\ Null # Stopper
  BY ActorsDistinct
<1>1. CASE UpdateSweep
  BY <1>0, <1>1 DEF UpdateSweep, SweepBuckets, indexes
<1>2. CASE UpdateCommit
  <2>1. /\ \A c \in sweep.expired : c \in Clients /\ conn[c] # Null
        /\ client_to_mplx' = [c \in Clients |-> IF c \in sweep.expired THEN Null
                                                ELSE client_to_mplx[c]]
        /\ conn' = conn
    BY <1>2 DEF UpdateCommit, SweepCommit, NatInv, NatTypeOK, SweepOK
  <2> QED
    BY <1>0, <1>2, <2>1 DEF UpdateCommit
<1>3. ASSUME NEW c \in Clients, UpdateClose(c)
      PROVE  OwnInv'
  BY <1>0, <1>3 DEF UpdateClose, CallClose, Idle, natVars, indexes
<1>4. CASE UpdateSleep
  BY <1>0, <1>4 DEF UpdateSleep, natVars, indexes
<1>5. CASE StopBegin
  BY <1>0, <1>5 DEF StopBegin, natVars, indexes
<1>6. CASE StopLock
  BY <1>0, <1>6 DEF StopLock, natVars, indexes
<1>7. ASSUME NEW c \in Clients, StopClose(c)
      PROVE  OwnInv'
  BY <1>0, <1>7 DEF StopClose, CallClose, Idle, natVars, indexes
<1>8. CASE StopIoc
  BY <1>0, <1>8 DEF StopIoc, Idle, natVars, indexes
<1>9. CASE StopJoin
  BY <1>0, <1>9 DEF StopJoin, natVars, indexes
<1>10. CASE StopJoinUpdater
  BY <1>0, <1>10 DEF StopJoinUpdater, natVars, indexes
<1> QED
  BY <1>1, <1>2, <1>3, <1>4, <1>5, <1>6, <1>7, <1>8, <1>9, <1>10
     DEF UpdaterStep, StopperStep

LEMMA OwnInitInv ==
    ASSUME WebInit
    PROVE  OwnInv
<1>1. Null \notin Clients
  BY ActorsDistinct DEF Actors
<1> QED
  BY <1>1 DEF WebInit, NatInit, OwnInv, LocksHeld, StopClears, ClosesItself, PastOpen,
         UpdaterClosesExpired, EntryMarked, EntryListed, NoLockCycle, NatEntryHasOwner,
         Holding, Past, TearsDown, At, Actors, NotClosing

LEMMA OwnNextInv ==
    ASSUME NatInv, WebInv, OwnInv, [WebNext]_allVars
    PROVE  OwnInv'
<1>1. CASE \E c \in Clients : Accept(c) \/ GiveUp(c) \/ SessionStep(c)
  BY <1>1, SessionKeepsOwners
<1>2. CASE \E x \in Actors : CloseStep(x)
  BY <1>2, CloseKeepsOwners
<1>3. CASE UpdaterStep \/ StopBegin \/ StopperStep
  BY <1>3, ThreadsKeepOwners
<1>4. CASE UNCHANGED webVars /\ (Tick \/ UNCHANGED natVars)
  BY <1>4 DEF webVars, Tick, natVars, indexes, OwnInv, LocksHeld, StopClears, ClosesItself,
         PastOpen, UpdaterClosesExpired, EntryMarked, EntryListed, NoLockCycle,
         NatEntryHasOwner, TearsDown, At
<1> QED
  BY <1>1, <1>2, <1>3, <1>4 DEF WebNext, allVars

(* Locks and owners are as OwnInv says throughout the life of the server.  *)
THEOREM OwnersInvariant == WebSpec => []OwnInv
<1>1. WebInit => OwnInv
  BY OwnInitInv
<1>2. NatInv /\ WebInv /\ OwnInv /\ [WebNext]_allVars => OwnInv'
  BY OwnNextInv
<1> QED
  BY <1>1, <1>2, WebInvariant, PTL DEF WebSpec

(* Stop never waits for a session whose holder waits for the server,       *)
(* whatever the numbers of clients, sessions and addresses.                *)
THEOREM LocksNeverCycle == WebSpec => []NoLockCycle
<1>1. OwnInv => NoLockCycle
  BY DEF OwnInv
<1> QED
  BY <1>1, OwnersInvariant, PTL

(* While the server runs no entry of the NAT table is orphaned.            *)
THEOREM EntriesOwned == WebSpec => []NatEntryHasOwner
<1>1. OwnInv => NatEntryHasOwner
  BY DEF OwnInv
<1> QED
  BY <1>1, OwnersInvariant, PTL

(* While the server runs, what the table hands out can be delivered.       *)
THEOREM EntriesDeliverable == WebSpec => []ReceiversDeliverable
<1>1. NatInv /\ OwnInv => ReceiversDeliverable
  <2> SUFFICES ASSUME NatInv, OwnInv, NEW m \in Mplx, NEW c \in receiving[m], srv_running
               PROVE  c \in sessions
                      \/ \E x \in Actors : TearsDown(x, c)
                                            /\ closing[x].at \in {"nested", "del"}
    BY DEF ReceiversDeliverable
  <2>1. c \in Clients
    BY DEF NatInv, NatTypeOK
  <2>2. client_to_mplx[c] = m
    BY <2>1 DEF NatInv, ClientRouting, Held
  <2>3. client_to_mplx[c] # Null
    BY <2>2, NullFresh
  <2> QED
    BY <2>1, <2>3 DEF OwnInv, EntryListed
<1> QED
  BY <1>1, WebInvariant, OwnersInvariant, PTL
=============================================================================
