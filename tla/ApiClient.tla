------------------------------ MODULE ApiClient ------------------------------
(***************************************************************************)
(* The HTTPS requests of ApiClient: Get, Post and TestHandshake run on a   *)
(* detached worker that the caller waits for with a timeout                *)
(* (ExecuteWithTimeout); AsyncPost is a coroutine of the server.  Requests *)
(* of several threads share one table of certificate callbacks, keyed by   *)
(* the address of the SSL object.                                          *)
(*                                                                         *)
(* Timeouts are not timed: a wait may end at any moment.                   *)
(***************************************************************************)
EXTENDS Naturals, FiniteSets

CONSTANTS
    Requests,      \* the requests
    RequestKinds,  \* the kinds each may be of: "get", "post", "test", "async"
    Pins,          \* certificate fingerprints
    SslAddresses   \* where SSL_new puts its objects

ASSUME AddressesAssumption == Cardinality(SslAddresses) >= Cardinality(Requests)

NoPin == "nopin"
Nobody == "nobody"

ASSUME NamesApart == NoPin \notin Pins /\ Nobody \notin Requests \cup SslAddresses
ASSUME KindsAssumption ==
    \A r \in Requests : RequestKinds[r] \subseteq {"get", "post", "test", "async"}

VARIABLES
    req,        \* the requests
    callbacks,  \* attach_callbacks
    ranInto     \* a request whose callback wrote to a dead stack frame

apiVars == <<req, callbacks, ranInto>>

(* caller, cancelled, ready: ExecuteWithTimeout and its SharedState; at:   *)
(* the step of GetImpl, PostImpl, TestHandshakeImpl or AsyncPost; ssl: the *)
(* SSL object, while alive; code: their result; answer: what the caller    *)
(* gets; cert: what the server presented.                                  *)
ApiInit ==
    /\ req = [r \in Requests |->
                [kind |-> "get", pin |-> NoPin, caller |-> "idle",
                 cancelled |-> FALSE, ready |-> FALSE, at |-> "idle", ssl |-> Nobody,
                 alive |-> FALSE, attached |-> FALSE, code |-> 400, answer |-> 0,
                 cert |-> NoPin]]
    /\ callbacks = [a \in SslAddresses |-> Nobody]
    /\ ranInto = FALSE

-----------------------------------------------------------------------------
Upd(r, rec) == req' = [req EXCEPT ![r] = rec]

InUse == {req[r].ssl : r \in {q \in Requests : req[q].alive}}

(* The stream, and its SSL object, in any free place.                      *)
WithStream(r, rec) ==
    \E a \in SslAddresses \ InUse : Upd(r, [rec EXCEPT !.ssl = a, !.alive = TRUE])

(* Get, Post, TestHandshake: the worker starts, the caller waits.          *)
Execute(r) ==
    /\ req[r].caller = "idle"
    /\ \E k \in RequestKinds[r] \ {"async"}, p \in Pins \cup {NoPin} :
          Upd(r, [req[r] EXCEPT !.kind = k, !.pin = p, !.caller = "waiting", !.at = "port"])
    /\ UNCHANGED <<callbacks, ranInto>>

(* AsyncPost asks for no fingerprint and makes no fake handshake.          *)
AsyncPost(r) ==
    /\ req[r].caller = "idle" /\ "async" \in RequestKinds[r]
    /\ WithStream(r, [req[r] EXCEPT !.kind = "async", !.caller = "waiting", !.at = "resolve"])
    /\ UNCHANGED <<callbacks, ranInto>>

(* The worker probes the port before it does anything else.                *)
IsPortOpen(r) ==
    /\ req[r].at = "port"
    /\ \/ WithStream(r, [req[r] EXCEPT !.at = "resolve"])
       \/ Upd(r, [req[r] EXCEPT !.code = 609, !.at = "report"])
    /\ UNCHANGED <<callbacks, ranInto>>

(* A failure leaves through the end of the try block, where the stream is  *)
(* destroyed.                                                              *)
Unwind(r, c) == Upd(r, [req[r] EXCEPT !.code = c, !.at = "unwind"])

(* ResolveWithTimeout: the resolver or the timer, whichever comes first.   *)
ResolveWithTimeout(r) ==
    /\ req[r].at = "resolve"
    /\ Upd(r, [req[r] EXCEPT !.at = "connect"]) \/ Unwind(r, 603)
    /\ UNCHANGED <<callbacks, ranInto>>

(* The censorship strategy says whether a fake handshake follows.          *)
ApiConnect(r) ==
    /\ req[r].at = "connect"
    /\ \/ Upd(r, [req[r] EXCEPT !.at = "attach"])
       \/ req[r].kind # "async" /\ Upd(r, [req[r] EXCEPT !.at = "fake"])
       \/ Unwind(r, 600)
    /\ UNCHANGED <<callbacks, ranInto>>

(* PerformFakeHandshake2; TestHandshakeImpl goes on without it.            *)
ApiFakeHandshake(r) ==
    /\ req[r].at = "fake"
    /\ \/ Upd(r, [req[r] EXCEPT !.at = "attach"])
       \/ req[r].kind # "test" /\ Unwind(r, 601)
    /\ UNCHANGED <<callbacks, ranInto>>

(* Wrong variant: an entry that is there already is kept.                  *)
AttachCallback_KeepsOld(r) ==
    /\ req[r].at = "attach"
    /\ Upd(r, [req[r] EXCEPT !.attached = (req[r].pin # NoPin), !.at = "handshake"])
    /\ callbacks' = IF req[r].pin # NoPin /\ callbacks[req[r].ssl] = Nobody
                    THEN [callbacks EXCEPT ![req[r].ssl] = r] ELSE callbacks
    /\ UNCHANGED ranInto

(* AttachCertificateVerificationCallback, for a pinned certificate.        *)
AttachCallback(r) ==
    /\ req[r].at = "attach"
    /\ Upd(r, [req[r] EXCEPT !.attached = (req[r].pin # NoPin), !.at = "handshake"])
    /\ callbacks' = IF req[r].pin # NoPin THEN [callbacks EXCEPT ![req[r].ssl] = r] ELSE callbacks
    /\ UNCHANGED ranInto

(* The callback of SSL_set_verify; without an entry the peer is refused.   *)
OnVerifyCertificate(r, cert) ==
    req[r].pin = NoPin \/ LET o == callbacks[req[r].ssl]
                          IN  o # Nobody /\ req[o].pin = cert

(* stream.handshake.  A mismatch in TestHandshakeImpl writes to a string   *)
(* whose block has ended: the request is refused or the program is lost.   *)
ApiHandshake(r) ==
    /\ req[r].at = "handshake"
    /\ \E cert \in Pins :
          \/ /\ OnVerifyCertificate(r, cert)
             /\ Upd(r, [req[r] EXCEPT !.cert = cert,
                          !.at = IF req[r].kind = "test" THEN "unwind" ELSE "exchange",
                          !.code = IF req[r].kind = "test" THEN 200 ELSE @])
             /\ UNCHANGED ranInto
          \/ Unwind(r, 600) /\ UNCHANGED ranInto
          \/ /\ ~OnVerifyCertificate(r, cert) /\ req[r].kind = "test"
             /\ callbacks[req[r].ssl] # Nobody
             /\ ranInto' = TRUE
             /\ UNCHANGED req
    /\ UNCHANGED callbacks

(* DecompressGzip never leaves its loop when a compressed body ends too    *)
(* early.                                                                  *)
DecompressGzip(r) == Upd(r, [req[r] EXCEPT !.at = "stuck"])

(* The request and its answer.  AsyncPost shuts the stream down with a     *)
(* blocking call, which a silent peer can hold for ever as well.           *)
Exchange(r) ==
    /\ req[r].at = "exchange"
    /\ DecompressGzip(r) \/ \E c \in {200, 600} : Unwind(r, c)
    /\ UNCHANGED <<callbacks, ranInto>>

(* TestHandshakeImpl deletes its callback before the stream goes if it     *)
(* succeeds; otherwise the SSL object is gone first.                       *)
DeletesFirst(r) == req[r].kind = "test" /\ req[r].code = 200

DestroyStream(r) ==
    /\ req[r].alive
    /\ req[r].at = IF DeletesFirst(r) THEN "destroy" ELSE "unwind"
    /\ Upd(r, [req[r] EXCEPT !.alive = FALSE,
                  !.at = CASE req[r].kind = "async" -> "answer"
                           [] DeletesFirst(r) -> "report"
                           [] OTHER -> "delete"])
    /\ UNCHANGED <<callbacks, ranInto>>

(* Wrong variant: a failed request forgets its callback.                   *)
DeleteCallback_OnSuccess(r) ==
    /\ req[r].at = IF DeletesFirst(r) THEN "unwind" ELSE "delete"
    /\ callbacks' = IF req[r].attached /\ req[r].code = 200
                    THEN [callbacks EXCEPT ![req[r].ssl] = Nobody] ELSE callbacks
    /\ Upd(r, [req[r] EXCEPT !.at = IF DeletesFirst(r) THEN "destroy" ELSE "report"])
    /\ UNCHANGED ranInto

(* AttachCertificateVerificationCallbackDelete, by address.                *)
DeleteCallback(r) ==
    /\ req[r].at = IF DeletesFirst(r) THEN "unwind" ELSE "delete"
    /\ callbacks' = IF req[r].attached THEN [callbacks EXCEPT ![req[r].ssl] = Nobody] ELSE callbacks
    /\ Upd(r, [req[r] EXCEPT !.at = IF DeletesFirst(r) THEN "destroy" ELSE "report"])
    /\ UNCHANGED ranInto

(* The worker ends: its result counts unless the caller has left.          *)
Report(r) ==
    /\ req[r].at = "report"
    /\ Upd(r, [req[r] EXCEPT !.at = "gone", !.ready = ~req[r].cancelled])
    /\ UNCHANGED <<callbacks, ranInto>>

(* Wrong variant: the caller joins its worker.                             *)
ExecuteWithTimeout_Joins(r) ==
    /\ req[r].caller = "waiting"
    /\ req[r].ready
    /\ Upd(r, [req[r] EXCEPT !.caller = "done", !.answer = req[r].code])
    /\ UNCHANGED <<callbacks, ranInto>>

(* The caller's wait ends: with the result, or at the timeout.             *)
ExecuteWithTimeout(r) ==
    /\ req[r].caller = "waiting" /\ req[r].kind # "async"
    /\ IF req[r].ready
       THEN Upd(r, [req[r] EXCEPT !.caller = "done", !.answer = req[r].code])
       ELSE Upd(r, [req[r] EXCEPT !.caller = "done", !.answer = 608, !.cancelled = TRUE])
    /\ UNCHANGED <<callbacks, ranInto>>

AsyncAnswer(r) ==
    /\ req[r].at = "answer"
    /\ Upd(r, [req[r] EXCEPT !.at = "gone", !.caller = "done", !.answer = req[r].code])
    /\ UNCHANGED <<callbacks, ranInto>>

-----------------------------------------------------------------------------
Worker(r) ==
    \/ IsPortOpen(r) \/ ResolveWithTimeout(r) \/ ApiConnect(r) \/ ApiFakeHandshake(r)
    \/ AttachCallback(r) \/ ApiHandshake(r) \/ Exchange(r) \/ DestroyStream(r)
    \/ DeleteCallback(r) \/ Report(r) \/ AsyncAnswer(r)

ApiNext ==
    /\ ~ranInto
    /\ \E r \in Requests : Execute(r) \/ AsyncPost(r) \/ Worker(r) \/ ExecuteWithTimeout(r)

ApiSpec == ApiInit /\ [][ApiNext]_apiVars

(* wait_for wakes at its deadline; nothing is assumed of the workers.      *)
FairApiSpec ==
    /\ ApiSpec
    /\ \A r \in Requests : WF_apiVars(~ranInto /\ ExecuteWithTimeout(r))

-----------------------------------------------------------------------------
(* Properties                                                              *)

(* An answer of a pinned request comes from the server that holds the      *)
(* pinned certificate, whatever other requests do to the table of          *)
(* callbacks while SSL objects take one another's addresses.               *)
AnswerVerified ==
    \A r \in Requests :
       req[r].answer = 200 /\ req[r].pin # NoPin => req[r].cert = req[r].pin

(* When no request is under way the table holds no callback, although      *)
(* requests delete by an address that may by then be another's.            *)
NoCallbackLeft ==
    (\A r \in Requests : req[r].at \in {"idle", "gone", "port", "report"})
       => \A a \in SslAddresses : callbacks[a] = Nobody

(* Certificates are verified by the request's own callback, to the end.    *)
CallbacksSafe == AnswerVerified /\ NoCallbackLeft

(* Get, Post and TestHandshake return, even if their worker is stuck.      *)
RequestReturns ==
    \A r \in Requests :
       (req[r].caller = "waiting" /\ req[r].kind # "async")
          ~> (req[r].caller = "done" \/ ranInto)
=============================================================================
