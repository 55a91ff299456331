---------------------------- MODULE ServerSearch ----------------------------
(***************************************************************************)
(* How the client picks a server.  FindFastestServer and FindServerByLogin *)
(* probe a few servers in parallel, take the first that answers, and try   *)
(* one after the other when threads fail or nobody answered.  The SNI      *)
(* autoscan dialog probes its servers under many names with a pool of      *)
(* workers, while a timer of the GUI thread watches their counters.        *)
(* Each probe is a request of ApiClient, which always returns.             *)
(***************************************************************************)
EXTENDS Naturals, Sequences, FiniteSets

CONSTANTS
    Candidates,   \* the servers known
    MaxProbes,    \* how many are probed (4)
    Scanners,     \* the workers of the autoscan (8)
    SniCount,     \* names to scan
    ScanServers   \* servers to scan them against

None == "none"

ASSUME CandidateNames == Candidates \cap {None, "unavailable"} = {}

ASSUME ScanBounds == IsFiniteSet(Scanners) /\ SniCount \in Nat /\ ScanServers \in Nat

VARIABLES
    search,    \* where the search is
    selected,  \* selected_servers
    probe,     \* the probing workers
    answered,  \* the servers that answered, in the order they took the lock
    first,     \* first_server; result
    threadsOk, \* multithread_ok
    retries,   \* servers left for the sequential attempt
    outcome    \* what the search returned

searchVars == <<search, selected, probe, answered, first, threadsOk, retries, outcome>>

VARIABLES
    gui,      \* what the GUI thread does: "idle", "scanning", or "joining" workers and why
    stopReq,  \* stop_requested_
    nextSni,  \* current_sni_index_
    tested,   \* tested_count_
    nFound,   \* working_sni_found_
    scanner,  \* the workers
    posted,   \* log entries are waiting for the event loop
    found,    \* found_working_sni_, 0 when empty
    works,    \* the names that worked so far
    verdict   \* what the dialog told the user, None before it did

scanVars == <<gui, stopReq, nextSni, tested, nFound, scanner, posted, found, works, verdict>>

-----------------------------------------------------------------------------
(* FindFastestServer, FindServerByLogin                                    *)

SearchInit ==
    /\ search = "idle" /\ selected = {} /\ first = None /\ threadsOk = TRUE
    /\ probe = [s \in Candidates |-> "none"]
    /\ answered = << >> /\ retries = {} /\ outcome = None

(* The list is shuffled and cut; with no server at all there is no result. *)
FindServer ==
    /\ search = "idle"
    /\ \E S \in SUBSET Candidates :
          /\ Cardinality(S) <= MaxProbes
          /\ selected' = S
          /\ IF S = {} THEN search' = "done" /\ outcome' = "unavailable"
             ELSE search' = "spawn" /\ UNCHANGED outcome
    /\ UNCHANGED <<probe, answered, first, threadsOk, retries>>

SpawnProbe ==
    /\ search = "spawn"
    /\ \E s \in selected : probe[s] = "none" /\ probe' = [probe EXCEPT ![s] = "probing"]
    /\ UNCHANGED <<search, selected, answered, first, threadsOk, retries, outcome>>

(* Wrong variant: the workers that did start are left alone.               *)
SpawnFails_NoJoin ==
    /\ search = "spawn"
    /\ \E s \in selected : probe[s] = "none"
    /\ threadsOk' = FALSE
    /\ retries' = selected
    /\ search' = "retry"
    /\ UNCHANGED <<selected, probe, answered, first, outcome>>

(* std::thread throws: the started workers are joined, then one by one.    *)
SpawnFails ==
    /\ search = "spawn"
    /\ \E s \in selected : probe[s] = "none"
    /\ threadsOk' = FALSE
    /\ search' = "join"
    /\ UNCHANGED <<selected, probe, answered, first, retries, outcome>>

(* Wrong variant: the last answer wins.                                    *)
ProbeEnds_LastWins(s) ==
    /\ probe[s] = "probing"
    /\ probe' = [probe EXCEPT ![s] = "ended"]
    /\ \/ UNCHANGED <<answered, first>>
       \/ answered' = Append(answered, s) /\ first' = s
    /\ UNCHANGED <<search, selected, threadsOk, retries, outcome>>

(* GetDownloadTimeMs or TryLoginSingleServer ends, and the worker takes    *)
(* the lock.                                                               *)
ProbeEnds(s) ==
    /\ probe[s] = "probing"
    /\ probe' = [probe EXCEPT ![s] = "ended"]
    /\ \/ UNCHANGED <<answered, first>>
       \/ /\ answered' = Append(answered, s)
          /\ first' = IF first = None THEN s ELSE first
    /\ UNCHANGED <<search, selected, threadsOk, retries, outcome>>

(* wait_for: an answer, all done, or the timeout; then the joins.          *)
WaitForProbes ==
    /\ search = "spawn"
    /\ \A s \in selected : probe[s] # "none"
    /\ search' = "join"
    /\ UNCHANGED <<selected, probe, answered, first, threadsOk, retries, outcome>>

JoinProbes ==
    /\ search = "join"
    /\ \A s \in selected : probe[s] # "probing"
    /\ IF ~threadsOk \/ first = None
       THEN search' = "retry" /\ retries' = selected /\ UNCHANGED outcome
       ELSE search' = "done" /\ outcome' = first /\ UNCHANGED retries
    /\ UNCHANGED <<selected, probe, answered, first, threadsOk>>

(* The sequential attempt at one more server.                              *)
ProbeNext ==
    /\ search = "retry"
    /\ \E s \in retries :
          /\ retries' = retries \ {s}
          /\ \/ UNCHANGED <<search, outcome, answered>>
             \/ search' = "done" /\ outcome' = s /\ answered' = Append(answered, s)
    /\ UNCHANGED <<selected, probe, first, threadsOk>>

ProbesExhausted ==
    /\ search = "retry" /\ retries = {}
    /\ search' = "done"
    /\ outcome' = IF first = None THEN "unavailable" ELSE first
    /\ UNCHANGED <<selected, probe, answered, first, threadsOk, retries>>

SearchNext ==
    \/ FindServer \/ SpawnProbe \/ SpawnFails \/ WaitForProbes \/ JoinProbes
    \/ ProbeNext \/ ProbesExhausted
    \/ \E s \in Candidates : ProbeEnds(s)

SearchSpec == SearchInit /\ [][SearchNext]_searchVars

-----------------------------------------------------------------------------
(* SniAutoscanDialog                                                       *)

ScanInit ==
    /\ gui = "idle" /\ stopReq = FALSE /\ nextSni = 1 /\ tested = 0 /\ nFound = 0
    /\ scanner = [w \in Scanners |-> [at |-> "none", sni |-> 0, left |-> 0, ok |-> FALSE]]
    /\ posted = FALSE /\ found = 0 /\ works = {} /\ verdict = None

ScanAt(w, a) == scanner' = [scanner EXCEPT ![w].at = a]

StartScanning ==
    /\ gui = "idle" /\ verdict = None /\ \A w \in Scanners : scanner[w].at = "none"
    /\ gui' = "scanning"
    /\ scanner' = [w \in Scanners |-> [scanner[w] EXCEPT !.at = "loop"]]
    /\ stopReq' = FALSE /\ nextSni' = 1 /\ tested' = 0 /\ nFound' = 0 /\ found' = 0 /\ works' = {}
    /\ UNCHANGED <<posted, verdict>>

(* The top of WorkerThread's loop, and GetNextSni under the mutex.         *)
GetNextSni(w) ==
    /\ scanner[w].at = "loop"
    /\ IF stopReq \/ nextSni > SniCount
       THEN ScanAt(w, "ended") /\ UNCHANGED nextSni
       ELSE /\ scanner' = [scanner EXCEPT ![w] =
                             [at |-> "server", sni |-> nextSni, left |-> ScanServers, ok |-> FALSE]]
            /\ nextSni' = nextSni + 1
    /\ UNCHANGED <<gui, stopReq, tested, nFound, posted, found, works, verdict>>

(* TestHandshake and Get against the next server.                          *)
TestSni(w) ==
    /\ scanner[w].at = "server"
    /\ IF stopReq \/ scanner[w].left = 0 THEN ScanAt(w, "count")
       ELSE \E ok \in BOOLEAN :
               scanner' = [scanner EXCEPT ![w].at = "log", ![w].left = @ - 1, ![w].ok = ok]
    /\ UNCHANGED <<gui, stopReq, nextSni, tested, nFound, posted, found, works, verdict>>

(* Wrong variant: the worker waits until the entry is shown.               *)
AddLogEntry_Blocking(w) ==
    /\ scanner[w].at = "log" /\ gui = "scanning"
    /\ posted' = TRUE
    /\ ScanAt(w, IF scanner[w].ok THEN "count" ELSE "server")
    /\ UNCHANGED <<gui, stopReq, nextSni, tested, nFound, found, works, verdict>>

(* AddLogEntry posts to the GUI thread's event loop and goes on.           *)
AddLogEntry(w) ==
    /\ scanner[w].at = "log"
    /\ posted' = TRUE
    /\ ScanAt(w, IF scanner[w].ok THEN "count" ELSE "server")
    /\ UNCHANGED <<gui, stopReq, nextSni, tested, nFound, found, works, verdict>>

ShowLogEntries ==
    /\ gui \in {"idle", "scanning"} /\ posted
    /\ posted' = FALSE
    /\ UNCHANGED <<gui, stopReq, nextSni, tested, nFound, scanner, found, works, verdict>>

CountTested(w) ==
    /\ scanner[w].at = "count"
    /\ tested' = tested + 1
    /\ ScanAt(w, IF scanner[w].ok THEN "found" ELSE "loop")
    /\ UNCHANGED <<gui, stopReq, nextSni, nFound, posted, found, works, verdict>>

Garbled == SniCount + 1

(* found_working_sni_, after the name is counted and without the mutex: a  *)
(* string that two workers write at once may hold anything.                *)
SetFound(w) ==
    /\ scanner[w].at = "found"
    /\ works' = works \cup {scanner[w].sni}
    /\ ScanAt(w, "write")
    /\ UNCHANGED <<gui, stopReq, nextSni, tested, nFound, posted, found, verdict>>

CountFound(w) ==
    /\ scanner[w].at = "write"
    /\ found' \in {scanner[w].sni}
          \cup (IF \E x \in Scanners \ {w} : scanner[x].at = "write" THEN {0, Garbled} ELSE {})
    /\ nFound' = nFound + 1
    /\ ScanAt(w, "ended")
    /\ UNCHANGED <<gui, stopReq, nextSni, tested, posted, works, verdict>>

(* StopScanning: join every worker on the GUI thread.                      *)
StopScanning(why) ==
    /\ gui = "scanning"
    /\ gui' = why /\ stopReq' = TRUE
    /\ UNCHANGED <<nextSni, tested, nFound, scanner, posted, found, works, verdict>>

CancelScan == StopScanning("joinCancelled")

(* Wrong variant: whether a name was found is read before the joins.       *)
OnUpdateProgress_Early ==
    \/ nFound > 0 /\ found # 0 /\ StopScanning("joinFound")
    \/ nFound = 0 /\ tested >= SniCount /\ StopScanning("joinNone")

(* The timer's onUpdateProgress.                                           *)
OnUpdateProgress ==
    \/ nFound > 0 /\ found # 0 /\ StopScanning("joinFound")
    \/ (nFound = 0 \/ found = 0) /\ tested >= SniCount /\ StopScanning("joinExhausted")

(* The joins are over: a name found in time is saved; an exhausted scan    *)
(* looks at the counter again.                                             *)
ScanStopped ==
    /\ gui \notin {"idle", "scanning"}
    /\ \A w \in Scanners : scanner[w].at = "ended"
    /\ scanner' = [w \in Scanners |-> [scanner[w] EXCEPT !.at = "none"]]
    /\ verdict' = CASE gui = "joinFound" -> "found"
                    [] gui = "joinNone" -> "nothingWorks"
                    [] gui = "joinExhausted" /\ nFound = 0 -> "nothingWorks"
                    [] OTHER -> verdict
    /\ gui' = "idle"
    /\ UNCHANGED <<stopReq, nextSni, tested, nFound, posted, found, works>>

ScanWork(w) == GetNextSni(w) \/ TestSni(w) \/ AddLogEntry(w) \/ CountTested(w)
                 \/ SetFound(w) \/ CountFound(w)

ScanNext ==
    \/ StartScanning \/ ShowLogEntries \/ CancelScan \/ OnUpdateProgress \/ ScanStopped
    \/ \E w \in Scanners : ScanWork(w)

ScanSpec == ScanInit /\ [][ScanNext]_scanVars

(* The workers and the joining GUI thread go on; the timer keeps firing.   *)
ScanFairness ==
    /\ WF_scanVars(ScanStopped) /\ WF_scanVars(OnUpdateProgress)
    /\ \A w \in Scanners : WF_scanVars(ScanWork(w))

-----------------------------------------------------------------------------
(* Properties                                                              *)

(* A search that gives up had no answer at all; its result answered; if    *)
(* the threads worked the result is the first that did; and no thread is   *)
(* left joinable when their vector dies.                                   *)
SearchResult ==
    search = "done" =>
       /\ outcome = "unavailable" => answered = << >>
       /\ outcome # "unavailable" => \E i \in DOMAIN answered : answered[i] = outcome
       /\ threadsOk /\ outcome # "unavailable" => outcome = answered[1]
       /\ \A s \in selected : probe[s] # "probing"

(* "No working SNI found" is shown only if every name was tested and none  *)
(* worked, although workers count a name before they record that it works; *)
(* and a name that only one worker recorded is saved as it was tested.     *)
HonestVerdict ==
    /\ verdict = "nothingWorks" => works = {} /\ tested = SniCount
    /\ verdict = "found" /\ Cardinality(works) = 1 => found \in works

(* A scan comes to an end: joining workers that log through the thread     *)
(* that joins them is no deadlock.                                         *)
ScanEnds == (gui # "idle") ~> (gui = "idle")
=============================================================================
