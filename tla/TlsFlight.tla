----------------------------- MODULE TlsFlight -----------------------------
(***************************************************************************)
(* Reading one flight of a TLS handshake from a socket without a TLS       *)
(* library: the three waits of common/network/utils.h.  Both clients use   *)
(* them on the server's decoy answer, the server's handshake cache on the  *)
(* answer of the real site, and the server on a client's decoy hello.      *)
(*                                                                         *)
(* A flight is a sequence of records.  A record arrives in two parts, so   *)
(* that a read may end inside one.  Time counts poll intervals of 50 ms.   *)
(* The end of the stream is never seen: the loops read only when the       *)
(* socket has bytes, and at the end of a stream it has none.               *)
(***************************************************************************)
EXTENDS Naturals, Sequences

CONSTANTS
    Flights,       \* the flights a peer may send, by the wait that reads them
    Deadline,      \* drain_timeout, in polls
    QuietPolls     \* kQuietMs, in polls

ASSUME QuietPollsAssumption == QuietPolls \in Nat \ {0}

(* A flight is a sequence, and one with an answer in it is a whole answer: *)
(* a TLS 1.2 server ends with ServerHelloDone, a TLS 1.3 server with an    *)
(* encrypted record, and a client sends a hello.                           *)
ASSUME FlightsAssumption ==
    /\ Deadline \in Nat
    /\ DOMAIN Flights \subseteq {"sync", "async", "client"}
    /\ \A w \in DOMAIN Flights : \A f \in Flights[w] :
          /\ Len(f) \in Nat /\ DOMAIN f = 1..Len(f)
          /\ (\E i \in DOMAIN f : f[i] \in {"done", "app", "clientHello"}) =>
                \/ w = "client" /\ \E i \in DOMAIN f : f[i] = "clientHello"
                \/ w # "client" /\ \E i \in DOMAIN f :
                      \/ f[i] = "hello12" /\ \E j \in i..Len(f) : f[j] = "done"
                      \/ f[i] = "hello13" /\ f[Len(f)] = "app"

VARIABLES
    wait,      \* which wait is under way: its name, or "none"
    flight,    \* the records the peer sends
    arrived,   \* half records that reached the socket
    got,       \* half records in the wait's buffer
    complete,  \* hello_complete
    quiet,     \* polls since the last read (last_data_time)
    left,      \* polls until the deadline
    phase,     \* "loop", "sleep", "data" or "nothing"
    lull,      \* polls since the last arrival
    spare      \* left when the last bytes arrived

flightVars == <<wait, flight, arrived, got, complete, quiet, left, phase, lull, spare>>

-----------------------------------------------------------------------------
(* What the bytes say                                                      *)

(* detail::IsTls13ServerHello: the supported_versions extension decides,   *)
(* both hellos carry the legacy version of TLS 1.2.                        *)
IsTls13ServerHello(rec) == rec = "hello13"

Whole(n) == n % 2 = 0

(* Wrong variant: TLS 1.3 needs the optional ChangeCipherSpec.             *)
IsServerHelloComplete_NeedsCcs(n) ==
    /\ Whole(n)
    /\ \E i, j \in 1..(n \div 2) :
          \/ flight[i] = "hello12" /\ flight[j] = "done"
          \/ /\ IsTls13ServerHello(flight[i])
             /\ flight[j] = "ccs"
             /\ flight[n \div 2] = "app"

(* ServerHelloDone ends a TLS 1.2 flight; a TLS 1.3 flight may be at its   *)
(* end when the last record in the buffer is application data.  A record   *)
(* that is not whole leaves the answer open.                               *)
IsServerHelloComplete(n) ==
    /\ Whole(n)
    /\ \E i \in 1..(n \div 2) :
          \/ flight[i] = "hello12" /\ \E j \in i..(n \div 2) : flight[j] = "done"
          \/ IsTls13ServerHello(flight[i]) /\ flight[n \div 2] = "app"

IsClientHelloComplete(n) ==
    \E i \in 1..(n \div 2) : flight[i] = "clientHello"

-----------------------------------------------------------------------------
FlightInit ==
    /\ wait = "none" /\ flight = << >>
    /\ arrived = 0 /\ got = 0
    /\ complete = FALSE
    /\ quiet = 0 /\ left = 0 /\ lull = 0 /\ spare = 0
    /\ phase = "nothing"

(* A wait starts on a socket whose peer is about to send a flight.         *)
StartWait(w) ==
    /\ phase \in {"data", "nothing"}
    /\ wait' = w
    /\ flight' \in Flights[w]
    /\ arrived' = 0 /\ got' = 0
    /\ complete' = FALSE
    /\ quiet' = 0 /\ lull' = 0
    /\ left' = Deadline /\ spare' = Deadline
    /\ phase' = "loop"

(* The network brings some of what is still missing.                       *)
Arrive ==
    /\ phase \in {"loop", "sleep"}
    /\ \E k \in 1..(2 * Len(flight) - arrived) : arrived' = arrived + k
    /\ lull' = 0
    /\ spare' = left
    /\ UNCHANGED <<wait, flight, got, complete, quiet, left, phase>>

ReturnWith(p) ==
    /\ phase' = p
    /\ UNCHANGED <<wait, flight, arrived, got, complete, quiet, left, lull, spare>>

(* read_some takes what fits the buffer and sets last_data_time.           *)
ReadSome(done(_)) ==
    /\ \E k \in 1..(arrived - got) :
          /\ got' = got + k
          /\ complete' = (complete \/ done(got + k))
    /\ quiet' = 0
    /\ UNCHANGED <<wait, flight, arrived, left, phase, lull, spare>>

(* The loop of both waits for a server's flight: read until it may be      *)
(* complete, then until the socket has been quiet for a while.             *)
ServerHelloLoop ==
    /\ phase = "loop"
    /\ CASE left = 0 -> ReturnWith("nothing")
         [] left > 0 /\ arrived > got -> ReadSome(IsServerHelloComplete)
         [] left > 0 /\ arrived = got /\ complete /\ quiet >= QuietPolls -> ReturnWith("data")
         [] OTHER -> ReturnWith("sleep")

WaitForServerTlsHello == wait = "sync" /\ ServerHelloLoop

WaitForServerTlsHelloAsync == wait = "async" /\ ServerHelloLoop

(* The server's wait for a decoy hello ends with the hello.                *)
WaitForClientTlsHelloAsync ==
    /\ wait = "client" /\ phase = "loop"
    /\ CASE complete -> ReturnWith("data")
         [] ~complete /\ left = 0 -> ReturnWith("nothing")
         [] ~complete /\ left > 0 /\ arrived > got -> ReadSome(IsClientHelloComplete)
         [] OTHER -> ReturnWith("sleep")

(* One kPollInterval.                                                      *)
PollInterval ==
    /\ phase = "sleep"
    /\ phase' = "loop"
    /\ left' = left - 1
    /\ quiet' = IF quiet < QuietPolls THEN quiet + 1 ELSE quiet
    /\ lull' = IF lull < QuietPolls THEN lull + 1 ELSE lull
    /\ UNCHANGED <<wait, flight, arrived, got, complete, spare>>

FlightNext ==
    \/ \E w \in DOMAIN Flights : StartWait(w)
    \/ Arrive
    \/ WaitForServerTlsHello \/ WaitForServerTlsHelloAsync
    \/ WaitForClientTlsHelloAsync
    \/ PollInterval

FlightSpec == FlightInit /\ [][FlightNext]_flightVars

-----------------------------------------------------------------------------
(* Properties                                                              *)

AllArrived == arrived = 2 * Len(flight)

(* A flight is cut short only where the network paused for the whole quiet *)
(* period.                                                                 *)
CutOnlyByALull ==
    phase = "data" /\ wait # "client" => got = 2 * Len(flight) \/ lull >= QuietPolls

IsAnswer == \E i \in DOMAIN flight : flight[i] \in {"done", "app", "clientHello"}

(* A flight that arrived a quiet period and two polls before the deadline  *)
(* is not lost, with or without a ChangeCipherSpec in it.                  *)
InTimeIsReturned ==
    phase = "nothing" /\ wait # "none" /\ IsAnswer
       => ~AllArrived \/ spare < QuietPolls + 2

(* What the waits return: the whole flight if the network kept going, and  *)
(* something whenever the flight was there in time.                        *)
FlightOutcome == CutOnlyByALull /\ InTimeIsReturned
=============================================================================
