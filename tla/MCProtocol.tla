----------------------------- MODULE MCProtocol -----------------------------
(***************************************************************************)
(* The protocol library on small instances: the handshake of a connection  *)
(* and its server, the waits for a TLS flight, the obfuscated stream, the  *)
(* pools of connections, the requests of the API client.  These share no   *)
(* state: `part' picks the one that runs, and the others stay as they are. *)
(***************************************************************************)
EXTENDS Handshake, TlsFlight, Framing, Strategies, ApiClient, TLC

VARIABLE part

parts == <<part, shakeVars, flightVars, frameVars, poolVars, apiVars>>

(* Every strategy of censorship, in step with the server or at the edge of *)
(* the window of its key, with a hello that can be made or not, and peers  *)
(* that are no client of this project.                                     *)
Peer(kind, st, skew) == [kind |-> kind, strategy |-> st, skew |-> skew, fallback |-> FALSE]

MCPeers ==
    {Peer("ws", st, -1) : st \in CensorshipStrategy \ {"SniRealityMode"}}
    \cup {[Peer("ws", "RealityBrowser", -1) EXCEPT !.fallback = TRUE],
          Peer("api", "RealityBrowser", -3), Peer("api", "SniRealityMode", -1)}
    \cup {Peer(kind, "Sni", 0) : kind \in {"stranger", "garbage", "stub", "silent"}}

MCPatience == [k \in {"ws", "api", "stranger", "garbage", "stub", "silent"} |-> 1]
MCFetchTimeout == [mode \in {"reality", "reality2"} |-> 1]

(* TLS 1.2 and 1.3 answers, with and without a ChangeCipherSpec, an alert. *)
MCAnswers == {<<"hello12", "cert", "done">>, <<"hello13", "ccs", "app", "app">>,
              <<"hello13", "app">>, <<"alert">>}
MCFlights == [sync |-> MCAnswers, async |-> MCAnswers,
              client |-> {<<"clientHello">>, <<"ccs", "clientHello">>}]

MCRequestKinds == "r1" :> {"get"} @@ "r2" :> {"test", "async"}

Init ==
    /\ part \in {"handshake", "flight", "framing", "pool", "api"}
    /\ IF part = "framing" THEN TRUE ELSE version = 1
    /\ IF part = "pool" THEN TRUE ELSE strategy = "rolling"
    /\ ShakeInit /\ FlightInit /\ FrameInit /\ PoolInit /\ ApiInit

Next ==
    /\ UNCHANGED part
    /\ \/ part = "handshake" /\ ShakeNext /\ UNCHANGED <<flightVars, frameVars, poolVars, apiVars>>
       \/ part = "flight" /\ FlightNext /\ UNCHANGED <<shakeVars, frameVars, poolVars, apiVars>>
       \/ part = "framing" /\ FrameNext /\ UNCHANGED <<shakeVars, flightVars, poolVars, apiVars>>
       \/ part = "pool" /\ PoolNext /\ UNCHANGED <<shakeVars, flightVars, frameVars, apiVars>>
       \/ part = "api" /\ ApiNext /\ UNCHANGED <<shakeVars, flightVars, frameVars, poolVars>>

(* The fairness of the component that runs, as its module states it.       *)
Fairness ==
    /\ \A c \in Conns :
          /\ WF_shakeVars(part = "handshake" /\ SessionRun(c))
          /\ WF_shakeVars(part = "handshake" /\ ClientRun(c))
          /\ WF_shakeVars(part = "handshake" /\ (ProxyWithFallback(c) \/ HandleProxy(c)))
    /\ WF_shakeVars(part = "handshake" /\ Tick)
    /\ WF_poolVars(part = "pool" /\ Manage)
    /\ \A r \in Requests : WF_apiVars(part = "api" /\ ~ranInto /\ ExecuteWithTimeout(r))

Spec == Init /\ [][Next]_parts /\ Fairness
=============================================================================
