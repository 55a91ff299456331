----------------------------- MODULE Handshake -----------------------------
(***************************************************************************)
(* The first seconds of a connection, at both ends: the phases of          *)
(* Session::Run before the first request (fptn-server/web/session), the    *)
(* handshake cache it answers a decoy ClientHello from, and the clients    *)
(* that dial in: WebsocketClient, ApiClient, and whatever else finds the   *)
(* port.                                                                   *)
(*                                                                         *)
(* Every wait of the code that has a deadline has a countdown here, in     *)
(* seconds.  A ServerHello or a DNS answer may come at any time before the *)
(* countdown ends, or not at all.                                          *)
(***************************************************************************)
EXTENDS Integers, FiniteSets

CONSTANTS
    Conns,            \* TCP connections the server accepts
    Snis,             \* server names, lower case
    DefaultDomain,    \* default_proxy_domain_
    SelfNames,        \* names that resolve to an address of this server
    AllowedSnis,      \* allowed_sni_list_; empty allows every name
    DetectProbing,    \* enable_detect_probing_
    Peers,            \* the clients that may dial: [kind, strategy, skew, fallback]
    PeekTimeout,      \* 3 s, twice: for the first bytes, for a ClientHello
    DnsTimeout,       \* 5 s, for the address behind a name
    FetchTimeout,     \* 3 s or 5 s, by mode: for the ServerHello of one real host
    CcsTimeout,       \* 5 s, for the client's ChangeCipherSpec
    TlsTimeout,       \* 10 s, for the real TLS handshake
    Patience          \* how long a client waits for a ServerHello: by kind

ASSUME DefaultIsASni == DefaultDomain \in Snis
ASSUME SelfNamesAreSnis == SelfNames \subseteq Snis /\ DefaultDomain \notin SelfNames
ASSUME PeersAreRecords ==
    \A p \in Peers :
       /\ DOMAIN p = {"kind", "strategy", "skew", "fallback"}
       /\ p.skew \in Int /\ p.fallback \in BOOLEAN
ASSUME TimeoutsAssumption ==
    /\ PeekTimeout \in Nat /\ DnsTimeout \in Nat /\ CcsTimeout \in Nat /\ TlsTimeout \in Nat
    /\ \A mode \in {"reality", "reality2"} : FetchTimeout[mode] \in Nat
    /\ \A kind \in {"ws", "api"} : Patience[kind] \in Nat

VARIABLES
    srv,       \* the server's Session of a connection
    cli,       \* the client at the other end
    cache,     \* HandshakeCacheManager::cache_: name -> the host that answered
    verdict    \* self_proxy_cache: name -> "self", "other", or why it is unknown

shakeVars == <<srv, cli, cache, verdict>>

-----------------------------------------------------------------------------
(* What a client sends                                                     *)

(* CensorshipStrategy: the browser profiles differ only in the shape of    *)
(* their ClientHello and count as one.                                     *)
CensorshipStrategy == {"Sni", "TlsObfuscator", "SniRealityMode", "RealityBrowser"}

IsRealityModeWithFakeHandshake(st) == st \in {"SniRealityMode", "RealityBrowser"}

(* Where in the 32 bytes of a session id the key of the current second is. *)
SetHandshakeSessionID == 28
SetDecoyHandshakeSessionID == 10
GenerateDecoyTlsSessionId2 == 14

(* GenerateDecoyTlsHandshake, the fallback of both clients.                *)
GenerateDecoyTlsHandshake == SetDecoyHandshakeSessionID

(* WebsocketClient::GenerateHandshakePacket: a strategy without a profile  *)
(* falls back, and so does one whose session id or hello cannot be made.   *)
GenerateHandshakePacket(p) ==
    IF p.strategy = "RealityBrowser" /\ ~p.fallback THEN GenerateDecoyTlsSessionId2
    ELSE GenerateDecoyTlsHandshake

(* ApiClient's copy of it.                                                 *)
ApiHandshakePacket(p) ==
    IF p.strategy = "RealityBrowser" /\ ~p.fallback THEN GenerateDecoyTlsSessionId2
    ELSE GenerateDecoyTlsHandshake

(* Whatever finds the port and is no client of this project.               *)
Strangers == {"silent", "garbage", "stranger", "stub"}

(* The first bytes on the wire: an obfuscated record, a ClientHello with   *)
(* the key at a position (0: nowhere), the first part of one, something    *)
(* else, or nothing.                                                       *)
FirstBytes(p) ==
    CASE p.kind = "silent" -> [form |-> "nothing", key |-> 0]
      [] p.kind = "garbage" -> [form |-> "other", key |-> 0]
      [] p.kind = "stranger" -> [form |-> "hello", key |-> 0]
      [] p.kind = "stub" -> [form |-> "part", key |-> 0]
      [] p.kind \notin Strangers /\ p.strategy = "TlsObfuscator" ->
            [form |-> "record", key |-> SetHandshakeSessionID]
      [] p.kind = "api" /\ IsRealityModeWithFakeHandshake(p.strategy) ->
            [form |-> "hello", key |-> ApiHandshakePacket(p)]
      [] p.kind = "ws" /\ IsRealityModeWithFakeHandshake(p.strategy) ->
            [form |-> "hello", key |-> GenerateHandshakePacket(p)]
      [] OTHER -> [form |-> "hello", key |-> SetHandshakeSessionID]

IsFptnClient(p) == p.kind \in {"ws", "api"}

-----------------------------------------------------------------------------
(* How the server reads it.  skew is the client's clock minus the server's,*)
(* age the seconds since the client chose the key.                         *)

Drift(c) == cli[c].peer.skew - cli[c].age

(* Wrong variant: the window ends one second early.                        *)
KeyOfNow_Short(c) == Drift(c) \in (-4)..5

(* The three checks of a session id try the keys of eleven seconds.        *)
KeyOfNow(c) == Drift(c) \in (-5)..5

IsFptnClientSessionID(c) == FirstBytes(cli[c].peer).key = 28 /\ KeyOfNow(c)
IsDecoyHandshakeSessionID(c) == FirstBytes(cli[c].peer).key = 10 /\ KeyOfNow(c)
IsDecoyHandshakeSessionID2(c) == FirstBytes(cli[c].peer).key = 14 /\ KeyOfNow(c)

HasKey(c) == IsFptnClientSessionID(c) \/ IsDecoyHandshakeSessionID(c)
                \/ IsDecoyHandshakeSessionID2(c)

(* TlsObfuscator2::CheckProtocol, through obfuscator::DetectObfuscator.    *)
CheckProtocol(c) == FirstBytes(cli[c].peer).form = "record" /\ Drift(c) \in (-10)..10

(* common::network::IsTlsClientHello and the peek that waits for a whole   *)
(* one.                                                                    *)
IsTlsClientHello(p) == FirstBytes(p).form = "hello"

(* ApplyAllowedSniList                                                     *)
ApplyAllowedSniList(sni) ==
    IF AllowedSnis = {} \/ sni \in AllowedSnis \cup {DefaultDomain} THEN sni
    ELSE DefaultDomain

-----------------------------------------------------------------------------
NoPeer == [kind |-> "none", strategy |-> "Sni", skew |-> 0, fallback |-> FALSE]

NewSession == [pc |-> "detect", left |-> PeekTimeout, obf |-> "none",
               sni |-> DefaultDomain, target |-> DefaultDomain, mode |-> "none"]

ShakeInit ==
    /\ srv = [c \in Conns |-> [NewSession EXCEPT !.pc = "closed"]]
    /\ cli = [c \in Conns |-> [peer |-> NoPeer, sni |-> DefaultDomain,
                               pc |-> "failed", left |-> 0, age |-> 0, obf |-> "none"]]
    /\ cache = [s \in Snis |-> "none"]
    /\ verdict = [s \in Snis |-> "unknown"]

(* Session c goes on to pc, with a new countdown.                          *)
Go(c, pc, left) == srv' = [srv EXCEPT ![c].pc = pc, ![c].left = left]

Proxying(c, target, pc) ==
    srv' = [srv EXCEPT ![c].pc = pc, ![c].target = target, ![c].left = 0]

Close(c) == Go(c, "closed", 0)

At(c, pc) == srv[c].pc = pc

(* The client has given up and closed its socket.                          *)
Gone(c) == cli[c].pc = "failed"

(* The server's answer to the fake hello has reached the client whole.     *)
AnswerArrived(c) == srv[c].pc \in {"ccs", "tls"}

-----------------------------------------------------------------------------
(* The clients                                                             *)

(* Connect, up to the TCP connection, and the fake ClientHello of a        *)
(* Reality strategy; the others start with the real one.  A connection     *)
(* that is over may be dialled again, by anyone.                           *)
Dial(c) ==
    /\ cli[c].pc \in {"failed", "done"} /\ At(c, "closed")
    /\ \E p \in Peers, s \in Snis :
          LET fake == IsFptnClient(p) /\ IsRealityModeWithFakeHandshake(p.strategy)
          IN  cli' = [cli EXCEPT ![c] =
                [peer |-> p, sni |-> s, age |-> 0,
                 pc |-> IF fake THEN "answer" ELSE "tls",
                 left |-> IF fake THEN Patience[p.kind] ELSE TlsTimeout,
                 obf |-> IF p.strategy = "TlsObfuscator" THEN "tls2" ELSE "none"]]
    /\ srv' = [srv EXCEPT ![c] = NewSession]
    /\ UNCHANGED <<cache, verdict>>

(* The answer is read, ChangeCipherSpec sent; TLS goes on under            *)
(* TlsObfuscator2 whatever the strategy.                                   *)
FakeHandshakeDone(c, kind) ==
    /\ cli[c].pc = "answer" /\ cli[c].peer.kind = kind
    /\ AnswerArrived(c)
    /\ cli' = [cli EXCEPT ![c].pc = "tls", ![c].left = TlsTimeout, ![c].obf = "tls2"]
    /\ UNCHANGED <<srv, cache, verdict>>

(* WebsocketClient::PerformFakeHandshake2                                  *)
PerformFakeHandshake2(c) == FakeHandshakeDone(c, "ws")

(* ApiClient::PerformFakeHandshake2                                        *)
ApiPerformFakeHandshake2(c) == FakeHandshakeDone(c, "api")

(* The wait for the answer is over.  It polls the bytes that have arrived  *)
(* and does not see that the server hung up.                               *)
AnswerTimedOut(c) ==
    /\ cli[c].pc = "answer" /\ cli[c].left = 0
    /\ cli' = [cli EXCEPT ![c].pc = "failed"]
    /\ UNCHANGED <<srv, cache, verdict>>

(* The real handshake fails: too late, or the server hung up.              *)
ClientTlsFails(c) ==
    /\ cli[c].pc = "tls"
    /\ cli[c].left = 0 \/ At(c, "closed")
    /\ cli' = [cli EXCEPT ![c].pc = "failed", ![c].left = 0]
    /\ UNCHANGED <<srv, cache, verdict>>

-----------------------------------------------------------------------------
(* Session::Run                                                            *)

(* An obfuscated client goes straight to TLS, with the obfuscator set.     *)
DetectObfuscator(c) ==
    /\ At(c, "detect")
    /\ FirstBytes(cli[c].peer).form # "nothing"
    /\ IF CheckProtocol(c)
       THEN srv' = [srv EXCEPT ![c].pc = "tls", ![c].left = TlsTimeout, ![c].obf = "tls2"]
       ELSE Go(c, "hello", PeekTimeout)
    /\ UNCHANGED <<cli, cache, verdict>>

(* The hello is read: its name counts, the default one if it has none.     *)
HelloRead(c, sni) ==
    srv' = [srv EXCEPT ![c].sni = ApplyAllowedSniList(sni), ![c].left = 1,
                       ![c].pc = IF DetectProbing THEN "probe" ELSE "mode"]

(* PeekClientHelloWithTimeout ends early with a whole hello, or with bytes *)
(* that cannot be the start of one.                                        *)
PeekClientHello(c) ==
    /\ At(c, "hello")
    /\ \/ IsTlsClientHello(cli[c].peer) /\ HelloRead(c, cli[c].sni)
       \/ FirstBytes(cli[c].peer).form \notin {"hello", "part"} /\ Close(c)
    /\ UNCHANGED <<cli, cache, verdict>>

(* It ends with the part of a hello that did arrive.                       *)
PeekTimedOut(c) ==
    /\ At(c, "hello") /\ srv[c].left = 0
    /\ IF FirstBytes(cli[c].peer).form = "part" THEN HelloRead(c, DefaultDomain)
       ELSE Close(c)
    /\ UNCHANGED <<cli, cache, verdict>>

(* PeekWithTimeout: not a byte came.                                       *)
PeekWithTimeout(c) ==
    /\ At(c, "detect") /\ srv[c].left = 0
    /\ Close(c)
    /\ UNCHANGED <<cli, cache, verdict>>

(* IsSniSelfProxyAttempt needs no DNS for the default name, nor when the   *)
(* cache has a verdict that is younger than an hour.                       *)
GetCachedSelfProxyVerdict(s) == s = DefaultDomain \/ verdict[s] # "unknown"

IsSelf(s) == s # DefaultDomain /\ verdict[s] = "self"

(* Wrong variant: the name is kept although it is the server's own.        *)
DetectProbe_KeepsName(c, self) ==
    IF HasKey(c) THEN Go(c, "mode", 1) ELSE Proxying(c, srv[c].sni, "proxy")

(* DetectProbing, once the name is judged: a hello without a key of these  *)
(* seconds is a prober's and is handed to the site it names, or to the     *)
(* default one if that is us.                                              *)
DetectProbe(c, self) ==
    IF HasKey(c) THEN Go(c, "mode", 1)
    ELSE Proxying(c, IF self THEN DefaultDomain ELSE srv[c].sni, "proxy")

(* A decoy that names this server itself gets the default site.            *)
RealityMode(c, self) ==
    IF self THEN Proxying(c, DefaultDomain, "proxyOnly") ELSE Go(c, "lookup", 0)

Judged(c, self) ==
    IF srv[c].pc \in {"probe", "probeDns"} THEN DetectProbe(c, self)
    ELSE RealityMode(c, self)

IsSniSelfProxyAttempt(c) ==
    /\ srv[c].pc \in {"probe", "reality"}
    /\ IF GetCachedSelfProxyVerdict(srv[c].sni) THEN Judged(c, IsSelf(srv[c].sni))
       ELSE Go(c, IF At(c, "probe") THEN "probeDns" ELSE "realityDns", DnsTimeout)
    /\ UNCHANGED <<cli, cache, verdict>>

(* The resolver answers, or fails, or the timer wins the race; a failure   *)
(* is remembered as "not this server" like any other negative answer.      *)
CacheSelfProxyVerdict(c) ==
    /\ srv[c].pc \in {"probeDns", "realityDns"}
    /\ \E failed \in BOOLEAN :
          LET v == IF failed THEN "failed" ELSE IF srv[c].sni \in SelfNames THEN "self" ELSE "other"
          IN  verdict' = [verdict EXCEPT ![srv[c].sni] = v] /\ Judged(c, v = "self")
    /\ UNCHANGED <<cli, cache>>

(* Wrong variant: both decoys are handled the deprecated way.              *)
IsRealityHandshake_Either(c) ==
    /\ At(c, "mode")
    /\ CASE IsDecoyHandshakeSessionID(c) \/ IsDecoyHandshakeSessionID2(c) ->
              srv' = [srv EXCEPT ![c].pc = "reality", ![c].left = 0, ![c].mode = "reality"]
         [] IsFptnClientSessionID(c) -> Go(c, "tls", TlsTimeout)
         [] OTHER -> Proxying(c, srv[c].sni, "proxy")
    /\ UNCHANGED <<cli, cache, verdict>>

(* IsRealityHandshake, which reads the clock again.                        *)
IsRealityHandshake(c) ==
    /\ At(c, "mode")
    /\ CASE IsDecoyHandshakeSessionID(c) ->
              srv' = [srv EXCEPT ![c].pc = "reality", ![c].left = 0, ![c].mode = "reality"]
         [] IsDecoyHandshakeSessionID2(c) ->
              srv' = [srv EXCEPT ![c].pc = "reality", ![c].left = 0, ![c].mode = "reality2"]
         [] IsFptnClientSessionID(c) -> Go(c, "tls", TlsTimeout)
         [] OTHER -> Proxying(c, srv[c].sni, "proxy")
    /\ UNCHANGED <<cli, cache, verdict>>

-----------------------------------------------------------------------------
(* The fake handshake: HandshakeCacheManager::GetHandshake                 *)

(* The answer is written; the deprecated mode goes on to TLS under the old *)
(* obfuscator, the new one first waits for the client's ChangeCipherSpec.  *)
Answered(c, s) ==
    IF srv[c].mode = "reality"
    THEN [s EXCEPT ![c].pc = "tls", ![c].left = TlsTimeout, ![c].obf = "tls1"]
    ELSE [s EXCEPT ![c].pc = "ccs", ![c].left = CcsTimeout]

CheckCache(c) ==
    /\ At(c, "lookup")
    /\ IF cache[srv[c].sni] # "none" THEN srv' = Answered(c, srv)
       ELSE Go(c, "fetch", FetchTimeout[srv[c].mode])
    /\ UNCHANGED <<cli, cache, verdict>>

(* FetchRealHandshake: the real host answers in time ...                   *)
Fetched(c) ==
    /\ srv[c].pc \in {"fetch", "fetchDefault"}
    /\ LET host == IF At(c, "fetch") THEN srv[c].sni ELSE DefaultDomain
       IN  cache' = [cache EXCEPT ![srv[c].sni] = host, ![host] = host]
    /\ srv' = Answered(c, srv)
    /\ UNCHANGED <<cli, verdict>>

(* ... or does not; the first time, the default domain is next.            *)
FetchFailed(c) ==
    /\ srv[c].pc \in {"fetch", "fetchDefault"}
    /\ IF At(c, "fetchDefault") THEN Close(c)
       ELSE IF cache[DefaultDomain] # "none" THEN srv' = Answered(c, srv)
       ELSE Go(c, "fetchDefault", FetchTimeout[srv[c].mode])
    /\ UNCHANGED <<cli, cache, verdict>>

(* Wrong variant: the wait has no deadline.                                *)
ChangeCipherSpec_Forever(c) ==
    /\ At(c, "ccs") /\ cli[c].pc = "tls"
    /\ srv' = [srv EXCEPT ![c].pc = "tls", ![c].left = TlsTimeout, ![c].obf = "tls2"]
    /\ UNCHANGED <<cli, cache, verdict>>

(* WaitForClientChangeCipherSpec                                           *)
ChangeCipherSpec(c) ==
    /\ At(c, "ccs")
    /\ IF cli[c].pc = "tls"
       THEN srv' = [srv EXCEPT ![c].pc = "tls", ![c].left = TlsTimeout, ![c].obf = "tls2"]
       ELSE srv[c].left = 0 /\ Close(c)
    /\ UNCHANGED <<cli, cache, verdict>>

(* cache_ttl_ of a cached ServerHello, or the hour of a verdict, is over.  *)
Expire ==
    \E s \in Snis :
       /\ \/ /\ cache[s] # "none"
             /\ cache' = [cache EXCEPT ![s] = "none"]
             /\ UNCHANGED verdict
          \/ /\ verdict[s] # "unknown"
             /\ verdict' = [verdict EXCEPT ![s] = "unknown"]
             /\ UNCHANGED cache
       /\ UNCHANGED <<srv, cli>>

-----------------------------------------------------------------------------
(* The real TLS handshake and the proxy                                    *)

(* Both ends finish only if they speak through the same obfuscator.        *)
TlsHandshake(c) ==
    /\ At(c, "tls") /\ cli[c].pc = "tls"
    /\ srv[c].obf = cli[c].obf
    /\ Go(c, "request", 0)
    /\ cli' = [cli EXCEPT ![c].pc = "done", ![c].left = 0]
    /\ UNCHANGED <<cache, verdict>>

TlsFails(c) ==
    /\ At(c, "tls")
    /\ \/ srv[c].left = 0
       \/ Gone(c)
       \/ cli[c].pc = "tls" /\ srv[c].obf # cli[c].obf
    /\ Close(c)
    /\ UNCHANGED <<cli, cache, verdict>>

(* HandleProxy: relays until an end closes or sixty seconds of silence.    *)
HandleProxy(c) ==
    /\ srv[c].pc \in {"proxy", "proxyOnly"}
    /\ Go(c, "relay", 0)
    /\ UNCHANGED <<cli, cache, verdict>>

(* The target does not answer.  A name that does not resolve leaves the    *)
(* client's socket open and ProxyWithFallback turns to the default domain; *)
(* a connection that fails closes it.                                      *)
ProxyWithFallback(c) ==
    /\ srv[c].pc \in {"proxy", "proxyOnly"}
    /\ \/ /\ At(c, "proxy") /\ srv[c].target # DefaultDomain
          /\ Proxying(c, DefaultDomain, "proxyOnly")
       \/ Close(c)
    /\ UNCHANGED <<cli, cache, verdict>>

(* The relay, or the session that was served, is over.                     *)
SessionEnds(c) ==
    /\ srv[c].pc \in {"relay", "request"}
    /\ Close(c)
    /\ UNCHANGED <<cli, cache, verdict>>

-----------------------------------------------------------------------------
(* Time: a second passes when nobody has anything to do at once.           *)
WaitsServer == {"detect", "hello", "mode", "probeDns", "realityDns", "fetch",
                "fetchDefault", "ccs", "tls"}

Quiet == {"request", "relay", "closed"}

(* The clock still matters for the key in the hello.                       *)
HelloPhase == {"detect", "hello", "probeDns", "mode"}

Tick ==
    /\ \A c \in Conns :
          /\ srv[c].pc \in Quiet \/ (srv[c].pc \in WaitsServer /\ srv[c].left > 0)
          /\ cli[c].pc \in {"answer", "tls"} => cli[c].left > 0
    /\ \E c \in Conns : srv[c].left > 0 \/ cli[c].left > 0
    /\ srv' = [c \in Conns |-> [srv[c] EXCEPT !.left = IF @ > 0 THEN @ - 1 ELSE 0]]
    /\ cli' = [c \in Conns |-> [cli[c] EXCEPT
                    !.left = IF @ > 0 THEN @ - 1 ELSE 0,
                    !.age = IF srv[c].pc \in HelloPhase THEN @ + 1 ELSE @]]
    /\ UNCHANGED <<cache, verdict>>

SessionRun(c) ==
    \/ DetectObfuscator(c) \/ PeekClientHello(c)
    \/ PeekTimedOut(c) \/ PeekWithTimeout(c)
    \/ IsSniSelfProxyAttempt(c) \/ CacheSelfProxyVerdict(c) \/ IsRealityHandshake(c)
    \/ CheckCache(c) \/ Fetched(c) \/ FetchFailed(c) \/ ChangeCipherSpec(c)
    \/ TlsHandshake(c) \/ TlsFails(c)

ClientRun(c) ==
    \/ PerformFakeHandshake2(c) \/ ApiPerformFakeHandshake2(c)
    \/ AnswerTimedOut(c) \/ ClientTlsFails(c)

ShakeNext ==
    \/ \E c \in Conns : Dial(c) \/ SessionRun(c) \/ ClientRun(c)
                        \/ HandleProxy(c) \/ ProxyWithFallback(c) \/ SessionEnds(c)
    \/ Expire
    \/ Tick

ShakeSpec == ShakeInit /\ [][ShakeNext]_shakeVars

(* Coroutines that can run do, and time passes.                            *)
ShakeFairness ==
    /\ \A c \in Conns : WF_shakeVars(SessionRun(c)) /\ WF_shakeVars(ClientRun(c))
    /\ \A c \in Conns : WF_shakeVars(ProxyWithFallback(c) \/ HandleProxy(c))
    /\ WF_shakeVars(Tick)

FairShakeSpec == ShakeSpec /\ ShakeFairness

-----------------------------------------------------------------------------
(* Properties                                                              *)

Proxied == {"proxy", "proxyOnly", "relay"}

(* A client whose decoy hello is the fallback: its key is in the place of  *)
(* the deprecated mode.                                                    *)
FallsBack(p) ==
    /\ IsFptnClient(p) /\ IsRealityModeWithFakeHandshake(p.strategy)
    /\ p.strategy = "SniRealityMode" \/ p.fallback

(* When both ends are in the real TLS handshake they speak through the     *)
(* same obfuscator, whichever way each of them chose it: the server from   *)
(* the bytes it peeked and the session id, the client from its strategy;   *)
(* except that with a client that fell back they never do, for the server  *)
(* takes the deprecated obfuscator and the client the new one.             *)
ObfuscatorsAgree ==
    \A c \in Conns :
       At(c, "tls") /\ cli[c].pc = "tls"
          => (srv[c].obf = cli[c].obf <=> ~FallsBack(cli[c].peer))

(* With probing detection on, no session starts to proxy to a name of this *)
(* server, although the verdict that prevents it is cached and the hello   *)
(* judged twice; the exceptions are a name service that failed within the  *)
(* hour, and a key that ran out between the two looks at the clock.        *)
NoProxyToSelf ==
    [][\A c \in Conns :
          (srv[c].pc \notin Proxied /\ srv'[c].pc \in Proxied /\ srv'[c].target \in SelfNames)
             => \/ ~DetectProbing
                \/ verdict'[srv'[c].target] = "failed"
                \/ At(c, "mode") /\ Drift(c) = -6]_shakeVars

(* The longest a hello can be on its way to the last look at its key.      *)
SlowestHello == 2 * PeekTimeout + DnsTimeout + 1

(* A client of this project is not taken for a prober if the slowest name  *)
(* lookup cannot carry its key out of the window: the lookup comes before  *)
(* the key is looked at.  Only a decoy that names the server itself is     *)
(* handed to another site.                                                 *)
NotTakenForProber ==
    \A c \in Conns :
       IsFptnClient(cli[c].peer) /\ cli[c].peer.skew \in (SlowestHello - 5)..5
          => ~At(c, "proxy") /\ (At(c, "proxyOnly") => srv[c].sni # DefaultDomain)

(* A client of this project that connects in time is served: the server    *)
(* does not take it for a prober and, unless its hello is the fallback,    *)
(* the two ends speak the same protocol.                                   *)
ClientsServed == ObfuscatorsAgree /\ NotTakenForProber

(* Every accepted connection leaves the handshake: it is served, relayed   *)
(* or closed, whatever the client sends or withholds.                      *)
HandshakeEnds ==
    \A c \in Conns : At(c, "detect") ~> srv[c].pc \in {"request", "relay", "closed"}

(* "the client must outwait that worst case": a client does not give up on *)
(* a server that is still fetching the answer for it.                      *)
ClientOutwaits ==
    \A c \in Conns : cli[c].pc = "answer" /\ cli[c].left = 0
          => srv[c].pc \notin {"fetch", "fetchDefault"}
=============================================================================
