--------------------------- MODULE ProtocolProofs ---------------------------
(***************************************************************************)
(* What is proved of the protocol library: the first seconds of a          *)
(* connection at both ends.                                                *)
(***************************************************************************)
EXTENDS Handshake, TlsFlight, Framing, ApiClient, SequenceTheorems, TLAPS

-----------------------------------------------------------------------------
(* The handshake: the inductive invariant                                  *)

(* A peer that begins with a fake handshake.                               *)
Fakes(p) == IsFptnClient(p) /\ IsRealityModeWithFakeHandshake(p.strategy)

(* The obfuscator a peer brings to the real TLS handshake.                 *)
Brings(p) == IF Fakes(p) \/ p.strategy = "TlsObfuscator" THEN "tls2" ELSE "none"

Judging == {"probe", "probeDns", "mode"}

Deceiving == {"reality", "realityDns", "lookup", "fetch", "fetchDefault", "ccs"}

ServerPcs == {"detect", "hello", "tls", "proxy", "proxyOnly", "relay", "request", "closed"}
                \cup Judging \cup Deceiving

SessionType == [pc : ServerPcs, left : Nat, obf : {"none", "tls1", "tls2"},
                sni : Snis, target : Snis, mode : {"none", "reality", "reality2"}]

ClientType == [peer : Peers \cup {NoPeer}, sni : Snis, left : Nat, age : Nat,
               pc : {"answer", "tls", "done", "failed"}, obf : {"none", "tls2"}]

ShakeTypes ==
    /\ srv \in [Conns -> SessionType]
    /\ cli \in [Conns -> ClientType]
    /\ cache \in [Snis -> Snis \cup {"none"}]
    /\ verdict \in [Snis -> {"unknown", "self", "other", "failed"}]

(* What the server has learned from the first bytes; both ends end up with *)
(* the obfuscator the peer's strategy brings, unless the peer fell back.   *)
Learned(c) ==
    LET p == cli[c].peer
    IN  /\ srv[c].pc \in {"detect", "hello"} \cup Judging \cup Deceiving
              => srv[c].obf = "none"
        /\ srv[c].pc \in Judging => FirstBytes(p).form \in {"hello", "part"}
        /\ srv[c].pc \in Deceiving =>
              \/ srv[c].mode = "reality" /\ FirstBytes(p).key = 10 /\ ~At(c, "ccs")
              \/ srv[c].mode = "reality2" /\ FirstBytes(p).key = 14
        /\ cli[c].pc = "answer" => Fakes(p)
        /\ cli[c].pc = "tls" => cli[c].obf = Brings(p)
        /\ At(c, "tls") => srv[c].obf = IF FallsBack(p) THEN "tls1" ELSE Brings(p)

(* How old the key in the hello can be by the time it is looked at.        *)
InTime(c) ==
    LET most(n) == cli[c].age + srv[c].left <= n
    IN  /\ At(c, "detect") => most(PeekTimeout)
        /\ At(c, "hello") => most(2 * PeekTimeout)
        /\ At(c, "probe") => cli[c].age <= 2 * PeekTimeout
        /\ At(c, "probeDns") => most(2 * PeekTimeout + DnsTimeout)
        /\ At(c, "mode") => most(SlowestHello) /\ srv[c].left <= 1

(* With probing detection on, the key was good when the mode was entered.  *)
KeyWasGood(c) ==
    DetectProbing /\ At(c, "mode") =>
       /\ FirstBytes(cli[c].peer).key \in {28, 10, 14}
       /\ Drift(c) + 1 - srv[c].left \in (-5)..5

NoProber(c) ==
    IsFptnClient(cli[c].peer) /\ cli[c].peer.skew \in (SlowestHello - 5)..5
       => ~At(c, "proxy") /\ (At(c, "proxyOnly") => srv[c].sni # DefaultDomain)

(* The resolver does not err about the server's own names.                 *)
VerdictsRight == \A s \in SelfNames : verdict[s] # "other"

Sound(c) == Learned(c) /\ InTime(c) /\ KeyWasGood(c) /\ NoProber(c)

ShakeInv == ShakeTypes /\ VerdictsRight /\ \A c \in Conns : Sound(c)

-----------------------------------------------------------------------------
(* The handshake: lemmas                                                   *)

(* What the first bytes give away.                                         *)
LEMMA FirstBytesTell ==
    ASSUME NEW p
    PROVE  /\ FirstBytes(p).key \in {0, 10, 14, 28}
           /\ FirstBytes(p).form = "record" => Brings(p) = "tls2" /\ ~FallsBack(p)
           /\ FirstBytes(p).form \in {"hello", "part"} /\ FirstBytes(p).key = 28
                 => Brings(p) = "none"
           /\ FirstBytes(p).key = 14 => Brings(p) = "tls2"
           /\ FirstBytes(p).key = 10 <=> FallsBack(p)
           /\ IsFptnClient(p) => FirstBytes(p).key \in {28, 10, 14}
<1> USE DEF SetHandshakeSessionID, ApiHandshakePacket, GenerateHandshakePacket,
            GenerateDecoyTlsHandshake, SetDecoyHandshakeSessionID,
            GenerateDecoyTlsSessionId2
<1> DEFINE special == p.kind \in Strangers
<1>1. CASE special
  BY <1>1 DEF FirstBytes, IsFptnClient, Strangers, FallsBack
<1>2. CASE ~special /\ p.strategy = "TlsObfuscator"
  <2>1. FirstBytes(p) = [form |-> "record", key |-> 28]
    BY <1>2 DEF FirstBytes, Strangers, IsRealityModeWithFakeHandshake
  <2> QED
    BY <1>2, <2>1 DEF Brings, FallsBack, IsRealityModeWithFakeHandshake
<1>3. CASE ~special /\ p.strategy # "TlsObfuscator" /\ Fakes(p)
  BY <1>3 DEF FirstBytes, Strangers, Brings, Fakes, IsFptnClient, FallsBack,
              IsRealityModeWithFakeHandshake
<1>4. CASE ~special /\ p.strategy # "TlsObfuscator" /\ ~Fakes(p)
  BY <1>4 DEF FirstBytes, Strangers, Brings, Fakes, IsFptnClient, FallsBack
<1> QED
  BY <1>1, <1>2, <1>3, <1>4

LEMMA GoEffect ==
    ASSUME ShakeTypes, NEW c \in Conns, NEW pc \in ServerPcs, NEW secs \in Nat,
           Go(c, pc, secs)
    PROVE  /\ srv' \in [Conns -> SessionType]
           /\ srv'[c].pc = pc /\ srv'[c].left = secs
           /\ srv'[c].obf = srv[c].obf /\ srv'[c].sni = srv[c].sni
           /\ srv'[c].mode = srv[c].mode /\ srv'[c].target = srv[c].target
           /\ \A d \in Conns \ {c} : srv'[d] = srv[d]
<1>1. srv \in [Conns -> SessionType] /\ srv[c] \in SessionType
  BY DEF ShakeTypes
<1>2. srv' = [srv EXCEPT ![c].pc = pc, ![c].left = secs]
  BY DEF Go
<1>3. /\ srv'[c] \in SessionType /\ srv'[c].pc = pc /\ srv'[c].left = secs
      /\ srv'[c].obf = srv[c].obf /\ srv'[c].sni = srv[c].sni
      /\ srv'[c].mode = srv[c].mode /\ srv'[c].target = srv[c].target
  BY <1>1, <1>2 DEF SessionType
<1> QED
  BY <1>1, <1>2, <1>3

LEMMA ProxyingEffect ==
    ASSUME ShakeTypes, NEW c \in Conns, NEW target \in Snis, NEW pc \in ServerPcs,
           Proxying(c, target, pc)
    PROVE  /\ srv' \in [Conns -> SessionType]
           /\ srv'[c].pc = pc /\ srv'[c].target = target
           /\ srv'[c].obf = srv[c].obf /\ srv'[c].sni = srv[c].sni
           /\ \A d \in Conns \ {c} : srv'[d] = srv[d]
<1>1. srv \in [Conns -> SessionType] /\ srv[c] \in SessionType
  BY DEF ShakeTypes
<1>2. srv' = [srv EXCEPT ![c].pc = pc, ![c].target = target, ![c].left = 0]
  BY DEF Proxying
<1>3. /\ srv'[c] \in SessionType /\ srv'[c].pc = pc /\ srv'[c].target = target
      /\ srv'[c].obf = srv[c].obf /\ srv'[c].sni = srv[c].sni
  BY <1>1, <1>2 DEF SessionType
<1> QED
  BY <1>1, <1>2, <1>3

LEMMA HelloReadEffect ==
    ASSUME ShakeTypes, NEW c \in Conns, NEW sni \in Snis, HelloRead(c, sni)
    PROVE  /\ srv' \in [Conns -> SessionType]
           /\ srv'[c].pc = IF DetectProbing THEN "probe" ELSE "mode"
           /\ srv'[c].left = 1
           /\ srv'[c].obf = srv[c].obf /\ srv'[c].mode = srv[c].mode
           /\ \A d \in Conns \ {c} : srv'[d] = srv[d]
<1> DEFINE name == ApplyAllowedSniList(sni)
           pc == IF DetectProbing THEN "probe" ELSE "mode"
<1>1. name \in Snis
  BY DefaultIsASni DEF ApplyAllowedSniList
<1>2. pc \in ServerPcs
  BY DEF ServerPcs, Judging
<1>3. srv' = [srv EXCEPT ![c].sni = name, ![c].left = 1, ![c].pc = pc]
  BY DEF HelloRead
<1> HIDE DEF name, pc
<1>4. /\ srv' \in [Conns -> SessionType]
      /\ srv'[c].pc = pc /\ srv'[c].left = 1
      /\ srv'[c].obf = srv[c].obf /\ srv'[c].mode = srv[c].mode
      /\ \A d \in Conns \ {c} : srv'[d] = srv[d]
  <2>1. srv \in [Conns -> SessionType] /\ srv[c] \in SessionType
    BY DEF ShakeTypes
  <2>2. /\ srv'[c] \in SessionType /\ srv'[c].pc = pc /\ srv'[c].left = 1
        /\ srv'[c].obf = srv[c].obf /\ srv'[c].mode = srv[c].mode
    BY <1>1, <1>2, <1>3, <2>1 DEF SessionType
  <2> QED
    BY <1>3, <2>1, <2>2
<1> QED
  BY <1>4 DEF pc

(* To the real TLS handshake, under obfuscator o.                          *)
LEMMA ToTlsEffect ==
    ASSUME ShakeTypes, NEW c \in Conns, NEW o \in {"none", "tls1", "tls2"},
           srv' = [srv EXCEPT ![c].pc = "tls", ![c].left = TlsTimeout, ![c].obf = o]
    PROVE  /\ srv' \in [Conns -> SessionType]
           /\ srv'[c].pc = "tls" /\ srv'[c].obf = o
           /\ \A d \in Conns \ {c} : srv'[d] = srv[d]
<1>1. srv \in [Conns -> SessionType] /\ srv[c] \in SessionType
  BY DEF ShakeTypes
<1>2. "tls" \in ServerPcs
  BY DEF ServerPcs
<1>3. srv'[c] \in SessionType /\ srv'[c].pc = "tls" /\ srv'[c].obf = o
  BY <1>1, <1>2, TimeoutsAssumption DEF SessionType
<1> QED
  BY <1>1, <1>3

LEMMA ModeEffect ==
    ASSUME ShakeTypes, NEW c \in Conns, NEW m \in {"reality", "reality2"},
           srv' = [srv EXCEPT ![c].pc = "reality", ![c].left = 0, ![c].mode = m]
    PROVE  /\ srv' \in [Conns -> SessionType]
           /\ srv'[c].pc = "reality" /\ srv'[c].mode = m /\ srv'[c].obf = srv[c].obf
           /\ \A d \in Conns \ {c} : srv'[d] = srv[d]
<1>1. srv \in [Conns -> SessionType] /\ srv[c] \in SessionType
  BY DEF ShakeTypes
<1>2. "reality" \in ServerPcs
  BY DEF ServerPcs, Deceiving
<1>3. /\ srv'[c] \in SessionType /\ srv'[c].pc = "reality"
      /\ srv'[c].mode = m /\ srv'[c].obf = srv[c].obf
  BY <1>1, <1>2 DEF SessionType
<1> QED
  BY <1>1, <1>3

LEMMA AnsweredEffect ==
    ASSUME ShakeTypes, NEW c \in Conns, srv' = Answered(c, srv)
    PROVE  /\ srv' \in [Conns -> SessionType]
           /\ IF srv[c].mode = "reality" THEN srv'[c].pc = "tls" /\ srv'[c].obf = "tls1"
              ELSE /\ srv'[c].pc = "ccs" /\ srv'[c].obf = srv[c].obf
                   /\ srv'[c].mode = srv[c].mode
           /\ \A d \in Conns \ {c} : srv'[d] = srv[d]
<1>1. "tls" \in ServerPcs /\ "ccs" \in ServerPcs
  BY DEF ServerPcs, Deceiving
<1>2. CASE srv[c].mode = "reality"
  <2>1. srv' = [srv EXCEPT ![c].pc = "tls", ![c].left = TlsTimeout, ![c].obf = "tls1"]
    BY <1>2 DEF Answered
  <2> QED
    BY <1>2, <2>1, ToTlsEffect
<1>3. CASE srv[c].mode # "reality"
  <2>1. Go(c, "ccs", CcsTimeout)
    BY <1>3 DEF Answered, Go
  <2> QED
    BY <1>1, <1>3, <2>1, GoEffect, TimeoutsAssumption
<1> QED
  BY <1>2, <1>3

(* A connection nothing happens to stays sound.                            *)
LEMMA OthersSound ==
    ASSUME NEW d, srv'[d] = srv[d], cli'[d] = cli[d], Sound(d)
    PROVE  Sound(d)'
BY DEF Sound, Learned, InTime, KeyWasGood, NoProber, At, Drift

(* What a step of connection c has to show.                                *)
OnlyOf(c) ==
    /\ ShakeTypes' /\ VerdictsRight'
    /\ \A d \in Conns \ {c} : srv'[d] = srv[d] /\ cli'[d] = cli[d]
    /\ Sound(c)'

LEMMA OnlyOfSuffices ==
    ASSUME ShakeInv, NEW c \in Conns, OnlyOf(c)
    PROVE  ShakeInv'
<1>1. ASSUME NEW d \in Conns
      PROVE  Sound(d)'
  <2>1. CASE d = c
    BY <2>1 DEF OnlyOf
  <2>2. CASE d # c
    BY <2>2, OthersSound DEF OnlyOf, ShakeInv
  <2> QED
    BY <2>1, <2>2
<1> QED
  BY <1>1 DEF OnlyOf, ShakeInv

(* Where nothing is asked of a session any more.                           *)
LEMMA PastSound ==
    ASSUME NEW c \in Conns, ShakeInv, cli'[c] = cli[c],
           srv'[c].pc \in {"relay", "request", "closed"}
    PROVE  Sound(c)'
BY DEF ShakeInv, Sound, Learned, InTime, KeyWasGood, NoProber, At, Judging, Deceiving

-----------------------------------------------------------------------------
(* The handshake: each action keeps the invariant                          *)

(* Where a session is, before it takes a step alone.                       *)
LEMMA AloneSuffices ==
    ASSUME ShakeInv, NEW c \in Conns, srv' \in [Conns -> SessionType],
           \A d \in Conns \ {c} : srv'[d] = srv[d],
           UNCHANGED <<cli, cache, verdict>>, Sound(c)'
    PROVE  OnlyOf(c)
BY DEF OnlyOf, ShakeInv, ShakeTypes, VerdictsRight

(* Whoever speaks TLS through the obfuscator its peer brings.              *)
LEMMA TlsSound ==
    ASSUME NEW c \in Conns, Sound(c), cli' = cli, srv'[c].pc = "tls",
           srv'[c].obf = Brings(cli[c].peer), ~FallsBack(cli[c].peer)
    PROVE  Sound(c)'
<1>1. Learned(c)'
  BY DEF Sound, Learned, At, Judging, Deceiving
<1>2. InTime(c)' /\ KeyWasGood(c)'
  BY DEF InTime, KeyWasGood, At
<1>3. NoProber(c)'
  BY DEF NoProber, At
<1> QED
  BY <1>1, <1>2, <1>3 DEF Sound

LEMMA DetectKeeps ==
    ASSUME ShakeInv, NEW c \in Conns, DetectObfuscator(c)
    PROVE  OnlyOf(c)
<1>1. ShakeTypes /\ Sound(c) /\ At(c, "detect") /\ UNCHANGED <<cli, cache, verdict>>
  BY DEF ShakeInv, DetectObfuscator
<1>2. CASE CheckProtocol(c)
  <2>1. /\ srv' \in [Conns -> SessionType]
        /\ srv'[c].pc = "tls" /\ srv'[c].obf = "tls2"
        /\ \A d \in Conns \ {c} : srv'[d] = srv[d]
    BY <1>1, <1>2, ToTlsEffect DEF DetectObfuscator
  <2>2. Brings(cli[c].peer) = "tls2" /\ ~FallsBack(cli[c].peer)
    BY <1>2, FirstBytesTell DEF CheckProtocol
  <2>3. Sound(c)'
    BY <1>1, <2>1, <2>2, TlsSound
  <2> QED
    BY Zenon, <1>1, <2>1, <2>3, AloneSuffices
<1>3. CASE ~CheckProtocol(c)
  <2>1. "hello" \in ServerPcs
    BY DEF ServerPcs
  <2>2. /\ srv' \in [Conns -> SessionType]
        /\ srv'[c].pc = "hello" /\ srv'[c].left = PeekTimeout
        /\ srv'[c].obf = srv[c].obf
        /\ \A d \in Conns \ {c} : srv'[d] = srv[d]
    BY <1>1, <1>3, <2>1, GoEffect, TimeoutsAssumption DEF DetectObfuscator
  <2>3. cli[c].age \in Nat /\ srv[c].left \in Nat
    BY <1>1 DEF ShakeTypes, ClientType, SessionType
  <2>4. InTime(c)'
    BY <1>1, <2>2, <2>3, TimeoutsAssumption DEF Sound, InTime, At
  <2>5. Sound(c)'
    BY <1>1, <2>2, <2>4 DEF Sound, Learned, KeyWasGood, NoProber, At, Judging, Deceiving
  <2> QED
    BY <1>1, <2>2, <2>5, AloneSuffices
<1> QED
  BY <1>2, <1>3

(* A hello that is read brings a key or a part of one, not too old.        *)
LEMMA HelloReadSound ==
    ASSUME ShakeInv, NEW c \in Conns, At(c, "hello"), NEW sni \in Snis,
           HelloRead(c, sni), UNCHANGED <<cli, cache, verdict>>,
           FirstBytes(cli[c].peer).form \in {"hello", "part"}
    PROVE  OnlyOf(c)
<1>1. ShakeTypes /\ Sound(c)
  BY DEF ShakeInv
<1>2. /\ srv' \in [Conns -> SessionType]
      /\ srv'[c].pc = IF DetectProbing THEN "probe" ELSE "mode"
      /\ srv'[c].left = 1
      /\ srv'[c].obf = srv[c].obf
      /\ \A d \in Conns \ {c} : srv'[d] = srv[d]
  BY <1>1, HelloReadEffect
<1>3. cli[c].age \in Nat /\ srv[c].left \in Nat
  BY <1>1 DEF ShakeTypes, ClientType, SessionType
<1>4. cli[c].age <= 2 * PeekTimeout
  BY <1>1, <1>3, TimeoutsAssumption DEF Sound, InTime
<1>5. InTime(c)'
  BY <1>2, <1>3, <1>4, TimeoutsAssumption DEF InTime, At, SlowestHello
<1>6. KeyWasGood(c)'
  BY <1>2 DEF KeyWasGood, At
<1>7. Sound(c)'
  BY <1>1, <1>2, <1>5, <1>6 DEF Sound, Learned, NoProber, At, Judging, Deceiving
<1> QED
  BY <1>2, <1>7, AloneSuffices

LEMMA CloseKeeps ==
    ASSUME ShakeInv, NEW c \in Conns, Close(c), UNCHANGED <<cli, cache, verdict>>
    PROVE  OnlyOf(c)
<1>1. "closed" \in ServerPcs
  BY DEF ServerPcs
<1>2. /\ srv' \in [Conns -> SessionType] /\ srv'[c].pc = "closed"
      /\ \A d \in Conns \ {c} : srv'[d] = srv[d]
  BY <1>1, GoEffect DEF ShakeInv, Close
<1>3. Sound(c)'
  BY <1>2, PastSound
<1> QED
  BY <1>2, <1>3, AloneSuffices

LEMMA PeekKeeps ==
    ASSUME ShakeInv, NEW c \in Conns,
           PeekClientHello(c) \/ PeekTimedOut(c) \/ PeekWithTimeout(c)
    PROVE  OnlyOf(c)
<1>1. UNCHANGED <<cli, cache, verdict>>
  BY DEF PeekClientHello, PeekTimedOut, PeekWithTimeout
<1>2. CASE Close(c)
  BY <1>1, <1>2, CloseKeeps
<1>3. CASE ~Close(c) /\ PeekClientHello(c)
  <2>1. cli[c].sni \in Snis
    BY DEF ShakeInv, ShakeTypes, ClientType
  <2>2. /\ At(c, "hello") /\ HelloRead(c, cli[c].sni)
        /\ FirstBytes(cli[c].peer).form = "hello"
    BY <1>3 DEF PeekClientHello, IsTlsClientHello
  <2> QED
    BY <1>1, <2>1, <2>2, HelloReadSound
<1>4. CASE ~Close(c) /\ PeekTimedOut(c)
  <2>1. /\ At(c, "hello") /\ HelloRead(c, DefaultDomain)
        /\ FirstBytes(cli[c].peer).form = "part"
    BY <1>4 DEF PeekTimedOut
  <2> QED
    BY <1>1, <2>1, HelloReadSound, DefaultIsASni
<1>5. CASE ~Close(c) /\ PeekWithTimeout(c)
  BY <1>5 DEF PeekWithTimeout
<1> QED
  BY <1>2, <1>3, <1>4, <1>5

LEMMA DriftTyped ==
    ASSUME ShakeInv, NEW c \in Conns
    PROVE  /\ cli[c].peer.skew \in Int /\ cli[c].age \in Nat /\ srv[c].left \in Nat
           /\ Drift(c) \in Int /\ Drift(c) = cli[c].peer.skew - cli[c].age
           /\ srv[c].sni \in Snis
<1>1. cli[c].peer \in Peers \cup {NoPeer} /\ cli[c].age \in Nat
  BY DEF ShakeInv, ShakeTypes, ClientType
<1>2. srv[c].left \in Nat /\ srv[c].sni \in Snis
  BY DEF ShakeInv, ShakeTypes, SessionType
<1>3. cli[c].peer.skew \in Int
  BY <1>1, PeersAreRecords DEF NoPeer
<1> QED
  BY <1>1, <1>2, <1>3 DEF Drift

(* The key of a client whose clock is not too far off is still good.       *)
LEMMA KeyInTime ==
    ASSUME ShakeInv, NEW c \in Conns, cli[c].age <= SlowestHello,
           IsFptnClient(cli[c].peer), cli[c].peer.skew \in (SlowestHello - 5)..5
    PROVE  HasKey(c)
<1>1. SlowestHello \in Nat
  BY TimeoutsAssumption DEF SlowestHello
<1>2. KeyOfNow(c)
  BY <1>1, DriftTyped DEF KeyOfNow
<1>3. FirstBytes(cli[c].peer).key \in {28, 10, 14}
  BY FirstBytesTell
<1> QED
  BY <1>2, <1>3 DEF HasKey, IsFptnClientSessionID, IsDecoyHandshakeSessionID,
                    IsDecoyHandshakeSessionID2

(* The name is judged, by the cache or by the resolver.                    *)
LEMMA ProbeSound ==
    ASSUME ShakeInv, NEW c \in Conns, srv[c].pc \in {"probe", "probeDns"},
           NEW self, DetectProbe(c, self), cli' = cli
    PROVE  /\ srv' \in [Conns -> SessionType]
           /\ \A d \in Conns \ {c} : srv'[d] = srv[d]
           /\ Sound(c)'
<1>1. ShakeTypes /\ Sound(c)
  BY DEF ShakeInv
<1>2. cli[c].age + 1 <= SlowestHello
  BY <1>1, DriftTyped, TimeoutsAssumption DEF Sound, InTime, At, SlowestHello
<1>3. CASE HasKey(c)
  <2>1. "mode" \in ServerPcs
    BY DEF ServerPcs, Judging
  <2>2. /\ srv' \in [Conns -> SessionType]
        /\ srv'[c].pc = "mode" /\ srv'[c].left = 1 /\ srv'[c].obf = srv[c].obf
        /\ \A d \in Conns \ {c} : srv'[d] = srv[d]
    BY <1>1, <1>3, <2>1, GoEffect DEF DetectProbe
  <2>3. InTime(c)'
    BY <1>2, <2>2, DriftTyped DEF InTime, At, SlowestHello
  <2>4. KeyWasGood(c)'
    <3>1. Drift(c) \in (-5)..5 /\ FirstBytes(cli[c].peer).key \in {28, 10, 14}
      BY <1>3 DEF HasKey, IsFptnClientSessionID, IsDecoyHandshakeSessionID,
                  IsDecoyHandshakeSessionID2, KeyOfNow
    <3>2. Drift(c)' = Drift(c)
      BY DEF Drift
    <3> QED
      BY <2>2, <3>1, <3>2, DriftTyped DEF KeyWasGood, At
  <2>5. Sound(c)'
    BY <1>1, <2>2, <2>3, <2>4 DEF Sound, Learned, NoProber, At, Judging, Deceiving
  <2> QED
    BY <2>2, <2>5
<1>4. CASE ~HasKey(c)
  <2> DEFINE target == IF self THEN DefaultDomain ELSE srv[c].sni
  <2>1. target \in Snis /\ "proxy" \in ServerPcs
    BY DriftTyped, DefaultIsASni DEF ServerPcs
  <2>2. Proxying(c, target, "proxy")
    BY <1>4 DEF DetectProbe
  <2> HIDE DEF target
  <2>3. /\ srv' \in [Conns -> SessionType]
        /\ srv'[c].pc = "proxy"
        /\ \A d \in Conns \ {c} : srv'[d] = srv[d]
    BY <1>1, <2>1, <2>2, ProxyingEffect
  <2>4. NoProber(c)'
    <3>1. cli[c].age <= SlowestHello
      BY <1>2, DriftTyped, TimeoutsAssumption DEF SlowestHello
    <3>2. ~(IsFptnClient(cli[c].peer) /\ cli[c].peer.skew \in (SlowestHello - 5)..5)
      BY <1>4, <3>1, KeyInTime
    <3> QED
      BY <3>2 DEF NoProber, SlowestHello
  <2>5. Sound(c)'
    BY <1>1, <2>3, <2>4 DEF Sound, Learned, InTime, KeyWasGood, At, Judging, Deceiving
  <2> QED
    BY <2>3, <2>5
<1> QED
  BY <1>3, <1>4

LEMMA RealitySound ==
    ASSUME ShakeInv, NEW c \in Conns, srv[c].pc \in {"reality", "realityDns"},
           NEW self \in BOOLEAN, RealityMode(c, self), cli' = cli,
           self => srv[c].sni # DefaultDomain
    PROVE  /\ srv' \in [Conns -> SessionType]
           /\ \A d \in Conns \ {c} : srv'[d] = srv[d]
           /\ Sound(c)'
<1>1. ShakeTypes /\ Sound(c)
  BY DEF ShakeInv
<1>2. CASE self
  <2>1. "proxyOnly" \in ServerPcs
    BY DEF ServerPcs
  <2>2. /\ srv' \in [Conns -> SessionType]
        /\ srv'[c].pc = "proxyOnly" /\ srv'[c].sni = srv[c].sni
        /\ \A d \in Conns \ {c} : srv'[d] = srv[d]
    BY <1>1, <1>2, <2>1, ProxyingEffect, DefaultIsASni DEF RealityMode
  <2>3. Sound(c)'
    BY <1>1, <1>2, <2>2 DEF Sound, Learned, InTime, KeyWasGood, NoProber, At, Judging,
                            Deceiving
  <2> QED
    BY <2>2, <2>3
<1>3. CASE ~self
  <2>1. "lookup" \in ServerPcs
    BY DEF ServerPcs, Deceiving
  <2>2. /\ srv' \in [Conns -> SessionType]
        /\ srv'[c].pc = "lookup" /\ srv'[c].obf = srv[c].obf
        /\ srv'[c].mode = srv[c].mode
        /\ \A d \in Conns \ {c} : srv'[d] = srv[d]
    BY <1>1, <1>3, <2>1, GoEffect DEF RealityMode
  <2>3. Sound(c)'
    BY <1>1, <2>2 DEF Sound, Learned, InTime, KeyWasGood, NoProber, At, Judging, Deceiving
  <2> QED
    BY <2>2, <2>3
<1> QED
  BY <1>2, <1>3

LEMMA JudgedSound ==
    ASSUME ShakeInv, NEW c \in Conns,
           srv[c].pc \in {"probe", "probeDns", "reality", "realityDns"},
           NEW self \in BOOLEAN, Judged(c, self), cli' = cli,
           self => srv[c].sni # DefaultDomain
    PROVE  /\ srv' \in [Conns -> SessionType]
           /\ \A d \in Conns \ {c} : srv'[d] = srv[d]
           /\ Sound(c)'
<1>1. CASE srv[c].pc \in {"probe", "probeDns"}
  BY <1>1, ProbeSound DEF Judged
<1>2. CASE srv[c].pc \notin {"probe", "probeDns"}
  <2>1. srv[c].pc \in {"reality", "realityDns"} /\ RealityMode(c, self)
    BY <1>2 DEF Judged
  <2> QED
    BY <2>1, RealitySound
<1> QED
  BY <1>1, <1>2

LEMMA AttemptKeeps ==
    ASSUME ShakeInv, NEW c \in Conns, IsSniSelfProxyAttempt(c)
    PROVE  OnlyOf(c)
<1>1. /\ ShakeTypes /\ Sound(c) /\ srv[c].pc \in {"probe", "reality"}
      /\ UNCHANGED <<cli, cache, verdict>>
  BY DEF ShakeInv, IsSniSelfProxyAttempt
<1>2. CASE GetCachedSelfProxyVerdict(srv[c].sni)
  <2>1. Judged(c, IsSelf(srv[c].sni))
    BY <1>2 DEF IsSniSelfProxyAttempt
  <2>2. /\ IsSelf(srv[c].sni) \in BOOLEAN
        /\ IsSelf(srv[c].sni) => srv[c].sni # DefaultDomain
    BY DEF IsSelf
  <2>3. /\ srv' \in [Conns -> SessionType]
        /\ \A d \in Conns \ {c} : srv'[d] = srv[d]
        /\ Sound(c)'
    BY <1>1, <2>1, <2>2, JudgedSound
  <2> QED
    BY <1>1, <2>3, AloneSuffices
<1>3. CASE ~GetCachedSelfProxyVerdict(srv[c].sni)
  <2> DEFINE next == IF At(c, "probe") THEN "probeDns" ELSE "realityDns"
  <2>1. next \in ServerPcs
    BY DEF ServerPcs, Judging, Deceiving
  <2>2. Go(c, next, DnsTimeout)
    BY <1>3 DEF IsSniSelfProxyAttempt
  <2> HIDE DEF next
  <2>3. /\ srv' \in [Conns -> SessionType]
        /\ srv'[c].pc = next /\ srv'[c].left = DnsTimeout /\ srv'[c].obf = srv[c].obf
        /\ srv'[c].mode = srv[c].mode
        /\ \A d \in Conns \ {c} : srv'[d] = srv[d]
    BY <1>1, <2>1, <2>2, GoEffect, TimeoutsAssumption
  <2>4. Sound(c)'
    <3>1. CASE At(c, "probe")
      <4>1. srv'[c].pc = "probeDns"
        BY <2>3, <3>1 DEF next
      <4>2. InTime(c)'
        BY <1>1, <2>3, <3>1, <4>1, DriftTyped, TimeoutsAssumption DEF Sound, InTime, At
      <4> QED
        BY <1>1, <2>3, <3>1, <4>1, <4>2 DEF Sound, Learned, KeyWasGood, NoProber, At,
                                            Judging, Deceiving
    <3>2. CASE ~At(c, "probe")
      <4>1. srv'[c].pc = "realityDns" /\ srv[c].pc = "reality"
        BY <1>1, <2>3, <3>2 DEF next, At
      <4> QED
        BY <1>1, <2>3, <4>1 DEF Sound, Learned, InTime, KeyWasGood, NoProber, At,
                                Judging, Deceiving
    <3> QED
      BY <3>1, <3>2
  <2> QED
    BY <1>1, <2>3, <2>4, AloneSuffices
<1> QED
  BY <1>2, <1>3

LEMMA VerdictKeeps ==
    ASSUME ShakeInv, NEW c \in Conns, CacheSelfProxyVerdict(c)
    PROVE  OnlyOf(c)
<1>1. /\ ShakeTypes /\ srv[c].pc \in {"probeDns", "realityDns"}
      /\ UNCHANGED <<cli, cache>>
  BY DEF ShakeInv, CacheSelfProxyVerdict
<1>2. PICK failed \in BOOLEAN :
         LET v == IF failed THEN "failed"
                  ELSE IF srv[c].sni \in SelfNames THEN "self" ELSE "other"
         IN  verdict' = [verdict EXCEPT ![srv[c].sni] = v] /\ Judged(c, v = "self")
  BY DEF CacheSelfProxyVerdict
<1> DEFINE v == IF failed THEN "failed"
                ELSE IF srv[c].sni \in SelfNames THEN "self" ELSE "other"
<1>3. verdict' = [verdict EXCEPT ![srv[c].sni] = v] /\ Judged(c, v = "self")
  BY <1>2
<1>4. /\ (v = "self") => srv[c].sni # DefaultDomain
      /\ v \in {"failed", "self", "other"}
      /\ v = "other" => srv[c].sni \notin SelfNames
  BY SelfNamesAreSnis
<1> HIDE DEF v
<1>5. /\ srv' \in [Conns -> SessionType]
      /\ \A d \in Conns \ {c} : srv'[d] = srv[d]
      /\ Sound(c)'
  BY <1>1, <1>3, <1>4, JudgedSound
<1>6. srv[c].sni \in Snis
  BY DriftTyped
<1>7. ShakeTypes'
  BY <1>1, <1>3, <1>4, <1>5, <1>6 DEF ShakeTypes
<1>8. VerdictsRight'
  BY <1>1, <1>3, <1>4, <1>6, SelfNamesAreSnis DEF ShakeInv, ShakeTypes, VerdictsRight
<1> QED
  BY <1>1, <1>5, <1>7, <1>8 DEF OnlyOf

LEMMA ModeKeeps ==
    ASSUME ShakeInv, NEW c \in Conns, IsRealityHandshake(c)
    PROVE  OnlyOf(c)
<1>1. /\ ShakeTypes /\ Sound(c) /\ At(c, "mode") /\ UNCHANGED <<cli, cache, verdict>>
  BY DEF ShakeInv, IsRealityHandshake
<1> DEFINE key == FirstBytes(cli[c].peer).key
<1>2. CASE IsDecoyHandshakeSessionID(c) \/ IsDecoyHandshakeSessionID2(c)
  <2> DEFINE m == IF IsDecoyHandshakeSessionID(c) THEN "reality" ELSE "reality2"
  <2>1. /\ m \in {"reality", "reality2"}
        /\ m = "reality" => key = 10
        /\ m = "reality2" => key = 14
    BY <1>2 DEF IsDecoyHandshakeSessionID, IsDecoyHandshakeSessionID2
  <2>2. ~(IsDecoyHandshakeSessionID(c) /\ IsDecoyHandshakeSessionID2(c))
    BY DEF IsDecoyHandshakeSessionID, IsDecoyHandshakeSessionID2
  <2>3. ~(IsFptnClientSessionID(c))
    BY <1>2 DEF IsDecoyHandshakeSessionID, IsDecoyHandshakeSessionID2, IsFptnClientSessionID
  <2>4. srv' = [srv EXCEPT ![c].pc = "reality", ![c].left = 0, ![c].mode = m]
    BY <1>2, <2>2, <2>3 DEF IsRealityHandshake
  <2> HIDE DEF m
  <2>5. /\ srv' \in [Conns -> SessionType]
        /\ srv'[c].pc = "reality" /\ srv'[c].mode = m /\ srv'[c].obf = srv[c].obf
        /\ \A d \in Conns \ {c} : srv'[d] = srv[d]
    BY <1>1, <2>1, <2>4, ModeEffect
  <2>6. Sound(c)'
    BY <1>1, <2>1, <2>5 DEF Sound, Learned, InTime, KeyWasGood, NoProber, At, Judging,
                            Deceiving
  <2> QED
    BY <1>1, <2>5, <2>6, AloneSuffices
<1>3. CASE /\ ~IsDecoyHandshakeSessionID(c) /\ ~IsDecoyHandshakeSessionID2(c)
           /\ IsFptnClientSessionID(c)
  <2>1. Go(c, "tls", TlsTimeout)
    BY <1>3 DEF IsRealityHandshake
  <2>2. "tls" \in ServerPcs
    BY DEF ServerPcs
  <2>3. /\ srv' \in [Conns -> SessionType]
        /\ srv'[c].pc = "tls" /\ srv'[c].obf = srv[c].obf
        /\ \A d \in Conns \ {c} : srv'[d] = srv[d]
    BY <1>1, <2>1, <2>2, GoEffect, TimeoutsAssumption
  <2>4. srv[c].obf = "none" /\ Brings(cli[c].peer) = "none" /\ ~FallsBack(cli[c].peer)
    BY <1>1, <1>3, FirstBytesTell DEF Sound, Learned, At, Judging, IsFptnClientSessionID
  <2>5. Sound(c)'
    BY <1>1, <2>3, <2>4 DEF Sound, Learned, InTime, KeyWasGood, NoProber, At, Judging,
                            Deceiving
  <2> QED
    BY <1>1, <2>3, <2>5, AloneSuffices
<1>4. CASE ~HasKey(c)
  <2>1. Proxying(c, srv[c].sni, "proxy")
    BY <1>4 DEF IsRealityHandshake, HasKey
  <2>2. "proxy" \in ServerPcs
    BY DEF ServerPcs
  <2>3. /\ srv' \in [Conns -> SessionType]
        /\ srv'[c].pc = "proxy"
        /\ \A d \in Conns \ {c} : srv'[d] = srv[d]
    BY <1>1, <2>1, <2>2, ProxyingEffect, DriftTyped
  <2>4. cli[c].age <= SlowestHello
    BY <1>1, DriftTyped, TimeoutsAssumption DEF Sound, InTime, SlowestHello
  <2>5. NoProber(c)'
    BY <1>1, <1>4, <2>4, KeyInTime DEF NoProber, SlowestHello
  <2>6. Sound(c)'
    BY <1>1, <2>3, <2>5 DEF Sound, Learned, InTime, KeyWasGood, At, Judging, Deceiving
  <2> QED
    BY <1>1, <2>3, <2>6, AloneSuffices
<1> QED
  BY <1>2, <1>3, <1>4 DEF HasKey

(* The answer is written, from the cache or from the real host.            *)
LEMMA AnsweredSound ==
    ASSUME ShakeInv, NEW c \in Conns, srv[c].pc \in {"lookup", "fetch", "fetchDefault"},
           srv' = Answered(c, srv), cli' = cli
    PROVE  /\ srv' \in [Conns -> SessionType]
           /\ \A d \in Conns \ {c} : srv'[d] = srv[d]
           /\ Sound(c)'
<1>1. ShakeTypes /\ Sound(c)
  BY DEF ShakeInv
<1>2. /\ srv' \in [Conns -> SessionType]
      /\ IF srv[c].mode = "reality" THEN srv'[c].pc = "tls" /\ srv'[c].obf = "tls1"
         ELSE /\ srv'[c].pc = "ccs" /\ srv'[c].obf = srv[c].obf
              /\ srv'[c].mode = srv[c].mode
      /\ \A d \in Conns \ {c} : srv'[d] = srv[d]
  BY <1>1, AnsweredEffect
<1>3. srv[c].mode = "reality" <=> FallsBack(cli[c].peer)
  BY <1>1, FirstBytesTell DEF Sound, Learned, Deceiving
<1>4. Sound(c)'
  BY <1>1, <1>2, <1>3 DEF Sound, Learned, InTime, KeyWasGood, NoProber, At, Judging,
                          Deceiving
<1> QED
  BY <1>2, <1>4

(* The session asks for the answer, of the host named or of the default.   *)
LEMMA AskSound ==
    ASSUME ShakeInv, NEW c \in Conns, srv[c].pc \in {"lookup", "fetch", "fetchDefault"},
           NEW pc \in {"fetch", "fetchDefault"}, Go(c, pc, FetchTimeout[srv[c].mode]),
           UNCHANGED <<cli, cache, verdict>>
    PROVE  OnlyOf(c)
<1>1. ShakeTypes /\ Sound(c)
  BY DEF ShakeInv
<1>2. FetchTimeout[srv[c].mode] \in Nat
  BY <1>1, TimeoutsAssumption DEF Sound, Learned, Deceiving
<1>3. pc \in ServerPcs
  BY DEF ServerPcs, Deceiving
<1>4. /\ srv' \in [Conns -> SessionType]
      /\ srv'[c].pc = pc /\ srv'[c].obf = srv[c].obf /\ srv'[c].mode = srv[c].mode
      /\ \A d \in Conns \ {c} : srv'[d] = srv[d]
  BY <1>1, <1>2, <1>3, GoEffect
<1>5. Sound(c)'
  BY <1>1, <1>4 DEF Sound, Learned, InTime, KeyWasGood, NoProber, At, Judging, Deceiving
<1> QED
  BY <1>4, <1>5, AloneSuffices

LEMMA FetchKeeps ==
    ASSUME ShakeInv, NEW c \in Conns, CheckCache(c) \/ Fetched(c) \/ FetchFailed(c)
    PROVE  OnlyOf(c)
<1>1. CASE CheckCache(c)
  <2>1. At(c, "lookup") /\ UNCHANGED <<cli, cache, verdict>>
    BY <1>1 DEF CheckCache
  <2>2. srv' = Answered(c, srv) \/ Go(c, "fetch", FetchTimeout[srv[c].mode])
    BY <1>1 DEF CheckCache
  <2> QED
    BY <2>1, <2>2, AnsweredSound, AskSound, AloneSuffices DEF At
<1>2. CASE Fetched(c)
  <2> DEFINE host == IF At(c, "fetch") THEN srv[c].sni ELSE DefaultDomain
  <2>1. /\ srv[c].pc \in {"fetch", "fetchDefault"} /\ UNCHANGED <<cli, verdict>>
        /\ cache' = [cache EXCEPT ![srv[c].sni] = host, ![host] = host]
        /\ srv' = Answered(c, srv)
    BY <1>2 DEF Fetched
  <2>2. host \in Snis /\ srv[c].sni \in Snis
    BY DriftTyped, DefaultIsASni
  <2> HIDE DEF host
  <2>3. cache' \in [Snis -> Snis \cup {"none"}]
    BY <2>1, <2>2 DEF ShakeInv, ShakeTypes
  <2>4. /\ srv' \in [Conns -> SessionType]
        /\ \A d \in Conns \ {c} : srv'[d] = srv[d]
        /\ Sound(c)'
    BY <2>1, AnsweredSound
  <2> QED
    BY <2>1, <2>3, <2>4 DEF OnlyOf, ShakeInv, ShakeTypes, VerdictsRight
<1>3. CASE FetchFailed(c)
  <2>1. srv[c].pc \in {"fetch", "fetchDefault"} /\ UNCHANGED <<cli, cache, verdict>>
    BY <1>3 DEF FetchFailed
  <2>2. \/ Close(c)
        \/ srv' = Answered(c, srv)
        \/ Go(c, "fetchDefault", FetchTimeout[srv[c].mode])
    BY <1>3 DEF FetchFailed
  <2> QED
    BY <2>1, <2>2, CloseKeeps, AnsweredSound, AskSound, AloneSuffices
<1> QED
  BY <1>1, <1>2, <1>3

LEMMA CcsKeeps ==
    ASSUME ShakeInv, NEW c \in Conns, ChangeCipherSpec(c)
    PROVE  OnlyOf(c)
<1>1. ShakeTypes /\ Sound(c) /\ At(c, "ccs") /\ UNCHANGED <<cli, cache, verdict>>
  BY DEF ShakeInv, ChangeCipherSpec
<1>2. CASE cli[c].pc = "tls"
  <2>1. /\ srv' \in [Conns -> SessionType]
        /\ srv'[c].pc = "tls" /\ srv'[c].obf = "tls2"
        /\ \A d \in Conns \ {c} : srv'[d] = srv[d]
    BY Zenon, <1>1, <1>2, ToTlsEffect DEF ChangeCipherSpec
  <2>2. Brings(cli[c].peer) = "tls2" /\ ~FallsBack(cli[c].peer)
    BY <1>1, FirstBytesTell DEF Sound, Learned, At, Deceiving
  <2>3. Sound(c)'
    BY <1>1, <2>1, <2>2, TlsSound
  <2> QED
    BY Zenon, <1>1, <2>1, <2>3, AloneSuffices
<1>3. CASE cli[c].pc # "tls"
  BY <1>1, <1>3, CloseKeeps DEF ChangeCipherSpec
<1> QED
  BY <1>2, <1>3

(* The client of a connection changes, its peer does not.                  *)
LEMMA ClientEffect ==
    ASSUME ShakeTypes, NEW c \in Conns, NEW pc \in {"failed", "done"}, NEW secs \in Nat,
           cli' = [cli EXCEPT ![c].pc = pc, ![c].left = secs]
    PROVE  /\ cli' \in [Conns -> ClientType]
           /\ cli'[c].pc = pc /\ cli'[c].peer = cli[c].peer /\ cli'[c].age = cli[c].age
           /\ \A d \in Conns \ {c} : cli'[d] = cli[d]
<1>1. cli \in [Conns -> ClientType] /\ cli[c] \in ClientType
  BY DEF ShakeTypes
<1>2. /\ cli'[c] \in ClientType /\ cli'[c].pc = pc
      /\ cli'[c].peer = cli[c].peer /\ cli'[c].age = cli[c].age
  BY <1>1 DEF ClientType
<1> QED
  BY <1>1, <1>2

LEMMA TlsKeeps ==
    ASSUME ShakeInv, NEW c \in Conns, TlsHandshake(c) \/ TlsFails(c)
    PROVE  OnlyOf(c)
<1>1. CASE TlsFails(c)
  BY <1>1, CloseKeeps DEF TlsFails
<1>2. CASE TlsHandshake(c)
  <2>1. /\ Go(c, "request", 0) /\ UNCHANGED <<cache, verdict>>
        /\ cli' = [cli EXCEPT ![c].pc = "done", ![c].left = 0]
    BY <1>2 DEF TlsHandshake
  <2>2. "request" \in ServerPcs
    BY DEF ServerPcs
  <2>3. /\ srv' \in [Conns -> SessionType] /\ srv'[c].pc = "request"
        /\ \A d \in Conns \ {c} : srv'[d] = srv[d]
    BY <2>1, <2>2, GoEffect DEF ShakeInv
  <2>4. /\ cli' \in [Conns -> ClientType]
        /\ cli'[c].pc = "done" /\ cli'[c].peer = cli[c].peer
        /\ \A d \in Conns \ {c} : cli'[d] = cli[d]
    BY <2>1, ClientEffect DEF ShakeInv
  <2>5. Sound(c)'
    BY <2>3, <2>4 DEF Sound, Learned, InTime, KeyWasGood, NoProber, At, Judging, Deceiving
  <2> QED
    BY <2>1, <2>3, <2>4, <2>5 DEF OnlyOf, ShakeInv, ShakeTypes, VerdictsRight
<1> QED
  BY <1>1, <1>2

LEMMA SessionKeeps ==
    ASSUME ShakeInv, NEW c \in Conns, SessionRun(c)
    PROVE  OnlyOf(c)
BY DetectKeeps, PeekKeeps, AttemptKeeps, VerdictKeeps, ModeKeeps, FetchKeeps, CcsKeeps,
   TlsKeeps DEF SessionRun

LEMMA RelayKeeps ==
    ASSUME ShakeInv, NEW c \in Conns,
           HandleProxy(c) \/ ProxyWithFallback(c) \/ SessionEnds(c)
    PROVE  OnlyOf(c)
<1>1. UNCHANGED <<cli, cache, verdict>> /\ ShakeTypes /\ Sound(c)
  BY DEF HandleProxy, ProxyWithFallback, SessionEnds, ShakeInv
<1>2. CASE Close(c)
  BY <1>1, <1>2, CloseKeeps
<1>3. CASE HandleProxy(c)
  <2>1. "relay" \in ServerPcs
    BY DEF ServerPcs
  <2>2. /\ srv' \in [Conns -> SessionType] /\ srv'[c].pc = "relay"
        /\ \A d \in Conns \ {c} : srv'[d] = srv[d]
    BY <1>1, <1>3, <2>1, GoEffect DEF HandleProxy
  <2> QED
    BY <1>1, <2>2, PastSound, AloneSuffices
<1>4. CASE ~Close(c) /\ ProxyWithFallback(c)
  <2>1. At(c, "proxy") /\ Proxying(c, DefaultDomain, "proxyOnly")
    BY <1>4 DEF ProxyWithFallback
  <2>2. "proxyOnly" \in ServerPcs
    BY DEF ServerPcs
  <2>3. /\ srv' \in [Conns -> SessionType] /\ srv'[c].pc = "proxyOnly"
        /\ srv'[c].sni = srv[c].sni
        /\ \A d \in Conns \ {c} : srv'[d] = srv[d]
    BY <1>1, <2>1, <2>2, ProxyingEffect, DefaultIsASni
  <2>4. Sound(c)'
    BY <1>1, <2>1, <2>3 DEF Sound, Learned, InTime, KeyWasGood, NoProber, At, Judging,
                            Deceiving
  <2> QED
    BY <1>1, <2>3, <2>4, AloneSuffices
<1>5. CASE ~Close(c) /\ SessionEnds(c)
  BY <1>5 DEF SessionEnds
<1> QED
  BY <1>2, <1>3, <1>4, <1>5

(* Only the client takes a step.                                           *)
LEMMA ClientAlone ==
    ASSUME ShakeInv, NEW c \in Conns, cli' \in [Conns -> ClientType],
           \A d \in Conns \ {c} : cli'[d] = cli[d],
           UNCHANGED <<srv, cache, verdict>>,
           cli'[c].peer = cli[c].peer, cli'[c].age = cli[c].age,
           \/ cli'[c].pc = "failed"
           \/ cli'[c].pc = "tls" /\ cli'[c].obf = Brings(cli[c].peer)
    PROVE  OnlyOf(c)
<1>1. Sound(c)
  BY DEF ShakeInv
<1>2. Drift(c)' = Drift(c)
  BY DEF Drift
<1>3. Sound(c)'
  BY <1>1, <1>2 DEF Sound, Learned, InTime, KeyWasGood, NoProber, At
<1> QED
  BY <1>3 DEF OnlyOf, ShakeInv, ShakeTypes, VerdictsRight

LEMMA ClientKeeps ==
    ASSUME ShakeInv, NEW c \in Conns, ClientRun(c)
    PROVE  OnlyOf(c)
<1>1. ASSUME NEW kind, FakeHandshakeDone(c, kind)
      PROVE  OnlyOf(c)
  <2>1. /\ cli' = [cli EXCEPT ![c].pc = "tls", ![c].left = TlsTimeout, ![c].obf = "tls2"]
        /\ UNCHANGED <<srv, cache, verdict>> /\ cli[c].pc = "answer"
    BY <1>1 DEF FakeHandshakeDone
  <2>2. /\ cli' \in [Conns -> ClientType]
        /\ cli'[c].pc = "tls" /\ cli'[c].obf = "tls2"
        /\ cli'[c].peer = cli[c].peer /\ cli'[c].age = cli[c].age
        /\ \A d \in Conns \ {c} : cli'[d] = cli[d]
    <3>1. cli \in [Conns -> ClientType] /\ cli[c] \in ClientType
      BY DEF ShakeInv, ShakeTypes
    <3>2. /\ cli'[c] \in ClientType
          /\ cli'[c].pc = "tls" /\ cli'[c].obf = "tls2"
          /\ cli'[c].peer = cli[c].peer /\ cli'[c].age = cli[c].age
      BY <2>1, <3>1, TimeoutsAssumption DEF ClientType
    <3> QED
      BY <2>1, <3>1, <3>2
  <2>3. Brings(cli[c].peer) = "tls2"
    BY <2>1 DEF ShakeInv, Sound, Learned, Brings
  <2> QED
    BY <2>1, <2>2, <2>3, ClientAlone
<1>2. CASE AnswerTimedOut(c) \/ ClientTlsFails(c)
  <2>1. PICK secs \in Nat : cli' = [cli EXCEPT ![c].pc = "failed", ![c].left = secs]
    <3>1. CASE ClientTlsFails(c)
      BY <3>1 DEF ClientTlsFails
    <3>2. CASE AnswerTimedOut(c)
      <4>1. cli' = [cli EXCEPT ![c].pc = "failed"] /\ cli[c].left \in Nat
        BY <3>2 DEF AnswerTimedOut, ShakeInv, ShakeTypes, ClientType
      <4>2. cli' = [cli EXCEPT ![c].pc = "failed", ![c].left = cli[c].left]
        BY <4>1 DEF ShakeInv, ShakeTypes, ClientType
      <4> QED
        BY <4>1, <4>2
    <3> QED
      BY <1>2, <3>1, <3>2
  <2>2. UNCHANGED <<srv, cache, verdict>>
    BY <1>2 DEF AnswerTimedOut, ClientTlsFails
  <2>3. /\ cli' \in [Conns -> ClientType]
        /\ cli'[c].pc = "failed"
        /\ cli'[c].peer = cli[c].peer /\ cli'[c].age = cli[c].age
        /\ \A d \in Conns \ {c} : cli'[d] = cli[d]
    BY <2>1, ClientEffect DEF ShakeInv
  <2> QED
    BY <2>2, <2>3, ClientAlone
<1> QED
  BY <1>1, <1>2 DEF ClientRun, PerformFakeHandshake2, ApiPerformFakeHandshake2

LEMMA DialKeeps ==
    ASSUME ShakeInv, NEW c \in Conns, Dial(c)
    PROVE  OnlyOf(c)
<1>1. PICK p \in Peers, s \in Snis :
         cli' = [cli EXCEPT ![c] =
                   [peer |-> p, sni |-> s, age |-> 0,
                    pc |-> IF Fakes(p) THEN "answer" ELSE "tls",
                    left |-> IF Fakes(p) THEN Patience[p.kind] ELSE TlsTimeout,
                    obf |-> IF p.strategy = "TlsObfuscator" THEN "tls2" ELSE "none"]]
  BY DEF Dial, Fakes
<1>2. srv' = [srv EXCEPT ![c] = NewSession] /\ UNCHANGED <<cache, verdict>>
  BY DEF Dial
<1> DEFINE pc == IF Fakes(p) THEN "answer" ELSE "tls"
           secs == IF Fakes(p) THEN Patience[p.kind] ELSE TlsTimeout
           obf == IF p.strategy = "TlsObfuscator" THEN "tls2" ELSE "none"
<1>3. /\ pc \in {"answer", "tls", "done", "failed"} /\ secs \in Nat
      /\ obf \in {"none", "tls2"}
      /\ pc = "answer" => Fakes(p)
      /\ pc = "tls" => obf = Brings(p)
  <2>1. Fakes(p) => p.kind \in {"ws", "api"}
    BY DEF Fakes, IsFptnClient
  <2>2. secs \in Nat
    BY <2>1, TimeoutsAssumption
  <2> QED
    BY <2>2 DEF Brings
<1> HIDE DEF pc, secs, obf
<1>4. cli' = [cli EXCEPT ![c] = [peer |-> p, sni |-> s, age |-> 0, pc |-> pc,
                                 left |-> secs, obf |-> obf]]
  BY <1>1 DEF pc, secs, obf
<1>5. /\ cli' \in [Conns -> ClientType]
      /\ cli'[c].peer = p /\ cli'[c].age = 0 /\ cli'[c].pc = pc /\ cli'[c].obf = obf
      /\ \A d \in Conns \ {c} : cli'[d] = cli[d]
  BY <1>3, <1>4 DEF ShakeInv, ShakeTypes, ClientType
<1>6. "detect" \in ServerPcs
  BY DEF ServerPcs
<1>7. /\ NewSession \in SessionType
      /\ NewSession.pc = "detect" /\ NewSession.left = PeekTimeout
      /\ NewSession.obf = "none"
  BY <1>6, DefaultIsASni, TimeoutsAssumption DEF NewSession, SessionType
<1>8. /\ srv' \in [Conns -> SessionType] /\ srv'[c] = NewSession
      /\ \A d \in Conns \ {c} : srv'[d] = srv[d]
  BY <1>2, <1>7 DEF ShakeInv, ShakeTypes
<1>9. Sound(c)'
  <2>1. InTime(c)'
    BY <1>5, <1>7, <1>8, TimeoutsAssumption DEF InTime, At
  <2>2. Learned(c)'
    BY <1>3, <1>5, <1>7, <1>8 DEF Learned, At, Judging, Deceiving
  <2> QED
    BY <1>7, <1>8, <2>1, <2>2 DEF Sound, KeyWasGood, NoProber, At
<1> QED
  BY <1>2, <1>5, <1>8, <1>9 DEF OnlyOf, ShakeInv, ShakeTypes, VerdictsRight

LEMMA ExpireKeeps == ShakeInv /\ Expire => ShakeInv'
<1> SUFFICES ASSUME ShakeInv, Expire
             PROVE  ShakeInv'
  OBVIOUS
<1>1. UNCHANGED <<srv, cli>>
  BY DEF Expire
<1>2. /\ cache' \in [Snis -> Snis \cup {"none"}]
      /\ verdict' \in [Snis -> {"unknown", "self", "other", "failed"}]
      /\ VerdictsRight'
  BY SelfNamesAreSnis DEF Expire, ShakeInv, ShakeTypes, VerdictsRight
<1>3. \A c \in Conns : Sound(c)'
  BY <1>1, OthersSound DEF ShakeInv
<1> QED
  BY <1>1, <1>2, <1>3 DEF ShakeInv, ShakeTypes

(* A second passes: what the countdown loses the key's age gains.          *)
LEMMA TickKeeps == ShakeInv /\ Tick => ShakeInv'
<1> SUFFICES ASSUME ShakeInv, Tick
             PROVE  ShakeInv'
  OBVIOUS
<1> DEFINE less(n) == IF n > 0 THEN n - 1 ELSE 0
<1>1. /\ srv' = [c \in Conns |-> [srv[c] EXCEPT !.left = less(@)]]
      /\ cli' = [c \in Conns |-> [cli[c] EXCEPT
                    !.left = less(@),
                    !.age = IF srv[c].pc \in HelloPhase THEN @ + 1 ELSE @]]
      /\ UNCHANGED <<cache, verdict>>
  BY DEF Tick
<1>2. ASSUME NEW c \in Conns
      PROVE  /\ srv'[c] \in SessionType
             /\ srv'[c].pc = srv[c].pc /\ srv'[c].left = less(srv[c].left)
             /\ srv'[c].obf = srv[c].obf /\ srv'[c].sni = srv[c].sni
             /\ srv'[c].mode = srv[c].mode
  <2>1. srv[c] \in SessionType /\ srv'[c] = [srv[c] EXCEPT !.left = less(@)]
    BY <1>1 DEF ShakeInv, ShakeTypes
  <2> QED
    BY <2>1 DEF SessionType
<1>3. ASSUME NEW c \in Conns
      PROVE  /\ cli'[c] \in ClientType
             /\ cli'[c].peer = cli[c].peer /\ cli'[c].pc = cli[c].pc
             /\ cli'[c].obf = cli[c].obf
             /\ cli'[c].age = IF srv[c].pc \in HelloPhase THEN cli[c].age + 1 ELSE cli[c].age
  <2> DEFINE l == less(cli[c].left)
             a == IF srv[c].pc \in HelloPhase THEN cli[c].age + 1 ELSE cli[c].age
  <2>1. /\ cli[c] \in ClientType
        /\ cli'[c] = [cli[c] EXCEPT !.left = l, !.age = a]
    BY <1>1 DEF ShakeInv, ShakeTypes
  <2>2. l \in Nat /\ a \in Nat
    BY <2>1 DEF ClientType
  <2> HIDE DEF l, a
  <2>3. /\ cli'[c] \in ClientType
        /\ cli'[c].peer = cli[c].peer /\ cli'[c].pc = cli[c].pc
        /\ cli'[c].obf = cli[c].obf /\ cli'[c].age = a
    BY <2>1, <2>2 DEF ClientType
  <2> QED
    BY <2>3 DEF a
<1>4. ASSUME NEW c \in Conns
      PROVE  /\ srv[c].pc \in HelloPhase => srv[c].left > 0
             /\ srv[c].pc # "probe"
  <2>1. srv[c].pc \in Quiet \/ (srv[c].pc \in WaitsServer /\ srv[c].left > 0)
    BY DEF Tick
  <2> QED
    BY <2>1 DEF Quiet, WaitsServer, HelloPhase
<1> HIDE DEF less
<1>5. ShakeTypes' /\ VerdictsRight'
  <2>1. srv' \in [Conns -> SessionType]
    <3>1. srv' = [c \in Conns |-> srv'[c]]
      BY <1>1
    <3> QED
      BY <1>2, <3>1
  <2>2. cli' \in [Conns -> ClientType]
    <3>1. cli' = [c \in Conns |-> cli'[c]]
      BY <1>1
    <3> QED
      BY <1>3, <3>1
  <2> QED
    BY <1>1, <2>1, <2>2 DEF ShakeInv, ShakeTypes, VerdictsRight
<1>6. ASSUME NEW c \in Conns
      PROVE  Sound(c)'
  <2>1. Sound(c)
    BY DEF ShakeInv
  <2>2. Learned(c)'
    BY <1>2, <1>3, <2>1 DEF Sound, Learned, At
  <2>3. CASE srv[c].pc \in HelloPhase
    <3>1. /\ srv'[c].left = srv[c].left - 1 /\ cli'[c].age = cli[c].age + 1
          /\ srv[c].left \in Nat /\ cli[c].age \in Nat /\ srv[c].pc # "probe"
      BY <1>2, <1>3, <1>4, <2>3, DriftTyped DEF less
    <3>2. InTime(c)'
      <4>1. SlowestHello \in Nat
        BY TimeoutsAssumption DEF SlowestHello
      <4> QED
        BY <1>2, <2>1, <3>1, <4>1, TimeoutsAssumption DEF Sound, InTime, At, SlowestHello
    <3>3. KeyWasGood(c)'
      <4>1. Drift(c)' = Drift(c) - 1 /\ Drift(c) \in Int
        BY <1>3, <3>1, DriftTyped DEF Drift
      <4> QED
        BY <1>2, <1>3, <2>1, <3>1, <4>1 DEF Sound, KeyWasGood, At
    <3>4. NoProber(c)'
      BY <1>2, <1>3, <2>1 DEF Sound, NoProber, At, SlowestHello
    <3> QED
      BY <2>2, <3>2, <3>3, <3>4 DEF Sound
  <2>4. CASE srv[c].pc \notin HelloPhase
    <3>1. NoProber(c)'
      BY <1>2, <1>3, <2>1 DEF Sound, NoProber, At, SlowestHello
    <3>2. InTime(c)' /\ KeyWasGood(c)'
      BY <1>2, <1>4, <2>4 DEF InTime, KeyWasGood, At, HelloPhase
    <3> QED
      BY <2>2, <3>1, <3>2 DEF Sound
  <2> QED
    BY <2>3, <2>4
<1> QED
  BY <1>5, <1>6 DEF ShakeInv

LEMMA ShakeInitially == ShakeInit => ShakeInv
<1> SUFFICES ASSUME ShakeInit
             PROVE  ShakeInv
  OBVIOUS
<1> USE DEF ShakeInit
<1> DEFINE closed == [NewSession EXCEPT !.pc = "closed"]
           nobody == [peer |-> NoPeer, sni |-> DefaultDomain, pc |-> "failed", left |-> 0,
                      age |-> 0, obf |-> "none"]
<1>1. "closed" \in ServerPcs
  BY DEF ServerPcs
<1>2. closed \in SessionType /\ closed.pc = "closed"
  BY <1>1, DefaultIsASni, TimeoutsAssumption DEF NewSession, SessionType
<1>3. nobody \in ClientType /\ nobody.pc = "failed"
  BY DefaultIsASni DEF ClientType
<1>4. srv = [c \in Conns |-> closed] /\ cli = [c \in Conns |-> nobody]
  OBVIOUS
<1> HIDE DEF closed, nobody
<1>5. \A c \in Conns : srv[c].pc = "closed" /\ cli[c].pc = "failed"
  BY <1>2, <1>3, <1>4
<1>6. ShakeTypes /\ VerdictsRight
  BY <1>2, <1>3, <1>4, SelfNamesAreSnis DEF ShakeTypes, VerdictsRight
<1>7. \A c \in Conns : Sound(c)
  BY <1>5 DEF Sound, Learned, InTime, KeyWasGood, NoProber, At, Judging, Deceiving
<1> QED
  BY <1>6, <1>7 DEF ShakeInv

LEMMA ShakeStep == ShakeInv /\ [ShakeNext]_shakeVars => ShakeInv'
<1> SUFFICES ASSUME ShakeInv, [ShakeNext]_shakeVars
             PROVE  ShakeInv'
  OBVIOUS
<1>1. CASE UNCHANGED shakeVars
  <2>1. UNCHANGED <<srv, cli, cache, verdict>>
    BY <1>1 DEF shakeVars
  <2> QED
    BY <2>1, OthersSound DEF ShakeInv, ShakeTypes, VerdictsRight
<1>2. ASSUME NEW c \in Conns,
             \/ Dial(c) \/ SessionRun(c) \/ ClientRun(c)
             \/ HandleProxy(c) \/ ProxyWithFallback(c) \/ SessionEnds(c)
      PROVE  ShakeInv'
  BY <1>2, DialKeeps, SessionKeeps, ClientKeeps, RelayKeeps, OnlyOfSuffices
<1>3. CASE Expire
  BY <1>3, ExpireKeeps
<1>4. CASE Tick
  BY <1>4, TickKeeps
<1> QED
  BY <1>1, <1>2, <1>3, <1>4 DEF ShakeNext

(* A client of this project speaks through the obfuscator the server reads,*)
(* and its key cannot age out of the window while the server peeks, looks  *)
(* the name up and judges it: ClientsServed.                               *)
THEOREM ClientsAreServed == ShakeSpec => []ClientsServed
<1>1. ShakeInv => ClientsServed
  <2> SUFFICES ASSUME ShakeInv
               PROVE  ClientsServed
    OBVIOUS
  <2>1. ObfuscatorsAgree
    BY DEF ShakeInv, Sound, Learned, ObfuscatorsAgree, FallsBack, Brings, Fakes, At
  <2>2. NotTakenForProber
    BY DEF ShakeInv, Sound, NoProber, NotTakenForProber
  <2> QED
    BY <2>1, <2>2 DEF ClientsServed
<1> QED
  BY <1>1, ShakeInitially, ShakeStep, PTL DEF ShakeSpec

-----------------------------------------------------------------------------
(* The handshake: whom a session proxies to                                *)

(* The step of NoProxyToSelf, for one connection.                          *)
RightTarget(c) ==
    (srv[c].pc \notin Proxied /\ srv'[c].pc \in Proxied /\ srv'[c].target \in SelfNames)
       => \/ ~DetectProbing
          \/ verdict'[srv'[c].target] = "failed"
          \/ At(c, "mode") /\ Drift(c) = -6

(* Most steps do not start to proxy.                                       *)
LEMMA NotToProxy ==
    ASSUME ShakeInv, NEW c \in Conns,
           \/ DetectObfuscator(c) \/ PeekClientHello(c) \/ PeekTimedOut(c)
           \/ PeekWithTimeout(c) \/ CheckCache(c) \/ Fetched(c) \/ FetchFailed(c)
           \/ ChangeCipherSpec(c) \/ TlsHandshake(c) \/ TlsFails(c)
    PROVE  srv'[c].pc \notin Proxied
<1>1. ShakeTypes /\ srv[c].sni \in Snis /\ cli[c].sni \in Snis
  BY DriftTyped DEF ShakeInv, ShakeTypes, ClientType
<1>2. ASSUME NEW pc \in ServerPcs \ Proxied, NEW secs \in Nat, Go(c, pc, secs)
      PROVE  srv'[c].pc \notin Proxied
  BY <1>1, <1>2, GoEffect
<1>3. ASSUME NEW sni \in Snis, HelloRead(c, sni)
      PROVE  srv'[c].pc \notin Proxied
  BY <1>1, <1>3, HelloReadEffect DEF Proxied
<1>4. ASSUME srv' = [srv EXCEPT ![c].pc = "tls", ![c].left = TlsTimeout, ![c].obf = "tls2"]
      PROVE  srv'[c].pc \notin Proxied
  BY <1>1, <1>4, ToTlsEffect DEF Proxied
<1>5. ASSUME srv' = Answered(c, srv)
      PROVE  srv'[c].pc \notin Proxied
  BY <1>1, <1>5, AnsweredEffect DEF Proxied
<1>6. /\ "hello" \in ServerPcs \ Proxied /\ "closed" \in ServerPcs \ Proxied
      /\ "fetch" \in ServerPcs \ Proxied /\ "fetchDefault" \in ServerPcs \ Proxied
      /\ "request" \in ServerPcs \ Proxied
  BY DEF ServerPcs, Deceiving, Proxied
<1>7. CASE DetectObfuscator(c)
  BY <1>2, <1>4, <1>6, <1>7, TimeoutsAssumption DEF DetectObfuscator
<1>8. CASE PeekClientHello(c) \/ PeekTimedOut(c) \/ PeekWithTimeout(c)
  BY <1>1, <1>2, <1>3, <1>6, <1>8, DefaultIsASni
     DEF PeekClientHello, PeekTimedOut, PeekWithTimeout, Close
<1>9. CASE CheckCache(c) \/ FetchFailed(c)
  <2>1. srv[c].pc \in {"lookup", "fetch", "fetchDefault"}
    BY <1>9 DEF CheckCache, FetchFailed, At
  <2>2. FetchTimeout[srv[c].mode] \in Nat
    BY <2>1, TimeoutsAssumption DEF ShakeInv, Sound, Learned, Deceiving
  <2>3. CASE CheckCache(c)
    BY <1>2, <1>5, <1>6, <2>2, <2>3 DEF CheckCache
  <2>4. CASE FetchFailed(c)
    BY <1>2, <1>5, <1>6, <2>2, <2>4 DEF FetchFailed, Close
  <2> QED
    BY <1>9, <2>3, <2>4
<1>10. CASE Fetched(c)
  BY <1>5, <1>10 DEF Fetched
<1>11. CASE ChangeCipherSpec(c)
  BY <1>2, <1>4, <1>6, <1>11 DEF ChangeCipherSpec, Close
<1>12. CASE TlsHandshake(c) \/ TlsFails(c)
  BY <1>2, <1>6, <1>12 DEF TlsHandshake, TlsFails, Close
<1> QED
  BY <1>7, <1>8, <1>9, <1>10, <1>11, <1>12

(* A session that was judged proxies to itself only if the resolver failed.*)
LEMMA JudgedTarget ==
    ASSUME ShakeInv, NEW c \in Conns,
           srv[c].pc \in {"probe", "probeDns", "reality", "realityDns"},
           NEW self \in BOOLEAN, Judged(c, self),
           srv'[c].pc \in Proxied, srv'[c].target \in SelfNames
    PROVE  ~self /\ srv'[c].target = srv[c].sni
<1>1. ShakeTypes /\ srv[c].sni \in Snis /\ DefaultDomain \notin SelfNames
  BY DriftTyped, SelfNamesAreSnis DEF ShakeInv
<1>2. /\ "mode" \in ServerPcs /\ "proxy" \in ServerPcs /\ "lookup" \in ServerPcs
      /\ "proxyOnly" \in ServerPcs /\ "mode" \notin Proxied /\ "lookup" \notin Proxied
  BY DEF ServerPcs, Judging, Deceiving, Proxied
<1>3. CASE srv[c].pc \in {"probe", "probeDns"}
  <2>1. DetectProbe(c, self)
    BY <1>3 DEF Judged
  <2>2. ~HasKey(c)
    BY <1>1, <1>2, <2>1, GoEffect DEF DetectProbe
  <2>3. Proxying(c, IF self THEN DefaultDomain ELSE srv[c].sni, "proxy")
    BY <2>1, <2>2 DEF DetectProbe
  <2>4. srv'[c].target = IF self THEN DefaultDomain ELSE srv[c].sni
    <3> DEFINE target == IF self THEN DefaultDomain ELSE srv[c].sni
    <3>1. target \in Snis /\ Proxying(c, target, "proxy")
      BY <1>1, <2>3, DefaultIsASni
    <3> HIDE DEF target
    <3>2. srv'[c].target = target
      BY <1>1, <1>2, <3>1, ProxyingEffect
    <3> QED
      BY <3>2 DEF target
  <2> QED
    BY <1>1, <2>4
<1>4. CASE srv[c].pc \notin {"probe", "probeDns"}
  <2>1. RealityMode(c, self)
    BY <1>4 DEF Judged
  <2>2. CASE self
    BY <1>1, <1>2, <2>1, <2>2, ProxyingEffect, DefaultIsASni DEF RealityMode
  <2>3. CASE ~self
    BY <1>1, <1>2, <2>1, <2>3, GoEffect DEF RealityMode
  <2> QED
    BY <2>2, <2>3
<1> QED
  BY <1>3, <1>4

LEMMA SessionTarget ==
    ASSUME ShakeInv, NEW c \in Conns, SessionRun(c)
    PROVE  RightTarget(c)
<1> SUFFICES ASSUME srv[c].pc \notin Proxied, srv'[c].pc \in Proxied,
                    srv'[c].target \in SelfNames, DetectProbing
             PROVE  \/ verdict'[srv'[c].target] = "failed"
                    \/ At(c, "mode") /\ Drift(c) = -6
  BY DEF RightTarget
<1>1. CASE IsSniSelfProxyAttempt(c)
  <2>1. srv[c].pc \in {"probe", "reality"} /\ verdict' = verdict
    BY <1>1 DEF IsSniSelfProxyAttempt
  <2>2. GetCachedSelfProxyVerdict(srv[c].sni)
    <3> SUFFICES ASSUME ~GetCachedSelfProxyVerdict(srv[c].sni)
                 PROVE  FALSE
      OBVIOUS
    <3> DEFINE next == IF At(c, "probe") THEN "probeDns" ELSE "realityDns"
    <3>1. next \in ServerPcs /\ next \notin Proxied
      BY DEF ServerPcs, Judging, Deceiving, Proxied
    <3>2. Go(c, next, DnsTimeout)
      BY <1>1 DEF IsSniSelfProxyAttempt
    <3> HIDE DEF next
    <3>3. srv'[c].pc = next
      BY <3>1, <3>2, GoEffect, TimeoutsAssumption DEF ShakeInv
    <3> QED
      BY <3>1, <3>3
  <2>3. Judged(c, IsSelf(srv[c].sni)) /\ IsSelf(srv[c].sni) \in BOOLEAN
    BY <1>1, <2>2 DEF IsSniSelfProxyAttempt, IsSelf
  <2>4. ~IsSelf(srv[c].sni) /\ srv'[c].target = srv[c].sni
    BY <2>1, <2>3, JudgedTarget
  <2>5. srv[c].sni \in SelfNames /\ srv[c].sni # DefaultDomain
    BY <2>4, SelfNamesAreSnis
  <2>6. verdict[srv[c].sni] # "self" /\ verdict[srv[c].sni] # "unknown"
    BY <2>2, <2>4, <2>5 DEF IsSelf, GetCachedSelfProxyVerdict
  <2>7. verdict[srv[c].sni] = "failed"
    BY <2>5, <2>6, SelfNamesAreSnis DEF ShakeInv, ShakeTypes, VerdictsRight
  <2> QED
    BY <2>1, <2>4, <2>7
<1>2. CASE CacheSelfProxyVerdict(c)
  <2>1. srv[c].pc \in {"probeDns", "realityDns"}
    BY <1>2 DEF CacheSelfProxyVerdict
  <2>2. PICK failed \in BOOLEAN :
           LET v == IF failed THEN "failed"
                    ELSE IF srv[c].sni \in SelfNames THEN "self" ELSE "other"
           IN  verdict' = [verdict EXCEPT ![srv[c].sni] = v] /\ Judged(c, v = "self")
    BY <1>2 DEF CacheSelfProxyVerdict
  <2> DEFINE v == IF failed THEN "failed"
                  ELSE IF srv[c].sni \in SelfNames THEN "self" ELSE "other"
  <2>3. verdict' = [verdict EXCEPT ![srv[c].sni] = v] /\ Judged(c, v = "self")
    BY <2>2
  <2> HIDE DEF v
  <2>4. v # "self" /\ srv'[c].target = srv[c].sni
    BY <2>1, <2>3, JudgedTarget
  <2>5. v = "failed"
    BY <2>4 DEF v
  <2> QED
    BY <2>3, <2>4, <2>5, DriftTyped DEF ShakeInv, ShakeTypes
<1>3. CASE IsRealityHandshake(c)
  <2>1. At(c, "mode") /\ ShakeTypes
    BY <1>3 DEF IsRealityHandshake, ShakeInv
  <2>2. ~HasKey(c)
    <3> SUFFICES ASSUME HasKey(c)
                 PROVE  FALSE
      OBVIOUS
    <3>1. /\ "tls" \in ServerPcs /\ "tls" \notin Proxied /\ "reality" \notin Proxied
      BY DEF ServerPcs, Proxied
    <3>2. \/ srv' = [srv EXCEPT ![c].pc = "reality", ![c].left = 0, ![c].mode = "reality"]
          \/ srv' = [srv EXCEPT ![c].pc = "reality", ![c].left = 0, ![c].mode = "reality2"]
          \/ Go(c, "tls", TlsTimeout)
      BY <1>3 DEF IsRealityHandshake, HasKey, IsDecoyHandshakeSessionID,
                  IsDecoyHandshakeSessionID2, IsFptnClientSessionID
    <3>3. ASSUME NEW m \in {"reality", "reality2"},
                 srv' = [srv EXCEPT ![c].pc = "reality", ![c].left = 0, ![c].mode = m]
          PROVE  FALSE
      BY <2>1, <3>1, <3>3, ModeEffect
    <3>4. CASE Go(c, "tls", TlsTimeout)
      BY <2>1, <3>1, <3>4, GoEffect, TimeoutsAssumption
    <3> QED
      BY <3>2, <3>3, <3>4
  <2>3. /\ FirstBytes(cli[c].peer).key \in {28, 10, 14}
        /\ Drift(c) + 1 - srv[c].left \in (-5)..5
        /\ srv[c].left <= 1
    BY <2>1 DEF ShakeInv, Sound, KeyWasGood, InTime
  <2>4. ~KeyOfNow(c)
    BY <2>2, <2>3 DEF HasKey, IsDecoyHandshakeSessionID, IsDecoyHandshakeSessionID2,
                      IsFptnClientSessionID
  <2>5. Drift(c) = -6
    BY <2>3, <2>4, DriftTyped DEF KeyOfNow
  <2> QED
    BY <2>1, <2>5
<1> QED
  BY <1>1, <1>2, <1>3, NotToProxy DEF SessionRun

LEMMA StepTarget ==
    ASSUME ShakeInv, [ShakeNext]_shakeVars, NEW c \in Conns
    PROVE  RightTarget(c)
<1>1. CASE srv'[c].pc = srv[c].pc
  BY <1>1 DEF RightTarget
<1>2. CASE srv'[c].pc # srv[c].pc
  <2>1. srv' # srv
    BY <1>2
  <2>2. CASE \E d \in Conns : \/ Dial(d) \/ SessionRun(d) \/ ClientRun(d)
                              \/ HandleProxy(d) \/ ProxyWithFallback(d) \/ SessionEnds(d)
    <3>1. PICK d \in Conns : \/ Dial(d) \/ SessionRun(d) \/ ClientRun(d)
                             \/ HandleProxy(d) \/ ProxyWithFallback(d) \/ SessionEnds(d)
      BY <2>2
    <3>2. OnlyOf(d)
      BY <3>1, DialKeeps, SessionKeeps, ClientKeeps, RelayKeeps
    <3>3. d = c
      BY <1>2, <3>2 DEF OnlyOf
    <3>4. CASE SessionRun(c)
      BY <3>4, SessionTarget
    <3>5. CASE Dial(c)
      <4>1. srv'[c].pc = "detect"
        BY <3>5 DEF Dial, NewSession, ShakeInv, ShakeTypes
      <4> QED
        BY <4>1 DEF RightTarget, Proxied
    <3>6. CASE ClientRun(c)
      BY <2>1, <3>6 DEF ClientRun, PerformFakeHandshake2, ApiPerformFakeHandshake2,
                        FakeHandshakeDone, AnswerTimedOut, ClientTlsFails
    <3>7. CASE HandleProxy(c) \/ ProxyWithFallback(c)
      BY <3>7 DEF HandleProxy, ProxyWithFallback, RightTarget, Proxied
    <3>8. CASE SessionEnds(c)
      <4>1. srv'[c].pc = "closed"
        BY <3>8 DEF SessionEnds, Close, Go, ShakeInv, ShakeTypes, SessionType
      <4> QED
        BY <4>1 DEF RightTarget, Proxied
    <3> QED
      BY <3>1, <3>3, <3>4, <3>5, <3>6, <3>7, <3>8
  <2>3. CASE Expire
    BY <2>1, <2>3 DEF Expire
  <2>4. CASE Tick
    <3>1. srv'[c] = [srv[c] EXCEPT !.left = IF @ > 0 THEN @ - 1 ELSE 0]
      BY <2>4 DEF Tick
    <3>2. srv[c] \in SessionType
      BY DEF ShakeInv, ShakeTypes
    <3>3. srv'[c].pc = srv[c].pc
      BY <3>1, <3>2 DEF SessionType
    <3> QED
      BY <1>2, <3>3
  <2>5. CASE UNCHANGED shakeVars
    BY <2>1, <2>5 DEF shakeVars
  <2> QED
    BY <2>2, <2>3, <2>4, <2>5 DEF ShakeNext
<1> QED
  BY <1>1, <1>2

(* With probing detection on no session starts to proxy to a name of this  *)
(* server, but for the two exceptions NoProxyToSelf names.                 *)
THEOREM NeverProxiesToItself == ShakeSpec => NoProxyToSelf
<1>1. ShakeInv /\ [ShakeNext]_shakeVars =>
         [\A c \in Conns :
             (srv[c].pc \notin Proxied /\ srv'[c].pc \in Proxied
                 /\ srv'[c].target \in SelfNames)
                => \/ ~DetectProbing
                   \/ verdict'[srv'[c].target] = "failed"
                   \/ At(c, "mode") /\ Drift(c) = -6]_shakeVars
  BY StepTarget DEF RightTarget
<1> QED
  BY <1>1, ShakeInitially, ShakeStep, PTL DEF ShakeSpec, NoProxyToSelf

-----------------------------------------------------------------------------
(* The API client: the inductive invariant                                 *)

(* Where the SSL object lives, where a callback may be attached, and where *)
(* it may still be in the table.                                           *)
AliveAt == {"resolve", "connect", "fake", "attach", "handshake", "exchange", "stuck",
            "unwind", "destroy"}
EntryAt == {"handshake", "exchange", "stuck", "unwind", "delete"}
AttachedAt == EntryAt \cup {"destroy", "report", "gone"}
DoneAt == {"unwind", "destroy", "delete", "report", "answer", "gone"}

RequestType ==
    [kind : {"get", "post", "test", "async"}, pin : Pins \cup {NoPin},
     caller : {"idle", "waiting", "done"}, cancelled : BOOLEAN, ready : BOOLEAN,
     at : AliveAt \cup AttachedAt \cup {"idle", "port", "answer"},
     ssl : SslAddresses \cup {Nobody}, alive : BOOLEAN, attached : BOOLEAN,
     code : Nat, answer : Nat, cert : Pins \cup {NoPin}]

(* One request: a good result has been verified, and is what is answered.  *)
Verified(x) ==
    /\ x.alive <=> x.at \in AliveAt
    /\ x.attached => x.pin # NoPin /\ x.at \in AttachedAt
    /\ x.alive \/ x.attached => x.ssl \in SslAddresses
    /\ x.kind = "async" => x.pin = NoPin
    /\ x.at = "handshake" /\ x.pin # NoPin => x.attached
    /\ x.at \in {"exchange", "stuck"} /\ x.pin # NoPin => x.cert = x.pin
    /\ x.code = 200 => x.at \in DoneAt /\ (x.pin # NoPin => x.cert = x.pin)
    /\ x.answer = 200 => x.code = 200 /\ x.at = "gone"
    /\ x.ready => x.at = "gone"
    /\ x.caller = "idle" => x.at = "idle" /\ x.pin = NoPin

ApiTypes ==
    /\ req \in [Requests -> RequestType]
    /\ callbacks \in [SslAddresses -> Requests \cup {Nobody}]

(* No two SSL objects share an address while they live.                    *)
AddressesApart ==
    \A r, q \in Requests : r # q /\ req[r].alive /\ req[q].alive => req[r].ssl # req[q].ssl

(* An entry is its request's, under the address the request used.          *)
EntriesOwn ==
    \A a \in SslAddresses :
       callbacks[a] # Nobody => /\ req[callbacks[a]].ssl = a
                                /\ req[callbacks[a]].attached
                                /\ req[callbacks[a]].at \in EntryAt

(* A living SSL object finds its own callback or none.                     *)
OwnOrNone ==
    \A r \in Requests :
       req[r].alive /\ req[r].attached => callbacks[req[r].ssl] \in {r, Nobody}

ApiInv ==
    /\ ApiTypes /\ AddressesApart /\ EntriesOwn /\ OwnOrNone
    /\ \A r \in Requests : Verified(req[r])

-----------------------------------------------------------------------------
(* A step changes one request.                                             *)

LEMMA UpdEffect ==
    ASSUME ApiTypes, NEW r \in Requests, NEW rec \in RequestType, Upd(r, rec)
    PROVE  /\ req' \in [Requests -> RequestType] /\ req'[r] = rec
           /\ \A q \in Requests : q # r => req'[q] = req[q]
BY DEF Upd, ApiTypes

(* The results a step may write are of their types.                        *)
LEMMA CodeTyped ==
    ASSUME NEW x \in RequestType, NEW c \in Nat, NEW at \in {"unwind", "report"}
    PROVE  [x EXCEPT !.code = c, !.at = at] \in RequestType
<1>1. at \in AliveAt \cup AttachedAt
  BY DEF AliveAt, AttachedAt
<1> QED
  BY <1>1 DEF RequestType

LEMMA AnswerTyped ==
    ASSUME NEW x \in RequestType, NEW c \in Nat
    PROVE  /\ [x EXCEPT !.caller = "done", !.answer = c] \in RequestType
           /\ [x EXCEPT !.caller = "done", !.answer = c, !.cancelled = TRUE] \in RequestType
BY DEF RequestType

(* A step that touches neither the table nor the address, that gives no    *)
(* life to an SSL object and leaves an attached entry where it may be.     *)
LEMMA PlainKeeps ==
    ASSUME ApiInv, NEW r \in Requests, NEW rec \in RequestType, Upd(r, rec),
           callbacks' = callbacks, Verified(rec),
           rec.ssl = req[r].ssl, rec.attached = req[r].attached,
           rec.alive => req[r].alive,
           req[r].attached /\ req[r].at \in EntryAt => rec.at \in EntryAt
    PROVE  ApiInv'
<1> USE DEF ApiInv
<1>1. /\ req' \in [Requests -> RequestType] /\ req'[r] = rec
      /\ \A q \in Requests : q # r => req'[q] = req[q]
  BY UpdEffect
<1>2. ApiTypes'
  BY <1>1 DEF ApiTypes
<1>3. \A q \in Requests : /\ req'[q].ssl = req[q].ssl /\ req'[q].attached = req[q].attached
                          /\ req'[q].alive => req[q].alive
                          /\ req[q].attached /\ req[q].at \in EntryAt => req'[q].at \in EntryAt
  BY <1>1
<1>4. AddressesApart'
  BY <1>3 DEF AddressesApart
<1>5. EntriesOwn'
  <2>1. \A a \in SslAddresses : callbacks[a] # Nobody => callbacks[a] \in Requests
    BY DEF ApiTypes
  <2> QED
    BY <1>3, <2>1 DEF EntriesOwn
<1>6. OwnOrNone'
  BY <1>3 DEF OwnOrNone
<1>7. \A q \in Requests : Verified(req[q])'
  BY <1>1 DEF Verified
<1> QED
  BY <1>2, <1>4, <1>5, <1>6, <1>7

(* A stream is built at an address no living SSL object has.               *)
LEMMA StreamKeeps ==
    ASSUME ApiInv, NEW r \in Requests, NEW rec \in RequestType, WithStream(r, rec),
           callbacks' = callbacks, ~rec.attached, ~req[r].attached,
           \A a \in SslAddresses : Verified([rec EXCEPT !.ssl = a, !.alive = TRUE])
    PROVE  ApiInv'
<1> USE DEF ApiInv
<1>1. PICK a \in SslAddresses \ InUse : Upd(r, [rec EXCEPT !.ssl = a, !.alive = TRUE])
  BY DEF WithStream
<1> DEFINE new == [rec EXCEPT !.ssl = a, !.alive = TRUE]
<1>2. new \in RequestType /\ new.ssl = a /\ new.alive /\ ~new.attached
  BY DEF RequestType
<1>3. Verified(new)
  OBVIOUS
<1> HIDE DEF new
<1>4. /\ req' \in [Requests -> RequestType] /\ req'[r] = new
      /\ \A q \in Requests : q # r => req'[q] = req[q]
  BY <1>1, <1>2, UpdEffect DEF new
<1>5. \A q \in Requests : req[q].alive => req[q].ssl # a
  BY DEF InUse
<1>6. ApiTypes'
  BY <1>4 DEF ApiTypes
<1>7. AddressesApart'
  <2> SUFFICES ASSUME NEW p \in Requests, NEW q \in Requests, p # q,
                      req'[p].alive, req'[q].alive
               PROVE  req'[p].ssl # req'[q].ssl
    BY DEF AddressesApart
  <2>1. CASE p = r
    BY <1>2, <1>4, <1>5, <2>1
  <2>2. CASE q = r
    BY <1>2, <1>4, <1>5, <2>2
  <2>3. CASE p # r /\ q # r
    BY <1>4, <2>3 DEF AddressesApart
  <2> QED
    BY <2>1, <2>2, <2>3
<1>8. EntriesOwn'
  <2>1. ASSUME NEW b \in SslAddresses, callbacks[b] # Nobody
        PROVE  callbacks[b] \in Requests /\ callbacks[b] # r
    BY <2>1 DEF ApiTypes, EntriesOwn
  <2> QED
    BY <1>4, <2>1 DEF EntriesOwn
<1>9. OwnOrNone'
  BY <1>2, <1>4 DEF OwnOrNone
<1>10. \A q \in Requests : Verified(req[q])'
  BY <1>3, <1>4 DEF Verified
<1> QED
  BY <1>6, <1>7, <1>8, <1>9, <1>10

-----------------------------------------------------------------------------
(* The steps that leave the table alone.                                   *)

LEMMA StartsKeep ==
    ASSUME ApiInv, NEW r \in Requests, Execute(r) \/ AsyncPost(r) \/ IsPortOpen(r)
    PROVE  ApiInv'
<1>1. req[r] \in RequestType /\ Verified(req[r])
  BY DEF ApiInv, ApiTypes
<1>2. CASE Execute(r)
  <2>1. PICK k \in RequestKinds[r] \ {"async"}, p \in Pins \cup {NoPin} :
           Upd(r, [req[r] EXCEPT !.kind = k, !.pin = p, !.caller = "waiting", !.at = "port"])
    BY <1>2 DEF Execute
  <2> DEFINE rec == [req[r] EXCEPT !.kind = k, !.pin = p, !.caller = "waiting", !.at = "port"]
  <2>2. k \in {"get", "post", "test"}
    BY KindsAssumption
  <2>3. req[r].caller = "idle" /\ callbacks' = callbacks
    BY <1>2 DEF Execute
  <2>4. rec \in RequestType
    BY <1>1, <2>2 DEF RequestType
  <2>5. /\ Verified(rec) /\ rec.ssl = req[r].ssl /\ rec.attached = req[r].attached
        /\ rec.alive => req[r].alive
        /\ ~req[r].attached
    BY <1>1, <2>2, <2>3 DEF RequestType, Verified, AliveAt, EntryAt, AttachedAt, DoneAt
  <2> QED
    BY <2>1, <2>3, <2>4, <2>5, PlainKeeps
<1>3. CASE AsyncPost(r)
  <2> DEFINE rec == [req[r] EXCEPT !.kind = "async", !.caller = "waiting", !.at = "resolve"]
  <2>1. req[r].caller = "idle" /\ callbacks' = callbacks /\ WithStream(r, rec)
    BY <1>3 DEF AsyncPost
  <2>2. rec \in RequestType /\ ~rec.attached /\ ~req[r].attached
    <3>1. "resolve" \in AliveAt
      BY DEF AliveAt
    <3>2. rec \in RequestType /\ rec.attached = req[r].attached
      BY <1>1, <3>1 DEF RequestType
    <3>3. ~req[r].attached
      BY <1>1, <2>1 DEF Verified, EntryAt, AttachedAt
    <3> QED
      BY <3>2, <3>3
  <2>3. \A a \in SslAddresses : Verified([rec EXCEPT !.ssl = a, !.alive = TRUE])
    BY <1>1, <2>1 DEF RequestType, Verified, AliveAt, EntryAt, AttachedAt, DoneAt
  <2> QED
    BY <2>1, <2>2, <2>3, StreamKeeps
<1>4. CASE IsPortOpen(r)
  <2>1. req[r].at = "port" /\ callbacks' = callbacks
    BY <1>4 DEF IsPortOpen
  <2>2. CASE WithStream(r, [req[r] EXCEPT !.at = "resolve"])
    <3> DEFINE rec == [req[r] EXCEPT !.at = "resolve"]
    <3>1. rec \in RequestType /\ ~rec.attached /\ ~req[r].attached
      BY <1>1, <2>1 DEF RequestType, Verified, AliveAt, EntryAt, AttachedAt
    <3>2. \A a \in SslAddresses : Verified([rec EXCEPT !.ssl = a, !.alive = TRUE])
      BY <1>1, <2>1 DEF RequestType, Verified, AliveAt, EntryAt, AttachedAt, DoneAt
    <3> QED
      BY <2>1, <2>2, <3>1, <3>2, StreamKeeps
  <2>3. CASE Upd(r, [req[r] EXCEPT !.code = 609, !.at = "report"])
    <3> DEFINE rec == [req[r] EXCEPT !.code = 609, !.at = "report"]
    <3>1. rec \in RequestType
      <4>1. \A x \in RequestType, n \in Nat :
               [x EXCEPT !.code = n, !.at = "report"] \in RequestType
        <5>1. "report" \in {"unwind", "report"}
          OBVIOUS
        <5> QED
          BY <5>1, CodeTyped
      <4>2. 609 \in Nat
        OBVIOUS
      <4> QED
        BY Zenon, <1>1, <4>1, <4>2
    <3>2. /\ Verified(rec) /\ rec.ssl = req[r].ssl /\ rec.attached = req[r].attached
          /\ rec.alive => req[r].alive
          /\ ~req[r].attached
      BY <1>1, <2>1 DEF RequestType, Verified, AliveAt, EntryAt, AttachedAt, DoneAt
    <3> QED
      BY <2>1, <2>3, <3>1, <3>2, PlainKeeps
  <2> QED
    BY <1>4, <2>2, <2>3 DEF IsPortOpen
<1> QED
  BY <1>2, <1>3, <1>4

(* A failure before the request is under way on a verified stream.         *)
LEMMA UnwindKeeps ==
    ASSUME ApiInv, NEW r \in Requests, NEW c \in Nat, Unwind(r, c), callbacks' = callbacks,
           \/ req[r].at \in {"resolve", "connect", "fake", "handshake"} /\ c # 200
           \/ req[r].at = "exchange"
    PROVE  ApiInv'
<1> DEFINE rec == [req[r] EXCEPT !.code = c, !.at = "unwind"]
<1>1. req[r] \in RequestType /\ Verified(req[r])
  BY DEF ApiInv, ApiTypes
<1>2. Upd(r, rec)
  BY DEF Unwind
<1>3. rec \in RequestType
  BY <1>1, CodeTyped
<1>4. /\ Verified(rec) /\ rec.ssl = req[r].ssl /\ rec.attached = req[r].attached
      /\ rec.alive => req[r].alive
      /\ rec.at \in EntryAt
  BY <1>1 DEF RequestType, Verified, AliveAt, EntryAt, AttachedAt, DoneAt
<1> QED
  BY <1>2, <1>3, <1>4, PlainKeeps


LEMMA WorkKeeps ==
    ASSUME ApiInv, NEW r \in Requests,
           \/ ResolveWithTimeout(r) \/ ApiConnect(r) \/ ApiFakeHandshake(r) \/ Exchange(r)
           \/ Report(r) \/ ExecuteWithTimeout(r) \/ AsyncAnswer(r) \/ DestroyStream(r)
    PROVE  ApiInv'
<1>1. req[r] \in RequestType /\ Verified(req[r])
  BY DEF ApiInv, ApiTypes
<1>2. callbacks' = callbacks
  BY DEF ResolveWithTimeout, ApiConnect, ApiFakeHandshake, Exchange, Report,
         ExecuteWithTimeout, AsyncAnswer, DestroyStream
<1>3. ASSUME NEW rec \in RequestType, Upd(r, rec), Verified(rec), rec.ssl = req[r].ssl,
             rec.attached = req[r].attached, rec.alive => req[r].alive,
             req[r].attached /\ req[r].at \in EntryAt => rec.at \in EntryAt
      PROVE  ApiInv'
  BY <1>2, <1>3, PlainKeeps
<1>4. ASSUME NEW at \in {"connect", "fake", "attach"}, Upd(r, [req[r] EXCEPT !.at = at]),
             req[r].at \in {"resolve", "connect", "fake"}
      PROVE  ApiInv'
  <2> DEFINE rec == [req[r] EXCEPT !.at = at]
  <2>1. rec \in RequestType
    BY <1>1 DEF RequestType, AliveAt
  <2>2. /\ Verified(rec) /\ rec.ssl = req[r].ssl /\ rec.attached = req[r].attached
        /\ rec.alive => req[r].alive
        /\ ~req[r].attached
    BY <1>1, <1>4 DEF RequestType, Verified, AliveAt, EntryAt, AttachedAt, DoneAt
  <2> QED
    BY <1>3, <1>4, <2>1, <2>2
<1>5. CASE ResolveWithTimeout(r) \/ ApiConnect(r) \/ ApiFakeHandshake(r)
  BY <1>2, <1>4, <1>5, UnwindKeeps DEF ResolveWithTimeout, ApiConnect, ApiFakeHandshake
<1>6. CASE Exchange(r)
  <2>1. CASE DecompressGzip(r)
    <3> DEFINE rec == [req[r] EXCEPT !.at = "stuck"]
    <3>1. rec \in RequestType
      BY <1>1 DEF RequestType, AliveAt
    <3>2. /\ Verified(rec) /\ rec.ssl = req[r].ssl /\ rec.attached = req[r].attached
          /\ rec.alive => req[r].alive
          /\ rec.at \in EntryAt
      BY <1>1, <1>6 DEF Exchange, RequestType, Verified, AliveAt, EntryAt, AttachedAt, DoneAt
    <3> QED
      BY <1>3, <2>1, <3>1, <3>2 DEF DecompressGzip
  <2>2. CASE \E c \in {200, 600} : Unwind(r, c)
    BY <1>2, <1>6, <2>2, UnwindKeeps DEF Exchange
  <2> QED
    BY <1>6, <2>1, <2>2 DEF Exchange
<1>7. CASE Report(r)
  <2> DEFINE rec == [req[r] EXCEPT !.at = "gone", !.ready = ~req[r].cancelled]
  <2>1. rec \in RequestType
    <3> DEFINE b == ~req[r].cancelled
    <3>1. "gone" \in AttachedAt /\ b \in BOOLEAN
      BY DEF AttachedAt
    <3> HIDE DEF b
    <3>2. [req[r] EXCEPT !.at = "gone", !.ready = b] \in RequestType
      BY <1>1, <3>1 DEF RequestType
    <3> QED
      BY <3>2 DEF b
  <2>2. /\ Verified(rec) /\ rec.ssl = req[r].ssl /\ rec.attached = req[r].attached
        /\ rec.alive => req[r].alive
        /\ req[r].at \notin EntryAt
    BY <1>1, <1>7 DEF Report, RequestType, Verified, AliveAt, EntryAt, AttachedAt, DoneAt
  <2> QED
    BY <1>3, <1>7, <2>1, <2>2 DEF Report
<1>8. CASE ExecuteWithTimeout(r)
  <2>1. CASE req[r].ready
    <3> DEFINE rec == [req[r] EXCEPT !.caller = "done", !.answer = req[r].code]
    <3>1. req[r].code \in Nat /\ req[r].at = "gone"
      BY <1>1, <2>1 DEF RequestType, Verified
    <3>2. rec \in RequestType
      BY <1>1, <3>1, AnswerTyped
    <3>3. /\ Verified(rec) /\ rec.ssl = req[r].ssl /\ rec.attached = req[r].attached
          /\ rec.alive => req[r].alive
          /\ rec.at = req[r].at
      BY <1>1, <2>1, <3>1 DEF RequestType, Verified, AliveAt, EntryAt, AttachedAt, DoneAt
    <3> QED
      BY <1>3, <1>8, <2>1, <3>2, <3>3 DEF ExecuteWithTimeout
  <2>2. CASE ~req[r].ready
    <3> DEFINE rec == [req[r] EXCEPT !.caller = "done", !.answer = 608, !.cancelled = TRUE]
    <3>1. rec \in RequestType
      <4>1. 608 \in Nat
        OBVIOUS
      <4>2. \A c \in Nat :
               [req[r] EXCEPT !.caller = "done", !.answer = c, !.cancelled = TRUE] \in RequestType
        BY <1>1, AnswerTyped
      <4> QED
        BY <4>1, <4>2
    <3>2. /\ Verified(rec) /\ rec.ssl = req[r].ssl /\ rec.attached = req[r].attached
          /\ rec.alive => req[r].alive
          /\ rec.at = req[r].at
      BY <1>1 DEF RequestType, Verified, AliveAt, EntryAt, AttachedAt, DoneAt
    <3> QED
      BY <1>3, <1>8, <2>2, <3>1, <3>2 DEF ExecuteWithTimeout
  <2> QED
    BY <2>1, <2>2
<1>9. CASE AsyncAnswer(r)
  <2> DEFINE rec == [req[r] EXCEPT !.at = "gone", !.caller = "done", !.answer = req[r].code]
  <2>1. rec \in RequestType
    BY <1>1 DEF RequestType, AttachedAt
  <2>2. /\ Verified(rec) /\ rec.ssl = req[r].ssl /\ rec.attached = req[r].attached
        /\ rec.alive => req[r].alive
        /\ ~req[r].attached
    BY <1>1, <1>9 DEF AsyncAnswer, RequestType, Verified, AliveAt, EntryAt, AttachedAt, DoneAt
  <2> QED
    BY <1>3, <1>9, <2>1, <2>2 DEF AsyncAnswer
<1>10. CASE DestroyStream(r)
  <2>1. PICK at \in {"answer", "report", "delete"} :
           /\ Upd(r, [req[r] EXCEPT !.alive = FALSE, !.at = at])
           /\ at = "answer" <=> req[r].kind = "async"
           /\ at = "report" => DeletesFirst(r)
    BY <1>10 DEF DestroyStream, DeletesFirst
  <2>2. /\ req[r].at \in {"unwind", "destroy"}
        /\ DeletesFirst(r) <=> req[r].at = "destroy"
    BY <1>10 DEF DestroyStream
  <2> DEFINE rec == [req[r] EXCEPT !.alive = FALSE, !.at = at]
  <2>3. rec \in RequestType
    BY <1>1 DEF RequestType, EntryAt, AttachedAt
  <2>4. /\ rec.ssl = req[r].ssl /\ rec.attached = req[r].attached
        /\ rec.alive => req[r].alive
        /\ req[r].attached /\ req[r].at \in EntryAt => rec.at \in EntryAt
    BY <1>1, <2>1, <2>2 DEF RequestType, Verified, EntryAt
  <2>5. Verified(rec)
    BY <1>1, <2>1, <2>2 DEF RequestType, Verified, AliveAt, EntryAt, AttachedAt, DoneAt
  <2> QED
    BY <1>3, <2>1, <2>3, <2>4, <2>5
<1> QED
  BY <1>5, <1>6, <1>7, <1>8, <1>9, <1>10

(* The handshake succeeds only with the pinned certificate.                *)
LEMMA HandshakeKeeps ==
    ASSUME ApiInv, NEW r \in Requests, ApiHandshake(r)
    PROVE  ApiInv'
<1>1. req[r] \in RequestType /\ Verified(req[r])
  BY DEF ApiInv, ApiTypes
<1>2. req[r].at = "handshake" /\ callbacks' = callbacks
  BY DEF ApiHandshake
<1>3. PICK cert \in Pins :
         \/ /\ OnVerifyCertificate(r, cert)
            /\ Upd(r, [req[r] EXCEPT !.cert = cert,
                         !.at = IF req[r].kind = "test" THEN "unwind" ELSE "exchange",
                         !.code = IF req[r].kind = "test" THEN 200 ELSE @])
         \/ Unwind(r, 600)
         \/ UNCHANGED req
  BY DEF ApiHandshake
<1>4. CASE Unwind(r, 600)
  BY <1>2, <1>4, UnwindKeeps
<1>5. CASE UNCHANGED req
  BY <1>2, <1>5 DEF ApiInv, ApiTypes, AddressesApart, EntriesOwn, OwnOrNone, Verified
<1>6. ASSUME NEW at \in {"unwind", "exchange"}, NEW code \in Nat,
             Upd(r, [req[r] EXCEPT !.cert = cert, !.at = at, !.code = code]),
             OnVerifyCertificate(r, cert), code = 200 => at = "unwind"
      PROVE  ApiInv'
  <2> DEFINE rec == [req[r] EXCEPT !.cert = cert, !.at = at, !.code = code]
  <2>1. rec \in RequestType
    BY <1>1 DEF RequestType, AliveAt
  <2>2. req[r].pin # NoPin => cert = req[r].pin
    <3>1. SUFFICES ASSUME req[r].pin # NoPin PROVE cert = req[r].pin
      OBVIOUS
    <3>2. req[r].alive /\ req[r].attached
      BY <1>1, <1>2, <3>1 DEF Verified, AliveAt
    <3>3. callbacks[req[r].ssl] \in {r, Nobody}
      BY <3>2 DEF ApiInv, OwnOrNone
    <3> QED
      BY <1>6, <3>1, <3>3 DEF OnVerifyCertificate
  <2>3. /\ Verified(rec) /\ rec.ssl = req[r].ssl /\ rec.attached = req[r].attached
        /\ rec.alive => req[r].alive
        /\ rec.at \in EntryAt
    BY <1>1, <1>2, <1>6, <2>2
       DEF RequestType, Verified, AliveAt, EntryAt, AttachedAt, DoneAt
  <2> QED
    BY <1>2, <1>6, <2>1, <2>3, PlainKeeps
<1>7. CASE /\ OnVerifyCertificate(r, cert)
           /\ Upd(r, [req[r] EXCEPT !.cert = cert,
                        !.at = IF req[r].kind = "test" THEN "unwind" ELSE "exchange",
                        !.code = IF req[r].kind = "test" THEN 200 ELSE @])
  <2>1. req[r].code \in Nat /\ req[r].code # 200
    BY <1>1, <1>2 DEF RequestType, Verified, DoneAt
  <2>2. CASE req[r].kind = "test"
    <3>1. Upd(r, [req[r] EXCEPT !.cert = cert, !.at = "unwind", !.code = 200])
      BY <1>7, <2>2
    <3> QED
      BY <1>6, <1>7, <3>1
  <2>3. CASE req[r].kind # "test"
    <3>1. Upd(r, [req[r] EXCEPT !.cert = cert, !.at = "exchange", !.code = req[r].code])
      BY <1>7, <2>3
    <3> QED
      BY <1>6, <1>7, <2>1, <3>1
  <2> QED
    BY <2>2, <2>3
<1> QED
  BY <1>3, <1>4, <1>5, <1>7


-----------------------------------------------------------------------------
(* The steps that change the table.                                        *)

LEMMA AttachKeeps ==
    ASSUME ApiInv, NEW r \in Requests, AttachCallback(r)
    PROVE  ApiInv'
<1> DEFINE pinned == req[r].pin # NoPin
           rec == [req[r] EXCEPT !.attached = pinned, !.at = "handshake"]
           a == req[r].ssl
<1> USE DEF ApiInv
<1>1. req[r] \in RequestType /\ Verified(req[r])
  BY DEF ApiTypes
<1>2. /\ req[r].at = "attach" /\ Upd(r, rec)
      /\ callbacks' = IF pinned THEN [callbacks EXCEPT ![a] = r] ELSE callbacks
  BY DEF AttachCallback
<1>3. pinned \in BOOLEAN /\ a \in SslAddresses /\ req[r].alive /\ ~req[r].attached
  BY <1>1, <1>2 DEF Verified, AliveAt, EntryAt, AttachedAt
<1>4. rec \in RequestType
  BY <1>1, <1>3 DEF RequestType, EntryAt, AttachedAt
<1>5. /\ rec.ssl = a /\ rec.alive = req[r].alive /\ rec.attached = pinned
      /\ rec.at = "handshake"
  BY <1>1, <1>3 DEF RequestType
<1>6. Verified(rec)
  BY <1>1, <1>2, <1>3 DEF RequestType, Verified, AliveAt, EntryAt, AttachedAt, DoneAt
<1> HIDE DEF rec
<1>7. /\ req' \in [Requests -> RequestType] /\ req'[r] = rec
      /\ \A q \in Requests : q # r => req'[q] = req[q]
  BY <1>2, <1>4, UpdEffect
<1>8. /\ callbacks' \in [SslAddresses -> Requests \cup {Nobody}]
      /\ callbacks'[a] = IF pinned THEN r ELSE callbacks[a]
      /\ \A b \in SslAddresses : b # a => callbacks'[b] = callbacks[b]
  BY <1>2, <1>3 DEF ApiTypes
<1>9. \A b \in SslAddresses : callbacks[b] # r
  BY <1>3, NamesApart DEF EntriesOwn, ApiTypes
<1>10. ApiTypes'
  BY <1>7, <1>8 DEF ApiTypes
<1>11. AddressesApart'
  BY <1>5, <1>7 DEF AddressesApart
<1>12. EntriesOwn'
  <2>1. ASSUME NEW b \in SslAddresses, callbacks'[b] # Nobody
        PROVE  /\ req'[callbacks'[b]].ssl = b
               /\ req'[callbacks'[b]].attached
               /\ req'[callbacks'[b]].at \in EntryAt
    <3>1. CASE b = a /\ pinned
      BY <1>5, <1>7, <1>8, <3>1 DEF EntryAt
    <3>2. CASE ~(b = a /\ pinned)
      <4>1. callbacks'[b] = callbacks[b]
        BY <1>8, <3>2
      <4>2. callbacks[b] \in Requests /\ callbacks[b] # r
        BY <1>9, <2>1, <4>1 DEF ApiTypes
      <4> QED
        BY <1>7, <2>1, <4>1, <4>2 DEF EntriesOwn
    <3> QED
      BY <3>1, <3>2
  <2> QED
    BY <2>1 DEF EntriesOwn
<1>13. OwnOrNone'
  <2>1. ASSUME NEW q \in Requests, req'[q].alive, req'[q].attached
        PROVE  callbacks'[req'[q].ssl] \in {q, Nobody}
    <3>1. CASE q = r
      BY <1>5, <1>7, <1>8, <2>1, <3>1
    <3>2. CASE q # r
      <4>1. req[q].alive /\ req[q].attached /\ req'[q].ssl = req[q].ssl
        BY <1>7, <2>1, <3>2
      <4>2. req[q].ssl # a /\ req[q].ssl \in SslAddresses
        BY <1>3, <3>2, <4>1 DEF AddressesApart, Verified
      <4> QED
        BY <1>8, <4>1, <4>2 DEF OwnOrNone
    <3> QED
      BY <3>1, <3>2
  <2> QED
    BY <2>1 DEF OwnOrNone
<1>14. \A q \in Requests : Verified(req[q])'
  BY <1>6, <1>7 DEF Verified
<1> QED
  BY <1>10, <1>11, <1>12, <1>13, <1>14

LEMMA DeleteKeeps ==
    ASSUME ApiInv, NEW r \in Requests, DeleteCallback(r)
    PROVE  ApiInv'
<1> DEFINE a == req[r].ssl
<1> USE DEF ApiInv
<1>1. req[r] \in RequestType /\ Verified(req[r])
  BY DEF ApiTypes
<1>2. PICK at \in {"destroy", "report"} :
         /\ Upd(r, [req[r] EXCEPT !.at = at])
         /\ at = "destroy" <=> DeletesFirst(r)
         /\ req[r].at = IF DeletesFirst(r) THEN "unwind" ELSE "delete"
  BY DEF DeleteCallback
<1>3. callbacks' = IF req[r].attached THEN [callbacks EXCEPT ![a] = Nobody] ELSE callbacks
  BY DEF DeleteCallback
<1> DEFINE rec == [req[r] EXCEPT !.at = at]
<1>4. rec \in RequestType
  BY <1>1 DEF RequestType, AttachedAt, AliveAt
<1>5. /\ rec.ssl = a /\ rec.alive = req[r].alive /\ rec.attached = req[r].attached
  BY <1>1 DEF RequestType
<1>6. Verified(rec)
  BY <1>1, <1>2 DEF DeletesFirst, RequestType, Verified, AliveAt, EntryAt, AttachedAt, DoneAt
<1>7. req[r].attached => a \in SslAddresses
  BY <1>1 DEF Verified
<1>8. /\ req' \in [Requests -> RequestType] /\ req'[r] = rec
      /\ \A q \in Requests : q # r => req'[q] = req[q]
  BY <1>2, <1>4, UpdEffect
<1> HIDE DEF rec
<1>9. /\ callbacks' \in [SslAddresses -> Requests \cup {Nobody}]
      /\ \A b \in SslAddresses : callbacks'[b] = callbacks[b] \/ callbacks'[b] = Nobody
      /\ req[r].attached => callbacks'[a] = Nobody
  BY <1>3, <1>7 DEF ApiTypes
<1>10. \A b \in SslAddresses : callbacks'[b] # r
  <2>1. ASSUME NEW b \in SslAddresses, callbacks[b] = r PROVE b = a /\ req[r].attached
    BY <2>1, NamesApart DEF EntriesOwn
  <2> QED
    BY <1>9, <2>1, NamesApart
<1>11. ApiTypes'
  BY <1>8, <1>9 DEF ApiTypes
<1>12. AddressesApart'
  BY <1>5, <1>8 DEF AddressesApart
<1>13. EntriesOwn'
  <2>1. ASSUME NEW b \in SslAddresses, callbacks'[b] # Nobody
        PROVE  /\ req'[callbacks'[b]].ssl = b
               /\ req'[callbacks'[b]].attached
               /\ req'[callbacks'[b]].at \in EntryAt
    <3>1. callbacks'[b] = callbacks[b] /\ callbacks[b] \in Requests /\ callbacks[b] # r
      BY <1>9, <1>10, <2>1 DEF ApiTypes
    <3> QED
      BY <1>8, <2>1, <3>1 DEF EntriesOwn
  <2> QED
    BY <2>1 DEF EntriesOwn
<1>14. OwnOrNone'
  <2>1. ASSUME NEW q \in Requests, req'[q].alive, req'[q].attached
        PROVE  callbacks'[req'[q].ssl] \in {q, Nobody}
    <3>1. req[q].alive /\ req[q].attached /\ req'[q].ssl = req[q].ssl
      BY <1>5, <1>8, <2>1
    <3>2. req[q].ssl \in SslAddresses /\ callbacks[req[q].ssl] \in {q, Nobody}
      BY <3>1 DEF Verified, OwnOrNone
    <3> QED
      BY <1>9, <3>1, <3>2
  <2> QED
    BY <2>1 DEF OwnOrNone
<1>15. \A q \in Requests : Verified(req[q])'
  BY <1>6, <1>8 DEF Verified
<1> QED
  BY <1>11, <1>12, <1>13, <1>14, <1>15

-----------------------------------------------------------------------------
LEMMA ApiInitially == ApiInit => ApiInv
<1> SUFFICES ASSUME ApiInit PROVE ApiInv
  OBVIOUS
<1>1. ApiTypes
  BY DEF ApiInit, ApiTypes, RequestType
<1>2. AddressesApart /\ EntriesOwn /\ OwnOrNone
  BY DEF ApiInit, AddressesApart, EntriesOwn, OwnOrNone
<1>3. \A r \in Requests : Verified(req[r])
  BY DEF ApiInit, Verified, AliveAt, AttachedAt, EntryAt, DoneAt
<1> QED
  BY <1>1, <1>2, <1>3 DEF ApiInv

LEMMA ApiStep == ApiInv /\ [ApiNext]_apiVars => ApiInv'
<1> SUFFICES ASSUME ApiInv, [ApiNext]_apiVars PROVE ApiInv'
  OBVIOUS
<1>1. ASSUME NEW r \in Requests,
             Execute(r) \/ AsyncPost(r) \/ Worker(r) \/ ExecuteWithTimeout(r)
      PROVE  ApiInv'
  BY <1>1, StartsKeep, WorkKeeps, AttachKeeps, HandshakeKeeps, DeleteKeeps DEF Worker
<1>2. CASE UNCHANGED apiVars
  BY <1>2 DEF apiVars, ApiInv, ApiTypes, AddressesApart, EntriesOwn, OwnOrNone, Verified
<1> QED
  BY <1>1, <1>2 DEF ApiNext

(* Whatever requests share the table and reuse addresses, a good answer of *)
(* a pinned request was checked against its own pin, and requests that     *)
(* have ended leave nothing in the table.                                  *)
THEOREM CallbacksAreSafe == ApiSpec => []CallbacksSafe
<1>1. ApiInv => CallbacksSafe
  <2> SUFFICES ASSUME ApiInv PROVE CallbacksSafe
    OBVIOUS
  <2>1. AnswerVerified
    BY DEF ApiInv, AnswerVerified, Verified
  <2>2. NoCallbackLeft
    <3>1. SUFFICES ASSUME \A r \in Requests : req[r].at \in {"idle", "gone", "port", "report"},
                          NEW a \in SslAddresses, callbacks[a] # Nobody
                   PROVE  FALSE
      BY DEF NoCallbackLeft
    <3>2. callbacks[a] \in Requests /\ req[callbacks[a]].at \in EntryAt
      BY <3>1 DEF ApiInv, ApiTypes, EntriesOwn
    <3> QED
      BY <3>1, <3>2 DEF EntryAt
  <2> QED
    BY <2>1, <2>2 DEF CallbacksSafe
<1> QED
  BY <1>1, ApiInitially, ApiStep, PTL DEF ApiSpec

-----------------------------------------------------------------------------
(* Waiting for a flight: the inductive invariant                           *)

Waiting == phase \in {"loop", "sleep"}

FlightTypes ==
    /\ Len(flight) \in Nat /\ DOMAIN flight = 1..Len(flight)
    /\ got \in Nat /\ arrived \in Nat /\ got <= arrived /\ arrived <= 2 * Len(flight)
    /\ quiet \in 0..QuietPolls /\ lull \in 0..QuietPolls
    /\ left \in Nat /\ spare \in Nat
    /\ complete \in BOOLEAN
    /\ phase \in {"loop", "sleep", "data", "nothing"}
    /\ wait = "none" \/ (wait \in DOMAIN Flights /\ flight \in Flights[wait])
    /\ phase = "sleep" => left > 0
    /\ Waiting => wait # "none"

(* The buffer was last filled after the last arrival.                      *)
ReadAfterArrival == got = arrived => quiet <= lull

(* The last read of a whole answer sees that it is complete.               *)
SeenComplete == wait # "none" /\ got = 2 * Len(flight) /\ IsAnswer => complete

(* Once the answer has arrived the wait loses one poll before it reads     *)
(* again, and then one for each poll of quiet.                             *)
OnTime ==
    Waiting /\ AllArrived /\ IsAnswer =>
       /\ got < arrived => left + (IF phase = "loop" THEN 1 ELSE 0) >= spare
       /\ got = arrived /\ wait # "client" =>
             /\ left + quiet + 1 >= spare
             /\ phase = "sleep" => quiet < QuietPolls

FlightInv == FlightTypes /\ ReadAfterArrival /\ SeenComplete /\ OnTime /\ FlightOutcome

-----------------------------------------------------------------------------
LEMMA FlightInitially == FlightInit => FlightInv
<1> SUFFICES ASSUME FlightInit PROVE FlightInv
  OBVIOUS
<1>1. Len(flight) = 0 /\ DOMAIN flight = 1..0 /\ ~Waiting /\ wait = "none"
  BY DEF FlightInit, Waiting
<1>2. FlightTypes
  <2>1. Len(flight) \in Nat /\ DOMAIN flight = 1..Len(flight)
    BY <1>1
  <2>2. /\ got \in Nat /\ arrived \in Nat /\ got <= arrived /\ arrived <= 2 * Len(flight)
        /\ quiet \in 0..QuietPolls /\ lull \in 0..QuietPolls
        /\ left \in Nat /\ spare \in Nat
    BY <1>1, QuietPollsAssumption DEF FlightInit
  <2>3. complete \in BOOLEAN /\ phase = "nothing"
    BY DEF FlightInit
  <2> QED
    BY <1>1, <2>1, <2>2, <2>3 DEF FlightTypes
<1> QED
  BY <1>1, <1>2
     DEF FlightInit, FlightInv, ReadAfterArrival, SeenComplete, OnTime,
         FlightOutcome, CutOnlyByALull, InTimeIsReturned

LEMMA StartWaitKeeps ==
    ASSUME FlightInv, NEW w \in DOMAIN Flights, StartWait(w)
    PROVE  FlightInv'
<1>1. /\ wait' = w /\ flight' \in Flights[w] /\ arrived' = 0 /\ got' = 0 /\ complete' = FALSE
      /\ quiet' = 0 /\ lull' = 0 /\ left' = Deadline /\ spare' = Deadline /\ phase' = "loop"
  BY DEF StartWait
<1>2. /\ w # "none" /\ Deadline \in Nat /\ QuietPolls \in Nat
      /\ Len(flight') \in Nat /\ DOMAIN flight' = 1..Len(flight')
  BY <1>1, FlightsAssumption, QuietPollsAssumption
<1>3. FlightTypes'
  <2>1. 0 <= 2 * Len(flight') /\ 0 \in 0..QuietPolls
    BY <1>2
  <2>2. /\ got' \in Nat /\ arrived' \in Nat /\ got' <= arrived' /\ arrived' <= 2 * Len(flight')
        /\ quiet' \in 0..QuietPolls /\ lull' \in 0..QuietPolls
        /\ left' \in Nat /\ spare' \in Nat
    BY <1>1, <1>2, <2>1
  <2>3. complete' \in BOOLEAN /\ phase' = "loop"
    BY <1>1
  <2> QED
    BY <1>1, <1>2, <2>2, <2>3 DEF FlightTypes, Waiting
<1>4. 0 = 2 * Len(flight') => ~IsAnswer'
  BY <1>2 DEF IsAnswer
<1> QED
  BY <1>1, <1>2, <1>3, <1>4
     DEF FlightInv, ReadAfterArrival, SeenComplete, OnTime, AllArrived,
         FlightOutcome, CutOnlyByALull, InTimeIsReturned

LEMMA ArriveKeeps ==
    ASSUME FlightInv, Arrive
    PROVE  FlightInv'
<1> USE DEF FlightInv
<1>1. PICK k \in 1..(2 * Len(flight) - arrived) : arrived' = arrived + k
  BY DEF Arrive
<1>2. /\ Waiting /\ lull' = 0 /\ spare' = left
      /\ UNCHANGED <<wait, flight, got, complete, quiet, left, phase>>
  BY DEF Arrive, Waiting
<1>3. IsAnswer' = IsAnswer /\ QuietPolls \in Nat
  BY <1>2, QuietPollsAssumption DEF IsAnswer
<1>4. FlightTypes'
  BY <1>1, <1>2, <1>3 DEF FlightTypes, Waiting
<1> QED
  BY <1>1, <1>2, <1>3, <1>4
     DEF FlightTypes, Waiting, ReadAfterArrival, SeenComplete, OnTime, AllArrived,
         FlightOutcome, CutOnlyByALull, InTimeIsReturned

LEMMA PollKeeps ==
    ASSUME FlightInv, PollInterval
    PROVE  FlightInv'
<1> USE DEF FlightInv
<1>1. /\ phase = "sleep" /\ phase' = "loop" /\ left' = left - 1
      /\ quiet' = IF quiet < QuietPolls THEN quiet + 1 ELSE quiet
      /\ lull' = IF lull < QuietPolls THEN lull + 1 ELSE lull
      /\ UNCHANGED <<wait, flight, arrived, got, complete, spare>>
  BY DEF PollInterval
<1>2. IsAnswer' = IsAnswer /\ AllArrived' = AllArrived /\ QuietPolls \in Nat
  BY <1>1, QuietPollsAssumption DEF IsAnswer, AllArrived
<1>3. FlightTypes'
  BY <1>1, <1>2 DEF FlightTypes, Waiting
<1>4. ReadAfterArrival' /\ SeenComplete'
  BY <1>1, <1>2 DEF FlightTypes, ReadAfterArrival, SeenComplete
<1>5. OnTime'
  BY <1>1, <1>2 DEF FlightTypes, Waiting, OnTime
<1>6. FlightOutcome'
  BY <1>1 DEF FlightOutcome, CutOnlyByALull, InTimeIsReturned
<1> QED
  BY <1>3, <1>4, <1>5, <1>6

(* What the last read sees.                                                *)
LEMMA HalvesOfWhole == \A n \in Nat : (2 * n) \div 2 = n /\ (2 * n) % 2 = 0
OBVIOUS

LEMMA WholeIsComplete ==
    ASSUME FlightTypes, IsAnswer, wait # "none"
    PROVE  /\ wait # "client" => IsServerHelloComplete(2 * Len(flight))
           /\ wait = "client" => IsClientHelloComplete(2 * Len(flight))
<1> DEFINE n == Len(flight)
<1>1. n \in Nat /\ DOMAIN flight = 1..n /\ flight \in Flights[wait] /\ wait \in DOMAIN Flights
  BY SMTT(30) DEF FlightTypes
<1>2. (2 * n) \div 2 = n /\ (2 * n) % 2 = 0
  BY Zenon, <1>1, HalvesOfWhole
<1>3. \/ wait = "client" /\ \E i \in DOMAIN flight : flight[i] = "clientHello"
      \/ wait # "client" /\ \E i \in DOMAIN flight :
            \/ flight[i] = "hello12" /\ \E j \in i..n : flight[j] = "done"
            \/ flight[i] = "hello13" /\ flight[n] = "app"
  BY <1>1, FlightsAssumption DEF IsAnswer
<1> QED
  BY <1>1, <1>2, <1>3
     DEF IsServerHelloComplete, IsClientHelloComplete, IsTls13ServerHello, Whole

(* A read of the loop, whatever tells it that the flight may be complete.  *)
LEMMA ReadKeeps ==
    ASSUME FlightInv, phase = "loop", NEW k \in 1..(arrived - got), got' = got + k,
           quiet' = 0, complete' \in BOOLEAN, complete => complete',
           got + k = 2 * Len(flight) /\ IsAnswer => complete',
           UNCHANGED <<wait, flight, arrived, left, phase, lull, spare>>
    PROVE  FlightInv'
<1> USE DEF FlightInv
<1>1. IsAnswer' = IsAnswer /\ AllArrived' = AllArrived /\ QuietPolls \in Nat
  BY QuietPollsAssumption DEF IsAnswer, AllArrived
<1>2. FlightTypes'
  BY <1>1 DEF FlightTypes, Waiting
<1>3. ReadAfterArrival' /\ SeenComplete'
  BY <1>1 DEF FlightTypes, ReadAfterArrival, SeenComplete
<1>4. OnTime'
  BY <1>1 DEF FlightTypes, Waiting, OnTime
<1>5. FlightOutcome'
  BY DEF FlightOutcome, CutOnlyByALull, InTimeIsReturned
<1> QED
  BY <1>2, <1>3, <1>4, <1>5

(* Leaving the loop, to sleep or to return.                                *)
LEMMA ReturnKeeps ==
    ASSUME FlightInv, phase = "loop", NEW p \in {"sleep", "data", "nothing"}, ReturnWith(p),
           p = "sleep" => /\ left > 0 /\ got = arrived
                          /\ wait # "client" /\ complete => quiet < QuietPolls,
           p = "data" /\ wait # "client" => got = arrived /\ quiet >= QuietPolls,
           p = "nothing" => left = 0 /\ (wait = "client" => ~complete)
    PROVE  FlightInv'
<1> USE DEF FlightInv
<1>1. phase' = p /\ UNCHANGED <<wait, flight, arrived, got, complete, quiet, left, lull, spare>>
  BY DEF ReturnWith
<1>2. IsAnswer' = IsAnswer /\ AllArrived' = AllArrived /\ QuietPolls \in Nat
  BY <1>1, QuietPollsAssumption DEF IsAnswer, AllArrived
<1>3. FlightTypes'
  BY <1>1, <1>2 DEF FlightTypes, Waiting
<1>4. ReadAfterArrival' /\ SeenComplete'
  BY <1>1, <1>2 DEF ReadAfterArrival, SeenComplete
<1>5. OnTime'
  BY <1>1, <1>2 DEF FlightTypes, Waiting, OnTime, SeenComplete, AllArrived
<1>6. CutOnlyByALull'
  BY <1>1, <1>2 DEF FlightTypes, CutOnlyByALull, ReadAfterArrival
<1>7. InTimeIsReturned'
  <2>1. SUFFICES ASSUME p = "nothing", AllArrived, IsAnswer
                 PROVE  spare < QuietPolls + 2
    BY <1>1, <1>2 DEF InTimeIsReturned
  <2>2. left = 0 /\ Waiting /\ wait # "none"
    BY <2>1 DEF Waiting, FlightTypes
  <2>3. CASE got < arrived
    BY <1>2, <2>1, <2>2, <2>3 DEF OnTime, FlightTypes
  <2>4. CASE got = arrived
    <3>1. wait # "client"
      BY <2>1, <2>2, <2>4 DEF SeenComplete, AllArrived
    <3> QED
      BY <1>2, <2>1, <2>2, <2>4, <3>1 DEF OnTime, FlightTypes
  <2> QED
    BY <2>3, <2>4 DEF FlightTypes
<1> QED
  BY <1>3, <1>4, <1>5, <1>6, <1>7 DEF FlightOutcome

LEMMA ServerLoopKeeps ==
    ASSUME FlightInv, wait # "client", ServerHelloLoop
    PROVE  FlightInv'
<1>1. FlightTypes /\ phase = "loop" /\ wait # "none"
  BY DEF FlightInv, FlightTypes, Waiting, ServerHelloLoop
<1>2. \/ left = 0 /\ ReturnWith("nothing")
      \/ arrived > got /\ ReadSome(IsServerHelloComplete)
      \/ left > 0 /\ arrived = got /\ complete /\ quiet >= QuietPolls /\ ReturnWith("data")
      \/ left > 0 /\ arrived = got /\ ~(complete /\ quiet >= QuietPolls) /\ ReturnWith("sleep")
  BY <1>1 DEF ServerHelloLoop, FlightTypes
<1>3. CASE left = 0 /\ ReturnWith("nothing")
  BY <1>1, <1>3, ReturnKeeps
<1>4. CASE arrived > got /\ ReadSome(IsServerHelloComplete)
  <2>1. PICK k \in 1..(arrived - got) :
           /\ got' = got + k
           /\ complete' = (complete \/ IsServerHelloComplete(got + k))
    BY <1>4 DEF ReadSome
  <2>2. quiet' = 0 /\ UNCHANGED <<wait, flight, arrived, left, phase, lull, spare>>
    BY <1>4 DEF ReadSome
  <2>3. got + k = 2 * Len(flight) /\ IsAnswer => complete'
    BY <1>1, <2>1, WholeIsComplete
  <2>4. complete' \in BOOLEAN /\ (complete => complete')
    BY <2>1
  <2> QED
    BY <1>1, <2>1, <2>2, <2>3, <2>4, ReadKeeps
<1>5. CASE left > 0 /\ arrived = got /\ complete /\ quiet >= QuietPolls /\ ReturnWith("data")
  BY <1>1, <1>5, ReturnKeeps
<1>6. CASE /\ left > 0 /\ arrived = got /\ ~(complete /\ quiet >= QuietPolls)
           /\ ReturnWith("sleep")
  <2>1. complete => quiet < QuietPolls
    BY <1>1, <1>6, QuietPollsAssumption DEF FlightTypes
  <2> QED
    BY <1>1, <1>6, <2>1, ReturnKeeps
<1> QED
  BY <1>2, <1>3, <1>4, <1>5, <1>6

LEMMA ClientLoopKeeps ==
    ASSUME FlightInv, WaitForClientTlsHelloAsync
    PROVE  FlightInv'
<1>1. FlightTypes /\ phase = "loop" /\ wait = "client"
  BY DEF FlightInv, WaitForClientTlsHelloAsync
<1>2. \/ complete /\ ReturnWith("data")
      \/ ~complete /\ left = 0 /\ ReturnWith("nothing")
      \/ ~complete /\ arrived > got /\ ReadSome(IsClientHelloComplete)
      \/ ~complete /\ left > 0 /\ arrived = got /\ ReturnWith("sleep")
  BY <1>1 DEF WaitForClientTlsHelloAsync, FlightTypes
<1>3. CASE complete /\ ReturnWith("data")
  BY <1>1, <1>3, ReturnKeeps
<1>4. CASE ~complete /\ left = 0 /\ ReturnWith("nothing")
  BY <1>1, <1>4, ReturnKeeps
<1>5. CASE ~complete /\ arrived > got /\ ReadSome(IsClientHelloComplete)
  <2>1. PICK k \in 1..(arrived - got) :
           /\ got' = got + k
           /\ complete' = (complete \/ IsClientHelloComplete(got + k))
    BY <1>5 DEF ReadSome
  <2>2. quiet' = 0 /\ UNCHANGED <<wait, flight, arrived, left, phase, lull, spare>>
    BY <1>5 DEF ReadSome
  <2>3. got + k = 2 * Len(flight) /\ IsAnswer => complete'
    BY <1>1, <2>1, WholeIsComplete
  <2>4. complete' \in BOOLEAN /\ (complete => complete')
    BY <2>1
  <2> QED
    BY <1>1, <2>1, <2>2, <2>3, <2>4, ReadKeeps
<1>6. CASE ~complete /\ left > 0 /\ arrived = got /\ ReturnWith("sleep")
  BY <1>1, <1>6, ReturnKeeps
<1> QED
  BY <1>2, <1>3, <1>4, <1>5, <1>6

(* A wait returns the whole flight unless the network paused for the quiet *)
(* period, and never gives up on an answer that came in time, for every    *)
(* flight, deadline and quiet period.                                      *)
THEOREM FlightsAreRead == FlightSpec => []FlightOutcome
<1>1. ASSUME FlightInv, [FlightNext]_flightVars PROVE FlightInv'
  <2>1. CASE \E w \in DOMAIN Flights : StartWait(w)
    BY <1>1, <2>1, StartWaitKeeps
  <2>2. CASE WaitForServerTlsHello \/ WaitForServerTlsHelloAsync
    BY <1>1, <2>2, ServerLoopKeeps DEF WaitForServerTlsHello, WaitForServerTlsHelloAsync
  <2>3. CASE UNCHANGED flightVars
    BY <1>1, <2>3
       DEF flightVars, FlightInv, FlightTypes, Waiting, ReadAfterArrival, SeenComplete, OnTime,
           AllArrived, IsAnswer, FlightOutcome, CutOnlyByALull, InTimeIsReturned
  <2> QED
    BY <1>1, <2>1, <2>2, <2>3, ArriveKeeps, PollKeeps, ClientLoopKeeps DEF FlightNext
<1>2. FlightInv => FlightOutcome
  BY DEF FlightInv
<1> QED
  BY <1>1, <1>2, FlightInitially, PTL DEF FlightSpec

-----------------------------------------------------------------------------
(* The obfuscated stream: the inductive invariant                          *)

Units == Nat \X {"foreign", "head", "header", "payload", "padding"}

(* s may be read as m units in front and then records n + 1, n + 2, ...    *)
Reads(s, m, n) ==
    \A p \in 1..Len(s) :
       /\ p <= m => s[p][2] # "head"
       /\ \A r \in Nat : p = m + 4 * r + 1 => s[p][1] = n + 1 + r /\ s[p][2] = "head"

(* The bytes between the writer and the reader: m foreign units, and the   *)
(* records written but not yet returned.                                   *)
Layout(s, m, n, w) == Len(s) = m + 4 * (w - n) /\ Reads(s, m, n)

FrameTypes ==
    /\ version \in {1, 2} /\ written \in Nat
    /\ wire \in Seq(Units) /\ input \in Seq(Units) /\ out \in Seq(Nat)
    /\ reader \in {"idle", "net"}
    /\ lost = FALSE

(* Nothing is missing between the two ends, and foreign units come first.  *)
NothingMissing ==
    \E m \in 0..Len(input \o wire) :
       /\ version = 1 => m = 0
       /\ Len(out) <= written
       /\ Layout(input \o wire, m, Len(out), written)

(* Before the socket is read the buffer holds less than a record.          *)
LittleLeft == reader = "net" => Len(input) < RecordSize

FrameInv == FrameTypes /\ NothingMissing /\ LittleLeft /\ InOrder

-----------------------------------------------------------------------------
(* Cutting a sequence, and taking four elements out of it.                 *)

LEMMA CutRest ==
    ASSUME NEW b \in Seq(Units), NEW x \in 0..Len(b)
    PROVE  /\ Rest(b, x + 1) \in Seq(Units) /\ Len(Rest(b, x + 1)) = Len(b) - x
           /\ \A p \in 1..(Len(b) - x) : Rest(b, x + 1)[p] = b[p + x]
<1>1. Len(b) \in Nat /\ x + 1 \in Int /\ Len(b) \in Int /\ x \in Nat
  BY LenProperties
<1>2. \A i \in (x + 1)..Len(b) : b[i] \in Units
  BY <1>1, LenProperties
<1>3. /\ SubSeq(b, x + 1, Len(b)) \in Seq(Units)
      /\ Len(SubSeq(b, x + 1, Len(b))) = IF x + 1 <= Len(b) THEN Len(b) - (x + 1) + 1 ELSE 0
      /\ \A i \in 1..(Len(b) - (x + 1) + 1) : SubSeq(b, x + 1, Len(b))[i] = b[(x + 1) + i - 1]
  BY <1>1, <1>2, SubSeqProperties
<1>4. Len(b) - (x + 1) + 1 = Len(b) - x /\ x <= Len(b)
  BY <1>1
<1>5. Len(SubSeq(b, x + 1, Len(b))) = Len(b) - x
  <2>1. x < Len(b) \/ x = Len(b)
    <3>1. x \in Nat /\ Len(b) \in Nat /\ x <= Len(b)
      BY <1>1, <1>4
    <3>2. \A i, j \in Nat : i <= j => i < j \/ i = j
      OBVIOUS
    <3> QED
      BY <3>1, <3>2
  <2>2. CASE x < Len(b)
    <3>1. x + 1 <= Len(b)
      BY <1>1, <2>2
    <3> QED
      BY <1>3, <1>4, <3>1
  <2>3. CASE x = Len(b)
    <3>1. ~(x + 1 <= Len(b)) /\ Len(b) - x = 0
      BY <1>1, <2>3
    <3> QED
      BY <1>3, <3>1
  <2> QED
    BY <2>1, <2>2, <2>3
<1>6. ASSUME NEW p \in 1..(Len(b) - x) PROVE SubSeq(b, x + 1, Len(b))[p] = b[p + x]
  <2>1. (x + 1) + p - 1 = p + x /\ p \in 1..(Len(b) - (x + 1) + 1)
    BY <1>1, <1>4
  <2> QED
    BY <1>3, <2>1
<1> QED
  BY <1>3, <1>5, <1>6 DEF Rest

LEMMA CutStart ==
    ASSUME NEW b \in Seq(Units), NEW x \in 0..Len(b)
    PROVE  /\ SubSeq(b, 1, x) \in Seq(Units) /\ Len(SubSeq(b, 1, x)) = x
           /\ \A p \in 1..x : SubSeq(b, 1, x)[p] = b[p]
<1>1. Len(b) \in Nat /\ x \in Nat /\ 1 \in Int /\ x \in Int /\ x <= Len(b)
  BY LenProperties
<1>2. \A i \in 1..x : b[i] \in Units
  BY <1>1, LenProperties
<1>3. /\ SubSeq(b, 1, x) \in Seq(Units)
      /\ Len(SubSeq(b, 1, x)) = IF 1 <= x THEN x - 1 + 1 ELSE 0
      /\ \A i \in 1..(x - 1 + 1) : SubSeq(b, 1, x)[i] = b[1 + i - 1]
  BY <1>1, <1>2, SubSeqProperties
<1>4. x - 1 + 1 = x /\ \A i \in 1..x : 1 + i - 1 = i
  BY <1>1
<1> QED
  BY <1>1, <1>3, <1>4

(* What follows the buffer stays behind it when the buffer is cut.         *)
LEMMA CutJoined ==
    ASSUME NEW b \in Seq(Units), NEW t \in Seq(Units), NEW x \in 0..Len(b)
    PROVE  LET s == Rest(b, x + 1) \o t
           IN  /\ s \in Seq(Units) /\ Len(s) = Len(b \o t) - x
               /\ \A p \in 1..Len(s) : s[p] = (b \o t)[p + x]
<1> DEFINE u == Rest(b, x + 1)
<1>1. /\ u \in Seq(Units) /\ Len(u) = Len(b) - x
      /\ \A p \in 1..(Len(b) - x) : u[p] = b[p + x]
  BY CutRest
<1>2. Len(b) \in Nat /\ Len(t) \in Nat /\ x \in Nat /\ x <= Len(b)
  BY LenProperties
<1> HIDE DEF u
<1>3. /\ u \o t \in Seq(Units) /\ Len(u \o t) = Len(u) + Len(t)
      /\ \A p \in 1..Len(u) + Len(t) :
            (u \o t)[p] = IF p <= Len(u) THEN u[p] ELSE t[p - Len(u)]
  BY <1>1, ConcatProperties
<1>4. /\ Len(b \o t) = Len(b) + Len(t)
      /\ \A p \in 1..Len(b) + Len(t) :
            (b \o t)[p] = IF p <= Len(b) THEN b[p] ELSE t[p - Len(b)]
  BY ConcatProperties
<1>5. ASSUME NEW p \in 1..Len(u \o t) PROVE (u \o t)[p] = (b \o t)[p + x]
  <2>1. p \in 1..Len(u) + Len(t) /\ p + x \in 1..Len(b) + Len(t)
    BY <1>1, <1>2, <1>3
  <2>2. CASE p <= Len(u)
    BY <1>1, <1>2, <1>3, <1>4, <2>1, <2>2
  <2>3. CASE p > Len(u)
    <3>1. (u \o t)[p] = t[p - Len(u)] /\ p - Len(u) = (p + x) - Len(b)
      BY <1>1, <1>2, <1>3, <2>1, <2>3
    <3>2. (b \o t)[p + x] = t[(p + x) - Len(b)]
      BY <1>1, <1>2, <1>4, <2>1, <2>3
    <3> QED
      BY <3>1, <3>2
  <2> QED
    BY <1>1, <1>2, <2>1, <2>2, <2>3
<1>6. Len(u \o t) = Len(b \o t) - x
  BY <1>1, <1>2, <1>3, <1>4
<1>7. u \o t \in Seq(Units)
  BY <1>3
<1> QED
  BY <1>5, <1>6, <1>7 DEF u

(* A record is taken out of the buffer.                                    *)
LEMMA TakeJoined ==
    ASSUME NEW b \in Seq(Units), NEW t \in Seq(Units), NEW m \in Nat, m + 4 <= Len(b)
    PROVE  LET s == (SubSeq(b, 1, m) \o Rest(b, m + 5)) \o t
           IN  /\ SubSeq(b, 1, m) \o Rest(b, m + 5) \in Seq(Units)
               /\ s \in Seq(Units) /\ Len(s) = Len(b \o t) - 4
               /\ \A p \in 1..Len(s) :
                     s[p] = IF p <= m THEN (b \o t)[p] ELSE (b \o t)[p + 4]
<1> DEFINE u == SubSeq(b, 1, m)
           v == Rest(b, m + 5)
<1>1. Len(b) \in Nat /\ Len(t) \in Nat /\ m \in 0..Len(b) /\ m + 4 \in 0..Len(b)
      /\ (m + 4) + 1 = m + 5
  BY LenProperties
<1>2. u \in Seq(Units) /\ Len(u) = m /\ \A p \in 1..m : u[p] = b[p]
  BY <1>1, CutStart
<1>3. v = Rest(b, (m + 4) + 1)
  BY <1>1
<1>4. v \in Seq(Units) /\ Len(v) = Len(b) - (m + 4)
  <2>1. /\ Rest(b, (m + 4) + 1) \in Seq(Units)
        /\ Len(Rest(b, (m + 4) + 1)) = Len(b) - (m + 4)
    BY <1>1, CutRest
  <2> QED
    BY <1>3, <2>1
<1>5. /\ v \o t \in Seq(Units) /\ Len(v \o t) = Len(b \o t) - (m + 4)
      /\ \A p \in 1..Len(v \o t) : (v \o t)[p] = (b \o t)[p + (m + 4)]
  <2>1. LET s == Rest(b, (m + 4) + 1) \o t
        IN  /\ s \in Seq(Units) /\ Len(s) = Len(b \o t) - (m + 4)
            /\ \A p \in 1..Len(s) : s[p] = (b \o t)[p + (m + 4)]
    BY <1>1, CutJoined
  <2> QED
    BY <1>3, <2>1
<1> HIDE DEF u, v
<1>6. u \in Seq(Units) /\ v \in Seq(Units) /\ v \o t \in Seq(Units)
  BY <1>2, <1>4, <1>5
<1>7. u \o v \in Seq(Units)
  BY <1>6, ConcatProperties
<1>8. (u \o v) \o t = u \o (v \o t)
  BY SMTT(30), <1>6, ConcatAssociative
<1>9. /\ u \o (v \o t) \in Seq(Units) /\ Len(u \o (v \o t)) = Len(u) + Len(v \o t)
      /\ \A p \in 1..Len(u) + Len(v \o t) :
            (u \o (v \o t))[p] = IF p <= Len(u) THEN u[p] ELSE (v \o t)[p - Len(u)]
  BY <1>6, ConcatProperties
<1>10. /\ Len(b \o t) = Len(b) + Len(t)
       /\ \A p \in 1..Len(b) + Len(t) :
             (b \o t)[p] = IF p <= Len(b) THEN b[p] ELSE t[p - Len(b)]
  BY ConcatProperties
<1>11. Len(v \o t) \in Nat /\ Len(u \o (v \o t)) = Len(b \o t) - 4
  BY <1>1, <1>2, <1>5, <1>6, <1>9, <1>10, LenProperties
<1>12. ASSUME NEW p \in 1..Len(u \o (v \o t))
       PROVE  (u \o (v \o t))[p] = IF p <= m THEN (b \o t)[p] ELSE (b \o t)[p + 4]
  <2>1. p \in 1..Len(u) + Len(v \o t) /\ Len(u) = m /\ p \in Nat
    BY <1>1, <1>2, <1>9, <1>11
  <2>2. CASE p <= m
    <3>1. (u \o (v \o t))[p] = u[p]
      BY <1>9, <2>1, <2>2
    <3>2. u[p] = b[p] /\ (b \o t)[p] = b[p]
      BY <1>1, <1>2, <1>10, <2>1, <2>2
    <3> QED
      BY <2>2, <3>1, <3>2
  <2>3. CASE ~(p <= m)
    <3>1. p - m \in 1..Len(v \o t) /\ (p - m) + (m + 4) = p + 4
      BY <1>1, <1>11, <2>1, <2>3
    <3>2. (u \o (v \o t))[p] = (v \o t)[p - m]
      BY <1>1, <1>9, <2>1, <2>3
    <3>3. (v \o t)[p - m] = (b \o t)[p + 4]
      BY <1>5, <3>1
    <3> QED
      BY <2>3, <3>2, <3>3
  <2> QED
    BY <2>2, <2>3
<1>13. u \o (v \o t) \in Seq(Units)
  BY <1>9
<1> QED
  BY <1>7, <1>8, <1>11, <1>12, <1>13 DEF u, v

-----------------------------------------------------------------------------
(* Deobfuscate on the beginning of the stream: it drops foreign units, or  *)
(* returns the next record and leaves all others.                          *)
LEMMA DeobfuscateEffect ==
    ASSUME NEW b \in Seq(Units), NEW m \in Nat, NEW n \in Nat, version \in {1, 2},
           version = 1 => m = 0, Reads(b, m, n)
    PROVE  LET d == Deobfuscate(b)
           IN  \/ /\ d.out = << >>
                  /\ \E x \in 0..m : x <= Len(b) /\ d.rest = Rest(b, x + 1)
                                     /\ Len(b) - x < RecordSize
               \/ /\ d.out = << n + 1 >> /\ m + 4 <= Len(b)
                  /\ d.rest = SubSeq(b, 1, m) \o Rest(b, m + 5)
<1> DEFINE d == Deobfuscate(b)
<1>1. Len(b) \in Nat
  BY LenProperties
<1>2. \A k \in 1..Len(b) : k <= m => ~IsHeader(b, k)
  BY <1>1 DEF Reads, IsHeader
<1>3. m + 2 <= Len(b) => IsHeader(b, m + 1)
  <2>1. SUFFICES ASSUME m + 2 <= Len(b) PROVE b[m + 1][2] = "head"
    BY <1>1 DEF IsHeader, HeaderSize
  <2>2. m + 1 \in 1..Len(b) /\ m + 1 = m + 4 * 0 + 1 /\ 0 \in Nat
    BY <1>1, <2>1
  <2> QED
    BY <2>2 DEF Reads
<1>4. m + 1 <= Len(b) => b[m + 1][1] = n + 1
  <2>1. SUFFICES ASSUME m + 1 <= Len(b) PROVE b[m + 1][1] = n + 1
    OBVIOUS
  <2>2. m + 1 \in 1..Len(b) /\ m + 1 = m + 4 * 0 + 1 /\ 0 \in Nat /\ n + 1 + 0 = n + 1
    BY <1>1, <2>1
  <2> QED
    BY <2>2 DEF Reads
<1>5. Rest(b, 1) = b
  <2>1. /\ 0 \in 0..Len(b) /\ 0 + 1 = 1
    BY <1>1
  <2>2. /\ Rest(b, 1) \in Seq(Units) /\ Len(Rest(b, 1)) = Len(b) - 0
        /\ \A p \in 1..(Len(b) - 0) : Rest(b, 1)[p] = b[p + 0]
    BY <2>1, CutRest
  <2>3. Len(Rest(b, 1)) = Len(b) /\ \A p \in 1..Len(Rest(b, 1)) : Rest(b, 1)[p] = b[p]
    BY <1>1, <2>2
  <2> QED
    BY <2>2, <2>3, SeqEqual
<1>6. ASSUME NEW x \in 0..m, x <= Len(b), Len(b) - x < RecordSize, d = Nothing(Rest(b, x + 1))
      PROVE  /\ d.out = << >>
             /\ \E y \in 0..m : y <= Len(b) /\ d.rest = Rest(b, y + 1)
                                /\ Len(b) - y < RecordSize
  BY <1>6 DEF Nothing
<1>7. ASSUME m + 4 <= Len(b), d = TakeRecord(b, m + 1)
      PROVE  /\ d.out = << n + 1 >>
             /\ d.rest = SubSeq(b, 1, m) \o Rest(b, m + 5)
  <2>1. (m + 1) - 1 = m /\ (m + 1) + 4 = m + 5
    OBVIOUS
  <2> QED
    BY <1>1, <1>4, <1>7, <2>1 DEF TakeRecord, RecordSize
<1>8. CASE Len(b) < HeaderSize
  <2>1. d = Nothing(Rest(b, 0 + 1)) /\ Len(b) - 0 < RecordSize
    BY <1>1, <1>5, <1>8 DEF Deobfuscate, Deobfuscate1, Deobfuscate2, HeaderSize, RecordSize
  <2>2. 0 \in 0..m /\ 0 <= Len(b)
    BY <1>1
  <2> QED
    BY <1>6, <2>1, <2>2
<1>9. CASE Len(b) >= HeaderSize /\ version = 1
  <2>1. IsHeader(b, 1) /\ m = 0
    BY <1>1, <1>3, <1>9 DEF HeaderSize
  <2>2. CASE IsWhole(b, 1)
    <3>1. m + 4 <= Len(b) /\ d = TakeRecord(b, m + 1)
      BY <1>1, <1>9, <2>1, <2>2
         DEF Deobfuscate, Deobfuscate1, IsWhole, HeaderSize, RecordSize
    <3> QED
      BY <1>7, <3>1
  <2>3. CASE ~IsWhole(b, 1)
    <3>1. d = Nothing(Rest(b, 0 + 1)) /\ Len(b) - 0 < RecordSize
      BY <1>1, <1>5, <1>9, <2>1, <2>3
         DEF Deobfuscate, Deobfuscate1, IsWhole, HeaderSize, RecordSize
    <3>2. 0 \in 0..m /\ 0 <= Len(b)
      BY <1>1
    <3> QED
      BY <1>6, <3>1, <3>2
  <2> QED
    BY <2>2, <2>3
<1>10. CASE Len(b) >= HeaderSize /\ version = 2
  <2> DEFINE offsets == {k \in 1..Len(b) : IsHeader(b, k)}
             first == CHOOSE k \in offsets : \A j \in offsets : k <= j
  <2>1. CASE offsets = {}
    <3>1. Len(b) - 1 <= m
      BY <1>1, <1>3, <2>1
    <3>2. d = Nothing(Rest(b, Len(b) - 2 + 2))
      BY <1>1, <1>10, <2>1 DEF Deobfuscate, Deobfuscate2, HeaderSize
    <3>3. Len(b) - 2 + 2 = (Len(b) - 1) + 1 /\ Len(b) - 1 \in 0..m
      BY <1>1, <1>10, <3>1 DEF HeaderSize
    <3>4. Len(b) - 1 <= Len(b) /\ Len(b) - (Len(b) - 1) < RecordSize
      BY <1>1 DEF RecordSize
    <3> QED
      BY <1>6, <3>2, <3>3, <3>4
  <2>2. CASE offsets # {}
    <3>1. PICK k \in offsets : TRUE
      BY <2>2
    <3>2. k > m /\ k + 1 <= Len(b)
      BY <1>1, <1>2, <3>1 DEF IsHeader, HeaderSize
    <3>3. m + 1 \in offsets
      BY <1>1, <1>3, <3>1, <3>2
    <3>4. \A j \in offsets : m + 1 <= j
      BY <1>1, <1>2
    <3>5. first = m + 1
      <4>1. first \in offsets /\ \A j \in offsets : first <= j
        BY <3>3, <3>4
      <4>2. first <= m + 1 /\ m + 1 <= first /\ first \in Int
        BY <1>1, <3>3, <3>4, <4>1
      <4> QED
        BY <4>2
    <3>6. d = IF IsWhole(b, first) THEN TakeRecord(b, first) ELSE Nothing(Rest(b, first))
      <4>1. d = Deobfuscate2(b)
        BY <1>10 DEF Deobfuscate
      <4>2. ~(Len(b) < HeaderSize)
        BY <1>1, <1>10 DEF HeaderSize
      <4> QED
        BY <2>2, <4>1, <4>2 DEF Deobfuscate2
    <3> HIDE DEF offsets, first
    <3>7. CASE IsWhole(b, m + 1)
      <4>1. m + 4 <= Len(b)
        BY <1>1, <3>7 DEF IsWhole, RecordSize
      <4> QED
        BY <1>7, <3>5, <3>6, <3>7, <4>1
    <3>8. CASE ~IsWhole(b, m + 1)
      <4>1. m \in 0..m /\ m <= Len(b) /\ Len(b) - m < RecordSize
        BY <1>1, <3>2, <3>1, <3>8 DEF IsWhole, RecordSize, offsets
      <4> QED
        BY <1>6, <3>5, <3>6, <3>8, <4>1
    <3> QED
      BY <3>7, <3>8
  <2> QED
    BY <2>1, <2>2
<1> QED
  BY SMTT(30), <1>1, <1>8, <1>9, <1>10 DEF HeaderSize


(* The layout after Deobfuscate, whichever it did.                         *)
LEMMA DropKeepsLayout ==
    ASSUME NEW s \in Seq(Units), NEW u \in Seq(Units), NEW m \in Nat, NEW n \in Nat,
           NEW w \in Nat, n <= w, Layout(s, m, n, w), NEW x \in 0..m,
           Len(u) = Len(s) - x, \A p \in 1..Len(u) : u[p] = s[p + x]
    PROVE  Layout(u, m - x, n, w)
<1>1. Len(s) \in Nat /\ Len(u) \in Nat
  BY LenProperties
<1>2. ASSUME NEW p \in 1..Len(u)
      PROVE  /\ p <= m - x => u[p][2] # "head"
             /\ \A r \in Nat : p = (m - x) + 4 * r + 1
                                 => u[p][1] = n + 1 + r /\ u[p][2] = "head"
  <2>1. p + x \in 1..Len(s) /\ u[p] = s[p + x]
    BY <1>1
  <2>2. p <= m - x => p + x <= m
    BY <1>1
  <2>3. \A r \in Nat : p = (m - x) + 4 * r + 1 => p + x = m + 4 * r + 1
    BY <1>1
  <2> QED
    BY ZenonT(30), <2>1, <2>2, <2>3 DEF Layout, Reads
<1> QED
  BY <1>1, <1>2 DEF Layout, Reads

LEMMA TakeKeepsLayout ==
    ASSUME NEW s \in Seq(Units), NEW u \in Seq(Units), NEW m \in Nat, NEW n \in Nat,
           NEW w \in Nat, n <= w, Layout(s, m, n, w), m + 4 <= Len(s),
           Len(u) = Len(s) - 4,
           \A p \in 1..Len(u) : u[p] = IF p <= m THEN s[p] ELSE s[p + 4]
    PROVE  n + 1 <= w /\ Layout(u, m, n + 1, w)
<1>1. Len(s) \in Nat /\ Len(u) \in Nat
  BY LenProperties
<1>2. n + 1 <= w /\ Len(u) = m + 4 * (w - (n + 1))
  BY <1>1 DEF Layout
<1>3. ASSUME NEW p \in 1..Len(u)
      PROVE  /\ p <= m => u[p][2] # "head"
             /\ \A r \in Nat : p = m + 4 * r + 1
                                 => u[p][1] = (n + 1) + 1 + r /\ u[p][2] = "head"
  <2>1. CASE p <= m
    <3>1. p \in 1..Len(s) /\ u[p] = s[p] /\ \A r \in Nat : p # m + 4 * r + 1
      BY <1>1, <2>1
    <3> QED
      BY <2>1, <3>1 DEF Layout, Reads
  <2>2. CASE ~(p <= m)
    <3>1. p + 4 \in 1..Len(s) /\ u[p] = s[p + 4]
      BY <1>1, <2>2
    <3>2. ASSUME NEW r \in Nat, p = m + 4 * r + 1
          PROVE  u[p][1] = (n + 1) + 1 + r /\ u[p][2] = "head"
      <4>1. r + 1 \in Nat /\ p + 4 = m + 4 * (r + 1) + 1
        BY SMTT(30), <1>1, <3>2
      <4>2. s[p + 4][1] = n + 1 + (r + 1) /\ s[p + 4][2] = "head"
        BY <3>1, <4>1 DEF Layout, Reads
      <4>3. n + 1 + (r + 1) = (n + 1) + 1 + r
        OBVIOUS
      <4> QED
        BY <3>1, <4>2, <4>3
    <3> QED
      BY <2>2, <3>2
  <2> QED
    BY <2>1, <2>2
<1> QED
  BY <1>2, <1>3 DEF Layout, Reads

(* A part of the stream reads as the stream does.                          *)
LEMMA StartReads ==
    ASSUME NEW b \in Seq(Units), NEW t \in Seq(Units), NEW m \in Nat, NEW n \in Nat,
           Reads(b \o t, m, n)
    PROVE  Reads(b, m, n)
<1>1. Len(b) \in Nat /\ Len(t) \in Nat
  BY LenProperties
<1>2. /\ Len(b \o t) = Len(b) + Len(t)
      /\ \A p \in 1..Len(b) + Len(t) :
            (b \o t)[p] = IF p <= Len(b) THEN b[p] ELSE t[p - Len(b)]
  BY ConcatProperties
<1>3. \A p \in 1..Len(b) : p \in 1..Len(b \o t) /\ (b \o t)[p] = b[p]
  BY <1>1, <1>2
<1> QED
  BY <1>3 DEF Reads

(* One call of Deobfuscate on buffer b while t is still on the wire.       *)
LEMMA DeobfuscateKeeps ==
    ASSUME FrameTypes, InOrder, NEW b \in Seq(Units), NEW t \in Seq(Units),
           NEW m \in Nat, version = 1 => m = 0,
           Len(out) <= written, Layout(b \o t, m, Len(out), written),
           version' = version, written' = written,
           out' = out \o Deobfuscate(b).out, input' = Deobfuscate(b).rest, wire' = t
    PROVE  /\ input' \in Seq(Units) /\ out' \in Seq(Nat)
           /\ NothingMissing' /\ InOrder'
           /\ Deobfuscate(b).out = << >> => Len(input') < RecordSize
<1> DEFINE n == Len(out)
           d == Deobfuscate(b)
<1>1. /\ n \in Nat /\ Len(b) \in Nat /\ Len(t) \in Nat /\ written \in Nat
      /\ version \in {1, 2} /\ out \in Seq(Nat)
  BY LenProperties DEF FrameTypes
<1>2. Reads(b, m, n)
  BY <1>1, StartReads DEF Layout
<1>3. b \o t \in Seq(Units) /\ Len(b \o t) = Len(b) + Len(t)
  BY ConcatProperties
<1>4. \/ /\ d.out = << >>
         /\ \E x \in 0..m : x <= Len(b) /\ d.rest = Rest(b, x + 1)
                            /\ Len(b) - x < RecordSize
      \/ /\ d.out = << n + 1 >> /\ m + 4 <= Len(b)
         /\ d.rest = SubSeq(b, 1, m) \o Rest(b, m + 5)
  BY <1>1, <1>2, DeobfuscateEffect
<1> HIDE DEF d
<1>5. out' = out \o d.out /\ input' = d.rest
  BY DEF d
<1>6. CASE /\ d.out = << >>
           /\ \E x \in 0..m : x <= Len(b) /\ d.rest = Rest(b, x + 1)
                              /\ Len(b) - x < RecordSize
  <2>1. PICK x \in 0..m : x <= Len(b) /\ d.rest = Rest(b, x + 1) /\ Len(b) - x < RecordSize
    BY <1>6
  <2>2. x \in 0..Len(b)
    BY <1>1, <2>1
  <2>3. input' \in Seq(Units) /\ Len(input') = Len(b) - x
    BY <1>5, <2>1, <2>2, CutRest
  <2>4. out' = out
    BY <1>1, <1>5, <1>6, ConcatEmptySeq
  <2> DEFINE u == Rest(b, x + 1) \o t
  <2>5. u \in Seq(Units) /\ Len(u) = Len(b \o t) - x /\ \A p \in 1..Len(u) : u[p] = (b \o t)[p + x]
    BY <2>2, CutJoined
  <2> HIDE DEF u
  <2>6. Layout(u, m - x, n, written)
    BY <1>1, <1>3, <2>5, DropKeepsLayout
  <2>7. input' \o wire' = u
    BY <1>5, <2>1 DEF u
  <2>8. m - x \in 0..Len(u) /\ (version = 1 => m - x = 0)
    BY <1>1, <1>3, <2>5, <2>6 DEF Layout
  <2>9. NothingMissing'
    BY <2>4, <2>6, <2>7, <2>8 DEF NothingMissing
  <2>10. InOrder'
    BY <2>4 DEF InOrder
  <2>11. Len(input') < RecordSize
    BY <2>1, <2>3
  <2> QED
    BY <1>1, <2>3, <2>4, <2>9, <2>10, <2>11
<1>7. CASE /\ d.out = << n + 1 >> /\ m + 4 <= Len(b)
           /\ d.rest = SubSeq(b, 1, m) \o Rest(b, m + 5)
  <2> DEFINE v == SubSeq(b, 1, m) \o Rest(b, m + 5)
             u == v \o t
  <2>1. /\ v \in Seq(Units) /\ u \in Seq(Units) /\ Len(u) = Len(b \o t) - 4
        /\ \A p \in 1..Len(u) : u[p] = IF p <= m THEN (b \o t)[p] ELSE (b \o t)[p + 4]
    BY ZenonT(30), <1>7, TakeJoined
  <2>2. input' = v
    BY <1>5, <1>7
  <2> HIDE DEF u, v
  <2>3. m + 4 <= Len(b \o t)
    BY <1>1, <1>3, <1>7
  <2>4. n + 1 <= written /\ Layout(u, m, n + 1, written)
    BY <1>1, <1>3, <2>1, <2>3, TakeKeepsLayout
  <2>5. << n + 1 >> \in Seq(Nat) /\ Len(<< n + 1 >>) = 1 /\ << n + 1 >>[1] = n + 1
    BY <1>1
  <2>6. /\ out' \in Seq(Nat) /\ Len(out') = n + 1
        /\ \A p \in 1..(n + 1) : out'[p] = IF p <= n THEN out[p] ELSE << n + 1 >>[p - n]
    <3>1. /\ out \o << n + 1 >> \in Seq(Nat)
          /\ Len(out \o << n + 1 >>) = n + Len(<< n + 1 >>)
          /\ \A p \in 1..(n + Len(<< n + 1 >>)) :
                (out \o << n + 1 >>)[p] = IF p <= n THEN out[p] ELSE << n + 1 >>[p - n]
      BY <1>1, <2>5, ConcatProperties
    <3> QED
      BY <1>5, <1>7, <2>5, <3>1
  <2>7. input' \o wire' = u
    BY <2>2 DEF u
  <2>8. m \in 0..Len(u)
    <3>1. Len(u) \in Nat /\ Len(u) = m + 4 * (written - (n + 1))
      BY <2>1, <2>4, LenProperties DEF Layout
    <3> QED
      BY <1>1, <2>4, <3>1
  <2>9. NothingMissing'
    BY <2>4, <2>6, <2>7, <2>8 DEF NothingMissing
  <2>10. InOrder'
    <3>1. \A p \in 1..(n + 1) : out'[p] = p
      <4>1. ASSUME NEW p \in 1..(n + 1) PROVE out'[p] = p
        <5>1. CASE p <= n
          BY <1>1, <2>6, <5>1 DEF InOrder
        <5>2. CASE p = n + 1
          BY <1>1, <2>5, <2>6, <5>2
        <5>3. p <= n \/ p = n + 1
          BY <1>1
        <5> QED
          BY <5>1, <5>2, <5>3
      <4> QED
        BY <4>1
    <3>2. out' \in [1..Len(out') -> Nat]
      BY <2>6, LenProperties
    <3> QED
      BY <2>6, <3>1, <3>2 DEF InOrder
  <2>11. d.out # << >>
    BY <1>7
  <2> QED
    BY <2>1, <2>2, <2>6, <2>9, <2>10, <2>11 DEF d
<1> QED
  BY <1>4, <1>6, <1>7


-----------------------------------------------------------------------------
LEMMA FrameInitially == FrameInit => FrameInv
<1> SUFFICES ASSUME FrameInit PROVE FrameInv
  OBVIOUS
<1>1. << >> \in Seq(Units) /\ << >> \in Seq(Nat) /\ Len(<< >>) = 0 /\ << >> \o << >> = << >>
  BY EmptySeq, ConcatEmptySeq
<1>2. FrameTypes
  BY <1>1 DEF FrameInit, FrameTypes
<1>3. Layout(<< >>, 0, 0, 0)
  BY <1>1 DEF Layout, Reads
<1>4. NothingMissing
  BY <1>1, <1>3 DEF FrameInit, NothingMissing
<1>5. InOrder
  BY <1>1 DEF FrameInit, InOrder
<1> QED
  BY <1>2, <1>4, <1>5 DEF FrameInit, FrameInv, LittleLeft

LEMMA DecoyTailKeeps ==
    ASSUME FrameInv, DecoyTail
    PROVE  FrameInv'
<1>1. PICK k \in 1..MaxForeign : wire' = Foreign(k)
  BY DEF DecoyTail
<1>2. /\ written = 0 /\ wire = << >> /\ input = << >> /\ out = << >> /\ version = 2
      /\ UNCHANGED <<version, written, input, out, reader, lost>>
  BY DEF DecoyTail
<1>3. k \in Nat
  BY <1>1, FramingAssumption
<1> DEFINE f == Foreign(k)
<1>4. /\ f \in Seq(Units) /\ Len(f) = k /\ \A p \in 1..k : f[p] = << 0, "foreign" >>
  <2>1. << 0, "foreign" >> \in Units
    BY DEF Units
  <2>2. f \in [1..k -> Units]
    BY <2>1 DEF Foreign
  <2>3. f \in Seq(Units)
    BY <1>3, <2>2
  <2>4. DOMAIN f = 1..k /\ DOMAIN f = 1..Len(f) /\ Len(f) \in Nat
    BY <2>2, <2>3, LenProperties
  <2>5. Len(f) = k
    BY <1>3, <2>4
  <2> QED
    BY <2>3, <2>5 DEF Foreign
<1> HIDE DEF f
<1>5. << >> \o f = f /\ Len(<< >>) = 0
  BY <1>4, ConcatEmptySeq, EmptySeq
<1>6. FrameTypes'
  BY <1>1, <1>2, <1>4 DEF FrameInv, FrameTypes, f
<1>7. Layout(f, k, 0, 0)
  <2>1. ASSUME NEW p \in 1..Len(f)
        PROVE  f[p][2] # "head" /\ \A r \in Nat : p # k + 4 * r + 1
    BY <1>3, <1>4
  <2> QED
    BY <1>3, <1>4, <2>1 DEF Layout, Reads
<1>8. NothingMissing'
  <2>1. input' \o wire' = f /\ Len(out') = 0 /\ written' = 0 /\ version' = 2
    BY <1>1, <1>2, <1>5 DEF f
  <2> QED
    BY <1>3, <1>4, <1>7, <2>1 DEF NothingMissing
<1> QED
  BY <1>2, <1>6, <1>8 DEF FrameInv, LittleLeft, InOrder

(* What one write puts on the wire, whichever the obfuscator.              *)
LEMMA RecordOf ==
    ASSUME NEW i \in Nat
    PROVE  /\ Obfuscate1(i) = Obfuscate2(i)
           /\ Obfuscate1(i) \in Seq(Units) /\ Len(Obfuscate1(i)) = 4
           /\ Obfuscate1(i)[1] = << i, "head" >>
<1>1. /\ << i, "head" >> \in Units /\ << i, "header" >> \in Units
      /\ << i, "payload" >> \in Units /\ << i, "padding" >> \in Units
  BY DEF Units
<1> QED
  BY <1>1 DEF Obfuscate1, Obfuscate2

LEMMA WriteKeeps ==
    ASSUME FrameInv, AsyncWriteSome
    PROVE  FrameInv'
<1> DEFINE i == written + 1
           c == Obfuscate1(i)
           s == input \o wire
<1>1. /\ written' = written + 1
      /\ wire' = wire \o (IF version = 1 THEN Obfuscate1(written + 1) ELSE Obfuscate2(written + 1))
      /\ UNCHANGED <<version, input, out, reader, lost>>
  BY DEF AsyncWriteSome
<1>2. i \in Nat /\ written \in Nat /\ wire \in Seq(Units) /\ input \in Seq(Units)
  BY DEF FrameInv, FrameTypes
<1>3. /\ Obfuscate1(i) = Obfuscate2(i) /\ c \in Seq(Units) /\ Len(c) = 4
      /\ c[1][1] = i /\ c[1][2] = "head"
  <2>1. /\ Obfuscate1(i) = Obfuscate2(i) /\ c \in Seq(Units) /\ Len(c) = 4
        /\ c[1] = << i, "head" >>
    BY <1>2, RecordOf
  <2> QED
    BY <2>1
<1>4. wire' = wire \o c
  BY <1>1, <1>3
<1> HIDE DEF c
<1>5. wire \o c \in Seq(Units) /\ s \in Seq(Units)
  BY <1>2, <1>3, ConcatProperties
<1>6. input' \o wire' = s \o c
  <2>1. input \in Seq(Units) /\ wire \in Seq(Units) /\ c \in Seq(Units)
    BY <1>2, <1>3
  <2>2. (input \o wire) \o c = input \o (wire \o c)
    BY <2>1, ConcatAssociative
  <2> QED
    BY <1>1, <1>4, <2>2
<1>7. PICK m \in 0..Len(s) :
         /\ version = 1 => m = 0
         /\ Len(out) <= written
         /\ Layout(s, m, Len(out), written)
  BY DEF FrameInv, NothingMissing
<1> HIDE DEF s
<1>8. /\ s \o c \in Seq(Units) /\ Len(s \o c) = Len(s) + Len(c)
      /\ \A p \in 1..Len(s) + Len(c) :
            (s \o c)[p] = IF p <= Len(s) THEN s[p] ELSE c[p - Len(s)]
  BY <1>3, <1>5, ConcatProperties
<1>9. Len(s) \in Nat /\ Len(out) \in Nat
  BY <1>5, LenProperties DEF FrameInv, FrameTypes
<1>10. Layout(s \o c, m, Len(out), written + 1)
  <2> DEFINE n == Len(out)
  <2>1. Len(s) = m + 4 * (written - n) /\ Reads(s, m, n)
    BY <1>7 DEF Layout
  <2>2. Len(s \o c) = m + 4 * ((written + 1) - n)
    BY <1>2, <1>3, <1>7, <1>8, <1>9, <2>1
  <2>3. ASSUME NEW p \in 1..Len(s \o c)
        PROVE  /\ p <= m => (s \o c)[p][2] # "head"
               /\ \A r \in Nat : p = m + 4 * r + 1
                     => (s \o c)[p][1] = n + 1 + r /\ (s \o c)[p][2] = "head"
    <3>1. p \in 1..Len(s) + Len(c) /\ m <= Len(s)
      BY <1>7, <1>8, <1>9
    <3>2. CASE p <= Len(s)
      <4>1. p \in 1..Len(s) /\ (s \o c)[p] = s[p]
        BY <1>8, <1>9, <3>1, <3>2
      <4> QED
        BY <2>1, <4>1 DEF Reads
    <3>3. CASE ~(p <= Len(s))
      <4>1. (s \o c)[p] = c[p - Len(s)] /\ ~(p <= m)
        BY <1>7, <1>8, <1>9, <3>1, <3>3
      <4>2. ASSUME NEW r \in Nat, p = m + 4 * r + 1
            PROVE  p - Len(s) = 1 /\ n + 1 + r = i
        <5>1. p - Len(s) \in 1..4
          BY <1>3, <1>9, <3>1, <3>3
        <5>2. p - Len(s) = 4 * (r - (written - n)) + 1
          BY <1>2, <1>7, <1>9, <2>1, <4>2
        <5>3. r = written - n
          BY SMTT(30), <1>2, <1>9, <5>1, <5>2
        <5> QED
          BY <1>2, <1>9, <5>2, <5>3
      <4>3. ASSUME NEW r \in Nat, p = m + 4 * r + 1
            PROVE  (s \o c)[p][1] = n + 1 + r /\ (s \o c)[p][2] = "head"
        <5>1. p - Len(s) = 1 /\ n + 1 + r = i
          BY <4>2, <4>3
        <5> QED
          BY <1>3, <4>1, <5>1
      <4> QED
        BY <4>1, <4>3
    <3> QED
      BY <3>2, <3>3
  <2> QED
    BY <2>2, <2>3 DEF Layout, Reads
<1>11. NothingMissing'
  <2>1. m \in 0..Len(s \o c) /\ Len(out) <= written + 1
    BY <1>2, <1>3, <1>7, <1>8, <1>9
  <2> QED
    BY <1>1, <1>6, <1>7, <1>10, <2>1 DEF NothingMissing
<1>12. FrameTypes'
  BY <1>1, <1>2, <1>4, <1>5 DEF FrameInv, FrameTypes
<1> QED
  BY <1>1, <1>11, <1>12 DEF FrameInv, LittleLeft, InOrder

LEMMA ReadSomeKeeps ==
    ASSUME FrameInv, AsyncReadSome
    PROVE  FrameInv'
<1>1. /\ input' = Deobfuscate(input).rest /\ out' = out \o Deobfuscate(input).out
      /\ reader' = IF Deobfuscate(input).out = << >> THEN "net" ELSE "idle"
      /\ UNCHANGED <<version, written, wire, lost>>
  BY DEF AsyncReadSome
<1>2. FrameTypes /\ InOrder /\ input \in Seq(Units) /\ wire \in Seq(Units)
  BY DEF FrameInv, FrameTypes
<1>3. PICK m \in 0..Len(input \o wire) :
         /\ version = 1 => m = 0
         /\ Len(out) <= written
         /\ Layout(input \o wire, m, Len(out), written)
  BY DEF FrameInv, NothingMissing
<1>4. /\ input' \in Seq(Units) /\ out' \in Seq(Nat)
      /\ NothingMissing' /\ InOrder'
      /\ Deobfuscate(input).out = << >> => Len(input') < RecordSize
  BY <1>1, <1>2, <1>3, DeobfuscateKeeps
<1>5. FrameTypes'
  BY <1>1, <1>2, <1>4 DEF FrameTypes
<1>6. LittleLeft'
  BY <1>1, <1>4 DEF LittleLeft
<1> QED
  BY <1>4, <1>5, <1>6 DEF FrameInv

LEMMA BytesReadKeeps ==
    ASSUME FrameInv, BytesRead
    PROVE  FrameInv'
<1>1. /\ reader = "net" /\ reader' = "idle" /\ UNCHANGED <<version, written>>
  BY DEF BytesRead
<1>2. PICK k \in 1..Len(wire) :
         /\ k <= ReadSize
         /\ LET b == AddData(input, SubSeq(wire, 1, k))
                d == Deobfuscate(b)
            IN  /\ input' = d.rest
                /\ out' = out \o d.out
                /\ lost' = (lost \/ Len(b) < Len(input) + k)
         /\ wire' = Rest(wire, k + 1)
  BY DEF BytesRead
<1>3. FrameTypes /\ InOrder /\ input \in Seq(Units) /\ wire \in Seq(Units) /\ lost = FALSE
  BY DEF FrameInv, FrameTypes
<1>4. Len(input) \in Nat /\ Len(wire) \in Nat /\ Len(input) < RecordSize /\ k \in 0..Len(wire)
  BY <1>1, <1>3, LenProperties DEF FrameInv, LittleLeft
<1> DEFINE h == SubSeq(wire, 1, k)
           t == Rest(wire, k + 1)
           b == AddData(input, h)
<1>5. /\ h \in Seq(Units) /\ Len(h) = k /\ \A p \in 1..k : h[p] = wire[p]
  BY <1>3, <1>4, CutStart
<1>6. /\ t \in Seq(Units) /\ Len(t) = Len(wire) - k
      /\ \A p \in 1..(Len(wire) - k) : t[p] = wire[p + k]
  BY <1>3, <1>4, CutRest
<1>7. ReadSize \in Nat /\ BufferSize \in Nat /\ BufferSize >= ReadSize + 3
  BY FramingAssumption
<1>8. b = input \o h
  <2>1. Len(input) + Len(h) <= BufferSize
    BY <1>2, <1>4, <1>5, <1>7 DEF RecordSize
  <2> HIDE DEF h
  <2>2. ~(Len(input) + Len(h) > BufferSize)
    BY <1>4, <1>5, <1>7, <2>1
  <2> QED
    BY <2>2 DEF AddData
<1>9. input' = Deobfuscate(b).rest /\ out' = out \o Deobfuscate(b).out /\ wire' = t
      /\ lost' = (lost \/ Len(b) < Len(input) + k)
  BY <1>2
<1> HIDE DEF h, t, b
<1>10. b \in Seq(Units) /\ Len(b) = Len(input) + k
  BY <1>3, <1>5, <1>8, ConcatProperties
<1>11. lost' = FALSE
  <2>1. ~(Len(b) < Len(input) + k)
    BY <1>4, <1>10
  <2>2. lost = FALSE /\ lost' = (lost \/ Len(b) < Len(input) + k)
    BY <1>3, <1>9
  <2> QED
    BY <2>1, <2>2
<1>12. h \o t = wire
  <2>1. /\ h \o t \in Seq(Units) /\ Len(h \o t) = Len(h) + Len(t)
        /\ \A p \in 1..Len(h) + Len(t) : (h \o t)[p] = IF p <= Len(h) THEN h[p] ELSE t[p - Len(h)]
    BY <1>5, <1>6, ConcatProperties
  <2>2. Len(h \o t) = Len(wire)
    BY <1>4, <1>5, <1>6, <2>1
  <2>3. ASSUME NEW p \in 1..Len(h \o t) PROVE (h \o t)[p] = wire[p]
    <3>1. p \in 1..Len(h) + Len(t) /\ Len(h) = k
      BY <1>5, <2>1
    <3>2. CASE p <= k
      BY <1>4, <1>5, <2>1, <3>1, <3>2
    <3>3. CASE ~(p <= k)
      <4>1. (h \o t)[p] = t[p - k]
        BY <2>1, <3>1, <3>3
      <4>2. p - k \in 1..(Len(wire) - k) /\ (p - k) + k = p
        BY <1>4, <2>2, <3>3
      <4> QED
        BY <1>6, <4>1, <4>2
    <3> QED
      BY <3>2, <3>3
  <2> QED
    BY <1>3, <2>1, <2>2, <2>3, SeqEqual
<1>13. b \o t = input \o wire
  <2>1. input \in Seq(Units) /\ h \in Seq(Units) /\ t \in Seq(Units)
    BY <1>3, <1>5, <1>6
  <2>2. (input \o h) \o t = input \o (h \o t)
    BY <2>1, ConcatAssociative
  <2> QED
    BY <1>8, <1>12, <2>2
<1>14. PICK m \in 0..Len(input \o wire) :
         /\ version = 1 => m = 0
         /\ Len(out) <= written
         /\ Layout(input \o wire, m, Len(out), written)
  BY DEF FrameInv, NothingMissing
<1>15. /\ m \in Nat
       /\ Layout(b \o t, m, Len(out), written)
  BY <1>13, <1>14
<1>16. input' \in Seq(Units) /\ out' \in Seq(Nat) /\ NothingMissing' /\ InOrder'
  BY <1>1, <1>3, <1>6, <1>9, <1>10, <1>14, <1>15, DeobfuscateKeeps
<1>17. FrameTypes'
  BY <1>1, <1>3, <1>6, <1>9, <1>11, <1>16 DEF FrameTypes
<1> QED
  BY <1>1, <1>16, <1>17 DEF FrameInv, LittleLeft

(* The reader returns every record once and in order, holds none back when *)
(* the socket is empty, and loses no byte, for every number of records and *)
(* foreign units and every size of a read.                                 *)
THEOREM StreamsAreIntact == FrameSpec => []StreamIntact
<1>1. ASSUME FrameInv, [FrameNext]_frameVars PROVE FrameInv'
  <2>1. CASE UNCHANGED frameVars
    BY <1>1, <2>1 DEF frameVars, FrameInv, FrameTypes, NothingMissing, LittleLeft, InOrder
  <2> QED
    BY <1>1, <2>1, DecoyTailKeeps, WriteKeeps, ReadSomeKeeps, BytesReadKeeps DEF FrameNext
<1>2. FrameInv => StreamIntact
  <2> SUFFICES ASSUME FrameInv PROVE StreamIntact
    OBVIOUS
  <2>1. InOrder /\ ~lost
    BY DEF FrameInv, FrameTypes
  <2>2. NothingHeldBack
    <3>1. SUFFICES ASSUME reader = "net", wire = << >> PROVE Len(out) = written
      BY DEF NothingHeldBack
    <3>2. PICK m \in 0..Len(input \o wire) :
             Len(out) <= written /\ Layout(input \o wire, m, Len(out), written)
      BY DEF FrameInv, NothingMissing
    <3>3. /\ input \in Seq(Units) /\ input \o wire = input /\ Len(input) \in Nat
          /\ Len(input) < RecordSize /\ Len(out) \in Nat /\ written \in Nat
      BY <3>1, ConcatEmptySeq, LenProperties DEF FrameInv, FrameTypes, LittleLeft
    <3> QED
      BY <3>2, <3>3 DEF Layout, RecordSize
  <2> QED
    BY <2>1, <2>2 DEF StreamIntact
<1> QED
  BY <1>1, <1>2, FrameInitially, PTL DEF FrameSpec
=============================================================================
