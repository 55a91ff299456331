---------------------------- MODULE ClientProofs ----------------------------
(***************************************************************************)
(* Proofs about the client's programs, for any servers, workers, names,    *)
(* addresses and services: the plugins, the command line, the search for a *)
(* server and the scan for a server name.                                  *)
(***************************************************************************)
EXTENDS ServerSearch, GuiClient, Plugins, CliClient, FiniteSetTheorems,
        SequenceTheorems, TLAPS

-----------------------------------------------------------------------------
(* Plugins                                                                 *)

(* An IPv4 address that an answer gave to a blacklisted name is blocked.   *)
NamedAreBlocked ==
    \A name \in Blacklisted, a \in IPv4s : <<name, a>> \in answers => a \in ipv4Blocked

(* The inductive invariant of the plugins: what is recorded was tried.     *)
PluginInv ==
    /\ policy \in {"exclude", "include"}
    /\ recorded \subseteq bypass \cup unrouted
    /\ NamedAreBlocked
    /\ PluginsHonoured

LEMMA PluginInitInv ==
    ASSUME PluginInit
    PROVE  PluginInv
BY PolicyValues DEF PluginInit, PluginInv, NamedAreBlocked, PluginsHonoured, WantedOut

(* What AddDnsRoutes leaves behind.                                        *)
LEMMA AddDnsRoutesEffect ==
    ASSUME NEW addresses, AddDnsRoutes(addresses), recorded \subseteq bypass \cup unrouted
    PROVE  /\ bypass \subseteq bypass' /\ unrouted \subseteq unrouted'
           /\ bypass' \subseteq bypass \cup addresses
           /\ addresses \subseteq bypass' \cup unrouted'
           /\ recorded' \subseteq bypass' \cup unrouted'
BY DEF AddDnsRoutes

LEMMA DeliverEffect ==
    ASSUME NEW a, NEW how, Deliver(a, how), NEW p
    PROVE  p \in passed' => p \in passed \/ p = <<a, how>>
BY DEF Deliver

LEMMA DnsAnswerKeepsInv ==
    ASSUME PluginInv, NEW src, NEW name \in Names,
           NEW a4 \in SUBSET IPv4s, NEW a6 \in SUBSET IPv6s,
           DnsAnswer(src, name, a4, a6)
    PROVE  PluginInv'
<1> USE DEF PluginInv
<1>1. policy' = policy /\ gatewayIPv6' = gatewayIPv6
  BY DEF DnsAnswer
<1>2. \A n, a : <<n, a>> \in answers' <=> <<n, a>> \in answers \/ (n = name /\ a \in a4 \cup a6)
  BY DEF DnsAnswer
<1>3. NamedAreBlocked'
  <2>1. CASE name \in Blacklisted
    <3>1. ipv4Blocked' = ipv4Blocked \cup a4
      BY <2>1 DEF DnsAnswer, BlacklistAnswer
    <3> QED
      BY <1>2, <3>1, FamiliesDisjoint DEF NamedAreBlocked
  <2>2. CASE name \notin Blacklisted
    <3>1. ipv4Blocked' = ipv4Blocked
      BY <2>2 DEF DnsAnswer
    <3> QED
      BY <1>2, <2>2, <3>1 DEF NamedAreBlocked
  <2> QED
    BY <2>1, <2>2
<1>4. WantedOut' = WantedOut \cup
          (IF name \notin Blacklisted /\ GoesPast(name) THEN a4 \cup a6 ELSE {})
  <2>1. GoesPast(name) <=> (name \in SplitNames <=> policy = "exclude")
    BY DEF GoesPast
  <2> QED
    BY <1>1, <1>2, <2>1 DEF WantedOut
<1>5. /\ recorded' \subseteq bypass' \cup unrouted'
      /\ bypass' \subseteq WantedOut'
      /\ \A a \in WantedOut' \ bypass' : a \in unrouted' \/ (a \in IPv6s /\ ~gatewayIPv6)
  <2>1. CASE name \notin Blacklisted /\ GoesPast(name)
    <3>1. AddDnsRoutes(Routable(a4, a6))
      BY <2>1 DEF DnsAnswer
    <3>2. /\ Routable(a4, a6) \subseteq a4 \cup a6
          /\ \A a \in (a4 \cup a6) \ Routable(a4, a6) : a \in IPv6s /\ ~gatewayIPv6
      BY DEF Routable
    <3>3. /\ bypass \subseteq bypass' /\ unrouted \subseteq unrouted'
          /\ bypass' \subseteq bypass \cup Routable(a4, a6)
          /\ Routable(a4, a6) \subseteq bypass' \cup unrouted'
          /\ recorded' \subseteq bypass' \cup unrouted'
      BY <3>1, AddDnsRoutesEffect
    <3> QED
      BY <1>4, <2>1, <3>2, <3>3 DEF PluginsHonoured
  <2>2. CASE ~(name \notin Blacklisted /\ GoesPast(name))
    <3>1. UNCHANGED <<recorded, bypass, unrouted>>
      BY <2>2 DEF DnsAnswer
    <3> QED
      BY <1>4, <2>2, <3>1 DEF PluginsHonoured
  <2> QED
    BY <2>1, <2>2
<1>6. \A p : p \in passed' => p \in passed \/ p = <<src, "dns">>
  BY DeliverEffect DEF DnsAnswer
<1>7. PluginsHonoured'
  BY <1>1, <1>4, <1>5, <1>6 DEF PluginsHonoured
<1> QED
  BY <1>1, <1>3, <1>5, <1>7

(* A packet that is not DNS disturbs only what was delivered.              *)
LEMMA PacketKeepsInv ==
    ASSUME PluginInv, NEW a \in IPv4s \cup IPv6s, DataPacket(a) \/ PacketPast(a)
    PROVE  PluginInv'
<1> USE DEF PluginInv
<1>1. UNCHANGED <<policy, gatewayIPv6, ipv4Blocked, recorded, bypass, answers, unrouted>>
  BY DEF DataPacket, PacketPast
<1>2. NamedAreBlocked' /\ WantedOut' = WantedOut
  BY <1>1 DEF NamedAreBlocked, WantedOut
<1>3. \A b \in IPv4s : <<b, "data">> \notin passed'
  <2>1. CASE DataPacket(a)
    <3>1. a \notin ipv4Blocked
      BY <2>1 DEF DataPacket
    <3> QED
      BY <2>1, <3>1 DEF DataPacket, Deliver, NamedAreBlocked, PluginsHonoured
  <2>2. CASE PacketPast(a)
    <3>1. ASSUME NEW b PROVE <<b, "data">> \in passed' => <<b, "data">> \in passed
      <4>1. Deliver(a, "past") /\ <<b, "data">> # <<a, "past">>
        BY <2>2 DEF PacketPast
      <4> QED
        BY <4>1, DeliverEffect
    <3> QED
      BY <3>1 DEF PluginsHonoured
  <2> QED
    BY <2>1, <2>2
<1>4. \A b \in IPv4s : <<b, "past">> \in passed' => b \in WantedOut
  <2>1. CASE DataPacket(a)
    BY <2>1, DeliverEffect DEF DataPacket, PluginsHonoured
  <2>2. CASE PacketPast(a)
    BY <2>2, DeliverEffect DEF PacketPast, PluginsHonoured
  <2> QED
    BY <2>1, <2>2
<1> QED
  BY <1>1, <1>2, <1>3, <1>4 DEF PluginsHonoured

(* Out of the tunnel nothing but DNS is delivered from an IPv4 address     *)
(* that a DNS answer gave to a blacklisted name, and past it go the        *)
(* addresses the policy keeps out, all those whose route could be added.   *)
THEOREM PluginsAreHonoured == PluginSpec => []PluginsHonoured
<1>1. PluginInit => PluginInv
  BY PluginInitInv
<1>2. PluginInv /\ [PluginNext]_pluginVars => PluginInv'
  <2>1. CASE UNCHANGED pluginVars
    BY <2>1 DEF pluginVars, PluginInv, NamedAreBlocked, PluginsHonoured, WantedOut
  <2> QED
    BY <2>1, DnsAnswerKeepsInv, PacketKeepsInv DEF PluginNext
<1>3. PluginInv => PluginsHonoured
  BY DEF PluginInv
<1> QED
  BY <1>1, <1>2, <1>3, PTL DEF PluginSpec

-----------------------------------------------------------------------------
(* The command line                                                        *)

(* The token comes from the chosen server, which accepts the user.         *)
TokenOfChosen == access = chosen /\ chosen \in accepting

(* The inductive invariant of main and its supervisor: what is known of    *)
(* the token and of the tunnel at each place of main.                      *)
CliInv ==
    /\ cli \in {"config", "prefer", "race", "resolve", "login", "dns", "start", "loop",
                "clean", "stop", "join", "destroy", "exit", "terminated"}
    /\ cli \in {"config", "prefer", "race"} => access = NoAccess
    /\ cli \in {"resolve", "login"} => access = NoAccess \/ TokenOfChosen
    /\ cli \in {"dns", "start", "loop", "clean", "stop"} => TokenOfChosen
    /\ vpnUp => cli \in {"loop", "clean", "stop", "terminated"} /\ TokenOfChosen
    /\ cli \in {"config", "prefer", "race", "resolve", "login", "dns", "start", "exit"} =>
          ~routesOn
    /\ cli \in {"config", "prefer", "race", "resolve", "login", "dns", "start", "destroy",
                "exit"} =>
          http = "none" /\ supervising \in {"none", "ended"}
    /\ http \in {"none", "started", "connected", "down"}
    /\ supervising = "watching" => http # "none"
    /\ supervising \in {"backoff", "apply", "restart"} => http = "down"
    /\ cli \in {"stop", "join"} /\ routesOn => supervising = "restart"
    /\ cli = "terminated" => http = "down" /\ (routesOn => supervising = "restart")
    /\ cli = "terminated" => supervising \in {"none", "ended", "restart"}

LEMMA CliNextInv ==
    ASSUME CliInv, [CliNext]_cliVars
    PROVE  CliInv'
<1> USE DEF CliInv, TokenOfChosen, worldVars, choiceVars, tunnelVars
<1>1. CASE ParseConfig
  BY <1>1 DEF ParseConfig
<1>2. CASE TryPreferred
  BY <1>2 DEF TryPreferred
<1>3. CASE LoginRace
  BY <1>3 DEF LoginRace
<1>4. CASE CliResolve
  BY <1>4 DEF CliResolve
<1>5. CASE CliLogin
  BY <1>5 DEF CliLogin
<1>6. CASE CliGetDns
  BY <1>6 DEF CliGetDns
<1>7. CASE CliStart
  BY <1>7 DEF CliStart
<1>8. CASE HttpMoves
  BY <1>8 DEF HttpMoves
<1>9. CASE Supervise
  <2>1. /\ UNCHANGED <<cli, choiceVars, worldVars, vpnUp>> /\ supervising = "watching"
        /\ supervising' \in {"watching", "ended", "backoff"}
        /\ http' = http /\ (routesOn' = routesOn \/ routesOn' = FALSE)
    BY <1>9 DEF Supervise
  <2>2. supervising' = "backoff" => http = "down"
    BY <1>9, <2>1 DEF Supervise
  <2> QED
    BY <2>1, <2>2
<1>10. CASE BackoffEnds
  BY <1>10 DEF BackoffEnds
<1>11. CASE ApplyAgain
  BY <1>11 DEF ApplyAgain
<1>20. CASE StartAgain
  BY <1>20 DEF StartAgain
<1>12. ASSUME NEW s \in CliServers, DnsFails(s)
       PROVE  CliInv'
  BY <1>12 DEF DnsFails
<1>13. CASE CheckConnection
  BY <1>13 DEF CheckConnection
<1>14. CASE OnSignal
  BY <1>14 DEF OnSignal
<1>15. CASE MainClean
  BY <1>15 DEF MainClean
<1>16. CASE MainStop
  BY <1>16 DEF MainStop
<1>17. CASE MainJoin
  BY <1>17 DEF MainJoin
<1>18. CASE DestroyRoutes
  BY <1>18 DEF DestroyRoutes
<1>19. CASE UNCHANGED cliVars
  BY <1>19 DEF cliVars
<1> QED
  BY <1>1, <1>2, <1>3, <1>4, <1>5, <1>6, <1>7, <1>8, <1>9, <1>10, <1>11, <1>12, <1>13,
     <1>14, <1>15, <1>16, <1>17, <1>18, <1>19, <1>20 DEF CliNext

(* However main and its supervisor interleave, main exits without routes   *)
(* applied or a thread left; the process is terminated only once the       *)
(* client used up its reconnections, and with routes applied only by the   *)
(* supervisor's restart; and no tunnel runs on another server's token.     *)
THEOREM CliExitsClean == CliSpec => []ExitsClean
<1>1. CliInit => CliInv
  BY DEF CliInit, CliInv
<1>2. CliInv /\ [CliNext]_cliVars => CliInv'
  BY CliNextInv
<1>3. CliInv => ExitsClean
  BY DEF CliInv, ExitsClean, TokenOfChosen
<1> QED
  BY <1>1, <1>2, <1>3, PTL DEF CliSpec

-----------------------------------------------------------------------------
(* The search for a server                                                 *)

SearchTypeOK ==
    /\ search \in {"idle", "spawn", "join", "retry", "done"}
    /\ selected \subseteq Candidates
    /\ probe \in [Candidates -> {"none", "probing", "ended"}]
    /\ answered \in Seq(Candidates)
    /\ first \in Candidates \cup {None}
    /\ threadsOk \in BOOLEAN
    /\ retries \subseteq selected
    /\ outcome \in Candidates \cup {None, "unavailable"}

(* Until the search is over first_server is the first that took the lock.  *)
FirstAnswered ==
    /\ first = None <=> answered = << >>
    /\ answered # << >> => first = answered[1]

(* The inductive invariant of the search: only selected servers are probed,*)
(* and the joins come before the servers are tried one by one, which with  *)
(* threads that work happens only if nobody answered.                      *)
SearchInv ==
    /\ SearchTypeOK
    /\ \A s \in Candidates : probe[s] # "none" => s \in selected
    /\ search = "idle" => selected = {} /\ threadsOk /\ answered = << >>
    /\ search # "done" => FirstAnswered
    /\ search \in {"retry", "done"} => \A s \in Candidates : probe[s] # "probing"
    /\ search = "retry" /\ threadsOk => first = None
    /\ SearchResult

LEMMA SearchNextInv ==
    ASSUME SearchInv, [SearchNext]_searchVars
    PROVE  SearchInv'
<1> USE DEF SearchInv, SearchTypeOK
<1>1. None \notin Candidates /\ "unavailable" \notin Candidates /\ None # "unavailable"
  BY CandidateNames DEF None
<1>2. CASE FindServer
  BY <1>1, <1>2 DEF FindServer, FirstAnswered, SearchResult
<1>3. CASE SpawnProbe
  BY <1>3 DEF SpawnProbe, FirstAnswered, SearchResult
<1>4. CASE SpawnFails
  BY <1>4 DEF SpawnFails, FirstAnswered, SearchResult
<1>5. CASE WaitForProbes
  BY <1>5 DEF WaitForProbes, FirstAnswered, SearchResult
<1>6. CASE JoinProbes
  BY <1>1, <1>6 DEF JoinProbes, FirstAnswered, SearchResult
<1>7. CASE ProbeNext
  <2>1. PICK s \in retries :
           /\ retries' = retries \ {s}
           /\ \/ UNCHANGED <<search, outcome, answered>>
              \/ search' = "done" /\ outcome' = s /\ answered' = Append(answered, s)
    BY <1>7 DEF ProbeNext
  <2>2. search = "retry" /\ UNCHANGED <<selected, probe, first, threadsOk>>
    BY <1>7 DEF ProbeNext
  <2>3. CASE UNCHANGED <<search, outcome, answered>>
    BY <2>1, <2>2, <2>3 DEF FirstAnswered, SearchResult
  <2>4. CASE search' = "done" /\ outcome' = s /\ answered' = Append(answered, s)
    <3>1. s \in Candidates /\ s # "unavailable"
      BY <1>1
    <3>2. answered' \in Seq(Candidates) /\ answered'[Len(answered) + 1] = s
          /\ Len(answered) + 1 \in DOMAIN answered'
      BY <2>4, <3>1
    <3>3. threadsOk => answered'[1] = s
      BY <2>2, <2>4, <3>1 DEF FirstAnswered
    <3>4. SearchResult'
      BY <2>2, <2>4, <3>1, <3>2, <3>3 DEF SearchResult
    <3> QED
      BY <2>1, <2>2, <2>4, <3>1, <3>2, <3>4
  <2> QED
    BY <2>1, <2>3, <2>4
<1>8. CASE ProbesExhausted
  BY <1>1, <1>8 DEF ProbesExhausted, FirstAnswered, SearchResult
<1>9. ASSUME NEW s \in Candidates, ProbeEnds(s)
      PROVE  SearchInv'
  <2>1. /\ probe[s] = "probing" /\ probe' = [probe EXCEPT ![s] = "ended"]
        /\ UNCHANGED <<search, selected, threadsOk, retries, outcome>>
        /\ search \notin {"retry", "done"}
    BY <1>9 DEF ProbeEnds
  <2>2. CASE UNCHANGED <<answered, first>>
    BY <2>1, <2>2 DEF FirstAnswered, SearchResult
  <2>3. CASE /\ answered' = Append(answered, s)
             /\ first' = IF first = None THEN s ELSE first
    <3>1. /\ answered' \in Seq(Candidates) /\ answered' # << >>
          /\ answered'[1] = IF answered = << >> THEN s ELSE answered[1]
      BY <2>3
    <3>2. FirstAnswered'
      BY <1>1, <2>1, <2>3, <3>1 DEF FirstAnswered
    <3> QED
      BY <2>1, <2>3, <3>1, <3>2 DEF SearchResult
  <2> QED
    BY <1>9, <2>2, <2>3 DEF ProbeEnds
<1>10. CASE UNCHANGED searchVars
  BY <1>10 DEF searchVars, FirstAnswered, SearchResult
<1> QED
  BY <1>2, <1>3, <1>4, <1>5, <1>6, <1>7, <1>8, <1>9, <1>10 DEF SearchNext

(* A search returns the first server that answered, or one that did, and   *)
(* gives up only when none did; its threads are joined by then.            *)
THEOREM SearchIsRight == SearchSpec => []SearchResult
<1>1. SearchInit => SearchInv
  BY CandidateNames DEF SearchInit, SearchInv, SearchTypeOK, FirstAnswered, SearchResult, None
<1>2. SearchInv /\ [SearchNext]_searchVars => SearchInv'
  BY SearchNextInv
<1>3. SearchInv => SearchResult
  BY DEF SearchInv
<1> QED
  BY <1>1, <1>2, <1>3, PTL DEF SearchSpec

-----------------------------------------------------------------------------
(* The scan for a server name                                              *)

(* A worker at work on a name, and one that has yet to count it.           *)
Holds(w) == scanner[w].at \in {"server", "log", "count", "found", "write"}
Uncounted == {w \in Scanners : scanner[w].at \in {"server", "log", "count"}}

ScanTypeOK ==
    /\ gui \in {"idle", "scanning", "joinFound", "joinExhausted",
                "joinCancelled"}
    /\ nextSni \in 1..(SniCount + 1)
    /\ tested \in Nat /\ nFound \in Nat
    /\ scanner \in [Scanners -> [at : {"none", "loop", "server", "log", "count", "found",
                                       "write", "ended"},
                                 sni : 0..SniCount, left : Nat, ok : BOOLEAN]]
    /\ works \subseteq 1..SniCount
    /\ verdict \in {None, "found", "nothingWorks"}

(* Every name handed out is counted or in the hands of a worker, and no    *)
(* two workers hold the same one.                                          *)
NamesCounted == gui # "idle" => tested + Cardinality(Uncounted) = nextSni - 1

NamesApart ==
    /\ \A w \in Scanners : Holds(w) => scanner[w].sni \in 1..(nextSni - 1)
    /\ \A w, x \in Scanners : w # x /\ Holds(w) /\ Holds(x) => scanner[w].sni # scanner[x].sni

(* A name that works is recorded before it is counted as found; what two   *)
(* workers wrote at once is not trusted, but then two names work.          *)
FoundRecorded ==
    /\ \A w \in Scanners : scanner[w].at = "write" => scanner[w].sni \in works
    /\ works # {} => nFound > 0 \/ \E w \in Scanners : scanner[w].at = "write"
    /\ nFound > 0 => found \in works \/ \E x, y \in works : x # y

(* The inductive invariant of the scan.                                    *)
ScanInv ==
    /\ ScanTypeOK
    /\ gui = "idle" => \A w \in Scanners : scanner[w].at = "none"
    /\ gui # "idle" => verdict = None
    /\ NamesCounted
    /\ NamesApart
    /\ FoundRecorded
    /\ gui = "joinFound" \/ verdict = "found" => nFound > 0
    /\ gui = "joinExhausted" \/ verdict = "nothingWorks" => tested = SniCount
    /\ verdict = "nothingWorks" => works = {}

(* A worker moves on, and no other worker is touched.                      *)
LEMMA ScanAtEffect ==
    ASSUME ScanTypeOK, NEW w \in Scanners,
           NEW a \in {"none", "loop", "server", "log", "count", "found", "write", "ended"},
           ScanAt(w, a)
    PROVE  /\ scanner' \in [Scanners -> [at : {"none", "loop", "server", "log", "count",
                                               "found", "write", "ended"},
                                         sni : 0..SniCount, left : Nat, ok : BOOLEAN]]
           /\ scanner'[w].at = a /\ scanner'[w].sni = scanner[w].sni
           /\ \A x \in Scanners : x # w => scanner'[x] = scanner[x]
BY DEF ScanTypeOK, ScanAt

(* How the workers that have yet to count are counted.                     *)
LEMMA UncountedFinite ==
    /\ IsFiniteSet(Uncounted) /\ Cardinality(Uncounted) \in Nat
    /\ Cardinality(Uncounted) = 0 <=> Uncounted = {}
<1>1. IsFiniteSet(Uncounted)
  BY ScanBounds, FS_Subset DEF Uncounted
<1> QED
  BY <1>1, FS_CardinalityType, FS_EmptySet

LEMMA UncountedSame ==
    ASSUME NEW w \in Scanners,
           scanner'[w].at \in {"server", "log", "count"} <=> w \in Uncounted,
           \A x \in Scanners : x # w => scanner'[x] = scanner[x]
    PROVE  Uncounted' = Uncounted
BY DEF Uncounted

LEMMA StartScanningKeepsInv ==
    ASSUME ScanInv, StartScanning
    PROVE  ScanInv'
<1> USE DEF ScanInv, ScanTypeOK
<1>1. /\ gui = "idle" /\ verdict = None /\ \A w \in Scanners : scanner[w].at = "none"
      /\ gui' = "scanning" /\ verdict' = verdict
      /\ nextSni' = 1 /\ tested' = 0 /\ nFound' = 0 /\ found' = 0 /\ works' = {}
  BY DEF StartScanning
<1>2. scanner' = [w \in Scanners |-> [scanner[w] EXCEPT !.at = "loop"]]
  BY DEF StartScanning
<1>3. \A w \in Scanners :
         /\ scanner'[w].at = "loop" /\ scanner'[w].sni \in 0..SniCount
         /\ scanner'[w] \in [at : {"loop"}, sni : 0..SniCount, left : Nat, ok : BOOLEAN]
  BY <1>2
<1>4. scanner' \in [Scanners -> [at : {"none", "loop", "server", "log", "count",
                                       "found", "write", "ended"},
                                 sni : 0..SniCount, left : Nat, ok : BOOLEAN]]
  BY <1>2, <1>3
<1>5. ScanTypeOK'
  BY <1>1, <1>4, ScanBounds
<1>6. Uncounted' = {}
  BY <1>3 DEF Uncounted
<1>7. NamesCounted'
  BY <1>1, <1>6, FS_EmptySet DEF NamesCounted
<1>8. NamesApart' /\ FoundRecorded'
  BY <1>1, <1>3 DEF NamesApart, FoundRecorded, Holds
<1> QED
  BY <1>1, <1>5, <1>7, <1>8 DEF None

LEMMA GetNextSniKeepsInv ==
    ASSUME ScanInv, NEW w \in Scanners, GetNextSni(w)
    PROVE  ScanInv'
<1> USE DEF ScanInv
<1>1. /\ scanner[w].at = "loop" /\ gui # "idle"
      /\ UNCHANGED <<gui, stopReq, tested, nFound, posted, found, works, verdict>>
  BY DEF GetNextSni
<1>2. CASE stopReq \/ nextSni > SniCount
  <2>1. ScanAt(w, "ended") /\ nextSni' = nextSni
    BY <1>2 DEF GetNextSni
  <2>2. /\ ScanTypeOK' /\ scanner'[w].at = "ended" /\ scanner'[w].sni = scanner[w].sni
        /\ \A x \in Scanners : x # w => scanner'[x] = scanner[x]
    BY <1>1, <2>1, ScanAtEffect DEF ScanTypeOK
  <2>3. Uncounted' = Uncounted
    BY <1>1, <2>2, UncountedSame DEF Uncounted
  <2> QED
    BY <1>1, <2>1, <2>2, <2>3 DEF NamesCounted, NamesApart, FoundRecorded, Holds
<1>3. CASE ~(stopReq \/ nextSni > SniCount)
  <2>1. /\ scanner' = [scanner EXCEPT ![w] = [at |-> "server", sni |-> nextSni,
                                              left |-> ScanServers, ok |-> FALSE]]
        /\ nextSni' = nextSni + 1
    BY <1>3 DEF GetNextSni
  <2>2. nextSni \in 1..SniCount
    BY <1>3, ScanBounds DEF ScanTypeOK
  <2>3. /\ scanner'[w].at = "server" /\ scanner'[w].sni = nextSni
        /\ \A x \in Scanners : x # w => scanner'[x] = scanner[x]
    BY <2>1 DEF ScanTypeOK
  <2>4. ScanTypeOK'
    BY <1>1, <2>1, <2>2, ScanBounds DEF ScanTypeOK
  <2>5. w \notin Uncounted /\ Uncounted' = Uncounted \cup {w}
    BY <1>1, <2>3 DEF Uncounted
  <2>6. Cardinality(Uncounted') = Cardinality(Uncounted) + 1
    BY <2>5, UncountedFinite, FS_AddElement
  <2>7. NamesCounted'
    BY <1>1, <2>1, <2>2, <2>6, UncountedFinite DEF NamesCounted, ScanTypeOK
  <2>8. NamesApart'
    <3>1. \A x \in Scanners : x # w => (Holds(x)' <=> Holds(x))
      BY <2>3 DEF Holds
    <3>2. \A x \in Scanners : Holds(x)' => scanner'[x].sni \in 1..(nextSni' - 1)
      BY <2>1, <2>2, <2>3, <3>1 DEF NamesApart
    <3>3. \A x \in Scanners : x # w /\ Holds(x)' => scanner'[x].sni # nextSni
      BY <2>2, <2>3, <3>1 DEF NamesApart
    <3> QED
      BY <2>3, <3>1, <3>2, <3>3 DEF NamesApart
  <2>9. FoundRecorded'
    BY <1>1, <2>3 DEF FoundRecorded
  <2> QED
    BY <1>1, <2>4, <2>7, <2>8, <2>9
<1> QED
  BY <1>2, <1>3

LEMMA TestSniKeepsInv ==
    ASSUME ScanInv, NEW w \in Scanners, TestSni(w)
    PROVE  ScanInv'
<1> USE DEF ScanInv
<1>1. /\ scanner[w].at = "server" /\ gui # "idle"
      /\ UNCHANGED <<gui, stopReq, nextSni, tested, nFound, posted, found, works, verdict>>
  BY DEF TestSni
<1>2. /\ scanner' \in [Scanners -> [at : {"none", "loop", "server", "log", "count",
                                          "found", "write", "ended"},
                                    sni : 0..SniCount, left : Nat, ok : BOOLEAN]]
      /\ scanner'[w].at \in {"log", "count"} /\ scanner'[w].sni = scanner[w].sni
      /\ \A x \in Scanners : x # w => scanner'[x] = scanner[x]
  <2>1. CASE stopReq \/ scanner[w].left = 0
    BY <2>1, ScanAtEffect DEF TestSni
  <2>2. CASE ~(stopReq \/ scanner[w].left = 0)
    <3>1. PICK ok \in BOOLEAN :
             scanner' = [scanner EXCEPT ![w].at = "log", ![w].left = @ - 1, ![w].ok = ok]
      BY <2>2 DEF TestSni
    <3>2. scanner[w].left - 1 \in Nat
      BY <2>2 DEF ScanTypeOK
    <3> QED
      BY <3>1, <3>2 DEF ScanTypeOK
  <2> QED
    BY <2>1, <2>2
<1>3. ScanTypeOK'
  BY <1>1, <1>2 DEF ScanTypeOK
<1>4. Uncounted' = Uncounted
  BY <1>1, <1>2, UncountedSame DEF Uncounted
<1> QED
  BY <1>1, <1>2, <1>3, <1>4 DEF NamesCounted, NamesApart, FoundRecorded, Holds

LEMMA AddLogEntryKeepsInv ==
    ASSUME ScanInv, NEW w \in Scanners, AddLogEntry(w)
    PROVE  ScanInv'
<1> USE DEF ScanInv
<1>1. /\ scanner[w].at = "log" /\ gui # "idle"
      /\ UNCHANGED <<gui, stopReq, nextSni, tested, nFound, found, works, verdict>>
  BY DEF AddLogEntry
<1>2. /\ ScanTypeOK'
      /\ scanner'[w].at \in {"server", "count"} /\ scanner'[w].sni = scanner[w].sni
      /\ \A x \in Scanners : x # w => scanner'[x] = scanner[x]
  BY <1>1, ScanAtEffect DEF AddLogEntry, ScanTypeOK
<1>3. Uncounted' = Uncounted
  BY <1>1, <1>2, UncountedSame DEF Uncounted
<1> QED
  BY <1>1, <1>2, <1>3 DEF NamesCounted, NamesApart, FoundRecorded, Holds

LEMMA CountTestedKeepsInv ==
    ASSUME ScanInv, NEW w \in Scanners, CountTested(w)
    PROVE  ScanInv'
<1> USE DEF ScanInv
<1>1. /\ scanner[w].at = "count" /\ gui # "idle" /\ tested' = tested + 1
      /\ UNCHANGED <<gui, stopReq, nextSni, nFound, posted, found, works, verdict>>
  BY DEF CountTested
<1>2. /\ ScanTypeOK'
      /\ scanner'[w].at \in {"found", "loop"} /\ scanner'[w].sni = scanner[w].sni
      /\ \A x \in Scanners : x # w => scanner'[x] = scanner[x]
  BY <1>1, ScanAtEffect DEF CountTested, ScanTypeOK
<1>3. w \in Uncounted /\ Uncounted' = Uncounted \ {w}
  BY <1>1, <1>2 DEF Uncounted
<1>4. Cardinality(Uncounted') = Cardinality(Uncounted) - 1 /\ Cardinality(Uncounted) # 0
  BY <1>3, UncountedFinite, FS_RemoveElement
<1>5. NamesCounted'
  BY <1>1, <1>4, UncountedFinite DEF NamesCounted, ScanTypeOK
<1>6. gui # "joinExhausted"
  BY <1>1, <1>4, UncountedFinite, ScanBounds DEF NamesCounted, ScanTypeOK
<1>7. verdict = None
  BY <1>1
<1> QED
  BY <1>1, <1>2, <1>5, <1>6, <1>7 DEF NamesApart, FoundRecorded, Holds, None

LEMMA SetFoundKeepsInv ==
    ASSUME ScanInv, NEW w \in Scanners, SetFound(w)
    PROVE  ScanInv'
<1> USE DEF ScanInv
<1>1. /\ scanner[w].at = "found" /\ gui # "idle" /\ works' = works \cup {scanner[w].sni}
      /\ UNCHANGED <<gui, stopReq, nextSni, tested, nFound, posted, found, verdict>>
  BY DEF SetFound
<1>2. /\ scanner' \in [Scanners -> [at : {"none", "loop", "server", "log", "count",
                                          "found", "write", "ended"},
                                    sni : 0..SniCount, left : Nat, ok : BOOLEAN]]
      /\ scanner'[w].at = "write" /\ scanner'[w].sni = scanner[w].sni
      /\ \A x \in Scanners : x # w => scanner'[x] = scanner[x]
  BY <1>1, ScanAtEffect DEF SetFound
<1>3. scanner[w].sni \in 1..SniCount
  BY <1>1, ScanBounds DEF NamesApart, Holds, ScanTypeOK
<1>4. ScanTypeOK'
  BY <1>1, <1>2, <1>3 DEF ScanTypeOK
<1>5. Uncounted' = Uncounted
  BY <1>1, <1>2, UncountedSame DEF Uncounted
<1>6. verdict = None
  BY <1>1
<1> QED
  BY <1>1, <1>2, <1>4, <1>5, <1>6 DEF NamesCounted, NamesApart, FoundRecorded, Holds, None

LEMMA CountFoundKeepsInv ==
    ASSUME ScanInv, NEW w \in Scanners, CountFound(w)
    PROVE  ScanInv'
<1> USE DEF ScanInv
<1>1. /\ scanner[w].at = "write" /\ gui # "idle" /\ nFound' = nFound + 1
      /\ UNCHANGED <<gui, stopReq, nextSni, tested, posted, works, verdict>>
  BY DEF CountFound
<1>2. /\ ScanTypeOK'
      /\ scanner'[w].at = "ended" /\ scanner'[w].sni = scanner[w].sni
      /\ \A x \in Scanners : x # w => scanner'[x] = scanner[x]
  BY <1>1, ScanAtEffect DEF CountFound, ScanTypeOK
<1>3. Uncounted' = Uncounted
  BY <1>1, <1>2, UncountedSame DEF Uncounted
<1>4. found' \in works \/ \E x, y \in works : x # y
  <2>1. CASE found' = scanner[w].sni
    BY <1>1, <2>1 DEF FoundRecorded
  <2>2. CASE found' # scanner[w].sni
    <3>1. PICK x \in Scanners \ {w} : scanner[x].at = "write"
      BY <2>2 DEF CountFound
    <3>2. scanner[x].sni # scanner[w].sni
      BY <1>1, <3>1 DEF NamesApart, Holds
    <3> QED
      BY <1>1, <3>1, <3>2 DEF FoundRecorded
  <2> QED
    BY <2>1, <2>2
<1>5. nFound' > 0
  BY <1>1 DEF ScanTypeOK
<1>6. FoundRecorded'
  BY <1>1, <1>2, <1>4, <1>5 DEF FoundRecorded
<1> QED
  BY <1>1, <1>2, <1>3, <1>5, <1>6 DEF NamesCounted, NamesApart, Holds, None

LEMMA StopScanningKeepsInv ==
    ASSUME ScanInv, CancelScan \/ OnUpdateProgress
    PROVE  ScanInv'
<1> USE DEF ScanInv
<1>1. /\ gui = "scanning" /\ verdict = None
      /\ UNCHANGED <<nextSni, tested, nFound, scanner, posted, found, works, verdict>>
      /\ gui' \in {"joinFound", "joinExhausted", "joinCancelled"}
  BY DEF CancelScan, OnUpdateProgress, StopScanning
<1>2. gui' = "joinFound" => nFound > 0
  BY DEF CancelScan, OnUpdateProgress, StopScanning
<1>3. tested <= SniCount
  BY <1>1, UncountedFinite, ScanBounds DEF NamesCounted, ScanTypeOK
<1>4. gui' = "joinExhausted" => tested = SniCount
  <2>1. gui' = "joinExhausted" => tested >= SniCount
    BY DEF CancelScan, OnUpdateProgress, StopScanning
  <2> QED
    BY <1>3, <2>1, ScanBounds DEF ScanTypeOK
<1>5. Uncounted' = Uncounted
  BY <1>1 DEF Uncounted
<1>6. ScanTypeOK'
  BY <1>1 DEF ScanTypeOK
<1> QED
  BY <1>1, <1>2, <1>4, <1>5, <1>6 DEF NamesCounted, NamesApart, FoundRecorded, Holds, None

LEMMA ScanStoppedKeepsInv ==
    ASSUME ScanInv, ScanStopped
    PROVE  ScanInv'
<1> USE DEF ScanInv
<1>1. /\ gui \notin {"idle", "scanning"} /\ gui' = "idle" /\ verdict = None
      /\ \A w \in Scanners : scanner[w].at = "ended"
      /\ UNCHANGED <<stopReq, nextSni, tested, nFound, posted, found, works>>
      /\ scanner' = [w \in Scanners |-> [scanner[w] EXCEPT !.at = "none"]]
  BY DEF ScanStopped
<1>2. verdict' = CASE gui = "joinFound" -> "found"
                   [] gui = "joinNone" -> "nothingWorks"
                   [] gui = "joinExhausted" /\ nFound = 0 -> "nothingWorks"
                   [] OTHER -> verdict
  BY DEF ScanStopped
<1>3. \/ gui = "joinFound" /\ verdict' = "found"
      \/ gui = "joinExhausted" /\ nFound = 0 /\ verdict' = "nothingWorks"
      \/ verdict' = None
  BY <1>1, <1>2 DEF ScanTypeOK
<1>4. nFound = 0 => works = {}
  BY <1>1 DEF FoundRecorded
<1>5. \A w \in Scanners : /\ scanner'[w].at = "none"
                          /\ scanner'[w] \in [at : {"none"}, sni : 0..SniCount,
                                              left : Nat, ok : BOOLEAN]
  BY <1>1 DEF ScanTypeOK
<1>6. scanner' \in [Scanners -> [at : {"none", "loop", "server", "log", "count",
                                       "found", "write", "ended"},
                                 sni : 0..SniCount, left : Nat, ok : BOOLEAN]]
  BY <1>1, <1>5
<1>7. ScanTypeOK'
  BY <1>1, <1>3, <1>6 DEF ScanTypeOK
<1>8. NamesApart' /\ NamesCounted'
  BY <1>1, <1>5 DEF NamesApart, NamesCounted, Holds
<1>9. FoundRecorded'
  BY <1>1, <1>5 DEF FoundRecorded
<1> QED
  BY <1>1, <1>3, <1>4, <1>5, <1>7, <1>8, <1>9 DEF None

LEMMA ScanNextInv ==
    ASSUME ScanInv, [ScanNext]_scanVars
    PROVE  ScanInv'
<1>1. ASSUME NEW w \in Scanners, ScanWork(w)
      PROVE  ScanInv'
  BY <1>1, GetNextSniKeepsInv, TestSniKeepsInv, AddLogEntryKeepsInv, CountTestedKeepsInv,
     SetFoundKeepsInv, CountFoundKeepsInv DEF ScanWork
<1>2. ASSUME UNCHANGED <<gui, nextSni, tested, nFound, scanner, found, works, verdict>>
      PROVE  ScanInv'
  <2>1. Uncounted' = Uncounted
    BY <1>2 DEF Uncounted
  <2> QED
    BY <1>2, <2>1 DEF ScanInv, ScanTypeOK, NamesCounted, NamesApart, FoundRecorded, Holds
<1> QED
  BY <1>1, <1>2, StartScanningKeepsInv, StopScanningKeepsInv, ScanStoppedKeepsInv
  DEF ScanNext, ShowLogEntries, scanVars

LEMMA ScanInitInv ==
    ASSUME ScanInit
    PROVE  ScanInv
<1>1. ScanTypeOK
  BY ScanBounds DEF ScanInit, ScanTypeOK
<1> QED
  BY <1>1 DEF ScanInit, ScanInv, NamesCounted, NamesApart, FoundRecorded, Holds, None

(* The dialog says that no name works only when all were tested and none   *)
(* did, and a name that alone works is saved as it was tested, for any     *)
(* number of workers, servers and names.                                   *)
THEOREM VerdictIsHonest == ScanSpec => []HonestVerdict
<1>1. ScanInit => ScanInv
  BY ScanInitInv
<1>2. ScanInv /\ [ScanNext]_scanVars => ScanInv'
  BY ScanNextInv
<1>3. ScanInv => HonestVerdict
  <2> SUFFICES ASSUME ScanInv, verdict = "found", Cardinality(works) = 1
               PROVE  found \in works
    BY DEF ScanInv, HonestVerdict
  <2>1. IsFiniteSet(works)
    <3>1. works \subseteq 1..SniCount
      BY DEF ScanInv, ScanTypeOK
    <3>2. 1 \in Int /\ SniCount \in Int
      BY ScanBounds
    <3>3. IsFiniteSet(1..SniCount)
      BY <3>2, FS_Interval
    <3> QED
      BY <3>1, <3>3, FS_Subset
  <2>2. \E x : works = {x}
    BY <2>1, FS_Singleton
  <2> QED
    BY <2>2 DEF ScanInv, FoundRecorded
<1> QED
  BY <1>1, <1>2, <1>3, PTL DEF ScanSpec

-----------------------------------------------------------------------------
(* The pings of the tray                                                   *)

Pinged == {s \in TrayServers : pingJobs[s] > 0}

(* The inductive invariant: a server is about to be pinged, or is being    *)
(* pinged once, or neither.                                                *)
PingInv ==
    /\ toPing \subseteq TrayServers
    /\ pingJobs \in [TrayServers -> 0..1]
    /\ toPing \cap Pinged = {}
    /\ pending = Cardinality(toPing) + Cardinality(Pinged)

LEMMA PingedFinite ==
    ASSUME PingInv
    PROVE  /\ IsFiniteSet(toPing) /\ IsFiniteSet(Pinged)
           /\ Cardinality(toPing) \in Nat /\ Cardinality(Pinged) \in Nat
           /\ Cardinality(toPing) = 0 <=> toPing = {}
           /\ Cardinality(Pinged) = 0 <=> Pinged = {}
<1>1. IsFiniteSet(toPing) /\ IsFiniteSet(Pinged)
  BY TrayAssumption, FS_Subset DEF PingInv, Pinged
<1> QED
  BY <1>1, FS_CardinalityType, FS_EmptySet

LEMMA OnPingTimeoutKeepsInv ==
    ASSUME PingInv, OnPingTimeout
    PROVE  PingInv'
<1>1. toPing = {} /\ pingJobs' = pingJobs
  BY DEF OnPingTimeout
<1>2. Pinged' = Pinged
  BY <1>1 DEF Pinged
<1>3. CASE UNCHANGED <<pending, toPing>>
  BY <1>1, <1>2, <1>3 DEF PingInv
<1>4. CASE ~(pending > 0) /\ pending' = Cardinality(TrayServers) /\ toPing' = TrayServers
  <2>1. Pinged = {}
    BY <1>1, <1>4, PingedFinite DEF PingInv
  <2>2. Cardinality(TrayServers) \in Nat /\ Cardinality({}) = 0
    BY TrayAssumption, FS_CardinalityType, FS_EmptySet
  <2> QED
    BY <1>1, <1>2, <1>4, <2>1, <2>2 DEF PingInv
<1> QED
  BY <1>3, <1>4 DEF OnPingTimeout

LEMMA PostPingKeepsInv ==
    ASSUME PingInv, PostPing
    PROVE  PingInv'
<1>1. PICK s \in toPing : toPing' = toPing \ {s} /\ pingJobs' = [pingJobs EXCEPT ![s] = @ + 1]
  BY DEF PostPing
<1>2. pending' = pending /\ s \in TrayServers
  BY <1>1 DEF PostPing, PingInv
<1>3. s \notin Pinged /\ pingJobs[s] = 0
  BY <1>1, <1>2 DEF PingInv, Pinged
<1>4. /\ pingJobs'[s] = 1 /\ pingJobs' \in [TrayServers -> 0..1]
      /\ \A x \in TrayServers : x # s => pingJobs'[x] = pingJobs[x]
  BY <1>1, <1>2, <1>3 DEF PingInv
<1>5. Pinged' = Pinged \cup {s}
  BY <1>2, <1>4 DEF Pinged
<1>6. /\ Cardinality(toPing') = Cardinality(toPing) - 1
      /\ Cardinality(Pinged') = Cardinality(Pinged) + 1
  BY <1>1, <1>3, <1>5, PingedFinite, FS_RemoveElement, FS_AddElement
<1> QED
  BY <1>1, <1>2, <1>4, <1>5, <1>6, PingedFinite DEF PingInv

LEMMA PingServerKeepsInv ==
    ASSUME PingInv, NEW s \in TrayServers, PingServer(s)
    PROVE  PingInv'
<1>1. /\ pingJobs[s] > 0 /\ pingJobs' = [pingJobs EXCEPT ![s] = @ - 1]
      /\ pending' = pending - 1 /\ toPing' = toPing
  BY DEF PingServer
<1>2. /\ pingJobs'[s] = 0 /\ pingJobs' \in [TrayServers -> 0..1]
      /\ \A x \in TrayServers : x # s => pingJobs'[x] = pingJobs[x]
  BY <1>1 DEF PingInv
<1>3. s \in Pinged /\ Pinged' = Pinged \ {s}
  BY <1>1, <1>2 DEF Pinged
<1>4. Cardinality(Pinged') = Cardinality(Pinged) - 1
  BY <1>3, PingedFinite, FS_RemoveElement
<1> QED
  BY <1>1, <1>2, <1>3, <1>4, PingedFinite DEF PingInv

LEMMA PingNextInv ==
    ASSUME PingInv, [GuiNext]_guiVars
    PROVE  PingInv'
<1>1. ASSUME UNCHANGED <<toPing, pending, pingJobs>>
      PROVE  PingInv'
  <2>1. Pinged' = Pinged
    BY <1>1 DEF Pinged
  <2> QED
    BY <1>1, <2>1 DEF PingInv
<1>2. CASE Menu \/ HandleDisconnecting
  BY <1>1, <1>2 DEF Menu, OnConnectToServer, HandleDefaultState, OnDisconnectFromServer, Quit,
     HandleDisconnecting, HandleConnecting, StartPingMonitoring, StopPingMonitoring
<1>3. CASE WatcherFinished \/ HandleTimer \/ ClientUp \/ ClientDies
  BY <1>1, <1>3 DEF WatcherFinished, HandleTimer, ClientUp, ClientDies, pingVars
<1>4. CASE StartVpn
  BY <1>1, <1>4 DEF StartVpn, CheckGateway, FindBestServer, ResolveServer, LoginToServer,
     PrepareRoutes, BuildClient, LaunchClient, ClientStarted, WaitUntilStarted, pingVars
<1>5. CASE PingTimer \/ UNCHANGED guiVars
  BY <1>1, <1>5 DEF PingTimer, guiVars, pingVars
<1> QED
  BY <1>2, <1>3, <1>4, <1>5, OnPingTimeoutKeepsInv, PostPingKeepsInv, PingServerKeepsInv
  DEF GuiNext

(* However many handlers the ping timer has, pending_pings_ is the number  *)
(* of pings posted or about to be, and no server is pinged twice at once.  *)
THEOREM PingsAreCounted == GuiSpec => []PingsCounted
<1>1. GuiInit => PingInv
  <2> SUFFICES ASSUME GuiInit PROVE PingInv
    OBVIOUS
  <2>1. Pinged = {} /\ toPing = {} /\ pending = 0
    BY DEF GuiInit, Pinged
  <2> QED
    BY <2>1, FS_EmptySet DEF GuiInit, PingInv
<1>2. PingInv /\ [GuiNext]_guiVars => PingInv'
  BY PingNextInv
<1>3. PingInv => PingsCounted
  BY DEF PingInv, PingsCounted, Pinged
<1> QED
  BY <1>1, <1>2, <1>3, PTL DEF GuiSpec

-----------------------------------------------------------------------------
(* The tray and its worker                                                 *)

TrayTypeOK ==
    /\ ui \in {"none", "connecting", "connected", "quit"}
    /\ cancelled \in BOOLEAN /\ inProgress \in BOOLEAN
    /\ job \in [at : {"idle", "gateway", "search", "resolve", "login", "dns", "build",
                      "start", "starting", "wait", "finished"},
                server : TrayServers \cup {NoServer}, ok : BOOLEAN]
    /\ job.at = "idle" => job = NoJob
    /\ selServer \in TrayServers \cup {NoServer}
    /\ client \in [server : TrayServers \cup {NoServer},
                   st : {"none", "built", "starting", "up", "dead"}]
    /\ client.st = "none" => client = NoClient
    /\ popups \in Seq({"failed", "lost"})

(* The worker has handed over, or is about to, the client it built.        *)
HasClient == job.at \in {"start", "starting", "wait"} \/ (job.at = "finished" /\ job.ok)

(* A worker that was not given up is the one the tray shows at work, and   *)
(* what it did so far was for the selected server.                         *)
WorkerFollowed ==
    job.at # "idle" /\ ~cancelled =>
       /\ ui = "connecting"
       /\ job.at \in {"login", "dns", "build"} => job.server = selServer
       /\ HasClient => client.st # "none" /\ client.server = selServer

(* Whoever shows or causes a disconnect has taken the client away.         *)
ClientGone ==
    /\ ui \in {"none", "quit"} \/ cancelled => client.st \in {"none", "built"}
    /\ cancelled /\ job.at \in {"start", "starting", "wait"} => client.st = "none"

(* While the message of a failed attempt is open no other attempt starts.  *)
FailureHolds ==
    /\ \A i \in 1..Len(popups) : popups[i] = "failed" => job.at = "idle" /\ inProgress
    /\ \A i, j \in 1..Len(popups) : popups[i] = "failed" /\ popups[j] = "failed" => i = j

(* The inductive invariant of the tray.                                    *)
TrayInv ==
    ~crashed =>
       /\ TrayTypeOK
       /\ job.at # "idle" => inProgress
       /\ ui = "connected" => job.at = "idle" /\ client.st # "none" /\ client.server = selServer
       /\ WorkerFollowed
       /\ ClientGone
       /\ FailureHolds

LEMMA MenuKeepsInv ==
    ASSUME TrayInv, Menu
    PROVE  TrayInv'
<1> SUFFICES ASSUME ~crashed, ~crashed'
             PROVE  TrayInv'
  BY DEF TrayInv, Menu, OnConnectToServer, HandleDefaultState, OnDisconnectFromServer, Quit,
     GuiFree
<1> USE DEF TrayInv, TrayTypeOK, WorkerFollowed, ClientGone, FailureHolds, HasClient, NoJob,
            NoClient, NoServer
<1>1. CASE OnConnectToServer
  <2>1. /\ ui = "none" /\ ui' = "connecting" /\ UNCHANGED <<client, popups>>
        /\ selServer' \in TrayServers \cup {NoServer}
    BY <1>1 DEF OnConnectToServer, HandleConnecting
  <2>2. CASE inProgress
    <3>1. UNCHANGED <<cancelled, inProgress, job>>
      BY <1>1, <2>2 DEF OnConnectToServer, HandleConnecting
    <3> QED
      BY <2>1, <3>1
  <2>3. CASE ~inProgress
    <3>1. /\ cancelled' = FALSE /\ inProgress' = TRUE
          /\ job' = [at |-> "gateway", server |-> "noServer", ok |-> FALSE]
      BY <1>1, <2>3 DEF OnConnectToServer, HandleConnecting
    <3> QED
      BY <2>1, <2>3, <3>1
  <2> QED
    BY <2>2, <2>3
<1>2. CASE HandleDefaultState
  BY <1>2 DEF HandleDefaultState, StopVpn
<1>3. CASE OnDisconnectFromServer
  BY <1>3 DEF OnDisconnectFromServer, StopVpn
<1>4. CASE Quit
  BY <1>4 DEF Quit, StopVpn
<1> QED
  BY <1>1, <1>2, <1>3, <1>4 DEF Menu

LEMMA HandleDisconnectingKeepsInv ==
    ASSUME TrayInv, HandleDisconnecting
    PROVE  TrayInv'
<1> SUFFICES ASSUME ~crashed, ~crashed'
             PROVE  TrayInv'
  BY DEF TrayInv, HandleDisconnecting, GuiFree
<1> DEFINE n == Len(popups)
<1>1. /\ popups # << >> /\ popups' = SubSeq(popups, 1, n - 1)
      /\ ui' = "none" /\ cancelled' = TRUE /\ client' = NoClient
      /\ inProgress' = (inProgress /\ popups[n] # "failed")
      /\ UNCHANGED <<selServer, job>>
  BY DEF HandleDisconnecting, StopVpn
<1>2. popups \in Seq({"failed", "lost"}) /\ n \in Nat /\ n > 0
  BY <1>1 DEF TrayInv, TrayTypeOK
<1>3. /\ popups' \in Seq({"failed", "lost"}) /\ Len(popups') = n - 1
      /\ \A i \in 1..(n - 1) : popups'[i] = popups[i]
  <2>1. n - 1 \in Int /\ \A i \in 1..(n - 1) : popups[i] \in {"failed", "lost"}
    BY <1>2
  <2>2. /\ SubSeq(popups, 1, n - 1) \in Seq({"failed", "lost"})
        /\ Len(SubSeq(popups, 1, n - 1)) = IF 1 <= n - 1 THEN (n - 1) - 1 + 1 ELSE 0
        /\ \A i \in 1..((n - 1) - 1 + 1) : SubSeq(popups, 1, n - 1)[i] = popups[1 + i - 1]
    BY <2>1, SubSeqProperties
  <2>3. PICK q : q = SubSeq(popups, 1, n - 1)
    OBVIOUS
  <2>4. /\ q \in Seq({"failed", "lost"}) /\ Len(q) = n - 1
        /\ \A i \in 1..(n - 1) : q[i] = popups[i]
    <3> HIDE DEF n
    <3> QED
      BY <1>2, <2>2, <2>3
  <2> QED
    BY <1>1, <2>3, <2>4
<1>4. FailureHolds'
  <2>1. \A i \in 1..(n - 1) : popups'[i] = "failed" => popups[n] # "failed"
    BY <1>2, <1>3 DEF TrayInv, FailureHolds
  <2>2. \A i \in 1..(n - 1) : popups'[i] = "failed" => job.at = "idle" /\ inProgress
    BY <1>2, <1>3 DEF TrayInv, FailureHolds
  <2>3. \A i \in 1..(n - 1) : popups'[i] = "failed" => job'.at = "idle" /\ inProgress'
    BY <1>1, <2>1, <2>2
  <2>4. \A i, j \in 1..(n - 1) : popups'[i] = "failed" /\ popups'[j] = "failed" => i = j
    BY <1>2, <1>3 DEF TrayInv, FailureHolds
  <2> QED
    BY <1>3, <2>3, <2>4 DEF FailureHolds
<1>5. job.at # "idle" => popups[n] # "failed"
  BY <1>2 DEF TrayInv, FailureHolds
<1>6. TrayTypeOK'
  BY <1>1, <1>3 DEF TrayInv, TrayTypeOK, NoClient
<1>7. job.at # "idle" => inProgress'
  BY <1>1, <1>5 DEF TrayInv
<1> QED
  BY <1>1, <1>4, <1>6, <1>7 DEF TrayInv, WorkerFollowed, ClientGone, NoClient

LEMMA WatcherFinishedKeepsInv ==
    ASSUME TrayInv, WatcherFinished
    PROVE  TrayInv'
<1> SUFFICES ASSUME ~crashed, ~crashed'
             PROVE  TrayInv'
  BY DEF TrayInv, WatcherFinished, GuiFree
<1>1. /\ job.at = "finished" /\ job' = NoJob /\ UNCHANGED <<selServer, client>>
      /\ CASE cancelled -> inProgress' = FALSE /\ UNCHANGED <<ui, cancelled, popups>>
           [] ~cancelled /\ job.ok -> /\ ui' = "connected" /\ inProgress' = FALSE
                                      /\ UNCHANGED <<cancelled, popups>>
           [] ~cancelled /\ ~job.ok -> /\ popups' = Append(popups, "failed")
                                       /\ UNCHANGED <<ui, inProgress, cancelled>>
  BY DEF WatcherFinished
<1>2. popups \in Seq({"failed", "lost"}) /\ Len(popups) \in Nat
  BY DEF TrayInv, TrayTypeOK
<1>3. job'.at = "idle"
  BY <1>1 DEF NoJob
<1>4. \A i \in 1..Len(popups) : popups[i] # "failed"
  BY <1>1 DEF TrayInv, FailureHolds
<1>5. inProgress /\ ui # "connected"
  BY <1>1 DEF TrayInv
<1>6. CASE ~cancelled /\ ~job.ok
  <2>1. /\ popups' \in Seq({"failed", "lost"}) /\ Len(popups') = Len(popups) + 1
        /\ \A i \in 1..Len(popups) : popups'[i] = popups[i]
        /\ UNCHANGED <<ui, inProgress, cancelled>>
    <3>1. popups' = Append(popups, "failed") /\ UNCHANGED <<ui, inProgress, cancelled>>
      BY <1>1, <1>6
    <3> QED
      BY <1>2, <3>1
  <2>2. FailureHolds'
    BY <1>2, <1>3, <1>4, <1>5, <2>1 DEF FailureHolds
  <2>3. TrayTypeOK'
    BY <1>1, <2>1 DEF TrayInv, TrayTypeOK, NoJob
  <2> QED
    BY <1>1, <1>3, <1>5, <2>1, <2>2, <2>3 DEF TrayInv, WorkerFollowed, ClientGone
<1>7. CASE cancelled \/ job.ok
  <2>1. popups' = popups /\ cancelled' = cancelled /\ inProgress' = FALSE
        /\ (ui' = ui \/ (~cancelled /\ job.ok /\ ui' = "connected"))
    BY <1>1, <1>7 DEF TrayInv, TrayTypeOK
  <2>2. FailureHolds'
    BY <1>4, <2>1 DEF FailureHolds
  <2>3. TrayTypeOK'
    BY <1>1, <2>1 DEF TrayInv, TrayTypeOK, NoJob
  <2> QED
    BY <1>1, <1>3, <1>5, <2>1, <2>2, <2>3
    DEF TrayInv, WorkerFollowed, HasClient, ClientGone
<1> QED
  BY <1>6, <1>7 DEF TrayInv, TrayTypeOK

LEMMA HandleTimerKeepsInv ==
    ASSUME TrayInv, HandleTimer
    PROVE  TrayInv'
<1> SUFFICES ASSUME ~crashed, ~crashed'
             PROVE  TrayInv'
  BY DEF TrayInv, HandleTimer, GuiFree
<1>1. /\ popups' = Append(popups, "lost")
      /\ UNCHANGED <<ui, cancelled, inProgress, selServer, job, client>>
  BY DEF HandleTimer
<1>2. popups \in Seq({"failed", "lost"}) /\ Len(popups) \in Nat
  BY DEF TrayInv, TrayTypeOK
<1>3. /\ popups' \in Seq({"failed", "lost"}) /\ Len(popups') = Len(popups) + 1
      /\ popups'[Len(popups) + 1] = "lost"
      /\ \A i \in 1..Len(popups) : popups'[i] = popups[i]
  BY <1>1, <1>2
<1>4. FailureHolds'
  BY <1>1, <1>2, <1>3 DEF TrayInv, FailureHolds
<1>5. TrayTypeOK'
  BY <1>1, <1>3 DEF TrayInv, TrayTypeOK
<1> QED
  BY <1>1, <1>4, <1>5 DEF TrayInv, WorkerFollowed, HasClient, ClientGone

(* startVpn gives up, or goes on to the next place unless it is cancelled. *)
LEMMA FinishEffect ==
    ASSUME TrayTypeOK, NEW ok \in BOOLEAN, Finish(ok)
    PROVE  job'.at = "finished" /\ job'.ok = ok /\ job'.server = job.server
           /\ job' \in [at : {"finished"}, server : TrayServers \cup {NoServer}, ok : BOOLEAN]
BY DEF TrayTypeOK, Finish

LEMMA GoOnEffect ==
    ASSUME TrayTypeOK, NEW next, GoOn(next)
    PROVE  job'.at = next /\ job'.server = job.server
           /\ job' \in [at : {next}, server : TrayServers \cup {NoServer}, ok : BOOLEAN]
BY DEF TrayTypeOK, GoOn

LEMMA UnlessCancelledEffect ==
    ASSUME TrayTypeOK, NEW next, UnlessCancelled(next)
    PROVE  /\ job'.server = job.server
           /\ cancelled => job'.at = "finished" /\ ~job'.ok
           /\ ~cancelled => job'.at = next
           /\ job' \in [at : {"finished", next}, server : TrayServers \cup {NoServer},
                        ok : BOOLEAN]
BY FinishEffect, GoOnEffect DEF UnlessCancelled, TrayTypeOK

LEMMA StartVpnKeepsInv ==
    ASSUME TrayInv, StartVpn
    PROVE  TrayInv'
<1> SUFFICES ASSUME ~crashed, ~crashed'
             PROVE  TrayInv'
  BY DEF TrayInv, StartVpn
<1> USE DEF TrayInv, TrayTypeOK, WorkerFollowed, ClientGone, FailureHolds, HasClient
<1>1. CASE CheckGateway
  <2>1. /\ job.at = "gateway"
        /\ Finish(FALSE) \/ UnlessCancelled("search")
        /\ UNCHANGED <<ui, cancelled, inProgress, selServer, client, popups>>
    BY <1>1 DEF CheckGateway
  <2>2. CASE Finish(FALSE)
    BY <2>1, <2>2, FinishEffect
  <2>3. CASE UnlessCancelled("search")
    BY <2>1, <2>3, UnlessCancelledEffect
  <2> QED
    BY <2>1, <2>2, <2>3
<1>2. CASE FindBestServer
  <2>1. /\ job.at = "search"
        /\ Finish(FALSE) \/ GoOn("resolve")
        /\ selServer' \in TrayServers \cup {NoServer}
        /\ UNCHANGED <<ui, cancelled, inProgress, client, popups>>
    BY <1>2 DEF FindBestServer
  <2>2. CASE Finish(FALSE)
    BY <2>1, <2>2, FinishEffect
  <2>3. CASE GoOn("resolve")
    BY <2>1, <2>3, GoOnEffect
  <2> QED
    BY <2>1, <2>2, <2>3
<1>3. CASE ResolveServer
  BY <1>3, FinishEffect DEF ResolveServer
<1>4. CASE LoginToServer
  <2>1. /\ job.at = "login"
        /\ Finish(FALSE) \/ UnlessCancelled("dns")
        /\ UNCHANGED <<ui, cancelled, inProgress, selServer, client, popups>>
    BY <1>4 DEF LoginToServer
  <2>2. CASE Finish(FALSE)
    BY <2>1, <2>2, FinishEffect
  <2>3. CASE UnlessCancelled("dns")
    BY <2>1, <2>3, UnlessCancelledEffect
  <2> QED
    BY <2>1, <2>2, <2>3
<1>5. CASE PrepareRoutes
  <2>1. /\ job.at = "dns"
        /\ Finish(FALSE) \/ UnlessCancelled("build")
        /\ UNCHANGED <<ui, cancelled, inProgress, selServer, client, popups>>
    BY <1>5 DEF PrepareRoutes
  <2>2. CASE Finish(FALSE)
    BY <2>1, <2>2, FinishEffect
  <2>3. CASE UnlessCancelled("build")
    BY <2>1, <2>3, UnlessCancelledEffect
  <2> QED
    BY <2>1, <2>2, <2>3
<1>6. CASE BuildClient
  BY <1>6, UnlessCancelledEffect DEF BuildClient
<1>7. CASE LaunchClient
  BY <1>7, GoOnEffect DEF LaunchClient, NoClient
<1>8. CASE ClientStarted
  BY <1>8, UnlessCancelledEffect DEF ClientStarted
<1>9. CASE WaitUntilStarted
  BY <1>9, FinishEffect DEF WaitUntilStarted, NoClient
<1> QED
  BY <1>1, <1>2, <1>3, <1>4, <1>5, <1>6, <1>7, <1>8, <1>9 DEF StartVpn

LEMMA TrayNextInv ==
    ASSUME TrayInv, [GuiNext]_guiVars
    PROVE  TrayInv'
<1>1. CASE ClientUp \/ ClientDies
  BY <1>1 DEF ClientUp, ClientDies, TrayInv, TrayTypeOK, WorkerFollowed, ClientGone,
     FailureHolds, HasClient
<1>2. CASE UNCHANGED trayVars
  BY <1>2 DEF trayVars, TrayInv, TrayTypeOK, WorkerFollowed, ClientGone, FailureHolds, HasClient
<1>3. ASSUME PingTimer \/ OnPingTimeout \/ PostPing \/ \E s \in TrayServers : PingServer(s)
      PROVE  TrayInv'
  BY <1>2, <1>3 DEF PingTimer, OnPingTimeout, PostPing, PingServer
<1> QED
  BY <1>1, <1>2, <1>3, MenuKeepsInv, HandleDisconnectingKeepsInv, WatcherFinishedKeepsInv,
     HandleTimerKeepsInv, StartVpnKeepsInv DEF GuiNext, guiVars

(* As long as no thread has used a freed client, the tray shows the truth, *)
(* whatever is clicked while a worker runs or a message is open.           *)
THEOREM TrayIsTruthful == GuiSpec => []TrayTellsTruth
<1>1. GuiInit => TrayInv
  <2> SUFFICES ASSUME GuiInit PROVE TrayInv
    OBVIOUS
  <2>1. /\ ui = "none" /\ cancelled = FALSE /\ inProgress = FALSE /\ selServer = NoServer
        /\ job = NoJob /\ client = NoClient /\ popups = << >>
    BY DEF GuiInit
  <2>2. popups \in Seq({"failed", "lost"}) /\ Len(popups) = 0
    BY <2>1
  <2>3. TrayTypeOK
    BY <2>1, <2>2 DEF TrayTypeOK, NoJob, NoClient
  <2> QED
    BY <2>1, <2>2, <2>3 DEF TrayInv, WorkerFollowed, ClientGone, FailureHolds, NoJob, NoClient
<1>2. TrayInv /\ [GuiNext]_guiVars => TrayInv'
  BY TrayNextInv
<1>3. TrayInv => TrayTellsTruth
  BY DEF TrayInv, TrayTellsTruth, TrayTypeOK, ClientGone, NoJob, NoClient
<1> QED
  BY <1>1, <1>2, <1>3, PTL DEF GuiSpec
=============================================================================
