------------------------------ MODULE Plugins -------------------------------
(***************************************************************************)
(* The client's plugins, asked in turn about every packet that comes out   *)
(* of the tunnel until one of them is triggered: DomainBlacklist learns    *)
(* the addresses of blocked names from DNS answers and drops packets from  *)
(* them; Tunneling sends addresses past the tunnel through RouteManager.   *)
(***************************************************************************)
EXTENDS FiniteSets, Naturals

CONSTANTS
    Names,        \* domain names
    Blacklisted,  \* the names that match a blacklist rule
    SplitNames,   \* the names that match a rule of the split tunnel
    IPv4s, IPv6s, \* addresses
    Policies      \* of "exclude" (kExcludeFromVpn), "include" (kIncludeInVpn)

ASSUME PolicyValues == Policies \subseteq {"exclude", "include"}

ASSUME FamiliesDisjoint == IPv4s \cap IPv6s = {}

VARIABLES
    policy,      \* Tunneling's policy_
    gatewayIPv6, \* RouteManager's config_.gateway_ipv6 is set
    ipv4Blocked, \* ipv4_addresses_
    ipv6Blocked, \* ipv6_addresses_
    recorded,    \* dns_routes_ipv4_, dns_routes_ipv6_
    bypass,      \* addresses with a route past the tunnel in the system
    answers,     \* the DNS answers seen: << name, address >>
    unrouted,    \* addresses whose route could not be added at some time
    passed       \* what was delivered from an address that an answer had given
                 \* to a blacklisted name: << address, how >>

pluginVars == <<policy, gatewayIPv6, ipv4Blocked, ipv6Blocked, recorded, bypass, answers,
                unrouted, passed>>

PluginInit ==
    /\ policy \in Policies /\ gatewayIPv6 \in BOOLEAN
    /\ ipv4Blocked = {} /\ ipv6Blocked = {} /\ recorded = {} /\ bypass = {}
    /\ answers = {} /\ unrouted = {} /\ passed = {}

-----------------------------------------------------------------------------
(* DomainBlacklist::HandlePacket for a DNS answer about a blacklisted      *)
(* name; it looks for an IPv6 address where it should look for its absence.*)
BlacklistAnswer(a4, a6) ==
    /\ ipv4Blocked' = ipv4Blocked \cup a4
    /\ ipv6Blocked' = ipv6Blocked \cup (a6 \cap ipv6Blocked)

(* Wrong variant: the two policies are mixed up.                           *)
GoesPast_Swapped(name) == IF policy = "include" THEN name \in SplitNames ELSE name \notin SplitNames

(* Tunneling: which names are kept out of the tunnel.                      *)
GoesPast(name) == IF policy = "include" THEN name \notin SplitNames ELSE name \in SplitNames

(* RouteManager::AddDnsRoutesIPv4 and -IPv6 with kExcludeFromVpn, the only *)
(* policy Tunneling passes: a destination that is recorded is not added    *)
(* again.  A route command that fails goes unnoticed and its destination   *)
(* stays recorded; an exception on the way takes an IPv4 one back out.     *)
(* The interface is known: packets arrive after Apply.                     *)
AddDnsRoutes(addresses) ==
    \E added, thrown \in SUBSET (addresses \ recorded) :
       /\ thrown \subseteq IPv4s \ added
       /\ recorded' = recorded \cup (addresses \ thrown)
       /\ bypass' = bypass \cup added
       /\ unrouted' = unrouted \cup ((addresses \ recorded) \ added)

(* Without an IPv6 gateway AddDnsRoutesIPv6 returns at once.               *)
Routable(a4, a6) == a4 \cup (IF gatewayIPv6 THEN a6 ELSE {})

Deliver(a, how) ==
    passed' = IF \E name \in Blacklisted : <<name, a>> \in answers THEN passed \cup {<<a, how>>}
              ELSE passed

(* An answer through the chain: a blacklisted name triggers the first      *)
(* plugin, and the second is not asked.  The answer itself is delivered    *)
(* whoever it comes from: of a packet with UDP port 53 the blacklist looks *)
(* at the name only.                                                       *)
DnsAnswer(src, name, a4, a6) ==
    /\ answers' = answers \cup ({name} \X (a4 \cup a6))
    /\ Deliver(src, "dns")
    /\ IF name \in Blacklisted
       THEN BlacklistAnswer(a4, a6) /\ UNCHANGED <<recorded, bypass, unrouted>>
       ELSE /\ IF GoesPast(name) THEN AddDnsRoutes(Routable(a4, a6))
               ELSE UNCHANGED <<recorded, bypass, unrouted>>
            /\ UNCHANGED <<ipv4Blocked, ipv6Blocked>>
    /\ UNCHANGED <<policy, gatewayIPv6>>

(* Any other packet out of the tunnel: dropped, or delivered.              *)
DataPacket(a) ==
    /\ a \notin ipv4Blocked \cup ipv6Blocked
    /\ Deliver(a, "data")
    /\ UNCHANGED <<policy, gatewayIPv6, ipv4Blocked, ipv6Blocked, recorded, bypass, answers,
                   unrouted>>

(* What goes past the tunnel meets no plugin.                              *)
PacketPast(a) ==
    /\ a \in bypass
    /\ Deliver(a, "past")
    /\ UNCHANGED <<policy, gatewayIPv6, ipv4Blocked, ipv6Blocked, recorded, bypass, answers,
                   unrouted>>

PluginNext ==
    \/ \E src \in IPv4s \cup IPv6s, name \in Names, a4 \in SUBSET IPv4s, a6 \in SUBSET IPv6s :
          DnsAnswer(src, name, a4, a6)
    \/ \E a \in IPv4s \cup IPv6s : DataPacket(a) \/ PacketPast(a)

PluginSpec == PluginInit /\ [][PluginNext]_pluginVars

-----------------------------------------------------------------------------
(* Properties                                                              *)

(* The addresses some answer gave to a name that the policy wants out of   *)
(* the tunnel, a listed one when lists exclude, an unlisted one when they  *)
(* include, and that is not blacklisted.                                   *)
WantedOut ==
    {a \in IPv4s \cup IPv6s :
       \E name \in Names \ Blacklisted :
          /\ name \in SplitNames <=> policy = "exclude"
          /\ <<name, a>> \in answers}

(* Once an answer named an IPv4 address for a blacklisted name, no packet  *)
(* from it comes out of the tunnel but DNS, whatever other names share the *)
(* address; past the tunnel it is heard only if another name took it out.  *)
(* Only the addresses the policy wants out go past the tunnel, and all of  *)
(* them do, but for IPv6 without a gateway and for those whose route       *)
(* command failed.                                                         *)
PluginsHonoured ==
    /\ \A a \in IPv4s : /\ <<a, "data">> \notin passed
                        /\ <<a, "past">> \in passed => a \in WantedOut
    /\ bypass \subseteq WantedOut
    /\ \A a \in WantedOut \ bypass : a \in unrouted \/ (a \in IPv6s /\ ~gatewayIPv6)

(* The command line promises to "completely block access" to a blacklisted *)
(* domain: that would be IPv6 too.                                         *)
BlacklistComplete == \A a \in IPv4s \cup IPv6s : <<a, "data">> \notin passed
=============================================================================
