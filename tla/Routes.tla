------------------------------- MODULE Routes -------------------------------
(***************************************************************************)
(* The client's RouteManager on Linux: what Apply and Clean do to the      *)
(* system, command by command, the routes added meanwhile for the answers  *)
(* to DNS questions from the packet thread, and the process being killed   *)
(* at any point and started again.  Any command may fail: that is only     *)
(* logged, so both lists always run to their end.  A command here stands   *)
(* for the neighbouring ones of the code that make up one item; of an item *)
(* all or nothing is done.                                                 *)
(***************************************************************************)
EXTENDS Naturals, Sequences

CONSTANTS
    Destinations,   \* addresses a route is asked for after a DNS answer
    Destinations6,  \* the IPv6 ones among them
    MaxKills,       \* bound: how often the process is killed
    MayFail         \* commands that may fail, each time they run

Orig == {"original"}
NoBackup == {}

(* RouteEntry: a destination and a RoutingPolicy.                          *)
RouteEntries == Destinations \X {"exclude", "include"}

VARIABLES
    net,       \* the system: rules, routes, name resolution
    ran,       \* how many commands Apply or Clean has run, under its mutex
    up,        \* running_
    alive,     \* the process
    custom,    \* custom_dns_ipv4 is set
    givenOut,  \* out_interface_name is set, not detected
    given6,    \* gateway_ipv6 is set
    gateway6,  \* detected_gateway_ipv6_ is not empty
    applied,   \* Apply has run in this process
    linkSaved, \* original_dns_servers_
    dnsRoutes, \* dns_routes_ipv4_, dns_routes_ipv6_
    adding,    \* AddDnsRoutesIPv4, -IPv6: recorded, not yet added to the system
    failed,    \* commands that failed, ever
    kills,     \* how often the process was killed
    raced      \* a route was recorded before Clean and added after its batch

config == <<custom, givenOut, given6>>
detected == <<gateway6, applied, linkSaved>>
routeVars == <<net, ran, up, alive, config, detected, dnsRoutes, adding, failed, kills, raced>>

-----------------------------------------------------------------------------
(* Commands: names and effects                                             *)

Less1(n) == IF n > 0 THEN n - 1 ELSE 0

(* What a command that deletes a route by the configuration's gateway      *)
(* finds: the others have the tun device's address for one.                *)
Excluding(entries) == {e \in entries : e[2] = "exclude"}

(* Apply's last calls.  A network is recorded even if its route could not  *)
(* be added, so that Clean deletes it all the same.                        *)
AddExcludeNetworks(s) == [s EXCEPT !.excludes = TRUE]
AddIncludeNetworks(s) == [s EXCEPT !.includes = TRUE]

(* Rules are counted: iptables -A appends one more, -D deletes one.  The   *)
(* batch that Clean begins with deletes a route with the gateway of the    *)
(* configuration: one added with policy include has the address of the tun *)
(* device as its gateway, and is not found.  It deletes an excluded        *)
(* network with the configured interface's name, which is empty unless one *)
(* was given: the command is then refused.                                 *)
Effect(c, s) ==
    CASE c = "setModes"                 -> [s EXCEPT !.modes = TRUE]
      [] c = "addForwardRules"          -> [s EXCEPT !.forward = @ + 1]
      [] c = "defaultToTun"             -> [s EXCEPT !.default = "tun"]
      [] c = "addTun6"                  -> [s EXCEPT !.tun6 = TRUE]
      [] c = "addServerRoute"           -> [s EXCEPT !.server = TRUE]
      [] c = "addDnsRules"              -> [s EXCEPT !.dns = @ + 1]
      [] c = "resolvectlToVpn"          -> [s EXCEPT !.link = "vpn"]
      [] c = "backUpResolv"             -> [s EXCEPT !.backup = IF @ = NoBackup THEN s.resolv
                                                        ELSE @]
      [] c = "nameVpnDns"               -> [s EXCEPT !.resolv = @ \cup {"vpn"}]
      [] c = "addCustomRules"           -> [s EXCEPT !.customRules = @ + 1]
      [] c = "nameCustomDns"            -> [s EXCEPT !.resolv = @ \cup {"custom"}]
      [] c = "addExcludes"              -> AddExcludeNetworks(s)
      [] c = "addIncludes"              -> AddIncludeNetworks(s)
      [] c = "deleteDnsRoutes"          -> [s EXCEPT !.hosts = @ \ Excluding(dnsRoutes)]
      [] c = "deleteExcludes"           -> [s EXCEPT !.excludes = (@ /\ ~givenOut)]
      [] c = "deleteIncludes"           -> [s EXCEPT !.includes = FALSE]
      [] c = "deleteForwardRules"       -> [s EXCEPT !.forward = Less1(@)]
      [] c = "defaultToGateway"         -> [s EXCEPT !.default = "gateway"]
      [] c = "deleteServerRoute"        -> [s EXCEPT !.server = FALSE]
      [] c = "unnameVpnDns"             -> [s EXCEPT !.resolv = @ \ {"vpn"}]
      [] c = "deleteBackup"             -> [s EXCEPT !.backup = NoBackup]
      [] c = "deleteDnsRules"           -> [s EXCEPT !.dns = Less1(@)]
      [] c = "deleteCustomRules"        -> [s EXCEPT !.customRules = Less1(@)]
      [] c = "unnameCustomDns"          -> [s EXCEPT !.resolv = @ \ {"custom"}]
      [] c = "deleteTun6"               -> [s EXCEPT !.tun6 = FALSE]
      [] c = "resolvectlBack"           -> [s EXCEPT !.link = linkSaved]

(* Wrong variant: resolv.conf is saved after it was changed.               *)
ApplyCommands_BackupLast ==
    << "setModes", "addForwardRules", "defaultToTun", "addTun6", "addServerRoute",
       "addDnsRules", "resolvectlToVpn", "nameVpnDns", "backUpResolv",
       "addCustomRules", "nameCustomDns", "addExcludes", "addIncludes" >>

(* Apply on Linux.                                                         *)
ApplyCommands ==
    << "setModes", "addForwardRules", "defaultToTun", "addTun6", "addServerRoute",
       "addDnsRules", "resolvectlToVpn", "backUpResolv", "nameVpnDns",
       "addCustomRules", "nameCustomDns", "addExcludes", "addIncludes" >>

(* Wrong variant: the rules that block DNS outside the tunnel stay.        *)
CleanCommands_NoDnsRules ==
    << "deleteDnsRoutes", "deleteExcludes", "deleteIncludes", "deleteForwardRules",
       "defaultToGateway", "deleteServerRoute", "unnameVpnDns", "deleteBackup",
       "deleteCustomRules", "unnameCustomDns", "deleteTun6", "resolvectlBack" >>

(* Clean on Linux: the batch of routes first.                              *)
CleanCommands ==
    << "deleteDnsRoutes", "deleteExcludes", "deleteIncludes", "deleteForwardRules",
       "defaultToGateway", "deleteServerRoute", "unnameVpnDns", "deleteBackup",
       "deleteDnsRules", "deleteCustomRules", "unnameCustomDns", "deleteTun6",
       "resolvectlBack" >>

(* What the configuration leaves out of the lists.                         *)
LeftOut(c) ==
    \/ ~custom /\ c \in {"addCustomRules", "nameCustomDns", "deleteCustomRules",
                         "unnameCustomDns"}
    \/ ~gateway6 /\ c = "deleteTun6"

Commands == IF up THEN ApplyCommands ELSE CleanCommands
ListDone == ran = Len(Commands)

Fails(c) == c \in MayFail /\ failed' = failed \cup {c}

-----------------------------------------------------------------------------
RouteInit ==
    /\ net = [modes |-> FALSE, forward |-> 0, dns |-> 0, customRules |-> 0,
              default |-> "gateway", tun6 |-> FALSE, server |-> FALSE, link |-> "own",
              resolv |-> Orig, backup |-> NoBackup, excludes |-> FALSE,
              includes |-> FALSE, hosts |-> {}]
    /\ ran = Len(CleanCommands) /\ up = FALSE /\ alive = TRUE
    /\ custom \in BOOLEAN /\ givenOut \in BOOLEAN /\ given6 \in BOOLEAN
    /\ gateway6 = FALSE /\ applied = FALSE /\ linkSaved = "own"
    /\ dnsRoutes = {} /\ adding = {} /\ failed = {} /\ kills = 0 /\ raced = FALSE

(* A program that finds no default route at its start gives up; later the  *)
(* gateway is known.  An IPv6 gateway is looked for unless there is one.   *)
ApplyRoutes ==
    /\ alive /\ ~up /\ ListDone
    /\ applied \/ net.default = "gateway"
    /\ up' = TRUE /\ ran' = 0
    /\ applied' = TRUE /\ linkSaved' = net.link
    /\ gateway6' \in IF given6 \/ gateway6 THEN {TRUE} ELSE BOOLEAN
    /\ UNCHANGED <<net, alive, config, dnsRoutes, adding, failed, kills, raced>>

CleanRoutes ==
    /\ alive /\ up /\ ListDone
    /\ up' = FALSE /\ ran' = 0
    /\ UNCHANGED <<net, alive, config, detected, dnsRoutes, adding, failed, kills, raced>>

(* The next command.  The entries are forgotten as the batch is made,      *)
(* whatever becomes of it.                                                 *)
RunCommand ==
    /\ alive /\ ~ListDone
    /\ LET c == Commands[ran + 1] IN
          /\ \/ net' = (IF LeftOut(c) THEN net ELSE Effect(c, net)) /\ UNCHANGED failed
             \/ ~LeftOut(c) /\ Fails(c) /\ UNCHANGED net
          /\ dnsRoutes' = IF c = "deleteDnsRoutes" THEN {} ELSE dnsRoutes
    /\ ran' = ran + 1
    /\ UNCHANGED <<up, alive, config, detected, adding, kills, raced>>

(* AddDnsRoutesIPv4 and -IPv6 on the packet thread, which runs from the    *)
(* first Apply on, so that the interface is known.  Without the gateway to *)
(* exclude with, IPv6 returns at once.  The entry is recorded under the    *)
(* mutex whether or not the manager is running ...                         *)
AddDnsRoute(e) ==
    /\ alive /\ applied /\ ListDone /\ adding = {} /\ e \notin dnsRoutes
    /\ e[1] \in Destinations6 /\ e[2] = "exclude" => given6
    /\ dnsRoutes' = dnsRoutes \cup {e}
    /\ adding' = {e}
    /\ UNCHANGED <<net, ran, up, alive, config, detected, failed, kills, raced>>

(* ... and the command runs after the mutex is let go.  It is refused if   *)
(* the destination has a route, and may fail otherwise: the entry stays.   *)
(* An exception on the way takes an IPv4 entry back out, under the mutex.  *)
AddRouteToSystem ==
    /\ alive /\ adding # {} /\ adding' = {}
    /\ \/ /\ \A e \in adding, h \in net.hosts : e[1] # h[1]
          /\ net' = [net EXCEPT !.hosts = @ \cup adding]
          /\ raced' = (raced \/ ~(adding \subseteq dnsRoutes))
          /\ UNCHANGED dnsRoutes
       \/ UNCHANGED <<net, raced, dnsRoutes>>
       \/ /\ ListDone /\ \A e \in adding : e[1] \notin Destinations6
          /\ dnsRoutes' = dnsRoutes \ adding
          /\ UNCHANGED <<net, raced>>
    /\ UNCHANGED <<ran, up, alive, config, detected, failed, kills>>

(* The process is killed: routes through the tun device go with it.        *)
Kill ==
    /\ alive /\ kills < MaxKills
    /\ alive' = FALSE /\ up' = FALSE /\ ran' = Len(CleanCommands)
    /\ gateway6' = FALSE /\ applied' = FALSE /\ dnsRoutes' = {} /\ adding' = {}
    /\ kills' = kills + 1
    /\ net' = [net EXCEPT !.default = IF @ = "tun" THEN "none" ELSE @, !.tun6 = FALSE,
                          !.includes = FALSE, !.hosts = Excluding(@)]
    /\ UNCHANGED <<config, linkSaved, failed, raced>>

(* It starts again with HealStaleResolvConf, which deletes the backup even *)
(* if it could not be copied back.                                         *)
HealStaleResolvConf ==
    /\ ~alive /\ alive' = TRUE
    /\ \/ /\ net' = IF net.backup = NoBackup THEN net
                    ELSE [net EXCEPT !.resolv = net.backup, !.backup = NoBackup]
          /\ UNCHANGED failed
       \/ /\ net.backup # NoBackup /\ Fails("restoreResolv")
          /\ net' = [net EXCEPT !.backup = NoBackup]
    /\ UNCHANGED <<ran, up, config, detected, dnsRoutes, adding, kills, raced>>

(* The network is configured anew, by DHCP or by the user.                 *)
RenewDefaultRoute ==
    /\ net.default = "none"
    /\ net' = [net EXCEPT !.default = "gateway"]
    /\ UNCHANGED <<ran, up, alive, config, detected, dnsRoutes, adding, failed, kills, raced>>

RouteNext ==
    \/ ApplyRoutes \/ CleanRoutes \/ RunCommand \/ AddRouteToSystem
    \/ Kill \/ HealStaleResolvConf \/ RenewDefaultRoute
    \/ \E e \in RouteEntries : AddDnsRoute(e)

RouteSpec == RouteInit /\ [][RouteNext]_routeVars

-----------------------------------------------------------------------------
(* Properties                                                              *)

Settled == alive /\ ~up /\ ListDone

(* What command c was to bring about is so, unless c has ever failed.      *)
Undone(c, is) == is \/ c \in failed

(* Wherever the process is killed, /etc/resolv.conf can be had back: it is *)
(* as it was or the backup is, and once Clean or the next start has run,   *)
(* it is as it was.  Not so if the copy, the removal of the line or the    *)
(* copy back has failed (the code goes on and deletes the backup), nor     *)
(* with a custom server, whose line Clean takes out after the backup.      *)
ResolvConfRecoverable ==
    ~custom /\ failed \cap {"backUpResolv", "unnameVpnDns", "restoreResolv"} = {} =>
       /\ net.resolv = Orig \/ net.backup = Orig
       /\ Settled => net.resolv = Orig

(* If the process was never killed, each item of Apply is undone once      *)
(* Clean has run, but for those whose own command of Clean has failed:     *)
(* whatever failed in Apply, and however often the two alternate, Clean    *)
(* takes out what is there.  What Clean does not undo, and this does not   *)
(* claim: the kernel's and the resolver's modes; the IPv6 routes through   *)
(* the tun device if no IPv6 gateway was detected; excluded networks if    *)
(* the interface was not configured; routes for DNS answers added with     *)
(* policy include (the plugins add none); and of the others those whose    *)
(* command ran after Clean's batch or that were recorded since Clean,      *)
(* which wait in dnsRoutes for the next Clean.                             *)
CleanUndoes ==
    Settled /\ kills = 0 =>
       /\ Undone("deleteForwardRules", net.forward = 0)
       /\ Undone("deleteDnsRules", net.dns = 0)
       /\ Undone("deleteCustomRules", net.customRules = 0)
       /\ Undone("defaultToGateway", net.default = "gateway")
       /\ Undone("deleteServerRoute", ~net.server)
       /\ Undone("resolvectlBack", net.link = "own")
       /\ "original" \in net.resolv
       /\ Undone("unnameVpnDns", "vpn" \notin net.resolv)
       /\ Undone("unnameCustomDns", "custom" \notin net.resolv)
       /\ Undone("deleteBackup", net.backup = NoBackup)
       /\ Undone("deleteIncludes", ~net.includes)
       /\ givenOut => Undone("deleteExcludes", ~net.excludes)
       /\ gateway6 => Undone("deleteTun6", ~net.tun6)
       /\ ~raced => Undone("deleteDnsRoutes", Excluding(net.hosts) \subseteq dnsRoutes)
=============================================================================
