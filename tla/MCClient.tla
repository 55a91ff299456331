------------------------------ MODULE MCClient ------------------------------
(***************************************************************************)
(* The client's programs on small instances: the VPN manager with its      *)
(* connection manager, the search for a server, the scan for a server      *)
(* name, the tray and the settings of the graphical client, the command    *)
(* line, the routes, the plugins.  Each is checked by itself: `part' picks *)
(* the one that runs, and the others stay as they are.                     *)
(***************************************************************************)
EXTENDS VpnManager, ServerSearch, GuiClient, Settings, Routes, Plugins, CliClient

VARIABLE part

(* Nothing preferred, a name the token does not hold, an order of two.     *)
MCPreferences == {<< >>, <<"elsewhere", "s1">>, <<"s1", "s2">>}

Parts == {"vpn", "search", "scan", "gui", "settings", "routes", "plugins", "cli"}

parts == <<part, clientVars, searchVars, scanVars, guiVars, settingsVars, routeVars,
           pluginVars, cliVars>>

Init ==
    /\ part \in Parts
    /\ IF part = "cli" THEN TRUE
       ELSE prefs = << >> /\ router = FALSE /\ resolvable = {} /\ accepting = {}
    /\ VpnInit /\ SearchInit /\ ScanInit /\ GuiInit /\ SettingsInit /\ RouteInit
    /\ PluginInit /\ CliInit
    /\ IF part = "routes" THEN givenOut /\ (given6 <=> custom) ELSE ~custom /\ ~givenOut /\ ~given6
    /\ IF part = "plugins" THEN TRUE ELSE policy = "exclude" /\ ~gatewayIPv6

Others(p) ==
    /\ UNCHANGED part
    /\ IF p = "vpn" THEN TRUE ELSE UNCHANGED clientVars
    /\ IF p = "search" THEN TRUE ELSE UNCHANGED searchVars
    /\ IF p = "scan" THEN TRUE ELSE UNCHANGED scanVars
    /\ IF p = "gui" THEN TRUE ELSE UNCHANGED guiVars
    /\ IF p = "settings" THEN TRUE ELSE UNCHANGED settingsVars
    /\ IF p = "routes" THEN TRUE ELSE UNCHANGED routeVars
    /\ IF p = "plugins" THEN TRUE ELSE UNCHANGED pluginVars
    /\ IF p = "cli" THEN TRUE ELSE UNCHANGED cliVars

Next ==
    \/ part = "vpn" /\ VpnNext /\ Others("vpn")
    \/ part = "search" /\ SearchNext /\ Others("search")
    \/ part = "scan" /\ ScanNext /\ Others("scan")
    \/ part = "gui" /\ GuiNext /\ Others("gui")
    \/ part = "settings" /\ SettingsNext /\ Others("settings")
    \/ part = "routes" /\ RouteNext /\ Others("routes")
    \/ part = "plugins" /\ PluginNext /\ Others("plugins")
    \/ part = "cli" /\ CliNext /\ Others("cli")

(* Of a component that does not run no step is enabled that its fairness   *)
(* names: nobody has started the VPN or a scan.                            *)
Spec == Init /\ [][Next]_parts /\ VpnFairness /\ ScanFairness
=============================================================================
