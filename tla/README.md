# FPTN in TLA+

FPTN is a VPN: a client moves IP packets between a TUN device and a WebSocket
over an obfuscated TLS connection, and a server moves them between WebSockets
and its own TUN device through a NAT table. This directory models the parts in
which the program decides something: which connection belongs to which VPN
session, who owns which address, who may close what and in which order; how the
two ends recognise each other and how long each waits; and when the client's
programs connect, replace connections, change the system and put it back.

Paths below are relative to the repository (`src/fptn-server/...`); the map in
`PROJECT.json` gives the lines each definition translates.

## 1. The system

### Server

| Component | State | Operations | Interacts with |
|---|---|---|---|
| `nat::Table` | four indexes (by session, IPv4, IPv6, client), two vectors of free addresses | `AddConnection`, `DelConnectionByClientId`, `UpdateConnectionsStatus` | called by the web server's threads and the updater thread, one `shared_mutex` |
| `nat::ConnectionMultiplexer`, `ClientConnection` | the connections of one logical session in a sending and a receiving bucket, by the clock | add, delete, re-sort and expire, choose the next receiver | owned by `Table`, own mutex |
| `web::Server` | `sessions_`, `running_` | open and close callbacks, `GetSessionById`, `Stop` | `Table`, `Session`, one mutex |
| `web::Session` | `running_`, `ws_session_was_opened_`, a channel | `Run` (probe, handshake, HTTP or WebSocket), `RunReader`, `RunSender`, `Close` | callbacks into `Server`, own mutex, one strand |
| `web::Listener` | acceptor | `Run`, `Stop` | spawns sessions |
| `vpn::Manager` | threads | `RunUpdateConnectionsStatus`, `RunToClient`, `RunFromClient`, `Stop` | all of the above |
| `web::HandshakeCacheManager` | answers of real sites, by name | `GetHandshake` (from the cache, the site or the default site) | called by `Session::Run` in the decoy handshake |
| filters, traffic shaper, users, statistics | their own tables | pure decisions and lookups | data path, handshake |

### Client

| Component | State | Operations | Interacts with |
|---|---|---|---|
| `connection::ConnectionManager` | `running_`, `th_`, `strategy_connection_`, the attempts | `Start`, `Stop`, `Send`, `IsStarted`, `IsConnected`, `Run` | owns a strategy; `Run` has its own thread |
| strategies (`PersistentTunnel`, `RollingTunnel`, `BrowserMimicry`, parallel tunnels) | running flag, one or more websockets | `Start` (blocks), `Stop`, `Send` | poll their websockets |
| `WebsocketClient` | `running_`, `was_connected_`, write queue | `Run`, `Stop`, reader, sender, pinger, watchdog | coroutines on one `io_context` |
| `vpn::VpnManager` | `running_`, packet queue, supervisor's flags | `Start`, `Stop`, `Supervise`, `ProcessWebSocketPackets`, two packet handlers | `ConnectionManager` through `http::Client`, TUN device, route manager |
| `ApiClient` | a global table of certificate callbacks, by address of the SSL object | `Get`, `Post`, `AsyncPost`, `TestHandshake` | a detached worker per call; used by login, DNS, server search, SNI scan |
| obfuscated `TcpStream` | what is not yet deobfuscated, what is not yet read | `async_read_some`, `async_write_some`, `set_obfuscator` | under TLS, on both sides |
| server search, SNI scan | the answers and counters of their workers | `FindFastestServer`, `FindServerByLogin`, `SniAutoscanDialog` | `ApiClient`, the GUI thread |
| `TrayApp`, `SettingsModel`, `SettingsWidget` | the shown state, the flags shared with the worker, the settings file | menu entries, timers, message boxes, `startVpn`, `Load`, `Save` | `VpnManager`, the ping pool |
| `fptn-client-cli` | its position in `main` | choose, log in, run, wait for a signal, clean up | `VpnManager`, `RouteManager` |
| `RouteManager` | `running_`, the routes it added | `Apply`, `Clean`, `AddDnsRoutes...` | the system; called by `main`, the supervisor, plugins |
| plugins | blocked addresses | `HandlePacket` | packets from the tunnel, `RouteManager` |
| TUN devices | file descriptor | read, write | `VpnManager` |

### What is hard here

* The sweep of the NAT table has two critical sections under different locks;
  connections join, leave and re-create sessions in between.
* The clock is read again and again within one placement.
* A session may be closed by its strand, by the updater and by `Stop`, under
  two mutexes that are taken in both orders, and with a callback that calls
  `Close` again.
* `ConnectionManager::Stop` reads and calls the strategy without the mutex
  while `Run` replaces it; the strategy has a running flag of its own.
* `VpnManager::Stop` drops objects that three threads use, and clears flags
  outside the mutex of the condition variable that waits on them.

* Keys in a ClientHello hold for a few seconds, and several waits and a name
  lookup come before they are looked at; each end has timeouts of its own for
  the same exchange.
* TCP cuts records anywhere; the end of a TLS flight is guessed from silence.
* API calls leave their worker behind at the timeout; workers register and
  remove callbacks by an address that another object may have taken.
* Connections are replaced while packets are sent, by deadlines that must not
  fall together.
* The tray's user clicks while a worker is anywhere in `startVpn`, and inside
  message boxes that run an event loop of their own.
* Routes, rules and `/etc/resolv.conf` are changed command by command, from
  three threads, by a process that may be killed.

`PROJECT.json` lists these hazards with the line where each bites and the
properties that would catch it.

## 2. Modules

| Module | Models |
|---|---|
| `VpnSessions` | what `nat::Table` promises: a session has one owner and a lease of its own, and ends only without members |
| `NatTable` | `Table`, the membership of `ConnectionMultiplexer`, `ClientConnection` |
| `NatTableProofs` | proofs about `NatTable` |
| `WebServer` | extends `NatTable`: `Server`, the life of `Session`s, the updater thread, `Manager::Stop` |
| `WebServerProofs` | proofs about `WebServer` |
| `DataPath` | extends `NatTable`: `Manager::RunToClient` and `RunFromClient`, `Channel`, `LeakyBucket`, the packet side of `Session` |
| `DataPathProofs` | proofs about `DataPath` |
| `ConnectionManager` | `ConnectionManager`, `PersistentTunnel`, the flags of `WebsocketClient` |
| `VpnManager` | extends `ConnectionManager`: `VpnManager`, its supervisor, worker and TUN reader |
| `VpnManagerProofs` | proofs about `ConnectionManager` and `VpnManager` |
| `Handshake` | `Session::Run` from the first byte to TLS or the proxy, `HandshakeCacheManager`, and the client's `Connect` at the other end |
| `TlsFlight` | `WaitForServerTlsHello`, its asynchronous twin and `WaitForClientTlsHelloAsync` |
| `Framing` | both TLS obfuscators and the obfuscated `TcpStream` |
| `Strategies` | `RollingTunnel`, `ParallelTunnels`, `BrowserMimicry` |
| `ApiClient` | `ApiClient`, its workers and its table of callbacks |
| `ServerSearch` | `FindFastestServer`, `FindServerByLogin`, `SniAutoscanDialog` |
| `GuiClient` | `TrayApp` and `SettingsModel`'s pings |
| `Settings` | `SettingsModel`, its file, `SettingsWidget` |
| `Routes` | the client's `RouteManager` on Linux |
| `Plugins` | `DomainBlacklist`, `Tunneling` |
| `CliClient` | `fptn-client-cli`, with the supervisor it shares the routes with |
| `ProtocolProofs` | proofs about `Handshake`, `TlsFlight`, `Framing` and `ApiClient` |
| `StrategiesProofs` | proofs about `Strategies` |
| `ClientProofs` | proofs about `ServerSearch`, `GuiClient`, `Plugins` and `CliClient` |
| `PersistenceProofs` | proofs about `Settings` and `Routes` |
| `MC...` | the instances TLC checks |

`MCClient` and `MCProtocol` put components that share no state side by side: the
variable `part`, chosen in `Init` and never changed, says which one runs, so that
the state space is the sum of theirs and not the product. Components that do
interact extend one another: `WebServer` and `DataPath` drive `NatTable`,
`VpnManager` drives `ConnectionManager`.

**NatTable.** One action per critical section of `Table::mutex_`.
`AddConnection` is `JoinSession` or `CreateSession`; a call that returns
`nullptr` changes nothing (`AddConnectionRefused`, which `WebServer` uses as the
guard of its error path). Multiplexers are heap objects with an identity that is
never reused, because `ReleaseSessionIfEmpty` compares pointers. A connection's
role is computed from instants: `ClockReads` gives one for each of the calls
`IsExpired`, `IsSending`, `IsReceiving`, in that order, and the action's end may be
one tick later than its beginning. `free_ipv4` counts how often an address is in
the vector, so that returning one twice is visible. The sweep keeps its locals
(`sweep`) between `SweepBuckets` and `SweepCommit`.

**WebServer.** A session is an actor on its strand; the updater and the
stopping thread are two more. `closing[x]` says where actor `x` is inside
`Session::Close` and of which session. `Server::mutex_` is a variable only for
`Stop`, the one holder that waits while it holds it; `Session::mutex_` is held
from `CloseLock` to the end of `Close`. Everything before the WebSocket request
is `GiveUp` or nothing here: it touches no shared state but the session's own
socket, and has its own module, `Handshake`. The connections' strand stops at `ioc_.stop()`
(`IocStopped`) wherever it is suspended.

**DataPath.** One action per lookup of the two loops of `vpn::Manager`, which
run with one thread each, as `fptn-server.cpp` starts them. A packet is its
destination or its sender and its size; a routed packet also remembers the
multiplexer that routed it (`via`), which the code forgets and the properties need.
`Push` keeps the comparison of the code, so that a channel may hold one packet more
than its capacity. A receiver is any member of `receiving_` (the code picks by
port or by a counter), a filter may drop any packet, and a session is only its
membership in `sessions_`: it enters together with its NAT entry and leaves
before it. `HandleWebSocket` is the old protocol, for which the server changes
addresses; `HandleWebSocket2` switches that off, a step after the session can
be found (`Mark`). `RunReader` may hand packets over after another thread closed the
session, since it tests `running_` once per message.

**ConnectionManager.** One action per step between two points at which another
thread can interfere, for the caller (`StopCheck` ... `StopReset`, `Destroy`)
and for `Run` (`RunTop` ... `RunEnd`, with `PersistentTunnel::Start` as
`Tunnel...`). `th_` is "none", "live" or "ended": a thread that returned but was
not joined is still joinable, and assigning to it or destroying it calls
`std::terminate` (`caller = "terminated"`). The number of attempts is reset by
the code when two minutes have passed, which is a free choice in `RunCount`. The
websocket is its flags; connecting ends either way, a connection may be lost
at any time, and the watchdog notices.

**VpnManager.** Four threads besides `Run`'s. The supervisor's timed waits may
end at any time. The worker's wait is split into the test of its predicate and
the blocking, because `Stop` clears `running_` without `queue_mutex_`. Plugins may
consume a whole batch (`WorkFiltered`). Each call of `http_client->Stop()`
starts the steps of `ConnectionManager::Stop`, whose caller continues when they are
over. `Start` is called once: `Stop` resets the client and the TUN device, which
nothing rebuilds.

**Handshake.** A connection is two records: `srv[c]`, where `Session::Run` is and
how many seconds its wait has left, and `cli[c]`, the same for the peer. A peer is
one of this project's clients with a strategy and a clock that may be off, a
stranger with a proper ClientHello, garbage, a stub of a hello, or silence.
A client that cannot make its session id or its hello (`fallback`) sends the decoy of
the deprecated mode instead, whose key is at 10: the server answers it with
`TlsObfuscator` while the client goes on with `TlsObfuscator2`, so such a client is not
served. The model has this and `ClientsServed` says it. The exception path of
`IsSniSelfProxyAttempt` (`session.cpp:632-635`), an answer of false that is not cached,
is left out.
A key is the place in the session id at which it was put and the age it has when
it is looked at (`Drift`); the windows of the checks are the code's. The two
caches, of verdicts about names and of answers, are shared by all connections.
`Tick` lets a second pass when nobody has anything to do at once, so that a
timeout races only what is really outstanding.

**TlsFlight.** A flight is a sequence of record kinds, each in two halves that
arrive at any time; the loops poll, look for a complete hello in what they have, and
return after a quiet period, at the deadline or with nothing.

**Framing.** Bytes of a record are its header, which names the record, and its
body; `Deobfuscate` looks for headers as the code does, and every cut of the stream
into reads up to `ReadSize` happens. A reader is taken to give a buffer with room for what
it asked; the truncation by `buffer_copy` into a smaller one (`tcp_stream.h:125`, `150`)
is left out.

**Strategies.** One round of the coroutine is a sequence of actions, one between
any two awaits or lock sections, so that `Stop` comes in between. Connections age
by seconds; the network brings a candidate up, loses it or lets it time out.
`NextLifetimeSeconds` is the code's computation, integer division included; the list
it sorts is the set `Due`, since a second that is in it twice is never the widest gap.

**ApiClient.** A request is a caller and a detached worker; SSL objects get any
free address, also one that a stale entry of the table still names. `ranInto` is
the undefined behaviour of `TestHandshakeImpl` (its callback writes to a string whose
block has ended): the request is refused or the program is lost.

**ServerSearch.** The probes take the lock in any order and the timeout may come
at any time; starting a thread may fail, which leads to the sequential attempt. In
the scan two workers that write `found_working_sni_` at once leave anything in it.

**GuiClient.** The GUI thread runs one handler at a time; a message box is an
entry of `popups` during which other handlers run. `startVpn` has one action between
any two looks at `cancel_connecting_`. Where the worker uses a `vpn_client_` that
the GUI thread may reset, the outcome is a crash or not (`crashed`). `TrayTellsTruth` is
about what is shown until then; it says nothing against the null `vpn_client_` used at
`tray.cpp:1082` after a cancel.

**Settings.** Rows, buttons and services are sequences related only by position,
as in the code. Each Save truncates the file first. It then writes it, fails to (before
or after the truncation), reports success although the buffer was never flushed, or is
killed in between. The two or three Saves inside `onLanguageChanged`,
`onBypassMethodChanged` and `SetBypassMethod` are one step, with the outcome of the last.
Three things the code does are not properties but can be read off the model: opening
the dialog saves "obfuscation" for a method it has no branch for, the button of a
row added by a token is connected to nothing, and a stale button removes another
service than its row names.

**Routes.** `Apply` and `Clean` are lists of commands with counted effects (an
`iptables -A` twice needs `-D` twice), run one by one under the mutex; plugins
record a route under the mutex and add it after they let go of it. A command of the
model stands for the neighbouring commands of the code that make up one item; of an
item all or nothing is done. Any of those in `MayFail` may fail, each time it runs, which
the code only logs (`command::run` catches every exception), so both lists run to
their end. `Clean` does not undo everything, and the model has what it leaves:

* the kernel's and the resolver's modes (`sysctl`, `resolvectl`), which it never resets;
* the IPv6 routes through the tun device, unless an IPv6 gateway was detected;
* excluded networks, unless the interface was configured and not detected;
* routes for DNS answers added with policy include, which it deletes with another
  gateway and device than they were added with (the plugins only pass
  `kExcludeFromVpn`);
* routes added for DNS answers after it took down what to delete, or recorded after it;
* every item whose own command failed.

**Plugins.** The two plugins in order, over three kinds of packets. Of a packet with UDP
port 53 the blacklist looks at the name only, so it is delivered whatever its source is
(`DnsAnswer`); the source of any other packet out of the tunnel is tested (`DataPacket`);
what comes from an address with a route past the tunnel meets no plugin (`PacketPast`).
`AddDnsRoutesIPv4` and `-IPv6` record an address and may fail to add its route
(`unrouted`); without an IPv6 gateway the latter does nothing.

**CliClient.** `main` step by step, the supervisor beside it, and the signal. What
the commands do is left to `Routes`: here the routes are applied or not. Once
`ConnectionManager` has given up its thread is never joined, so that the
supervisor's restart, which applies the routes first, or `main`'s reset of the client
terminates the process (`cli = "terminated"`; see 4 below).

Definitions whose name ends in `_Something` and whose comment begins with
"Wrong variant" are not part of any specification: each is a plausible bug, put in
the place of the definition it is named after to show that a property notices it.

## 3. Runs

Every run finishes in about two and a half minutes or less on two cores.

| Run | Shows | Instance |
|---|---|---|
| `nat_table` | indexes, leases and buckets agree at every moment of the two-phase sweep; a lease is released only when nobody is left, and no connection falls between the buckets (`NothingLost`) | 3 clients, 2 session ids, 2 users, 2+2 addresses, 3 multiplexers, clock to 3 |
| `nat_table_live` | expired connections leave, leases come back (`TableDrains`), the fair `VpnSessions` is implemented | 2 clients, 1 session id |
| `web_server` | no cycle between the two mutexes, no orphaned NAT entry, receivers can be delivered to, the server uses the table as `NatTable` describes; `Close` returns, and `Stop` does unless a thread already waits for the mutex it holds | 2 clients, 2 session ids, 1 address pair (so that refusals happen), clock to 1 |
| `data_path` | packets go to, and are charged to, the right user although every lookup may be stale by the next one; shapers keep their limit | 2 clients, 2 users, 1 session id, 1 address pair and 2 multiplexers (so that address and id are leased again), 2 packets on their way, clock to 1 |
| `client` | the parts of the client program, below | 8 components |
| `protocol` | the parts of the protocol library, below | 5 components |
| `web_server_limit` | violation: a user exceeds the session limit | 2 clients, limit 1 |
| `web_server_leak` | violation: a closed session stays in `sessions_` | 2 clients |
| `connection_manager_hang` | violation: `Stop` hangs when it overtakes `PersistentTunnel::Start` | 2 attempts, 3 starts |
| `vpn_manager_restart` | violation: the supervisor's restart terminates the process | 1 attempt, 3 starts, 1 full restart |
| `handshake_outwait` | violation: the client gives up on a server that still fetches its answer | the code's timeouts in seconds |
| `plugins_blacklist` | violation: IPv6 packets of a blacklisted domain pass | 2 names, 1+1 addresses |

Run `client`:

| Component | Properties |
|---|---|
| `VpnManager` over `ConnectionManager` | nobody uses what `Stop` dropped (`UsersOutlived`) or a destroyed strategy (`StrategyNotDestroyedInUse`); calls to `ConnectionManager` do not overlap (`DrivesConnectionManager`); queued packets leave (`PacketsMove`); a lost connection is replaced (`Reconnects`); `Stop` returns unless raced (`VpnStopReturnsUnlessRaced`) |
| server search | the result is the first server that answered, and no thread outlives the search (`SearchResult`) |
| SNI scan | "no working SNI" only if none of all worked (`HonestVerdict`); stopping ends although workers log through the thread that joins them (`ScanEnds`) |
| tray | what is shown is what runs, whatever is clicked when (`TrayTellsTruth`); pings are counted and never doubled (`PingsCounted`) |
| settings | rows, services and file stay together (`SettingsKept`) |
| routes | `resolv.conf` can be had back wherever the process is killed (`ResolvConfRecoverable`); `Clean` undoes each item of `Apply` it has a command for, whatever fails besides (`CleanUndoes`) |
| plugins | no packet but DNS comes through the tunnel from an IPv4 address of a blacklisted name, and the addresses the policy wants out, and no others, go past it, whatever names share them (`PluginsHonoured`) |
| command line | `main` ends without routes and threads although the supervisor may apply routes after `main` cleaned them, unless the connection manager gave up and the process is terminated (`ExitsClean`) |

Run `protocol`:

| Component | Properties |
|---|---|
| handshake | both ends end up with the same obfuscator, unless the client's hello is the fallback, and a client in time is not taken for a prober (`ClientsServed`); the server does not proxy to itself (`NoProxyToSelf`); every connection leaves the handshake (`HandshakeEnds`) |
| TLS flight | the whole flight unless the network paused, and something whenever it was there in time (`FlightOutcome`) |
| framing | the stream arrives in order, nothing is held back, under any cut (`StreamIntact`) |
| strategies | ageing connections are replaced without a gap and not all at once (`TunnelKept`); dead pools end (`DeadPoolEnds`) |
| API client | certificates are verified by the request's own callback and none is left behind (`CallbacksSafe`); a call returns though its worker is stuck (`RequestReturns`) |

Some of these hold only with an exception that the property names: a
`resolv.conf` with a custom DNS server, whose line `Clean` takes out only after it
deleted the backup, or whose copy, clean-up or copy back failed; what `Clean` leaves
(listed under **Routes** above); a route past the tunnel whose command failed, or for
IPv6 without a gateway; a program whose connection manager gave up; a client whose
hello is the fallback; a key that runs out between the two looks at it; an SNI found
by two workers at once; a token that could not be saved.

### Bounds

`MaxTime` caps the clock, `MaxStarts` the calls of `Start`. Three clients are the
fewest for "one leaves, one is swept, one joins" and three multiplexers for an
id that is released and reused while a sweep remembers the first owner. Two
actors beside the updater and the stopper are enough for every pair of concurrent
closers. `MaxReconnections` of 2 has a first attempt, a retry and giving up; three
starts allow a stop and a restart after each. A queue of two can be empty, partly
filled and full. In `data_path`, `MaxInFlight` caps the packets on their way and
`OneWay` lets traffic flow in one direction at a time: the two loops share only
the table, which they read. The channel's capacity is 0, so that one packet
fills it and the next is dropped; a limit of 2 with packets of 1 lets a window
open, accept and refuse. The theorems about the data path hold without these
bounds.

In `client`, three candidates with two probes leave one server unasked; two
scanners with three names let one be ahead, one behind and one finished; two
servers and two ping handlers are the fewest for a second round inside the first;
two service names let a token replace the first or the last row; one kill
(`MaxKills`) comes between any two commands of both lists, before or after a start
that heals; of the commands one of `Clean` and the copy back may fail (`MayFail`), the
interface is configured and the only destination is an IPv4 one (`Destinations6` is
empty): that every other command may fail, IPv6 destinations and a detected interface
are covered by the proof alone, for any number of kills. Three names, of which one is
blacklisted and two are in the split list, sharing one IPv4 and one IPv6 address,
give every combination of rules for one address. In `protocol` every
timeout is one tick, so that each wait can be in time or late; clocks are off by
-1 or -3, which puts keys inside and at the edge of their window while a hello is
read; one of the clients sends the fallback hello; flights are the four shapes the code tells apart, with seven polls to the
deadline and three to the end of the quiet period; three records and five
foreign bytes in reads of five fill and wrap a buffer of eight. A lifetime of 20
and a stagger of 1 are the code's 600 and 30 seconds in units of 30, so slots,
gaps and their halves differ as they do there. Two requests with two SSL addresses are
the fewest for one to take the other's address. `MCHandshakeOutwait.cfg` has the
code's own seconds.

`CHECK_DEADLOCK FALSE` is used for the server, which is done after `Stop`, and the
client, which ends stopped, destroyed, terminated or hung; `StopReturns...` say
which of these ends are possible; and for the components of `client` and `protocol`
that come to an end: a search, a program, a request, a stopped strategy. The NAT
table and the data path have no such end and are checked for deadlock.

### Fairness

* NAT table: the clock goes on and the updater thread's loop goes on.
* Web server: threads inside handlers, the updater and the stopping thread go
  on when not blocked. Peers owe nothing: no client has to connect, to send or to
  hang up.
* Client: threads go on when not blocked. A thread that competes with
  packet senders for a mutex gets it in the end (strong fairness): senders hold it
  only to queue one packet. A connection attempt ends, since every phase of
  `Connect` has a timeout, and the watchdog timer fires. A connection that is up
  may stay up for ever, and nobody has to call `Start` or `Stop`.
* Handshake: coroutines run when they can, and time passes. No peer has to send.
* Strategies: `RunEventLoop` keeps polling; the network owes nothing.
* API client: `wait_for` wakes at its deadline. Nothing is assumed of workers.
* SNI scan: workers, the timer and the joining thread go on (every request has a
  timeout). The user owes nothing.

## 4. What the violations show

1. **Session limit** (`server.cpp:261`): the comparison is `>`, so a user with
   the maximum number of sessions may open another; the count is also read
   outside the lock of the insertion.
2. **Leaked session** (`session.cpp:1224`): a session is visible to the updater
   before `ws_session_was_opened_` is set. A `Close` in that window skips the
   close callback, and `sessions_` keeps the closed session until `Stop`.
3. **Hanging Stop** (`persistent_tunnel.cpp:38`): `SetRunningStatus(true)` can
   overwrite the `false` of a `Stop` that came after `Run`'s test.
4. **Restart that terminates** (`connection_manager.cpp:166`): when `Run` gives
   up it clears `running_`, so `Stop` returns without joining, and the next
   `Start` assigns to a joinable thread. The supervisor does exactly this. As a
   consequence its branch "Giving up" is never reached when the connection gave
   up before. Destroying the client after `Run` gave up meets the same thread. When the
   supervisor terminates the process it has just applied the routes
   (`vpn_manager.cpp:356`), which stay behind; `ExitsClean` excepts this and nothing
   else.

5. **A client that does not outwait** (`websocket_client.cpp:742`): the comment
   above it says that the client must outwait the server's worst case, five seconds
   and five more; the wait is two seconds, so that a first connection for a name
   fails when its site answers slowly.
6. **IPv6 is never blacklisted** (`domain_blacklist.cpp:71`): an address is
   inserted if it is already there. The IPv4 branch above tests the opposite.

The properties of the passing runs that mention a race by name
(`StopReturnsUnlessRaced`, `VpnStopReturnsUnlessRaced`)
state what holds outside these windows: a `Stop` that takes `Server::mutex_` while
a handler is on its way to it joins a thread that waits for it, and a worker that
tested `running_` before it was cleared may go to sleep after the notification
(`vpn_manager.cpp:140` clears it without `queue_mutex_`), and no property here catches
that.

Seen while modelling, without a run: the comment at `fptn-client-cli.cpp:599` says
that a router must not give up, yet `WaitForSignal` leaves when the client stops
before its first connection; `--disable-auto-fallback` and `--startup-retry-delay`
are read by nobody; a preferred server is taken when its name resolves, where
`PORT_ANDROID_LOGIC_PLAN.md:70` has it log in; `kSniRealityMode`, which no program
selects, and the fallback hello, which every program may have to send
(`websocket_client.cpp:886-898`, `api_client.cpp:1140-1151`), leave the two ends with
different obfuscators after the decoy handshake; `Clean` deletes routes of policy include
with another gateway than `AddDnsRoutes` used; a truncated gzip body keeps `DecompressGzip` in its loop for ever.

## 5. Proofs

TLAPS proves, for all values of the constants that satisfy the named `ASSUME`s,
every invariant of every passing run and the action properties. The assumptions are
types and bounds (natural numbers, finite sets), a `Null`, `Nobody` or `NoPin` that
is no object, distinct actors, facts of the protocols the code talks to, and the
room `ParallelTunnels` needs, each stated in the module that declares the constant.

| Theorem | Statement |
|---|---|
| `NatTypeCorrect`, `LeasesConserved`, `RoutingAgrees`, `NoSessionLeaks`, `UsersIsolated` | the type invariant; the three invariants of run `nat_table`; a session holds one user's connections only |
| `LeaseKeptWhileUsed`, `NothingIsLost` | the action properties `ReleasedOnlyWhenEmpty` and `NothingLost`: no lease and no connection is lost in a step |
| `ImplementsVpnSessions` | `NatSpec => Abstract!VpnSpec`: the table implements `VpnSessions` (the safety part of `ImplementsFairVpnSessions`) |
| `WebTypeCorrect`, `OwnersInvariant` | the server's type invariant; the inductive invariant below |
| `LocksNeverCycle`, `EntriesOwned`, `EntriesDeliverable` | the three invariants of run `web_server` |
| `ServerDrivesNatTable` | `WebSpec => NatSpec`, so that every theorem about the table holds of the server |
| `DataTypeCorrect`, `PacketsReachLessee`, `PacketsChargedRight`, `WindowsStayBounded` | the type invariant, with the bound of a channel; the three invariants of run `data_path` |
| `ConnTypeCorrect`, `StrategySafe`, `IsStartedTruthful` | the type invariant, with the bound of the attempts; `StrategyNotDestroyedInUse`; `running_` is set only while `Run`'s thread is there |
| `StopIsQuiet` | the action property `QuietAfterStop`: after a `Stop` only `Start` brings thread or strategy back |
| `VpnTypeCorrect`, `UsersSafe` | the type invariant, with the bound of the queue; `UsersOutlived` |
| `VpnDrivesConnectionManager` | `VpnSpec => ConnSpec`, so that every theorem about `ConnectionManager` holds in the client |
| `StopIsFinal` | the action property `StoppedForGood`: once `Stop` has returned nothing changes any more |
| `SearchIsRight`, `VerdictIsHonest` | `SearchResult` and `HonestVerdict`, for any number of servers, workers and names |
| `TrayIsTruthful`, `PingsAreCounted` | `TrayTellsTruth` and `PingsCounted` |
| `PluginsAreHonoured`, `CliExitsClean` | `PluginsHonoured`, for any names, rules and addresses and whichever routes fail; `ExitsClean`, for any servers and number of restarts |
| `SettingsStayTogether` | `SettingsKept`, for any number of tokens, rows and kills |
| `ResolvConfIsSafe`, `CleanTakesBack` | `ResolvConfRecoverable` and `CleanUndoes`, whichever commands fail, for any destinations and number of kills |
| `ClientsAreServed`, `NeverProxiesToItself` | `ClientsServed` (which says too that a client with the fallback hello never agrees with the server) and the action property `NoProxyToSelf`, for any clocks, names and peers |
| `CallbacksAreSafe` | `CallbacksSafe`, for any number of requests and addresses |
| `FlightsAreRead`, `StreamsAreIntact` | `FlightOutcome` for every flight, deadline and quiet period; `StreamIntact` for any number of records and foreign bytes |
| `TunnelIsKept` | `TunnelKept`: `RollingTunnel` and `ParallelTunnels` keep a connection up while they replace ageing ones, and the closes stay apart |
| `RollingNeverDrops` | the part of it about `RollingTunnel`, which needs no assumption about the times |
| `NextLifetimeFits` | a new connection of `ParallelTunnels` is due within a lifetime and further than `StaggerSeconds` from every scheduled close |

The type invariants, `UserIsolation`, `IsStartedIsTrue`, `QuietAfterStop` and
`StoppedForGood` are proved and not run any more: the proof says more than a small
instance.

### The inductive invariants

TLC checked each of them on the instance of its run before it was proved.

**NatInv** adds to the properties of the run that an entry of the session index is filed
under its own multiplexer's id (`SessionIndexOK`), that whatever buckets and client
index mention has been built (`AcceptedOK`), and what the sweep's locals still mean
at its second lock (`SweepOK`: the connections it remembers as expired are in no
bucket). The last is what makes the two-phase sweep safe. The lemma
`ReleaseEffect` says what `ReleaseSessionIfEmpty` does to leases and indexes, and is
used by the two actions that call it. `AtMostOne` keeps cardinalities out of
the rest. The refinement and `NothingIsLost` take one step per action from
`NatInv` and these effect lemmas.

**WebInv** is the type invariant with the fact that a session about to open has a
request; the refinement needs no more, since the server changes the table only
through the table's operations.

**OwnInv** says, for every actor inside `Session::Close`, what it has done so far.
`Holding` and `LocksHeld` relate the two mutexes to the positions of their holders,
from which the order of waiting follows; `Past` and `PastOpen` say what a session
has behind it once it is open or closing; `EntryMarked` and `EntryListed` that an
entry of the table belongs to a session that was marked open and is listed, or to
the closer that has taken it off and will remove the entry.
`UpdaterClosesExpired`, `ClosesItself` and `StopClears` say whom each of the three
kinds of closers may close.

**DataInv** is `NatInv` with what the locals of the two loops still mean after the
table has moved on. `FactsStay` carries the argument: multiplexers and connections
are never rebuilt, so that "m leased a" and "m and c have the same user" stay true
once they were. `ToOK` and `FromOK` say which of these facts each lookup has
established, `RoutedOK` and `SentOK` that they hold of everything queued.
`UserIsolation` is not enough for `RunFromClient`: between the two locks of the sweep
`client_to_mplx_` still leads to a multiplexer that has dropped the client.
`IndexOwned` says that it is one of the client's own user even then.

**ConnInv** says who may clear the strategy. `Run` clears it only while `running_`
is set, `Stop` clears `running_` before it looks at the strategy, a Send holds the
mutex which both need: hence `StrategyKnown`. `ThreadAgrees` relates `th_`, `Run`'s
position and `running_`; `AttemptLeft` says that `Run` counts an attempt only after
it saw that one was left, which bounds `attempts`.

**VpnInv** says which threads exist at each point of `Start` and `Stop`
(`MainOrder`), that whoever holds `mutex_` does so while `running_` is set, which
`Stop` clears under it (`HolderSafe`), and where `ConnectionManager`'s `running_` is
false (`NotStarted`). The last makes both calls of `Start` legal and gives the
refinement. `StopIsFinal` then needs `ConnInv` as well, for `Run`'s thread: it
comes through the refinement.

**SearchInv** says that `first` is the head of `answered` until the search is done.
**ScanInv** counts: the names tested are those handed out less those in the hands of
a worker, and every name found is recorded or about to be. **PingInv** says that
`pending_pings_` is the number of pings posted or about to be. **TrayInv** holds until
the first use of a freed client, which the model records and no invariant outlives:
`WorkerFollowed`, `ClientGone` and `FailureHolds` say what the worker's position
implies for what is shown. **CliInv** says where in `main` routes, client and
supervisor can be there, and that the supervisor is on its way to a restart only after
the connection manager gave up; **PluginInv** that every IPv4 address given to a blacklisted
name is in the list of blocked addresses, and that whatever is recorded has its route or
was tried in vain.

**SettingsInv** relates rows, services and file by position; no service is there
twice (`EachOnce`), so that a row identifies one. **RouteInv** says, as long as
nothing was killed, for each item that it is there only if its command of `Apply` has
run in this list, or the one of `Clean` has not, unless the latter has ever failed:
`Counted` for the rules, which are there at most once, `Switched` for routes and
resolver, `Named` for the lines of `resolv.conf`, `Hosted` for the routes of DNS answers.
`BackedUp`, which survives kills, says that `resolv.conf` or its backup is the original.
`CommandSteps` says what running one command means for `There`, so that each part has
one case per command.

**ShakeInv** says for each connection that the server has learned what the client
sent (`Learned`), how old the key can be at most at each step, from the timeouts that
ran before (`InTime`), and that a key once good stays good for as long as the
server may still look at it (`KeyWasGood`). `NoProber` follows.

**ApiInv** has the reason why deleting by address is harmless: an entry carries the
address its request used (`EntriesOwn`), living SSL objects never share one
(`AddressesApart`), hence a living object finds its own callback or none
(`OwnOrNone`). A stale entry can be overwritten or deleted by the next owner of the
address, and its request has no use for it by then. `AddressesAssumption` is not
used.

**FlightInv** relates the three clocks of a wait. The buffer was last filled after
the last arrival, so that quiet is at most lull (`ReadAfterArrival`); the last read
of a whole answer sees that it is complete (`SeenComplete`); once the answer has arrived
the wait loses one poll before it reads again, then one for each poll of quiet
(`OnTime`). `FlightsAssumption` says what an answer of TLS 1.2, TLS 1.3 or a client is;
for a flight that ends otherwise (application data and then something else) the wait
would depend on where its reads end.

**FrameInv** says that buffer and wire together are some foreign units followed by
exactly the records not yet returned (`NothingMissing`, without recursion: the
header of record n + 1 + r is 4 r units after the first), and that less than a record
is in the buffer when the socket is read (`LittleLeft`), which bounds it.
`DeobfuscateEffect` says that one call drops foreign units or returns the next record.

**RollInv** says that the connection `RollingTunnel` swaps in is up.

**ParallelInv** relates the remaining lives of the pool of `ParallelTunnels`. `Spaced`
says that any two that are not about to end lie more than `StaggerSeconds` apart, the
connection under way included; it is kept because all of them age together and
`NextLifetimeFits` places the new one. `Kept` says, as long as nothing was lost, that
some connection outlives what the coroutine is waiting for (`Reserve`): the rest of
`ConnectBudget` and then the pause while one is made, what is left of the pause
otherwise, and always the lead. The pool is full only while one of its
connections is about to end and another outlives it by the lead (`RoomLeft`), so that
`kMaxConnections` never blocks the replacement of the last one. `AlwaysATunnel` itself is
not inductive: it does not say that the connection that is up will see the next.

`NextLifetimeFits` rests on `GapsAddUp`: if every gap between two closes were at most
`g`, the last of n closes would come after at most `g` n seconds, so the widest gap
of a pool that reaches to the end of a lifetime has room for two staggers. This is
induction over the connections; it is done with the least close that breaks
the bound, which exists because the natural numbers are well-founded (`LeastExists`).

`SpacingAssumption` is what both need of the constants: a connection is made, after a
stagger and a lead, within one slot (`LifetimeSeconds \div ConnectionCount`), and
`ConnectionCount` gaps of twice the stagger fit before the last slot. `DualTunnel` and
`TripleTunnel` (`parallel_tunnels.h:371`: 2 or 3 connections, 600 s, 30 s; a lead of 2 s,
5 s to connect) meet it with a wide margin, and so does the instance of run `protocol`.
The `static_assert`s of the template (`parallel_tunnels.h:38`) ask for much less, and
the assumption is not idle: with 2 connections, 10 s, a stagger and a lead of 1 s and 4 s to
connect TLC finds the pool without a tunnel, and with 2, 12 s and a stagger of 3 s
two closes too near each other.

### Only model-checked

* Every liveness property, and with it the fairness of `ImplementsFairVpnSessions`:
  liveness under fairness is beyond the prover.

## 6. Not modelled, and the plan

In this order:

1. **Websocket client**: the write queue, the pinger and the reader.
2. **Statistics** of the server: the thread that reads the shapers' totals, to
   which `CheckSpeedLimit` does not add the packet that opens a window, and the rules
   of the two filters as pure decisions, each with its proof.
3. **Address generators**, users and tokens.

Outside the plan: layout and texts of the graphical client, the server's `main`,
its REST handlers and its route commands, `fptn-passwd`, the bytes of a ClientHello,
serialization, the commands of macOS and Windows. They are formats, I/O or wiring
and keep no state other parts depend on; data races inside Boost.Asio objects (`Close`
from another thread than the strand) are below the level of the models.
