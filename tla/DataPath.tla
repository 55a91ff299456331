------------------------------ MODULE DataPath ------------------------------
(***************************************************************************)
(* How packets cross the server (vpn::Manager, data::Channel, LeakyBucket, *)
(* ConnectionMultiplexer, the packet side of web::Session) while the NAT   *)
(* table changes: RunToClient looks up address, shaper, receiver and web   *)
(* session one after the other, RunFromClient client, shaper and filter,   *)
(* and connections open, close, expire and lease addresses again between   *)
(* any two lookups.                                                        *)
(*                                                                         *)
(* A web session is here only a member of Server::sessions_; WebServer has *)
(* its whole life.  It enters with its NAT entry, and leaves before it.    *)
(***************************************************************************)
EXTENDS NatTable, Sequences

CONSTANTS
    Sizes,          \* sizes of packets
    Limit,          \* LeakyBucket::max_bytes_per_second_, the same for all
    Second,         \* the length of a bucket's window
    Capacity,       \* Channel::max_capacity_
    MaxBatch,       \* how many packets WaitForPackets returns at most
    WriteCapacity,  \* capacity of Session::write_channel_
    MaxInFlight,    \* bound: packets and batches on their way
    OneWay          \* bound: in one direction at a time

ASSUME DataPathTypes ==
    /\ Sizes \subseteq Nat /\ Limit \in Nat /\ Second \in Nat \ {0}
    /\ Capacity \in Nat /\ MaxBatch \in Nat \ {0} /\ WriteCapacity \in Nat
    /\ MaxInFlight \in Nat /\ OneWay \in BOOLEAN

VARIABLES
    sessions,       \* Server::sessions_ (the keys)
    opening,        \* nat_session in HandleWebSocket2 until it is marked
    unchanged_ip,   \* multiplexers with disable_checksum_calculation_
    bucket,         \* the shaper of each multiplexer and direction
    from_network,   \* VirtualInterface::from_network_
    to,             \* RunToClient: [at, packets, nat_session, client_id]
    batches,        \* ... and its batches
    write_channel,  \* Session::write_channel_ of each client
    from_client,    \* Server::from_client_
    from,           \* RunFromClient: [at, packets, session]
    prepared        \* ... and its prepared_batch

pathVars == <<sessions, opening, unchanged_ip, bucket, from_network, to, batches,
              write_channel, from_client, from, prepared>>
dataVars == <<natVars, pathVars>>

Inbound == [dst : IPv4s \cup IPv6s, size : Sizes]
Outbound == [client : Clients, size : Sizes]

(* A packet on its way, with the multiplexer it was routed by (a history   *)
(* variable: the code forgets it).                                         *)
Routed == [dst : IPv4s \cup IPv6s, via : Mplx]
Sent == [client : Clients, via : Mplx]

Directions == {"to_client", "from_client"}

(* LeakyBucket::LeakyBucket                                                *)
NewBucket == [amount |-> 0, since |-> now]

ToIdle == [at |-> "wait", packets |-> <<>>, nat_session |-> Null,
           client_id |-> Null]
FromIdle == [at |-> "wait", packets |-> <<>>, session |-> Null]

DataInit ==
    /\ NatInit
    /\ sessions = {}
    /\ opening = [c \in Clients |-> Null]
    /\ unchanged_ip = {}
    /\ bucket = [m \in Mplx |-> [d \in Directions |-> NewBucket]]
    /\ from_network = <<>>
    /\ to = ToIdle
    /\ batches = [c \in Clients |-> <<>>]
    /\ write_channel = [c \in Clients |-> <<>>]
    /\ from_client = <<>>
    /\ from = FromIdle
    /\ prepared = <<>>

-----------------------------------------------------------------------------
(* Sessions come and go.                                                   *)

(* HandleWsOpenConnection; a new multiplexer brings its shapers, a joining *)
(* connection's shapers are dropped.                                       *)
HandleWsOpenConnection(c, s, u, p) ==
    /\ c \notin sessions
    /\ AddConnection(c, s, u, p)
    /\ sessions' = sessions \cup {c}
    /\ bucket' = [m \in Mplx |-> IF heap[m] = Null /\ heap'[m] # Null
                                 THEN [d \in Directions |-> NewBucket]
                                 ELSE bucket[m]]
    /\ UNCHANGED <<unchanged_ip, from_network, to, batches, write_channel,
                   from_client, from, prepared>>

(* HandleWebSocket, the old protocol: a session id of its own, no role and *)
(* no end, and addresses are changed on the server.                        *)
HandleWebSocket(c, s, u, p) ==
    /\ session_to_mplx[s] = Null
    /\ IsBidirectional(p)
    /\ HandleWsOpenConnection(c, s, u, p)
    /\ UNCHANGED opening

(* HandleWebSocket2, up to the return of the callback.                     *)
HandleWebSocket2(c, s, u, p) ==
    /\ HandleWsOpenConnection(c, s, u, p)
    /\ opening' = [opening EXCEPT ![c] = client_to_mplx'[c]]

(* DisableChecksumCalculation(true), when the callback has returned.       *)
Mark(c) ==
    /\ opening[c] # Null
    /\ unchanged_ip' = unchanged_ip \cup {opening[c]}
    /\ opening' = [opening EXCEPT ![c] = Null]
    /\ UNCHANGED <<natVars, sessions, bucket, from_network, to, batches,
                   write_channel, from_client, from, prepared>>

(* Session::Close: the channel is closed, then the session is erased ...   *)
CloseErase(c) ==
    /\ c \in sessions
    /\ opening[c] = Null
    /\ sessions' = sessions \ {c}
    /\ write_channel' = [write_channel EXCEPT ![c] = <<>>]
    /\ UNCHANGED <<natVars, opening, unchanged_ip, bucket, from_network, to,
                   batches, from_client, from, prepared>>

(* ... and only then its NAT entry is deleted.                             *)
CloseDel(c) ==
    /\ c \notin sessions
    /\ DelConnectionByClientId(c)
    /\ UNCHANGED pathVars

-----------------------------------------------------------------------------
(* Channel and LeakyBucket                                                 *)

(* Channel::Push; a full channel drops the packet.                         *)
Push(queue, p) == IF Len(queue) <= Capacity THEN Append(queue, p) ELSE queue

(* Channel::WaitForPackets: what it returns, and what it leaves.           *)
Waited(queue) ==
    SubSeq(queue, 1, IF Len(queue) < MaxBatch THEN Len(queue) ELSE MaxBatch)
Left(queue) == SubSeq(queue, Len(Waited(queue)) + 1, Len(queue))

(* LeakyBucket::CheckSpeedLimit: whether, and the bucket afterwards.       *)
WindowOver(b) == now - b.since >= Second

(* Wrong variant: only the length of the window is looked at.              *)
CheckSpeedLimit_Unlimited(b, size) == TRUE
CheckSpeedLimit(b, size) == WindowOver(b) \/ b.amount + size < Limit

Poured(b, size) ==
    IF WindowOver(b) THEN [amount |-> size, since |-> now]
    ELSE [b EXCEPT !.amount = @ + size]

(* Packets and batches on their way in each direction.                     *)
Inwards ==
    Len(from_network) + Len(to.packets)
    + Cardinality({c \in Clients : batches[c] # <<>>})
    + Cardinality({c \in Clients : write_channel[c] # <<>>})
Outwards == Len(from_client) + Len(from.packets) + Len(prepared)

(* The bounds of the model on the next packet of a direction.              *)
MayEnter(these, those) == these < MaxInFlight /\ (OneWay => those = 0)

-----------------------------------------------------------------------------
(* RunToClient                                                             *)

(* The TUN device hands a packet over (IPPacketFromNetwork).               *)
Arrive(a, size) ==
    /\ MayEnter(Inwards, Outwards)
    /\ from_network' = Push(from_network, [dst |-> a, size |-> size])
    /\ UNCHANGED <<natVars, sessions, opening, unchanged_ip, bucket, to,
                   batches, write_channel, from_client, from, prepared>>

ToWait ==
    /\ to.at = "wait"
    /\ from_network # <<>>
    /\ to' = [to EXCEPT !.at = "look", !.packets = Waited(from_network)]
    /\ from_network' = Left(from_network)
    /\ UNCHANGED <<natVars, sessions, opening, unchanged_ip, bucket, batches,
                   write_channel, from_client, from, prepared>>

(* On to the next packet of the loop.                                      *)
ToNext == [ToIdle EXCEPT !.at = "look", !.packets = Tail(to.packets)]

(* GetMultiplexerByFakeIPv4 and GetMultiplexerByFakeIPv6.                  *)
GetMultiplexerByFakeIP(a) ==
    IF a \in IPv4s THEN ipv4_to_mplx[a] ELSE ipv6_to_mplx[a]

ToLook ==
    /\ to.at = "look"
    /\ to.packets # <<>>
    /\ LET m == GetMultiplexerByFakeIP(Head(to.packets).dst)
       IN  to' = IF m = Null THEN ToNext
                 ELSE [to EXCEPT !.at = "shape", !.nat_session = m]
    /\ UNCHANGED <<natVars, sessions, opening, unchanged_ip, bucket,
                   from_network, batches, write_channel, from_client, from,
                   prepared>>

ToShape ==
    LET m == to.nat_session
        size == Head(to.packets).size
    IN  /\ to.at = "shape"
        /\ IF CheckSpeedLimit(bucket[m]["to_client"], size)
           THEN /\ bucket' = [bucket EXCEPT ![m]["to_client"] = Poured(@, size)]
                /\ to' = [to EXCEPT !.at = "pick"]
           ELSE /\ to' = ToNext
                /\ UNCHANGED bucket
        /\ UNCHANGED <<natVars, sessions, opening, unchanged_ip, from_network,
                       batches, write_channel, from_client, from, prepared>>

(* Wrong variant: the receiver is looked up by the packet's address again. *)
ToPick_ByAddress ==
    LET m == GetMultiplexerByFakeIP(Head(to.packets).dst)
    IN  /\ to.at = "pick"
        /\ IF m = Null \/ receiving[m] = {} THEN to' = ToNext
           ELSE \E c \in receiving[m] :
                   to' = [to EXCEPT !.at = "change", !.client_id = c]
        /\ UNCHANGED <<natVars, sessions, opening, unchanged_ip, bucket,
                       from_network, batches, write_channel, from_client, from,
                       prepared>>

(* NextReceiverClientId: a port or a counter picks one of receiving_.      *)
ToPick ==
    /\ to.at = "pick"
    /\ IF receiving[to.nat_session] = {} THEN to' = ToNext
       ELSE \E c \in receiving[to.nat_session] :
               to' = [to EXCEPT !.at = "change", !.client_id = c]
    /\ UNCHANGED <<natVars, sessions, opening, unchanged_ip, bucket,
                   from_network, batches, write_channel, from_client, from,
                   prepared>>

(* ChangeIPAddressToClientIP, which needs the connection only when it has  *)
(* to change the address.                                                  *)
ToChange ==
    LET m == to.nat_session
        c == to.client_id
        p == [dst |-> Head(to.packets).dst, via |-> m]
    IN  /\ to.at = "change"
        /\ batches' = IF m \in unchanged_ip \/ c \in receiving[m]
                      THEN [batches EXCEPT ![c] = Append(@, p)]
                      ELSE batches
        /\ to' = ToNext
        /\ UNCHANGED <<natVars, sessions, opening, unchanged_ip, bucket,
                       from_network, write_channel, from_client, from, prepared>>

(* Session::SendBatch, try_send by try_send.                               *)
Written(queue, batch) ==
    LET room == WriteCapacity - Len(queue)
    IN  queue \o SubSeq(batch, 1, IF Len(batch) < room THEN Len(batch) ELSE room)

(* GetSessionById and SendBatch for one entry of batches.                  *)
ToFlush(c) ==
    /\ to.at = "look" /\ to.packets = <<>>
    /\ batches[c] # <<>>
    /\ write_channel' = IF c \in sessions
                        THEN [write_channel EXCEPT ![c] = Written(@, batches[c])]
                        ELSE write_channel
    /\ batches' = [batches EXCEPT ![c] = <<>>]
    /\ UNCHANGED <<natVars, sessions, opening, unchanged_ip, bucket,
                   from_network, to, from_client, from, prepared>>

ToDone ==
    /\ to.at = "look" /\ to.packets = <<>>
    /\ \A c \in Clients : batches[c] = <<>>
    /\ to' = ToIdle
    /\ UNCHANGED <<natVars, sessions, opening, unchanged_ip, bucket,
                   from_network, batches, write_channel, from_client, from,
                   prepared>>

ToStep ==
    \/ ToWait \/ ToLook \/ ToShape \/ ToPick \/ ToChange \/ ToDone
    \/ \E c \in Clients : ToFlush(c)

(* RunSender takes some of what is queued (one packet in the old protocol) *)
(* and writes it to the WebSocket.                                         *)
RunSender(c) ==
    /\ c \in sessions
    /\ opening[c] = Null
    /\ \E n \in 1..Len(write_channel[c]) :
          write_channel' = [write_channel EXCEPT ![c] = SubSeq(@, n + 1, Len(@))]
    /\ UNCHANGED <<natVars, sessions, opening, unchanged_ip, bucket,
                   from_network, to, batches, from_client, from, prepared>>

-----------------------------------------------------------------------------
(* RunFromClient                                                           *)

(* RunReader parses a packet and hands it over (HandleWsNewIPPacket).  It  *)
(* tests running_ once for all packets of a message, so that another       *)
(* thread may have closed the session by then.                             *)
RunReader(c, size) ==
    /\ conn[c] # Null
    /\ opening[c] = Null
    /\ MayEnter(Outwards, Inwards)
    /\ from_client' = Push(from_client, [client |-> c, size |-> size])
    /\ UNCHANGED <<natVars, sessions, opening, unchanged_ip, bucket,
                   from_network, to, batches, write_channel, from, prepared>>

FromWait ==
    /\ from.at = "wait"
    /\ from_client # <<>>
    /\ from' = [from EXCEPT !.at = "look", !.packets = Waited(from_client)]
    /\ from_client' = Left(from_client)
    /\ UNCHANGED <<natVars, sessions, opening, unchanged_ip, bucket,
                   from_network, to, batches, write_channel, prepared>>

FromNext == [FromIdle EXCEPT !.at = "look", !.packets = Tail(from.packets)]

(* GetMultiplexerByClientId                                                *)
FromLook ==
    /\ from.at = "look"
    /\ from.packets # <<>>
    /\ LET m == client_to_mplx[Head(from.packets).client]
       IN  from' = IF m = Null THEN FromNext
                   ELSE [from EXCEPT !.at = "shape", !.session = m]
    /\ UNCHANGED <<natVars, sessions, opening, unchanged_ip, bucket,
                   from_network, to, batches, write_channel, from_client,
                   prepared>>

FromShape ==
    LET m == from.session
        size == Head(from.packets).size
    IN  /\ from.at = "shape"
        /\ IF CheckSpeedLimit(bucket[m]["from_client"], size)
           THEN /\ bucket' = [bucket EXCEPT ![m]["from_client"] = Poured(@, size)]
                /\ from' = [from EXCEPT !.at = "filter"]
           ELSE /\ from' = FromNext
                /\ UNCHANGED bucket
        /\ UNCHANGED <<natVars, sessions, opening, unchanged_ip, from_network,
                       to, batches, write_channel, from_client, prepared>>

(* Filters decide by the packet alone; ChangeIPAddressToFakeIP keeps it.   *)
FromFilter ==
    /\ from.at = "filter"
    /\ \/ UNCHANGED prepared
       \/ prepared' = Append(prepared, [client |-> Head(from.packets).client,
                                        via |-> from.session])
    /\ from' = FromNext
    /\ UNCHANGED <<natVars, sessions, opening, unchanged_ip, bucket,
                   from_network, to, batches, write_channel, from_client>>

(* SendBatch to the TUN device.                                            *)
FromSend ==
    /\ from.at = "look" /\ from.packets = <<>>
    /\ prepared' = <<>>
    /\ from' = FromIdle
    /\ UNCHANGED <<natVars, sessions, opening, unchanged_ip, bucket,
                   from_network, to, batches, write_channel, from_client>>

FromStep == FromWait \/ FromLook \/ FromShape \/ FromFilter \/ FromSend

-----------------------------------------------------------------------------
DataNext ==
    \/ \E c \in Clients, s \in Sessions, u \in Users, p \in Profiles :
          HandleWebSocket(c, s, u, p) \/ HandleWebSocket2(c, s, u, p)
    \/ \E c \in Clients : Mark(c) \/ CloseErase(c) \/ CloseDel(c) \/ RunSender(c)
    \/ (SweepBuckets \/ SweepCommit \/ Tick) /\ UNCHANGED pathVars
    \/ \E a \in IPv4s \cup IPv6s, size \in Sizes : Arrive(a, size)
    \/ \E c \in Clients, size \in Sizes : RunReader(c, size)
    \/ ToStep
    \/ FromStep

DataSpec == DataInit /\ [][DataNext]_dataVars

-----------------------------------------------------------------------------
(* Properties                                                              *)

(* The type of every variable; a Channel holds at most one packet more     *)
(* than max_capacity_ (Push compares with <=).                             *)
DataTypeOK ==
    /\ sessions \subseteq Clients
    /\ opening \in [Clients -> Mplx \cup {Null}]
    /\ unchanged_ip \subseteq Mplx
    /\ bucket \in [Mplx -> [Directions -> [amount : Nat, since : Nat]]]
    /\ from_network \in Seq(Inbound) /\ Len(from_network) <= Capacity + 1
    /\ from_client \in Seq(Outbound) /\ Len(from_client) <= Capacity + 1
    /\ to \in [at : {"wait", "look", "shape", "pick", "change"},
              packets : Seq(Inbound), nat_session : Mplx \cup {Null},
              client_id : Clients \cup {Null}]
    /\ batches \in [Clients -> Seq(Routed)]
    /\ write_channel \in [Clients -> Seq(Routed)]
    /\ \A c \in Clients : Len(write_channel[c]) <= WriteCapacity
    /\ from \in [at : {"wait", "look", "shape", "filter"},
                packets : Seq(Outbound), session : Mplx \cup {Null}]
    /\ prepared \in Seq(Sent)

Elements(q) == {q[i] : i \in 1..Len(q)}

(* Packets reach the session they were routed to: whatever waits in the    *)
(* batch or the write channel of a client was sent to an address that the  *)
(* session it was routed by leased, and the client is one of that          *)
(* session's user, even when session and address were given away between   *)
(* the lookups.                                                            *)
DeliveredToLessee ==
    \A c \in Clients :
       \A p \in Elements(batches[c]) \cup Elements(write_channel[c]) :
          /\ p.dst \in {heap[p.via].fake4, heap[p.via].fake6}
          /\ conn[c].username = heap[p.via].username

(* What a client sends is shaped and counted as its own user's traffic,    *)
(* even when its session ended while the packet was on its way.            *)
ChargedToSender ==
    \A p \in Elements(prepared) : conn[p.client].username = heap[p.via].username

(* A window never lets more through than the limit, except the one packet  *)
(* that opens it.                                                          *)
WindowBounded ==
    \A m \in Mplx, d \in Directions :
       bucket[m][d].amount < Limit \/ bucket[m][d].amount \in Sizes \cup {0}
=============================================================================
