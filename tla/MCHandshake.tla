---------------------------- MODULE MCHandshake ----------------------------
(* Handshake with the timeouts the code has, in seconds, and one kind of   *)
(* client: a websocket client that imitates a browser.                     *)
EXTENDS Handshake

MCPeers == {[kind |-> "ws", strategy |-> "RealityBrowser", skew |-> 0, fallback |-> FALSE]}

MCPatience == [k \in {"ws", "api", "stranger", "garbage", "stub", "silent"} |->
                 IF k = "ws" THEN 2 ELSE 3]

MCFetchTimeout == [reality |-> 3, reality2 |-> 5]
=============================================================================
