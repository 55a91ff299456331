---------------------------- MODULE MCVpnManager ----------------------------
(* VpnManager with one reconnection attempt, one allowed full restart and  *)
(* a queue of two packets.                                                 *)
EXTENDS VpnManager
=============================================================================
