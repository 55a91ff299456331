------------------------ MODULE MCConnectionManager ------------------------
(* ConnectionManager with two reconnection attempts and three calls of     *)
(* Start.                                                                  *)
EXTENDS ConnectionManager
=============================================================================
