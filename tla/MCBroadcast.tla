---------------------------- MODULE MCBroadcast ----------------------------
(* An instance of Broadcast for TLC: sockets, calls and attempts are given *)
(* by the configuration.                                                   *)
EXTENDS Broadcast
=============================================================================
