---------------------------- MODULE MCDevServer -----------------------------
(***************************************************************************)
(* DevServer for TLC: three connections, one of them with a request that   *)
(* never ends.                                                             *)
(***************************************************************************)
EXTENDS DevServer

CONSTANTS c1, c2, c3

MCConn == {c1, c2, c3}
MCHeld == {c1}
=============================================================================
