---------------------------- MODULE MCFcgiMaster ----------------------------
(***************************************************************************)
(* FcgiMaster for TLC: four connections, the first of which upstream holds.*)
(***************************************************************************)
EXTENDS FcgiMaster

CONSTANTS c1, c2, c3, c4

MCConn == {c1, c2, c3, c4}
MCHeld == {c1}
=============================================================================
