------------------------------ MODULE MCSQLite ------------------------------
(***************************************************************************)
(* SQLite for TLC: three processes.                                        *)
(***************************************************************************)
EXTENDS SQLite, TLC

CONSTANTS p1, p2, p3

MCProc == {p1, p2, p3}

(* Processes are interchangeable.                                          *)
Symmetry == Permutations(MCProc)
=============================================================================
