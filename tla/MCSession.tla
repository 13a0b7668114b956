----------------------------- MODULE MCSession ------------------------------
(***************************************************************************)
(* Session for TLC, and what the documentation says of destroy.            *)
(***************************************************************************)
EXTENDS Session, TLC

CONSTANTS p1, p2, s1, s2

MCProc == {p1, p2}
MCId == {s1, s2}

(* Processes are interchangeable, and so are ids.                          *)
Symmetry == Permutations(MCProc) \cup Permutations(MCId)

(* README.md:354, "session.destroy();      // End session": a script that  *)
(* starts the session after it was destroyed finds nothing that was set    *)
(* before.                                                                 *)
DestroyEnds == \A p \in Proc : started[p] => data[p] \cap buried[p] = {}
=============================================================================
