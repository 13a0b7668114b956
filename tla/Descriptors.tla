---------------------------- MODULE Descriptors -----------------------------
(***************************************************************************)
(* Which processes of the development server have which connection: fork   *)
(* gives the child whatever its parent has, and exit closes it all.        *)
(***************************************************************************)
EXTENDS ListenQueue

VARIABLE holders   \* holders[c]: the processes that have c's descriptor

(* The server, and the handler and the script of a connection.             *)
Main == <<"main">>
H(c) == <<"handler", c>>
S(c) == <<"script", c>>

Inherit(p, q) == [d \in Conn |-> IF p \in holders[d] THEN holders[d] \cup {q} ELSE holders[d]]
Release(p) == [d \in Conn |-> holders[d] \ {p}]

(* No process ever has the connection of another request: neither a later  *)
(* handler nor its script can keep a client waiting for the end.           *)
OwnConnection == \A c \in Conn : holders[c] \subseteq {Main, H(c), S(c)}
=============================================================================
