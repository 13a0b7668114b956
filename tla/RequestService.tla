--------------------------- MODULE RequestService ---------------------------
(***************************************************************************)
(* What a worker promises the web server, without saying how: requests are *)
(* taken one at a time, a request is answered at most once and only when   *)
(* all of it has arrived, a request that was given up is never answered,   *)
(* and the script that answers a request has seen data of that request     *)
(* only.  FcgiConnection implements this specification.                    *)
(***************************************************************************)
EXTENDS Naturals

CONSTANT NumRequests   \* bound: requests upstream makes in a behaviour

VARIABLES
  cur,    \* the last request made, 0 at first
  fate,   \* fate[r]: "unsent", "arriving", "pending", "answered" or "lost"
  seen    \* the requests whose data the running script has seen

serviceVars == <<cur, fate, seen>>

Init ==
  /\ cur = 0
  /\ fate = [r \in 1..NumRequests |-> "unsent"]
  /\ seen = {}

Settled == cur = 0 \/ fate[cur] \in {"answered", "lost"}

Submit ==
  /\ cur < NumRequests
  /\ Settled
  /\ cur' = cur + 1
  /\ fate' = [fate EXCEPT ![cur + 1] = "arriving"]
  /\ UNCHANGED seen

Arrive ==
  /\ ~Settled
  /\ fate[cur] = "arriving"
  /\ fate' = [fate EXCEPT ![cur] = "pending"]
  /\ UNCHANGED <<cur, seen>>

(* A script runs for the current request, or the traces of one are erased. *)
Execute ==
  /\ seen' \in {{}, {cur}}
  /\ UNCHANGED <<cur, fate>>

Answer ==
  /\ ~Settled
  /\ fate[cur] = "pending"
  /\ seen \subseteq {cur}
  /\ fate' = [fate EXCEPT ![cur] = "answered"]
  /\ UNCHANGED <<cur, seen>>

GiveUp ==
  /\ ~Settled
  /\ fate' = [fate EXCEPT ![cur] = "lost"]
  /\ seen' \in {{}, seen}
  /\ UNCHANGED cur

Next == Submit \/ Arrive \/ Execute \/ Answer \/ GiveUp

Spec == Init /\ [][Next]_serviceVars
=============================================================================
