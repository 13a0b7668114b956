----------------------------- MODULE RelayLife ------------------------------
(***************************************************************************)
(* What the development server and its clients rely on in the processes of *)
(* one request, whatever happens in them: there is a handler, it starts at *)
(* most one script, it waits for that script unless it is killed, and the  *)
(* connection is open exactly as long as one of the two lives.             *)
(***************************************************************************)
VARIABLES
  handler,   \* "running", "ended" or "killed"
  script,    \* "none", "running" or "over"
  open       \* the client's connection is open

vars == <<handler, script, open>>

Init ==
  /\ handler = "running"
  /\ script = "none"
  /\ open = TRUE

StartScript ==
  /\ handler = "running"
  /\ script = "none"
  /\ script' = "running"
  /\ UNCHANGED <<handler, open>>

HandlerEnds ==
  /\ handler = "running"
  /\ script # "running"
  /\ handler' = "ended"
  /\ open' = FALSE
  /\ UNCHANGED script

HandlerKilled ==
  /\ handler = "running"
  /\ handler' = "killed"
  /\ open' = (script = "running")
  /\ UNCHANGED script

ScriptEnds ==
  /\ script = "running"
  /\ script' = "over"
  /\ open' = (handler = "running")
  /\ UNCHANGED handler

Next == StartScript \/ HandlerEnds \/ HandlerKilled \/ ScriptEnds

Safety == Init /\ [][Next]_vars

Spec ==
  /\ Safety
  /\ WF_vars(HandlerEnds \/ HandlerKilled)
  /\ WF_vars(ScriptEnds)
=============================================================================
