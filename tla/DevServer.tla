----------------------------- MODULE DevServer ------------------------------
(***************************************************************************)
(* The development server (run_dev_server): one process accepts            *)
(* connections and forks a handler for each; the handler starts a script   *)
(* (ScriptRelay has the inside of that, RelayLife what is used of it       *)
(* here).  Children are reaped by a SIGCHLD handler; the kernel keeps one  *)
(* pending signal however many children have died.  The listen queue is 64 *)
(* connections long.                                                       *)
(*                                                                         *)
(* An operator named X_how is X with a plausible mistake, kept beside it   *)
(* for the properties to be tested against; no specification uses it.      *)
(***************************************************************************)
EXTENDS Descriptors

CONSTANTS
  Faults,    \* the calls that may fail, of {"accept", "fork"}
  None       \* client_fd before the first accept and after close

ConstantsOK ==
  /\ IsFiniteSet(Conn)
  /\ Held \subseteq Conn
  /\ Backlog \in Nat \ {0}
  /\ Faults \subseteq {"accept", "fork"}
  /\ None \notin Conn

ASSUME ConstantsAssumption == ConstantsOK

VARIABLES
  main,       \* "accept", "fork", "close" or "stopped"
  client,     \* client_fd: the connection just accepted, or None
  reaping,    \* reap_children has interrupted the server
  pending,    \* SIGCHLD is pending
  handler,    \* handler[c]: "none", "setup", "running", "zombie" or "reaped"
  script,     \* script[c]: "none", "running" or "over"
  listeners   \* the processes that have the listening socket

signalVars == <<reaping, pending>>
childVars == <<handler, script>>
fdVars == <<holders, listeners>>
vars == <<main, client, signalVars, queueVars, childVars, fdVars>>

Init ==
  /\ main = "accept"
  /\ client = None
  /\ reaping = FALSE
  /\ pending = FALSE
  /\ conn = [c \in Conn |-> "new"]
  /\ queue = <<>>
  /\ handler = [c \in Conn |-> "none"]
  /\ script = [c \in Conn |-> "none"]
  /\ holders = [c \in Conn |-> {}]
  /\ listeners = {Main}

-----------------------------------------------------------------------------
(* The server's loop.  It stands still while the signal handler runs.      *)

Accept ==
  /\ main = "accept"
  /\ ~reaping
  /\ Take("accepted")
  /\ client' = Head(queue)
  /\ holders' = [holders EXCEPT ![Head(queue)] = {Main}]
  /\ main' = "fork"
  /\ UNCHANGED <<signalVars, childVars, listeners>>

(* When no process has the listening socket any more, what is queued on it *)
(* is reset.                                                               *)
CloseSocket(p) ==
  /\ listeners' = listeners \ {p}
  /\ IF listeners' = {} THEN Drop("reset") ELSE UNCHANGED queueVars

(* accept fails with an error other than EINTR: the server closes the      *)
(* socket and exits.                                                       *)
AcceptFails ==
  /\ "accept" \in Faults
  /\ main = "accept"
  /\ ~reaping
  /\ main' = "stopped"
  /\ CloseSocket(Main)
  /\ UNCHANGED <<client, signalVars, childVars, holders>>

(* The result of fork is not looked at by the server.                      *)
Fork ==
  /\ main = "fork"
  /\ ~reaping
  /\ \/ /\ handler' = [handler EXCEPT ![client] = "setup"]
        /\ holders' = Inherit(Main, H(client))
        /\ listeners' = listeners \cup {H(client)}
     \/ /\ "fork" \in Faults
        /\ UNCHANGED <<handler, fdVars>>
  /\ main' = "close"
  /\ UNCHANGED <<client, signalVars, queueVars, script>>

Close_skipped ==
  /\ main = "close"
  /\ ~reaping
  /\ client' = None
  /\ main' = "accept"
  /\ UNCHANGED <<signalVars, queueVars, childVars, fdVars>>

Close_waits ==
  /\ main = "close"
  /\ ~reaping
  /\ handler[client] \in {"none", "zombie", "reaped"}
  /\ holders' = [holders EXCEPT ![client] = @ \ {Main}]
  /\ client' = None
  /\ main' = "accept"
  /\ UNCHANGED <<signalVars, queueVars, childVars, listeners>>

Close ==
  /\ main = "close"
  /\ ~reaping
  /\ holders' = [holders EXCEPT ![client] = @ \ {Main}]
  /\ client' = None
  /\ main' = "accept"
  /\ UNCHANGED <<signalVars, queueVars, childVars, listeners>>

-----------------------------------------------------------------------------
(* reap_children.                                                          *)

Interrupt ==
  /\ main # "stopped"
  /\ pending
  /\ ~reaping
  /\ reaping' = TRUE
  /\ pending' = FALSE
  /\ UNCHANGED <<main, client, queueVars, childVars, fdVars>>

Zombies == { c \in Conn : handler[c] = "zombie" }

(* waitpid(-1, WNOHANG), until there is nobody to wait for.                *)
Reap_once ==
  /\ reaping
  /\ \E c \in Zombies : handler' = [handler EXCEPT ![c] = "reaped"]
  /\ reaping' = FALSE
  /\ UNCHANGED <<main, client, pending, queueVars, script, fdVars>>

Reap ==
  /\ reaping
  /\ IF Zombies # {}
     THEN /\ \E c \in Zombies : handler' = [handler EXCEPT ![c] = "reaped"]
          /\ UNCHANGED reaping
     ELSE /\ reaping' = FALSE
          /\ UNCHANGED handler
  /\ UNCHANGED <<main, client, pending, queueVars, script, fdVars>>

-----------------------------------------------------------------------------
(* Clients and children.                                                   *)

Connect(c) ==
  /\ listeners # {}
  /\ Arrive(c)
  /\ UNCHANGED <<main, client, signalVars, childVars, fdVars>>

(* The handler's first call: it has no use for the listening socket.       *)
Setup(c) ==
  /\ handler[c] = "setup"
  /\ handler' = [handler EXCEPT ![c] = "running"]
  /\ CloseSocket(H(c))
  /\ UNCHANGED <<main, client, signalVars, script, holders>>

StartScript(c) ==
  /\ handler[c] = "running"
  /\ script[c] = "none"
  /\ script' = [script EXCEPT ![c] = "running"]
  /\ holders' = Inherit(H(c), S(c))
  /\ listeners' = IF H(c) \in listeners THEN listeners \cup {S(c)} ELSE listeners
  /\ UNCHANGED <<main, client, signalVars, queueVars, handler>>

HandlerExits(c) ==
  /\ handler' = [handler EXCEPT ![c] = "zombie"]
  /\ pending' = TRUE
  /\ holders' = Release(H(c))
  /\ CloseSocket(H(c))
  /\ UNCHANGED <<main, client, reaping, script>>

HandlerEnds(c) ==
  /\ c \notin Held
  /\ handler[c] = "running"
  /\ script[c] # "running"
  /\ HandlerExits(c)

HandlerKilled(c) ==
  /\ handler[c] \in {"setup", "running"}
  /\ HandlerExits(c)

ScriptEnds(c) ==
  /\ script[c] = "running"
  /\ script' = [script EXCEPT ![c] = "over"]
  /\ holders' = Release(S(c))
  /\ CloseSocket(S(c))
  /\ UNCHANGED <<main, client, signalVars, handler>>

Server == Accept \/ Fork \/ Close
Signal == Interrupt \/ Reap
Child(c) == Setup(c) \/ HandlerEnds(c) \/ (c \notin Held /\ ScriptEnds(c))

Next ==
  \/ Server \/ AcceptFails \/ Signal
  \/ \E c \in Conn :
       \/ Connect(c)
       \/ Setup(c) \/ StartScript(c) \/ HandlerEnds(c) \/ HandlerKilled(c) \/ ScriptEnds(c)

(* Processes run when they can; a request that is not held ends, as        *)
(* RelayLife says.                                                         *)
Fairness ==
  /\ WF_vars(Server) /\ WF_vars(Signal)
  /\ \A c \in Conn : WF_vars(Child(c))

Spec == Init /\ [][Next]_vars /\ Fairness

-----------------------------------------------------------------------------
(* Properties.                                                             *)

(* Every variable keeps its type.                                          *)
TypeOK ==
  /\ main \in {"accept", "fork", "close", "stopped"}
  /\ client \in Conn \cup {None}
  /\ reaping \in BOOLEAN
  /\ pending \in BOOLEAN
  /\ conn \in [Conn -> {"new", "queued", "accepted", "reset"}]
  /\ queue \in Seq(Conn) /\ Len(queue) <= Backlog
  /\ handler \in [Conn -> {"none", "setup", "running", "zombie", "reaped"}]
  /\ script \in [Conn -> {"none", "running", "over"}]
  /\ LET processes == {Main} \cup { H(c) : c \in Conn } \cup { S(c) : c \in Conn } IN
       /\ holders \in [Conn -> SUBSET processes]
       /\ listeners \subseteq processes

(* Every dead child is waited for, although children that die together, or *)
(* while reap_children runs, raise one signal.                             *)
ZombiesReaped ==
  \A c \in Conn : (handler[c] = "zombie") ~> (handler[c] = "reaped" \/ main = "stopped")

(* Nobody keeps a descriptor that it has inherited: a connection that is   *)
(* not held is closed by every process that has it, so that the client,    *)
(* which is given no length, sees the end of the page; and once the server *)
(* has stopped its port is free, whatever requests are still running.      *)
ConnectionEnds ==
  /\ \A c \in Conn \ Held : (conn[c] = "accepted") ~> (holders[c] = {})
  /\ (main = "stopped") ~> (listeners = {})

(* Requests that never end do not keep others from being accepted.         *)
QueueServed ==
  \A c \in Conn : (conn[c] = "queued") ~> (conn[c] # "queued" \/ main = "stopped")
=============================================================================
