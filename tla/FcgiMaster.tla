----------------------------- MODULE FcgiMaster -----------------------------
(***************************************************************************)
(* The FastCGI master process (run_fastcgi): it preforks the workers, then *)
(* waits for children and forks a replacement for each one that died.  The *)
(* workers share the listening socket; each accepts a connection, serves   *)
(* it to its end (FcgiConnection has the inside of that) and accepts the   *)
(* next one.  Workers are interchangeable, so the idle ones are counted.   *)
(* The queue is 128 connections long; Held are those that upstream never   *)
(* closes or never drains.                                                 *)
(*                                                                         *)
(* An operator named X_how is X with a plausible mistake, kept beside it   *)
(* for the properties to be tested against; no specification uses it.      *)
(***************************************************************************)
EXTENDS ListenQueue

CONSTANTS
  NumWorkers,   \* the --workers option
  MaxDeaths,    \* bound: workers that die in a behaviour
  ForkMayFail   \* FALSE: every fork succeeds

ASSUME ConstantsAssumption ==
  /\ NumWorkers \in Nat \ {0}
  /\ IsFiniteSet(Conn)
  /\ Held \subseteq Conn
  /\ Backlog \in Nat \ {0}
  /\ MaxDeaths \in Nat
  /\ ForkMayFail \in BOOLEAN

VARIABLES
  master,    \* "prefork", "wait", "refork" or "exited"
  i,         \* iterations of the prefork loop done
  idle,      \* workers blocked in accept
  zombies,   \* dead workers the master has not waited for
  failed,    \* history: forks that failed
  deaths     \* history: workers that died

poolVars == <<idle, zombies, failed, deaths>>
vars == <<master, i, poolVars, queueVars>>

Serving == { c \in Conn : conn[c] = "serving" }
Live == idle + Cardinality(Serving)

Init ==
  /\ master = "prefork"
  /\ i = 0
  /\ idle = 0
  /\ zombies = 0
  /\ failed = 0
  /\ deaths = 0
  /\ conn = [c \in Conn |-> "new"]
  /\ queue = <<>>

-----------------------------------------------------------------------------
(* The master.                                                             *)

(* fork: a new worker in its accept loop, or an error (only logged while   *)
(* preforking, ignored afterwards).                                        *)
Fork ==
  \/ /\ idle' = idle + 1
     /\ UNCHANGED failed
  \/ /\ ForkMayFail
     /\ failed' = failed + 1
     /\ UNCHANGED idle

Prefork ==
  /\ master = "prefork"
  /\ i < NumWorkers
  /\ i' = i + 1
  /\ Fork
  /\ UNCHANGED <<master, zombies, deaths, queueVars>>

EndPrefork ==
  /\ master = "prefork"
  /\ i = NumWorkers
  /\ master' = "wait"
  /\ UNCHANGED <<i, poolVars, queueVars>>

(* waitpid returns a dead child.                                           *)
Reap_at_once ==
  /\ master = "wait"
  /\ zombies > 0
  /\ zombies' = 0
  /\ master' = "refork"
  /\ UNCHANGED <<i, idle, failed, deaths, queueVars>>

Reap ==
  /\ master = "wait"
  /\ zombies > 0
  /\ zombies' = zombies - 1
  /\ master' = "refork"
  /\ UNCHANGED <<i, idle, failed, deaths, queueVars>>

Refork_skipped ==
  /\ master = "refork"
  /\ master' = "wait"
  /\ UNCHANGED <<i, poolVars, queueVars>>

Refork ==
  /\ master = "refork"
  /\ Fork
  /\ master' = "wait"
  /\ UNCHANGED <<i, zombies, deaths, queueVars>>

(* waitpid fails with ECHILD: the master closes the socket and returns; no *)
(* process has the socket any more and what was queued on it is reset.     *)
Exit ==
  /\ master = "wait"
  /\ zombies = 0
  /\ Live = 0
  /\ master' = "exited"
  /\ Drop("dropped")
  /\ UNCHANGED <<i, poolVars>>

-----------------------------------------------------------------------------
(* Workers and upstream.                                                   *)

Connect(c) ==
  /\ master # "exited"
  /\ Arrive(c)
  /\ UNCHANGED <<master, i, poolVars>>

Accept ==
  /\ idle > 0
  /\ Take("serving")
  /\ idle' = idle - 1
  /\ UNCHANGED <<master, i, zombies, failed, deaths>>

(* fcgi_handle_connection returns and the worker accepts again.  It never  *)
(* returns from a connection that upstream holds open, and never from one  *)
(* whose request blocks it.                                                *)
Return_once(c) ==
  /\ conn[c] = "serving"
  /\ c \notin Held
  /\ conn' = [conn EXCEPT ![c] = "closed"]
  /\ UNCHANGED <<master, i, poolVars, queue>>

Return(c) ==
  /\ conn[c] = "serving"
  /\ c \notin Held
  /\ conn' = [conn EXCEPT ![c] = "closed"]
  /\ idle' = idle + 1
  /\ UNCHANGED <<master, i, zombies, failed, deaths, queue>>

(* accept fails with an error other than EINTR, or the idle worker is      *)
(* killed.                                                                 *)
IdleDies ==
  /\ deaths < MaxDeaths
  /\ idle > 0
  /\ idle' = idle - 1
  /\ zombies' = zombies + 1
  /\ deaths' = deaths + 1
  /\ UNCHANGED <<master, i, failed, queueVars>>

(* A worker dies in a request; its connection closes with it.              *)
BusyDies(c) ==
  /\ deaths < MaxDeaths
  /\ conn[c] = "serving"
  /\ conn' = [conn EXCEPT ![c] = "dropped"]
  /\ zombies' = zombies + 1
  /\ deaths' = deaths + 1
  /\ UNCHANGED <<master, i, idle, failed, queue>>

Master == Prefork \/ EndPrefork \/ Reap \/ Refork \/ Exit

Next ==
  \/ Master
  \/ Accept
  \/ IdleDies
  \/ \E c \in Conn : Connect(c) \/ Return(c) \/ BusyDies(c)

(* Processes run when they can, an idle worker accepts, and upstream lets  *)
(* go of the connections it does not hold.                                 *)
Fairness ==
  /\ WF_vars(Master)
  /\ WF_vars(Accept)
  /\ \A c \in Conn : WF_vars(Return(c))

Spec == Init /\ [][Next]_vars /\ Fairness

-----------------------------------------------------------------------------
(* Properties.                                                             *)

(* Every variable keeps its type.                                          *)
TypeOK ==
  /\ master \in {"prefork", "wait", "refork", "exited"}
  /\ i \in 0..NumWorkers
  /\ idle \in Nat
  /\ zombies \in Nat
  /\ failed \in Nat
  /\ deaths \in 0..MaxDeaths
  /\ conn \in [Conn -> {"new", "queued", "serving", "closed", "dropped"}]
  /\ queue \in Seq(Conn)

(* The master never loses count although it keeps none: every iteration of *)
(* the prefork loop has a worker, living or dead, a replacement about to   *)
(* be forked, or a fork that failed, whatever dies while the master is     *)
(* between waitpid and fork.                                               *)
Replacing == IF master = "refork" THEN 1 ELSE 0

PoolAccounted == Live + zombies + Replacing + failed = i

(* The master ends only when nothing is left to serve with: every worker   *)
(* has been lost to a failed fork, and no connection is left hanging.      *)
ExitIsFinal ==
  master = "exited" => failed = NumWorkers /\ \A c \in Conn : conn[c] \notin {"queued", "serving"}

(* Dead workers are replaced: once the deaths stop, only the workers whose *)
(* fork failed are missing from the pool.                                  *)
PoolRestored == <>[](Live + failed = NumWorkers)

(* Every connection that reached the queue is taken up by a worker, or the *)
(* forks that failed have left no more workers than are held.              *)
QueueServed ==
  \A c \in Conn :
    (conn[c] = "queued") ~> (conn[c] # "queued" \/ NumWorkers - failed <= Cardinality(Held))
=============================================================================
