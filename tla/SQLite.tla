------------------------------- MODULE SQLite -------------------------------
(***************************************************************************)
(* The sqlite extension: scripts of several processes work on one database *)
(* file.  The library is external and modelled as it is used here: locks   *)
(* on the file as for a rollback journal, and no busy handler, so that a   *)
(* lock that is not free is an answer, SQLITE_BUSY, and never a wait.      *)
(*                                                                         *)
(* The database is a counter.  A script adds one to it, in a statement of  *)
(* its own or in a transaction, there also by writing one more than it has *)
(* read.  A call is split where the library takes a lock.                  *)
(*                                                                         *)
(* An operator named X_how is X with a plausible mistake, kept beside it   *)
(* for the properties to be tested against; no specification uses it.      *)
(***************************************************************************)
EXTENDS Integers, FiniteSets

CONSTANTS
  Proc,      \* the processes that run scripts
  MaxValue   \* bound: the largest value of the counter

ASSUME ConstantsAssumption ==
  /\ IsFiniteSet(Proc)
  /\ MaxValue \in Nat

VARIABLES
  pc,        \* pc[p]: "idle", "script", or the step of the call that is next
  handle,    \* handle[p]: the script has an open database
  loaded,    \* loaded[p]: the library has read the schema
  call,      \* call[p]: the method that is called, or "none"
  active,    \* active[p]: the statements that are prepared and not finalized
  result,    \* result[p]: what sqlite3_step has returned: "row", "done", "busy" or "none"
  tx,        \* tx[p]: a transaction is open
  lock,      \* lock[p]: the lock of p on the file
  view,      \* view[p]: the counter as p sees it while it has a lock
  seen,      \* seen[p]: one more than what the script has read in the transaction, or 0
  value,     \* the counter in the file
  made,      \* history: made[p]: the additions the script believes in the transaction
  promised,  \* history: the additions scripts were told are made for good
  owed,      \* history: the additions in the file that no script was told of yet
  survived   \* history: the additions of processes that died before they could tell

scriptVars == <<pc, handle, call>>
stmtVars == <<loaded, active, result>>
fileVars == <<tx, lock, view, seen>>
history == <<made, promised, owed, survived>>
vars == <<scriptVars, stmtVars, fileVars, value, history>>

Methods == {"query", "queryOne", "tableExists", "exec", "commit"}

Init ==
  /\ pc = [p \in Proc |-> "idle"]
  /\ handle = [p \in Proc |-> FALSE]
  /\ loaded = [p \in Proc |-> FALSE]
  /\ call = [p \in Proc |-> "none"]
  /\ active = [p \in Proc |-> 0]
  /\ result = [p \in Proc |-> "none"]
  /\ tx = [p \in Proc |-> FALSE]
  /\ lock = [p \in Proc |-> "none"]
  /\ view = [p \in Proc |-> 0]
  /\ seen = [p \in Proc |-> 0]
  /\ value = 0
  /\ made = [p \in Proc |-> 0]
  /\ promised = 0
  /\ owed = 0
  /\ survived = 0

-----------------------------------------------------------------------------
(* The locks of the library.                                               *)
Others(p) == {lock[q] : q \in Proc \ {p}}

CanShare(p) == lock[p] # "none" \/ Others(p) \cap {"pending", "exclusive"} = {}

CanReserve(p) ==
  lock[p] \in {"reserved", "pending"} \/ Others(p) \cap {"reserved", "pending", "exclusive"} = {}

CanExclude(p) == Others(p) \subseteq {"none"}

(* The end of a transaction gives its lock back.                           *)
Unlock(p) ==
  /\ lock' = [lock EXCEPT ![p] = "none"]
  /\ tx' = [tx EXCEPT ![p] = FALSE]
  /\ view' = [view EXCEPT ![p] = 0]
  /\ seen' = [seen EXCEPT ![p] = 0]

-----------------------------------------------------------------------------
(* The life of the extension: init, open, close and shutdown.              *)
Begin(p) ==
  /\ pc[p] = "idle"
  /\ pc' = [pc EXCEPT ![p] = "script"]
  /\ handle' = [handle EXCEPT ![p] = FALSE]
  /\ UNCHANGED <<call, stmtVars, fileVars, value, history>>

Open(p) ==
  /\ pc[p] = "script" /\ ~handle[p]
  /\ handle' = [handle EXCEPT ![p] = TRUE]
  /\ loaded' = [loaded EXCEPT ![p] = FALSE]
  /\ UNCHANGED <<pc, call, active, result, fileVars, value, history>>

(* sqlite3_close undoes a transaction that is open; it does nothing while  *)
(* a statement is not finalized, which nobody finds out.                   *)
Closes(p) ==
  /\ handle' = [handle EXCEPT ![p] = FALSE]
  /\ IF active[p] > 0 THEN UNCHANGED fileVars ELSE Unlock(p)
  /\ made' = [made EXCEPT ![p] = 0]

Close(p) ==
  /\ pc[p] = "script" /\ handle[p]
  /\ Closes(p)
  /\ UNCHANGED <<pc, call, stmtVars, value, promised, owed, survived>>

End(p) ==
  /\ pc[p] = "script"
  /\ Closes(p)
  /\ pc' = [pc EXCEPT ![p] = "idle"]
  /\ UNCHANGED <<call, stmtVars, value, promised, owed, survived>>

(* History: what p adds to the file with the call it is in.                *)
Due(p) == IF call[p] = "commit" THEN made[p] ELSE 1

(* The process dies and another takes its place.  The kernel gives up the  *)
(* locks, and the journal undoes what was not written to the end.          *)
Crash(p) ==
  /\ pc[p] # "idle"
  /\ pc' = [pc EXCEPT ![p] = "idle"]
  /\ handle' = [handle EXCEPT ![p] = FALSE]
  /\ active' = [active EXCEPT ![p] = 0]
  /\ call' = [call EXCEPT ![p] = "none"]
  /\ result' = [result EXCEPT ![p] = "none"]
  /\ Unlock(p)
  /\ made' = [made EXCEPT ![p] = 0]
  /\ IF pc[p] = "written"
     THEN /\ owed' = owed - Due(p)
          /\ survived' = survived + Due(p)
     ELSE UNCHANGED <<owed, survived>>
  /\ UNCHANGED <<loaded, value, promised>>

-----------------------------------------------------------------------------
(* A method that runs a statement: query, queryOne, tableExists or exec.   *)

(* The script waits for nothing else in the call.                          *)
Goes(p, next) == pc' = [pc EXCEPT ![p] = next]

(* sqlite3_prepare_v2.  The first one reads the schema, under a lock; when *)
(* that is not free the method throws, and nothing has changed.            *)
Prepare(p, method) ==
  /\ pc[p] = "script" /\ handle[p]
  /\ loaded[p] \/ CanShare(p)
  /\ loaded' = [loaded EXCEPT ![p] = TRUE]
  /\ call' = [call EXCEPT ![p] = method]
  /\ active' = [active EXCEPT ![p] = @ + 1]
  /\ Goes(p, "share")
  /\ UNCHANGED <<handle, result, fileVars, value, history>>

(* sqlite3_step takes the shared lock and has a row, or goes on to write.  *)
Share(p) ==
  /\ pc[p] = "share"
  /\ CanShare(p)
  /\ IF lock[p] = "none"
     THEN /\ lock' = [lock EXCEPT ![p] = "shared"]
          /\ view' = [view EXCEPT ![p] = value]
     ELSE UNCHANGED <<lock, view>>
  /\ IF call[p] = "exec"
     THEN /\ Goes(p, "reserve")
          /\ UNCHANGED <<result, seen>>
     ELSE /\ Goes(p, "finalize")
          /\ result' = [result EXCEPT ![p] = "row"]
          /\ seen' = [seen EXCEPT ![p] = IF tx[p] /\ call[p] # "tableExists"
                                         THEN view'[p] + 1 ELSE @]
  /\ UNCHANGED <<handle, call, loaded, active, tx, value, history>>

(* exec writes to its own pages: one more than the counter, or one more    *)
(* than what the script has read.                                          *)
Reserve(p) ==
  /\ pc[p] = "reserve"
  /\ CanReserve(p)
  /\ view[p] < MaxValue
  /\ lock' = [lock EXCEPT ![p] = IF @ = "pending" THEN @ ELSE "reserved"]
  /\ \E v \in {view[p] + 1, seen[p]} \ {0} : view' = [view EXCEPT ![p] = v]
  /\ seen' = [seen EXCEPT ![p] = 0]
  /\ result' = [result EXCEPT ![p] = "done"]
  /\ Goes(p, IF tx[p] THEN "finalize" ELSE "exclude")
  /\ UNCHANGED <<handle, call, loaded, active, tx, value, history>>

(* A commit writes when nobody else reads; otherwise it keeps new readers  *)
(* away, and its transaction open.                                         *)
Exclude(p) ==
  /\ pc[p] = "exclude"
  /\ CanExclude(p)
  /\ lock' = [lock EXCEPT ![p] = "exclusive"]
  /\ Goes(p, "write")
  /\ UNCHANGED <<handle, call, stmtVars, tx, view, seen, value, history>>

(* The file is written and the journal deleted; the lock goes with it.     *)
Write(p) ==
  /\ pc[p] = "write"
  /\ value' = view[p]
  /\ Unlock(p)
  /\ result' = [result EXCEPT ![p] = "done"]
  /\ Goes(p, "written")
  /\ owed' = owed + Due(p)
  /\ UNCHANGED <<handle, call, loaded, active, made, promised, survived>>

(* SQLITE_BUSY at any of the locks.                                        *)
Busy(p) ==
  /\ \/ pc[p] = "share" /\ ~CanShare(p) /\ UNCHANGED lock
     \/ pc[p] = "reserve" /\ ~CanReserve(p) /\ UNCHANGED lock
     \/ pc[p] = "exclude" /\ ~CanExclude(p) /\ lock' = [lock EXCEPT ![p] = "pending"]
  /\ result' = [result EXCEPT ![p] = "busy"]
  /\ Goes(p, "finalize")
  /\ UNCHANGED <<handle, call, loaded, active, tx, view, seen, value, history>>

(* What the method makes of the result code.                               *)
Outcome_hopeful(p) ==
  IF result[p] # "busy" THEN "ok"
  ELSE CASE call[p] \in {"query", "exec"} -> "error"
         [] call[p] = "commit" -> "ok"
         [] call[p] = "queryOne" -> "null"
         [] call[p] = "tableExists" -> "false"

Outcome(p) ==
  IF result[p] # "busy" THEN "ok"
  ELSE CASE call[p] \in {"query", "exec", "commit"} -> "error"
         [] call[p] = "queryOne" -> "null"
         [] call[p] = "tableExists" -> "false"

(* What the script was told it has added, in its transaction or for good.  *)
Credit(p) ==
  /\ made' = [made EXCEPT ![p] = IF Outcome(p) # "ok" THEN @
                                 ELSE IF call[p] = "exec" /\ tx[p] THEN @ + 1
                                 ELSE IF call[p] = "commit" THEN 0
                                 ELSE @]
  /\ promised' = IF Outcome(p) = "ok" /\ (call[p] = "commit" \/ (call[p] = "exec" /\ ~tx[p]))
                 THEN promised + Due(p) ELSE promised
  /\ owed' = IF pc[p] = "written" THEN owed - Due(p) ELSE owed

(* sqlite3_finalize, also after an error, ends a statement that is not     *)
(* part of a transaction.                                                  *)
Finalize_late(p) ==
  /\ pc[p] \in {"finalize", "written"}
  /\ IF tx[p] THEN UNCHANGED fileVars ELSE Unlock(p)
  /\ active' = [active EXCEPT ![p] = IF call[p] = "commit" \/ Outcome(p) = "error"
                                     THEN @ ELSE @ - 1]
  /\ call' = [call EXCEPT ![p] = "none"]
  /\ result' = [result EXCEPT ![p] = "none"]
  /\ Credit(p)
  /\ Goes(p, "script")
  /\ UNCHANGED <<handle, loaded, value, survived>>

Finalize(p) ==
  /\ pc[p] \in {"finalize", "written"}
  /\ IF tx[p] THEN UNCHANGED fileVars ELSE Unlock(p)
  /\ active' = [active EXCEPT ![p] = IF call[p] = "commit" THEN @ ELSE @ - 1]
  /\ call' = [call EXCEPT ![p] = "none"]
  /\ result' = [result EXCEPT ![p] = "none"]
  /\ Credit(p)
  /\ Goes(p, "script")
  /\ UNCHANGED <<handle, loaded, value, survived>>

-----------------------------------------------------------------------------
(* Transactions.  BEGIN takes no lock.                                     *)
BeginTransaction(p) ==
  /\ pc[p] = "script" /\ handle[p] /\ ~tx[p]
  /\ tx' = [tx EXCEPT ![p] = TRUE]
  /\ UNCHANGED <<scriptVars, stmtVars, lock, view, seen, value, history>>

(* COMMIT of what was written; with nothing written it only unlocks.       *)
Commit(p) ==
  /\ pc[p] = "script" /\ handle[p] /\ tx[p]
  /\ IF lock[p] \in {"reserved", "pending"}
     THEN /\ Goes(p, "exclude")
          /\ call' = [call EXCEPT ![p] = "commit"]
          /\ UNCHANGED fileVars
     ELSE /\ Unlock(p)
          /\ UNCHANGED <<pc, call>>
  /\ UNCHANGED <<handle, stmtVars, value, history>>

Rollback(p) ==
  /\ pc[p] = "script" /\ handle[p] /\ tx[p]
  /\ Unlock(p)
  /\ made' = [made EXCEPT ![p] = 0]
  /\ UNCHANGED <<scriptVars, stmtVars, value, promised, owed, survived>>

-----------------------------------------------------------------------------
Step(p) ==
  \/ Begin(p) \/ Open(p) \/ Close(p) \/ End(p) \/ Crash(p)
  \/ \E m \in Methods \ {"commit"} : Prepare(p, m)
  \/ Share(p) \/ Reserve(p) \/ Exclude(p) \/ Write(p) \/ Busy(p) \/ Finalize(p)
  \/ BeginTransaction(p) \/ Commit(p) \/ Rollback(p)

Next == \E p \in Proc : Step(p)

Spec == Init /\ [][Next]_vars

-----------------------------------------------------------------------------
TypeOK ==
  /\ pc \in [Proc -> {"idle", "script", "share", "reserve", "exclude", "write", "written",
                      "finalize"}]
  /\ handle \in [Proc -> BOOLEAN]
  /\ loaded \in [Proc -> BOOLEAN]
  /\ call \in [Proc -> Methods \cup {"none"}]
  /\ active \in [Proc -> Nat]
  /\ result \in [Proc -> {"none", "row", "done", "busy"}]
  /\ tx \in [Proc -> BOOLEAN]
  /\ lock \in [Proc -> {"none", "shared", "reserved", "pending", "exclusive"}]
  /\ view \in [Proc -> Nat]
  /\ seen \in [Proc -> Nat]
  /\ value \in Nat
  /\ made \in [Proc -> Nat]
  /\ promised \in Nat
  /\ owed \in Int
  /\ survived \in Nat

(* No addition is lost and none is made twice: whatever scripts were told  *)
(* is done for good (or are about to be told, or died before) is in the    *)
(* file, and what they were told has failed, or have given up, is not,     *)
(* with any overlap of readers, writers, commits that are turned away and  *)
(* tried again, and deaths (the result codes of js_db_exec, js_db_commit,  *)
(* js_db_rollback and js_db_query).                                        *)
NoLostUpdate == value = promised + owed + survived

(* A process that runs no script holds no lock on the file: a request that *)
(* was turned away, has thrown or has left a transaction open cannot keep  *)
(* the others from the database (finalize before every return, and close   *)
(* in sqlite_shutdown).                                                    *)
IdleHoldsNoLock == \A p \in Proc : pc[p] = "idle" => lock[p] = "none"
=============================================================================
