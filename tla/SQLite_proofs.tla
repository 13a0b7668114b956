---------------------------- MODULE SQLite_proofs ---------------------------
(***************************************************************************)
(* The safety properties of SQLite, for any number of processes.           *)
(*                                                                         *)
(* IdleHoldsNoLock follows from where in a call which lock is held.        *)
(* NoLostUpdate needs more: who writes is alone with it (Compatible), so   *)
(* that what a process sees under its lock is what is in the file and what *)
(* it has itself added (ViewInv).                                          *)
(***************************************************************************)
EXTENDS SQLite, TLAPS

(* The steps of a call, and the locks only one process can have.           *)
Steps == {"share", "reserve", "exclude", "write", "written", "finalize"}
Writer == {"reserved", "pending", "exclusive"}

(* A statement is prepared exactly while its method runs.                  *)
StmtInv == \A p \in Proc :
  /\ active[p] = IF pc[p] \in Steps /\ call[p] # "commit" THEN 1 ELSE 0
  /\ pc[p] \in Steps => call[p] # "none"

(* The lock that each step of a call goes with.                            *)
LockInv == \A p \in Proc :
  /\ pc[p] = "idle" => ~tx[p]
  /\ pc[p] \in {"idle", "script"} /\ ~tx[p] => lock[p] = "none"
  /\ pc[p] = "reserve" => lock[p] # "none"
  /\ pc[p] = "exclude" => lock[p] \in {"reserved", "pending"}
  /\ pc[p] = "write" => lock[p] = "exclusive"
  /\ pc[p] # "write" => lock[p] # "exclusive"
  /\ pc[p] = "written" => lock[p] = "none" /\ ~tx[p]

(* The locks of two processes.                                             *)
Compatible == \A p, q \in Proc : p # q =>
  /\ lock[p] \in Writer => lock[q] \notin Writer
  /\ lock[p] = "exclusive" => lock[q] = "none"

(* The addition of the call that runs, in the pages but not yet believed.  *)
Running(p) ==
  IF \/ pc[p] \in {"exclude", "write"} /\ call[p] = "exec"
     \/ pc[p] = "finalize" /\ call[p] = "exec" /\ (result[p] = "done" \/ ~tx[p])
  THEN 1 ELSE 0

(* What a process sees, read and made.                                      *)
ViewInv == \A p \in Proc :
  /\ lock[p] = "shared" => view[p] = value
  /\ lock[p] \in Writer => view[p] = value + made[p] + Running(p)
  /\ seen[p] # 0 => lock[p] # "none" /\ seen[p] = view[p] + 1
  /\ made[p] # 0 => \/ tx[p] /\ lock[p] \in Writer
                    \/ pc[p] = "written" /\ call[p] = "commit"

(* The method each step belongs to, and the results it can have.           *)
CallInv == \A p \in Proc :
  /\ pc[p] \in {"share", "reserve"} => call[p] # "commit"
  /\ pc[p] = "reserve" => call[p] = "exec"
  /\ pc[p] \in {"exclude", "write"} => \/ call[p] = "exec" /\ ~tx[p]
                                       \/ call[p] = "commit" /\ tx[p]
  /\ pc[p] = "written" => call[p] \in {"exec", "commit"} /\ result[p] = "done"
  /\ pc[p] = "finalize" /\ call[p] = "exec" =>
       /\ result[p] \in {"done", "busy"}
       /\ result[p] = "done" => tx[p] /\ lock[p] \in Writer
  /\ pc[p] = "finalize" /\ call[p] = "commit" => result[p] = "busy" /\ tx[p]

(* Every step keeps the types.                                             *)
LEMMA TypeStep == TypeOK /\ StmtInv /\ [Next]_vars => TypeOK'
<1> SUFFICES ASSUME TypeOK, StmtInv, [Next]_vars PROVE TypeOK'
  OBVIOUS
<1> USE DEF TypeOK, Methods, scriptVars, stmtVars, fileVars, history, StmtInv, Steps
<1>1. ASSUME NEW p \in Proc, Begin(p) PROVE TypeOK'
  BY <1>1 DEF Begin
<1>2. ASSUME NEW p \in Proc, Open(p) PROVE TypeOK'
  BY <1>2 DEF Open
<1>3. ASSUME NEW p \in Proc, Close(p) PROVE TypeOK'
  <2>1. active[p] = 0
    BY <1>3 DEF Close
  <2>2. Unlock(p) /\ made' = [made EXCEPT ![p] = 0]
    BY <1>3, <2>1 DEF Close, Closes
  <2>3. /\ UNCHANGED <<call, stmtVars, value, promised, owed, survived>>
        /\ handle' = [handle EXCEPT ![p] = FALSE]
        /\ pc' = pc \/ pc' = [pc EXCEPT ![p] = "idle"]
        /\ pc[p] = "script"
    BY <1>3 DEF Close, Closes
  <2> QED BY <2>2, <2>3 DEF Unlock
<1>4. ASSUME NEW p \in Proc, End(p) PROVE TypeOK'
  <2>1. active[p] = 0
    BY <1>4 DEF End
  <2>2. Unlock(p) /\ made' = [made EXCEPT ![p] = 0]
    BY <1>4, <2>1 DEF End, Closes
  <2>3. /\ UNCHANGED <<call, stmtVars, value, promised, owed, survived>>
        /\ handle' = [handle EXCEPT ![p] = FALSE]
        /\ pc' = pc \/ pc' = [pc EXCEPT ![p] = "idle"]
        /\ pc[p] = "script"
    BY <1>4 DEF End, Closes
  <2> QED BY <2>2, <2>3 DEF Unlock
<1>5. ASSUME NEW p \in Proc, Crash(p) PROVE TypeOK'
  BY <1>5 DEF Crash, Unlock, Due
<1>6. ASSUME NEW p \in Proc, Share(p) PROVE TypeOK'
  BY <1>6 DEF Share, Goes
<1>7. ASSUME NEW p \in Proc, Reserve(p) PROVE TypeOK'
  BY <1>7 DEF Reserve, Goes
<1>8. ASSUME NEW p \in Proc, Exclude(p) PROVE TypeOK'
  BY <1>8 DEF Exclude, Goes
<1>9. ASSUME NEW p \in Proc, Write(p) PROVE TypeOK'
  BY <1>9 DEF Write, Unlock, Goes
<1>10. ASSUME NEW p \in Proc, Busy(p) PROVE TypeOK'
  BY <1>10 DEF Busy, Goes
<1>11. ASSUME NEW p \in Proc, Finalize(p) PROVE TypeOK'
  <2>1. made' \in [Proc -> Nat] /\ promised' \in Nat /\ owed' \in Int
    BY <1>11 DEF Finalize, Credit, Due
  <2>2. active' \in [Proc -> Nat]
    BY <1>11 DEF Finalize
  <2>3. /\ UNCHANGED <<handle, loaded, value, survived>>
        /\ pc' = [pc EXCEPT ![p] = "script"]
        /\ call' = [call EXCEPT ![p] = "none"]
        /\ result' = [result EXCEPT ![p] = "none"]
    BY <1>11 DEF Finalize, Goes
  <2>4. CASE tx[p]
    <3>1. UNCHANGED fileVars
      BY <1>11, <2>4 DEF Finalize
    <3> QED BY <2>1, <2>2, <2>3, <3>1
  <2>5. CASE ~tx[p]
    <3>1. Unlock(p)
      BY <1>11, <2>5 DEF Finalize
    <3> QED BY <2>1, <2>2, <2>3, <3>1 DEF Unlock
  <2> QED BY <2>4, <2>5
<1>12. ASSUME NEW p \in Proc, BeginTransaction(p) PROVE TypeOK'
  BY <1>12 DEF BeginTransaction
<1>13. ASSUME NEW p \in Proc, Commit(p) PROVE TypeOK'
  <2>1. CASE lock[p] \in {"reserved", "pending"}
    BY <1>13, <2>1 DEF Commit, Goes
  <2>2. CASE lock[p] \notin {"reserved", "pending"}
    <3>1. Unlock(p) /\ UNCHANGED <<pc, call, handle, stmtVars, value, history>>
      BY <1>13, <2>2 DEF Commit
    <3> QED BY <3>1 DEF Unlock
  <2> QED BY <2>1, <2>2
<1>14. ASSUME NEW p \in Proc, Rollback(p) PROVE TypeOK'
  BY <1>14 DEF Rollback, Unlock
<1>15. ASSUME NEW p \in Proc, NEW m \in Methods \ {"commit"}, Prepare(p, m) PROVE TypeOK'
  BY <1>15 DEF Prepare, Goes
<1>16. CASE UNCHANGED vars
  BY <1>16 DEF vars
<1> QED BY <1>1, <1>2, <1>3, <1>4, <1>5, <1>6, <1>7, <1>8, <1>9, <1>10,
          <1>11, <1>12, <1>13, <1>14, <1>15, <1>16 DEF Next, Step

(* Every step keeps count of its statement: none is left open.             *)
LEMMA StmtStep == TypeOK /\ StmtInv /\ [Next]_vars => StmtInv'
<1> SUFFICES ASSUME TypeOK, StmtInv, [Next]_vars PROVE StmtInv'
  OBVIOUS
<1> USE DEF TypeOK, Methods, scriptVars, stmtVars, fileVars, history, StmtInv, Steps
<1>1. ASSUME NEW p \in Proc, Begin(p) PROVE StmtInv'
  BY <1>1 DEF Begin
<1>2. ASSUME NEW p \in Proc, Open(p) PROVE StmtInv'
  BY <1>2 DEF Open
<1>3. ASSUME NEW p \in Proc, Close(p) PROVE StmtInv'
  BY <1>3 DEF Close
<1>4. ASSUME NEW p \in Proc, End(p) PROVE StmtInv'
  BY <1>4 DEF End
<1>5. ASSUME NEW p \in Proc, Crash(p) PROVE StmtInv'
  BY <1>5 DEF Crash
<1>6. ASSUME NEW p \in Proc, Share(p) PROVE StmtInv'
  BY <1>6 DEF Share, Goes
<1>7. ASSUME NEW p \in Proc, Reserve(p) PROVE StmtInv'
  BY <1>7 DEF Reserve, Goes
<1>8. ASSUME NEW p \in Proc, Exclude(p) PROVE StmtInv'
  BY <1>8 DEF Exclude, Goes
<1>9. ASSUME NEW p \in Proc, Write(p) PROVE StmtInv'
  BY <1>9 DEF Write, Goes
<1>10. ASSUME NEW p \in Proc, Busy(p) PROVE StmtInv'
  BY <1>10 DEF Busy, Goes
<1>11. ASSUME NEW p \in Proc, Finalize(p) PROVE StmtInv'
  BY <1>11 DEF Finalize, Goes
<1>12. ASSUME NEW p \in Proc, BeginTransaction(p) PROVE StmtInv'
  BY <1>12 DEF BeginTransaction
<1>13. ASSUME NEW p \in Proc, Commit(p) PROVE StmtInv'
  BY <1>13 DEF Commit, Goes
<1>14. ASSUME NEW p \in Proc, Rollback(p) PROVE StmtInv'
  BY <1>14 DEF Rollback
<1>15. ASSUME NEW p \in Proc, NEW m \in Methods \ {"commit"}, Prepare(p, m) PROVE StmtInv'
  BY <1>15 DEF Prepare, Goes
<1>16. CASE UNCHANGED vars
  BY <1>16 DEF vars
<1> QED BY <1>1, <1>2, <1>3, <1>4, <1>5, <1>6, <1>7, <1>8, <1>9, <1>10,
          <1>11, <1>12, <1>13, <1>14, <1>15, <1>16 DEF Next, Step

(* Every step keeps the method and the step of a call together.            *)
LEMMA CallStep == TypeOK /\ LockInv /\ StmtInv /\ CallInv /\ [Next]_vars => CallInv'
<1> SUFFICES ASSUME TypeOK, LockInv, StmtInv, CallInv, [Next]_vars PROVE CallInv'
  OBVIOUS
<1> USE DEF TypeOK, Methods, scriptVars, stmtVars, fileVars, history, StmtInv, Steps,
         LockInv, CallInv, Writer
<1>1. ASSUME NEW p \in Proc, Begin(p) PROVE CallInv'
  BY <1>1 DEF Begin
<1>2. ASSUME NEW p \in Proc, Open(p) PROVE CallInv'
  BY <1>2 DEF Open
<1>3. ASSUME NEW p \in Proc, Close(p) PROVE CallInv'
  BY <1>3 DEF Close, Closes, Unlock
<1>4. ASSUME NEW p \in Proc, End(p) PROVE CallInv'
  BY <1>4 DEF End, Closes, Unlock
<1>5. ASSUME NEW p \in Proc, Crash(p) PROVE CallInv'
  BY <1>5 DEF Crash, Unlock
<1>6. ASSUME NEW p \in Proc, Share(p) PROVE CallInv'
  BY <1>6 DEF Share, Goes
<1>7. ASSUME NEW p \in Proc, Reserve(p) PROVE CallInv'
  BY <1>7 DEF Reserve, Goes
<1>8. ASSUME NEW p \in Proc, Exclude(p) PROVE CallInv'
  BY <1>8 DEF Exclude, Goes
<1>9. ASSUME NEW p \in Proc, Write(p) PROVE CallInv'
  BY <1>9 DEF Write, Unlock, Goes
<1>10. ASSUME NEW p \in Proc, Busy(p) PROVE CallInv'
  BY <1>10 DEF Busy, Goes
<1>11. ASSUME NEW p \in Proc, Finalize(p) PROVE CallInv'
  BY <1>11 DEF Finalize, Unlock, Goes
<1>12. ASSUME NEW p \in Proc, BeginTransaction(p) PROVE CallInv'
  BY <1>12 DEF BeginTransaction
<1>13. ASSUME NEW p \in Proc, Commit(p) PROVE CallInv'
  BY <1>13 DEF Commit, Unlock, Goes
<1>14. ASSUME NEW p \in Proc, Rollback(p) PROVE CallInv'
  BY <1>14 DEF Rollback, Unlock
<1>15. ASSUME NEW p \in Proc, NEW m \in Methods \ {"commit"}, Prepare(p, m) PROVE CallInv'
  BY <1>15 DEF Prepare, Goes
<1>16. CASE UNCHANGED vars
  BY <1>16 DEF vars
<1> QED BY <1>1, <1>2, <1>3, <1>4, <1>5, <1>6, <1>7, <1>8, <1>9, <1>10,
          <1>11, <1>12, <1>13, <1>14, <1>15, <1>16 DEF Next, Step

(* Every step keeps the lock and the step of a call together.              *)
LEMMA LockStep == TypeOK /\ StmtInv /\ CallInv /\ LockInv /\ [Next]_vars => LockInv'
<1> SUFFICES ASSUME TypeOK, StmtInv, CallInv, LockInv, [Next]_vars PROVE LockInv'
  OBVIOUS
<1> USE DEF TypeOK, Methods, scriptVars, stmtVars, fileVars, history, StmtInv, Steps,
         LockInv, CallInv, Writer
<1>1. ASSUME NEW p \in Proc, Begin(p) PROVE LockInv'
  BY <1>1 DEF Begin
<1>2. ASSUME NEW p \in Proc, Open(p) PROVE LockInv'
  BY <1>2 DEF Open
<1>3. ASSUME NEW p \in Proc, Close(p) PROVE LockInv'
  BY <1>3 DEF Close, Closes, Unlock
<1>4. ASSUME NEW p \in Proc, End(p) PROVE LockInv'
  BY <1>4 DEF End, Closes, Unlock
<1>5. ASSUME NEW p \in Proc, Crash(p) PROVE LockInv'
  BY <1>5 DEF Crash, Unlock
<1>6. ASSUME NEW p \in Proc, Share(p) PROVE LockInv'
  BY <1>6 DEF Share, Goes
<1>7. ASSUME NEW p \in Proc, Reserve(p) PROVE LockInv'
  BY <1>7 DEF Reserve, Goes
<1>8. ASSUME NEW p \in Proc, Exclude(p) PROVE LockInv'
  BY <1>8 DEF Exclude, Goes
<1>9. ASSUME NEW p \in Proc, Write(p) PROVE LockInv'
  BY <1>9 DEF Write, Unlock, Goes
<1>10. ASSUME NEW p \in Proc, Busy(p) PROVE LockInv'
  BY <1>10 DEF Busy, Goes
<1>11. ASSUME NEW p \in Proc, Finalize(p) PROVE LockInv'
  BY <1>11 DEF Finalize, Unlock, Goes
<1>12. ASSUME NEW p \in Proc, BeginTransaction(p) PROVE LockInv'
  BY <1>12 DEF BeginTransaction
<1>13. ASSUME NEW p \in Proc, Commit(p) PROVE LockInv'
  BY <1>13 DEF Commit, Unlock, Goes
<1>14. ASSUME NEW p \in Proc, Rollback(p) PROVE LockInv'
  BY <1>14 DEF Rollback, Unlock
<1>15. ASSUME NEW p \in Proc, NEW m \in Methods \ {"commit"}, Prepare(p, m) PROVE LockInv'
  BY <1>15 DEF Prepare, Goes
<1>16. CASE UNCHANGED vars
  BY <1>16 DEF vars
<1> QED BY <1>1, <1>2, <1>3, <1>4, <1>5, <1>6, <1>7, <1>8, <1>9, <1>10,
          <1>11, <1>12, <1>13, <1>14, <1>15, <1>16 DEF Next, Step

(* The library never gives out two locks that exclude one another.         *)
LEMMA CompatibleStep ==
  TypeOK /\ CallInv /\ LockInv /\ Compatible /\ [Next]_vars => Compatible'
<1> SUFFICES ASSUME TypeOK, CallInv, LockInv, Compatible, [Next]_vars PROVE Compatible'
  OBVIOUS
<1> USE DEF TypeOK, Methods, scriptVars, stmtVars, fileVars, history, LockInv, CallInv,
         Writer, Compatible
<1>1. ASSUME NEW p \in Proc, Begin(p) PROVE Compatible'
  BY <1>1 DEF Begin
<1>2. ASSUME NEW p \in Proc, Open(p) PROVE Compatible'
  BY <1>2 DEF Open
<1>3. ASSUME NEW p \in Proc, Close(p) PROVE Compatible'
  BY <1>3 DEF Close, Closes, Unlock
<1>4. ASSUME NEW p \in Proc, End(p) PROVE Compatible'
  BY <1>4 DEF End, Closes, Unlock
<1>5. ASSUME NEW p \in Proc, Crash(p) PROVE Compatible'
  BY <1>5 DEF Crash, Unlock
<1>6. ASSUME NEW p \in Proc, Share(p) PROVE Compatible'
  BY <1>6 DEF Share, CanShare, Others
<1>7. ASSUME NEW p \in Proc, Reserve(p) PROVE Compatible'
  <2>1. /\ lock' = [lock EXCEPT ![p] = IF @ = "pending" THEN @ ELSE "reserved"]
        /\ lock[p] # "exclusive"
    BY <1>7 DEF Reserve
  <2>2. lock[p] \in {"reserved", "pending"} \/ \A q \in Proc \ {p} : lock[q] \notin Writer
    BY <1>7 DEF Reserve, CanReserve, Others
  <2> QED BY <2>1, <2>2
<1>8. ASSUME NEW p \in Proc, Exclude(p) PROVE Compatible'
  BY <1>8 DEF Exclude, CanExclude, Others
<1>9. ASSUME NEW p \in Proc, Write(p) PROVE Compatible'
  BY <1>9 DEF Write, Unlock
<1>10. ASSUME NEW p \in Proc, Busy(p) PROVE Compatible'
  BY <1>10 DEF Busy
<1>11. ASSUME NEW p \in Proc, Finalize(p) PROVE Compatible'
  BY <1>11 DEF Finalize, Unlock
<1>12. ASSUME NEW p \in Proc, BeginTransaction(p) PROVE Compatible'
  BY <1>12 DEF BeginTransaction
<1>13. ASSUME NEW p \in Proc, Commit(p) PROVE Compatible'
  BY <1>13 DEF Commit, Unlock
<1>14. ASSUME NEW p \in Proc, Rollback(p) PROVE Compatible'
  BY <1>14 DEF Rollback, Unlock
<1>15. ASSUME NEW p \in Proc, NEW m \in Methods \ {"commit"}, Prepare(p, m) PROVE Compatible'
  BY <1>15 DEF Prepare
<1>16. CASE UNCHANGED vars
  BY <1>16 DEF vars
<1> QED BY <1>1, <1>2, <1>3, <1>4, <1>5, <1>6, <1>7, <1>8, <1>9, <1>10,
          <1>11, <1>12, <1>13, <1>14, <1>15, <1>16 DEF Next, Step

(* Every step keeps what processes see in line with the file.              *)
LEMMA ViewStep ==
  TypeOK /\ StmtInv /\ CallInv /\ LockInv /\ Compatible /\ ViewInv /\ [Next]_vars => ViewInv'
<1> SUFFICES ASSUME TypeOK, StmtInv, CallInv, LockInv, Compatible, ViewInv, [Next]_vars
    PROVE ViewInv'
  OBVIOUS
<1> USE DEF TypeOK, Methods, scriptVars, stmtVars, fileVars, history, LockInv, CallInv,
         Writer, Compatible, ViewInv, Running, StmtInv, Steps
<1>1. ASSUME NEW p \in Proc, Begin(p) PROVE ViewInv'
  BY <1>1 DEF Begin
<1>2. ASSUME NEW p \in Proc, Open(p) PROVE ViewInv'
  BY <1>2 DEF Open
<1>3. ASSUME NEW p \in Proc, Close(p) PROVE ViewInv'
  <2>1. active[p] = 0
    BY <1>3 DEF Close
  <2>2. Unlock(p) /\ made' = [made EXCEPT ![p] = 0]
    BY <1>3, <2>1 DEF Close, Closes
  <2>3. /\ UNCHANGED <<call, stmtVars, value, promised, owed, survived>>
        /\ handle' = [handle EXCEPT ![p] = FALSE]
        /\ pc' = pc \/ pc' = [pc EXCEPT ![p] = "idle"]
        /\ pc[p] = "script"
    BY <1>3 DEF Close, Closes
  <2> QED BY <2>2, <2>3 DEF Unlock
<1>4. ASSUME NEW p \in Proc, End(p) PROVE ViewInv'
  <2>1. active[p] = 0
    BY <1>4 DEF End
  <2>2. Unlock(p) /\ made' = [made EXCEPT ![p] = 0]
    BY <1>4, <2>1 DEF End, Closes
  <2>3. /\ UNCHANGED <<call, stmtVars, value, promised, owed, survived>>
        /\ handle' = [handle EXCEPT ![p] = FALSE]
        /\ pc' = pc \/ pc' = [pc EXCEPT ![p] = "idle"]
        /\ pc[p] = "script"
    BY <1>4 DEF End, Closes
  <2> QED BY <2>2, <2>3 DEF Unlock
<1>5. ASSUME NEW p \in Proc, Crash(p) PROVE ViewInv'
  BY <1>5 DEF Crash, Unlock
<1>6. ASSUME NEW p \in Proc, Share(p) PROVE ViewInv'
  BY <1>6 DEF Share, Goes
<1>7. ASSUME NEW p \in Proc, Reserve(p) PROVE ViewInv'
  BY <1>7 DEF Reserve, Goes
<1>8. ASSUME NEW p \in Proc, Exclude(p) PROVE ViewInv'
  BY <1>8 DEF Exclude, Goes
<1>9. ASSUME NEW p \in Proc, Write(p) PROVE ViewInv'
  BY <1>9 DEF Write, Unlock, Goes
<1>10. ASSUME NEW p \in Proc, Busy(p) PROVE ViewInv'
  <2>1. /\ UNCHANGED <<view, value, made, seen, tx, call>>
        /\ pc' = [pc EXCEPT ![p] = "finalize"] /\ result' = [result EXCEPT ![p] = "busy"]
    BY <1>10 DEF Busy, Goes
  <2>2. \/ pc[p] \in {"share", "reserve"} /\ UNCHANGED lock
        \/ pc[p] = "exclude" /\ lock' = [lock EXCEPT ![p] = "pending"]
    BY <1>10 DEF Busy
  <2>3. CASE pc[p] = "share" /\ UNCHANGED lock
    BY <1>10, <2>1, <2>3 DEF Busy, CanShare
  <2>4. CASE pc[p] = "reserve" /\ UNCHANGED lock
    BY <1>10, <2>1, <2>4 DEF Busy, CanReserve
  <2>5. CASE pc[p] = "exclude" /\ lock' = [lock EXCEPT ![p] = "pending"]
    BY <2>1, <2>5
  <2> QED BY <2>2, <2>3, <2>4, <2>5
<1>11. ASSUME NEW p \in Proc, Finalize(p) PROVE ViewInv'
  <2>1. CASE ~tx[p]
    <3>1. Unlock(p) /\ UNCHANGED value
      BY <1>11, <2>1 DEF Finalize
    <3>2. made' = [made EXCEPT ![p] = 0]
      <4>1. CASE pc[p] = "written"
        BY <1>11, <2>1, <4>1 DEF Finalize, Credit, Outcome
      <4>2. CASE pc[p] = "finalize"
        <5>1. made[p] = 0 /\ call[p] # "commit"
          BY <2>1, <4>2
        <5>2. made' = made
          BY <1>11, <2>1, <4>2, <5>1 DEF Finalize, Credit
        <5> QED BY <5>1, <5>2
      <4> QED BY <1>11, <4>1, <4>2 DEF Finalize
    <3>3. pc' = [pc EXCEPT ![p] = "script"] /\ call' = [call EXCEPT ![p] = "none"]
          /\ result' = [result EXCEPT ![p] = "none"]
      BY <1>11 DEF Finalize, Goes
    <3> QED BY <3>1, <3>2, <3>3 DEF Unlock
  <2>2. CASE tx[p]
    <3>1. UNCHANGED <<fileVars, value>> /\ pc[p] = "finalize"
      BY <1>11, <2>2 DEF Finalize
    <3>2. made' = [made EXCEPT ![p] = IF call[p] = "exec" /\ result[p] = "done" THEN @ + 1 ELSE @]
      <4>1. CASE call[p] = "exec"
        BY <1>11, <2>2, <3>1, <4>1 DEF Finalize, Credit, Outcome
      <4>2. CASE call[p] = "commit"
        BY <1>11, <2>2, <3>1, <4>2 DEF Finalize, Credit, Outcome
      <4>3. CASE call[p] \notin {"exec", "commit"}
        BY <1>11, <2>2, <3>1, <4>3 DEF Finalize, Credit
      <4> QED BY <4>1, <4>2, <4>3
    <3>3. pc' = [pc EXCEPT ![p] = "script"] /\ call' = [call EXCEPT ![p] = "none"]
          /\ result' = [result EXCEPT ![p] = "none"]
      BY <1>11 DEF Finalize, Goes
    <3>4. ASSUME NEW q \in Proc, q # p PROVE Running(q)' = Running(q) /\ made'[q] = made[q]
      BY <3>1, <3>2, <3>3, <3>4
    <3>5. Running(p)' = 0 /\ made'[p] = made[p] + Running(p)
      BY <2>2, <3>1, <3>2, <3>3
    <3> QED BY <2>2, <3>1, <3>2, <3>3, <3>4, <3>5
  <2> QED BY <2>1, <2>2
<1>12. ASSUME NEW p \in Proc, BeginTransaction(p) PROVE ViewInv'
  BY <1>12 DEF BeginTransaction
<1>13. ASSUME NEW p \in Proc, Commit(p) PROVE ViewInv'
  BY <1>13 DEF Commit, Unlock, Goes
<1>14. ASSUME NEW p \in Proc, Rollback(p) PROVE ViewInv'
  BY <1>14 DEF Rollback, Unlock
<1>15. ASSUME NEW p \in Proc, NEW m \in Methods \ {"commit"}, Prepare(p, m) PROVE ViewInv'
  BY <1>15 DEF Prepare, Goes
<1>16. CASE UNCHANGED vars
  BY <1>16 DEF vars
<1> QED BY <1>1, <1>2, <1>3, <1>4, <1>5, <1>6, <1>7, <1>8, <1>9, <1>10,
          <1>11, <1>12, <1>13, <1>14, <1>15, <1>16 DEF Next, Step

(* Every step keeps the account of the additions.                          *)
LEMMA ValueStep ==
  TypeOK /\ CallInv /\ LockInv /\ ViewInv /\ NoLostUpdate /\ [Next]_vars => NoLostUpdate'
<1> SUFFICES ASSUME TypeOK, CallInv, LockInv, ViewInv, NoLostUpdate, [Next]_vars
    PROVE NoLostUpdate'
  OBVIOUS
<1> USE DEF TypeOK, Methods, scriptVars, stmtVars, fileVars, history, LockInv, CallInv,
         Writer, ViewInv, Running, NoLostUpdate
<1>1. ASSUME NEW p \in Proc, Begin(p) PROVE NoLostUpdate'
  BY <1>1 DEF Begin
<1>2. ASSUME NEW p \in Proc, Open(p) PROVE NoLostUpdate'
  BY <1>2 DEF Open
<1>3. ASSUME NEW p \in Proc, Close(p) PROVE NoLostUpdate'
  BY <1>3 DEF Close
<1>4. ASSUME NEW p \in Proc, End(p) PROVE NoLostUpdate'
  BY <1>4 DEF End
<1>5. ASSUME NEW p \in Proc, Crash(p) PROVE NoLostUpdate'
  BY <1>5 DEF Crash, Due
<1>6. ASSUME NEW p \in Proc, Share(p) PROVE NoLostUpdate'
  BY <1>6 DEF Share
<1>7. ASSUME NEW p \in Proc, Reserve(p) PROVE NoLostUpdate'
  BY <1>7 DEF Reserve
<1>8. ASSUME NEW p \in Proc, Exclude(p) PROVE NoLostUpdate'
  BY <1>8 DEF Exclude
<1>9. ASSUME NEW p \in Proc, Write(p) PROVE NoLostUpdate'
  BY <1>9 DEF Write, Due
<1>10. ASSUME NEW p \in Proc, Busy(p) PROVE NoLostUpdate'
  BY <1>10 DEF Busy
<1>11. ASSUME NEW p \in Proc, Finalize(p) PROVE NoLostUpdate'
  <2>1. CASE pc[p] = "written"
    BY <1>11, <2>1 DEF Finalize, Credit, Outcome, Due
  <2>2. CASE pc[p] = "finalize"
    <3>1. ~(Outcome(p) = "ok" /\ (call[p] = "commit" \/ (call[p] = "exec" /\ ~tx[p])))
      BY <1>11, <2>2 DEF Outcome
    <3>2. UNCHANGED <<promised, owed, value, survived>>
      BY <1>11, <2>2, <3>1 DEF Finalize, Credit
    <3> QED BY <3>2
  <2> QED BY <1>11, <2>1, <2>2 DEF Finalize
<1>12. ASSUME NEW p \in Proc, BeginTransaction(p) PROVE NoLostUpdate'
  BY <1>12 DEF BeginTransaction
<1>13. ASSUME NEW p \in Proc, Commit(p) PROVE NoLostUpdate'
  BY <1>13 DEF Commit
<1>14. ASSUME NEW p \in Proc, Rollback(p) PROVE NoLostUpdate'
  BY <1>14 DEF Rollback
<1>15. ASSUME NEW p \in Proc, NEW m \in Methods \ {"commit"}, Prepare(p, m) PROVE NoLostUpdate'
  BY <1>15 DEF Prepare
<1>16. CASE UNCHANGED vars
  BY <1>16 DEF vars
<1> QED BY <1>1, <1>2, <1>3, <1>4, <1>5, <1>6, <1>7, <1>8, <1>9, <1>10,
          <1>11, <1>12, <1>13, <1>14, <1>15, <1>16 DEF Next, Step

-----------------------------------------------------------------------------
IInv ==
  /\ TypeOK
  /\ StmtInv
  /\ LockInv
  /\ Compatible
  /\ ViewInv
  /\ CallInv
  /\ NoLostUpdate

(* The strengthened invariant holds at first.                              *)
LEMMA Initial == Init => IInv
BY DEF Init, IInv, TypeOK, StmtInv, LockInv, Compatible, ViewInv, CallInv, NoLostUpdate,
       Running, Steps, Writer, Methods

(* The strengthened invariant is inductive.                                *)
LEMMA Inductive == IInv /\ [Next]_vars => IInv'
BY TypeStep, StmtStep, CallStep, LockStep, CompatibleStep, ViewStep, ValueStep DEF IInv

(* The strengthened invariant holds always.                                *)
LEMMA Invariance == Spec => []IInv
BY Initial, Inductive, PTL DEF Spec

(* The variables keep their types.                                         *)
THEOREM TypeCorrect == Spec => []TypeOK
<1>1. IInv => TypeOK
  BY DEF IInv
<1> QED BY <1>1, Invariance, PTL

(* With any number of processes, in any order of their calls: what is in   *)
(* the file is what scripts were told or still wait to be told is there.   *)
THEOREM UpdatesCorrect == Spec => []NoLostUpdate
<1>1. IInv => NoLostUpdate
  BY DEF IInv
<1> QED BY <1>1, Invariance, PTL

(* However a script ends, it gives back what it has locked.                *)
THEOREM IdleCorrect == Spec => []IdleHoldsNoLock
<1>1. IInv => IdleHoldsNoLock
  BY DEF IInv, LockInv, IdleHoldsNoLock
<1> QED BY <1>1, Invariance, PTL
=============================================================================
