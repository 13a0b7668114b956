------------------------- MODULE ScriptEngine_proofs -------------------------
(***************************************************************************)
(* The safety properties of ScriptEngine, for any number of executions,    *)
(* uploads, extensions and jobs and for whatever the scripts do; and what  *)
(* the buffers of the response (Page) hold when a script has made it, for  *)
(* any number of calls and texts of any length; and what the program does, *)
(* and with which settings, for any command line and any ini files (Start);*)
(* and that a request is read as it was meant, for multipart bodies        *)
(* (Parts) and for query strings, forms and cookies (Assignments) of any   *)
(* length.                                                                 *)
(***************************************************************************)
EXTENDS ScriptEngine, Page, Start, Parts, Assignments,
        SequenceTheorems, FiniteSetTheorems, WellFoundedInduction, TLAPS

(* Type correctness, one group of variables at a time.                     *)
LEMMA TypeControlStep == TypeControl /\ [Next]_vars => TypeControl'
<1> SUFFICES ASSUME TypeControl, [Next]_vars PROVE TypeControl'
  OBVIOUS
<1> USE ConstantsAssumption DEF TypeControl
<1>1. ASSUME UNCHANGED <<execs, todo>>, phase' = phase \/ phase' \in
               {"idle", "load", "script", "jobs", "report", "unload", "free", "cleanup"}
      PROVE  TypeControl'
  BY <1>1
<1>2. ASSUME NEW n \in 0..MaxUploads, Begin(n) PROVE TypeControl'
  BY <1>2 DEF Begin
<1>3. CASE BeginUnreadable
  BY <1>3 DEF BeginUnreadable
<1>4. CASE StoreUpload
  BY <1>4 DEF StoreUpload
<1>5. CASE RefuseUpload
  BY <1>5 DEF RefuseUpload
<1> QED
  BY <1>1, <1>2, <1>3, <1>4, <1>5
  DEF Next, Host, Script, vars, EndRequest, LoadExtension, EndLoad, Enqueue, Move, EndScript, RunJob,
           FailJob, EndJobs, Clock, Interrupt, Report, Unload, Free, Cleanup, Crash

LEMMA TypeFlagsStep == TypeFlags /\ [Next]_vars => TypeFlags'
<1> SUFFICES ASSUME TypeFlags, [Next]_vars PROVE TypeFlags'
  OBVIOUS
<1> USE DEF TypeFlags, engineVars, resultVars
<1>1. ASSUME UNCHANGED <<module, ctx, over, stopped>> PROVE TypeFlags'
  BY <1>1
<1>2. ASSUME NEW n \in 0..MaxUploads, Begin(n) PROVE TypeFlags'
  BY <1>2 DEF Begin
<1>3. CASE BeginUnreadable
  BY <1>3 DEF BeginUnreadable
<1>4. CASE Clock
  BY <1>4 DEF Clock
<1>5. CASE Interrupt
  BY <1>5 DEF Interrupt
<1>6. CASE Free
  BY <1>6 DEF Free
<1>7. CASE Crash
  BY <1>7 DEF Crash
<1> QED BY <1>1, <1>2, <1>3, <1>4, <1>5, <1>6, <1>7
        DEF Next, Host, Script, vars, StoreUpload, RefuseUpload,
           EndRequest, LoadExtension, EndLoad, Enqueue, Move, EndScript, RunJob,
           FailJob, EndJobs, Report, Unload, Cleanup

LEMMA TypeFilesStep == TypeFiles /\ [Next]_vars => TypeFiles'
<1> SUFFICES ASSUME TypeFiles, [Next]_vars PROVE TypeFiles'
  OBVIOUS
<1> USE ConstantsAssumption DEF TypeFiles, fileVars
<1>1. ASSUME UNCHANGED <<created, temp, target, tracked, orphans, late>>,
             given' \in {given, {}}, moved' \in {moved, {}}, since' \in {since, created}
      PROVE  TypeFiles'
  BY <1>1
<1>2. CASE StoreUpload
  <2>1. created + 1 \in File /\ temp' \in [File -> FileState]
    BY <1>2 DEF StoreUpload, Written, File, FileState
  <2>2. tracked' \in Seq(File)
    BY <1>2, <2>1 DEF StoreUpload, track_temp_file
  <2>3. created' \in 0..MaxFiles /\ since' \in 0..created'
    BY <1>2 DEF StoreUpload
  <2>4. late' \subseteq File
    BY <1>2, <2>1 DEF StoreUpload
  <2> QED BY <1>2, <2>1, <2>2, <2>3, <2>4 DEF StoreUpload
<1>3. ASSUME NEW f \in File, Move(f) PROVE TypeFiles'
  <2>1. target' \in [File -> FileState] /\ temp' \in [File -> FileState]
    BY <1>3 DEF Move, Written, FileState
  <2> QED BY <1>3, <2>1 DEF Move
<1>4. CASE Cleanup
  <2>1. temp' \in [File -> FileState] /\ tracked' \in Seq(File)
    BY <1>4 DEF Cleanup, FileState
  <2> QED BY <1>4, <2>1 DEF Cleanup
<1>5. CASE Crash
  <2>1. tracked' \in Seq(File)
    BY <1>5 DEF Crash
  <2> QED BY <1>5, <2>1 DEF Crash, OnDisk
<1> QED BY <1>1, <1>2, <1>3, <1>4, <1>5
        DEF Next, Host, Script, vars, Begin, BeginUnreadable, RefuseUpload,
           EndRequest, LoadExtension, EndLoad, Enqueue, EndScript, RunJob,
           FailJob, EndJobs, Clock, Interrupt, Report, Unload, Free

LEMMA TypeEngineStep == TypeEngine /\ [Next]_vars => TypeEngine'
<1> SUFFICES ASSUME TypeEngine, [Next]_vars PROVE TypeEngine'
  OBVIOUS
<1> USE ConstantsAssumption DEF TypeEngine, engineVars
<1>1. ASSUME UNCHANGED <<next_ext, loaded, inited>>, jobs' \in 0..MaxJobs
      PROVE  TypeEngine'
  BY <1>1
<1>2. CASE EndRequest
  BY <1>2 DEF EndRequest
<1>3. CASE LoadExtension
  <2>1. next_ext' \in 1..(Extensions + 1)
    BY <1>3 DEF LoadExtension
  <2>2. next_ext \in Extension
    BY <1>3 DEF LoadExtension, Extension
  <2>3. Append(loaded, next_ext) \in Seq(Extension)
    BY <2>2
  <2>4. loaded' \in Seq(Extension)
    BY <1>3, <2>3 DEF LoadExtension
  <2>5. inited' \subseteq Extension
    BY <1>3, <2>2 DEF LoadExtension
  <2> QED BY <1>3, <2>1, <2>4, <2>5 DEF LoadExtension
<1>4. CASE Unload
  BY <1>4 DEF Unload
<1>5. CASE Crash
  BY <1>5 DEF Crash
<1>6. CASE Interrupt
  BY <1>1, <1>6 DEF Interrupt, Polled, Running
<1>7. CASE RunJob \/ FailJob \/ Enqueue
  BY <1>1, <1>7 DEF RunJob, FailJob, Enqueue
<1>8. CASE Free
  BY <1>1, <1>8 DEF Free
<1> QED BY <1>1, <1>2, <1>3, <1>4, <1>5, <1>6, <1>7, <1>8
        DEF Next, Host, Script, vars, Begin, BeginUnreadable, StoreUpload,
            RefuseUpload, EndLoad, Move, EndScript, EndJobs, Clock, Report, Cleanup

LEMMA TypeResultStep == TypeResult /\ [Next]_vars => TypeResult'
<1> SUFFICES ASSUME TypeResult, [Next]_vars PROVE TypeResult'
  OBVIOUS
<1> USE DEF TypeResult, resultVars
<1>1. ASSUME out' = out, result' \in {"none", "ok", "rejected", "exception"}
      PROVE  TypeResult'
  BY <1>1
<1>2. ASSUME NEW n \in 0..MaxUploads, Begin(n) PROVE TypeResult'
  BY <1>2 DEF Begin
<1>3. CASE BeginUnreadable
  BY <1>3 DEF BeginUnreadable
<1>4. CASE Report
  BY <1>4 DEF Report
<1>5. CASE Crash
  BY <1>5 DEF Crash
<1> QED BY <1>1, <1>2, <1>3, <1>4, <1>5
        DEF Next, Host, Script, vars, StoreUpload, RefuseUpload,
           EndRequest, LoadExtension, EndLoad, Enqueue, Move, EndScript, RunJob,
           FailJob, EndJobs, Clock, Interrupt, Unload, Free, Cleanup

(* Every variable of the engine keeps its type.                            *)
THEOREM TypeCorrect == Spec => []TypeOK
<1>1. Init => TypeOK
  <2> SUFFICES ASSUME Init PROVE TypeOK
    OBVIOUS
  <2> USE ConstantsAssumption DEF Init
  <2>1. TypeControl
    BY DEF TypeControl
  <2>5. TypeFlags
    BY DEF TypeFlags
  <2>2. TypeFiles
    BY DEF TypeFiles, FileState
  <2>3. TypeEngine
    BY DEF TypeEngine
  <2>4. TypeResult
    BY DEF TypeResult
  <2> QED BY <2>1, <2>2, <2>3, <2>4, <2>5 DEF TypeOK
<1>2. TypeOK /\ [Next]_vars => TypeOK'
  BY TypeControlStep, TypeFlagsStep, TypeFilesStep, TypeEngineStep, TypeResultStep DEF TypeOK
<1> QED BY <1>1, <1>2, PTL DEF Spec

-----------------------------------------------------------------------------
(* Extensions: what is needed beside ExtensionsInContext is at which       *)
(* phases the loop of unload_extensions has left nothing loaded, and at    *)
(* which the context is there.                                             *)
EngineInv ==
  /\ inited = Elements(loaded)
  /\ phase \in {"idle", "request", "free", "cleanup"} => loaded = <<>>
  /\ phase \in {"request", "load", "script", "jobs", "report", "unload"} => ctx

LEMMA ElementsOfAppend ==
  ASSUME NEW S, NEW s \in Seq(S), NEW x \in S
  PROVE  Elements(Append(s, x)) = Elements(s) \union {x}
<1> DEFINE t == Append(s, x)
           n == Len(s)
<1>1. /\ n \in Nat
      /\ DOMAIN s = 1..n /\ DOMAIN t = 1..(n + 1)
      /\ t[n + 1] = x /\ \A m \in 1..n : t[m] = s[m]
  OBVIOUS
<1>2. 1..(n + 1) = (1..n) \union {n + 1}
  BY <1>1
<1> HIDE DEF t, n
<1> QED BY <1>1, <1>2 DEF Elements, t

(* Every extension initialised is shut down before its context is freed.   *)
THEOREM ExtensionsCorrect == Spec => []ExtensionsInContext
<1>1. Init => EngineInv
  BY DEF Init, EngineInv, Elements
<1>2. TypeOK /\ EngineInv /\ [Next]_vars => EngineInv'
  <2> SUFFICES ASSUME TypeOK, EngineInv, [Next]_vars PROVE EngineInv'
    OBVIOUS
  <2> USE DEF EngineInv, engineVars
  <2>1. CASE LoadExtension
    <3>1. next_ext \in Extension
      BY <2>1 DEF LoadExtension, Extension, TypeOK, TypeEngine
    <3>2. Elements(Append(loaded, next_ext)) = Elements(loaded) \union {next_ext}
      BY <3>1, ElementsOfAppend DEF TypeOK, TypeEngine
    <3>3. inited' = Elements(loaded')
      BY <2>1, <3>2 DEF LoadExtension
    <3> QED BY <2>1, <3>3 DEF LoadExtension
  <2>2. CASE Unload
    BY <2>2 DEF Unload, Elements
  <2>3. CASE Crash
    BY <2>3 DEF Crash, Elements
  <2>4. CASE Free
    BY <2>4 DEF Free, Elements
  <2>5. ASSUME NEW n \in 0..MaxUploads, Begin(n) PROVE EngineInv'
    BY <2>5 DEF Begin, Elements
  <2>6. CASE Interrupt
    BY <2>6 DEF Interrupt, Polled, Running, Elements
  <2> QED BY <2>1, <2>2, <2>3, <2>4, <2>5, <2>6
          DEF Elements, Next, Host, Script, vars, BeginUnreadable, StoreUpload,
              RefuseUpload, EndRequest, EndLoad, Enqueue, Move, EndScript,
              RunJob, FailJob, EndJobs, Clock, Report, Cleanup, TypeOK, TypeControl
<1>3. TypeOK /\ EngineInv => ExtensionsInContext
  BY DEF TypeOK, TypeControl, EngineInv, ExtensionsInContext, Elements
<1> QED BY <1>1, <1>2, <1>3, TypeCorrect, PTL DEF Spec

-----------------------------------------------------------------------------
(* Files: every file on disk is tracked, an orphan or late.  A file is     *)
(* tracked unless the table is full, and it cannot be full before the      *)
(* execution itself has stored MAX_TEMP_FILES files, as it starts empty.   *)
FilesInv ==
  /\ OnDisk \subseteq orphans \union late \union Elements(tracked)
  /\ phase = "idle" => tracked = <<>>
  /\ phase = "request" => Len(tracked) <= created - since

(* Whatever the number of uploads of a request: without a crash only what  *)
(* comes after its first MAX_TEMP_FILES is left in upload_dir when it ends.*)
THEOREM UploadsRemoved == Spec => []NoTempLeft
<1>1. Init => FilesInv
  BY DEF Init, FilesInv, OnDisk
<1>2. TypeOK /\ FilesInv /\ [Next]_vars => FilesInv'
  <2> SUFFICES ASSUME TypeOK, FilesInv, [Next]_vars PROVE FilesInv'
    OBVIOUS
  <2> USE DEF FilesInv, fileVars
  <2>1. CASE StoreUpload
    <3>1. created + 1 \in File
      BY <2>1, ConstantsAssumption DEF StoreUpload, File, TypeOK, TypeFiles
    <3>2. OnDisk' \subseteq OnDisk \union {created + 1}
      BY <2>1 DEF StoreUpload, OnDisk, TypeOK, TypeFiles
    <3>3. Len(tracked) \in Nat /\ Len(tracked) <= created - since
      BY <2>1 DEF StoreUpload, TypeOK, TypeFiles
    <3>4. CASE Len(tracked) < MaxTempFiles
      <4>1. tracked' = Append(tracked, created + 1)
        BY <2>1, <3>4 DEF StoreUpload, track_temp_file
      <4>2. Elements(tracked') = Elements(tracked) \union {created + 1}
        BY <3>1, <4>1, ElementsOfAppend DEF TypeOK, TypeFiles
      <4>3. Len(tracked') <= created' - since'
        BY <2>1, <3>3, <4>1, ConstantsAssumption DEF StoreUpload, TypeOK, TypeFiles
      <4>4. late \subseteq late'
        BY <2>1 DEF StoreUpload
      <4> QED BY <2>1, <3>2, <4>2, <4>3, <4>4 DEF StoreUpload
    <3>5. CASE ~(Len(tracked) < MaxTempFiles)
      <4>1. tracked' = tracked /\ Elements(tracked') = Elements(tracked)
        BY <2>1, <3>5 DEF StoreUpload, track_temp_file, Elements
      <4>2. late' = late \union {created + 1}
        BY <2>1, <3>3, <3>5, ConstantsAssumption DEF StoreUpload, TypeOK, TypeFiles
      <4>3. Len(tracked') <= created' - since'
        BY <2>1, <3>3, <4>1, ConstantsAssumption DEF StoreUpload, TypeOK, TypeFiles
      <4> QED BY <2>1, <3>2, <4>1, <4>2, <4>3 DEF StoreUpload
    <3> QED BY <3>4, <3>5
  <2>2. ASSUME NEW n \in 0..MaxUploads, Begin(n) PROVE FilesInv'
    <3>1. tracked' = <<>> /\ OnDisk' = OnDisk /\ created' = created /\ since' = created
      BY <2>2 DEF Begin, OnDisk
    <3> QED BY <2>2, <3>1 DEF Begin, Elements, TypeOK, TypeFiles
  <2>4. ASSUME NEW f \in File, Move(f) PROVE FilesInv'
    <3>1. OnDisk' \subseteq OnDisk /\ Elements(tracked') = Elements(tracked)
      BY <2>4 DEF Move, OnDisk, Elements, TypeOK, TypeFiles
    <3> QED BY <2>4, <3>1 DEF Move, Running
  <2>5. CASE Cleanup
    <3>1. OnDisk' = OnDisk \ Elements(tracked)
      BY <2>5 DEF Cleanup, OnDisk
    <3> QED BY <2>5, <3>1 DEF Cleanup
  <2>6. CASE Crash
    BY <2>6 DEF Crash, OnDisk
  <2>7. ASSUME UNCHANGED <<temp, tracked, orphans, late, created, since>>,
               phase' = phase \/ phase' \notin {"idle", "request"}
        PROVE  FilesInv'
    BY <2>7 DEF OnDisk, Elements
  <2> QED BY <2>1, <2>2, <2>4, <2>5, <2>6, <2>7
          DEF Next, Host, Script, vars, BeginUnreadable, RefuseUpload, EndRequest,
              LoadExtension, EndLoad, Enqueue, EndScript, RunJob, FailJob, EndJobs, Clock,
              Interrupt, Report, Unload, Free
<1>3. FilesInv => NoTempLeft
  BY DEF FilesInv, NoTempLeft, Elements
<1> QED BY <1>1, <1>2, <1>3, TypeCorrect, PTL DEF Spec

(* The other half: no file disappears under a script that still knows it.  *)
Available ==
  phase # "idle" => \A f \in given \ moved : temp[f] # "none"

(* A script finds its uploads until it moves them.                         *)
THEOREM UploadsFound == Spec => []UploadsAvailable
<1>1. Init => Available
  BY DEF Init, Available
<1>2. TypeOK /\ Available /\ [Next]_vars => Available'
  <2> SUFFICES ASSUME TypeOK, Available, [Next]_vars PROVE Available'
    OBVIOUS
  <2> USE DEF Available, fileVars
  <2>1. CASE StoreUpload
    <3>1. created + 1 \in File
      BY <2>1, ConstantsAssumption DEF StoreUpload, File, TypeOK, TypeFiles
    <3> QED BY <2>1, <3>1 DEF StoreUpload, Written, TypeOK, TypeFiles
  <2>2. ASSUME NEW n \in 0..MaxUploads, Begin(n) PROVE Available'
    BY <2>2 DEF Begin
  <2>3. ASSUME NEW f \in File, Move(f) PROVE Available'
    BY <2>3 DEF Move, Running, TypeOK, TypeFiles
  <2>4. CASE Cleanup
    BY <2>4 DEF Cleanup
  <2>5. CASE Crash
    BY <2>5 DEF Crash
  <2>6. CASE BeginUnreadable
    BY <2>6 DEF BeginUnreadable
  <2>7. ASSUME UNCHANGED <<temp, given, moved>>, phase # "idle" \/ phase' = phase
        PROVE  Available'
    BY <2>7
  <2> QED BY <2>1, <2>2, <2>3, <2>4, <2>5, <2>6, <2>7
          DEF Next, Host, Script, vars, RefuseUpload, EndRequest, LoadExtension,
              EndLoad, Enqueue, EndScript, RunJob, FailJob, EndJobs, Clock,
              Interrupt, Polled, Running, Report, Unload, Free
<1>3. Available => UploadsAvailable
  BY DEF Available, UploadsAvailable, Running
<1> QED BY <1>1, <1>2, <1>3, TypeCorrect, PTL DEF Spec

-----------------------------------------------------------------------------
(* The page: nothing has been printed before the report, and an execution  *)
(* that reaches it without an exception has run all of its jobs.           *)
PageInv ==
  /\ phase \in {"cleanup", "idle", "request", "load"} => jobs = 0
  /\ phase \in {"request", "load", "script", "jobs", "report"} => out = <<>>
  /\ phase = "report" /\ result # "exception" => jobs = 0
  /\ ResponseIsComplete

LEMMA PageStep == TypeOK /\ PageInv /\ [Next]_vars => PageInv'
<1> SUFFICES ASSUME TypeOK, PageInv, [Next]_vars PROVE PageInv'
  OBVIOUS
<1> USE DEF PageInv, ResponseIsComplete, engineVars, resultVars
<1>1. ASSUME NEW n \in 0..MaxUploads, Begin(n) PROVE PageInv'
  BY <1>1 DEF Begin
<1>2. CASE BeginUnreadable
  BY <1>2 DEF BeginUnreadable
<1>3. CASE Enqueue
  BY <1>3 DEF Enqueue, Running
<1>4. CASE RunJob
  BY <1>4 DEF RunJob
<1>5. CASE FailJob
  BY <1>5 DEF FailJob
<1>6. ASSUME NEW r \in {"ok", "exception", "rejected"}, EndScript(r) PROVE PageInv'
  BY <1>6 DEF EndScript
<1>7. CASE EndJobs
  BY <1>7 DEF EndJobs
<1>8. CASE Interrupt
  BY <1>8 DEF Interrupt, Polled, Running
<1>9. CASE Report
  BY <1>9 DEF Report
<1>10. CASE Free
  BY <1>10 DEF Free
<1>11. CASE Crash
  BY <1>11 DEF Crash
<1>12. ASSUME UNCHANGED <<jobs, out, result>>,
              \/ phase' = phase
              \/ phase \in {"request", "load"} /\ phase' \in {"load", "script"}
              \/ phase' = "free"
              \/ phase = "cleanup" /\ phase' = "idle"
       PROVE  PageInv'
  BY <1>12
<1> QED BY <1>1, <1>2, <1>3, <1>4, <1>5, <1>6, <1>7, <1>8, <1>9, <1>10, <1>11, <1>12
        DEF Next, Host, Script, vars, StoreUpload, RefuseUpload, EndRequest,
            LoadExtension, EndLoad, Move, Clock, Unload, Cleanup

-----------------------------------------------------------------------------
(* The time limit: what was stopped goes to the report with an exception,  *)
(* unless all that happened is that the promise of a module was rejected,  *)
(* and the time that was over then is so still.                            *)
TimeInv ==
  /\ stopped => TimeLimit = "positive" /\ over
  /\ stopped => phase \notin {"request", "load", "script"}
  /\ stopped /\ phase = "jobs" => result = "rejected"
  /\ stopped /\ phase = "report" => result \in {"rejected", "exception"}
  /\ TimeoutReported
  /\ TimeoutTrue

(* A response is printed when nothing the script has scheduled is left,    *)
(* and what the time limit has stopped, a module as well as a script, is   *)
(* reported as timed out unless only a promise was rejected; and nothing   *)
(* is reported as timed out before its time is up.                         *)
THEOREM PageCorrect == Spec => []PageIsRight
<1>1. Init => PageInv /\ TimeInv
  BY DEF Init, PageInv, ResponseIsComplete, TimeInv, TimeoutReported, TimeoutTrue
<1>2. TypeOK /\ PageInv /\ TimeInv /\ [Next]_vars => TimeInv'
  <2> SUFFICES ASSUME TypeOK, PageInv, TimeInv, [Next]_vars PROVE TimeInv'
    OBVIOUS
  <2> USE DEF TimeInv, TimeoutReported, TimeoutTrue, resultVars
  <2>1. ASSUME NEW n \in 0..MaxUploads, Begin(n) PROVE TimeInv'
    BY <2>1 DEF Begin
  <2>2. CASE BeginUnreadable
    BY <2>2 DEF BeginUnreadable
  <2>3. CASE Interrupt
    BY <2>3 DEF Interrupt, Polled, Running
  <2>4. CASE Report
    BY <2>4 DEF Report, PageInv, CountsAsTimeout
  <2>5. CASE Crash
    BY <2>5 DEF Crash
  <2>6. CASE Clock
    BY <2>6 DEF Clock
  <2>7. CASE FailJob
    BY <2>7 DEF FailJob
  <2>8. ASSUME UNCHANGED <<over, stopped, out>>, phase' # "unload" \/ phase' = phase,
               \/ phase' = phase /\ result' = result
               \/ phase \in {"request", "load", "script"}
               \/ phase = "jobs" /\ phase' = "report" /\ result' = result
               \/ phase' \in {"idle", "free", "cleanup"}
        PROVE  TimeInv'
    BY <2>8
  <2> QED BY <2>1, <2>2, <2>3, <2>4, <2>5, <2>6, <2>7, <2>8
          DEF Next, Host, Script, vars, StoreUpload, RefuseUpload, EndRequest, LoadExtension,
              EndLoad, Enqueue, Move, EndScript, RunJob, EndJobs, Unload, Free, Cleanup
<1>3. PageInv /\ TimeInv => PageIsRight
  BY DEF PageInv, TimeInv, PageIsRight
<1> QED BY <1>1, <1>2, <1>3, PageStep, TypeCorrect, PTL DEF Spec

-----------------------------------------------------------------------------
(* Induction, for a set that is given.                                     *)
LEMMA NatSet ==
  ASSUME NEW P, 0 \in P, \A n \in Nat : n \in P => n + 1 \in P
  PROVE  \A n \in Nat : n \in P
<1> DEFINE T == {n \in Nat : n \notin P}
<1> SUFFICES ASSUME T # {} PROVE FALSE
  OBVIOUS
<1>1. PICK x \in T : \A y \in T : ~ (<<y, x>> \in OpToRel(<, Nat))
  <2> HIDE DEF T
  <2>1. T \subseteq Nat
    BY DEF T
  <2> QED BY <2>1, WFMin, NatLessThanWellFounded
<1>2. x \in Nat /\ x # 0 /\ x - 1 \in Nat /\ x - 1 < x
  OBVIOUS
<1>3. <<x - 1, x>> \in OpToRel(<, Nat)
  BY <1>2 DEF OpToRel
<1>4. x - 1 \notin T
  BY <1>1, <1>3
<1> QED BY <1>2, <1>4

LEMMA LeastOne ==
  ASSUME NEW I, I \subseteq Nat, I # {}
  PROVE  \E x \in I : \A y \in I : x <= y
<1>1. PICK x \in I : \A y \in I : ~ (<<y, x>> \in OpToRel(<, Nat))
  BY WFMin, NatLessThanWellFounded
<1>2. \A y \in I : ~(y < x)
  BY <1>1 DEF OpToRel
<1> QED BY <1>2

(* A function that is defined by recursion exists.                         *)
Recursive(g, X, x, n, f) ==
  /\ g \in [0..n -> X]
  /\ g[0] = x
  /\ \A i \in 1..n : g[i] = f[i][g[i - 1]]

LEMMA Recursion ==
  ASSUME NEW X, NEW x \in X, NEW n \in Nat, NEW f \in [1..n -> [X -> X]]
  PROVE  \E g : Recursive(g, X, x, n, f)
<1> DEFINE Upto(m, g) == /\ g \in [0..m -> X] /\ g[0] = x
                         /\ \A i \in 1..m : g[i] = f[i][g[i - 1]]
           P == {m \in Nat : m <= n => \E g : Upto(m, g)}
<1>1. 0 \in P
  <2>1. Upto(0, [i \in 0..0 |-> x])
    OBVIOUS
  <2> QED BY <2>1
<1>2. \A m \in Nat : m \in P => m + 1 \in P
  <2>1. SUFFICES ASSUME NEW m \in Nat, m + 1 <= n, NEW g, Upto(m, g)
                 PROVE  \E h : Upto(m + 1, h)
    <3> HIDE DEF Upto
    <3> QED OBVIOUS
  <2> DEFINE h == [i \in 0..(m + 1) |-> IF i = m + 1 THEN f[m + 1][g[m]] ELSE g[i]]
  <2>2. f[m + 1] \in [X -> X] /\ g[m] \in X
    BY <2>1
  <2>3. h \in [0..(m + 1) -> X] /\ h[0] = x
    BY <2>1, <2>2
  <2>4. ASSUME NEW i \in 1..(m + 1) PROVE h[i] = f[i][h[i - 1]]
    <3>1. CASE i = m + 1
      BY <2>1, <3>1
    <3>2. CASE i \in 1..m
      BY <2>1, <3>2
    <3> QED BY <3>1, <3>2
  <2>5. Upto(m + 1, h)
    BY <2>3, <2>4
  <2> QED BY <2>5
<1> HIDE DEF P
<1>3. n \in P
  BY <1>1, <1>2, NatSet
<1> QED BY <1>3 DEF P, Recursive

-----------------------------------------------------------------------------
(* Buffers.                                                                *)
LEMMA GrownEnough ==
  ASSUME NEW cap \in Nat \ {0}, NEW needed \in Nat
  PROVE  /\ Grown(cap, needed) \in Nat \ {0}
         /\ Grown(cap, needed) >= needed
<1> DEFINE Body(g) == [i \in 0..needed |-> IF i = 0 THEN cap ELSE Doubled(g[i - 1], needed)]
           N == Nat \ {0}
<1>1. \A c \in N : Doubled(c, needed) \in N
  BY DEF Doubled
<1>2. PICK g \in [0..needed -> N] :
        g[0] = cap /\ \A i \in 1..needed : g[i] = [c \in N |-> Doubled(c, needed)][g[i - 1]]
  <2> DEFINE f == [i \in 1..needed |-> [c \in N |-> Doubled(c, needed)]]
  <2>1. f \in [1..needed -> [N -> N]] /\ cap \in N
    BY <1>1
  <2>2. \E g : Recursive(g, N, cap, needed, f)
    <3> HIDE DEF f, N
    <3> QED BY <2>1, Recursion
  <2> QED BY <2>2 DEF Recursive
<1>3. g = Body(g)
  <2>1. ASSUME NEW i \in 0..needed
        PROVE  g[i] = IF i = 0 THEN cap ELSE Doubled(g[i - 1], needed)
    <3>1. CASE i = 0
      BY <1>2, <3>1
    <3>2. CASE i \in 1..needed
      <4>1. g[i - 1] \in N
        BY <3>2
      <4> QED BY <1>2, <3>2, <4>1
    <3> QED BY <3>1, <3>2
  <2> QED BY <2>1
<1> DEFINE h == CHOOSE h : h = Body(h)
<1>4. h = Body(h)
  <2> HIDE DEF Body
  <2> QED BY <1>3
<1>5. Grown(cap, needed) = h[needed]
  BY Zenon DEF Grown
<1> HIDE DEF h
<1> DEFINE P == {i \in Nat : i <= needed => h[i] \in N /\ (h[i] >= needed \/ h[i] >= i)}
<1>6. 0 \in P
  <2>1. h[0] = cap
    BY <1>4
  <2> QED BY <2>1
<1>7. \A i \in Nat : i \in P => i + 1 \in P
  <2>1. SUFFICES ASSUME NEW i \in Nat, i + 1 <= needed, h[i] \in N, h[i] >= needed \/ h[i] >= i
                 PROVE  h[i + 1] \in N /\ (h[i + 1] >= needed \/ h[i + 1] >= i + 1)
    OBVIOUS
  <2>2. h[i + 1] = Doubled(h[i], needed)
    BY <1>4, <2>1
  <2> QED BY <2>1, <2>2 DEF Doubled
<1> HIDE DEF P
<1>8. needed \in P
  BY <1>6, <1>7, NatSet
<1> QED BY <1>5, <1>8 DEF P

LEMMA HeldWhole ==
  ASSUME NEW S, NEW s \in Seq(S), NEW cap \in Nat, Len(s) <= cap
  PROVE  Held(s, cap) = s
<1>1. Held(s, cap) = SubSeq(s, 1, Len(s))
  BY DEF Held
<1> QED BY <1>1

LEMMA HeldType ==
  ASSUME NEW S, NEW s \in Seq(S), NEW cap \in Nat
  PROVE  Held(s, cap) \in Seq(S)
BY DEF Held

-----------------------------------------------------------------------------
(* What is put together of many pieces.                                    *)
LEMMA NextIndex ==
  ASSUME NEW n \in Nat, NEW i \in Nat, (i + 1) + 1 <= n
  PROVE  (i + 1) + 1 \in 2..n /\ ((i + 1) + 1) - 1 = i + 1
OBVIOUS

LEMMA FlattenBy ==
  ASSUME NEW S, NEW s \in Seq(Seq(S)), NEW n \in Nat, Len(s) = n,
         NEW g \in [0..n -> Seq(S)],
         g[0] = <<>>, \A i \in 1..n : g[i] = g[i - 1] \o s[i]
  PROVE  FlattenSeq(s) = g[n]
<1> DEFINE Body(h) == [i \in 1..n |-> IF i = 1 THEN s[i] ELSE h[i - 1] \o s[i]]
           h == CHOOSE h : h = Body(h)
<1>1. CASE n = 0
  <2>1. s = <<>>
    BY <1>1
  <2> QED BY <1>1, <2>1 DEF FlattenSeq
<1>2. CASE n # 0
  <2> DEFINE r == [i \in 1..n |-> g[i]]
  <2>1. r = Body(r)
    <3>1. ASSUME NEW i \in 1..n PROVE g[i] = IF i = 1 THEN s[i] ELSE r[i - 1] \o s[i]
      <4>1. s[i] \in Seq(S)
        OBVIOUS
      <4>2. CASE i = 1
        <5>0. i - 1 = 0 /\ i \in 1..n
          BY <4>2
        <5>1. g[i] = g[i - 1] \o s[i] /\ g[i - 1] = <<>>
          BY <5>0, Zenon
        <5>2. <<>> \o s[i] = s[i]
          BY <4>1
        <5> QED BY <4>2, <5>1, <5>2, Zenon
      <4>3. CASE i # 1
        <5>1. g[i] = g[i - 1] \o s[i] /\ i - 1 \in 1..n
          <6>1. i - 1 \in 1..n
            BY <4>3
          <6> QED BY <6>1, Zenon
        <5>2. r[i - 1] = g[i - 1]
          BY <5>1
        <5> HIDE DEF r
        <5> QED BY <4>3, <5>1, <5>2, Zenon
      <4> QED BY <4>2, <4>3
    <3> QED BY <3>1
  <2>2. h = Body(h)
    <3> HIDE DEF Body
    <3> QED BY <2>1
  <2>3. FlattenSeq(s) = h[n]
    BY <1>2, Zenon DEF FlattenSeq
  <2> HIDE DEF h
  <2>0. n \in Nat /\ n > 0
    BY <1>2
  <2>4. h[1] = g[1]
    <3>1. r[1] = s[1] /\ r[1] = g[1]
      <4>1. 1 \in 1..n
        BY <2>0
      <4>2. Body(r)[1] = s[1]
        BY <4>1
      <4>3. r[1] = g[1]
        BY <4>1
      <4> HIDE DEF r, Body
      <4> QED BY <2>1, <4>2, <4>3, Zenon
    <3>2. h[1] = s[1]
      <4>1. Body(h)[1] = s[1]
        BY <2>0
      <4> HIDE DEF Body
      <4> QED BY <2>2, <4>1, Zenon
    <3> QED BY <3>1, <3>2, Zenon
  <2>5. ASSUME NEW i \in 2..n, h[i - 1] = g[i - 1] PROVE h[i] = g[i]
    <3>0. i \in 1..n /\ i # 1
      BY <2>0
    <3>1. g[i] = g[i - 1] \o s[i]
      BY <3>0, Zenon
    <3>2. Body(h)[i] = h[i - 1] \o s[i]
      BY <3>0, Zenon
    <3> HIDE DEF Body
    <3> QED BY <2>2, <2>5, <3>1, <3>2, Zenon
  <2> DEFINE P == {i \in Nat : i + 1 <= n => h[i + 1] = g[i + 1]}
  <2>6. 0 \in P
    BY <2>4
  <2>7. \A i \in Nat : i \in P => i + 1 \in P
    <3> SUFFICES ASSUME NEW i \in Nat, (i + 1) + 1 <= n, h[i + 1] = g[i + 1]
                 PROVE  h[(i + 1) + 1] = g[(i + 1) + 1]
      OBVIOUS
    <3>1. (i + 1) + 1 \in 2..n /\ ((i + 1) + 1) - 1 = i + 1
      BY NextIndex
    <3> QED BY <2>5, <3>1, Zenon
  <2> HIDE DEF P
  <2>8. n - 1 \in P
    <3>1. n - 1 \in Nat
      BY <2>0
    <3> QED BY <2>6, <2>7, <3>1, NatSet
  <2>9. h[(n - 1) + 1] = g[(n - 1) + 1] /\ (n - 1) + 1 = n
    BY <2>0, <2>8 DEF P
  <2> QED BY <2>3, <2>9, Zenon
<1> QED BY <1>1, <1>2

LEMMA FlattenAppend ==
  ASSUME NEW S, NEW s \in Seq(Seq(S)), NEW x \in Seq(S)
  PROVE  /\ FlattenSeq(s) \in Seq(S)
         /\ FlattenSeq(Append(s, x)) = FlattenSeq(s) \o x
<1>0. PICK n \in Nat : n = Len(s)
  OBVIOUS
<1> DEFINE t == Append(s, x)
           f == [i \in 1..(n + 1) |-> [y \in Seq(S) |-> y \o t[i]]]
<1>1. t \in Seq(Seq(S)) /\ Len(t) = n + 1 /\ t[n + 1] = x /\ \A i \in 1..n : t[i] = s[i]
  BY <1>0
<1> HIDE DEF t
<1>2. f \in [1..(n + 1) -> [Seq(S) -> Seq(S)]]
  BY <1>1
<1>3. <<>> \in Seq(S) /\ n + 1 \in Nat
  OBVIOUS
<1>4. PICK g : Recursive(g, Seq(S), <<>>, n + 1, f)
  <2> HIDE DEF f
  <2> QED BY <1>2, <1>3, Recursion
<1>5. /\ g \in [0..(n + 1) -> Seq(S)] /\ g[0] = <<>>
      /\ \A i \in 1..(n + 1) : g[i] = g[i - 1] \o t[i]
  <2>1. /\ g \in [0..(n + 1) -> Seq(S)] /\ g[0] = <<>>
        /\ \A i \in 1..(n + 1) : g[i] = f[i][g[i - 1]]
    <3> HIDE DEF f
    <3> QED BY <1>4 DEF Recursive
  <2>2. ASSUME NEW i \in 1..(n + 1) PROVE f[i][g[i - 1]] = g[i - 1] \o t[i]
    <3>1. g[i - 1] \in Seq(S)
      BY <2>1
    <3> QED BY <3>1
  <2> HIDE DEF f
  <2> QED BY <2>1, <2>2
<1> HIDE DEF f
<1>6. FlattenSeq(t) = g[n + 1]
  BY <1>1, <1>3, <1>5, FlattenBy
<1>7. FlattenSeq(s) = g[n]
  <2> DEFINE r == [i \in 0..n |-> g[i]]
  <2>1. r \in [0..n -> Seq(S)] /\ r[0] = <<>>
    BY <1>5
  <2>2. ASSUME NEW i \in 1..n PROVE r[i] = r[i - 1] \o s[i]
    <3>1. i \in 1..(n + 1) /\ i \in 0..n /\ i - 1 \in 0..n
      OBVIOUS
    <3>2. r[i] = g[i] /\ r[i - 1] = g[i - 1]
      BY <3>1, Zenon
    <3> HIDE DEF r
    <3> QED BY <1>1, <1>5, <3>1, <3>2, Zenon
  <2>3. r[n] = g[n]
    OBVIOUS
  <2> HIDE DEF r
  <2>4. FlattenSeq(s) = r[n]
    BY <1>0, <2>1, <2>2, FlattenBy
  <2> QED BY <2>3, <2>4
<1>8. g[n + 1] = g[n] \o x /\ g[n] \in Seq(S)
  <2>1. n + 1 \in 1..(n + 1) /\ (n + 1) - 1 = n /\ n \in 0..(n + 1)
    OBVIOUS
  <2>2. g[n + 1] = g[(n + 1) - 1] \o t[n + 1]
    BY <1>5, <2>1
  <2> QED BY <1>1, <1>5, <2>1, <2>2
<1> QED BY <1>6, <1>7, <1>8 DEF t

LEMMA FlattenNone ==
  ASSUME NEW s, s = <<>>
  PROVE  FlattenSeq(s) = <<>>
BY DEF FlattenSeq

-----------------------------------------------------------------------------
(* What the calls add.                                                     *)
LEMMA Chars ==
  /\ {"CR", "LF", ":", "/", "200", "Path", "Set-Cookie"} \subseteq Char
  /\ Attributes[1] \in Char /\ Attributes[2] \in Char /\ Attributes[3] \in Char /\ Attributes[4] \in Char
BY PageAssumption DEF ToSet, Attributes

LEMMA CStringOf ==
  ASSUME NEW S, NEW s \in Seq(S)
  PROVE  CString(s) \in Seq(S)
<1> DEFINE I == {i \in 1..Len(s) : s[i] = "NUL"}
<1>1. CASE Contains(s, "NUL")
  <2>1. I # {}
    BY <1>1 DEF Contains
  <2>2. SelectInSeq(s, LAMBDA c : c = "NUL") = Min(I)
    BY <2>1, Zenon DEF SelectInSeq
  <2>3. Min(I) \in I
    <3>1. \E x \in I : \A y \in I : x <= y
      <4>1. I \subseteq Nat
        OBVIOUS
      <4> HIDE DEF I
      <4> QED BY <2>1, <4>1, LeastOne
    <3> QED BY <3>1, Zenon DEF Min
  <2>4. CString(s) = SubSeq(s, 1, Min(I) - 1)
    BY <1>1, <2>2, Zenon DEF CString
  <2> DEFINE m == Min(I)
  <2>5. m \in 1..Len(s)
    BY <2>3
  <2> HIDE DEF m
  <2>6. SubSeq(s, 1, m - 1) \in Seq(S)
    BY <2>5
  <2> QED BY <2>4, <2>6, Zenon DEF m
<1>2. CASE ~Contains(s, "NUL")
  BY <1>2, Zenon DEF CString
<1> QED BY <1>1, <1>2

Calls ==
  [call : {"header"}, line : Seq(Char)]
  \cup [call : {"status"}, status : Char]
  \cup [call : {"cookie"}, value : Seq(Char), options : [path : Char \cup {""}, attributes : SUBSET Char]]
  \cup [call : {"print"}, data : Seq(Char)]
  \cup [call : {"throw"}]

LEMMA PairType ==
  ASSUME NEW S, NEW c \in S, NEW d \in S
  PROVE  <<c, d>> \in Seq(S)
OBVIOUS

LEMMA OneOrNone ==
  ASSUME NEW S, NEW c \in S, NEW A
  PROVE  (IF c \in A THEN <<c>> ELSE <<>>) \in Seq(S)
OBVIOUS

LEMMA JoinType ==
  ASSUME NEW S
  PROVE  \A x, y \in Seq(S) : x \o y \in Seq(S)
OBVIOUS

LEMMA JoinLength ==
  ASSUME NEW S, NEW x \in Seq(S), NEW y \in Seq(S)
  PROVE  x \o y \in Seq(S) /\ Len(x \o y) = Len(x) + Len(y)
OBVIOUS

Longer(g, h, n, x) ==
  /\ g = [i \in 1..(n + 1) |-> g[i]]
  /\ \A i \in 1..n : g[i] = h[i]
  /\ g[n + 1] = x

LEMMA OneMore ==
  ASSUME NEW S, NEW n \in Nat, NEW h \in Seq(S), Len(h) = n, NEW x \in S,
         NEW g, Longer(g, h, n, x)
  PROVE  g = Append(h, x)
<1>1. g \in Seq(S) /\ Len(g) = n + 1
  <2>1. ASSUME NEW i \in 1..(n + 1) PROVE g[i] \in S
    <3>1. CASE i = n + 1
      BY <3>1 DEF Longer
    <3>2. CASE i \in 1..n
      <4>1. g[i] = h[i]
        BY <3>2, Zenon DEF Longer
      <4>2. h[i] \in S
        BY <3>2
      <4> QED BY <4>1, <4>2
    <3> QED BY <3>1, <3>2
  <2>2. g = [i \in 1..(n + 1) |-> g[i]]
    BY Zenon DEF Longer
  <2> QED BY <2>1, <2>2
<1>2. Append(h, x) \in Seq(S) /\ Len(Append(h, x)) = n + 1
  OBVIOUS
<1>3. ASSUME NEW i \in 1..(n + 1) PROVE g[i] = Append(h, x)[i]
  <2>1. CASE i = n + 1
    <3>1. Append(h, x)[n + 1] = x
      OBVIOUS
    <3> QED BY <2>1, <3>1, Zenon DEF Longer
  <2>2. CASE i # n + 1
    <3>1. i \in 1..n /\ Append(h, x)[i] = h[i]
      BY <2>2
    <3> QED BY <3>1, Zenon DEF Longer
  <2> QED BY <2>1, <2>2
<1> QED BY <1>1, <1>2, <1>3, SeqEqual

LEMMA JoinAgain ==
  ASSUME NEW S, NEW x \in Seq(S), NEW y \in Seq(S), NEW z \in Seq(S)
  PROVE  (x \o y) \o z = x \o (y \o z) /\ x \o (y \o z) \in Seq(S)
OBVIOUS

LEMMA CookieLineType ==
  ASSUME NEW value \in Seq(Char), NEW options \in [path : Char \cup {""}, attributes : SUBSET Char]
  PROVE  CookieLine(value, options) \in Seq(Char)
<1> DEFINE Attribute(i) == IF Attributes[i] \in options.attributes THEN <<Attributes[i]>> ELSE <<>>
           path == <<"Path", IF options.path = "" THEN "/" ELSE options.path>>
           name == <<"Set-Cookie", ":">>
<1>2. path \in Seq(Char) /\ name \in Seq(Char) /\ CString(value) \in Seq(Char)
  <2> DEFINE p == IF options.path = "" THEN "/" ELSE options.path
  <2>1. p \in Char
    BY Chars
  <2> HIDE DEF p
  <2>2. <<"Path", p>> \in Seq(Char) /\ <<"Set-Cookie", ":">> \in Seq(Char)
    <3>1. "Path" \in Char /\ "Set-Cookie" \in Char /\ ":" \in Char
      BY Chars
    <3> QED BY <2>1, <3>1, PairType, Zenon
  <2> QED BY <2>2, CStringOf DEF p
<1>3. \A x, y \in Seq(Char) : x \o y \in Seq(Char)
  BY JoinType
<1>4. CookieLine(value, options) =
        name \o CString(value) \o path \o Attribute(1) \o Attribute(2) \o Attribute(3) \o Attribute(4)
  BY Zenon DEF CookieLine
<1>5. Attribute(1) \in Seq(Char) /\ Attribute(2) \in Seq(Char) /\ Attribute(3) \in Seq(Char) /\ Attribute(4) \in Seq(Char)
  <2>1. ASSUME NEW c \in Char PROVE (IF c \in options.attributes THEN <<c>> ELSE <<>>) \in Seq(Char)
    BY OneOrNone
  <2> QED BY <2>1, Chars
<1> HIDE DEF Attribute, path, name
<1>6. name \o CString(value) \in Seq(Char)
  BY <1>2, <1>3, Zenon
<1>7. name \o CString(value) \o path \in Seq(Char)
  BY <1>2, <1>3, <1>6, Zenon
<1>8. name \o CString(value) \o path \o Attribute(1) \in Seq(Char)
  BY <1>3, <1>5, <1>7, Zenon
<1>9. name \o CString(value) \o path \o Attribute(1) \o Attribute(2) \in Seq(Char)
  BY <1>3, <1>5, <1>8, Zenon
<1>10. name \o CString(value) \o path \o Attribute(1) \o Attribute(2) \o Attribute(3) \in Seq(Char)
  BY <1>3, <1>5, <1>9, Zenon
<1> QED BY <1>3, <1>4, <1>5, <1>10, Zenon

LEMMA PartTypes ==
  ASSUME NEW made \in Calls
  PROVE  HeaderOf(made) \in Seq(Char) /\ BodyOf(made) \in Seq(Char)
<1>1. CASE made.call = "header"
  <2>1. made.line \in Seq(Char)
    BY <1>1 DEF Calls
  <2>2. Held(made.line, LineRoom - 1) \in Seq(Char) /\ CRLF \in Seq(Char)
    <3>1. LineRoom - 1 \in Nat
      BY ResponseAssumption
    <3>2. CRLF \in Seq(Char)
      BY Chars DEF CRLF
    <3> QED BY <2>1, <3>1, <3>2, HeldType
  <2>3. HeaderOf(made) = Held(made.line, LineRoom - 1) \o CRLF
    BY <1>1 DEF HeaderOf
  <2>4. BodyOf(made) = <<>>
    BY <1>1 DEF BodyOf
  <2> QED BY <2>2, <2>3, <2>4
<1>2. CASE made.call = "cookie"
  <2>1. made.value \in Seq(Char) /\ made.options \in [path : Char \cup {""}, attributes : SUBSET Char]
    BY <1>2 DEF Calls
  <2>2. CookieLine(made.value, made.options) \in Seq(Char) /\ CRLF \in Seq(Char)
    <3>1. CRLF \in Seq(Char)
      BY Chars DEF CRLF
    <3> QED BY <2>1, <3>1, CookieLineType
  <2>3. HeaderOf(made) = CookieLine(made.value, made.options) \o CRLF
    BY <1>2 DEF HeaderOf
  <2>4. BodyOf(made) = <<>>
    BY <1>2 DEF BodyOf
  <2> QED BY <2>2, <2>3, <2>4
<1>3. CASE made.call = "print"
  <2>1. made.data \in Seq(Char)
    BY <1>3 DEF Calls
  <2>2. HeaderOf(made) = <<>> /\ BodyOf(made) = made.data
    BY <1>3 DEF HeaderOf, BodyOf
  <2> QED BY <2>1, <2>2
<1>4. CASE made.call \in {"status", "throw"}
  BY <1>4 DEF HeaderOf, BodyOf
<1> QED BY <1>1, <1>2, <1>3, <1>4 DEF Calls

-----------------------------------------------------------------------------
(* What is added to a buffer is in it, after what was there.               *)
LEMMA Added ==
  ASSUME NEW S, NEW s \in Seq(S), NEW t \in Seq(S), NEW n \in Nat,
         n = Len(s) + Len(t) + 1,
         NEW size \in Nat, size >= n
  PROVE  Held(s \o t, size) = s \o t /\ Len(s \o t) < size
<1>1. s \o t \in Seq(S) /\ Len(s \o t) = Len(s) + Len(t)
  OBVIOUS
<1>2. Len(s \o t) <= size /\ Len(s \o t) < size
  BY <1>1
<1> QED BY <1>1, <1>2, HeldWhole

Responses ==
  [headers : Seq(Char), headers_cap : Nat \ {0}, body : Seq(Char), body_cap : Nat \ {0},
   status : Char, content_type_set : BOOLEAN]

LEMMA HeaderAdded ==
  ASSUME NEW r \in Responses, NEW line \in Seq(Char)
  PROVE  LET q == AppendHeader(r, line)
         IN /\ q \in Responses
            /\ q.headers = r.headers \o (line \o CRLF)
            /\ Len(q.headers) < q.headers_cap
            /\ q.body = r.body /\ q.body_cap = r.body_cap
<1> DEFINE n == Len(r.headers) + Len(line) + 3
           cap == Grown(r.headers_cap, n)
           headers == r.headers \o (line \o CRLF)
<1>1. /\ r.headers \in Seq(Char) /\ r.headers_cap \in Nat \ {0}
  BY DEF Responses
<1>2. CRLF \in Seq(Char) /\ Len(CRLF) = 2
  <2>1. "CR" \in Char /\ "LF" \in Char
    BY Chars
  <2> QED BY <2>1, PairType DEF CRLF
<1>3. n \in Nat /\ line \o CRLF \in Seq(Char) /\ n = Len(r.headers) + Len(line \o CRLF) + 1
  <2>1. line \o CRLF \in Seq(Char) /\ Len(line \o CRLF) = Len(line) + 2
    BY <1>2, JoinLength
  <2>2. PICK l \in Nat : l = Len(line)
    OBVIOUS
  <2>3. PICK m \in Nat : m = Len(r.headers)
    BY <1>1
  <2>4. n = m + l + 3
    BY <2>2, <2>3, Zenon
  <2>5. Len(line \o CRLF) = l + 2
    BY <2>1, <2>2, Zenon
  <2> HIDE DEF n
  <2>6. n = m + (l + 2) + 1 /\ n \in Nat
    BY <2>4
  <2> QED BY <2>1, <2>3, <2>5, <2>6, Zenon
<1>4. cap \in Nat \ {0} /\ cap >= n
  <2> HIDE DEF n
  <2> QED BY <1>1, <1>3, GrownEnough
<1>5. (r.headers \o line) \o CRLF = headers /\ headers \in Seq(Char)
  BY <1>1, <1>2, JoinAgain
<1>6. AppendHeader(r, line) = [r EXCEPT !.headers_cap = cap, !.headers = Held(headers, cap)]
  <2>1. AppendHeader(r, line) =
          [r EXCEPT !.headers_cap = cap, !.headers = Held((r.headers \o line) \o CRLF, cap)]
    BY DEF AppendHeader
  <2> HIDE DEF cap, headers
  <2> QED BY <1>5, <2>1, Zenon
<1> HIDE DEF n, cap
<1>7. Held(headers, cap) = headers /\ Len(headers) < cap
  BY <1>1, <1>3, <1>4, Added
<1> HIDE DEF headers
<1>8. AppendHeader(r, line) = [r EXCEPT !.headers_cap = cap, !.headers = headers]
  BY <1>6, <1>7, Zenon
<1> QED BY <1>4, <1>5, <1>7, <1>8 DEF Responses, headers

LEMMA BodyAdded ==
  ASSUME NEW r \in Responses, NEW data \in Seq(Char)
  PROVE  LET q == AppendBody(r, data)
         IN /\ q \in Responses
            /\ q.body = r.body \o data
            /\ Len(q.body) < q.body_cap
            /\ q.headers = r.headers /\ q.headers_cap = r.headers_cap
<1> DEFINE n == Len(r.body) + Len(data) + 1
           cap == Grown(r.body_cap, n)
           body == r.body \o data
<1>1. r.body \in Seq(Char) /\ r.body_cap \in Nat \ {0}
  BY DEF Responses
<1>2. n \in Nat /\ n = Len(r.body) + Len(data) + 1 /\ body \in Seq(Char)
  BY <1>1
<1>3. cap \in Nat \ {0} /\ cap >= n
  <2> HIDE DEF n
  <2> QED BY <1>1, <1>2, GrownEnough
<1>4. AppendBody(r, data) = [r EXCEPT !.body_cap = cap, !.body = Held(body, cap)]
  BY DEF AppendBody
<1> HIDE DEF n, cap
<1>5. Held(body, cap) = body /\ Len(body) < cap
  BY <1>1, <1>2, <1>3, Added
<1> HIDE DEF body
<1>6. AppendBody(r, data) = [r EXCEPT !.body_cap = cap, !.body = body]
  BY <1>4, <1>5, Zenon
<1> QED BY <1>2, <1>3, <1>5, <1>6 DEF Responses, body

-----------------------------------------------------------------------------
Heads(calls) == [i \in 1..Len(calls) |-> HeaderOf(calls[i])]
Bodies(calls) == [i \in 1..Len(calls) |-> BodyOf(calls[i])]

(* One piece for each element.                                             *)
Pieces(F, c) == FlattenSeq([i \in 1..Len(c) |-> F[c[i]]])

LEMMA PiecesStep ==
  ASSUME NEW C, NEW calls \in Seq(C), NEW made \in C, NEW S, NEW F \in [C -> Seq(S)]
  PROVE  /\ Pieces(F, calls) \in Seq(S)
         /\ Pieces(F, Append(calls, made)) = Pieces(F, calls) \o F[made]
<1>0. PICK n \in Nat : n = Len(calls)
  OBVIOUS
<1> DEFINE more == Append(calls, made)
<1>1. Len(more) = n + 1 /\ more[n + 1] = made /\ \A i \in 1..n : more[i] = calls[i] /\ calls[i] \in C
  BY <1>0
<1> HIDE DEF more
<1> DEFINE h == [i \in 1..n |-> F[calls[i]]]
           g == [i \in 1..(n + 1) |-> F[more[i]]]
<1>2. h \in Seq(Seq(S)) /\ Len(h) = n /\ F[made] \in Seq(S)
  BY <1>1
<1>3. (\A i \in 1..n : g[i] = h[i]) /\ g[n + 1] = F[made] /\ g = [i \in 1..(n + 1) |-> g[i]]
  BY <1>1
<1>4. Pieces(F, calls) = FlattenSeq(h) /\ Pieces(F, more) = FlattenSeq(g)
  BY <1>0, <1>1, Zenon DEF Pieces
<1> HIDE DEF g, h
<1>5. Longer(g, h, n, F[made])
  BY <1>3, Zenon DEF Longer
<1>6. g = Append(h, F[made])
  BY <1>2, <1>5, OneMore
<1>7. FlattenSeq(h) \in Seq(S) /\ FlattenSeq(Append(h, F[made])) = FlattenSeq(h) \o F[made]
  BY <1>2, FlattenAppend
<1> QED BY <1>4, <1>6, <1>7, Zenon DEF more

LEMMA PartsStep ==
  ASSUME NEW calls \in Seq(Calls), NEW made \in Calls
  PROVE  /\ FlattenSeq(Heads(calls)) \in Seq(Char)
         /\ FlattenSeq(Bodies(calls)) \in Seq(Char)
         /\ FlattenSeq(Heads(Append(calls, made))) = FlattenSeq(Heads(calls)) \o HeaderOf(made)
         /\ FlattenSeq(Bodies(Append(calls, made))) = FlattenSeq(Bodies(calls)) \o BodyOf(made)
<1> DEFINE H == [c \in Calls |-> HeaderOf(c)]
           B == [c \in Calls |-> BodyOf(c)]
<1>1. H \in [Calls -> Seq(Char)] /\ B \in [Calls -> Seq(Char)]
  BY PartTypes
<1>2. ASSUME NEW c \in Seq(Calls) PROVE FlattenSeq(Heads(c)) = Pieces(H, c) /\ FlattenSeq(Bodies(c)) = Pieces(B, c)
  <2>1. /\ [i \in 1..Len(c) |-> H[c[i]]] = [i \in 1..Len(c) |-> HeaderOf(c[i])]
        /\ [i \in 1..Len(c) |-> B[c[i]]] = [i \in 1..Len(c) |-> BodyOf(c[i])]
    <3>1. \A i \in 1..Len(c) : H[c[i]] = HeaderOf(c[i]) /\ B[c[i]] = BodyOf(c[i])
      OBVIOUS
    <3> HIDE DEF H, B
    <3> QED BY <3>1
  <2> HIDE DEF H, B
  <2> QED BY <2>1, Zenon DEF Heads, Bodies, Pieces
<1>3. Append(calls, made) \in Seq(Calls) /\ H[made] = HeaderOf(made) /\ B[made] = BodyOf(made)
  OBVIOUS
<1> HIDE DEF H, B
<1>4. ASSUME NEW F \in [Calls -> Seq(Char)]
      PROVE  Pieces(F, calls) \in Seq(Char) /\ Pieces(F, Append(calls, made)) = Pieces(F, calls) \o F[made]
  BY PiecesStep
<1> QED BY <1>1, <1>2, <1>3, <1>4, Zenon

(* The response is as the calls that were made.                            *)
AsMade ==
  /\ kind = "page"
  /\ said \in Seq(Calls)
  /\ text \in Responses
  /\ Len(text.headers) < text.headers_cap
  /\ Len(text.body) < text.body_cap
  /\ text.headers = FlattenSeq(Heads(said))
  /\ text.body = FlattenSeq(Bodies(said))

LEMMA MadeInit ==
  ASSUME PageInit
  PROVE  AsMade
<1>1. kind = "page" /\ said = <<>> /\ text = Fresh
  BY DEF PageInit
<1>2. /\ text.headers = <<>> /\ text.body = <<>> /\ text.headers_cap = HeaderSpace
      /\ text.body_cap = BodySpace /\ text \in Responses
  <2>1. "200" \in Char
    BY Chars
  <2> QED BY <1>1, <2>1, ResponseAssumption DEF Fresh, Responses
<1>3. Heads(said) = <<>> /\ Bodies(said) = <<>> /\ said \in Seq(Calls)
  BY <1>1 DEF Heads, Bodies
<1>4. FlattenSeq(Heads(said)) = <<>> /\ FlattenSeq(Bodies(said)) = <<>>
  BY <1>3, FlattenNone
<1> QED BY <1>1, <1>2, <1>3, <1>4, ResponseAssumption DEF AsMade

(* A call that adds what it says to the buffers.                           *)
LEMMA MadeStep ==
  ASSUME AsMade, NEW made \in Calls, NEW response \in Responses, Call(made, response),
         Len(response.headers) < response.headers_cap,
         Len(response.body) < response.body_cap,
         response.headers = text.headers \o HeaderOf(made),
         response.body = text.body \o BodyOf(made)
  PROVE  AsMade'
<1>1. said \in Seq(Calls) /\ kind' = "page" /\ said' = Append(said, made) /\ text' = response
  BY DEF AsMade, Call
<1>2. said' \in Seq(Calls)
  BY <1>1
<1>3. /\ FlattenSeq(Heads(said')) = FlattenSeq(Heads(said)) \o HeaderOf(made)
      /\ FlattenSeq(Bodies(said')) = FlattenSeq(Bodies(said)) \o BodyOf(made)
  BY <1>1, PartsStep
<1> QED BY <1>1, <1>2, <1>3 DEF AsMade

LEMMA MadeNext ==
  ASSUME AsMade, PageNext
  PROVE  AsMade'
<1>1. text \in Responses /\ text.headers \in Seq(Char) /\ text.body \in Seq(Char)
      /\ Len(text.headers) < text.headers_cap /\ Len(text.body) < text.body_cap
  BY DEF AsMade, Responses
<1>2. text.headers \o <<>> = text.headers /\ text.body \o <<>> = text.body
  BY <1>1
<1>3. ASSUME NEW name \in Char, NEW value \in Seq(Char), CallSetHeader(name, value)
      PROVE  AsMade'
  <2> DEFINE line == <<name, ":">> \o CString(value)
             made == [call |-> "header", line |-> line]
             cut == Held(line, LineRoom - 1)
             q == AppendHeader(text, cut)
             response == [q EXCEPT !.content_type_set = @ \/ name \in ContentType]
  <2>1. line \in Seq(Char)
    <3>1. ":" \in Char
      BY Chars
    <3> QED BY <3>1, PairType, JoinType, CStringOf
  <2>2. Call(made, response)
    BY <1>3 DEF CallSetHeader, SetHeader
  <2> HIDE DEF line
  <2>3. made \in Calls /\ HeaderOf(made) = cut \o CRLF /\ BodyOf(made) = <<>>
    BY <2>1 DEF Calls, HeaderOf, BodyOf
  <2>4. cut \in Seq(Char)
    <3>1. LineRoom - 1 \in Nat
      BY ResponseAssumption
    <3> QED BY <2>1, <3>1, HeldType
  <2> HIDE DEF cut, made
  <2>5. /\ q \in Responses
        /\ q.headers = text.headers \o (cut \o CRLF)
        /\ Len(q.headers) < q.headers_cap
        /\ q.body = text.body /\ q.body_cap = text.body_cap
    BY <1>1, <2>4, HeaderAdded
  <2> HIDE DEF q
  <2>6. /\ response \in Responses
        /\ response.headers = q.headers /\ response.headers_cap = q.headers_cap
        /\ response.body = q.body /\ response.body_cap = q.body_cap
    BY <2>5 DEF Responses
  <2> HIDE DEF response
  <2>7. /\ response.headers = text.headers \o HeaderOf(made)
        /\ response.body = text.body \o BodyOf(made)
        /\ Len(response.headers) < response.headers_cap
        /\ Len(response.body) < response.body_cap
    BY <1>1, <1>2, <2>3, <2>5, <2>6, Zenon
  <2> QED BY <2>2, <2>3, <2>6, <2>7, MadeStep
<1>4. ASSUME NEW status \in Char, CallSetStatus(status)
      PROVE  AsMade'
  <2> DEFINE made == [call |-> "status", status |-> status]
             response == [text EXCEPT !.status = status]
  <2>1. Call(made, response)
    BY <1>4 DEF CallSetStatus, SetStatus
  <2>2. made \in Calls /\ HeaderOf(made) = <<>> /\ BodyOf(made) = <<>>
    BY DEF Calls, HeaderOf, BodyOf
  <2>3. /\ response \in Responses
        /\ response.headers = text.headers /\ response.headers_cap = text.headers_cap
        /\ response.body = text.body /\ response.body_cap = text.body_cap
    BY <1>1 DEF Responses
  <2> HIDE DEF made, response
  <2>4. /\ response.headers = text.headers \o HeaderOf(made)
        /\ response.body = text.body \o BodyOf(made)
        /\ Len(response.headers) < response.headers_cap
        /\ Len(response.body) < response.body_cap
    BY <1>1, <1>2, <2>2, <2>3, Zenon
  <2> QED BY <2>1, <2>2, <2>3, <2>4, MadeStep
<1>5. ASSUME NEW value \in Seq(Char), NEW options \in [path : Char \cup {""}, attributes : SUBSET Char],
             CallSetCookie(value, options)
      PROVE  AsMade'
  <2> DEFINE made == [call |-> "cookie", value |-> value, options |-> options]
             line == CookieLine(value, options)
             response == AppendHeader(text, line)
  <2>1. Call(made, response)
    BY <1>5 DEF CallSetCookie, SetCookie
  <2>2. made \in Calls /\ HeaderOf(made) = line \o CRLF /\ BodyOf(made) = <<>>
    BY DEF Calls, HeaderOf, BodyOf
  <2>3. line \in Seq(Char)
    BY CookieLineType
  <2> HIDE DEF made, line
  <2>4. /\ response \in Responses
        /\ response.headers = text.headers \o (line \o CRLF)
        /\ Len(response.headers) < response.headers_cap
        /\ response.body = text.body /\ response.body_cap = text.body_cap
    BY <1>1, <2>3, HeaderAdded
  <2> HIDE DEF response
  <2>5. /\ response.headers = text.headers \o HeaderOf(made)
        /\ response.body = text.body \o BodyOf(made)
        /\ Len(response.body) < response.body_cap
    BY <1>1, <1>2, <2>2, <2>4, Zenon
  <2> QED BY <2>1, <2>2, <2>4, <2>5, MadeStep
<1>6. ASSUME NEW str \in Seq(Char), CallPrint(str)
      PROVE  AsMade'
  <2> DEFINE data == CString(str)
             made == [call |-> "print", data |-> data]
             response == AppendBody(text, data)
  <2>1. Call(made, response)
    BY <1>6 DEF CallPrint, PrintText
  <2>2. data \in Seq(Char)
    BY CStringOf
  <2> HIDE DEF data
  <2>3. made \in Calls /\ HeaderOf(made) = <<>> /\ BodyOf(made) = data
    BY <2>2 DEF Calls, HeaderOf, BodyOf
  <2>4. /\ response \in Responses
        /\ response.body = text.body \o data
        /\ Len(response.body) < response.body_cap
        /\ response.headers = text.headers /\ response.headers_cap = text.headers_cap
    BY <1>1, <2>2, BodyAdded
  <2> HIDE DEF made, response
  <2>5. /\ response.headers = text.headers \o HeaderOf(made)
        /\ response.body = text.body \o BodyOf(made)
        /\ Len(response.headers) < response.headers_cap
    BY <1>1, <1>2, <2>3, <2>4, Zenon
  <2> QED BY <2>1, <2>3, <2>4, <2>5, MadeStep
<1>7. ASSUME CallThrow
      PROVE  AsMade'
  <2> DEFINE made == [call |-> "throw"]
  <2>1. Call(made, text)
    BY <1>7 DEF CallThrow
  <2>2. made \in Calls /\ HeaderOf(made) = <<>> /\ BodyOf(made) = <<>>
    BY DEF Calls, HeaderOf, BodyOf
  <2> HIDE DEF made
  <2>3. /\ text.headers = text.headers \o HeaderOf(made)
        /\ text.body = text.body \o BodyOf(made)
    BY <1>2, <2>2, Zenon
  <2> QED BY <1>1, <2>1, <2>2, <2>3, MadeStep
<1>8. ASSUME NEW value \in Seq(Char), NEW path \in Char \cup {""}, NEW attributes \in SUBSET Char,
             CallSetCookie(value, [path |-> path, attributes |-> attributes])
      PROVE  AsMade'
  BY <1>5, <1>8
<1> QED BY <1>3, <1>4, <1>6, <1>7, <1>8 DEF PageNext

(* Whatever a script sets and prints, and of whatever length it is, the    *)
(* buffers of the response have room for it, and hold it and nothing else  *)
(* (response_append_header, response_append_body).                         *)
THEOREM BuffersCorrect == PageSpec => []BuffersHold
<1>1. PageInit => AsMade
  BY MadeInit
<1>2. AsMade /\ [PageNext]_<<kind, text, said>> => AsMade'
  <2> SUFFICES ASSUME AsMade, [PageNext]_<<kind, text, said>> PROVE AsMade'
    OBVIOUS
  <2>1. CASE PageNext
    BY <2>1, MadeNext
  <2>2. CASE UNCHANGED <<kind, text, said>>
    BY <2>2 DEF AsMade
  <2> QED BY <2>1, <2>2
<1>3. AsMade => BuffersHold
  BY Zenon DEF AsMade, BuffersHold, Heads, Bodies
<1> QED BY <1>1, <1>2, <1>3, PTL DEF PageSpec

-----------------------------------------------------------------------------
(* Two functions that begin alike and go on alike.                         *)
Alike(g, h, m) ==
  /\ h[0] = g[0]
  /\ \A i \in 1..m : h[i - 1] = g[i - 1] => h[i] = g[i]

LEMMA AlikeToTheEnd ==
  ASSUME NEW m \in Nat, NEW g, NEW h, Alike(g, h, m)
  PROVE  h[m] = g[m]
<1> DEFINE P == {i \in Nat : i <= m => h[i] = g[i]}
<1>1. 0 \in P
  BY DEF Alike
<1>2. \A i \in Nat : i \in P => i + 1 \in P
  <2> SUFFICES ASSUME NEW i \in Nat, i + 1 <= m, h[i] = g[i] PROVE h[i + 1] = g[i + 1]
    OBVIOUS
  <2>1. i + 1 \in 1..m /\ (i + 1) - 1 = i
    OBVIOUS
  <2> QED BY <2>1, Zenon DEF Alike
<1> HIDE DEF P
<1>3. m \in P
  BY <1>1, <1>2, NatSet
<1> QED BY <1>3 DEF P

(* The largest and the smallest of some numbers.                           *)
LEMMA MaxIs ==
  ASSUME NEW S, S \subseteq Int, NEW m \in S, \A y \in S : y <= m
  PROVE  Max(S) = m
<1>1. m \in S /\ \A y \in S : m >= y
  OBVIOUS
<1>2. Max(S) \in S /\ \A y \in S : Max(S) >= y
  BY <1>1, Zenon DEF Max
<1>3. PICK x \in Int : x = Max(S)
  BY <1>2
<1> QED BY <1>1, <1>2, <1>3

LEMMA MinIs ==
  ASSUME NEW S, S \subseteq Int, NEW m \in S, \A y \in S : y >= m
  PROVE  Min(S) = m
<1>1. m \in S /\ \A y \in S : m <= y
  OBVIOUS
<1>2. Min(S) \in S /\ \A y \in S : Min(S) <= y
  BY <1>1, Zenon DEF Min
<1>3. PICK x \in Int : x = Min(S)
  BY <1>2
<1> QED BY <1>1, <1>2, <1>3

(* The last of some places, when there is one place more to look at.       *)
OneMorePlace(S, T, n) == S \subseteq 1..n /\ (T = S \/ T = S \cup {n + 1})

LEMMA LastPlace ==
  ASSUME NEW n \in Nat, NEW S, NEW T, OneMorePlace(S, T, n)
  PROVE  /\ n + 1 \in T => Max(T) = n + 1 /\ T # {}
         /\ n + 1 \notin T => T = S
         /\ S # {} => Max(S) \in S
<1> USE DEF OneMorePlace
<1>1. n + 1 \in T => Max(T) = n + 1
  <2>1. SUFFICES ASSUME n + 1 \in T PROVE Max(T) = n + 1
    OBVIOUS
  <2>2. ASSUME NEW y \in T PROVE y \in Int /\ y <= n + 1
    <3>1. y \in 1..n \/ y = n + 1
      OBVIOUS
    <3> QED BY <3>1
  <2> QED BY <2>1, <2>2, MaxIs
<1>2. n + 1 \notin T => T = S
  OBVIOUS
<1>3. S # {} => Max(S) \in S
  <2> DEFINE D == {n - x : x \in S}
  <2>1. SUFFICES ASSUME S # {} PROVE Max(S) \in S
    OBVIOUS
  <2>2. D \subseteq Nat /\ D # {}
    <3>1. \A x \in S : n - x \in Nat
      OBVIOUS
    <3>2. PICK x : x \in S
      BY <2>1
    <3>3. n - x \in D
      BY <3>2
    <3> QED BY <3>1, <3>3
  <2> HIDE DEF D
  <2>3. PICK d \in D : \A y \in D : d <= y
    BY <2>2, LeastOne
  <2>4. PICK m \in S : d = n - m
    BY <2>3 DEF D
  <2>5. ASSUME NEW y \in S PROVE y <= m
    <3>1. n - y \in D
      BY DEF D
    <3>2. n - m <= n - y
      BY <2>3, <2>4, <3>1
    <3> QED BY <3>2
  <2>6. S \subseteq Int
    OBVIOUS
  <2>7. Max(S) = m
    BY <2>5, <2>6, MaxIs
  <2> QED BY <2>7
<1> QED BY <1>1, <1>2, <1>3

-----------------------------------------------------------------------------
(* Lines of ini files.                                                     *)
Line == [key : Key, value : Value]

Config == [value : [Keys -> Value \cup {Default}], extensions : Seq(Value)]

(* One line after the other is read.                                       *)
LEMMA SettingType ==
  ASSUME NEW cfg \in Config, NEW line \in Line
  PROVE  Setting(cfg, line) \in Config
<1>1. line.value \in Value
  BY DEF Line
<1>2. CASE line.key \in Keys
  BY <1>1, <1>2 DEF Setting, Config
<1>3. CASE line.key \notin Keys /\ line.key = "extension" /\ Len(cfg.extensions) < MAX_EXTENSIONS
  <2>1. Append(cfg.extensions, line.value) \in Seq(Value)
    BY <1>1 DEF Config
  <2> QED BY <1>3, <2>1 DEF Setting, Config
<1>4. CASE line.key \notin Keys /\ ~(line.key = "extension" /\ Len(cfg.extensions) < MAX_EXTENSIONS)
  BY <1>4 DEF Setting
<1> QED BY <1>2, <1>3, <1>4

Loading(g, cfg, lines, n) ==
  /\ g \in [0..n -> Config]
  /\ g[0] = cfg
  /\ \A i \in 1..n : g[i] = Setting(g[i - 1], lines[i])

LEMMA LoadBy ==
  ASSUME NEW cfg \in Config, NEW n \in Nat, NEW lines \in Seq(Line), Len(lines) = n,
         NEW g, Loading(g, cfg, lines, n)
  PROVE  LoadFile(cfg, lines) = g[n]
<1> DEFINE Body(h) == [i \in 0..n |-> IF i = 0 THEN cfg ELSE Setting(h[i - 1], lines[i])]
           h == CHOOSE h : h = Body(h)
<1>1. g = Body(g)
  <2>1. ASSUME NEW i \in 0..n PROVE g[i] = IF i = 0 THEN cfg ELSE Setting(g[i - 1], lines[i])
    <3>1. CASE i = 0
      BY <3>1, Zenon DEF Loading
    <3>2. CASE i # 0
      <4>1. i \in 1..n
        BY <3>2
      <4> QED BY <3>2, <4>1, Zenon DEF Loading
    <3> QED BY <3>1, <3>2
  <2>2. g = [i \in 0..n |-> g[i]]
    BY DEF Loading
  <2> QED BY <2>1, <2>2
<1>2. h = Body(h)
  <2> HIDE DEF Body
  <2> QED BY <1>1
<1>3. LoadFile(cfg, lines) = h[n]
  BY Zenon DEF LoadFile
<1> HIDE DEF h
<1>4. h[0] = cfg
  BY <1>2
<1>5. ASSUME NEW i \in 1..n, h[i - 1] = g[i - 1] PROVE h[i] = g[i]
  <2>1. i \in 0..n /\ i # 0
    OBVIOUS
  <2>2. Body(h)[i] = Setting(h[i - 1], lines[i])
    BY <2>1, Zenon
  <2>3. g[i] = Setting(g[i - 1], lines[i])
    BY Zenon DEF Loading
  <2> HIDE DEF Body
  <2> QED BY <1>2, <1>5, <2>2, <2>3, Zenon
<1>6. Alike(g, h, n)
  BY <1>4, <1>5, Zenon DEF Alike, Loading
<1> QED BY <1>3, <1>6, AlikeToTheEnd

LEMMA LoadNothing ==
  ASSUME NEW cfg \in Config
  PROVE  LoadFile(cfg, <<>>) = cfg
<1> DEFINE r == [i \in 0..0 |-> cfg]
<1>1. r \in [0..0 -> Config] /\ r[0] = cfg /\ \A i \in 1..0 : r[i] = Setting(r[i - 1], <<>>[i])
  OBVIOUS
<1> HIDE DEF r
<1>2. Loading(r, cfg, <<>>, 0)
  BY <1>1, Zenon DEF Loading
<1>3. <<>> \in Seq(Line) /\ Len(<<>>) = 0 /\ 0 \in Nat
  OBVIOUS
<1>4. LoadFile(cfg, <<>>) = r[0]
  BY <1>2, <1>3, LoadBy
<1> QED BY <1>1, <1>4

(* The last element off a sequence.                                        *)
OneLonger(S, s, n) == s \in Seq(S) /\ Len(s) = n + 1
HasLast(S, s, n) == \E front \in Seq(S), x \in S : Len(front) = n /\ s = Append(front, x)

LEMMA LastOff ==
  ASSUME NEW S, NEW n \in Nat, NEW s, OneLonger(S, s, n)
  PROVE  HasLast(S, s, n)
<1> DEFINE front == SubSeq(s, 1, n)
           x == s[n + 1]
<1>0. s \in Seq(S) /\ Len(s) = n + 1
  BY DEF OneLonger
<1>1. front \in Seq(S) /\ Len(front) = n /\ x \in S
  BY <1>0
<1>2. \A i \in 1..n : s[i] = front[i]
  BY <1>0
<1>3. s = [i \in 1..(n + 1) |-> s[i]]
  BY <1>0
<1>4. Longer(s, front, n, x)
  BY <1>2, <1>3, Zenon DEF Longer
<1> HIDE DEF front, x
<1>5. s = Append(front, x)
  BY <1>1, <1>4, OneMore
<1> QED BY <1>1, <1>5 DEF HasLast

LEMMA JoinAppend ==
  ASSUME NEW S, NEW a \in Seq(S), NEW b \in Seq(S), NEW x \in S
  PROVE  a \o b \in Seq(S) /\ a \o Append(b, x) = Append(a \o b, x)
OBVIOUS

(* A file with one line more: that line is read last.                      *)
LEMMA LoadAppend ==
  ASSUME NEW cfg \in Config, NEW lines \in Seq(Line), NEW line \in Line
  PROVE  /\ LoadFile(cfg, lines) \in Config
         /\ LoadFile(cfg, Append(lines, line)) = Setting(LoadFile(cfg, lines), line)
<1>0. PICK n \in Nat : n = Len(lines)
  OBVIOUS
<1> DEFINE more == Append(lines, line)
           f == [i \in 1..(n + 1) |-> [c \in Config |-> Setting(c, more[i])]]
<1>1. more \in Seq(Line) /\ Len(more) = n + 1 /\ more[n + 1] = line /\ \A i \in 1..n : more[i] = lines[i]
  BY <1>0
<1> HIDE DEF more
<1>2. f \in [1..(n + 1) -> [Config -> Config]]
  <2>1. ASSUME NEW i \in 1..(n + 1), NEW c \in Config PROVE Setting(c, more[i]) \in Config
    <3>1. more[i] \in Line
      BY <1>1
    <3> QED BY <3>1, SettingType
  <2> QED BY <2>1
<1>3. n + 1 \in Nat
  OBVIOUS
<1>4. PICK g : Recursive(g, Config, cfg, n + 1, f)
  <2> HIDE DEF f
  <2> QED BY <1>2, <1>3, Recursion
<1>5. /\ g \in [0..(n + 1) -> Config] /\ g[0] = cfg
      /\ \A i \in 1..(n + 1) : g[i] = Setting(g[i - 1], more[i])
  <2>1. /\ g \in [0..(n + 1) -> Config] /\ g[0] = cfg
        /\ \A i \in 1..(n + 1) : g[i] = f[i][g[i - 1]]
    <3> HIDE DEF f
    <3> QED BY <1>4 DEF Recursive
  <2>2. ASSUME NEW i \in 1..(n + 1) PROVE f[i][g[i - 1]] = Setting(g[i - 1], more[i])
    <3>1. g[i - 1] \in Config
      BY <2>1
    <3> QED BY <3>1
  <2> HIDE DEF f
  <2> QED BY <2>1, <2>2
<1> HIDE DEF f
<1>6. LoadFile(cfg, more) = g[n + 1]
  <2>1. Loading(g, cfg, more, n + 1)
    BY <1>5, Zenon DEF Loading
  <2> QED BY <1>1, <1>3, <2>1, LoadBy
<1>7. LoadFile(cfg, lines) = g[n]
  <2> DEFINE r == [i \in 0..n |-> g[i]]
  <2>1. r \in [0..n -> Config] /\ r[0] = cfg /\ r[n] = g[n]
    BY <1>5
  <2>2. ASSUME NEW i \in 1..n PROVE r[i] = Setting(r[i - 1], lines[i])
    <3>1. i \in 1..(n + 1) /\ i \in 0..n /\ i - 1 \in 0..n
      OBVIOUS
    <3>2. r[i] = g[i] /\ r[i - 1] = g[i - 1]
      BY <3>1, Zenon
    <3> HIDE DEF r
    <3> QED BY <1>1, <1>5, <3>1, <3>2, Zenon
  <2> HIDE DEF r
  <2>3. Loading(r, cfg, lines, n)
    BY <2>1, <2>2, Zenon DEF Loading
  <2>4. LoadFile(cfg, lines) = r[n]
    BY <1>0, <2>3, LoadBy
  <2> QED BY <2>1, <2>4
<1>8. g[n + 1] = Setting(g[n], line) /\ g[n] \in Config
  <2>1. n + 1 \in 1..(n + 1) /\ (n + 1) - 1 = n /\ n \in 0..(n + 1)
    OBVIOUS
  <2>2. g[n + 1] = Setting(g[(n + 1) - 1], more[n + 1])
    BY <1>5, <2>1, Zenon
  <2> QED BY <1>1, <1>5, <2>1, <2>2
<1> QED BY <1>6, <1>7, <1>8, Zenon DEF more

LEMMA LoadType ==
  ASSUME NEW cfg \in Config, NEW lines \in Seq(Line)
  PROVE  LoadFile(cfg, lines) \in Config
<1>1. CASE lines = <<>>
  BY <1>1, LoadNothing
<1>2. CASE lines # <<>>
  <2>1. lines[1] \in Line
    BY <1>2
  <2> QED BY <2>1, LoadAppend
<1> QED BY <1>1, <1>2

(* Two files are read like one that has the lines of both.                *)
LEMMA LoadJoined ==
  ASSUME NEW cfg \in Config, NEW a \in Seq(Line), NEW b \in Seq(Line)
  PROVE  LoadFile(LoadFile(cfg, a), b) = LoadFile(cfg, a \o b)
<1> DEFINE Joined(s) == LoadFile(LoadFile(cfg, a), s) = LoadFile(cfg, a \o s)
           P == {n \in Nat : \A s \in Seq(Line) : Len(s) = n => Joined(s)}
<1>0. LoadFile(cfg, a) \in Config
  BY LoadType
<1>1. 0 \in P
  <2> SUFFICES ASSUME NEW s \in Seq(Line), Len(s) = 0 PROVE Joined(s)
    OBVIOUS
  <2>1. s = <<>> /\ a \o s = a
    OBVIOUS
  <2>2. LoadFile(LoadFile(cfg, a), <<>>) = LoadFile(cfg, a)
    BY <1>0, LoadNothing
  <2> QED BY <2>1, <2>2, Zenon
<1>2. \A n \in Nat : n \in P => n + 1 \in P
  <2> SUFFICES ASSUME NEW n \in Nat, n \in P, NEW s \in Seq(Line), Len(s) = n + 1
               PROVE  Joined(s)
    OBVIOUS
  <2>1. PICK front \in Seq(Line), line \in Line : Len(front) = n /\ s = Append(front, line)
    <3>1. OneLonger(Line, s, n)
      BY DEF OneLonger
    <3> QED BY <3>1, LastOff DEF HasLast
  <2>2. Joined(front)
    BY <2>1
  <2>3. LoadFile(LoadFile(cfg, a), Append(front, line)) = Setting(LoadFile(LoadFile(cfg, a), front), line)
    BY <1>0, LoadAppend
  <2>4. a \o front \in Seq(Line) /\ a \o Append(front, line) = Append(a \o front, line)
    BY JoinAppend
  <2>5. LoadFile(cfg, Append(a \o front, line)) = Setting(LoadFile(cfg, a \o front), line)
    BY <2>4, LoadAppend
  <2> HIDE DEF P
  <2> QED BY <2>1, <2>2, <2>3, <2>4, <2>5, Zenon
<1>3. PICK n \in Nat : n = Len(b)
  OBVIOUS
<1> HIDE DEF P
<1>4. n \in P
  BY <1>1, <1>2, NatSet
<1> QED BY <1>3, <1>4 DEF P

(* The last line about a key, when there is one line more.                 *)
LEMMA LastLineAppend ==
  ASSUME NEW s \in Seq(Line), NEW x \in Line, NEW key
  PROVE  LastLine(Append(s, x), key) = IF x.key = key THEN x.value ELSE LastLine(s, key)
<1> DEFINE t == Append(s, x)
<1>0. PICK n \in Nat : n = Len(s)
  OBVIOUS
<1> DEFINE S == {i \in 1..n : s[i].key = key}
           T == {i \in 1..(n + 1) : t[i].key = key}
<1>1. Len(t) = n + 1 /\ t[n + 1] = x /\ \A i \in 1..n : t[i] = s[i]
  BY <1>0
<1> HIDE DEF t
<1>2. n + 1 \in T <=> x.key = key
  BY <1>1
<1>3. S \subseteq 1..n /\ (T = S \/ T = S \cup {n + 1})
  <2>1. \A i \in 1..n : i \in T <=> i \in S
    BY <1>1
  <2>2. T \subseteq 1..n \cup {n + 1} /\ S \subseteq 1..n
    OBVIOUS
  <2> HIDE DEF S, T
  <2> QED BY <2>1, <2>2
<1>4. LastLine(t, key) = IF T = {} THEN Default ELSE t[Max(T)].value
  BY <1>1, Zenon DEF LastLine
<1>5. LastLine(s, key) = IF S = {} THEN Default ELSE s[Max(S)].value
  BY <1>0, Zenon DEF LastLine
<1> HIDE DEF S, T
<1>6. /\ n + 1 \in T => Max(T) = n + 1 /\ T # {}
      /\ n + 1 \notin T => T = S
      /\ S # {} => Max(S) \in S
  <2>1. OneMorePlace(S, T, n)
    BY <1>3, Zenon DEF OneMorePlace
  <2> QED BY <2>1, LastPlace
<1>7. CASE x.key = key
  BY <1>1, <1>2, <1>4, <1>6, <1>7, Zenon DEF t
<1>8. CASE x.key # key
  <2>1. T = S /\ (S # {} => Max(S) \in 1..n)
    BY <1>2, <1>3, <1>6, <1>8
  <2>2. S # {} => t[Max(S)] = s[Max(S)]
    BY <1>1, <2>1, Zenon
  <2> QED BY <1>4, <1>5, <1>8, <2>1, <2>2, Zenon DEF t
<1> QED BY <1>7, <1>8, Zenon

(* How many extensions were asked for up to a line.                        *)
LEMMA PlaceType ==
  ASSUME NEW s \in Seq(Line), NEW i \in Nat, NEW j \in Nat, i <= j
  PROVE  /\ Place(s, i) \in Nat
         /\ Place(s, i) <= Place(s, j)
         /\ i > 0 /\ s[i].key = "extension" => Place(s, i) > 0
<1> DEFINE A(k) == {l \in 1..k : s[l].key = "extension"}
<1>1. \A k \in Nat : IsFiniteSet(A(k)) /\ Cardinality(A(k)) \in Nat
  <2> SUFFICES ASSUME NEW k \in Nat PROVE IsFiniteSet(A(k)) /\ Cardinality(A(k)) \in Nat
    OBVIOUS
  <2>1. IsFiniteSet(1..k) /\ A(k) \in SUBSET (1..k)
    BY FS_Interval
  <2> QED BY <2>1, FS_Subset, FS_CardinalityType
<1>2. A(i) \in SUBSET A(j)
  OBVIOUS
<1>3. i > 0 /\ s[i].key = "extension" => i \in A(i)
  OBVIOUS
<1>4. Place(s, i) = Cardinality(A(i)) /\ Place(s, j) = Cardinality(A(j))
  BY DEF Place
<1> HIDE DEF A
<1>5. Cardinality(A(i)) <= Cardinality(A(j))
  BY <1>1, <1>2, FS_Subset
<1>6. i \in A(i) => Cardinality(A(i)) # 0
  BY <1>1, FS_EmptySet
<1> QED BY <1>1, <1>3, <1>4, <1>5, <1>6

LEMMA PlaceAppend ==
  ASSUME NEW s \in Seq(Line), NEW x \in Line, NEW n \in Nat, n = Len(s)
  PROVE  /\ \A i \in 0..n : Place(Append(s, x), i) = Place(s, i)
         /\ Place(Append(s, x), n + 1) = IF x.key = "extension" THEN Place(s, n) + 1 ELSE Place(s, n)
<1> DEFINE t == Append(s, x)
<1>1. Len(t) = n + 1 /\ t[n + 1] = x /\ \A i \in 1..n : t[i] = s[i]
  OBVIOUS
<1> HIDE DEF t
<1>2. ASSUME NEW i \in 0..n PROVE Place(t, i) = Place(s, i)
  <2>1. {l \in 1..i : t[l].key = "extension"} = {l \in 1..i : s[l].key = "extension"}
    <3>1. \A l \in 1..i : t[l] = s[l]
      BY <1>1
    <3> QED BY <3>1
  <2> QED BY <2>1, Zenon DEF Place
<1> DEFINE S == {l \in 1..n : s[l].key = "extension"}
           T == {l \in 1..(n + 1) : t[l].key = "extension"}
<1>3. Place(s, n) = Cardinality(S) /\ Place(t, n + 1) = Cardinality(T)
  BY DEF Place
<1>4. IsFiniteSet(S) /\ n + 1 \notin S
  <2>1. IsFiniteSet(1..n) /\ S \in SUBSET (1..n)
    BY FS_Interval
  <2> QED BY <2>1, FS_Subset
<1>5. T = IF x.key = "extension" THEN S \cup {n + 1} ELSE S
  <2>1. \A l \in 1..n : l \in T <=> l \in S
    BY <1>1
  <2>2. n + 1 \in T <=> x.key = "extension"
    BY <1>1
  <2>3. T \subseteq 1..n \cup {n + 1} /\ S \subseteq 1..n
    OBVIOUS
  <2> HIDE DEF S, T
  <2>4. CASE x.key = "extension"
    <3>1. T = S \cup {n + 1}
      BY <2>1, <2>2, <2>3, <2>4
    <3> QED BY <2>4, <3>1
  <2>5. CASE x.key # "extension"
    <3>1. T = S
      BY <2>1, <2>2, <2>3, <2>5
    <3> QED BY <2>5, <3>1
  <2> QED BY <2>4, <2>5
<1> HIDE DEF S, T
<1>6. Cardinality(T) = IF x.key = "extension" THEN Cardinality(S) + 1 ELSE Cardinality(S)
  BY <1>4, <1>5, FS_AddElement
<1> QED BY <1>2, <1>3, <1>6 DEF t

(* Settings that are as asked for are so after one line more.              *)
LEMMA AskedForAppend ==
  ASSUME NEW cfg \in Config, NEW s \in Seq(Line), NEW x \in Line, AskedFor(cfg, s)
  PROVE  AskedFor(Setting(cfg, x), Append(s, x))
<1>0. PICK n \in Nat : n = Len(s)
  OBVIOUS
<1> DEFINE t == Append(s, x)
           new == Setting(cfg, x)
           ext == cfg.extensions
           p == Place(s, n)
<1>1. t \in Seq(Line) /\ Len(t) = n + 1 /\ t[n + 1] = x /\ \A i \in 1..n : t[i] = s[i]
  BY <1>0
<1>2. /\ \A i \in 0..n : Place(t, i) = Place(s, i)
      /\ Place(t, n + 1) = IF x.key = "extension" THEN p + 1 ELSE p
  BY <1>0, PlaceAppend
<1>3. \A key : LastLine(t, key) = IF x.key = key THEN x.value ELSE LastLine(s, key)
  BY LastLineAppend
<1>4. /\ \A key \in Keys : cfg.value[key] = LastLine(s, key)
      /\ Len(ext) = IF p < MAX_EXTENSIONS THEN p ELSE MAX_EXTENSIONS
      /\ \A i \in 1..n : s[i].key = "extension" /\ Place(s, i) <= MAX_EXTENSIONS =>
                          ext[Place(s, i)] = s[i].value
  BY <1>0, Zenon DEF AskedFor
<1>5. /\ p \in Nat
      /\ \A i \in 1..n : /\ Place(s, i) \in Nat /\ Place(s, i) <= p
                         /\ s[i].key = "extension" => Place(s, i) > 0
  <2>1. ASSUME NEW i \in 1..n
        PROVE  /\ Place(s, i) \in Nat /\ Place(s, i) <= p
               /\ s[i].key = "extension" => Place(s, i) > 0
    <3>1. i \in Nat /\ i <= n /\ i > 0
      OBVIOUS
    <3> HIDE DEF p
    <3> QED BY <3>1, PlaceType DEF p
  <2>2. Place(s, n) \in Nat
    <3>1. n <= n
      OBVIOUS
    <3> QED BY <3>1, PlaceType
  <2> QED BY <2>1, <2>2
<1>6. cfg.value \in [Keys -> Value \cup {Default}] /\ ext \in Seq(Value) /\ x.value \in Value
  BY DEF Config, Line
<1>7. "extension" \notin Keys
  BY DEF Keys
<1> HIDE DEF t, p
<1>8. \A key \in Keys : new.value[key] = LastLine(t, key)
  <2> SUFFICES ASSUME NEW key \in Keys PROVE new.value[key] = LastLine(t, key)
    OBVIOUS
  <2>1. CASE x.key \in Keys
    <3>1. new.value[key] = IF x.key = key THEN x.value ELSE cfg.value[key]
      BY <1>6, <2>1 DEF Setting, Config
    <3> HIDE DEF new
    <3> QED BY <1>3, <1>4, <3>1, Zenon
  <2>2. CASE x.key \notin Keys
    <3>1. new.value = cfg.value
      BY <2>2 DEF Setting, Config
    <3>2. x.key # key
      BY <2>2
    <3> HIDE DEF new
    <3> QED BY <1>3, <1>4, <3>1, <3>2, Zenon
  <2> QED BY <2>1, <2>2
<1>9. CASE x.key = "extension" /\ p < MAX_EXTENSIONS
  <2>1. new.extensions = Append(ext, x.value)
    BY <1>4, <1>5, <1>7, <1>9 DEF Setting, Config
  <2> HIDE DEF new
  <2>2. Len(new.extensions) = p + 1
    BY <1>4, <1>5, <1>6, <1>9, <2>1
  <2>3. ASSUME NEW i \in 1..(n + 1), t[i].key = "extension", Place(t, i) <= MAX_EXTENSIONS
        PROVE  new.extensions[Place(t, i)] = t[i].value
    <3>1. CASE i = n + 1
      <4>1. Place(t, i) = p + 1 /\ t[i] = x
        BY <1>1, <1>2, <1>9, <3>1
      <4>2. Append(ext, x.value)[p + 1] = x.value
        BY <1>4, <1>5, <1>6, <1>9
      <4> QED BY <2>1, <4>1, <4>2
    <3>2. CASE i \in 1..n
      <4>1. t[i] = s[i] /\ Place(t, i) = Place(s, i)
        BY <1>1, <1>2, <3>2
      <4>2. PICK k : k = Place(s, i)
        OBVIOUS
      <4>3. k \in Nat /\ k <= p /\ k > 0 /\ ext[k] = s[i].value
        <5>1. s[i].key = "extension" /\ Place(s, i) <= MAX_EXTENSIONS
          BY <2>3, <4>1, Zenon
        <5>2. ext[Place(s, i)] = s[i].value
          BY <1>4, <3>2, <5>1, Zenon
        <5>3. Place(s, i) \in Nat /\ Place(s, i) <= p /\ Place(s, i) > 0
          <6>1. Place(s, i) \in Nat
            BY <1>5, <3>2, Zenon
          <6>2. Place(s, i) <= p
            BY <1>5, <3>2, Zenon
          <6>3. Place(s, i) > 0
            BY <1>5, <3>2, <5>1, Zenon
          <6> QED BY <6>1, <6>2, <6>3, Zenon
        <5> QED BY <4>2, <5>2, <5>3, Zenon
      <4>4. Len(ext) = p
        BY <1>4, <1>9
      <4>5. Append(ext, x.value)[k] = ext[k]
        BY <1>6, <4>3, <4>4
      <4> QED BY <2>1, <4>1, <4>2, <4>3, <4>5
    <3> QED BY <3>1, <3>2
  <2>4. Place(t, n + 1) = p + 1 /\ p + 1 <= MAX_EXTENSIONS
    BY <1>2, <1>5, <1>9, StartAssumption
  <2>5. Len(new.extensions) = IF Place(t, n + 1) < MAX_EXTENSIONS THEN Place(t, n + 1) ELSE MAX_EXTENSIONS
    BY <1>5, <2>2, <2>4, StartAssumption
  <2>6. AskedFor(new, t)
    BY <1>1, <1>8, <2>3, <2>5 DEF AskedFor
  <2> QED BY <2>6 DEF new, t
<1>10. CASE ~(x.key = "extension" /\ p < MAX_EXTENSIONS)
  <2>1. new.extensions = ext
    <3>1. x.key \in Keys \/ x.key # "extension" \/ ~(Len(ext) < MAX_EXTENSIONS)
      BY <1>4, <1>5, <1>10, StartAssumption
    <3> QED BY <3>1 DEF Setting, Config
  <2> HIDE DEF new
  <2>2. ASSUME NEW i \in 1..(n + 1), t[i].key = "extension", Place(t, i) <= MAX_EXTENSIONS
        PROVE  new.extensions[Place(t, i)] = t[i].value
    <3>1. CASE i = n + 1
      <4>1. x.key = "extension" /\ Place(t, n + 1) = p + 1
        BY <1>1, <1>2, <2>2, <3>1
      <4> QED BY <1>5, <1>10, <2>2, <3>1, <4>1, StartAssumption
    <3>2. CASE i \in 1..n
      <4>1. t[i] = s[i] /\ Place(t, i) = Place(s, i)
        BY <1>1, <1>2, <3>2
      <4> QED BY <1>4, <2>1, <2>2, <3>2, <4>1
    <3> QED BY <3>1, <3>2
  <2>3. Len(ext) = IF Place(t, n + 1) < MAX_EXTENSIONS THEN Place(t, n + 1) ELSE MAX_EXTENSIONS
    BY <1>2, <1>4, <1>5, <1>10, StartAssumption
  <2>4. AskedFor(new, t)
    BY <1>1, <1>8, <2>1, <2>2, <2>3 DEF AskedFor
  <2> QED BY <2>4 DEF new, t
<1> QED BY <1>9, <1>10

LEMMA InitialType == Initial \in Config
<1>1. <<>> \in Seq(Value)
  OBVIOUS
<1> QED BY <1>1 DEF Initial, Config

(* All lines of any file are read, and the settings are as they ask for.   *)
LEMMA LoadsAskedFor ==
  ASSUME NEW lines \in Seq(Line)
  PROVE  AskedFor(LoadFile(Initial, lines), lines)
<1> DEFINE P == {n \in Nat : \A s \in Seq(Line) : Len(s) = n => AskedFor(LoadFile(Initial, s), s)}
<1>1. 0 \in P
  <2> SUFFICES ASSUME NEW s \in Seq(Line), Len(s) = 0 PROVE AskedFor(LoadFile(Initial, s), s)
    OBVIOUS
  <2>1. s = <<>> /\ LoadFile(Initial, <<>>) = Initial
    BY InitialType, LoadNothing
  <2>2. \A key \in Keys : Initial.value[key] = Default /\ LastLine(s, key) = Default
    <3> SUFFICES ASSUME NEW key \in Keys PROVE Initial.value[key] = Default /\ LastLine(s, key) = Default
      OBVIOUS
    <3>1. {i \in 1..Len(s) : s[i].key = key} = {}
      BY <2>1
    <3>2. LastLine(s, key) = Default
      BY <3>1, Zenon DEF LastLine
    <3> QED BY <3>2 DEF Initial
  <2>3. Place(s, Len(s)) = 0
    <3>1. {j \in 1..Len(s) : s[j].key = "extension"} = {}
      BY <2>1
    <3> QED BY <3>1, FS_EmptySet, Zenon DEF Place
  <2>4. Len(Initial.extensions) = 0
    BY DEF Initial
  <2>5. Len(Initial.extensions) = IF Place(s, Len(s)) < MAX_EXTENSIONS THEN Place(s, Len(s)) ELSE MAX_EXTENSIONS
    BY <2>3, <2>4, StartAssumption
  <2>6. \A i \in 1..Len(s) : FALSE
    BY <2>1
  <2>7. AskedFor(Initial, s)
    BY <2>2, <2>5, <2>6, Zenon DEF AskedFor
  <2> QED BY <2>1, <2>7
<1>2. \A n \in Nat : n \in P => n + 1 \in P
  <2> SUFFICES ASSUME NEW n \in Nat, n \in P, NEW s \in Seq(Line), Len(s) = n + 1
               PROVE  AskedFor(LoadFile(Initial, s), s)
    OBVIOUS
  <2>1. PICK front \in Seq(Line), line \in Line : Len(front) = n /\ s = Append(front, line)
    <3>1. OneLonger(Line, s, n)
      BY DEF OneLonger
    <3> QED BY <3>1, LastOff DEF HasLast
  <2>2. AskedFor(LoadFile(Initial, front), front)
    BY <2>1
  <2>3. LoadFile(Initial, front) \in Config
        /\ LoadFile(Initial, Append(front, line)) = Setting(LoadFile(Initial, front), line)
    BY InitialType, LoadAppend
  <2> QED BY <2>1, <2>2, <2>3, AskedForAppend
<1>3. PICK n \in Nat : n = Len(lines)
  OBVIOUS
<1> HIDE DEF P
<1>4. n \in P
  BY <1>1, <1>2, NatSet
<1> QED BY <1>3, <1>4 DEF P

-----------------------------------------------------------------------------
(* Words of a command line.                                                *)
Words == Word \cup Flags \cup DOMAIN IniFile

(* The turn of the loop over argv, for each kind of word.                  *)
WordAt(words, next, word) ==
  /\ next \in Nat /\ Len(words) \in Nat /\ next <= Len(words)
  /\ words[next] = word

IniAt(words, next, word) == WordAt(words, next, word) /\ word \in DOMAIN IniFile

LEMMA OptionIni ==
  ASSUME NEW words, NEW next, NEW told, NEW word, IniAt(words, next, word)
  PROVE  Option(words, [next |-> next, told |-> told])
           = [next |-> next + 1, told |-> [told EXCEPT !.ini = IniFile[word]]]
<1>1. ~(next > Len(words)) /\ words[next] = word
  BY DEF IniAt, WordAt
<1>2. word \in DOMAIN IniFile /\ word \notin Flags
  BY StartAssumption DEF IniAt
<1> QED BY <1>1, <1>2 DEF Option, Flags

ValueAt(words, next, flag, value) ==
  /\ WordAt(words, next, flag) /\ WordAt(words, next + 1, value)
  /\ flag \in {"--serve", "--fastcgi", "--router", "--workers"}

LEMMA OptionValue ==
  ASSUME NEW words, NEW next, NEW told, NEW flag, NEW value, ValueAt(words, next, flag, value)
  PROVE  Option(words, [next |-> next, told |-> told])
           = [next |-> next + 2,
              told |-> CASE flag = "--serve" -> [told EXCEPT !.serve = value]
                         [] flag = "--fastcgi" -> [told EXCEPT !.fastcgi = value]
                         [] flag = "--router" -> [told EXCEPT !.router = value]
                         [] flag = "--workers" -> [told EXCEPT !.workers = Number[value]]]
<1>1. flag \notin DOMAIN IniFile
  BY StartAssumption DEF Flags, ValueAt
<1>2. flag \notin {"--help", "--version"} /\ ~(next > Len(words)) /\ next < Len(words)
  BY DEF ValueAt, WordAt
<1>7. words[next] = flag /\ words[next + 1] = value
  BY DEF ValueAt, WordAt
<1>3. CASE flag = "--serve"
  BY <1>1, <1>2, <1>7, <1>3 DEF Option
<1>4. CASE flag = "--fastcgi"
  BY <1>1, <1>2, <1>7, <1>4 DEF Option
<1>5. CASE flag = "--router"
  BY <1>1, <1>2, <1>7, <1>5 DEF Option
<1>6. CASE flag = "--workers"
  BY <1>1, <1>2, <1>7, <1>6 DEF Option
<1> QED BY <1>3, <1>4, <1>5, <1>6 DEF ValueAt

ScriptAt(words, next, word) ==
  /\ WordAt(words, next, word)
  /\ word \notin Flags \cup DOMAIN IniFile

LEMMA OptionScript ==
  ASSUME NEW words, NEW next, NEW told, NEW word, ScriptAt(words, next, word)
  PROVE  Option(words, [next |-> next, told |-> told])
           = [next |-> Len(words) + 1,
              told |-> [told EXCEPT !.script = word, !.argv = SubSeq(words, next + 1, Len(words))]]
<1>1. ~(next > Len(words)) /\ words[next] = word
  BY DEF ScriptAt, WordAt
<1>2. word \notin DOMAIN IniFile /\ word \notin {"--help", "--version"}
      /\ word # "--serve" /\ word # "--fastcgi" /\ word # "--workers" /\ word # "--router"
  BY DEF Flags, ScriptAt
<1> QED BY <1>1, <1>2 DEF Option

LEMMA OptionEnd ==
  ASSUME NEW words, NEW at, at.next > Len(words)
  PROVE  Option(words, at) = at
BY DEF Option

Reading(g, words, m) ==
  /\ g = [i \in 0..m |-> g[i]]
  /\ g[0] = [next |-> 1, told |-> Told]
  /\ \A i \in 1..m : g[i] = Option(words, g[i - 1])

(* The loop as a whole.                                                    *)
LEMMA OptionsBy ==
  ASSUME NEW words, NEW m \in Nat, Len(words) = m, NEW g, Reading(g, words, m)
  PROVE  Options(words) = g[m].told
<1> DEFINE Body(h) == [i \in 0..m |-> IF i = 0 THEN [next |-> 1, told |-> Told] ELSE Option(words, h[i - 1])]
           h == CHOOSE h : h = Body(h)
<1>1. g = Body(g)
  <2>1. \A i \in 0..m : i # 0 => i \in 1..m
    OBVIOUS
  <2>2. \A i \in 0..m : g[i] = IF i = 0 THEN [next |-> 1, told |-> Told] ELSE Option(words, g[i - 1])
    BY <2>1, Zenon DEF Reading
  <2> QED BY <2>2, Zenon DEF Reading
<1>2. h = Body(h)
  <2> HIDE DEF Body
  <2> QED BY <1>1
<1>3. Options(words) = h[m].told
  BY Zenon DEF Options
<1> HIDE DEF h
<1>4. h[0] = [next |-> 1, told |-> Told] /\ \A i \in 1..m : h[i] = Option(words, h[i - 1])
  BY <1>2
<1>5. Alike(g, h, m)
  BY <1>4, Zenon DEF Alike, Reading
<1> QED BY <1>3, <1>5, AlikeToTheEnd, Zenon

-----------------------------------------------------------------------------
(* What the first options ask for.                                         *)
LastValue(flag, j) ==
  IF Those({flag}, j) = {} THEN Default ELSE said.options[Max(Those({flag}, j))][2]

LastIni(j) ==
  IF Those(DOMAIN IniFile, j) = {} THEN Default
  ELSE IniFile[said.options[Max(Those(DOMAIN IniFile, j))][1]]

Workers(j) == IF LastValue("--workers", j) = Default THEN 4 ELSE Number[LastValue("--workers", j)]

ToldBy(j) ==
  [ini |-> LastIni(j), serve |-> LastValue("--serve", j), fastcgi |-> LastValue("--fastcgi", j),
   workers |-> Workers(j), router |-> LastValue("--router", j),
   script |-> Default, argv |-> <<>>, help |-> FALSE]

(* What was told, field by field.                                          *)
Fields(ini, serve, fastcgi, workers, router, script, argv, help) ==
  [ini |-> ini, serve |-> serve, fastcgi |-> fastcgi, workers |-> workers, router |-> router,
   script |-> script, argv |-> argv, help |-> help]

No == FALSE

LEMMA SetIni ==
  ASSUME NEW a, NEW b, NEW c, NEW d, NEW e, NEW f, NEW g, NEW h, NEW v
  PROVE  [Fields(a, b, c, d, e, f, g, h) EXCEPT !.ini = v] = Fields(v, b, c, d, e, f, g, h)
BY DEF Fields

LEMMA SetServe ==
  ASSUME NEW a, NEW b, NEW c, NEW d, NEW e, NEW f, NEW g, NEW h, NEW v
  PROVE  [Fields(a, b, c, d, e, f, g, h) EXCEPT !.serve = v] = Fields(a, v, c, d, e, f, g, h)
BY DEF Fields

LEMMA SetFastcgi ==
  ASSUME NEW a, NEW b, NEW c, NEW d, NEW e, NEW f, NEW g, NEW h, NEW v
  PROVE  [Fields(a, b, c, d, e, f, g, h) EXCEPT !.fastcgi = v] = Fields(a, b, v, d, e, f, g, h)
BY DEF Fields

LEMMA SetWorkers ==
  ASSUME NEW a, NEW b, NEW c, NEW d, NEW e, NEW f, NEW g, NEW h, NEW v
  PROVE  [Fields(a, b, c, d, e, f, g, h) EXCEPT !.workers = v] = Fields(a, b, c, v, e, f, g, h)
BY DEF Fields

LEMMA SetRouter ==
  ASSUME NEW a, NEW b, NEW c, NEW d, NEW e, NEW f, NEW g, NEW h, NEW v
  PROVE  [Fields(a, b, c, d, e, f, g, h) EXCEPT !.router = v] = Fields(a, b, c, d, v, f, g, h)
BY DEF Fields

LEMMA SetWord ==
  ASSUME NEW a, NEW b, NEW c, NEW d, NEW e, NEW f, NEW g, NEW h, NEW v
  PROVE  [Fields(a, b, c, d, e, f, g, h) EXCEPT !.script = v] = Fields(a, b, c, d, e, v, g, h)
BY DEF Fields

LEMMA SetArguments ==
  ASSUME NEW a, NEW b, NEW c, NEW d, NEW e, NEW f, NEW g, NEW h, NEW v
  PROVE  [Fields(a, b, c, d, e, f, g, h) EXCEPT !.argv = v] = Fields(a, b, c, d, e, f, v, h)
BY DEF Fields

Scripted(told, word, argv) == [told EXCEPT !.script = word, !.argv = argv]

LEMMA SetScript ==
  ASSUME NEW a, NEW b, NEW c, NEW d, NEW e, NEW f, NEW g, NEW h, NEW v, NEW w
  PROVE  Scripted(Fields(a, b, c, d, e, f, g, h), v, w) = Fields(a, b, c, d, e, v, w, h)
<1>1. PICK r : r = Fields(a, b, c, d, e, f, g, h)
  OBVIOUS
<1>2. PICK s : s = Fields(a, b, c, d, e, v, g, h)
  OBVIOUS
<1>3. [r EXCEPT !.script = v] = s
  BY <1>1, <1>2, SetWord
<1>4. [s EXCEPT !.argv = w] = Fields(a, b, c, d, e, v, w, h)
  BY <1>2, SetArguments
<1>5. [r EXCEPT !.script = v, !.argv = w] = [[r EXCEPT !.script = v] EXCEPT !.argv = w]
  BY Zenon
<1> QED BY <1>1, <1>3, <1>4, <1>5, Zenon DEF Scripted

LEMMA ToldFields ==
  ASSUME NEW j
  PROVE  ToldBy(j) = Fields(LastIni(j), LastValue("--serve", j), LastValue("--fastcgi", j), Workers(j),
                            LastValue("--router", j), Default, <<>>, No)
BY Zenon DEF ToldBy, Fields, No

LEMMA ToldExcept ==
  ASSUME NEW j, NEW v
  PROVE  /\ [ToldBy(j) EXCEPT !.ini = v]
              = Fields(v, LastValue("--serve", j), LastValue("--fastcgi", j), Workers(j), LastValue("--router", j),
                      Default, <<>>, No)
         /\ [ToldBy(j) EXCEPT !.serve = v]
              = Fields(LastIni(j), v, LastValue("--fastcgi", j), Workers(j), LastValue("--router", j),
                      Default, <<>>, No)
         /\ [ToldBy(j) EXCEPT !.fastcgi = v]
              = Fields(LastIni(j), LastValue("--serve", j), v, Workers(j), LastValue("--router", j),
                      Default, <<>>, No)
         /\ [ToldBy(j) EXCEPT !.workers = v]
              = Fields(LastIni(j), LastValue("--serve", j), LastValue("--fastcgi", j), v, LastValue("--router", j),
                      Default, <<>>, No)
         /\ [ToldBy(j) EXCEPT !.router = v]
              = Fields(LastIni(j), LastValue("--serve", j), LastValue("--fastcgi", j), Workers(j), v,
                      Default, <<>>, No)
<1>0. ToldBy(j) = Fields(LastIni(j), LastValue("--serve", j), LastValue("--fastcgi", j), Workers(j), LastValue("--router", j),
                      Default, <<>>, No)
  BY ToldFields
<1>1. [Fields(LastIni(j), LastValue("--serve", j), LastValue("--fastcgi", j), Workers(j), LastValue("--router", j),
                      Default, <<>>, No) EXCEPT !.ini = v]
         = Fields(v, LastValue("--serve", j), LastValue("--fastcgi", j), Workers(j), LastValue("--router", j),
                      Default, <<>>, No)
  BY SetIni
<1>2. [Fields(LastIni(j), LastValue("--serve", j), LastValue("--fastcgi", j), Workers(j), LastValue("--router", j),
                      Default, <<>>, No) EXCEPT !.serve = v]
         = Fields(LastIni(j), v, LastValue("--fastcgi", j), Workers(j), LastValue("--router", j),
                      Default, <<>>, No)
  BY SetServe
<1>3. [Fields(LastIni(j), LastValue("--serve", j), LastValue("--fastcgi", j), Workers(j), LastValue("--router", j),
                      Default, <<>>, No) EXCEPT !.fastcgi = v]
         = Fields(LastIni(j), LastValue("--serve", j), v, Workers(j), LastValue("--router", j),
                      Default, <<>>, No)
  BY SetFastcgi
<1>4. [Fields(LastIni(j), LastValue("--serve", j), LastValue("--fastcgi", j), Workers(j), LastValue("--router", j),
                      Default, <<>>, No) EXCEPT !.workers = v]
         = Fields(LastIni(j), LastValue("--serve", j), LastValue("--fastcgi", j), v, LastValue("--router", j),
                      Default, <<>>, No)
  BY SetWorkers
<1>5. [Fields(LastIni(j), LastValue("--serve", j), LastValue("--fastcgi", j), Workers(j), LastValue("--router", j),
                      Default, <<>>, No) EXCEPT !.router = v]
         = Fields(LastIni(j), LastValue("--serve", j), LastValue("--fastcgi", j), Workers(j), v,
                      Default, <<>>, No)
  BY SetRouter
<1> QED BY <1>0, <1>1, <1>2, <1>3, <1>4, <1>5, Zenon

(* The options with some flags, when there is one option more.             *)
LEMMA ThoseStep ==
  ASSUME NEW j \in Nat, NEW flags
  PROVE  /\ said.options[j + 1][1] \in flags =>
              Max(Those(flags, j + 1)) = j + 1 /\ Those(flags, j + 1) # {}
         /\ said.options[j + 1][1] \notin flags => Those(flags, j + 1) = Those(flags, j)
         /\ Those(flags, j) # {} => Max(Those(flags, j)) \in Those(flags, j)
<1> DEFINE S == Those(flags, j)
           T == Those(flags, j + 1)
<1>1. j + 1 \in T <=> said.options[j + 1][1] \in flags
  BY DEF Those
<1>2. S \subseteq 1..j /\ T \subseteq 1..j \cup {j + 1} /\ \A i \in 1..j : i \in T <=> i \in S
  BY DEF Those
<1> HIDE DEF S, T
<1>3. OneMorePlace(S, T, j)
  BY <1>2 DEF OneMorePlace
<1>4. /\ j + 1 \in T => Max(T) = j + 1 /\ T # {}
      /\ j + 1 \notin T => T = S
      /\ S # {} => Max(S) \in S
  BY <1>3, LastPlace
<1> QED BY <1>1, <1>4, Zenon DEF S, T

LEMMA LastStep ==
  ASSUME NEW j \in Nat
  PROVE  /\ \A flag : LastValue(flag, j + 1) = IF said.options[j + 1][1] = flag THEN said.options[j + 1][2]
                                               ELSE LastValue(flag, j)
         /\ LastIni(j + 1) = IF said.options[j + 1][1] \in DOMAIN IniFile
                             THEN IniFile[said.options[j + 1][1]] ELSE LastIni(j)
<1>1. ASSUME NEW flag
      PROVE LastValue(flag, j + 1) = IF said.options[j + 1][1] = flag THEN said.options[j + 1][2]
                                     ELSE LastValue(flag, j)
  <2>1. CASE said.options[j + 1][1] = flag
    <3>1. Max(Those({flag}, j + 1)) = j + 1 /\ Those({flag}, j + 1) # {}
      BY <2>1, ThoseStep
    <3> QED BY <2>1, <3>1, Zenon DEF LastValue
  <2>2. CASE said.options[j + 1][1] # flag
    <3>1. Those({flag}, j + 1) = Those({flag}, j)
      BY <2>2, ThoseStep
    <3> QED BY <2>2, <3>1, Zenon DEF LastValue
  <2> QED BY <2>1, <2>2
<1>2. CASE said.options[j + 1][1] \in DOMAIN IniFile
  <2>1. Max(Those(DOMAIN IniFile, j + 1)) = j + 1 /\ Those(DOMAIN IniFile, j + 1) # {}
    BY <1>2, ThoseStep
  <2> QED BY <1>1, <1>2, <2>1, Zenon DEF LastIni
<1>3. CASE said.options[j + 1][1] \notin DOMAIN IniFile
  <2>1. Those(DOMAIN IniFile, j + 1) = Those(DOMAIN IniFile, j)
    BY <1>3, ThoseStep
  <2> QED BY <1>1, <1>3, <2>1, Zenon DEF LastIni
<1> QED BY <1>1, <1>2, <1>3

-----------------------------------------------------------------------------
(* The options, and then the script, stand one after the other.            *)
OptionWords ==
  {<<word>> : word \in DOMAIN IniFile}
  \cup {<<flag, value>> : flag \in {"--serve", "--fastcgi", "--router"}, value \in Word}
  \cup {<<"--workers", value>> : value \in DOMAIN Number}

Laid(at, n, options, script, words) ==
  /\ at \in [1..(n + 1) -> Nat \ {0}]
  /\ at[1] = 1
  /\ \A j \in 1..n : /\ at[j + 1] = at[j] + Len(options[j])
                     /\ at[j + 1] <= at[n + 1]
                     /\ words[at[j]] = options[j][1]
                     /\ Len(options[j]) = 2 => words[at[j] + 1] = options[j][2]
  /\ at[n + 1] > n
  /\ Len(words) = at[n + 1] - 1 + Len(script)
  /\ \A k \in 1..Len(script) : words[at[n + 1] - 1 + k] = script[k]

AsWritten ==
  /\ kind = "start"
  /\ text \in Seq(Words)
  /\ said \in [options : Seq(OptionWords), script : Seq(Word), lines : [Files -> Seq(Line)]]
  /\ said.script # <<>> => said.script[1] \notin Flags \cup DOMAIN IniFile
  /\ \E at : Laid(at, Len(said.options), said.options, said.script, text)

LEMMA OptionCases ==
  ASSUME NEW o \in OptionWords
  PROVE  \/ \E word \in DOMAIN IniFile : o = <<word>> /\ Len(o) = 1 /\ o[1] = word
         \/ \E flag \in {"--serve", "--fastcgi", "--router"}, value \in Word :
              o = <<flag, value>> /\ Len(o) = 2 /\ o[1] = flag /\ o[2] = value
         \/ \E value \in DOMAIN Number :
              o = <<"--workers", value>> /\ Len(o) = 2 /\ o[1] = "--workers" /\ o[2] = value
BY DEF OptionWords

LEMMA OptionType ==
  ASSUME NEW o \in OptionWords
  PROVE  o \in Seq(Words) /\ Len(o) \in {1, 2}
<1>1. CASE \E word \in DOMAIN IniFile : o = <<word>>
  BY <1>1 DEF Words
<1>2. CASE \E flag \in {"--serve", "--fastcgi", "--router"}, value \in Word : o = <<flag, value>>
  BY <1>2 DEF Words, Flags
<1>3. CASE \E value \in DOMAIN Number : o = <<"--workers", value>>
  BY <1>3, StartAssumption DEF Words, Flags
<1> QED BY <1>1, <1>2, <1>3, OptionCases

(* One turn of the loop reads the next option, and gets what it says.      *)
LEMMA OptionRead ==
  ASSUME AsWritten, NEW at, NEW n \in Nat, n = Len(said.options),
         Laid(at, n, said.options, said.script, text),
         NEW j \in 0..(n - 1)
  PROVE  Option(text, [next |-> at[j + 1], told |-> ToldBy(j)]) = [next |-> at[j + 2], told |-> ToldBy(j + 1)]
<1>1. PICK o : o = said.options[j + 1]
  OBVIOUS
<1>2. o \in OptionWords
  BY <1>1 DEF AsWritten
<1>3. PICK m : m = Len(text)
  OBVIOUS
<1>4. PICK k : k = at[j + 1]
  OBVIOUS
<1>5. /\ k \in Nat /\ m \in Nat
      /\ at[j + 2] = k + Len(o)
      /\ k + Len(o) - 1 <= m
      /\ text[k] = o[1]
      /\ Len(o) = 2 => text[k + 1] = o[2]
  <2>1. j + 1 \in 1..n /\ (j + 1) + 1 = j + 2 /\ n + 1 \in 1..(n + 1) /\ j + 1 \in 1..(n + 1)
    OBVIOUS
  <2>2. /\ at \in [1..(n + 1) -> Nat]
        /\ at[(j + 1) + 1] = k + Len(o)
        /\ at[(j + 1) + 1] <= at[n + 1]
        /\ text[k] = o[1]
        /\ Len(o) = 2 => text[k + 1] = o[2]
        /\ m = at[n + 1] - 1 + Len(said.script)
    BY <1>1, <1>3, <1>4, <2>1, Zenon DEF Laid
  <2>3. m \in Nat /\ Len(said.script) \in Nat
    BY <1>3 DEF AsWritten
  <2>4. k \in Nat /\ at[n + 1] \in Nat
    BY <1>4, <2>1, <2>2
  <2>5. Len(o) \in {1, 2}
    BY <1>2, OptionType
  <2>6. at[j + 2] = k + Len(o) /\ k + Len(o) <= at[n + 1]
    BY <2>1, <2>2
  <2>7. k + Len(o) - 1 <= m
    <3>1. PICK e \in Nat : e = at[n + 1]
      BY <2>4
    <3>2. PICK l \in Nat : l = Len(said.script)
      BY <2>3
    <3>3. PICK x \in {1, 2} : x = Len(o)
      BY <2>5
    <3>4. m = e - 1 + l /\ k + x <= e
      BY <2>2, <2>6, <3>1, <3>2, <3>3, Zenon
    <3>5. k + x - 1 <= m
      BY <2>3, <2>4, <3>4
    <3> QED BY <3>3, <3>5, Zenon
  <2> QED BY <2>2, <2>3, <2>4, <2>6, <2>7, Zenon
<1>6. /\ \A flag : LastValue(flag, j + 1) = IF o[1] = flag THEN o[2] ELSE LastValue(flag, j)
      /\ LastIni(j + 1) = IF o[1] \in DOMAIN IniFile THEN IniFile[o[1]] ELSE LastIni(j)
  <2>1. j \in Nat
    OBVIOUS
  <2> QED BY <1>1, <2>1, LastStep
<1> DEFINE Now(flag) == LastValue(flag, j + 1) = IF o[1] = flag THEN o[2] ELSE LastValue(flag, j)
<1>13. Now("--serve") /\ Now("--fastcgi") /\ Now("--router") /\ Now("--workers")
  BY <1>6, Zenon
<1>7. ASSUME NEW word \in DOMAIN IniFile, Len(o) = 1, o[1] = word
      PROVE  Option(text, [next |-> k, told |-> ToldBy(j)]) = [next |-> k + 1, told |-> ToldBy(j + 1)]
  <2>1. k <= Len(text) /\ Len(text) \in Nat /\ text[k] = word
    BY <1>3, <1>5, <1>7
  <2>2. Option(text, [next |-> k, told |-> ToldBy(j)])
          = [next |-> k + 1, told |-> [ToldBy(j) EXCEPT !.ini = IniFile[word]]]
    <3>1. WordAt(text, k, word)
      BY <1>5, <2>1 DEF WordAt
    <3>2. IniAt(text, k, word)
      BY <3>1 DEF IniAt
    <3> QED BY <3>2, OptionIni
  <2>3. word \notin Flags
    BY StartAssumption
  <2>4. ToldBy(j + 1) = [ToldBy(j) EXCEPT !.ini = IniFile[word]]
    <3>1. o[1] # "--serve" /\ o[1] # "--fastcgi" /\ o[1] # "--router" /\ o[1] # "--workers"
      BY <1>7, <2>3 DEF Flags
    <3>2. /\ LastValue("--serve", j + 1) = LastValue("--serve", j)
          /\ LastValue("--fastcgi", j + 1) = LastValue("--fastcgi", j)
          /\ LastValue("--router", j + 1) = LastValue("--router", j)
          /\ LastValue("--workers", j + 1) = LastValue("--workers", j)
          /\ LastIni(j + 1) = IniFile[word]
      BY <1>6, <1>7, <1>13, <3>1
    <3>3. Workers(j + 1) = Workers(j)
      BY <3>2, Zenon DEF Workers
    <3>5. ToldBy(j + 1) = Fields(IniFile[word], LastValue("--serve", j), LastValue("--fastcgi", j), Workers(j), LastValue("--router", j),
                      Default, <<>>, No)
      BY <3>2, <3>3, ToldFields, Zenon
    <3>6. [ToldBy(j) EXCEPT !.ini = IniFile[word]]
            = Fields(IniFile[word], LastValue("--serve", j), LastValue("--fastcgi", j), Workers(j), LastValue("--router", j),
                      Default, <<>>, No)
      BY ToldExcept
    <3> QED BY <3>5, <3>6, Zenon
  <2> QED BY <2>2, <2>4
<1>8. ASSUME NEW flag \in {"--serve", "--fastcgi", "--router", "--workers"}, NEW value,
             flag = "--workers" => value # Default,
             Len(o) = 2, o[1] = flag, o[2] = value
      PROVE  Option(text, [next |-> k, told |-> ToldBy(j)]) = [next |-> k + 2, told |-> ToldBy(j + 1)]
  <2>1. k < Len(text) /\ Len(text) \in Nat /\ text[k] = flag /\ text[k + 1] = value
    BY <1>3, <1>5, <1>8
  <2>2. Option(text, [next |-> k, told |-> ToldBy(j)])
          = [next |-> k + 2,
             told |-> CASE flag = "--serve" -> [ToldBy(j) EXCEPT !.serve = value]
                        [] flag = "--fastcgi" -> [ToldBy(j) EXCEPT !.fastcgi = value]
                        [] flag = "--router" -> [ToldBy(j) EXCEPT !.router = value]
                        [] flag = "--workers" -> [ToldBy(j) EXCEPT !.workers = Number[value]]]
    <3>1. WordAt(text, k, flag) /\ WordAt(text, k + 1, value)
      BY <1>5, <2>1 DEF WordAt
    <3>2. ValueAt(text, k, flag, value)
      BY <1>8, <3>1 DEF ValueAt
    <3> QED BY <3>2, OptionValue
  <2>3. flag \notin DOMAIN IniFile
    BY StartAssumption DEF Flags
  <2>4. LastIni(j + 1) = LastIni(j)
    BY <1>6, <1>8, <2>3
  <2>5. CASE flag = "--serve"
    <3>2. /\ LastValue("--serve", j + 1) = value
          /\ LastValue("--fastcgi", j + 1) = LastValue("--fastcgi", j)
          /\ LastValue("--router", j + 1) = LastValue("--router", j)
          /\ LastValue("--workers", j + 1) = LastValue("--workers", j)
      BY <1>8, <1>13, <2>5
    <3>3. Workers(j + 1) = Workers(j)
      BY <3>2, Zenon DEF Workers
    <3>5. ToldBy(j + 1) = Fields(LastIni(j), value, LastValue("--fastcgi", j), Workers(j), LastValue("--router", j),
                      Default, <<>>, No)
      BY <2>4, <3>2, <3>3, ToldFields, Zenon
    <3>6. [ToldBy(j) EXCEPT !.serve = value]
            = Fields(LastIni(j), value, LastValue("--fastcgi", j), Workers(j), LastValue("--router", j),
                      Default, <<>>, No)
      BY ToldExcept
    <3>1. ToldBy(j + 1) = [ToldBy(j) EXCEPT !.serve = value]
      BY <3>5, <3>6, Zenon
    <3> QED BY <2>2, <2>5, <3>1
  <2>6. CASE flag = "--fastcgi"
    <3>2. /\ LastValue("--serve", j + 1) = LastValue("--serve", j)
          /\ LastValue("--fastcgi", j + 1) = value
          /\ LastValue("--router", j + 1) = LastValue("--router", j)
          /\ LastValue("--workers", j + 1) = LastValue("--workers", j)
      BY <1>8, <1>13, <2>6
    <3>3. Workers(j + 1) = Workers(j)
      BY <3>2, Zenon DEF Workers
    <3>5. ToldBy(j + 1) = Fields(LastIni(j), LastValue("--serve", j), value, Workers(j), LastValue("--router", j),
                      Default, <<>>, No)
      BY <2>4, <3>2, <3>3, ToldFields, Zenon
    <3>6. [ToldBy(j) EXCEPT !.fastcgi = value]
            = Fields(LastIni(j), LastValue("--serve", j), value, Workers(j), LastValue("--router", j),
                      Default, <<>>, No)
      BY ToldExcept
    <3>1. ToldBy(j + 1) = [ToldBy(j) EXCEPT !.fastcgi = value]
      BY <3>5, <3>6, Zenon
    <3> QED BY <2>2, <2>6, <3>1
  <2>7. CASE flag = "--router"
    <3>2. /\ LastValue("--serve", j + 1) = LastValue("--serve", j)
          /\ LastValue("--fastcgi", j + 1) = LastValue("--fastcgi", j)
          /\ LastValue("--router", j + 1) = value
          /\ LastValue("--workers", j + 1) = LastValue("--workers", j)
      BY <1>8, <1>13, <2>7
    <3>3. Workers(j + 1) = Workers(j)
      BY <3>2, Zenon DEF Workers
    <3>5. ToldBy(j + 1) = Fields(LastIni(j), LastValue("--serve", j), LastValue("--fastcgi", j), Workers(j), value,
                      Default, <<>>, No)
      BY <2>4, <3>2, <3>3, ToldFields, Zenon
    <3>6. [ToldBy(j) EXCEPT !.router = value]
            = Fields(LastIni(j), LastValue("--serve", j), LastValue("--fastcgi", j), Workers(j), value,
                      Default, <<>>, No)
      BY ToldExcept
    <3>1. ToldBy(j + 1) = [ToldBy(j) EXCEPT !.router = value]
      BY <3>5, <3>6, Zenon
    <3> QED BY <2>2, <2>7, <3>1
  <2>8. CASE flag = "--workers"
    <3>2. /\ LastValue("--serve", j + 1) = LastValue("--serve", j)
          /\ LastValue("--fastcgi", j + 1) = LastValue("--fastcgi", j)
          /\ LastValue("--router", j + 1) = LastValue("--router", j)
          /\ LastValue("--workers", j + 1) = value
      BY <1>8, <1>13, <2>8
    <3>3. Workers(j + 1) = Number[value]
      BY <3>2, <1>8, <2>8, Zenon DEF Workers
    <3>5. ToldBy(j + 1) = Fields(LastIni(j), LastValue("--serve", j), LastValue("--fastcgi", j), Number[value], LastValue("--router", j),
                      Default, <<>>, No)
      BY <2>4, <3>2, <3>3, ToldFields, Zenon
    <3>6. [ToldBy(j) EXCEPT !.workers = Number[value]]
            = Fields(LastIni(j), LastValue("--serve", j), LastValue("--fastcgi", j), Number[value], LastValue("--router", j),
                      Default, <<>>, No)
      BY ToldExcept
    <3>1. ToldBy(j + 1) = [ToldBy(j) EXCEPT !.workers = Number[value]]
      BY <3>5, <3>6, Zenon
    <3> QED BY <2>2, <2>8, <3>1
  <2> QED BY <2>5, <2>6, <2>7, <2>8
<1>9. \A value \in Word \cup DOMAIN Number : value # Default
  BY StartAssumption
<1>10. CASE \E word \in DOMAIN IniFile : Len(o) = 1 /\ o[1] = word
  BY <1>4, <1>5, <1>7, <1>10
<1>11. CASE \E flag \in {"--serve", "--fastcgi", "--router", "--workers"}, value \in Word \cup DOMAIN Number :
              Len(o) = 2 /\ o[1] = flag /\ o[2] = value
  BY <1>4, <1>5, <1>8, <1>9, <1>11
<1>12. \/ \E word \in DOMAIN IniFile : Len(o) = 1 /\ o[1] = word
       \/ \E flag \in {"--serve", "--fastcgi", "--router", "--workers"}, value \in Word \cup DOMAIN Number :
              Len(o) = 2 /\ o[1] = flag /\ o[2] = value
  BY <1>2, OptionCases
<1> QED BY <1>10, <1>11, <1>12

(* What is after the first word of the script.                             *)
EndsWith(words, script, e, l) ==
  /\ words \in Seq(Words) /\ script \in Seq(Word)
  /\ e \in Nat \ {0} /\ l \in Nat \ {0}
  /\ l = Len(script) /\ Len(words) = e - 1 + l
  /\ \A k \in 1..l : words[e - 1 + k] = script[k]

LEMMA RestOf ==
  ASSUME NEW words, NEW script, NEW e, NEW l, EndsWith(words, script, e, l)
  PROVE  SubSeq(words, e + 1, Len(words)) = Tail(script)
<1>0. PICK m : m = Len(words)
  OBVIOUS
<1>1. PICK a : a = SubSeq(words, e + 1, m)
  OBVIOUS
<1>2. a \in Seq(Words) /\ Len(a) = l - 1 /\ \A i \in 1..(l - 1) : a[i] = words[e + i]
  <2>1. e + 1 \in 1..(m + 1) /\ words \in Seq(Words) /\ m = e - 1 + l /\ e \in Nat /\ l \in Nat \ {0}
    BY <1>0 DEF EndsWith
  <2>2. PICK c : c = e + 1
    OBVIOUS
  <2>3. c \in Int /\ m \in Int /\ \A i \in c..m : words[i] \in Words
    <3>1. c \in Int /\ m \in Int /\ c >= 1
      BY <2>1, <2>2
    <3>2. ASSUME NEW i \in c..m PROVE words[i] \in Words
      <4>1. i \in 1..Len(words)
        BY <1>0, <3>1
      <4> QED BY <2>1, <4>1
    <3> QED BY <3>1, <3>2
  <2>4. /\ SubSeq(words, c, m) \in Seq(Words)
        /\ Len(SubSeq(words, c, m)) = IF c <= m THEN m - c + 1 ELSE 0
        /\ \A i \in 1..(m - c + 1) : SubSeq(words, c, m)[i] = words[c + i - 1]
    BY <2>3, SubSeqProperties
  <2>5. m - c + 1 = l - 1 /\ (IF c <= m THEN m - c + 1 ELSE 0) = l - 1
    BY <2>1, <2>2
  <2>6. \A i \in 1..(l - 1) : c + i - 1 = e + i
    BY <2>1, <2>2
  <2> QED BY <1>1, <2>2, <2>4, <2>5, <2>6, Zenon
<1>3. /\ Tail(script) \in Seq(Word) /\ Len(Tail(script)) = l - 1
      /\ \A i \in 1..(l - 1) : Tail(script)[i] = script[i + 1]
  BY DEF EndsWith
<1>4. ASSUME NEW i \in 1..(l - 1) PROVE a[i] = Tail(script)[i]
  <2>1. i + 1 \in 1..l /\ e - 1 + (i + 1) = e + i
    BY DEF EndsWith
  <2>2. words[e - 1 + (i + 1)] = script[i + 1]
    BY <2>1, Zenon DEF EndsWith
  <2> QED BY <1>2, <1>3, <2>1, <2>2, Zenon
<1>5. Tail(script) \in Seq(Words)
  BY <1>3 DEF Words
<1>6. a = Tail(script)
  BY <1>2, <1>3, <1>4, <1>5, SeqEqual
<1> QED BY <1>0, <1>1, <1>6, Zenon

LEMMA NothingRead == ToldBy(0) = Told
<1>1. \A flags : Those(flags, 0) = {}
  BY DEF Those
<1>2. \A flag : LastValue(flag, 0) = Default
  BY <1>1, Zenon DEF LastValue
<1>3. LastIni(0) = Default
  BY <1>1, Zenon DEF LastIni
<1>4. Workers(0) = 4
  BY <1>2, Zenon DEF Workers
<1> QED BY <1>2, <1>3, <1>4, Zenon DEF ToldBy, Told

(* What is told in the end: what the options ask for, and the script.      *)
AllTold(n) ==
  IF said.script = <<>> THEN ToldBy(n)
  ELSE Scripted(ToldBy(n), said.script[1], Tail(said.script))

(* The loop reads all the options and then the script.                     *)
LEMMA OptionsRead ==
  ASSUME AsWritten, NEW n \in Nat, n = Len(said.options)
  PROVE  Options(text) = AllTold(n)
<1>1. PICK at : Laid(at, n, said.options, said.script, text)
  BY DEF AsWritten
<1>2. PICK m : m = Len(text)
  OBVIOUS
<1>3. PICK l : l = Len(said.script)
  OBVIOUS
<1>4. PICK e : e = at[n + 1]
  OBVIOUS
<1>5. /\ m \in Nat /\ l \in Nat /\ e \in Nat /\ e > n /\ m = e - 1 + l
      /\ said.script \in Seq(Word) /\ text \in Seq(Words)
      /\ \A k \in 1..l : text[e - 1 + k] = said.script[k]
      /\ at[1] = 1
  <2>1. text \in Seq(Words) /\ said.script \in Seq(Word)
    BY DEF AsWritten
  <2>2. n + 1 \in 1..(n + 1)
    OBVIOUS
  <2>3. at \in [1..(n + 1) -> Nat] /\ e > n /\ m = e - 1 + l
        /\ (\A k \in 1..l : text[e - 1 + k] = said.script[k]) /\ at[1] = 1
    BY <1>1, <1>2, <1>3, <1>4, Zenon DEF Laid
  <2>4. e \in Nat
    BY <1>4, <2>2, <2>3
  <2>5. m \in Nat /\ l \in Nat
    BY <1>2, <1>3, <2>1
  <2> QED BY <2>1, <2>3, <2>4, <2>5
<1> DEFINE end == [next |-> m + 1, told |-> AllTold(n)]
           g == [i \in 0..m |-> IF i <= n THEN [next |-> at[i + 1], told |-> ToldBy(i)] ELSE end]
<1>6. m >= n /\ (m = n => l = 0) /\ (l = 0 => e = m + 1) /\ (l > 0 => e <= m)
  BY <1>5
<1>7. l = 0 <=> said.script = <<>>
  BY <1>3, <1>5
<1>8. g[0] = [next |-> 1, told |-> Told]
  <2>1. 0 \in 0..m /\ 0 <= n /\ 0 + 1 = 1
    BY <1>5
  <2>2. g[0] = [next |-> at[1], told |-> ToldBy(0)]
    BY <2>1
  <2> QED BY <1>5, <2>2, NothingRead
<1>9. ASSUME NEW i \in 1..m, i <= n PROVE g[i] = Option(text, g[i - 1])
  <2>1. /\ i - 1 \in 0..(n - 1) /\ (i - 1) + 1 = i /\ (i - 1) + 2 = i + 1
        /\ i \in 0..m /\ i - 1 \in 0..m /\ i - 1 <= n
    BY <1>5, <1>9
  <2>2. g[i] = [next |-> at[i + 1], told |-> ToldBy(i)]
    BY <1>9, <2>1, Zenon
  <2>3. g[i - 1] = [next |-> at[i], told |-> ToldBy(i - 1)]
    BY <2>1, Zenon
  <2>4. Option(text, [next |-> at[(i - 1) + 1], told |-> ToldBy(i - 1)])
          = [next |-> at[(i - 1) + 2], told |-> ToldBy((i - 1) + 1)]
    <3> HIDE DEF g
    <3> QED BY <1>1, <2>1, OptionRead
  <2> HIDE DEF g
  <2> QED BY <2>1, <2>2, <2>3, <2>4, Zenon
<1>10. n + 1 <= m => Option(text, [next |-> e, told |-> ToldBy(n)]) = end
  <2>1. CASE l = 0
    <3>1. e > Len(text)
      BY <1>2, <1>5, <1>6, <2>1
    <3>2. Option(text, [next |-> e, told |-> ToldBy(n)]) = [next |-> e, told |-> ToldBy(n)]
      BY <3>1, OptionEnd
    <3>3. e = m + 1 /\ AllTold(n) = ToldBy(n)
      BY <1>6, <1>7, <2>1, Zenon DEF AllTold
    <3> QED BY <3>2, <3>3, Zenon
  <2>2. CASE l # 0
    <3>1. said.script # <<>> /\ l > 0 /\ 1 \in 1..l
      BY <1>5, <1>7, <2>2
    <3>2. said.script[1] \notin Flags \cup DOMAIN IniFile
      BY <3>1 DEF AsWritten
    <3>3. text[e] = said.script[1]
      <4>1. text[e - 1 + 1] = said.script[1]
        BY <1>5, <3>1, Zenon
      <4>2. e - 1 + 1 = e
        BY <1>5
      <4> QED BY <4>1, <4>2, Zenon
    <3>4. e <= Len(text) /\ Len(text) \in Nat
      BY <1>2, <1>5, <1>6, <3>1
    <3>5. Option(text, [next |-> e, told |-> ToldBy(n)])
            = [next |-> Len(text) + 1,
               told |-> [ToldBy(n) EXCEPT !.script = said.script[1], !.argv = SubSeq(text, e + 1, Len(text))]]
      <4>1. PICK word : word = said.script[1]
        OBVIOUS
      <4>2. ScriptAt(text, e, word)
        BY <1>5, <3>2, <3>3, <3>4, <4>1 DEF ScriptAt, WordAt
      <4>3. Option(text, [next |-> e, told |-> ToldBy(n)])
              = [next |-> Len(text) + 1,
                 told |-> [ToldBy(n) EXCEPT !.script = word, !.argv = SubSeq(text, e + 1, Len(text))]]
        BY <4>2, OptionScript
      <4> QED BY <4>1, <4>3, Zenon
    <3>6. SubSeq(text, e + 1, Len(text)) = Tail(said.script)
      <4>1. EndsWith(text, said.script, e, l)
        BY <1>2, <1>3, <1>5, <3>1 DEF EndsWith
      <4> QED BY <4>1, RestOf
    <3> QED BY <1>2, <3>1, <3>5, <3>6, Zenon DEF AllTold, Scripted
  <2> QED BY <2>1, <2>2
<1>11. ASSUME NEW i \in 1..m, i > n PROVE g[i] = Option(text, g[i - 1])
  <2>1. i \in 0..m /\ i - 1 \in 0..m /\ ~(i <= n)
    BY <1>5, <1>11
  <2>2. g[i] = end
    BY <2>1, Zenon
  <2>3. CASE i = n + 1
    <3>1. i - 1 = n /\ n + 1 <= m
      BY <1>5, <2>3
    <3>2. g[n] = [next |-> e, told |-> ToldBy(n)]
      BY <1>4, <1>5, <1>6
    <3> HIDE DEF g
    <3> QED BY <1>10, <2>2, <3>1, <3>2, Zenon
  <2>4. CASE i # n + 1
    <3>1. ~(i - 1 <= n)
      BY <1>11, <2>4
    <3>2. g[i - 1] = end
      BY <2>1, <3>1, Zenon
    <3>3. end.next > Len(text)
      BY <1>2, <1>5
    <3>4. Option(text, end) = end
      BY <3>3, OptionEnd
    <3> HIDE DEF g, end
    <3> QED BY <2>2, <3>2, <3>4, Zenon
  <2> QED BY <2>3, <2>4
<1>12. g[m].told = AllTold(n)
  <2>1. CASE m = n
    <3>1. g[m] = [next |-> at[m + 1], told |-> ToldBy(m)]
      BY <1>5, <2>1
    <3>2. AllTold(n) = ToldBy(n)
      BY <1>6, <1>7, <2>1, Zenon DEF AllTold
    <3> QED BY <2>1, <3>1, <3>2
  <2>2. CASE m # n
    <3>1. m \in 0..m /\ ~(m <= n)
      BY <1>5, <1>6, <2>2
    <3>2. g[m] = end
      BY <3>1, Zenon
    <3> QED BY <3>2
  <2> QED BY <2>1, <2>2
<1> HIDE DEF g
<1>13. g = [i \in 0..m |-> g[i]]
  BY DEF g
<1>14. \A i \in 1..m : g[i] = Option(text, g[i - 1])
  <2> SUFFICES ASSUME NEW i \in 1..m PROVE g[i] = Option(text, g[i - 1])
    OBVIOUS
  <2>1. i <= n \/ i > n
    OBVIOUS
  <2> QED BY <1>9, <1>11, <2>1
<1>15. Reading(g, text, m)
  BY <1>8, <1>13, <1>14, Zenon DEF Reading
<1>16. Options(text) = g[m].told
  BY <1>2, <1>5, <1>15, OptionsBy
<1> QED BY <1>12, <1>16

LEMMA AllToldFields ==
  ASSUME NEW n
  PROVE  /\ AllTold(n).ini = LastIni(n) /\ AllTold(n).serve = LastValue("--serve", n)
         /\ AllTold(n).fastcgi = LastValue("--fastcgi", n) /\ AllTold(n).workers = Workers(n)
         /\ AllTold(n).router = LastValue("--router", n)
         /\ AllTold(n).script = IF said.script = <<>> THEN Default ELSE said.script[1]
         /\ AllTold(n).argv = IF said.script = <<>> THEN <<>> ELSE Tail(said.script)
         /\ AllTold(n).help = No
<1>1. PICK script, argv : /\ script = IF said.script = <<>> THEN Default ELSE said.script[1]
                          /\ argv = IF said.script = <<>> THEN <<>> ELSE Tail(said.script)
  OBVIOUS
<1>2. AllTold(n) = Fields(LastIni(n), LastValue("--serve", n), LastValue("--fastcgi", n), Workers(n),
                          LastValue("--router", n), script, argv, No)
  <2>1. CASE said.script = <<>>
    <3>1. script = Default /\ argv = <<>>
      BY <1>1, <2>1, Zenon
    <3>2. ToldBy(n) = Fields(LastIni(n), LastValue("--serve", n), LastValue("--fastcgi", n), Workers(n),
                             LastValue("--router", n), Default, <<>>, No)
      BY ToldFields
    <3> QED BY <2>1, <3>1, <3>2, Zenon DEF AllTold
  <2>2. CASE said.script # <<>>
    <3>1. script = said.script[1] /\ argv = Tail(said.script)
      BY <1>1, <2>2, Zenon
    <3>2. ToldBy(n) = Fields(LastIni(n), LastValue("--serve", n), LastValue("--fastcgi", n), Workers(n),
                             LastValue("--router", n), Default, <<>>, No)
      BY ToldFields
    <3>3. Scripted(Fields(LastIni(n), LastValue("--serve", n), LastValue("--fastcgi", n), Workers(n),
                          LastValue("--router", n), Default, <<>>, No), script, argv)
            = Fields(LastIni(n), LastValue("--serve", n), LastValue("--fastcgi", n), Workers(n),
                     LastValue("--router", n), script, argv, No)
      BY SetScript
    <3> QED BY <2>2, <3>1, <3>2, <3>3, Zenon DEF AllTold
  <2> QED BY <2>1, <2>2
<1>3. PICK T : T = AllTold(n)
  OBVIOUS
<1>4. /\ T.ini = LastIni(n) /\ T.serve = LastValue("--serve", n)
      /\ T.fastcgi = LastValue("--fastcgi", n) /\ T.workers = Workers(n)
      /\ T.router = LastValue("--router", n) /\ T.script = script /\ T.argv = argv /\ T.help = No
  BY <1>2, <1>3 DEF Fields
<1> QED BY <1>1, <1>3, <1>4, Zenon

LEMMA WorkersType ==
  ASSUME AsWritten, NEW n \in Nat, n = Len(said.options)
  PROVE  Workers(n) \in Int
<1>1. CASE LastValue("--workers", n) = Default
  BY <1>1 DEF Workers
<1>2. CASE LastValue("--workers", n) # Default
  <2>1. PICK T : T = Those({"--workers"}, n)
    OBVIOUS
  <2>2. T # {} /\ LastValue("--workers", n) = said.options[Max(T)][2]
    BY <1>2, <2>1, Zenon DEF LastValue
  <2>3. Max(T) \in T
    BY <2>1, <2>2, ThoseStep
  <2>4. PICK o : o = said.options[Max(T)]
    OBVIOUS
  <2>5. o[1] = "--workers" /\ Max(T) \in 1..n
    BY <2>1, <2>3, <2>4 DEF Those
  <2>6. o \in OptionWords
    BY <2>4, <2>5 DEF AsWritten
  <2>7. "--workers" \notin DOMAIN IniFile
    BY StartAssumption DEF Flags
  <2>8. o[2] \in DOMAIN Number
    BY <2>5, <2>6, <2>7, OptionCases
  <2>9. Number[o[2]] \in Int
    BY <2>8, StartAssumption
  <2> QED BY <1>2, <2>2, <2>4, <2>9, Zenon DEF Workers
<1> QED BY <1>1, <1>2

LEMMA Clipped ==
  ASSUME NEW n \in Int
  PROVE  Clip(n) = Max({1, Min({n, MaxWorkers})})
<1> USE StartAssumption
<1>1. Min({n, MaxWorkers}) = IF n > MaxWorkers THEN MaxWorkers ELSE n
  <2>1. CASE n > MaxWorkers
    <3>1. MaxWorkers \in {n, MaxWorkers} /\ {n, MaxWorkers} \subseteq Int /\ \A y \in {n, MaxWorkers} : y >= MaxWorkers
      BY <2>1
    <3> QED BY <2>1, <3>1, MinIs
  <2>2. CASE ~(n > MaxWorkers)
    <3>1. n \in {n, MaxWorkers} /\ {n, MaxWorkers} \subseteq Int /\ \A y \in {n, MaxWorkers} : y >= n
      BY <2>2
    <3> QED BY <2>2, <3>1, MinIs
  <2> QED BY <2>1, <2>2
<1>2. PICK x : x = Min({n, MaxWorkers})
  OBVIOUS
<1>3. x \in Int
  BY <1>1, <1>2
<1>4. Max({1, x}) = IF x < 1 THEN 1 ELSE x
  <2>1. CASE x < 1
    <3>1. 1 \in {1, x} /\ {1, x} \subseteq Int /\ \A y \in {1, x} : y <= 1
      BY <1>3, <2>1
    <3> QED BY <2>1, <3>1, MaxIs
  <2>2. CASE ~(x < 1)
    <3>1. x \in {1, x} /\ {1, x} \subseteq Int /\ \A y \in {1, x} : y <= x
      BY <1>3, <2>2
    <3> QED BY <2>2, <3>1, MaxIs
  <2> QED BY <2>1, <2>2
<1>5. Clip(n) = IF x < 1 THEN 1 ELSE x
  BY <1>1, <1>2 DEF Clip
<1> QED BY <1>2, <1>4, <1>5

(* The settings of the files that are read.                                *)
LEMMA LoadsAsTold ==
  ASSUME AsWritten, NEW n \in Nat, n = Len(said.options)
  PROVE  LET named == Those(DOMAIN IniFile, n)
             lines == IF named = {} THEN said.lines["system"] \o said.lines["local"]
                      ELSE said.lines[IniFile[said.options[Max(named)][1]]]
         IN AskedFor(Load(said.lines, LastIni(n)), lines)
<1> DEFINE named == Those(DOMAIN IniFile, n)
<1>1. said.lines \in [Files -> Seq(Line)]
  BY DEF AsWritten
<1>2. CASE named = {}
  <2>1. LastIni(n) = Default
    BY <1>2, Zenon DEF LastIni
  <2>2. PICK a \in Seq(Line), b \in Seq(Line) : a = said.lines["system"] /\ b = said.lines["local"]
    BY <1>1, StartAssumption
  <2>3. Load(said.lines, LastIni(n)) = LoadFile(LoadFile(Initial, a), b)
    BY <2>1, <2>2, Zenon DEF Load
  <2>4. LoadFile(LoadFile(Initial, a), b) = LoadFile(Initial, a \o b)
    BY InitialType, LoadJoined
  <2>5. a \o b \in Seq(Line)
    BY JoinType
  <2>6. AskedFor(LoadFile(Initial, a \o b), a \o b)
    BY <2>5, LoadsAskedFor
  <2> QED BY <1>2, <2>2, <2>3, <2>4, <2>6, Zenon
<1>3. CASE named # {}
  <2>1. Max(named) \in named
    BY <1>3, ThoseStep
  <2>2. PICK word : word = said.options[Max(named)][1]
    OBVIOUS
  <2>3. word \in DOMAIN IniFile
    BY <2>1, <2>2 DEF Those
  <2>4. PICK file : file = IniFile[word]
    OBVIOUS
  <2>5. file \in Files /\ file # Default
    BY <2>3, <2>4, StartAssumption
  <2>6. LastIni(n) = file
    BY <1>3, <2>2, <2>4, Zenon DEF LastIni
  <2>7. PICK a \in Seq(Line) : a = said.lines[file]
    BY <1>1, <2>5
  <2>8. Load(said.lines, LastIni(n)) = LoadFile(Initial, a)
    BY <2>5, <2>6, <2>7, Zenon DEF Load
  <2>9. AskedFor(LoadFile(Initial, a), a)
    BY LoadsAskedFor
  <2> QED BY <1>3, <2>2, <2>4, <2>7, <2>8, <2>9, Zenon
<1> QED BY <1>2, <1>3

(* What is laid out so is done as it was told.                             *)
LEMMA StartsRight ==
  ASSUME AsWritten
  PROVE  StartsAsTold
<1>1. PICK n \in Nat : n = Len(said.options)
  BY DEF AsWritten
<1> DEFINE started == Started(text, said.lines)
           script == IF said.script = <<>> THEN Default ELSE said.script[1]
           argv == IF said.script = <<>> THEN <<>> ELSE Tail(said.script)
           asked == IF LastOption("--workers") = Default THEN 4 ELSE Number[LastOption("--workers")]
<1>2. Options(text) = AllTold(n)
  BY <1>1, OptionsRead
<1>3. \A flag : LastOption(flag) = LastValue(flag, n)
  BY <1>1, Zenon DEF LastOption, LastValue
<1>4. asked = Workers(n)
  BY <1>3, Zenon DEF Workers
<1>5. Clip(asked) = Max({1, Min({asked, MaxWorkers})})
  <2>1. asked \in Int
    BY <1>1, <1>4, WorkersType
  <2> HIDE DEF asked
  <2> QED BY <2>1, Clipped
<1>6. /\ AllTold(n).serve = LastOption("--serve") /\ AllTold(n).fastcgi = LastOption("--fastcgi")
      /\ AllTold(n).router = LastOption("--router") /\ AllTold(n).workers = asked
      /\ AllTold(n).script = script /\ AllTold(n).argv = argv /\ AllTold(n).ini = LastIni(n)
      /\ AllTold(n).help = FALSE
  BY <1>3, <1>4, AllToldFields, Zenon DEF No
<1>7. PICK T : T = AllTold(n)
  OBVIOUS
<1>8. started = [runs |-> IF T.help THEN <<"help">>
                          ELSE IF T.serve # Default THEN <<"serve", T.serve, T.script, T.router>>
                          ELSE IF T.fastcgi # Default THEN <<"fastcgi", T.fastcgi, Clip(T.workers)>>
                          ELSE <<"script", T.script, T.argv>>,
                 settings |-> Load(said.lines, T.ini)]
  BY <1>2, <1>7, Zenon DEF Started
<1>9. started.settings = Load(said.lines, LastIni(n))
  BY <1>6, <1>7, <1>8
<1>10. started.runs =
          IF LastOption("--serve") # Default
          THEN <<"serve", LastOption("--serve"), script, LastOption("--router")>>
          ELSE IF LastOption("--fastcgi") # Default
          THEN <<"fastcgi", LastOption("--fastcgi"), Max({1, Min({asked, MaxWorkers})})>>
          ELSE <<"script", script, argv>>
  <2>1. started.runs = IF T.help THEN <<"help">>
                       ELSE IF T.serve # Default THEN <<"serve", T.serve, T.script, T.router>>
                       ELSE IF T.fastcgi # Default THEN <<"fastcgi", T.fastcgi, Clip(T.workers)>>
                       ELSE <<"script", T.script, T.argv>>
    <3> HIDE DEF started
    <3> QED BY <1>8
  <2> HIDE DEF started, script, argv, asked
  <2> QED BY <1>5, <1>6, <1>7, <2>1, Zenon
<1>11. LET named == Those(DOMAIN IniFile, n)
           lines == IF named = {} THEN said.lines["system"] \o said.lines["local"]
                    ELSE said.lines[IniFile[said.options[Max(named)][1]]]
       IN AskedFor(Load(said.lines, LastIni(n)), lines)
  BY <1>1, LoadsAsTold
<1> QED BY <1>1, <1>9, <1>10, <1>11, Zenon DEF StartsAsTold

-----------------------------------------------------------------------------
(* What is written stays laid out as it was written.                       *)
LEMMA NothingWritten == StartInit => AsWritten
<1> SUFFICES ASSUME StartInit PROVE AsWritten
  OBVIOUS
<1> USE DEF StartInit
<1> DEFINE at == [i \in 1..1 |-> 1]
<1>1. said.options = <<>> /\ said.script = <<>> /\ text = <<>>
  OBVIOUS
<1>2. Laid(at, 0, <<>>, <<>>, <<>>)
  BY DEF Laid
<1>3. \E a : Laid(a, Len(said.options), said.options, said.script, text)
  <2>1. Len(said.options) = 0
    BY <1>1
  <2> QED BY <1>1, <1>2, <2>1
<1>4. said \in [options : Seq(OptionWords), script : Seq(Word), lines : [Files -> Seq(Line)]]
  OBVIOUS
<1> QED BY <1>1, <1>3, <1>4 DEF AsWritten

LEMMA OptionWritten ==
  ASSUME AsWritten, NEW words \in OptionWords, WriteOption(words)
  PROVE  AsWritten'
<1> DEFINE n == Len(said.options)
<1>1. PICK at : Laid(at, n, said.options, said.script, text)
  BY DEF AsWritten
<1>2. PICK o : o = said.options
  OBVIOUS
<1>3. PICK t : t = text
  OBVIOUS
<1>4. PICK k : k = n
  OBVIOUS
<1>5. /\ o \in Seq(OptionWords) /\ t \in Seq(Words) /\ k = Len(o) /\ k \in Nat
      /\ words \in Seq(Words) /\ Len(words) \in {1, 2} /\ said.script = <<>>
  BY <1>2, <1>3, <1>4, OptionType DEF AsWritten, WriteOption
<1>6. Laid(at, k, o, <<>>, t)
  BY <1>1, <1>2, <1>3, <1>4, <1>5, Zenon
<1> DEFINE e == at[k + 1]
           next == [j \in 1..(k + 2) |-> IF j = k + 2 THEN e + Len(words) ELSE at[j]]
<1>7. /\ at \in [1..(k + 1) -> Nat \ {0}] /\ e \in Nat /\ e > k /\ Len(t) = e - 1 /\ at[1] = 1
  <2>1. at \in [1..(k + 1) -> Nat \ {0}] /\ e > k /\ Len(t) = e - 1 + Len(<<>>) /\ at[1] = 1
    BY <1>6, Zenon DEF Laid
  <2>2. k + 1 \in 1..(k + 1)
    BY <1>5
  <2> QED BY <2>1, <2>2
<1>8. Laid(next, k + 1, Append(o, words), <<>>, t \o words)
  <2>0. Append(o, words)[k + 1] = words /\ \A j \in 1..k : Append(o, words)[j] = o[j]
    BY <1>5
  <2>1. next \in [1..((k + 1) + 1) -> Nat \ {0}] /\ next[1] = 1
    <3>1. (k + 1) + 1 = k + 2 /\ 1 \in 1..(k + 2) /\ 1 # k + 2 /\ e + Len(words) \in Nat \ {0}
      BY <1>5, <1>7
    <3>2. ASSUME NEW j \in 1..(k + 2), j # k + 2 PROVE at[j] \in Nat \ {0}
      <4>1. j \in 1..(k + 1)
        BY <1>5, <3>2
      <4> QED BY <1>7, <4>1
    <3> QED BY <1>7, <3>1, <3>2
  <2>2. next[(k + 1) + 1] = e + Len(words) /\ next[(k + 1) + 1] > k + 1 /\ next[k + 1] = e
    <3>1. (k + 1) + 1 = k + 2 /\ k + 2 \in 1..(k + 2) /\ k + 1 \in 1..(k + 2) /\ k + 1 # k + 2
      BY <1>5
    <3>2. next[k + 2] = e + Len(words) /\ next[k + 1] = e
      BY <3>1
    <3>3. e + Len(words) > k + 1
      <4>1. PICK d, l : d = e /\ l = Len(words)
        OBVIOUS
      <4>2. d \in Nat /\ d > k /\ (l = 1 \/ l = 2)
        BY <1>5, <1>7, <4>1
      <4>3. d + l > k + 1
        BY <1>5, <4>2
      <4> QED BY <4>1, <4>3
    <3> QED BY <3>1, <3>2, <3>3
  <2>3. Len(t \o words) = next[(k + 1) + 1] - 1 + Len(<<>>)
    <3>1. PICK d, l : d = e /\ l = Len(words)
      OBVIOUS
    <3>2. Len(t \o words) = Len(t) + l /\ d \in Nat /\ Len(t) = d - 1 /\ l \in Nat
      <4>1. Len(t \o words) = Len(t) + Len(words)
        BY <1>5
      <4>2. e \in Nat /\ Len(t) = e - 1
        BY <1>7
      <4>3. Len(words) \in Nat
        BY <1>5
      <4> QED BY <3>1, <4>1, <4>2, <4>3, Zenon
    <3>3. next[(k + 1) + 1] = d + l
      BY <2>2, <3>1
    <3> HIDE DEF next
    <3> QED BY <3>2, <3>3
  <2>4. ASSUME NEW j \in 1..(k + 1)
        PROVE  /\ next[j + 1] = next[j] + Len(Append(o, words)[j])
               /\ next[j + 1] <= next[(k + 1) + 1]
               /\ (t \o words)[next[j]] = Append(o, words)[j][1]
               /\ Len(Append(o, words)[j]) = 2 => (t \o words)[next[j] + 1] = Append(o, words)[j][2]
    <3>1. CASE j = k + 1
      <4>1. (t \o words)[e] = words[1] /\ (Len(words) = 2 => (t \o words)[e + 1] = words[2])
        BY <1>5, <1>7
      <4>2. next[j] = e /\ next[j + 1] = e + Len(words) /\ Append(o, words)[j] = words
        BY <2>0, <2>2, <3>1
      <4>3. next[j + 1] <= next[(k + 1) + 1]
        BY <1>5, <1>7, <2>2, <4>2
      <4> HIDE DEF next
      <4> QED BY <4>1, <4>2, <4>3, Zenon
    <3>2. CASE j # k + 1
      <4>1. j \in 1..k /\ j + 1 # k + 2 /\ j # k + 2 /\ j \in 1..(k + 2) /\ j + 1 \in 1..(k + 2)
            /\ j \in 1..(k + 1) /\ j + 1 \in 1..(k + 1)
        BY <1>5, <3>2
      <4>2. next[j] = at[j] /\ next[j + 1] = at[j + 1] /\ at[j] \in Nat /\ at[j + 1] \in Nat
        BY <1>7, <4>1
      <4>3. PICK w : w = o[j]
        OBVIOUS
      <4>4. w \in OptionWords
        BY <1>5, <4>1, <4>3
      <4>5. w \in Seq(Words) /\ Len(w) \in {1, 2}
        BY <4>4, OptionType
      <4>6. /\ at[j + 1] = at[j] + Len(w) /\ at[j + 1] <= e
            /\ t[at[j]] = w[1] /\ (Len(w) = 2 => t[at[j] + 1] = w[2])
        BY <1>6, <4>1, <4>3, Zenon DEF Laid
      <4>7. Append(o, words)[j] = w
        BY <2>0, <4>1, <4>3
      <4>8. at[j] \in 1..Len(t) /\ (Len(w) = 2 => at[j] + 1 \in 1..Len(t))
        <5>1. PICK a, b, d, l : a = at[j] /\ b = at[j + 1] /\ d = e /\ l = Len(w)
          OBVIOUS
        <5>2. /\ a \in Nat \ {0} /\ b = a + l /\ b <= d /\ d \in Nat /\ Len(t) = d - 1
              /\ (l = 1 \/ l = 2)
          BY <1>7, <4>1, <4>2, <4>5, <4>6, <5>1
        <5>3. a \in 1..(d - 1) /\ (l = 2 => a + 1 \in 1..(d - 1))
          BY <5>2
        <5> QED BY <5>1, <5>2, <5>3, Zenon
      <4>9. (t \o words)[at[j]] = w[1] /\ (Len(w) = 2 => (t \o words)[at[j] + 1] = w[2])
        <5>1. \A i \in 1..Len(t) : (t \o words)[i] = t[i]
          BY <1>5
        <5>2. PICK a, b : a = at[j] /\ b = at[j] + 1
          OBVIOUS
        <5>3. /\ a \in 1..Len(t) /\ t[a] = w[1] /\ (Len(w) = 2 => b \in 1..Len(t) /\ t[b] = w[2])
          BY <4>6, <4>8, <5>2, Zenon
        <5>4. (t \o words)[a] = w[1] /\ (Len(w) = 2 => (t \o words)[b] = w[2])
          BY <5>1, <5>3, Zenon
        <5> QED BY <5>2, <5>4, Zenon
      <4>10. at[j + 1] <= e + Len(words)
        BY <1>5, <1>7, <4>2, <4>6
      <4> HIDE DEF next
      <4> QED BY <2>2, <4>2, <4>6, <4>7, <4>9, <4>10, Zenon
    <3> QED BY <3>1, <3>2
  <2>5. \A i \in 1..Len(<<>>) : (t \o words)[next[(k + 1) + 1] - 1 + i] = <<>>[i]
    OBVIOUS
  <2>6. next[(k + 1) + 1] > k + 1
    BY <2>2
  <2> HIDE DEF next
  <2> QED BY <2>1, <2>3, <2>4, <2>5, <2>6, Zenon DEF Laid
<1> HIDE DEF next
<1>9. /\ said'.options = Append(o, words) /\ said'.script = <<>> /\ said'.lines = said.lines
      /\ text' = t \o words /\ kind' = "start"
  BY <1>2, <1>3, <1>5 DEF AsWritten, WriteOption
<1>10. said' \in [options : Seq(OptionWords), script : Seq(Word), lines : [Files -> Seq(Line)]]
  <2>1. said' = [said EXCEPT !.options = Append(o, words)] /\ Append(o, words) \in Seq(OptionWords)
    BY <1>2, <1>5 DEF WriteOption
  <2> QED BY <2>1 DEF AsWritten
<1>11. Len(said'.options) = k + 1 /\ text' \in Seq(Words)
  BY <1>5, <1>9
<1>12. \E a : Laid(a, Len(said'.options), said'.options, said'.script, text')
  BY <1>8, <1>9, <1>11, Zenon
<1> QED BY <1>9, <1>10, <1>11, <1>12, Zenon DEF AsWritten

LEMMA ScriptWritten ==
  ASSUME AsWritten, NEW word \in Word, WriteScript(word)
  PROVE  AsWritten'
<1> DEFINE n == Len(said.options)
<1>1. PICK at : Laid(at, n, said.options, said.script, text)
  BY DEF AsWritten
<1>2. PICK k : k = n
  OBVIOUS
<1>3. PICK t : t = text
  OBVIOUS
<1>4. PICK s : s = said.script
  OBVIOUS
<1>5. t \in Seq(Words) /\ s \in Seq(Word) /\ word \in Words /\ k \in Nat
  BY <1>2, <1>3, <1>4 DEF AsWritten, Words
<1>6. PICK o : o = said.options
  OBVIOUS
<1>7. Laid(at, k, o, s, t)
  BY <1>1, <1>2, <1>3, <1>4, <1>6, Zenon
<1> DEFINE e == at[k + 1]
<1>8. /\ at \in [1..(k + 1) -> Nat \ {0}] /\ e \in Nat \ {0} /\ e > k /\ Len(t) = e - 1 + Len(s)
      /\ \A i \in 1..Len(s) : t[e - 1 + i] = s[i]
  <2>1. at \in [1..(k + 1) -> Nat \ {0}] /\ e > k /\ Len(t) = e - 1 + Len(s)
        /\ \A i \in 1..Len(s) : t[e - 1 + i] = s[i]
    BY <1>7, Zenon DEF Laid
  <2>2. k + 1 \in 1..(k + 1)
    BY <1>5
  <2> QED BY <2>1, <2>2
<1>9. Laid(at, k, o, Append(s, word), Append(t, word))
  <2>1. ASSUME NEW j \in 1..k
        PROVE  /\ Append(t, word)[at[j]] = o[j][1]
               /\ Len(o[j]) = 2 => Append(t, word)[at[j] + 1] = o[j][2]
    <3>1. PICK w : w = o[j]
      OBVIOUS
    <3>2. w \in OptionWords
      BY <1>2, <1>6, <3>1 DEF AsWritten
    <3>3. Len(w) \in {1, 2}
      BY <3>2, OptionType
    <3>4. /\ at[j + 1] = at[j] + Len(w) /\ at[j + 1] <= e
          /\ t[at[j]] = w[1] /\ (Len(w) = 2 => t[at[j] + 1] = w[2])
      BY <1>7, <3>1, Zenon DEF Laid
    <3>5. j \in 1..(k + 1) /\ j + 1 \in 1..(k + 1)
      BY <1>5
    <3>6. PICK a, b, d, l : a = at[j] /\ b = at[j + 1] /\ d = e /\ l = Len(w)
      OBVIOUS
    <3>7. a \in Nat \ {0} /\ b = a + l /\ b <= d /\ d \in Nat \ {0} /\ (l = 1 \/ l = 2)
      BY <1>8, <3>3, <3>4, <3>5, <3>6
    <3>8. PICK m : m = Len(t)
      OBVIOUS
    <3>9. m \in Nat /\ Len(s) \in Nat /\ m = d - 1 + Len(s)
      BY <1>5, <1>8, <3>6, <3>8
    <3>10. a \in 1..m /\ (l = 2 => a + 1 \in 1..m)
      BY <3>7, <3>9
    <3>11. \A i \in 1..m : Append(t, word)[i] = t[i]
      BY <1>5, <3>8
    <3>12. PICK c : c = a + 1
      OBVIOUS
    <3>13. t[a] = w[1] /\ (l = 2 => t[c] = w[2])
      BY <3>4, <3>6, <3>12, Zenon
    <3>14. Append(t, word)[a] = w[1] /\ (l = 2 => Append(t, word)[c] = w[2])
      BY <3>10, <3>11, <3>12, <3>13, Zenon
    <3> QED BY <3>1, <3>6, <3>12, <3>14, Zenon
  <2>2. PICK l : l = Len(s)
    OBVIOUS
  <2>3. /\ l \in Nat /\ Len(Append(s, word)) = l + 1 /\ Len(Append(t, word)) = e - 1 + (l + 1)
        /\ Append(s, word)[l + 1] = word /\ Append(t, word)[e - 1 + (l + 1)] = word
        /\ \A i \in 1..l : Append(s, word)[i] = s[i]
        /\ \A i \in 1..(e - 1 + l) : Append(t, word)[i] = t[i]
    <3>1. PICK d, m : d = e /\ m = Len(t)
      OBVIOUS
    <3>2. d \in Nat /\ m \in Nat /\ l \in Nat /\ m = d - 1 + l
      BY <1>5, <1>8, <2>2, <3>1
    <3>3. m + 1 = d - 1 + (l + 1)
      BY <3>2
    <3>4. /\ Len(Append(t, word)) = m + 1 /\ Append(t, word)[m + 1] = word
          /\ \A i \in 1..m : Append(t, word)[i] = t[i]
      BY <1>5, <3>1
    <3>5. /\ Len(Append(s, word)) = l + 1 /\ Append(s, word)[l + 1] = word
          /\ \A i \in 1..l : Append(s, word)[i] = s[i]
      BY <1>5, <2>2
    <3> QED BY <3>1, <3>2, <3>3, <3>4, <3>5, Zenon
  <2>4. ASSUME NEW i \in 1..(l + 1)
        PROVE  Append(t, word)[e - 1 + i] = Append(s, word)[i]
    <3>1. CASE i = l + 1
      BY <2>3, <3>1, Zenon
    <3>2. CASE i # l + 1
      <4>1. i \in 1..l
        BY <2>3, <3>2
      <4>2. PICK d : d = e
        OBVIOUS
      <4>3. d \in Nat \ {0}
        BY <1>8, <4>2
      <4>4. d - 1 + i \in 1..(d - 1 + l)
        BY <2>3, <4>1, <4>3
      <4>5. Append(t, word)[d - 1 + i] = t[d - 1 + i]
        BY <2>3, <4>2, <4>4, Zenon
      <4>6. t[d - 1 + i] = s[i]
        BY <1>8, <2>2, <4>1, <4>2, Zenon
      <4> QED BY <2>3, <4>1, <4>2, <4>5, <4>6, Zenon
    <3> QED BY <3>1, <3>2
  <2>5. PICK s1, t1 : s1 = Append(s, word) /\ t1 = Append(t, word)
    OBVIOUS
  <2>6. Len(t1) = e - 1 + Len(s1) /\ \A i \in 1..Len(s1) : t1[e - 1 + i] = s1[i]
    BY <2>3, <2>4, <2>5, Zenon
  <2>7. \A j \in 1..k : t1[at[j]] = o[j][1] /\ (Len(o[j]) = 2 => t1[at[j] + 1] = o[j][2])
    BY <2>1, <2>5, Zenon
  <2>8. Laid(at, k, o, s1, t1)
    BY <1>7, <2>6, <2>7, Zenon DEF Laid
  <2> QED BY <2>5, <2>8
<1>10. /\ said'.options = o /\ said'.script = Append(s, word) /\ text' = Append(t, word)
       /\ kind' = "start" /\ (s = <<>> => word \notin Flags \cup DOMAIN IniFile)
  BY <1>3, <1>4, <1>6 DEF AsWritten, WriteScript
<1>11. said' \in [options : Seq(OptionWords), script : Seq(Word), lines : [Files -> Seq(Line)]]
  <2>1. said' = [said EXCEPT !.script = Append(s, word)] /\ Append(s, word) \in Seq(Word)
    BY <1>4, <1>5 DEF WriteScript
  <2> QED BY <2>1 DEF AsWritten
<1>12. text' \in Seq(Words)
  BY <1>5, <1>10
<1>13. said'.script[1] \notin Flags \cup DOMAIN IniFile
  <2>1. CASE s = <<>>
    <3>1. Append(s, word)[1] = word
      BY <2>1
    <3> QED BY <1>10, <2>1, <3>1, Zenon
  <2>2. CASE s # <<>>
    <3>1. Append(s, word)[1] = s[1]
      BY <1>5, <2>2
    <3>2. s[1] \notin Flags \cup DOMAIN IniFile
      BY <1>4, <2>2, Zenon DEF AsWritten
    <3> QED BY <1>10, <3>1, <3>2, Zenon
  <2> QED BY <2>1, <2>2
<1>14. Laid(at, Len(said'.options), said'.options, said'.script, text')
  BY <1>2, <1>6, <1>9, <1>10, Zenon
<1> QED BY <1>10, <1>11, <1>12, <1>13, <1>14, Zenon DEF AsWritten

LEMMA LineWritten ==
  ASSUME AsWritten, NEW file \in Files, NEW key \in Key, NEW value \in Value, WriteLine(file, key, value)
  PROVE  AsWritten'
<1>1. PICK line : line = [key |-> key, value |-> value]
  OBVIOUS
<1>2. line \in Line
  BY <1>1 DEF Line
<1>3. said' = [said EXCEPT !.lines[file] = Append(@, line)] /\ kind' = kind /\ text' = text
  BY <1>1 DEF WriteLine
<1>4. said' \in [options : Seq(OptionWords), script : Seq(Word), lines : [Files -> Seq(Line)]]
  <2>1. said.lines \in [Files -> Seq(Line)]
    BY DEF AsWritten
  <2>2. PICK more : more = [said.lines EXCEPT ![file] = Append(@, line)]
    OBVIOUS
  <2>3. more \in [Files -> Seq(Line)]
    <3>1. Append(said.lines[file], line) \in Seq(Line)
      BY <1>2, <2>1
    <3> QED BY <2>1, <2>2, <3>1
  <2>4. said' = [said EXCEPT !.lines = more]
    BY <1>3, <2>2, Zenon
  <2> QED BY <2>3, <2>4 DEF AsWritten
<1>5. said'.options = said.options /\ said'.script = said.script
  BY <1>3 DEF AsWritten
<1> QED BY <1>3, <1>4, <1>5, Zenon DEF AsWritten

(* StartSpec: the program, started with any command line and any ini files *)
(* there may be, does what the last of the options say, with the settings  *)
(* that the last lines of its files ask for (main, config_load).           *)
THEOREM StartCorrect == StartSpec => []StartsAsTold
<1>1. AsWritten /\ [StartNext]_<<kind, text, said>> => AsWritten'
  <2> SUFFICES ASSUME AsWritten, [StartNext]_<<kind, text, said>> PROVE AsWritten'
    OBVIOUS
  <2>1. ASSUME NEW word \in DOMAIN IniFile, WriteOption(<<word>>) PROVE AsWritten'
    <3>1. <<word>> \in OptionWords
      BY DEF OptionWords
    <3> QED BY <2>1, <3>1, OptionWritten
  <2>2. ASSUME NEW flag \in {"--serve", "--fastcgi", "--router"}, NEW value \in Word,
               WriteOption(<<flag, value>>)
        PROVE  AsWritten'
    <3>1. <<flag, value>> \in OptionWords
      BY DEF OptionWords
    <3> QED BY <2>2, <3>1, OptionWritten
  <2>3. ASSUME NEW value \in DOMAIN Number, WriteOption(<<"--workers", value>>) PROVE AsWritten'
    <3>1. <<"--workers", value>> \in OptionWords
      BY DEF OptionWords
    <3> QED BY <2>3, <3>1, OptionWritten
  <2>4. ASSUME NEW word \in Word, WriteScript(word) PROVE AsWritten'
    BY <2>4, ScriptWritten
  <2>5. ASSUME NEW file \in Files, NEW key \in Key, NEW value \in Value, WriteLine(file, key, value)
        PROVE  AsWritten'
    BY <2>5, LineWritten
  <2>6. CASE UNCHANGED <<kind, text, said>>
    BY <2>6, Zenon DEF AsWritten
  <2> QED BY <2>1, <2>2, <2>3, <2>4, <2>5, <2>6, Zenon DEF StartNext
<1> QED BY NothingWritten, <1>1, StartsRight, PTL DEF StartSpec

-----------------------------------------------------------------------------
(* memmem, character by character.                                         *)
Occurs(s, i, p) == \A q \in 1..Len(p) : s[i + q - 1] = p[q]

Match(s, i, p) == SubSeq(s, i, i + Len(p) - 1) = p

Fits(s, i, p) == i >= 1 /\ i + Len(p) - 1 <= Len(s)

LEMMA MatchOccurs ==
  ASSUME NEW S, NEW s \in Seq(S), NEW p \in Seq(S), NEW i \in Nat, Fits(s, i, p)
  PROVE  Match(s, i, p) <=> Occurs(s, i, p)
<1>0. PICK l \in Nat : l = Len(p)
  OBVIOUS
<1>1. i \in Int /\ i + l - 1 \in Int /\ \A j \in i..(i + l - 1) : s[j] \in S
  BY <1>0 DEF Fits
<1> DEFINE t == SubSeq(s, i, i + l - 1)
<1>2. /\ t \in Seq(S) /\ Len(t) = l
      /\ \A q \in 1..l : t[q] = s[i + q - 1]
  <2>1. /\ t \in Seq(S)
        /\ Len(t) = IF i <= i + l - 1 THEN (i + l - 1) - i + 1 ELSE 0
        /\ \A q \in 1..((i + l - 1) - i + 1) : t[q] = s[i + q - 1]
    <3> HIDE DEF t
    <3> QED BY <1>1, SubSeqProperties DEF t
  <2> HIDE DEF t
  <2> QED BY <2>1
<1> HIDE DEF t
<1>3. Match(s, i, p) <=> t = p
  BY <1>0 DEF Match, t
<1>4. ASSUME Occurs(s, i, p) PROVE t = p
  <2>1. \A q \in 1..l : t[q] = p[q]
    BY <1>0, <1>2, <1>4 DEF Occurs
  <2> QED BY <1>0, <1>2, <2>1, SeqEqual
<1>5. ASSUME t = p PROVE Occurs(s, i, p)
  BY <1>0, <1>2, <1>5 DEF Occurs
<1> QED BY <1>3, <1>4, <1>5

(* A stretch of a text, the second end excluded.                           *)
Stretch(s, from, to) == from \in Nat \ {0} /\ to \in Nat /\ to <= Len(s) + 1

FirstAt(s, from, to, p, i) ==
  /\ i \in from..(to - Len(p)) /\ Occurs(s, i, p)
  /\ \A m \in from..(i - 1) : ~Occurs(s, m, p)

Nowhere(s, from, to, p) == \A m \in from..(to - Len(p)) : ~Occurs(s, m, p)

LEMMA FindFirst ==
  ASSUME NEW S, NEW s \in Seq(S), NEW p \in Seq(S), NEW from, NEW to, Stretch(s, from, to),
         NEW i, FirstAt(s, from, to, p, i)
  PROVE  Find(s, from, to, p) = i
<1> DEFINE found == {m \in from..(to - Len(p)) : Match(s, m, p)}
<1>0. PICK l \in Nat : l = Len(p)
  OBVIOUS
<1>1. \A m \in from..(to - l) : m \in Nat /\ Fits(s, m, p)
  BY <1>0 DEF Stretch, Fits
<1>2. i \in found /\ \A j \in found : i <= j
  <2>1. i \in from..(to - l) /\ \A m \in from..(to - l) : Match(s, m, p) <=> Occurs(s, m, p)
    BY <1>0, <1>1, MatchOccurs DEF FirstAt
  <2>2. i \in found
    BY <1>0, <2>1 DEF FirstAt
  <2>3. ASSUME NEW j \in found, j < i PROVE FALSE
    BY <1>0, <2>1, <2>3 DEF FirstAt, Stretch
  <2>4. found \subseteq Int /\ i \in Int
    BY <1>0, <2>1 DEF Stretch
  <2> HIDE DEF found
  <2> QED BY <2>2, <2>3, <2>4
<1>3. Find(s, from, to, p) = IF found = {} THEN 0 ELSE CHOOSE x \in found : \A j \in found : x <= j
  BY Zenon DEF Find, Match
<1>4. found \subseteq Int
  BY <1>0 DEF Stretch
<1> HIDE DEF found
<1>5. \A x \in found : (\A j \in found : x <= j) => x = i
  BY <1>2, <1>4
<1>6. (CHOOSE x \in found : \A j \in found : x <= j) = i
  BY <1>2, <1>5, Zenon
<1> QED BY <1>2, <1>3, <1>6, Zenon

LEMMA FindNone ==
  ASSUME NEW S, NEW s \in Seq(S), NEW p \in Seq(S), NEW from, NEW to, Stretch(s, from, to)
  PROVE  /\ Nowhere(s, from, to, p) => Find(s, from, to, p) = 0
         /\ Find(s, from, to, p) = 0 => Nowhere(s, from, to, p)
<1> DEFINE found == {m \in from..(to - Len(p)) : Match(s, m, p)}
<1>0. PICK l \in Nat : l = Len(p)
  OBVIOUS
<1>1. \A m \in from..(to - l) : m \in Nat /\ Fits(s, m, p)
  BY <1>0 DEF Stretch, Fits
<1>2. \A m \in from..(to - l) : Match(s, m, p) <=> Occurs(s, m, p)
  BY <1>1, MatchOccurs
<1>3. Nowhere(s, from, to, p) <=> found = {}
  BY <1>0, <1>2 DEF Nowhere
<1>4. Find(s, from, to, p) = IF found = {} THEN 0 ELSE CHOOSE x \in found : \A j \in found : x <= j
  BY Zenon DEF Find, Match
<1>5. ASSUME found # {} PROVE Find(s, from, to, p) # 0
  <2>1. found \subseteq Nat /\ 0 \notin found
    BY <1>0 DEF Stretch
  <2> HIDE DEF found
  <2>2. \E x \in found : \A j \in found : x <= j
    BY <1>5, <2>1, LeastOne
  <2> QED BY <1>4, <1>5, <2>1, <2>2
<1> HIDE DEF found
<1> QED BY <1>3, <1>4, <1>5
-----------------------------------------------------------------------------
(* A body: where its parts are.                                            *)
LEMMA Single ==
  ASSUME NEW S, NEW c \in S
  PROVE  <<c>> \in Seq(S) /\ Len(<<c>>) = 1 /\ <<c>>[1] = c
OBVIOUS

LEMMA Double ==
  ASSUME NEW S, NEW c \in S, NEW d \in S
  PROVE  <<c, d>> \in Seq(S) /\ Len(<<c, d>>) = 2 /\ <<c, d>>[1] = c /\ <<c, d>>[2] = d
OBVIOUS

Symbols == Char \cup {"-", "B", "CR", "LF"} \cup DOMAIN Headers
BodyParts == [header : DOMAIN Headers, data : Seq(Char)]

PartAt(t, p, part) ==
  LET l == Len(part.data)
  IN /\ t[p] = "-" /\ t[p + 1] = "-" /\ t[p + 2] = "B" /\ t[p + 3] = "CR" /\ t[p + 4] = "LF"
     /\ t[p + 5] = part.header
     /\ t[p + 6] = "CR" /\ t[p + 7] = "LF" /\ t[p + 8] = "CR" /\ t[p + 9] = "LF"
     /\ \A q \in 1..l : t[p + 9 + q] = part.data[q]
     /\ t[p + 10 + l] = "CR" /\ t[p + 11 + l] = "LF"

LEMMA PartTextIs ==
  ASSUME NEW part \in BodyParts
  PROVE  /\ PartText(part) \in Seq(Symbols)
         /\ Len(PartText(part)) = 12 + Len(part.data)
         /\ PartAt(PartText(part), 1, part)
<1>0. PICK d \in Seq(Char), h \in DOMAIN Headers : d = part.data /\ h = part.header
  BY DEF BodyParts
<1>1. PICK l \in Nat : l = Len(d)
  OBVIOUS
<1> DEFINE head == Boundary \o <<"CR", "LF", h, "CR", "LF", "CR", "LF">>
           mid == head \o d
           all == mid \o <<"CR", "LF">>
<1>2. /\ head \in Seq(Symbols) /\ Len(head) = 10
      /\ head[1] = "-" /\ head[2] = "-" /\ head[3] = "B" /\ head[4] = "CR" /\ head[5] = "LF"
      /\ head[6] = h /\ head[7] = "CR" /\ head[8] = "LF" /\ head[9] = "CR" /\ head[10] = "LF"
  BY DEF Boundary, Symbols
<1>3. d \in Seq(Symbols)
  BY DEF Symbols
<1> HIDE DEF head
<1>4. /\ mid \in Seq(Symbols) /\ Len(mid) = 10 + l
      /\ \A i \in 1..10 : mid[i] = head[i]
      /\ \A q \in 1..l : mid[10 + q] = d[q]
  <2>1. /\ mid \in Seq(Symbols) /\ Len(mid) = Len(head) + Len(d)
        /\ \A i \in 1..Len(head) + Len(d) : mid[i] = IF i <= Len(head) THEN head[i] ELSE d[i - Len(head)]
    BY <1>2, <1>3, ConcatProperties
  <2>2. /\ mid \in Seq(Symbols) /\ Len(mid) = 10 + l
        /\ \A i \in 1..(10 + l) : mid[i] = IF i <= 10 THEN head[i] ELSE d[i - 10]
    BY <1>1, <1>2, <2>1, Zenon
  <2> HIDE DEF mid
  <2> QED BY <1>1, <2>2
<1> HIDE DEF mid
<1>5. /\ all \in Seq(Symbols) /\ Len(all) = 12 + l
      /\ \A i \in 1..(10 + l) : all[i] = mid[i]
      /\ all[11 + l] = "CR" /\ all[12 + l] = "LF"
  <2>1. PICK end \in Seq(Symbols) : end = <<"CR", "LF">> /\ Len(end) = 2 /\ end[1] = "CR" /\ end[2] = "LF"
    <3>1. "CR" \in Symbols /\ "LF" \in Symbols
      BY DEF Symbols
    <3>2. /\ <<"CR", "LF">> \in Seq(Symbols) /\ Len(<<"CR", "LF">>) = 2
          /\ <<"CR", "LF">>[1] = "CR" /\ <<"CR", "LF">>[2] = "LF"
      BY <3>1, Double
    <3> QED BY <3>2, Zenon
  <2>2. /\ mid \o end \in Seq(Symbols) /\ Len(mid \o end) = Len(mid) + Len(end)
        /\ \A i \in 1..Len(mid) + Len(end) : (mid \o end)[i] = IF i <= Len(mid) THEN mid[i] ELSE end[i - Len(mid)]
    BY <1>4, <2>1, ConcatProperties
  <2>3. (10 + l) + 2 = 12 + l
    BY <1>1
  <2>4. /\ all \in Seq(Symbols) /\ Len(all) = 12 + l
        /\ \A i \in 1..(12 + l) : all[i] = IF i <= 10 + l THEN mid[i] ELSE end[i - (10 + l)]
    BY <1>4, <2>1, <2>2, <2>3, Zenon
  <2> HIDE DEF all
  <2>5. ASSUME NEW i \in 1..(10 + l) PROVE all[i] = mid[i]
    <3>1. i \in 1..(12 + l) /\ i <= 10 + l
      BY <1>1
    <3> QED BY <2>4, <3>1, Zenon
  <2>6. /\ 11 + l \in 1..(12 + l) /\ ~(11 + l <= 10 + l) /\ (11 + l) - (10 + l) = 1
        /\ 12 + l \in 1..(12 + l) /\ ~(12 + l <= 10 + l) /\ (12 + l) - (10 + l) = 2
    BY <1>1
  <2>7. all[11 + l] = "CR" /\ all[12 + l] = "LF"
    BY <2>1, <2>4, <2>6, Zenon
  <2> QED BY <2>4, <2>5, <2>7
<1>6. PartText(part) = all
  BY <1>0, Zenon DEF PartText, all, mid, head
<1> HIDE DEF all
<1>7. \A i \in 1..10 : all[i] = head[i]
  BY <1>1, <1>4, <1>5
<1>8. \A q \in 1..l : all[10 + q] = d[q]
  BY <1>1, <1>4, <1>5
<1>9. /\ all[1 + 10 + l] = "CR" /\ all[1 + 11 + l] = "LF"
      /\ \A q \in 1..l : all[1 + 9 + q] = d[q]
  BY <1>1, <1>5, <1>8
<1>10. PartAt(all, 1, part)
  BY <1>0, <1>1, <1>2, <1>7, <1>9 DEF PartAt
<1> QED BY <1>0, <1>1, <1>5, <1>6, <1>10

Upto(parts, j) == [i \in 1..j |-> PartText(parts[i])]
Flat(parts, j) == FlattenSeq(Upto(parts, j))

LEMMA FlatStep ==
  ASSUME NEW parts \in Seq(BodyParts), NEW j \in Nat, j < Len(parts)
  PROVE  /\ Flat(parts, j) \in Seq(Symbols)
         /\ Flat(parts, j + 1) = Flat(parts, j) \o PartText(parts[j + 1])
<1>1. \A i \in 1..(j + 1) : parts[i] \in BodyParts
  OBVIOUS
<1>2. Upto(parts, j) \in Seq(Seq(Symbols)) /\ Len(Upto(parts, j)) = j /\ PartText(parts[j + 1]) \in Seq(Symbols)
  BY <1>1, PartTextIs DEF Upto
<1>3. Longer(Upto(parts, j + 1), Upto(parts, j), j, PartText(parts[j + 1]))
  BY DEF Longer, Upto
<1>4. Upto(parts, j + 1) = Append(Upto(parts, j), PartText(parts[j + 1]))
  BY <1>2, <1>3, OneMore
<1> QED BY <1>2, <1>4, FlattenAppend DEF Flat

LEMMA FlatNone == ASSUME NEW parts PROVE Flat(parts, 0) = <<>>
BY FlattenNone DEF Flat, Upto

LEMMA FlatType ==
  ASSUME NEW parts \in Seq(BodyParts), NEW j \in Nat, j <= Len(parts)
  PROVE  Flat(parts, j) \in Seq(Symbols)
<1>1. CASE j = 0
  <2>1. Flat(parts, j) = <<>>
    BY <1>1, FlatNone, Zenon
  <2>2. <<>> \in Seq(Symbols)
    OBVIOUS
  <2> QED BY <2>1, <2>2, Zenon
<1>2. CASE j # 0
  <2>1. PICK m \in Nat : j = m + 1 /\ m < Len(parts)
    <3>1. j - 1 \in Nat /\ j = (j - 1) + 1 /\ j - 1 < Len(parts)
      BY <1>2
    <3> QED BY <3>1
  <2>2. parts[m + 1] \in BodyParts
    BY <2>1
  <2>3. PartText(parts[m + 1]) \in Seq(Symbols)
    BY <2>2, PartTextIs
  <2>4. Flat(parts, m) \in Seq(Symbols) /\ Flat(parts, m + 1) = Flat(parts, m) \o PartText(parts[m + 1])
    BY <2>1, FlatStep
  <2>5. Flat(parts, m + 1) \in Seq(Symbols)
    BY <2>3, <2>4, JoinType
  <2> QED BY <2>1, <2>5, Zenon
<1> QED BY <1>1, <1>2

Begins(s, t) == Len(s) <= Len(t) /\ \A i \in 1..Len(s) : t[i] = s[i]

LEMMA BeginsJoin ==
  ASSUME NEW S, NEW s \in Seq(S), NEW t \in Seq(S), NEW x \in Seq(S), Begins(s, t)
  PROVE  Begins(s, t \o x)
BY ConcatProperties DEF Begins

LEMMA FlatBegins ==
  ASSUME NEW parts \in Seq(BodyParts), NEW j \in Nat, NEW m \in Nat, j <= m, m <= Len(parts)
  PROVE  Begins(Flat(parts, j), Flat(parts, m))
<1> DEFINE P == {d \in Nat : j + d <= Len(parts) => Begins(Flat(parts, j), Flat(parts, j + d))}
<1>1. 0 \in P
  <2>1. Begins(Flat(parts, j), Flat(parts, j))
    BY FlatType DEF Begins
  <2>2. j + 0 = j
    OBVIOUS
  <2> QED BY <2>1, <2>2, Zenon
<1>2. \A d \in Nat : d \in P => d + 1 \in P
  <2>1. SUFFICES ASSUME NEW d \in Nat, d \in P, j + (d + 1) <= Len(parts)
                 PROVE  Begins(Flat(parts, j), Flat(parts, j + (d + 1)))
    OBVIOUS
  <2>2. PICK e \in Nat : e = j + d
    OBVIOUS
  <2>3. e < Len(parts) /\ j + (d + 1) = e + 1
    BY <2>1, <2>2
  <2>4. Begins(Flat(parts, j), Flat(parts, e))
    BY <2>1, <2>2, <2>3
  <2>5. PartText(parts[e + 1]) \in Seq(Symbols)
    <3>1. parts[e + 1] \in BodyParts
      BY <2>3
    <3> QED BY <3>1, PartTextIs
  <2>6. Flat(parts, e + 1) = Flat(parts, e) \o PartText(parts[e + 1])
    BY <2>3, FlatStep
  <2>7. Flat(parts, j) \in Seq(Symbols) /\ Flat(parts, e) \in Seq(Symbols)
    BY <2>3, FlatType
  <2>8. Begins(Flat(parts, j), Flat(parts, e) \o PartText(parts[e + 1]))
    BY <2>4, <2>5, <2>7, BeginsJoin
  <2> QED BY <2>3, <2>6, <2>8, Zenon
<1> HIDE DEF P
<1>3. m - j \in P
  BY <1>1, <1>2, NatSet
<1>4. j + (m - j) = m
  OBVIOUS
<1> QED BY <1>3, <1>4 DEF P

CloseAt(t, p) == t[p] = "-" /\ t[p + 1] = "-" /\ t[p + 2] = "B" /\ t[p + 3] = "-" /\ t[p + 4] = "-"

(* at[j] is where the jth part starts, and the last one where all end.     *)
PartsAt(t, parts, at) ==
  LET n == Len(parts)
  IN /\ t \in Seq(Symbols) /\ Len(t) = at[n + 1] + 4
     /\ at \in [1..(n + 1) -> Nat] /\ at[1] = 1
     /\ \A j \in 1..n : at[j + 1] = at[j] + 12 + Len(parts[j].data)
     /\ \A j \in 1..n : PartAt(t, at[j], parts[j])
     /\ CloseAt(t, at[n + 1])

LEMMA Shifted ==
  ASSUME NEW part \in BodyParts, NEW t, NEW u, NEW p \in Nat, PartAt(u, 1, part),
         \A i \in 1..(12 + Len(part.data)) : t[p + i] = u[i]
  PROVE  PartAt(t, p + 1, part)
<1>0. PICK l \in Nat, d \in Seq(Char) : l = Len(d) /\ d = part.data
  BY DEF BodyParts
<1>1. \A i \in 1..(12 + l) : t[p + i] = u[i]
  BY <1>0
<1>2. /\ t[p + 1] = u[1] /\ t[p + 2] = u[2] /\ t[p + 3] = u[3] /\ t[p + 4] = u[4] /\ t[p + 5] = u[5]
      /\ t[p + 6] = u[6] /\ t[p + 7] = u[7] /\ t[p + 8] = u[8] /\ t[p + 9] = u[9] /\ t[p + 10] = u[10]
      /\ t[p + (11 + l)] = u[11 + l] /\ t[p + (12 + l)] = u[12 + l]
      /\ \A q \in 1..l : t[p + (10 + q)] = u[10 + q]
  <2>1. 11 + l \in 1..(12 + l) /\ 12 + l \in 1..(12 + l) /\ 1..10 \subseteq 1..(12 + l)
    OBVIOUS
  <2>2. \A i \in 1..10 : t[p + i] = u[i]
    BY <1>1, <2>1, Zenon
  <2>3. /\ t[p + 1] = u[1] /\ t[p + 2] = u[2] /\ t[p + 3] = u[3] /\ t[p + 4] = u[4] /\ t[p + 5] = u[5]
        /\ t[p + 6] = u[6] /\ t[p + 7] = u[7] /\ t[p + 8] = u[8] /\ t[p + 9] = u[9] /\ t[p + 10] = u[10]
    BY <2>2
  <2>4. t[p + (11 + l)] = u[11 + l] /\ t[p + (12 + l)] = u[12 + l]
    BY <1>1, <2>1, Zenon
  <2>5. \A q \in 1..l : t[p + (10 + q)] = u[10 + q]
    <3> TAKE q \in 1..l
    <3>1. 10 + q \in 1..(12 + l)
      OBVIOUS
    <3> QED BY <1>1, <3>1, Zenon
  <2> QED BY <2>3, <2>4, <2>5
<1>3. /\ u[1] = "-" /\ u[2] = "-" /\ u[3] = "B" /\ u[4] = "CR" /\ u[5] = "LF"
      /\ u[6] = part.header /\ u[7] = "CR" /\ u[8] = "LF" /\ u[9] = "CR" /\ u[10] = "LF"
      /\ \A q \in 1..l : u[10 + q] = d[q]
      /\ u[11 + l] = "CR" /\ u[12 + l] = "LF"
  BY <1>0 DEF PartAt
<1>4. /\ (p + 1) + 1 = p + 2 /\ (p + 1) + 2 = p + 3 /\ (p + 1) + 3 = p + 4 /\ (p + 1) + 4 = p + 5
      /\ (p + 1) + 5 = p + 6 /\ (p + 1) + 6 = p + 7 /\ (p + 1) + 7 = p + 8 /\ (p + 1) + 8 = p + 9
      /\ (p + 1) + 9 = p + 10 /\ (p + 1) + 10 + l = p + (11 + l) /\ (p + 1) + 11 + l = p + (12 + l)
  OBVIOUS
<1>5. \A q \in 1..l : t[(p + 1) + 9 + q] = d[q]
  <2> TAKE q \in 1..l
  <2>1. (p + 1) + 9 + q = p + (10 + q)
    OBVIOUS
  <2> QED BY <1>2, <1>3, <2>1, Zenon
<1>6. /\ t[p + 1] = "-" /\ t[(p + 1) + 1] = "-" /\ t[(p + 1) + 2] = "B" /\ t[(p + 1) + 3] = "CR"
      /\ t[(p + 1) + 4] = "LF" /\ t[(p + 1) + 5] = part.header
      /\ t[(p + 1) + 6] = "CR" /\ t[(p + 1) + 7] = "LF" /\ t[(p + 1) + 8] = "CR" /\ t[(p + 1) + 9] = "LF"
  BY <1>2, <1>3, <1>4, Zenon
<1>7. t[(p + 1) + 10 + l] = "CR" /\ t[(p + 1) + 11 + l] = "LF"
  BY <1>2, <1>3, <1>4, Zenon
<1>8. l = Len(part.data) /\ \A q \in 1..l : t[(p + 1) + 9 + q] = part.data[q]
  BY <1>0, <1>5, Zenon
<1> QED BY <1>6, <1>7, <1>8, Zenon DEF PartAt

LEMMA PartsOfIs ==
  ASSUME NEW parts \in Seq(BodyParts), NEW n \in Nat, n = Len(parts)
  PROVE  /\ PartsOf(parts) \in Seq(Symbols)
         /\ Len(PartsOf(parts)) = Len(Flat(parts, n)) + 5
         /\ Begins(Flat(parts, n), PartsOf(parts))
         /\ CloseAt(PartsOf(parts), Len(Flat(parts, n)) + 1)
<1> DEFINE x == Flat(parts, n)
           y == Boundary \o <<"-", "-">>
<1>1. x \in Seq(Symbols)
  BY FlatType
<1>2. /\ y \in Seq(Symbols) /\ Len(y) = 5
      /\ y[1] = "-" /\ y[2] = "-" /\ y[3] = "B" /\ y[4] = "-" /\ y[5] = "-"
  BY DEF Boundary, Symbols
<1>3. PartsOf(parts) = (x \o Boundary) \o <<"-", "-">>
  BY Zenon DEF PartsOf, Flat, Upto
<1>4. Boundary \in Seq(Symbols) /\ <<"-", "-">> \in Seq(Symbols)
  BY DEF Boundary, Symbols
<1> HIDE DEF x
<1>5. PartsOf(parts) = x \o y
  <2>1. (x \o Boundary) \o <<"-", "-">> = x \o y
    BY <1>1, <1>4, JoinAgain
  <2> QED BY <1>3, <2>1, Zenon
<1> HIDE DEF y
<1>6. PICK l \in Nat : l = Len(x)
  BY <1>1
<1>7. /\ x \o y \in Seq(Symbols) /\ Len(x \o y) = l + 5
      /\ \A i \in 1..(l + 5) : (x \o y)[i] = IF i <= l THEN x[i] ELSE y[i - l]
  <2>1. Len(y) = 5
    BY <1>2
  <2>2. /\ x \o y \in Seq(Symbols) /\ Len(x \o y) = Len(x) + Len(y)
        /\ \A i \in 1..Len(x) + Len(y) : (x \o y)[i] = IF i <= Len(x) THEN x[i] ELSE y[i - Len(x)]
    BY <1>1, <1>2, ConcatProperties
  <2> QED BY <1>6, <2>1, <2>2, Zenon
<1> DEFINE z == x \o y
<1>8. PartsOf(parts) = z
  BY <1>5
<1> HIDE DEF z
<1>9. \A i \in 1..l : z[i] = x[i]
  BY <1>7 DEF z
<1>10. z[l + 1] = "-" /\ z[l + 2] = "-" /\ z[l + 3] = "B" /\ z[l + 4] = "-" /\ z[l + 5] = "-"
  <2>1. \A q \in 1..5 : z[l + q] = y[q]
    BY <1>7 DEF z
  <2> QED BY <1>2, <2>1
<1>11. CloseAt(z, l + 1) /\ Begins(x, z)
  BY <1>6, <1>7, <1>9, <1>10 DEF CloseAt, Begins, z
<1> QED BY <1>6, <1>7, <1>8, <1>11, Zenon DEF x, z

Places(parts, n) == [j \in 1..(n + 1) |-> Len(Flat(parts, j - 1)) + 1]

LEMMA PartsLaid ==
  ASSUME NEW parts \in Seq(BodyParts), NEW n \in Nat, n = Len(parts)
  PROVE  PartsAt(PartsOf(parts), parts, Places(parts, n))
<1> DEFINE at == Places(parts, n)
           t == PartsOf(parts)
<1>1. \A j \in 0..n : at[j + 1] = Len(Flat(parts, j)) + 1
  <2> TAKE j \in 0..n
  <2>1. j + 1 \in 1..(n + 1) /\ (j + 1) - 1 = j
    OBVIOUS
  <2> QED BY <2>1, Zenon DEF Places
<1>2. \A j \in 0..n : Flat(parts, j) \in Seq(Symbols) /\ Len(Flat(parts, j)) \in Nat
  BY FlatType
<1>3. at \in [1..(n + 1) -> Nat]
  <2>1. \A j \in 1..(n + 1) : Len(Flat(parts, j - 1)) + 1 \in Nat
    BY <1>2
  <2> QED BY <2>1 DEF Places
<1>4. at[1] = 1
  <2>1. Len(Flat(parts, 0)) = 0
    BY FlatNone
  <2>2. 0 \in 0..n /\ 0 + 1 = 1
    OBVIOUS
  <2> QED BY <1>1, <2>1, <2>2
<1> HIDE DEF at, t
<1>5. /\ t \in Seq(Symbols) /\ Len(t) = Len(Flat(parts, n)) + 5
      /\ Begins(Flat(parts, n), t) /\ CloseAt(t, Len(Flat(parts, n)) + 1)
  BY PartsOfIs DEF t
<1>6. Len(t) = at[n + 1] + 4 /\ CloseAt(t, at[n + 1])
  BY <1>1, <1>2, <1>5
<1>7. ASSUME NEW j \in 1..n
      PROVE  at[j + 1] = at[j] + 12 + Len(parts[j].data) /\ PartAt(t, at[j], parts[j])
  <2>1. PICK m \in Nat : j = m + 1 /\ m < n
    <3>1. j - 1 \in Nat /\ j = (j - 1) + 1 /\ j - 1 < n
      OBVIOUS
    <3> QED BY <3>1
  <2>2. PICK part \in BodyParts : part = parts[j]
    OBVIOUS
  <2>3. /\ PartText(part) \in Seq(Symbols)
        /\ Len(PartText(part)) = 12 + Len(part.data)
        /\ PartAt(PartText(part), 1, part)
    BY PartTextIs
  <2>4. Flat(parts, j) = Flat(parts, m) \o PartText(part)
    BY <2>1, <2>2, FlatStep
  <2>5. PICK x \in Seq(Symbols), y \in Seq(Symbols), z \in Seq(Symbols) :
           x = Flat(parts, m) /\ y = PartText(part) /\ z = Flat(parts, j)
    BY <1>2, <2>1, <2>3
  <2>6. /\ Len(z) = Len(x) + Len(y)
        /\ \A i \in 1..Len(x) + Len(y) : z[i] = IF i <= Len(x) THEN x[i] ELSE y[i - Len(x)]
    <3>1. z = x \o y
      BY <2>4, <2>5, Zenon
    <3> QED BY <3>1, ConcatProperties, Zenon
  <2>7. Begins(z, Flat(parts, n))
    BY <2>5, FlatBegins
  <2>8. \A i \in 1..Len(z) : t[i] = z[i]
    <3>1. PICK u \in Seq(Symbols) : u = Flat(parts, n)
      BY <1>2
    <3>2. Begins(u, t) /\ Begins(z, u)
      BY <1>5, <2>7, <3>1, Zenon
    <3> QED BY <3>2 DEF Begins
  <2>9. at[j] = Len(x) + 1 /\ at[j + 1] = Len(z) + 1
    BY <1>1, <2>1, <2>5
  <2>10. PICK p \in Nat, l \in Nat : p = Len(x) /\ l = Len(y)
    OBVIOUS
  <2>11. \A i \in 1..l : t[p + i] = y[i]
    BY <2>6, <2>8, <2>10, SMTT(30)
  <2>12. PartAt(t, p + 1, part)
    <3>1. l = 12 + Len(part.data) /\ PartAt(y, 1, part)
      BY <2>3, <2>5, <2>10, Zenon
    <3> QED BY <2>11, <3>1, Shifted
  <2>13. at[j + 1] = at[j] + 12 + Len(part.data)
    <3>1. PICK d \in Nat : d = Len(part.data)
      BY DEF BodyParts
    <3>2. l = 12 + d
      BY <2>3, <2>5, <2>10, <3>1, Zenon
    <3>3. Len(z) = p + l
      BY <2>6, <2>10, Zenon
    <3>4. at[j] = p + 1 /\ at[j + 1] = p + l + 1
      BY <2>9, <2>10, <3>3
    <3>5. at[j + 1] = at[j] + 12 + d
      BY <3>2, <3>4
    <3> QED BY <3>1, <3>5, Zenon
  <2> QED BY <2>2, <2>9, <2>10, <2>12, <2>13, Zenon
<1>8. PartsAt(t, parts, at)
  BY <1>3, <1>4, <1>5, <1>6, <1>7, Zenon DEF PartsAt
<1> QED BY <1>8 DEF t, at

LEMMA FirstParts ==
  ASSUME NEW parts \in Seq(BodyParts), NEW n \in Nat, n = Len(parts), NEW j \in 0..n
  PROVE  Len(PartsOf(SubSeq(parts, 1, j))) = Places(parts, n)[j + 1] + 4
<1> DEFINE some == SubSeq(parts, 1, j)
<1>1. some \in Seq(BodyParts) /\ Len(some) = j /\ \A i \in 1..j : some[i] = parts[i]
  <2>1. \A i \in 1..j : parts[i] \in BodyParts
    OBVIOUS
  <2>2. /\ some \in Seq(BodyParts)
        /\ Len(some) = IF 1 <= j THEN j - 1 + 1 ELSE 0
        /\ \A i \in 1..(j - 1 + 1) : some[i] = parts[1 + i - 1]
    <3> HIDE DEF some
    <3> QED BY <2>1, SubSeqProperties DEF some
  <2> HIDE DEF some
  <2> QED BY <2>2
<1> HIDE DEF some
<1>2. Upto(some, j) = Upto(parts, j)
  <2>1. \A i \in 1..j : PartText(some[i]) = PartText(parts[i])
    BY <1>1, Zenon
  <2> QED BY <2>1, Zenon DEF Upto
<1>3. Flat(some, j) = Flat(parts, j)
  BY <1>2, Zenon DEF Flat
<1>4. Len(PartsOf(some)) = Len(Flat(parts, j)) + 5
  BY <1>1, <1>3, PartsOfIs
<1>5. Places(parts, n)[j + 1] = Len(Flat(parts, j)) + 1
  <2>1. j + 1 \in 1..(n + 1) /\ (j + 1) - 1 = j
    OBVIOUS
  <2> QED BY <2>1, Zenon DEF Places
<1>6. Len(Flat(parts, j)) \in Nat
  BY FlatType
<1> QED BY <1>4, <1>5, <1>6 DEF some

(* The boundary is where a part starts and where all end, nowhere else.    *)
Clean(part) == Nowhere(part.data, 1, Len(part.data) + 1, Boundary)

LEMMA InPart ==
  ASSUME NEW parts \in Seq(BodyParts), NEW n \in Nat, n = Len(parts), NEW t, NEW at,
         PartsAt(t, parts, at), NEW p \in 1..Len(t)
  PROVE  \E j \in 1..(n + 1) : at[j] <= p /\ (j <= n => p < at[j + 1])
<1> DEFINE I == {j \in 1..(n + 1) : j = n + 1 \/ p < at[j + 1]}
<1>1. PICK j \in I : \A i \in I : j <= i
  <2>1. I \subseteq Nat /\ n + 1 \in I
    OBVIOUS
  <2> HIDE DEF I
  <2> QED BY <2>1, LeastOne
<1>2. at[j] <= p
  <2>1. CASE j = 1
    BY <2>1 DEF PartsAt
  <2>2. CASE j # 1
    <3>0. j \in 1..(n + 1) /\ ~(j <= j - 1)
      BY <1>1
    <3>1. j - 1 \in 1..(n + 1) /\ j - 1 \notin I /\ (j - 1) + 1 = j /\ j - 1 # n + 1
      <4>1. j - 1 \notin I
        BY <1>1, <3>0, Zenon
      <4> QED BY <2>2, <3>0, <4>1
    <3>2. ~(p < at[j])
      BY <3>1
    <3>3. at[j] \in Nat
      BY DEF PartsAt
    <3> QED BY <3>2, <3>3
  <2> QED BY <2>1, <2>2
<1> QED BY <1>1, <1>2

LEMMA HeaderIs == \A h \in DOMAIN Headers : h # "CR" /\ h # "-" /\ h # "B" /\ h # "LF"
BY DEF Headers

LEMMA OccursBoundary ==
  ASSUME NEW t, NEW p \in Nat
  PROVE  Occurs(t, p, Boundary) <=> (t[p] = "-" /\ t[p + 1] = "-" /\ t[p + 2] = "B")
<1>1. /\ Len(Boundary) = 3 /\ Boundary[1] = "-" /\ Boundary[2] = "-" /\ Boundary[3] = "B"
  BY DEF Boundary
<1>2. 1..3 = {1, 2, 3} /\ p + 1 - 1 = p /\ p + 2 - 1 = p + 1 /\ p + 3 - 1 = p + 2
  OBVIOUS
<1> QED BY <1>1, <1>2 DEF Occurs

LEMMA BoundaryStarts ==
  ASSUME NEW part \in BodyParts, Clean(part), NEW t, NEW a \in Nat, PartAt(t, a, part),
         NEW p \in Nat, a <= p, p < a + 12 + Len(part.data), Occurs(t, p, Boundary),
         t[a + 12 + Len(part.data)] = "-"
  PROVE  p = a
<1>0. PICK l \in Nat, d \in Seq(Char) : l = Len(d) /\ d = part.data
  BY DEF BodyParts
<1>1. t[p] = "-" /\ t[p + 1] = "-" /\ t[p + 2] = "B"
  BY OccursBoundary
<1>2. part.header # "-"
  BY HeaderIs DEF BodyParts
<1>3. /\ t[a] = "-" /\ t[a + 1] = "-" /\ t[a + 2] = "B" /\ t[a + 3] = "CR" /\ t[a + 4] = "LF"
      /\ t[a + 5] # "-"
      /\ t[a + 6] = "CR" /\ t[a + 7] = "LF" /\ t[a + 8] = "CR" /\ t[a + 9] = "LF"
      /\ \A q \in 1..l : t[a + 9 + q] = d[q]
      /\ t[a + 10 + l] = "CR" /\ t[a + 11 + l] = "LF"
  BY <1>0, <1>2, Zenon DEF PartAt
<1>4. p \in a..(a + 11 + l)
  <2>1. p < a + 12 + l
    BY <1>0, Zenon
  <2> QED BY <2>1
<1>5. ASSUME p # a PROVE p \in (a + 10)..(a + 9 + l)
  <2>1. \A i \in 1..9 : p # a + i
    BY <1>1, <1>3, <1>5, SMTT(30)
  <2>2. p # a + 10 + l /\ p # a + 11 + l
    BY <1>1, <1>3
  <2> QED BY <1>4, <1>5, <2>1, <2>2
<1>6. ASSUME p \in (a + 10)..(a + 9 + l) PROVE FALSE
  <2>1. PICK q \in 1..l : p = a + 9 + q
    <3>1. p - (a + 9) \in 1..l /\ p = a + 9 + (p - (a + 9))
      BY <1>6
    <3> QED BY <3>1
  <2>2. CASE q + 2 <= l
    <3>1. q + 1 \in 1..l /\ q + 2 \in 1..l /\ p + 1 = a + 9 + (q + 1) /\ p + 2 = a + 9 + (q + 2)
      BY <2>1, <2>2
    <3>2. d[q] = "-" /\ d[q + 1] = "-" /\ d[q + 2] = "B"
      BY <1>1, <1>3, <2>1, <3>1
    <3>3. Occurs(d, q, Boundary)
      BY <3>2, OccursBoundary
    <3>4. Len(Boundary) = 3
      BY DEF Boundary
    <3>5. q \in 1..((l + 1) - 3)
      BY <2>1, <2>2
    <3> QED BY <1>0, <3>3, <3>4, <3>5, Zenon DEF Clean, Nowhere
  <2>3. CASE q + 2 > l
    <3>1. q = l \/ q = l - 1
      BY <2>3
    <3>2. p + 1 = a + 10 + l \/ p + 2 = a + 10 + l
      BY <2>1, <3>1
    <3> QED BY <1>1, <1>3, <3>2
  <2> QED BY <2>2, <2>3
<1> QED BY <1>5, <1>6

(* u is the memory of a body t, of which the first k bytes have arrived.   *)
Cells(u) == Symbols \cup {u[i] : i \in 1..Len(u)}

Arrived(t, parts, n, at, u, k) ==
  /\ n \in Nat /\ n = Len(parts) /\ parts \in Seq(BodyParts) /\ PartsAt(t, parts, at)
  /\ \A j \in 1..n : Clean(parts[j])
  /\ u \in Seq(Cells(u)) /\ k \in Nat /\ Len(u) = Len(t) /\ k <= Len(t)
  /\ \A i \in 1..k : u[i] = t[i]

LEMMA InCells ==
  ASSUME NEW u
  PROVE  Boundary \in Seq(Cells(u)) /\ <<"CR", "LF", "CR", "LF">> \in Seq(Cells(u)) /\ Char \subseteq Cells(u)
<1>1. PICK S : S = Cells(u)
  OBVIOUS
<1>2. Symbols \subseteq S
  BY <1>1 DEF Cells
<1>3. {"-", "B", "CR", "LF"} \subseteq S /\ Char \subseteq S
  BY <1>2 DEF Symbols
<1>4. Boundary \in Seq(S) /\ <<"CR", "LF", "CR", "LF">> \in Seq(S)
  BY <1>3 DEF Boundary
<1> QED BY <1>1, <1>3, <1>4, Zenon

LEMMA AtGrows ==
  ASSUME NEW t, NEW parts, NEW n, NEW at, NEW u, NEW k, Arrived(t, parts, n, at, u, k),
         NEW j \in 1..(n + 1), NEW m \in 1..(n + 1), j < m
  PROVE  at[j] + 12 <= at[m]
<1>0. n \in Nat /\ at \in [1..(n + 1) -> Nat]
  BY DEF Arrived, PartsAt
<1>1. \A i \in 1..n : at[i + 1] >= at[i] + 12
  <2> TAKE i \in 1..n
  <2>1. parts[i] \in BodyParts
    BY DEF Arrived
  <2>2. PICK l \in Nat : l = Len(parts[i].data)
    BY <2>1 DEF BodyParts
  <2>3. at[i + 1] = at[i] + 12 + l
    BY <2>2, Zenon DEF Arrived, PartsAt
  <2> QED BY <1>0, <2>3
<1> DEFINE P == {d \in Nat : j + 1 + d <= n + 1 => at[j] + 12 <= at[j + 1 + d]}
<1>2. 0 \in P
  BY <1>0, <1>1
<1>3. \A d \in Nat : d \in P => d + 1 \in P
  <2> SUFFICES ASSUME NEW d \in Nat, d \in P, j + 1 + (d + 1) <= n + 1
               PROVE  at[j] + 12 <= at[j + 1 + (d + 1)]
    OBVIOUS
  <2>1. PICK e \in 1..n : e = j + 1 + d
    BY <1>0
  <2>2. at[j] + 12 <= at[e] /\ at[e + 1] >= at[e] + 12
    BY <1>0, <1>1, <2>1
  <2>3. at[e] \in Nat /\ at[e + 1] \in Nat /\ at[j] \in Nat
    BY <1>0, <2>1
  <2>4. j + 1 + (d + 1) = e + 1
    BY <2>1
  <2> QED BY <2>2, <2>3, <2>4
<1> HIDE DEF P
<1>4. m - j - 1 \in P
  <2>1. m - j - 1 \in Nat
    BY <1>0
  <2> QED BY <1>2, <1>3, <2>1, NatSet
<1>5. j + 1 + (m - j - 1) = m
  BY <1>0
<1> QED BY <1>0, <1>4, <1>5 DEF P

LEMMA BoundaryAt ==
  ASSUME NEW t, NEW parts, NEW n, NEW at, NEW u, NEW k, Arrived(t, parts, n, at, u, k),
         NEW p \in 1..(k - 2), Occurs(u, p, Boundary)
  PROVE  \E j \in 1..(n + 1) : p = at[j]
<1>0. /\ n \in Nat /\ at \in [1..(n + 1) -> Nat] /\ k \in Nat /\ Len(t) \in Nat /\ k <= Len(t)
      /\ parts \in Seq(BodyParts) /\ n = Len(parts) /\ PartsAt(t, parts, at)
      /\ Len(t) = at[n + 1] + 4
  BY DEF Arrived, PartsAt
<1>1. t[p] = "-" /\ t[p + 1] = "-" /\ t[p + 2] = "B"
  <2>1. p \in 1..k /\ p + 1 \in 1..k /\ p + 2 \in 1..k /\ p \in Nat
    BY <1>0
  <2> QED BY <2>1, OccursBoundary DEF Arrived
<1>2. PICK j \in 1..(n + 1) : at[j] <= p /\ (j <= n => p < at[j + 1])
  <2>1. p \in 1..Len(t)
    BY <1>0
  <2> QED BY <1>0, <2>1, InPart
<1>3. CASE j = n + 1
  <2>1. /\ t[at[j]] = "-" /\ t[at[j] + 1] = "-" /\ t[at[j] + 2] = "B" /\ t[at[j] + 3] = "-" /\ t[at[j] + 4] = "-"
    BY <1>0, <1>3, Zenon DEF PartsAt, CloseAt
  <2>2. PICK a \in Nat : a = at[j]
    BY <1>0
  <2>3. p \in a..(a + 2)
    BY <1>0, <1>2, <1>3, <2>2
  <2>4. p # a + 1 /\ p # a + 2
    BY <1>1, <2>1, <2>2
  <2> QED BY <2>2, <2>3, <2>4
<1>4. CASE j \in 1..n
  <2>1. PICK part \in BodyParts : part = parts[j]
    BY <1>0, <1>4
  <2>2. PICK a \in Nat : a = at[j]
    BY <1>0
  <2>3. PICK l \in Nat : l = Len(part.data)
    BY DEF BodyParts
  <2>4. at[j + 1] = a + 12 + l
    BY <1>0, <1>4, <2>1, <2>2, <2>3, Zenon DEF PartsAt
  <2>5. PartAt(t, a, part) /\ Clean(part)
    BY <1>0, <1>4, <2>1, <2>2, Zenon DEF PartsAt, Arrived
  <2>6. t[a + 12 + l] = "-"
    <3>1. CASE j + 1 = n + 1
      BY <1>0, <2>4, <3>1, Zenon DEF PartsAt, CloseAt
    <3>2. CASE j + 1 \in 1..n
      BY <1>0, <2>4, <3>2, ZenonT(40) DEF PartsAt, PartAt
    <3> QED BY <1>0, <1>4, <3>1, <3>2
  <2>7. Occurs(t, p, Boundary)
    BY <1>1, OccursBoundary
  <2>8. a <= p /\ p < a + 12 + Len(part.data) /\ t[a + 12 + Len(part.data)] = "-" /\ p \in Nat
    BY <1>2, <1>4, <2>2, <2>3, <2>4, <2>6
  <2>9. p = a
    BY <2>5, <2>7, <2>8, BoundaryStarts
  <2> QED BY <2>2, <2>9
<1> QED BY <1>0, <1>3, <1>4

LEMMA AtBoundary ==
  ASSUME NEW t, NEW parts, NEW n, NEW at, NEW u, NEW k, Arrived(t, parts, n, at, u, k),
         NEW j \in 1..(n + 1), at[j] + 2 <= k
  PROVE  Occurs(u, at[j], Boundary)
<1>0. n \in Nat /\ at \in [1..(n + 1) -> Nat] /\ k \in Nat /\ n = Len(parts)
  BY DEF Arrived, PartsAt
<1>1. PICK a \in Nat : a = at[j]
  BY <1>0
<1>2. t[a] = "-" /\ t[a + 1] = "-" /\ t[a + 2] = "B"
  <2>1. CASE j = n + 1
    BY <1>0, <1>1, <2>1, Zenon DEF Arrived, PartsAt, CloseAt
  <2>2. CASE j \in 1..n
    BY <1>0, <1>1, <2>2, Zenon DEF Arrived, PartsAt, PartAt
  <2> QED BY <1>0, <2>1, <2>2
<1>3. a >= 1
  <2>1. CASE j = 1
    BY <1>1, <2>1 DEF Arrived, PartsAt
  <2>2. CASE j # 1
    <3>1. at[1] + 12 <= at[j] /\ at[1] \in Nat
      <4>1. 1 \in 1..(n + 1) /\ 1 < j
        BY <1>0, <2>2
      <4> QED BY <1>0, <4>1, AtGrows
    <3> QED BY <1>1, <3>1
  <2> QED BY <2>1, <2>2
<1>4. u[a] = t[a] /\ u[a + 1] = t[a + 1] /\ u[a + 2] = t[a + 2]
  <2>1. a \in 1..k /\ a + 1 \in 1..k /\ a + 2 \in 1..k
    BY <1>0, <1>1, <1>3
  <2> QED BY <2>1, Zenon DEF Arrived
<1> QED BY <1>1, <1>2, <1>4, OccursBoundary

(* The next boundary from a position after all others.                     *)
After(at, n, j, from) ==
  from \in Nat \ {0} /\ (j > 1 => at[j - 1] < from) /\ (j <= n + 1 => from <= at[j])

LEMMA FindBoundary ==
  ASSUME NEW t, NEW parts, NEW n, NEW at, NEW u, NEW k, Arrived(t, parts, n, at, u, k),
         NEW j \in 1..(n + 2), NEW from, After(at, n, j, from)
  PROVE  /\ (j <= n + 1 /\ at[j] + 2 <= k) => Find(u, from, Len(u) + 1, Boundary) = at[j]
         /\ k = Len(u) /\ ~(j <= n + 1 /\ at[j] + 2 <= k) => Find(u, from, Len(u) + 1, Boundary) = 0
<1> DEFINE z == Len(u) + 1
<1>0. /\ n \in Nat /\ at \in [1..(n + 1) -> Nat] /\ k \in Nat
      /\ from \in Nat \ {0}
  BY DEF Arrived, PartsAt, After
<1>0a. u \in Seq(Cells(u)) /\ z \in Nat /\ k <= Len(u) /\ k + 1 <= z /\ (k = Len(u) => z = k + 1)
  <2>1. u \in Seq(Cells(u)) /\ k <= Len(u) /\ k \in Nat
    BY Zenon DEF Arrived
  <2>2. Len(u) \in Nat
    BY <2>1
  <2> QED BY <2>1, <2>2
<1>1. Boundary \in Seq(Cells(u)) /\ Len(Boundary) = 3
  <2>1. Len(Boundary) = 3
    BY DEF Boundary
  <2> QED BY <2>1, InCells
<1>2. ASSUME NEW p \in from..(k - 2), Occurs(u, p, Boundary)
      PROVE  j <= n + 1 /\ at[j] <= p
  <2>1. PICK i \in 1..(n + 1) : p = at[i]
    <3>1. p \in 1..(k - 2)
      BY <1>0
    <3> QED BY <1>2, <3>1, BoundaryAt
  <2>2. i >= j
    <3>1. SUFFICES ASSUME i < j PROVE FALSE
      BY <1>0
    <3>2. j - 1 \in 1..(n + 1) /\ i <= j - 1 /\ j > 1
      BY <1>0, <3>1
    <3>3. at[j - 1] < from /\ at[j - 1] \in Nat /\ at[i] \in Nat
      BY <1>0, <3>2 DEF After
    <3>4. at[i] <= at[j - 1]
      <4>1. CASE i = j - 1
        BY <3>3, <4>1
      <4>2. CASE i # j - 1
        <5>1. at[i] + 12 <= at[j - 1]
          <6>1. i < j - 1
            BY <3>2, <4>2
          <6> QED BY <3>2, <6>1, AtGrows
        <5> QED BY <3>3, <5>1
      <4> QED BY <4>1, <4>2
    <3> QED BY <1>0, <2>1, <3>3, <3>4
  <2>3. j \in 1..(n + 1) /\ at[j] \in Nat /\ at[i] \in Nat
    BY <1>0, <2>2
  <2>4. at[j] <= at[i]
    <3>1. CASE i = j
      BY <2>3, <3>1
    <3>2. CASE i # j
      <4>1. j < i
        BY <2>2, <3>2
      <4>2. at[j] + 12 <= at[i]
        BY <2>3, <4>1, AtGrows
      <4> QED BY <2>3, <4>2
    <3> QED BY <3>1, <3>2
  <2> QED BY <2>1, <2>3, <2>4
<1>3. Stretch(u, from, z)
  BY <1>0, <1>0a DEF Stretch
<1> HIDE DEF z
<1>4. ASSUME j <= n + 1, at[j] + 2 <= k PROVE Find(u, from, z, Boundary) = at[j]
  <2>1. j \in 1..(n + 1) /\ at[j] \in Nat /\ from <= at[j]
    BY <1>0, <1>4 DEF After
  <2>2. Occurs(u, at[j], Boundary)
    BY <1>4, <2>1, AtBoundary
  <2>3. \A m \in from..(at[j] - 1) : ~Occurs(u, m, Boundary)
    <3> SUFFICES ASSUME NEW m \in from..(at[j] - 1), Occurs(u, m, Boundary) PROVE FALSE
      OBVIOUS
    <3>1. m \in from..(k - 2) /\ ~(at[j] <= m)
      BY <1>0, <1>4, <2>1
    <3> QED BY <1>2, <3>1
  <2>4. at[j] \in from..(z - 3)
    BY <1>0, <1>0a, <1>4, <2>1
  <2>5. FirstAt(u, from, z, Boundary, at[j])
    BY <1>1, <2>2, <2>3, <2>4, Zenon DEF FirstAt
  <2> QED BY <1>0a, <1>1, <1>3, <2>5, FindFirst
<1>5. ASSUME k = Len(u), ~(j <= n + 1 /\ at[j] + 2 <= k) PROVE Find(u, from, z, Boundary) = 0
  <2>1. \A m \in from..(z - 3) : ~Occurs(u, m, Boundary)
    <3> SUFFICES ASSUME NEW m \in from..(z - 3), Occurs(u, m, Boundary) PROVE FALSE
      OBVIOUS
    <3>1. m \in from..(k - 2)
      BY <1>0, <1>0a, <1>5
    <3>2. j <= n + 1 /\ at[j] <= m
      BY <1>2, <3>1
    <3>3. at[j] \in Nat
      BY <1>0, <3>2
    <3> QED BY <1>0, <1>5, <3>1, <3>2, <3>3
  <2>2. Nowhere(u, from, z, Boundary)
    BY <1>1, <2>1, Zenon DEF Nowhere
  <2> QED BY <1>0a, <1>1, <1>3, <2>2, FindNone
<1> QED BY <1>4, <1>5, Zenon DEF z

-----------------------------------------------------------------------------
(* What is read from where a part starts.                                  *)
(* What is stored of a part.                                               *)
StoredOf(part) == Stored(Headers[part.header], part.data)

LEMMA PartRead ==
  ASSUME NEW t, NEW parts, NEW n, NEW at, NEW u, NEW k, Arrived(t, parts, n, at, u, k),
         NEW j \in 1..n, at[j + 1] + 2 <= k, NEW state, state.pos = at[j]
  PROVE  NextPart(u, state) =
           [pos |-> at[j + 1],
            parts |-> Append(state.parts, StoredOf(parts[j]))]
<1>0. /\ n \in Nat /\ at \in [1..(n + 1) -> Nat] /\ k \in Nat
      /\ parts \in Seq(BodyParts) /\ n = Len(parts)
  BY DEF Arrived, PartsAt
<1>0a. u \in Seq(Cells(u)) /\ Len(u) \in Nat /\ k <= Len(u)
  <2>1. u \in Seq(Cells(u)) /\ k <= Len(u)
    BY Zenon DEF Arrived
  <2> QED BY <2>1
<1>1. PICK part \in BodyParts : part = parts[j]
  BY <1>0
<1>2. PICK l \in Nat, d \in Seq(Char) : l = Len(d) /\ d = part.data
  BY DEF BodyParts
<1>3. PICK a \in Nat, b \in Nat : a = at[j] /\ b = at[j + 1]
  <2>1. j \in 1..(n + 1) /\ j + 1 \in 1..(n + 1)
    BY <1>0
  <2>2. at[j] \in Nat /\ at[j + 1] \in Nat
    BY <1>0, <2>1, Zenon
  <2> QED BY <2>2, Zenon
<1>4. b = a + 12 + l /\ b + 2 <= k
  <2>1. b = a + 12 + l
    BY <1>0, <1>1, <1>2, <1>3, Zenon DEF Arrived, PartsAt
  <2> QED BY <1>3, <2>1
<1>5. a >= 1
  <2>1. CASE j = 1
    BY <1>3, <2>1 DEF Arrived, PartsAt
  <2>2. CASE j # 1
    <3>1. 1 \in 1..(n + 1) /\ j \in 1..(n + 1) /\ 1 < j
      BY <1>0, <2>2
    <3>2. at[1] + 12 <= at[j] /\ at[1] \in Nat
      BY <1>0, <3>1, AtGrows
    <3> QED BY <1>3, <3>2
  <2> QED BY <2>1, <2>2
<1>6. /\ u[a + 3] = "CR" /\ u[a + 4] = "LF" /\ u[a + 5] = part.header
      /\ u[a + 6] = "CR" /\ u[a + 7] = "LF" /\ u[a + 8] = "CR" /\ u[a + 9] = "LF"
      /\ \A q \in 1..l : u[a + 9 + q] = d[q]
      /\ u[a + 10 + l] = "CR" /\ u[a + 11 + l] = "LF"
  <2>1. PartAt(t, a, part)
    BY <1>0, <1>1, <1>3, Zenon DEF Arrived, PartsAt
  <2>2. /\ t[a + 3] = "CR" /\ t[a + 4] = "LF" /\ t[a + 5] = part.header
        /\ t[a + 6] = "CR" /\ t[a + 7] = "LF" /\ t[a + 8] = "CR" /\ t[a + 9] = "LF"
        /\ \A q \in 1..l : t[a + 9 + q] = d[q]
        /\ t[a + 10 + l] = "CR" /\ t[a + 11 + l] = "LF"
    BY <1>2, <2>1, Zenon DEF PartAt
  <2>3. \A i \in 1..k : u[i] = t[i]
    BY DEF Arrived
  <2>4. /\ a + 3 \in 1..k /\ a + 4 \in 1..k /\ a + 5 \in 1..k /\ a + 6 \in 1..k /\ a + 7 \in 1..k
        /\ a + 8 \in 1..k /\ a + 9 \in 1..k /\ a + 10 + l \in 1..k /\ a + 11 + l \in 1..k
        /\ \A q \in 1..l : a + 9 + q \in 1..k
    BY <1>0, <1>4
  <2> QED BY <2>2, <2>3, <2>4, Zenon
<1>7. part.header # "CR"
  BY HeaderIs DEF BodyParts
<1> DEFINE found == Find(u, state.pos, Len(u) + 1, Boundary)
<1>8. found = a
  <2>1. After(at, n, j, a)
    <3>1. ASSUME j > 1 PROVE at[j - 1] < a
      <4>1. j - 1 \in 1..(n + 1) /\ j \in 1..(n + 1) /\ j - 1 < j
        BY <1>0, <3>1
      <4>2. at[j - 1] + 12 <= at[j] /\ at[j - 1] \in Nat
        BY <1>0, <4>1, AtGrows
      <4> QED BY <1>3, <4>2
    <3> QED BY <1>3, <1>5, <3>1 DEF After
  <2>2. j \in 1..(n + 2) /\ j <= n + 1 /\ at[j] + 2 <= k
    BY <1>0, <1>3, <1>4, SMTT(30)
  <2>3. Find(u, a, Len(u) + 1, Boundary) = at[j]
    BY <2>1, <2>2, FindBoundary
  <2> QED BY <1>0, <1>3, <2>3, Zenon
<1> DEFINE after == found + Len(Boundary)
           start == Over(u, Over(u, after, "CR"), "LF")
           next == Find(u, start, Len(u) + 1, Boundary)
           end == Back(u, Back(u, next, "LF", start), "CR", start)
           blank == Find(u, start, end, <<"CR", "LF", "CR", "LF">>)
           lines == Lines(u, start, blank)
<1>9. after = a + 3
  <2>1. Len(Boundary) = 3
    BY DEF Boundary
  <2> QED BY <1>8, <2>1, Zenon
<1> HIDE DEF found
<1>10. start = a + 5
  <2>1. Over(u, a + 3, "CR") = a + 4
    <3>1. a + 3 <= Len(u) /\ (a + 3) + 1 = a + 4
      BY <1>0, <1>0a, <1>4
    <3> QED BY <1>6, <3>1 DEF Over
  <2>2. Over(u, a + 4, "LF") = a + 5
    <3>1. a + 4 <= Len(u) /\ (a + 4) + 1 = a + 5
      BY <1>0, <1>0a, <1>4
    <3> QED BY <1>6, <3>1 DEF Over
  <2> QED BY <1>9, <2>1, <2>2, Zenon
<1>11. ~(after < Len(u) /\ u[after] = "-" /\ u[after + 1] = "-")
  BY <1>6, <1>9
<1> HIDE DEF after
<1>12. next = b
  <2>1. After(at, n, j + 1, a + 5)
    BY <1>0, <1>3, <1>4, SMTT(30) DEF After
  <2>2. j + 1 \in 1..(n + 2) /\ j + 1 <= n + 1
    BY <1>0
  <2>3. Find(u, a + 5, Len(u) + 1, Boundary) = at[j + 1]
    BY <2>1, <2>2, FindBoundary
  <2> QED BY <1>0, <1>3, <1>10, <2>3, Zenon
<1> HIDE DEF start
<1>13. end = a + 10 + l
  <2>1. Back(u, b, "LF", a + 5) = a + 11 + l
    <3>1. b > a + 5 /\ b - 1 = a + 11 + l
      BY <1>4
    <3> QED BY <1>6, <3>1 DEF Back
  <2>2. Back(u, a + 11 + l, "CR", a + 5) = a + 10 + l
    <3>1. a + 11 + l > a + 5 /\ (a + 11 + l) - 1 = a + 10 + l
      OBVIOUS
    <3> QED BY <1>6, <3>1 DEF Back
  <2> QED BY <1>10, <1>12, <2>1, <2>2, Zenon
<1> HIDE DEF next, end
<1>14. blank = a + 6
  <2> DEFINE p == <<"CR", "LF", "CR", "LF">>
  <2>1. p \in Seq(Cells(u)) /\ Len(p) = 4 /\ p[1] = "CR" /\ p[2] = "LF" /\ p[3] = "CR" /\ p[4] = "LF"
    <3>1. p \in Seq(Cells(u))
      BY InCells, Zenon
    <3> QED BY <3>1
  <2> HIDE DEF p
  <2>2. Stretch(u, a + 5, a + 10 + l)
    BY <1>0, <1>0a, <1>4 DEF Stretch
  <2>3. Occurs(u, a + 6, p)
    <3>1. /\ a + 6 + 1 - 1 = a + 6 /\ a + 6 + 2 - 1 = a + 7 /\ a + 6 + 3 - 1 = a + 8 /\ a + 6 + 4 - 1 = a + 9
          /\ 1..4 = {1, 2, 3, 4}
      OBVIOUS
    <3> QED BY <1>6, <2>1, <3>1 DEF Occurs
  <2>4. ~Occurs(u, a + 5, p)
    <3>1. a + 5 + 1 - 1 = a + 5 /\ 1 \in 1..4
      OBVIOUS
    <3> QED BY <1>6, <1>7, <2>1, <3>1 DEF Occurs
  <2>5. FirstAt(u, a + 5, a + 10 + l, p, a + 6)
    <3>1. a + 6 \in (a + 5)..((a + 10 + l) - 4)
      OBVIOUS
    <3>2. \A m \in (a + 5)..((a + 6) - 1) : m = a + 5
      OBVIOUS
    <3> QED BY <2>1, <2>3, <2>4, <3>1, <3>2, Zenon DEF FirstAt
  <2>6. Find(u, a + 5, a + 10 + l, p) = a + 6
    BY <1>0a, <2>1, <2>2, <2>5, FindFirst
  <2> QED BY <1>10, <1>13, <2>6, Zenon DEF p
<1>16. SubSeq(u, blank + 4, end - 1) = d
  <2>1. blank + 4 = a + 10 /\ end - 1 = a + 9 + l
    BY <1>13, <1>14
  <2> DEFINE x == SubSeq(u, a + 10, a + 9 + l)
  <2>0. PICK S : S = Cells(u)
    OBVIOUS
  <2>2. /\ x \in Seq(S) /\ Len(x) = l
        /\ \A q \in 1..l : x[q] = u[a + 9 + q]
    <3>1. \A i \in (a + 10)..(a + 9 + l) : u[i] \in S
      BY <1>0, <1>0a, <1>4, <2>0
    <3>2. /\ x \in Seq(S)
          /\ Len(x) = IF a + 10 <= a + 9 + l THEN (a + 9 + l) - (a + 10) + 1 ELSE 0
          /\ \A q \in 1..((a + 9 + l) - (a + 10) + 1) : x[q] = u[a + 10 + q - 1]
      <4>1. a + 10 \in Int /\ a + 9 + l \in Int
        OBVIOUS
      <4> HIDE DEF x
      <4> QED BY <3>1, <4>1, SubSeqProperties DEF x
    <3> HIDE DEF x
    <3> QED BY <3>2
  <2> HIDE DEF x
  <2>3. d \in Seq(S) /\ \A q \in 1..l : x[q] = d[q]
    <3>1. d \in Seq(S)
      <4>1. Char \subseteq S
        BY <2>0, InCells
      <4> QED BY <4>1
    <3>2. \A q \in 1..l : x[q] = d[q]
      BY <1>6, <2>2, Zenon
    <3> QED BY <3>1, <3>2
  <2>4. x = d
    BY <1>2, <2>2, <2>3, SeqEqual
  <2> QED BY <2>1, <2>4, Zenon DEF x
<1> HIDE DEF blank
<1>16a. lines = {a + 5} /\ Header(u, lines) = Headers[part.header]
  <2>1. part.header \in DOMAIN Headers
    BY DEF BodyParts
  <2>2. Lines(u, a + 5, a + 6) = {a + 5}
    <3>1. (a + 5)..((a + 6) - 1) = {a + 5}
      OBVIOUS
    <3>2. u[a + 5] \in DOMAIN Headers
      BY <1>6, <2>1
    <3> QED BY <3>1, <3>2, Zenon DEF Lines
  <2>3. lines = {a + 5}
    BY <1>10, <1>14, <2>2, Zenon
  <2>4. Max({a + 5}) = a + 5
    <3>1. PICK T : T = {a + 5}
      OBVIOUS
    <3>2. T \subseteq Int /\ a + 5 \in T /\ \A y \in T : y <= a + 5
      BY <3>1
    <3>3. Max(T) = a + 5
      BY <3>2, MaxIs
    <3> QED BY <3>1, <3>3, Zenon
  <2>5. PICK h : h = part.header
    OBVIOUS
  <2>6. Header(u, {a + 5}) = [name |-> Headers[h].name, file |-> Headers[h].file]
    <3> DEFINE any == \E i \in {a + 5} : Headers[u[i]].file
    <3>1. any = Headers[h].file
      <4>1. any <=> Headers[h].file
        BY <1>6, <2>5, Zenon
      <4>2. Headers[h].file = TRUE \/ Headers[h].file = FALSE
        BY <2>1, <2>5 DEF Headers
      <4>3. any \in BOOLEAN
        OBVIOUS
      <4> HIDE DEF any
      <4> QED BY <4>1, <4>2, <4>3, Zenon
    <3>2. Header(u, {a + 5}) = [name |-> Headers[u[a + 5]].name, file |-> any]
      BY <2>4, Zenon DEF Header
    <3> HIDE DEF any
    <3>3. u[a + 5] = h
      BY <1>6, <2>5, Zenon
    <3> QED BY <3>1, <3>2, <3>3, Zenon
  <2>7. Headers[h] = [name |-> Headers[h].name, file |-> Headers[h].file]
    BY <2>1, <2>5 DEF Headers
  <2> HIDE DEF lines
  <2> QED BY <2>3, <2>5, <2>6, <2>7, Zenon
<1>17. NextPart(u, state) =
         IF found = 0 \/ (after < Len(u) /\ u[after] = "-" /\ u[after + 1] = "-") \/ next = 0 THEN state
         ELSE [pos |-> next,
               parts |-> IF blank = 0 \/ lines = {} THEN state.parts
                         ELSE Append(state.parts, Stored(Header(u, lines), SubSeq(u, blank + 4, end - 1)))]
  BY Zenon DEF NextPart, found, after, start, next, end, blank, lines
<1> HIDE DEF lines
<1>18. found # 0 /\ next # 0 /\ blank # 0
  BY <1>4, <1>5, <1>8, <1>12, <1>14
<1>19. Stored(Header(u, lines), d) = StoredOf(parts[j]) /\ lines # {}
  <2>1. lines # {}
    BY <1>16a
  <2> QED BY <1>1, <1>2, <1>16a, <2>1, Zenon DEF StoredOf
<1>20. next = at[j + 1]
  BY <1>3, <1>12
<1> QED BY <1>11, <1>16, <1>17, <1>18, <1>19, <1>20, Zenon

LEMMA PartNotRead ==
  ASSUME NEW t, NEW parts, NEW n, NEW at, NEW u, NEW k, Arrived(t, parts, n, at, u, k), k = Len(u),
         NEW j \in 1..(n + 1), ~(j <= n /\ at[j + 1] + 2 <= k), NEW state, state.pos = at[j]
  PROVE  NextPart(u, state) = state
<1>0. n \in Nat /\ at \in [1..(n + 1) -> Nat] /\ k \in Nat
  BY DEF Arrived, PartsAt
<1>1. PICK a \in Nat : a = at[j]
  BY <1>0
<1>2. a >= 1 /\ After(at, n, j, a)
  <2>1. CASE j = 1
    <3>1. at[1] = 1
      BY DEF Arrived, PartsAt
    <3> QED BY <1>1, <2>1, <3>1 DEF After
  <2>2. CASE j # 1
    <3>1. j - 1 \in 1..(n + 1) /\ j - 1 < j
      BY <1>0, <2>2
    <3>2. at[j - 1] + 12 <= at[j] /\ at[j - 1] \in Nat
      BY <1>0, <3>1, AtGrows
    <3> QED BY <1>1, <3>2 DEF After
  <2> QED BY <2>1, <2>2
<1> DEFINE found == Find(u, state.pos, Len(u) + 1, Boundary)
           after == found + Len(Boundary)
           start == Over(u, Over(u, after, "CR"), "LF")
           next == Find(u, start, Len(u) + 1, Boundary)
<1>3. found = a \/ found = 0
  <2>1. j \in 1..(n + 2)
    BY <1>0
  <2>2. Find(u, a, Len(u) + 1, Boundary) = a \/ Find(u, a, Len(u) + 1, Boundary) = 0
    BY <1>1, <1>2, <2>1, FindBoundary
  <2> QED BY <1>0, <1>1, <2>2, Zenon
<1>4. ASSUME found = a PROVE next = 0
  <2>1. after = a + 3
    <3>1. Len(Boundary) = 3
      BY DEF Boundary
    <3> QED BY <1>4, <3>1, Zenon
  <2> HIDE DEF found
  <2>2. start \in (a + 3)..(a + 5)
    <3>1. Over(u, a + 3, "CR") \in {a + 3, a + 4}
      BY DEF Over
    <3>2. ASSUME NEW x \in {a + 3, a + 4} PROVE Over(u, x, "LF") \in (a + 3)..(a + 5)
      BY DEF Over
    <3> HIDE DEF after
    <3> QED BY <2>1, <3>1, <3>2
  <2> HIDE DEF after, start
  <2>3. After(at, n, j + 1, start)
    <3>1. (j + 1) - 1 = j /\ start \in Nat \ {0} /\ a < start
      BY <1>0, <2>2
    <3>2. ASSUME j + 1 <= n + 1 PROVE start <= at[j + 1]
      <4>1. j \in 1..(n + 1) /\ j + 1 \in 1..(n + 1) /\ j < j + 1
        BY <1>0, <3>2
      <4>2. at[j] + 12 <= at[j + 1] /\ at[j + 1] \in Nat
        BY <1>0, <4>1, AtGrows
      <4> QED BY <1>1, <2>2, <4>2
    <3> QED BY <1>1, <3>1, <3>2 DEF After
  <2>4. j + 1 \in 1..(n + 2) /\ ~(j + 1 <= n + 1 /\ at[j + 1] + 2 <= k)
    <3>1. j + 1 <= n + 1 <=> j <= n
      BY <1>0
    <3> QED BY <1>0, <3>1
  <2>5. Find(u, start, Len(u) + 1, Boundary) = 0
    BY <2>3, <2>4, FindBoundary
  <2> QED BY <1>0, <2>5, Zenon DEF next
<1>5. found = 0 \/ next = 0 => NextPart(u, state) = state
  BY Zenon DEF NextPart, found, after, start, next
<1> QED BY <1>3, <1>4, <1>5, Zenon

Scanning(g, body, m) ==
  /\ g = [i \in 0..m |-> g[i]]
  /\ g[0] = [pos |-> 1, parts |-> <<>>]
  /\ \A i \in 1..m : g[i] = NextPart(body, g[i - 1])

LEMMA MultipartBy ==
  ASSUME NEW body, NEW m \in Nat, Len(body) \div Len(Boundary) = m, NEW g, Scanning(g, body, m)
  PROVE  Multipart(body) = g[m].parts
<1> DEFINE Body(h) == [i \in 0..m |-> IF i = 0 THEN [pos |-> 1, parts |-> <<>>] ELSE NextPart(body, h[i - 1])]
           h == CHOOSE h : h = Body(h)
<1>1. g = Body(g)
  <2>1. \A i \in 0..m : i # 0 => i \in 1..m
    OBVIOUS
  <2>2. \A i \in 0..m : g[i] = IF i = 0 THEN [pos |-> 1, parts |-> <<>>] ELSE NextPart(body, g[i - 1])
    BY <2>1, Zenon DEF Scanning
  <2> QED BY <2>2, Zenon DEF Scanning
<1>2. h = Body(h)
  <2> HIDE DEF Body
  <2> QED BY <1>1
<1>3. Multipart(body) = h[m].parts
  BY Zenon DEF Multipart
<1> HIDE DEF h
<1>4. h[0] = [pos |-> 1, parts |-> <<>>] /\ \A i \in 1..m : h[i] = NextPart(body, h[i - 1])
  BY <1>2
<1>5. Alike(g, h, m)
  BY <1>4, Zenon DEF Alike, Scanning
<1> QED BY <1>3, <1>5, AlikeToTheEnd, Zenon

(* How many parts are whole.                                               *)
Whole(at, n, k, w) ==
  /\ w \in 0..n /\ ~(w + 1 <= n /\ at[w + 2] + 2 <= k)
  /\ \A i \in 1..n : i <= w <=> at[i + 1] + 2 <= k

LEMMA SomeWhole ==
  ASSUME NEW t, NEW parts, NEW n, NEW at, NEW u, NEW k, Arrived(t, parts, n, at, u, k)
  PROVE  \E w : Whole(at, n, k, w)
<1>0. n \in Nat /\ at \in [1..(n + 1) -> Nat] /\ k \in Nat
  BY DEF Arrived, PartsAt
<1> DEFINE I == {j \in 1..(n + 1) : ~(j <= n /\ at[j + 1] + 2 <= k)}
<1>1. PICK j \in I : \A i \in I : j <= i
  <2>1. I \subseteq Nat /\ n + 1 \in I
    BY <1>0
  <2> HIDE DEF I
  <2> QED BY <2>1, LeastOne
<1>2. j \in 1..(n + 1) /\ ~(j <= n /\ at[j + 1] + 2 <= k)
  BY <1>1
<1>3. ASSUME NEW i \in 1..n, i <= j - 1 PROVE at[i + 1] + 2 <= k
  <2>1. i \in 1..(n + 1) /\ i <= n /\ ~(j <= i)
    BY <1>0, <1>2, <1>3
  <2>2. i \notin I
    BY <1>1, <2>1, Zenon
  <2> QED BY <2>1, <2>2
<1>4. ASSUME NEW i \in 1..n, at[i + 1] + 2 <= k, ~(i <= j - 1) PROVE FALSE
  <2>1. j <= i /\ j <= n
    BY <1>0, <1>2, <1>4
  <2>2. at[j + 1] <= at[i + 1]
    <3>0. j + 1 \in 1..(n + 1) /\ i + 1 \in 1..(n + 1)
      BY <1>0, <1>2, <2>1
    <3>1. CASE j = i
      BY <1>0, <3>0, <3>1
    <3>2. CASE j # i
      <4>1. j + 1 < i + 1
        BY <1>2, <2>1, <3>2
      <4>2. at[j + 1] + 12 <= at[i + 1]
        BY <3>0, <4>1, AtGrows
      <4>3. at[j + 1] \in Nat /\ at[i + 1] \in Nat
        BY <1>0, <3>0, Zenon
      <4> QED BY <4>2, <4>3
    <3> QED BY <3>1, <3>2
  <2>3. at[j + 1] \in Nat /\ at[i + 1] \in Nat
    <3>1. j + 1 \in 1..(n + 1) /\ i + 1 \in 1..(n + 1)
      BY <1>0, <1>2, <2>1
    <3> QED BY <1>0, <3>1, Zenon
  <2> QED BY <1>0, <1>2, <1>4, <2>1, <2>2, <2>3
<1>5. PICK w \in 0..n : j = w + 1
  <2>1. j - 1 \in 0..n /\ j = (j - 1) + 1
    BY <1>0, <1>2
  <2> QED BY <2>1
<1>6. ~(w + 1 <= n /\ at[w + 2] + 2 <= k)
  <2>1. (w + 1) + 1 = w + 2
    OBVIOUS
  <2> QED BY <1>2, <1>5, <2>1, Zenon
<1>7. \A i \in 1..n : i <= w <=> at[i + 1] + 2 <= k
  <2>1. j - 1 = w
    BY <1>5
  <2> QED BY <1>3, <1>4, <2>1, Zenon
<1> QED BY <1>6, <1>7, Zenon DEF Whole

LEMMA AtLow ==
  ASSUME NEW t, NEW parts, NEW n, NEW at, NEW u, NEW k, Arrived(t, parts, n, at, u, k),
         NEW w \in 0..n
  PROVE  at[w + 1] >= 1 + 12 * w
<1>0. n \in Nat /\ at \in [1..(n + 1) -> Nat] /\ at[1] = 1
  BY DEF Arrived, PartsAt
<1> DEFINE P == {d \in Nat : d <= n => at[d + 1] >= 1 + 12 * d}
<1>1. 0 \in P
  BY <1>0
<1>2. \A d \in Nat : d \in P => d + 1 \in P
  <2> SUFFICES ASSUME NEW d \in Nat, d \in P, d + 1 <= n PROVE at[(d + 1) + 1] >= 1 + 12 * (d + 1)
    OBVIOUS
  <2>1. d + 1 \in 1..(n + 1) /\ (d + 1) + 1 \in 1..(n + 1) /\ d + 1 < (d + 1) + 1
    BY <1>0
  <2>2. at[d + 1] + 12 <= at[(d + 1) + 1]
    BY <2>1, AtGrows
  <2>3. PICK x \in Nat, y \in Nat : x = at[d + 1] /\ y = at[(d + 1) + 1]
    BY <1>0, <2>1, Zenon
  <2>4. x >= 1 + 12 * d
    BY <1>0, <2>3
  <2>5. x + 12 <= y
    BY <2>2, <2>3, Zenon
  <2>6. y >= 1 + 12 * (d + 1)
    BY <2>4, <2>5
  <2> QED BY <2>3, <2>6, Zenon
<1> HIDE DEF P
<1>3. w \in P
  <2>1. w \in Nat
    BY <1>0
  <2> QED BY <1>1, <1>2, <2>1, NatSet
<1> QED BY <1>3 DEF P

(* What is read of the parts up to one.                                    *)
PartsTo(parts, at, c) == [pos |-> at[c + 1], parts |-> [i \in 1..c |-> StoredOf(parts[i])]]

LEMMA OneRead ==
  ASSUME NEW t, NEW parts, NEW n, NEW at, NEW u, NEW k, Arrived(t, parts, n, at, u, k),
         NEW i \in 1..n, at[i + 1] + 2 <= k
  PROVE  PartsTo(parts, at, i) = NextPart(u, PartsTo(parts, at, i - 1))
<1> DEFINE First(c) == [q \in 1..c |-> StoredOf(parts[q])]
<1>1. n \in Nat /\ (i - 1) + 1 = i /\ i - 1 \in Nat
  BY DEF Arrived
<1>2. PICK state : state = PartsTo(parts, at, i - 1)
  OBVIOUS
<1>3. state.pos = at[i] /\ state.parts = First(i - 1)
  BY <1>1, <1>2, Zenon DEF PartsTo
<1> HIDE DEF First
<1>4. NextPart(u, state) = [pos |-> at[i + 1], parts |-> Append(state.parts, StoredOf(parts[i]))]
  BY <1>3, PartRead
<1>5. First(i) = Append(First(i - 1), StoredOf(parts[i]))
  <2> DEFINE S == {StoredOf(parts[q]) : q \in 1..n}
  <2>1. First(i - 1) \in Seq(S) /\ Len(First(i - 1)) = i - 1
    <3>1. \A q \in 1..(i - 1) : StoredOf(parts[q]) \in S
      <4> TAKE q \in 1..(i - 1)
      <4>1. q \in 1..n
        BY <1>1
      <4> QED BY <4>1, Zenon
    <3> HIDE DEF S
    <3> QED BY <1>1, <3>1 DEF First
  <2>2. StoredOf(parts[i]) \in S
    OBVIOUS
  <2>3. Longer(First(i), First(i - 1), i - 1, StoredOf(parts[i]))
    BY <1>1 DEF Longer, First
  <2> HIDE DEF S
  <2> QED BY <1>1, <2>1, <2>2, <2>3, OneMore
<1> QED BY <1>2, <1>3, <1>4, <1>5, Zenon DEF PartsTo, First

(* The parts are fewer than the boundaries there is room for.              *)
LEMMA EnoughSteps ==
  ASSUME NEW t, NEW parts, NEW n, NEW at, NEW u, NEW k, Arrived(t, parts, n, at, u, k),
         NEW w, Whole(at, n, k, w)
  PROVE  \E m \in Nat : m = Len(u) \div Len(Boundary) /\ w <= m
<1>0. n \in Nat /\ at \in [1..(n + 1) -> Nat] /\ k \in Nat /\ w \in 0..n
  BY DEF Arrived, PartsAt, Whole
<1>1. Len(Boundary) = 3
  BY DEF Boundary
<1>2. PICK z \in Nat : z = Len(u) /\ k <= z
  <2>1. u \in Seq(Cells(u)) /\ k <= Len(u)
    BY Zenon DEF Arrived
  <2> QED BY <2>1
<1>3. z \div 3 \in Nat
  OBVIOUS
<1>4. CASE w = 0
  BY <1>1, <1>2, <1>3, <1>4
<1>5. CASE w # 0
  <2>1. at[w + 1] + 2 <= k
    <3>1. w \in 1..n /\ w <= w
      BY <1>0, <1>5
    <3> QED BY <3>1, Zenon DEF Whole
  <2>2. at[w + 1] >= 1 + 12 * w
    BY <1>0, AtLow
  <2>3. PICK p \in Nat : p = at[w + 1]
    BY <1>0
  <2>4. 3 * w <= z
    BY <1>0, <1>2, <2>1, <2>2, <2>3
  <2>5. w <= z \div 3
    BY <1>0, <1>3, <2>4
  <2> QED BY <1>1, <1>2, <1>3, <2>5, Zenon
<1> QED BY <1>4, <1>5

(* The scan of any memory exists, although nothing is known of what it     *)
(* finds there.                                                            *)
LEMMA SomeScan ==
  ASSUME NEW body, NEW m \in Nat
  PROVE  \E g : Scanning(g, body, m)
<1> DEFINE P == {c \in Nat : \E g : Scanning(g, body, c)}
<1>1. 0 \in P
  <2> DEFINE g == [i \in 0..0 |-> [pos |-> 1, parts |-> <<>>]]
  <2>1. Scanning(g, body, 0)
    BY DEF Scanning
  <2> HIDE DEF g
  <2> QED BY <2>1
<1>2. \A c \in Nat : c \in P => c + 1 \in P
  <2> SUFFICES ASSUME NEW c \in Nat, NEW g, Scanning(g, body, c) PROVE \E h : Scanning(h, body, c + 1)
    OBVIOUS
  <2> DEFINE h == [i \in 0..(c + 1) |-> IF i = c + 1 THEN NextPart(body, g[c]) ELSE g[i]]
  <2>1. h = [i \in 0..(c + 1) |-> h[i]]
    OBVIOUS
  <2>2. h[0] = [pos |-> 1, parts |-> <<>>]
    <3>1. 0 \in 0..(c + 1) /\ 0 # c + 1
      OBVIOUS
    <3> QED BY <3>1, Zenon DEF Scanning
  <2>3. ASSUME NEW i \in 1..(c + 1) PROVE h[i] = NextPart(body, h[i - 1])
    <3>1. i \in 0..(c + 1) /\ i - 1 \in 0..(c + 1) /\ i - 1 # c + 1
      OBVIOUS
    <3>2. h[i - 1] = g[i - 1]
      BY <3>1, Zenon
    <3>3. CASE i = c + 1
      <4>1. i - 1 = c
        BY <3>3
      <4>2. h[i] = NextPart(body, g[c])
        BY <3>1, <3>3, Zenon
      <4> HIDE DEF h
      <4> QED BY <3>2, <4>1, <4>2, Zenon
    <3>4. CASE i # c + 1
      <4>1. i \in 1..c
        BY <3>4
      <4>2. h[i] = g[i] /\ g[i] = NextPart(body, g[i - 1])
        BY <3>1, <3>4, <4>1, Zenon DEF Scanning
      <4> HIDE DEF h
      <4> QED BY <3>2, <4>2, Zenon
    <3> QED BY <3>3, <3>4
  <2>4. Scanning(h, body, c + 1)
    <3> HIDE DEF h
    <3> QED BY <2>1, <2>2, <2>3, Zenon DEF Scanning
  <2> HIDE DEF h
  <2> QED BY <2>4
<1> HIDE DEF P
<1>3. m \in P
  BY <1>1, <1>2, NatSet
<1> QED BY <1>3 DEF P

(* Whatever is found after the whole parts, they stay first.               *)
Begun(stored, parts, w) ==
  /\ \E T : stored \in Seq(T)
  /\ Len(stored) >= w
  /\ \A i \in 1..w : stored[i] = StoredOf(parts[i])

LEMMA BegunStays ==
  ASSUME NEW body, NEW parts, NEW w \in Nat, NEW state, Begun(state.parts, parts, w)
  PROVE  Begun(NextPart(body, state).parts, parts, w)
<1>1. NextPart(body, state).parts = state.parts
      \/ \E x : NextPart(body, state).parts = Append(state.parts, x)
  <2> DEFINE found == Find(body, state.pos, Len(body) + 1, Boundary)
             after == found + Len(Boundary)
             start == Over(body, Over(body, after, "CR"), "LF")
             next == Find(body, start, Len(body) + 1, Boundary)
             end == Back(body, Back(body, next, "LF", start), "CR", start)
             blank == Find(body, start, end, <<"CR", "LF", "CR", "LF">>)
             lines == Lines(body, start, blank)
             none == found = 0 \/ (after < Len(body) /\ body[after] = "-" /\ body[after + 1] = "-") \/ next = 0
             bare == blank = 0 \/ lines = {}
             more == Append(state.parts, Stored(Header(body, lines), SubSeq(body, blank + 4, end - 1)))
  <2>1. NextPart(body, state) =
          IF none THEN state ELSE [pos |-> next, parts |-> IF bare THEN state.parts ELSE more]
    BY Zenon DEF NextPart
  <2>2. \E x : more = Append(state.parts, x)
    BY Zenon
  <2> HIDE DEF none, bare, more, next
  <2>3. CASE none
    BY <2>1, <2>3, Zenon
  <2>4. CASE ~none
    <3>1. PICK new : new = IF bare THEN state.parts ELSE more
      OBVIOUS
    <3>2. NextPart(body, state) = [pos |-> next, parts |-> new]
      BY <2>1, <2>4, <3>1, Zenon
    <3>3. NextPart(body, state).parts = new
      BY <3>2
    <3>4. CASE bare
      BY <3>1, <3>3, <3>4, Zenon
    <3>5. CASE ~bare
      <4>1. new = more
        BY <3>1, <3>5, Zenon
      <4> QED BY <2>2, <3>3, <4>1, Zenon
    <3> QED BY <3>4, <3>5, Zenon
  <2> QED BY <2>3, <2>4, Zenon
<1>2. PICK T, p : p = state.parts /\ p \in Seq(T)
  BY Zenon DEF Begun
<1>3. Len(p) >= w /\ \A i \in 1..w : p[i] = StoredOf(parts[i])
  BY <1>2, Zenon DEF Begun
<1>4. ASSUME NEW x PROVE Begun(Append(p, x), parts, w)
  <2>1. PICK T2 : T2 = T \cup {x}
    OBVIOUS
  <2>2. p \in Seq(T2) /\ x \in T2
    BY <1>2, <2>1
  <2>3. PICK q : q = Append(p, x)
    OBVIOUS
  <2>4. q \in Seq(T2) /\ Len(q) = Len(p) + 1 /\ \A i \in 1..Len(p) : q[i] = p[i]
    BY <2>2, <2>3
  <2>5. \A i \in 1..w : i \in 1..Len(p)
    BY <1>2, <1>3
  <2>6. Len(q) >= w
    BY <1>2, <1>3, <2>4
  <2> QED BY <1>3, <2>3, <2>4, <2>5, <2>6, Zenon DEF Begun
<1> QED BY <1>1, <1>2, <1>4, Zenon

LEMMA MultipartRead ==
  ASSUME NEW t, NEW parts, NEW n, NEW at, NEW u, NEW k, Arrived(t, parts, n, at, u, k),
         NEW w, Whole(at, n, k, w)
  PROVE  /\ Begun(Multipart(u), parts, w)
         /\ k = Len(u) => Len(Multipart(u)) = w
<1>0. /\ n \in Nat /\ at \in [1..(n + 1) -> Nat] /\ at[1] = 1 /\ k \in Nat
      /\ w \in 0..n
  BY DEF Arrived, PartsAt, Whole
<1>1. PICK m \in Nat : m = Len(u) \div Len(Boundary) /\ w <= m
  BY EnoughSteps
<1>2. PICK g : Scanning(g, u, m)
  BY SomeScan
<1>3. Multipart(u) = g[m].parts
  BY <1>1, <1>2, MultipartBy
<1>4. g[w] = PartsTo(parts, at, w)
  <2> DEFINE P == {c \in Nat : c <= w => g[c] = PartsTo(parts, at, c)}
  <2>1. 0 \in P
    <3>1. g[0] = [pos |-> 1, parts |-> <<>>]
      BY <1>2, Zenon DEF Scanning
    <3>2. [i \in 1..0 |-> StoredOf(parts[i])] = <<>> /\ 0 + 1 = 1
      OBVIOUS
    <3>3. g[0] = PartsTo(parts, at, 0)
      BY <1>0, <3>1, <3>2, Zenon DEF PartsTo
    <3> QED BY <3>3
  <2>2. \A c \in Nat : c \in P => c + 1 \in P
    <3> SUFFICES ASSUME NEW c \in Nat, c + 1 <= w, g[c] = PartsTo(parts, at, c)
                 PROVE  g[c + 1] = PartsTo(parts, at, c + 1)
      BY <1>0
    <3>1. c + 1 \in 1..m /\ c + 1 \in 1..n /\ (c + 1) - 1 = c
      BY <1>0, <1>1
    <3>2. g[c + 1] = NextPart(u, g[c])
      BY <1>2, <3>1, Zenon DEF Scanning
    <3>3. at[(c + 1) + 1] + 2 <= k
      BY <3>1, Zenon DEF Whole
    <3>4. PICK i \in 1..n : i = c + 1
      BY <3>1
    <3>5. PartsTo(parts, at, i) = NextPart(u, PartsTo(parts, at, i - 1))
      <4>1. at[i + 1] + 2 <= k
        BY <3>3, <3>4, Zenon
      <4> QED BY <4>1, OneRead
    <3> QED BY <3>1, <3>2, <3>4, <3>5, Zenon
  <2> HIDE DEF P
  <2>3. w \in P
    <3>1. w \in Nat
      BY <1>0
    <3> QED BY <2>1, <2>2, <3>1, NatSet
  <2>4. w <= w
    BY <1>0
  <2> QED BY <2>3, <2>4 DEF P
<1>5. Begun(PartsTo(parts, at, w).parts, parts, w) /\ Len(PartsTo(parts, at, w).parts) = w
  <2> DEFINE S == {StoredOf(parts[q]) : q \in 1..n}
  <2>1. PICK x : x = [i \in 1..w |-> StoredOf(parts[i])]
    OBVIOUS
  <2>2. \A q \in 1..w : StoredOf(parts[q]) \in S
    <3> TAKE q \in 1..w
    <3>1. q \in 1..n
      BY <1>0
    <3> QED BY <3>1, Zenon
  <2> HIDE DEF S
  <2>3. x \in Seq(S) /\ Len(x) = w /\ \A i \in 1..w : x[i] = StoredOf(parts[i])
    BY <1>0, <2>1, <2>2
  <2>4. w >= w
    BY <1>0
  <2>5. Begun(x, parts, w)
    BY <2>3, <2>4, Zenon DEF Begun
  <2>6. PartsTo(parts, at, w).parts = x
    BY <2>1, Zenon DEF PartsTo
  <2> QED BY <2>3, <2>5, <2>6, Zenon
<1>6. k = Len(u) => PartsTo(parts, at, w) = NextPart(u, PartsTo(parts, at, w))
  <2> SUFFICES ASSUME k = Len(u) PROVE PartsTo(parts, at, w) = NextPart(u, PartsTo(parts, at, w))
    OBVIOUS
  <2>1. w + 1 \in 1..(n + 1) /\ (w + 1) + 1 = w + 2
    BY <1>0
  <2>2. ~(w + 1 <= n /\ at[(w + 1) + 1] + 2 <= k)
    BY <2>1, Zenon DEF Whole
  <2>3. PICK state : state = PartsTo(parts, at, w)
    OBVIOUS
  <2>4. state.pos = at[w + 1]
    BY <2>3, Zenon DEF PartsTo
  <2>5. NextPart(u, state) = state
    BY <2>1, <2>2, <2>4, PartNotRead
  <2> QED BY <2>3, <2>5, Zenon
<1>7. \A d \in Nat : w + d <= m => /\ Begun(g[w + d].parts, parts, w)
                                   /\ k = Len(u) => g[w + d] = PartsTo(parts, at, w)
  <2> DEFINE P == {d \in Nat : w + d <= m => /\ Begun(g[w + d].parts, parts, w)
                                             /\ k = Len(u) => g[w + d] = PartsTo(parts, at, w)}
  <2>1. 0 \in P
    <3>1. w + 0 = w
      BY <1>0
    <3> QED BY <1>4, <1>5, <3>1, Zenon
  <2>2. \A d \in Nat : d \in P => d + 1 \in P
    <3> SUFFICES ASSUME NEW d \in Nat, d \in P, w + (d + 1) <= m
                 PROVE  /\ Begun(g[w + (d + 1)].parts, parts, w)
                        /\ k = Len(u) => g[w + (d + 1)] = PartsTo(parts, at, w)
      OBVIOUS
    <3>1. w + (d + 1) \in 1..m /\ (w + (d + 1)) - 1 = w + d /\ w + d <= m /\ w \in Nat
      BY <1>0, <1>1
    <3>2. g[w + (d + 1)] = NextPart(u, g[w + d])
      BY <1>2, <3>1, Zenon DEF Scanning
    <3>3. Begun(g[w + d].parts, parts, w) /\ (k = Len(u) => g[w + d] = PartsTo(parts, at, w))
      BY <3>1
    <3>4. Begun(NextPart(u, g[w + d]).parts, parts, w)
      BY <3>1, <3>3, BegunStays
    <3> QED BY <1>6, <3>2, <3>3, <3>4, Zenon
  <2> HIDE DEF P
  <2>3. \A d \in Nat : d \in P
    BY <2>1, <2>2, NatSet
  <2> QED BY <2>3 DEF P
<1>8. Begun(g[m].parts, parts, w) /\ (k = Len(u) => g[m] = PartsTo(parts, at, w))
  <2>1. m - w \in Nat /\ w + (m - w) = m /\ m <= m
    BY <1>0, <1>1
  <2> QED BY <1>7, <2>1, Zenon
<1> QED BY <1>3, <1>5, <1>8, Zenon

-----------------------------------------------------------------------------
(* What is so of what a browser has written.                               *)
BodyInv ==
  /\ kind = "multipart"
  /\ said \in Seq(BodyParts) /\ \A i \in 1..Len(said) : Clean(said[i])
  /\ (said = <<>> /\ text = <<>>) \/ text = PartsOf(said)

LEMMA ReadIn ==
  ASSUME NEW t \in Seq(Symbols), NEW k \in 0..Len(t), NEW before
  PROVE  LET u == BodyRead(t, k, before)
         IN /\ u \in Seq(Cells(u)) /\ Len(u) = Len(t)
            /\ \A i \in 1..k : u[i] = t[i]
<1>0. PICK n \in Nat : n = Len(t) /\ k \in Nat /\ k <= n
  OBVIOUS
<1> DEFINE Rest(i) == IF i > 1 /\ k + i \in DOMAIN before THEN before[k + i] ELSE "NUL"
<1>1. PICK x : x = SubSeq(t, 1, k)
  OBVIOUS
<1>2. PICK y : y = [i \in 1..(n - k) |-> Rest(i)]
  OBVIOUS
<1>3. PICK u : u = BodyRead(t, k, before)
  OBVIOUS
<1>4. u = x \o y
  BY <1>0, <1>1, <1>2, <1>3, Zenon DEF BodyRead
<1> DEFINE S == Symbols \cup {Rest(i) : i \in 1..(n - k)}
<1>5. y \in Seq(S) /\ Len(y) = n - k
  <2>1. \A i \in 1..(n - k) : Rest(i) \in S
    OBVIOUS
  <2>2. n - k \in Nat
    BY <1>0
  <2> HIDE DEF S, Rest
  <2> QED BY <1>2, <2>1, <2>2
<1>6. x \in Seq(S) /\ Len(x) = k /\ \A i \in 1..k : x[i] = t[i]
  <2>1. \A i \in 1..k : t[i] \in S
    <3>1. \A i \in 1..k : t[i] \in Symbols
      BY <1>0
    <3> QED BY <3>1
  <2> HIDE DEF S
  <2>2. /\ x \in Seq(S) /\ Len(x) = IF 1 <= k THEN k - 1 + 1 ELSE 0
        /\ \A i \in 1..(k - 1 + 1) : x[i] = t[1 + i - 1]
    BY <1>0, <1>1, <2>1, SubSeqProperties
  <2> QED BY <1>0, <2>2
<1> HIDE DEF S, Rest
<1>7. u \in Seq(S) /\ Len(u) = n /\ \A i \in 1..k : u[i] = x[i]
  <2>1. u \in Seq(S) /\ Len(u) = Len(x) + Len(y)
    BY <1>4, <1>5, <1>6, JoinLength
  <2>2. \A i \in 1..k : (x \o y)[i] = x[i]
    BY <1>5, <1>6
  <2> QED BY <1>0, <1>4, <1>5, <1>6, <2>1, <2>2
<1>8. u \in Seq(Cells(u))
  <2>1. PICK C : C = Cells(u)
    OBVIOUS
  <2>2. \A i \in 1..Len(u) : u[i] \in C
    BY <2>1 DEF Cells
  <2>3. u \in Seq(C)
    BY <1>7, <2>2
  <2> QED BY <2>1, <2>3, Zenon
<1>9. \A i \in 1..k : u[i] = t[i]
  BY <1>6, <1>7, Zenon
<1> QED BY <1>0, <1>3, <1>7, <1>8, <1>9, Zenon

(* The whole parts, as many as the property counts.                        *)
WholeParts(k) == {i \in 1..Len(said) : Len(PartsOf(SubSeq(said, 1, i))) - 2 <= k}

GivesParts(stored, k) ==
  /\ Len(stored) >= Cardinality(WholeParts(k))
  /\ \A i \in 1..Cardinality(WholeParts(k)) : stored[i] = Stored(Headers[said[i].header], said[i].data)
  /\ k = Len(text) => Len(stored) = Cardinality(WholeParts(k))

LEMMA Parsed == BodyInv => MultipartParsed
<1> SUFFICES ASSUME BodyInv, NEW k \in 0..Len(text), NEW before \in Memory
             PROVE  GivesParts(Multipart(BodyRead(text, k, before)), k)
  BY Zenon DEF MultipartParsed, GivesParts, WholeParts
<1>0. PICK u : u = BodyRead(text, k, before)
  OBVIOUS
<1>1. CASE said = <<>> /\ text = <<>>
  <2>1. k = 0 /\ u = <<>>
    <3>1. text \in Seq(Symbols) /\ Len(text) = 0
      BY <1>1
    <3>2. k = 0
      BY <3>1
    <3>3. u \in Seq(Cells(u)) /\ Len(u) = Len(text)
      BY <1>0, <3>1, ReadIn
    <3>4. Len(u) = 0
      BY <3>1, <3>3, Zenon
    <3> QED BY <3>2, <3>3, <3>4
  <2>2. WholeParts(k) = {}
    BY <1>1 DEF WholeParts
  <2>3. Cardinality(WholeParts(k)) = 0
    BY <2>2, FS_EmptySet
  <2>4. Multipart(u) = <<>>
    <3> DEFINE g == [i \in 0..0 |-> [pos |-> 1, parts |-> <<>>]]
    <3>1. Scanning(g, u, 0)
      BY DEF Scanning
    <3>2. Len(u) \div Len(Boundary) = 0 /\ 0 \in Nat
      BY <2>1 DEF Boundary
    <3>3. g[0].parts = <<>>
      OBVIOUS
    <3>4. PICK h : h = g
      OBVIOUS
    <3> HIDE DEF g
    <3>5. Multipart(u) = h[0].parts
      BY <3>1, <3>2, <3>4, MultipartBy
    <3> QED BY <3>3, <3>4, <3>5, Zenon
  <2>5. Len(<<>>) = 0 /\ 0 >= 0 /\ 1..0 = {}
    OBVIOUS
  <2> QED BY <1>0, <2>3, <2>4, <2>5, Zenon DEF GivesParts
<1>2. CASE text = PartsOf(said)
  <2>0. PICK n \in Nat : n = Len(said)
    BY DEF BodyInv
  <2>1. said \in Seq(BodyParts)
    BY DEF BodyInv
  <2>2. PICK at : at = Places(said, n)
    OBVIOUS
  <2>3. PartsAt(text, said, at)
    BY <1>2, <2>0, <2>1, <2>2, PartsLaid
  <2>5. text \in Seq(Symbols) /\ k \in Nat /\ k <= Len(text)
    <3>1. text \in Seq(Symbols)
      BY <2>3 DEF PartsAt
    <3> QED BY <3>1
  <2>6. u \in Seq(Cells(u)) /\ Len(u) = Len(text) /\ \A i \in 1..k : u[i] = text[i]
    BY <1>0, <2>5, ReadIn
  <2>7. Arrived(text, said, n, at, u, k)
    <3>1. \A i \in 1..n : Clean(said[i])
      BY <2>0, Zenon DEF BodyInv
    <3> QED BY <2>0, <2>1, <2>3, <2>5, <2>6, <3>1, Zenon DEF Arrived
  <2>8. PICK w : Whole(at, n, k, w)
    BY <2>7, SomeWhole
  <2>9. Begun(Multipart(u), said, w) /\ (k = Len(u) => Len(Multipart(u)) = w)
    BY <2>7, <2>8, MultipartRead
  <2>10. WholeParts(k) = 1..w
    <3>1. w \in 0..n
      BY <2>8 DEF Whole
    <3>2. ASSUME NEW i \in 1..n PROVE i \in WholeParts(k) <=> i <= w
      <4>1. i \in 0..n /\ i + 1 \in 1..(n + 1)
        OBVIOUS
      <4>2. Len(PartsOf(SubSeq(said, 1, i))) = at[i + 1] + 4
        BY <2>0, <2>1, <2>2, <4>1, FirstParts, Zenon
      <4>3. at[i + 1] \in Nat
        BY <2>0, <2>3, <4>1 DEF PartsAt
      <4>4. i \in WholeParts(k) <=> (at[i + 1] + 4) - 2 <= k
        <5>1. i \in WholeParts(k) <=> Len(PartsOf(SubSeq(said, 1, i))) - 2 <= k
          <6>1. i \in 1..Len(said)
            BY <2>0, Zenon
          <6> QED BY <6>1, Zenon DEF WholeParts
        <5> QED BY <4>2, <5>1, Zenon
      <4>5. (at[i + 1] + 4) - 2 <= k <=> at[i + 1] + 2 <= k
        BY <4>3
      <4> QED BY <2>8, <4>4, <4>5, Zenon DEF Whole
    <3>3. WholeParts(k) \subseteq 1..n
      BY <2>0 DEF WholeParts
    <3>4. 1..w = {i \in 1..n : i <= w}
      BY <3>1
    <3> QED BY <3>2, <3>3, <3>4
  <2>11. Cardinality(WholeParts(k)) = w
    <3>1. w \in Nat
      BY <2>8 DEF Whole
    <3>2. Cardinality(1..w) = IF 1 > w THEN 0 ELSE w - 1 + 1
      BY <3>1, FS_Interval
    <3>3. Cardinality(1..w) = w
      BY <3>1, <3>2
    <3> QED BY <2>10, <3>3, Zenon
  <2>12. \A i \in 1..w : StoredOf(said[i]) = Stored(Headers[said[i].header], said[i].data)
    BY Zenon DEF StoredOf
  <2> QED BY <1>0, <2>6, <2>9, <2>11, <2>12, Zenon DEF GivesParts, Begun
<1> QED BY <1>1, <1>2 DEF BodyInv

(* Every part of a body that has arrived whole becomes a field, a file or  *)
(* an error with the bytes that were written, before anything else and,    *)
(* when all of the body has arrived, without anything else; for any number *)
(* of parts, data of any length, wherever the body breaks off, and         *)
(* whatever the memory it is read to has held before.                      *)
THEOREM PartsCorrect == PartsSpec => []MultipartParsed
<1>1. PartsInit => BodyInv
  BY DEF PartsInit, BodyInv
<1>2. BodyInv /\ [PartsNext]_<<kind, text, said>> => BodyInv'
  <2> SUFFICES ASSUME BodyInv, [PartsNext]_<<kind, text, said>> PROVE BodyInv'
    OBVIOUS
  <2>1. ASSUME NEW header \in DOMAIN Headers, WritePart(header) PROVE BodyInv'
    <3>1. PICK part \in BodyParts : part = [header |-> header, data |-> <<>>]
      <4>1. <<>> \in Seq(Char)
        OBVIOUS
      <4>2. [header |-> header, data |-> <<>>] \in BodyParts
        BY <4>1 DEF BodyParts
      <4> QED BY <4>2
    <3>2. said' = Append(said, part) /\ text' = PartsOf(said') /\ kind' = kind
      BY <2>1, <3>1 DEF WritePart
    <3>3. Clean(part)
      <4>1. part.data = <<>> /\ Len(<<>>) = 0 /\ Len(Boundary) = 3
        BY <3>1 DEF Boundary
      <4> QED BY <4>1 DEF Clean, Nowhere
    <3>4. said \in Seq(BodyParts) /\ \A i \in 1..Len(said) : Clean(said[i])
      BY DEF BodyInv
    <3>5. said' \in Seq(BodyParts) /\ Len(said') = Len(said) + 1 /\ said'[Len(said) + 1] = part
          /\ \A i \in 1..Len(said) : said'[i] = said[i]
      BY <3>2, <3>4
    <3>6. ASSUME NEW i \in 1..Len(said') PROVE Clean(said'[i])
      <4>1. CASE i = Len(said) + 1
        BY <3>3, <3>5, <4>1, Zenon
      <4>2. CASE i \in 1..Len(said)
        BY <3>4, <3>5, <4>2, Zenon
      <4> QED BY <3>4, <3>5, <4>1, <4>2
    <3> QED BY <3>2, <3>5, <3>6 DEF BodyInv
  <2>2. ASSUME NEW c \in Char, WriteData(c) PROVE BodyInv'
    <3>1. PICK n \in Nat \ {0} : n = Len(said)
      BY <2>2 DEF WriteData, BodyInv
    <3>2. PICK part : part = [said[n] EXCEPT !.data = Append(@, c)]
      OBVIOUS
    <3>3. said \in Seq(BodyParts) /\ \A i \in 1..Len(said) : Clean(said[i])
      BY DEF BodyInv
    <3>4. said[n] \in BodyParts /\ part \in BodyParts
      <4>1. PICK old \in BodyParts : old = said[n]
        BY <3>1, <3>3
      <4>2. PICK d \in Seq(Char) : d = Append(old.data, c)
        <5>1. old.data \in Seq(Char)
          BY DEF BodyParts
        <5>2. Append(old.data, c) \in Seq(Char)
          BY <5>1
        <5> QED BY <5>2
      <4>3. part = [old EXCEPT !.data = d]
        BY <3>2, <4>1, <4>2, Zenon
      <4> QED BY <4>1, <4>3 DEF BodyParts
    <3>5. said' = [said EXCEPT ![n] = part] /\ text' = PartsOf(said') /\ kind' = kind
      BY <2>2, <3>1, <3>2 DEF WriteData
    <3>6. said' \in Seq(BodyParts) /\ Len(said') = n /\ said'[n] = part
          /\ \A i \in 1..n : i # n => said'[i] = said[i]
      BY <3>1, <3>3, <3>4, <3>5
    <3>7. Find(part.data, 1, Len(part.data) + 1, Boundary) = 0
      <4>1. Find(said'[Len(said)].data, 1, Len(said'[Len(said)].data) + 1, Boundary) = 0
        BY <2>2, Zenon DEF WriteData
      <4>2. said'[Len(said)] = part
        BY <3>1, <3>6, Zenon
      <4> QED BY <4>1, <4>2, Zenon
    <3>8. Clean(part)
      <4>1. PICK d \in Seq(Char) : d = part.data
        BY <3>4 DEF BodyParts
      <4>2. d \in Seq(Symbols) /\ Boundary \in Seq(Symbols)
        BY DEF Symbols, Boundary
      <4>3. Stretch(d, 1, Len(d) + 1)
        BY DEF Stretch
      <4> QED BY <3>7, <4>1, <4>2, <4>3, FindNone DEF Clean
    <3>9. ASSUME NEW i \in 1..Len(said') PROVE Clean(said'[i])
      BY <3>1, <3>3, <3>6, <3>8
    <3> QED BY <3>5, <3>6, <3>9 DEF BodyInv
  <2>3. CASE UNCHANGED <<kind, text, said>>
    BY <2>3 DEF BodyInv
  <2> QED BY <2>1, <2>2, <2>3 DEF PartsNext
<1> QED BY <1>1, <1>2, Parsed, PTL DEF PartsSpec

-----------------------------------------------------------------------------
(* A loop over a sequence, with one step for each element.                 *)
Folding(g, X, x, s, F) ==
  /\ g \in [0..Len(s) -> X]
  /\ g[0] = x
  /\ \A i \in 1..Len(s) : g[i] = F[s[i]][g[i - 1]]

Fold(X, x, s, F) == (CHOOSE g : Folding(g, X, x, s, F))[Len(s)]

LEMMA FoldExists ==
  ASSUME NEW S, NEW s \in Seq(S), NEW X, NEW x \in X, NEW F \in [S -> [X -> X]]
  PROVE  \E g : Folding(g, X, x, s, F)
<1>0. PICK n \in Nat : n = Len(s)
  OBVIOUS
<1> DEFINE f == [i \in 1..n |-> F[s[i]]]
<1>1. f \in [1..n -> [X -> X]]
  <2>1. \A i \in 1..n : F[s[i]] \in [X -> X]
    <3> TAKE i \in 1..n
    <3>1. s[i] \in S
      BY <1>0
    <3> QED BY <3>1, Zenon
  <2> QED BY <2>1
<1>2. \A i \in 1..n : f[i] = F[s[i]]
  OBVIOUS
<1> HIDE DEF f
<1>3. PICK g : Recursive(g, X, x, n, f)
  BY <1>1, Recursion
<1> QED BY <1>0, <1>2, <1>3, Zenon DEF Folding, Recursive

LEMMA FoldBy ==
  ASSUME NEW S, NEW s \in Seq(S), NEW X, NEW x, NEW F, NEW g, Folding(g, X, x, s, F)
  PROVE  Fold(X, x, s, F) = g[Len(s)]
<1> DEFINE h == CHOOSE h : Folding(h, X, x, s, F)
<1>1. Folding(h, X, x, s, F)
  OBVIOUS
<1> HIDE DEF h
<1>2. Alike(g, h, Len(s))
  BY <1>1, Zenon DEF Folding, Alike
<1>3. Len(s) \in Nat
  OBVIOUS
<1>4. h[Len(s)] = g[Len(s)]
  BY <1>2, <1>3, AlikeToTheEnd
<1> QED BY <1>4, Zenon DEF Fold, h

(* A run of the loop, with what is known of its steps.                     *)
FoldRun(g, S, X, x, s, F) ==
  /\ g = [i \in 0..Len(s) |-> g[i]] /\ g[0] = x /\ g[Len(s)] = Fold(X, x, s, F)
  /\ \A i \in 1..Len(s) : s[i] \in S /\ g[i - 1] \in X /\ g[i] = F[s[i]][g[i - 1]]

LEMMA FoldRuns ==
  ASSUME NEW S, NEW s \in Seq(S), NEW X, NEW x \in X, NEW F \in [S -> [X -> X]]
  PROVE  \E g : FoldRun(g, S, X, x, s, F)
<1>1. PICK g : Folding(g, X, x, s, F)
  BY FoldExists
<1>2. g[Len(s)] = Fold(X, x, s, F)
  BY <1>1, FoldBy
<1>3. g \in [0..Len(s) -> X] /\ \A i \in 1..Len(s) : s[i] \in S /\ i - 1 \in 0..Len(s)
  BY <1>1 DEF Folding
<1> QED BY <1>1, <1>2, <1>3, Zenon DEF Folding, FoldRun

LEMMA FoldNone ==
  ASSUME NEW X, NEW x \in X, NEW F, NEW s, s = <<>>
  PROVE  Fold(X, x, s, F) = x
<1> DEFINE g == [i \in 0..0 |-> x]
<1>1. g \in [0..0 -> X] /\ g[0] = x
  OBVIOUS
<1>2. Len(s) = 0 /\ s \in Seq({}) /\ 1..0 = {}
  OBVIOUS
<1> HIDE DEF g
<1>3. Folding(g, X, x, s, F)
  BY <1>1, <1>2 DEF Folding
<1>4. Fold(X, x, s, F) = g[Len(s)]
  BY <1>2, <1>3, FoldBy
<1> QED BY <1>1, <1>2, <1>4, Zenon

LEMMA FoldAppend ==
  ASSUME NEW S, NEW s \in Seq(S), NEW c \in S, NEW X, NEW x \in X, NEW F \in [S -> [X -> X]]
  PROVE  /\ Fold(X, x, s, F) \in X
         /\ Fold(X, x, Append(s, c), F) = F[c][Fold(X, x, s, F)]
<1>0. PICK n \in Nat : n = Len(s)
  OBVIOUS
<1>1. PICK t \in Seq(S) : t = Append(s, c) /\ Len(t) = n + 1 /\ t[n + 1] = c /\ \A i \in 1..n : t[i] = s[i]
  <2>1. Append(s, c) \in Seq(S) /\ Len(Append(s, c)) = n + 1 /\ Append(s, c)[n + 1] = c
        /\ \A i \in 1..n : Append(s, c)[i] = s[i]
    BY <1>0
  <2> QED BY <2>1
<1>2. PICK g : Folding(g, X, x, t, F)
  BY FoldExists
<1>3. Fold(X, x, t, F) = g[n + 1]
  <2>1. Fold(X, x, t, F) = g[Len(t)]
    BY <1>2, FoldBy
  <2> QED BY <1>1, <2>1, Zenon
<1>4. /\ g \in [0..(n + 1) -> X] /\ g[0] = x
      /\ \A i \in 1..(n + 1) : g[i] = F[t[i]][g[i - 1]]
  BY <1>1, <1>2, Zenon DEF Folding
<1> DEFINE r == [i \in 0..n |-> g[i]]
<1>5. r \in [0..n -> X] /\ r[0] = x /\ r[n] = g[n]
  BY <1>4
<1>6. ASSUME NEW i \in 1..n PROVE r[i] = F[s[i]][r[i - 1]]
  <2>1. i \in 1..(n + 1) /\ i \in 0..n /\ i - 1 \in 0..n
    OBVIOUS
  <2>2. r[i] = g[i] /\ r[i - 1] = g[i - 1]
    BY <2>1, Zenon
  <2> HIDE DEF r
  <2> QED BY <1>1, <1>4, <2>1, <2>2, Zenon
<1> HIDE DEF r
<1>7. Folding(r, X, x, s, F)
  BY <1>0, <1>5, <1>6, Zenon DEF Folding
<1>8. Fold(X, x, s, F) = g[n]
  BY <1>0, <1>5, <1>7, FoldBy
<1>9. g[n + 1] = F[c][g[n]] /\ g[n] \in X
  <2>1. n + 1 \in 1..(n + 1) /\ (n + 1) - 1 = n /\ n \in 0..(n + 1)
    OBVIOUS
  <2> QED BY <1>1, <1>4, <2>1, Zenon
<1> QED BY <1>1, <1>3, <1>8, <1>9, Zenon

-----------------------------------------------------------------------------
(* strtok.                                                                 *)
Letters == Char \cup DOMAIN Escapes \cup HexDigits
Splits == [tokens : Seq(Seq(Letters)), last : Seq(Letters)]
Unsplit == [tokens |-> <<>>, last |-> <<>>]

LEMMA UnsplitType == Unsplit \in Splits
<1>1. <<>> \in Seq(Seq(Letters)) /\ <<>> \in Seq(Letters)
  OBVIOUS
<1> QED BY <1>1 DEF Unsplit, Splits

LEMMA EndedType ==
  ASSUME NEW st \in Splits
  PROVE  Ended(st) \in Seq(Seq(Letters))
BY DEF Ended, Splits

LEMMA NextCharIs ==
  ASSUME NEW st \in Splits, NEW c \in Letters, NEW separator
  PROVE  /\ NextChar(st, c, separator) \in Splits
         /\ c = separator => NextChar(st, c, separator) = [tokens |-> Ended(st), last |-> <<>>]
         /\ c # separator => NextChar(st, c, separator) = [tokens |-> st.tokens, last |-> Append(st.last, c)]
<1>1. CASE c = separator
  <2>1. NextChar(st, c, separator) = [tokens |-> Ended(st), last |-> <<>>]
    BY <1>1, Zenon DEF NextChar
  <2>2. Ended(st) \in Seq(Seq(Letters)) /\ <<>> \in Seq(Letters)
    BY EndedType
  <2> QED BY <1>1, <2>1, <2>2 DEF Splits
<1>2. CASE c # separator
  <2>1. NextChar(st, c, separator) = [st EXCEPT !.last = Append(st.last, c)]
    BY <1>2, Zenon DEF NextChar
  <2>2. Append(st.last, c) \in Seq(Letters) /\ st.tokens \in Seq(Seq(Letters))
    BY DEF Splits
  <2>3. NextChar(st, c, separator) = [tokens |-> st.tokens, last |-> Append(st.last, c)]
    BY <2>1 DEF Splits
  <2> QED BY <1>2, <2>2, <2>3 DEF Splits
<1> QED BY <1>1, <1>2

SplitStep(separator) == [c \in Letters |-> [st \in Splits |-> NextChar(st, c, separator)]]

LEMMA SplitStepType == ASSUME NEW separator PROVE SplitStep(separator) \in [Letters -> [Splits -> Splits]]
BY NextCharIs DEF SplitStep

LEMMA SplitFold ==
  ASSUME NEW s \in Seq(Letters), NEW separator
  PROVE  Split(s, separator) = Fold(Splits, Unsplit, s, SplitStep(separator))
<1> DEFINE n == Len(s)
           Body(h) == [i \in 0..n |-> IF i = 0 THEN Unsplit ELSE NextChar(h[i - 1], s[i], separator)]
           h == CHOOSE h : h = Body(h)
<1>1. PICK g : FoldRun(g, Letters, Splits, Unsplit, s, SplitStep(separator))
  BY UnsplitType, SplitStepType, FoldRuns
<1>2. \A i \in 1..n : g[i] = NextChar(g[i - 1], s[i], separator)
  BY <1>1, Zenon DEF FoldRun, SplitStep
<1>3. g = Body(g)
  <2>1. \A i \in 0..n : i # 0 => i \in 1..n
    OBVIOUS
  <2>2. \A i \in 0..n : g[i] = IF i = 0 THEN Unsplit ELSE NextChar(g[i - 1], s[i], separator)
    BY <1>1, <1>2, <2>1, Zenon DEF FoldRun
  <2> QED BY <1>1, <2>2, Zenon DEF FoldRun
<1>4. h = Body(h)
  <2> HIDE DEF Body
  <2> QED BY <1>3
<1>5. Split(s, separator) = h[n]
  BY Zenon DEF Split, Unsplit
<1> HIDE DEF h
<1>6. h[0] = Unsplit /\ \A i \in 1..n : h[i] = NextChar(h[i - 1], s[i], separator)
  BY <1>4
<1>7. n \in Nat
  OBVIOUS
<1>8. Alike(g, h, n)
  BY <1>1, <1>2, <1>6, Zenon DEF Alike, FoldRun
<1> QED BY <1>1, <1>5, <1>7, <1>8, AlikeToTheEnd, Zenon DEF FoldRun

LEMMA SplitNone ==
  ASSUME NEW s, s = <<>>, NEW separator
  PROVE  Split(s, separator) = Unsplit
<1>1. s \in Seq(Letters)
  OBVIOUS
<1>2. Split(s, separator) = Fold(Splits, Unsplit, s, SplitStep(separator))
  BY <1>1, SplitFold
<1>3. Fold(Splits, Unsplit, s, SplitStep(separator)) = Unsplit
  BY UnsplitType, FoldNone
<1> QED BY <1>2, <1>3, Zenon

LEMMA SplitAppend ==
  ASSUME NEW s \in Seq(Letters), NEW c \in Letters, NEW separator
  PROVE  /\ Split(s, separator) \in Splits
         /\ Split(Append(s, c), separator) = NextChar(Split(s, separator), c, separator)
<1> DEFINE F == SplitStep(separator)
<1>1. Fold(Splits, Unsplit, s, F) \in Splits
      /\ Fold(Splits, Unsplit, Append(s, c), F) = F[c][Fold(Splits, Unsplit, s, F)]
  BY UnsplitType, SplitStepType, FoldAppend
<1>2. Split(s, separator) = Fold(Splits, Unsplit, s, F)
  BY SplitFold
<1>3. Append(s, c) \in Seq(Letters)
  OBVIOUS
<1>4. Split(Append(s, c), separator) = Fold(Splits, Unsplit, Append(s, c), F)
  BY <1>3, SplitFold
<1>5. \A st \in Splits : F[c][st] = NextChar(st, c, separator)
  BY Zenon DEF SplitStep
<1> QED BY <1>1, <1>2, <1>4, <1>5, Zenon

(* The cookies of some tokens.                                             *)
Jar == {Cookie(pair) : pair \in Seq(Letters)}
None == <<>>

CookieStep == [pair \in Seq(Letters) |-> [kept \in Seq(Jar) |->
                 IF Equals(pair) = 0 THEN kept ELSE Append(kept, Cookie(pair))]]

LEMMA CookieStepType == None \in Seq(Jar) /\ CookieStep \in [Seq(Letters) -> [Seq(Jar) -> Seq(Jar)]]
<1>1. ASSUME NEW pair \in Seq(Letters), NEW kept \in Seq(Jar)
      PROVE  (IF Equals(pair) = 0 THEN kept ELSE Append(kept, Cookie(pair))) \in Seq(Jar)
  <2>1. Cookie(pair) \in Jar
    BY Zenon DEF Jar
  <2> QED BY <2>1
<1> QED BY <1>1 DEF CookieStep, None

LEMMA CookiesFold ==
  ASSUME NEW pairs \in Seq(Seq(Letters))
  PROVE  CookiesOf(pairs) = Fold(Seq(Jar), None, pairs, CookieStep)
<1> DEFINE n == Len(pairs)
           Body(h) == [i \in 0..n |-> IF i = 0 THEN None ELSE IF Equals(pairs[i]) = 0 THEN h[i - 1] ELSE Append(h[i - 1], Cookie(pairs[i]))]
           h == CHOOSE h : h = Body(h)
<1>1. PICK g : FoldRun(g, Seq(Letters), Seq(Jar), None, pairs, CookieStep)
  BY CookieStepType, FoldRuns
<1>2. \A i \in 1..n : g[i] = IF Equals(pairs[i]) = 0 THEN g[i - 1] ELSE Append(g[i - 1], Cookie(pairs[i]))
  BY <1>1, Zenon DEF FoldRun, CookieStep
<1>3. g = Body(g)
  <2>1. \A i \in 0..n : i # 0 => i \in 1..n
    OBVIOUS
  <2>2. \A i \in 0..n : g[i] = IF i = 0 THEN None ELSE IF Equals(pairs[i]) = 0 THEN g[i - 1] ELSE Append(g[i - 1], Cookie(pairs[i]))
    BY <1>1, <1>2, <2>1, Zenon DEF FoldRun
  <2> QED BY <1>1, <2>2, Zenon DEF FoldRun
<1>4. h = Body(h)
  <2> HIDE DEF Body
  <2> QED BY <1>3
<1>5. CookiesOf(pairs) = h[n]
  BY Zenon DEF CookiesOf, None
<1> HIDE DEF h
<1>6. h[0] = None /\ \A i \in 1..n : h[i] = IF Equals(pairs[i]) = 0 THEN h[i - 1] ELSE Append(h[i - 1], Cookie(pairs[i]))
  <2>1. h[0] = None
    BY <1>4
  <2>2. \A i \in 1..n : i \in 0..n /\ i # 0
    OBVIOUS
  <2>3. \A i \in 0..n : h[i] = Body(h)[i]
    BY <1>4, Zenon
  <2> QED BY <2>1, <2>2, <2>3, Zenon
<1>7. n \in Nat
  OBVIOUS
<1>8. Alike(g, h, n)
  BY <1>1, <1>2, <1>6, Zenon DEF Alike, FoldRun
<1> QED BY <1>1, <1>5, <1>7, <1>8, AlikeToTheEnd, Zenon DEF FoldRun

LEMMA CookiesNone ==
  ASSUME NEW pairs, pairs = <<>>
  PROVE  CookiesOf(pairs) = <<>>
<1>1. pairs \in Seq(Seq(Letters))
  OBVIOUS
<1>2. CookiesOf(pairs) = Fold(Seq(Jar), None, pairs, CookieStep)
  BY <1>1, CookiesFold
<1>3. Fold(Seq(Jar), None, pairs, CookieStep) = None
  BY CookieStepType, FoldNone
<1> QED BY <1>2, <1>3, Zenon DEF None

LEMMA CookiesAppend ==
  ASSUME NEW pairs \in Seq(Seq(Letters)), NEW pair \in Seq(Letters)
  PROVE  CookiesOf(Append(pairs, pair)) =
           IF Equals(pair) = 0 THEN CookiesOf(pairs) ELSE Append(CookiesOf(pairs), Cookie(pair))
<1>1. /\ Fold(Seq(Jar), None, pairs, CookieStep) \in Seq(Jar)
      /\ Fold(Seq(Jar), None, Append(pairs, pair), CookieStep)
           = CookieStep[pair][Fold(Seq(Jar), None, pairs, CookieStep)]
  BY CookieStepType, FoldAppend
<1>2. CookiesOf(pairs) = Fold(Seq(Jar), None, pairs, CookieStep)
  BY CookiesFold
<1>3. Append(pairs, pair) \in Seq(Seq(Letters))
  OBVIOUS
<1>4. CookiesOf(Append(pairs, pair)) = Fold(Seq(Jar), None, Append(pairs, pair), CookieStep)
  BY <1>3, CookiesFold
<1>5. \A kept \in Seq(Jar) : CookieStep[pair][kept] =
        IF Equals(pair) = 0 THEN kept ELSE Append(kept, Cookie(pair))
  BY Zenon DEF CookieStep
<1> QED BY <1>1, <1>2, <1>4, <1>5, Zenon

-----------------------------------------------------------------------------
(* What some pairs mean.                                                   *)
PairsWritten == [name : Seq(Letters), eq : BOOLEAN, value : Seq(Letters)]
Meanings == {Meaning(pair) : pair \in PairsWritten}

MeantStep(what) == [pair \in PairsWritten |-> [meant \in Seq(Meanings) |->
                      IF ~Means(pair, what) THEN meant ELSE Append(meant, Meaning(pair))]]

LEMMA MeantStepType ==
  ASSUME NEW what
  PROVE  None \in Seq(Meanings) /\ MeantStep(what) \in [PairsWritten -> [Seq(Meanings) -> Seq(Meanings)]]
<1>1. ASSUME NEW pair \in PairsWritten, NEW meant \in Seq(Meanings)
      PROVE  (IF ~Means(pair, what) THEN meant ELSE Append(meant, Meaning(pair))) \in Seq(Meanings)
  <2>1. Meaning(pair) \in Meanings
    BY Zenon DEF Meanings
  <2> QED BY <2>1
<1> QED BY <1>1 DEF MeantStep, None

LEMMA MeantFold ==
  ASSUME NEW pairs \in Seq(PairsWritten), NEW what
  PROVE  Meant(pairs, what) = Fold(Seq(Meanings), None, pairs, MeantStep(what))
<1> DEFINE n == Len(pairs)
           Body(h) == [i \in 0..n |-> IF i = 0 THEN None ELSE IF ~Means(pairs[i], what) THEN h[i - 1] ELSE Append(h[i - 1], Meaning(pairs[i]))]
           h == CHOOSE h : h = Body(h)
<1>1. PICK g : FoldRun(g, PairsWritten, Seq(Meanings), None, pairs, MeantStep(what))
  BY MeantStepType, FoldRuns
<1>2. \A i \in 1..n : g[i] = IF ~Means(pairs[i], what) THEN g[i - 1] ELSE Append(g[i - 1], Meaning(pairs[i]))
  BY <1>1, Zenon DEF FoldRun, MeantStep
<1>3. g = Body(g)
  <2>1. \A i \in 0..n : i # 0 => i \in 1..n
    OBVIOUS
  <2>2. \A i \in 0..n : g[i] = IF i = 0 THEN None ELSE IF ~Means(pairs[i], what) THEN g[i - 1] ELSE Append(g[i - 1], Meaning(pairs[i]))
    BY <1>1, <1>2, <2>1, Zenon DEF FoldRun
  <2> QED BY <1>1, <2>2, Zenon DEF FoldRun
<1>4. h = Body(h)
  <2> HIDE DEF Body
  <2> QED BY <1>3
<1>5. Meant(pairs, what) = h[n]
  BY Zenon DEF Meant, None
<1> HIDE DEF h
<1>6. h[0] = None /\ \A i \in 1..n : h[i] = IF ~Means(pairs[i], what) THEN h[i - 1] ELSE Append(h[i - 1], Meaning(pairs[i]))
  <2>1. h[0] = None
    BY <1>4
  <2>2. \A i \in 1..n : i \in 0..n /\ i # 0
    OBVIOUS
  <2>3. \A i \in 0..n : h[i] = Body(h)[i]
    BY <1>4, Zenon
  <2> QED BY <2>1, <2>2, <2>3, Zenon
<1>7. n \in Nat
  OBVIOUS
<1>8. Alike(g, h, n)
  BY <1>1, <1>2, <1>6, Zenon DEF Alike, FoldRun
<1> QED BY <1>1, <1>5, <1>7, <1>8, AlikeToTheEnd, Zenon DEF FoldRun

LEMMA MeantNone ==
  ASSUME NEW pairs, pairs = <<>>, NEW what
  PROVE  Meant(pairs, what) = <<>>
<1>1. pairs \in Seq(PairsWritten)
  OBVIOUS
<1>2. Meant(pairs, what) = Fold(Seq(Meanings), None, pairs, MeantStep(what))
  BY <1>1, MeantFold
<1>3. Fold(Seq(Meanings), None, pairs, MeantStep(what)) = None
  BY MeantStepType, FoldNone
<1> QED BY <1>2, <1>3, Zenon DEF None

LEMMA MeantAppend ==
  ASSUME NEW pairs \in Seq(PairsWritten), NEW pair \in PairsWritten, NEW what
  PROVE  Meant(Append(pairs, pair), what) =
           IF ~Means(pair, what) THEN Meant(pairs, what) ELSE Append(Meant(pairs, what), Meaning(pair))
<1> DEFINE F == MeantStep(what)
<1>1. /\ Fold(Seq(Meanings), None, pairs, F) \in Seq(Meanings)
      /\ Fold(Seq(Meanings), None, Append(pairs, pair), F) = F[pair][Fold(Seq(Meanings), None, pairs, F)]
  BY MeantStepType, FoldAppend
<1>2. Meant(pairs, what) = Fold(Seq(Meanings), None, pairs, F)
  BY MeantFold
<1>3. Append(pairs, pair) \in Seq(PairsWritten)
  OBVIOUS
<1>4. Meant(Append(pairs, pair), what) = Fold(Seq(Meanings), None, Append(pairs, pair), F)
  BY <1>3, MeantFold
<1>5. \A meant \in Seq(Meanings) : F[pair][meant] =
        IF ~Means(pair, what) THEN meant ELSE Append(meant, Meaning(pair))
  BY Zenon DEF MeantStep
<1> QED BY <1>1, <1>2, <1>4, <1>5, Zenon

-----------------------------------------------------------------------------
(* url_decode undoes what the browser did.                                 *)
LEMMA EscapesAre ==
  /\ DOMAIN Escapes = {"NUL", "%", "&", "=", "+", ";", " "}
  /\ Escapes["NUL"] = <<"0", "0">> /\ Escapes["%"] = <<"2", "5">> /\ Escapes["&"] = <<"2", "6">>
  /\ Escapes["="] = <<"3", "D">> /\ Escapes["+"] = <<"2", "B">> /\ Escapes[";"] = <<"3", "B">>
  /\ Escapes[" "] = <<"2", "0">>
BY DEF Escapes

LEMMA EscapeIs ==
  ASSUME NEW c \in DOMAIN Escapes
  PROVE  /\ Escapes[c] = <<Escapes[c][1], Escapes[c][2]>>
         /\ Escapes[c][1] \in HexDigits /\ Escapes[c][2] \in HexDigits
         /\ Escaped(Escapes[c]) = c
<1>0. /\ Escapes["NUL"][1] = "0" /\ Escapes["NUL"][2] = "0" /\ Escapes["%"][1] = "2" /\ Escapes["%"][2] = "5"
      /\ Escapes["&"][1] = "2" /\ Escapes["&"][2] = "6" /\ Escapes["="][1] = "3" /\ Escapes["="][2] = "D"
      /\ Escapes["+"][1] = "2" /\ Escapes["+"][2] = "B" /\ Escapes[";"][1] = "3" /\ Escapes[";"][2] = "B"
      /\ Escapes[" "][1] = "2" /\ Escapes[" "][2] = "0"
  <2>2. Escapes["NUL"][1] = "0" /\ Escapes["NUL"][2] = "0"
    <3>1. PICK x : x = <<"0", "0">>
      OBVIOUS
    <3>2. x[1] = "0" /\ x[2] = "0"
      BY <3>1
    <3> QED BY <3>1, <3>2, EscapesAre, Zenon
  <2>3. Escapes["%"][1] = "2" /\ Escapes["%"][2] = "5"
    <3>1. PICK x : x = <<"2", "5">>
      OBVIOUS
    <3>2. x[1] = "2" /\ x[2] = "5"
      BY <3>1
    <3> QED BY <3>1, <3>2, EscapesAre, Zenon
  <2>4. Escapes["&"][1] = "2" /\ Escapes["&"][2] = "6"
    <3>1. PICK x : x = <<"2", "6">>
      OBVIOUS
    <3>2. x[1] = "2" /\ x[2] = "6"
      BY <3>1
    <3> QED BY <3>1, <3>2, EscapesAre, Zenon
  <2>5. Escapes["="][1] = "3" /\ Escapes["="][2] = "D"
    <3>1. PICK x : x = <<"3", "D">>
      OBVIOUS
    <3>2. x[1] = "3" /\ x[2] = "D"
      BY <3>1
    <3> QED BY <3>1, <3>2, EscapesAre, Zenon
  <2>6. Escapes["+"][1] = "2" /\ Escapes["+"][2] = "B"
    <3>1. PICK x : x = <<"2", "B">>
      OBVIOUS
    <3>2. x[1] = "2" /\ x[2] = "B"
      BY <3>1
    <3> QED BY <3>1, <3>2, EscapesAre, Zenon
  <2>7. Escapes[";"][1] = "3" /\ Escapes[";"][2] = "B"
    <3>1. PICK x : x = <<"3", "B">>
      OBVIOUS
    <3>2. x[1] = "3" /\ x[2] = "B"
      BY <3>1
    <3> QED BY <3>1, <3>2, EscapesAre, Zenon
  <2>8. Escapes[" "][1] = "2" /\ Escapes[" "][2] = "0"
    <3>1. PICK x : x = <<"2", "0">>
      OBVIOUS
    <3>2. x[1] = "2" /\ x[2] = "0"
      BY <3>1
    <3> QED BY <3>1, <3>2, EscapesAre, Zenon
  <2> QED BY <2>2, <2>3, <2>4, <2>5, <2>6, <2>7, <2>8
<1>1. \A d \in DOMAIN Escapes : d # c => Escapes[d] # Escapes[c]
  <2>1. SUFFICES ASSUME NEW d \in DOMAIN Escapes, Escapes[d] = Escapes[c] PROVE d = c
    OBVIOUS
  <2>2. Escapes[d][1] = Escapes[c][1] /\ Escapes[d][2] = Escapes[c][2]
    BY <2>1, Zenon
  <2>3. DOMAIN Escapes = {"NUL", "%", "&", "=", "+", ";", " "}
    BY EscapesAre
  <2> QED BY <1>0, <2>2, <2>3
<1>2. (CHOOSE d \in DOMAIN Escapes : Escapes[d] = Escapes[c]) = c
  BY <1>1, Zenon
<1>3. Escaped(Escapes[c]) = c
  BY <1>2, Zenon DEF Escaped
<1>4. Escapes[c] = <<Escapes[c][1], Escapes[c][2]>> /\ Escapes[c][1] \in HexDigits /\ Escapes[c][2] \in HexDigits
  <2>1. CASE c = "NUL" BY <1>0, <2>1, EscapesAre DEF HexDigits
  <2>2. CASE c = "%" BY <1>0, <2>2, EscapesAre DEF HexDigits
  <2>3. CASE c = "&" BY <1>0, <2>3, EscapesAre DEF HexDigits
  <2>4. CASE c = "=" BY <1>0, <2>4, EscapesAre DEF HexDigits
  <2>5. CASE c = "+" BY <1>0, <2>5, EscapesAre DEF HexDigits
  <2>6. CASE c = ";" BY <1>0, <2>6, EscapesAre DEF HexDigits
  <2>7. CASE c = " " BY <1>0, <2>7, EscapesAre DEF HexDigits
  <2> QED BY <2>1, <2>2, <2>3, <2>4, <2>5, <2>6, <2>7, EscapesAre
<1> QED BY <1>3, <1>4

Piece(raw, p, e, c) ==
  \/ c \in Plain /\ e = p + 1 /\ raw[p] = c
  \/ c = " " /\ e = p + 1 /\ raw[p] = "+"
  \/ /\ c \in DOMAIN Escapes /\ e = p + 3
     /\ raw[p] = "%" /\ raw[p + 1] = Escapes[c][1] /\ raw[p + 2] = Escapes[c][2]

LEMMA PieceRead ==
  ASSUME NEW raw \in Seq(Letters), NEW p \in Nat, NEW e \in Nat, p >= 1, e <= Len(raw) + 1, NEW c,
         Piece(raw, p, e, c), NEW st, st.next = p
  PROVE  Decoded(raw, st) = [next |-> e, to |-> Append(st.to, c)]
<1>1. PICK l \in Nat : l = Len(raw)
  OBVIOUS
<1>2. CASE c \in Plain /\ e = p + 1 /\ raw[p] = c
  <2>1. c # "+" /\ c # "%"
    BY <1>2, EscapesAre DEF Plain
  <2>2. ~(p > Len(raw))
    BY <1>1, <1>2
  <2> QED BY <1>2, <2>1, <2>2, Zenon DEF Decoded
<1>3. CASE c = " " /\ e = p + 1 /\ raw[p] = "+"
  <2>1. p + 1 <= l + 1
    BY <1>1, <1>3, Zenon
  <2>2. ~(p > Len(raw))
    BY <1>1, <2>1
  <2> QED BY <1>3, <2>2, Zenon DEF Decoded
<1>4. CASE c \in DOMAIN Escapes /\ e = p + 3 /\ raw[p] = "%" /\ raw[p + 1] = Escapes[c][1] /\ raw[p + 2] = Escapes[c][2]
  <2>1. ~(p > Len(raw)) /\ p + 2 <= Len(raw)
    BY <1>1, <1>4
  <2>2. /\ raw[p + 1] \in HexDigits /\ raw[p + 2] \in HexDigits
        /\ Escaped(<<raw[p + 1], raw[p + 2]>>) = c
    BY <1>4, EscapeIs, Zenon
  <2>3. "%" # "+"
    OBVIOUS
  <2> QED BY <1>4, <2>1, <2>2, <2>3, Zenon DEF Decoded
<1> QED BY <1>2, <1>3, <1>4 DEF Piece

Encoding(at, raw, chars, n) ==
  /\ n \in Nat /\ chars \in Seq(Letters) /\ Len(chars) = n /\ raw \in Seq(Letters)
  /\ at \in [1..(n + 1) -> Nat] /\ at[1] = 1 /\ at[n + 1] = Len(raw) + 1
  /\ \A j \in 1..(n + 1) : at[j] >= 1 /\ at[j] <= Len(raw) + 1
  /\ \A j \in 1..n : Piece(raw, at[j], at[j + 1], chars[j])

Decoding(g, raw, m) ==
  /\ g = [i \in 0..m |-> g[i]]
  /\ g[0] = [next |-> 1, to |-> <<>>]
  /\ \A i \in 1..m : g[i] = Decoded(raw, g[i - 1])

LEMMA DecodeBy ==
  ASSUME NEW raw, NEW m \in Nat, Len(raw) = m, NEW g, Decoding(g, raw, m)
  PROVE  UrlDecode(raw) = g[m].to
<1> DEFINE Body(h) == [i \in 0..m |-> IF i = 0 THEN [next |-> 1, to |-> <<>>] ELSE Decoded(raw, h[i - 1])]
           h == CHOOSE h : h = Body(h)
<1>1. g = Body(g)
  <2>1. \A i \in 0..m : i # 0 => i \in 1..m
    OBVIOUS
  <2>2. \A i \in 0..m : g[i] = IF i = 0 THEN [next |-> 1, to |-> <<>>] ELSE Decoded(raw, g[i - 1])
    BY <2>1, Zenon DEF Decoding
  <2> QED BY <2>2, Zenon DEF Decoding
<1>2. h = Body(h)
  <2> HIDE DEF Body
  <2> QED BY <1>1
<1>3. UrlDecode(raw) = h[m].to
  BY Zenon DEF UrlDecode
<1> HIDE DEF h
<1>4. h[0] = [next |-> 1, to |-> <<>>] /\ \A i \in 1..m : h[i] = Decoded(raw, h[i - 1])
  BY <1>2
<1>5. Alike(g, h, m)
  BY <1>4, Zenon DEF Alike, Decoding
<1> QED BY <1>3, <1>5, AlikeToTheEnd, Zenon

LEMMA EncodingLow ==
  ASSUME NEW at, NEW raw, NEW chars, NEW n, Encoding(at, raw, chars, n), NEW w \in 0..n
  PROVE  at[w + 1] >= 1 + w
<1>0. n \in Nat /\ at \in [1..(n + 1) -> Nat] /\ at[1] = 1
  BY DEF Encoding
<1> DEFINE P == {d \in Nat : d <= n => at[d + 1] >= 1 + d}
<1>1. 0 \in P
  BY <1>0
<1>2. \A d \in Nat : d \in P => d + 1 \in P
  <2> SUFFICES ASSUME NEW d \in Nat, d \in P, d + 1 <= n PROVE at[(d + 1) + 1] >= 1 + (d + 1)
    OBVIOUS
  <2>1. d + 1 \in 1..n /\ d + 1 \in 1..(n + 1) /\ (d + 1) + 1 \in 1..(n + 1)
    BY <1>0
  <2>2. Piece(raw, at[d + 1], at[(d + 1) + 1], chars[d + 1])
    BY <2>1, Zenon DEF Encoding
  <2>3. PICK x \in Nat, y \in Nat : x = at[d + 1] /\ y = at[(d + 1) + 1]
    BY <1>0, <2>1, Zenon
  <2>4. x >= 1 + d
    BY <1>0, <2>3
  <2>5. y = x + 1 \/ y = x + 3
    BY <2>2, <2>3, Zenon DEF Piece
  <2>6. y >= 1 + (d + 1)
    BY <2>4, <2>5
  <2> QED BY <2>3, <2>6, Zenon
<1> HIDE DEF P
<1>3. w \in P
  <2>1. w \in Nat
    BY <1>0
  <2> QED BY <1>1, <1>2, <2>1, NatSet
<1> QED BY <1>3 DEF P

FirstOf(chars, c) == [i \in 1..c |-> chars[i]]

LEMMA FirstOfIs ==
  ASSUME NEW S, NEW chars \in Seq(S), NEW n \in Nat, n = Len(chars), NEW i \in 1..n
  PROVE  FirstOf(chars, i) = Append(FirstOf(chars, i - 1), chars[i])
<1>1. \A q \in 1..(i - 1) : chars[q] \in S
  <2> TAKE q \in 1..(i - 1)
  <2>1. q \in 1..Len(chars)
    OBVIOUS
  <2> QED BY <2>1
<1>2. FirstOf(chars, i - 1) \in Seq(S) /\ Len(FirstOf(chars, i - 1)) = i - 1 /\ chars[i] \in S
  BY <1>1 DEF FirstOf
<1>3. Longer(FirstOf(chars, i), FirstOf(chars, i - 1), i - 1, chars[i])
  BY DEF Longer, FirstOf
<1>4. i - 1 \in Nat
  OBVIOUS
<1> QED BY <1>2, <1>3, <1>4, OneMore

LEMMA DecodeIs ==
  ASSUME NEW at, NEW raw, NEW chars, NEW n, Encoding(at, raw, chars, n)
  PROVE  UrlDecode(raw) = chars
<1>0. /\ n \in Nat /\ chars \in Seq(Letters) /\ n = Len(chars) /\ raw \in Seq(Letters)
      /\ at \in [1..(n + 1) -> Nat] /\ at[1] = 1
  BY DEF Encoding
<1>1. PICK m \in Nat : m = Len(raw) /\ at[n + 1] = m + 1 /\ n <= m
  <2>1. PICK m \in Nat : m = Len(raw)
    BY <1>0
  <2>2. at[n + 1] = m + 1
    BY <2>1, Zenon DEF Encoding
  <2>3. at[n + 1] >= 1 + n
    BY <1>0, EncodingLow
  <2> QED BY <1>0, <2>1, <2>2, <2>3
<1> DEFINE ReadTo(c) == [next |-> at[c + 1], to |-> FirstOf(chars, c)]
           g == [i \in 0..m |-> ReadTo(IF i <= n THEN i ELSE n)]
<1>2. g[0] = [next |-> 1, to |-> <<>>]
  <2>1. FirstOf(chars, 0) = <<>>
    BY DEF FirstOf
  <2>2. g[0] = ReadTo(0)
    BY <1>0
  <2>3. at[0 + 1] = 1
    BY <1>0
  <2> QED BY <2>1, <2>2, <2>3, Zenon
<1>3. ASSUME NEW i \in 1..n PROVE ReadTo(i) = Decoded(raw, ReadTo(i - 1))
  <2>1. (i - 1) + 1 = i /\ i \in 1..(n + 1) /\ i + 1 \in 1..(n + 1)
    BY <1>0
  <2>2. PICK p \in Nat, e \in Nat : p = at[i] /\ e = at[i + 1]
    BY <1>0, <2>1, Zenon
  <2>3. Piece(raw, p, e, chars[i]) /\ p >= 1 /\ e <= Len(raw) + 1
    BY <2>1, <2>2, Zenon DEF Encoding
  <2>4. PICK st : st = ReadTo(i - 1)
    OBVIOUS
  <2>5. st.next = p /\ st.to = FirstOf(chars, i - 1)
    BY <2>1, <2>2, <2>4, Zenon
  <2>6. Decoded(raw, st) = [next |-> e, to |-> Append(st.to, chars[i])]
    <3>1. PICK c : c = chars[i]
      OBVIOUS
    <3>2. Piece(raw, p, e, c) /\ p >= 1 /\ e <= Len(raw) + 1 /\ raw \in Seq(Letters)
      BY <1>0, <2>3, <3>1, Zenon
    <3>3. Decoded(raw, st) = [next |-> e, to |-> Append(st.to, c)]
      <4>1. st.next = p
        BY <2>5, Zenon
      <4> QED BY <3>2, <4>1, PieceRead
    <3> QED BY <3>1, <3>3, Zenon
  <2>7. FirstOf(chars, i) = Append(FirstOf(chars, i - 1), chars[i])
    BY <1>0, FirstOfIs
  <2> QED BY <2>2, <2>4, <2>5, <2>6, <2>7, Zenon
<1>4. ReadTo(n) = Decoded(raw, ReadTo(n))
  <2>1. ReadTo(n).next = m + 1
    BY <1>1, Zenon
  <2>2. m + 1 > Len(raw)
    BY <1>1
  <2> QED BY <2>1, <2>2, Zenon DEF Decoded
<1>5. ASSUME NEW i \in 1..m PROVE g[i] = Decoded(raw, g[i - 1])
  <2>0. i \in 0..m /\ i - 1 \in 0..m
    BY <1>1
  <2>1. CASE i <= n
    <3>1. i - 1 <= n /\ i \in 1..n
      BY <1>0, <2>1
    <3>2. g[i] = ReadTo(i) /\ g[i - 1] = ReadTo(i - 1)
      <4> HIDE DEF ReadTo
      <4> QED BY <2>0, <2>1, <3>1, Zenon
    <3> HIDE DEF ReadTo, g
    <3> QED BY <1>3, <3>1, <3>2, Zenon
  <2>2. CASE ~(i <= n)
    <3>1. i - 1 <= n => i - 1 = n
      BY <1>0, <2>2
    <3>2. g[i] = ReadTo(n) /\ g[i - 1] = ReadTo(n)
      <4> HIDE DEF ReadTo
      <4> QED BY <2>0, <2>2, <3>1, Zenon
    <3> HIDE DEF ReadTo, g
    <3> QED BY <1>4, <3>2, Zenon
  <2> QED BY <2>1, <2>2
<1>6. Decoding(g, raw, m)
  <2>1. g = [i \in 0..m |-> g[i]]
    OBVIOUS
  <2> HIDE DEF g
  <2> QED BY <1>2, <1>5, <2>1, Zenon DEF Decoding
<1>7. UrlDecode(raw) = g[m].to
  <2> HIDE DEF g
  <2> QED BY <1>1, <1>6, DecodeBy
<1>8. g[m] = ReadTo(n)
  <2>1. m \in 0..m /\ (m <= n => m = n)
    BY <1>0, <1>1
  <2> HIDE DEF ReadTo
  <2> QED BY <2>1, Zenon
<1>9. FirstOf(chars, n) = chars
  BY <1>0 DEF FirstOf
<1>10. ReadTo(n).to = FirstOf(chars, n)
  BY Zenon
<1> HIDE DEF g, ReadTo
<1> QED BY <1>7, <1>8, <1>9, <1>10, Zenon

(* A character more.                                                       *)
Encoded(raw, chars) == \E at, n : Encoding(at, raw, chars, n)

(* What stands for a character.                                            *)
Stands(word, c) ==
  \/ c \in Plain /\ word = <<c>>
  \/ c \in DOMAIN Escapes /\ word = <<"%">> \o Escapes[c]
  \/ c = " " /\ word = <<"+">>

Safe(word) == \A i \in 1..Len(word) : word[i] \notin {"&", "=", ";", " ", "NUL"}
Put(t, p, word) == \A i \in 1..Len(word) : t[p - 1 + i] = word[i]

LEMMA EscapeWritten ==
  ASSUME NEW c \in DOMAIN Escapes, NEW word, word = <<"%">> \o Escapes[c]
  PROVE  /\ word \in Seq(Letters) /\ Len(word) = 3
         /\ word[1] = "%" /\ word[2] = Escapes[c][1] /\ word[3] = Escapes[c][2]
<1>1. PICK x \in HexDigits, y \in HexDigits : Escapes[c] = <<x, y>> /\ x = Escapes[c][1] /\ y = Escapes[c][2]
  BY EscapeIs
<1>2. x \in Letters /\ y \in Letters /\ "%" \in Letters
  BY EscapesAre DEF Letters
<1>3. PICK v \in Seq(Letters) : v = <<x, y>> /\ Len(v) = 2 /\ v[1] = x /\ v[2] = y
  <2>1. <<x, y>> \in Seq(Letters) /\ Len(<<x, y>>) = 2 /\ <<x, y>>[1] = x /\ <<x, y>>[2] = y
    BY <1>2, Double
  <2> QED BY <2>1, Zenon
<1>4. PICK u \in Seq(Letters) : u = <<"%">> /\ Len(u) = 1 /\ u[1] = "%"
  BY <1>2, Single, Zenon
<1>5. word = u \o v
  BY <1>1, <1>3, <1>4, Zenon
<1>6. /\ word \in Seq(Letters) /\ Len(word) = 3
      /\ \A i \in 1..3 : word[i] = IF i <= 1 THEN u[i] ELSE v[i - 1]
  <2>1. /\ u \o v \in Seq(Letters) /\ Len(u \o v) = Len(u) + Len(v)
        /\ \A i \in 1..Len(u) + Len(v) : (u \o v)[i] = IF i <= Len(u) THEN u[i] ELSE v[i - Len(u)]
    BY ConcatProperties
  <2>2. 1 + 2 = 3
    OBVIOUS
  <2> QED BY <1>3, <1>4, <1>5, <2>1, <2>2, Zenon
<1> QED BY <1>1, <1>3, <1>4, <1>6

LEMMA StandsIs ==
  ASSUME NEW word, NEW c, Stands(word, c)
  PROVE  c \in Letters /\ word \in Seq(Letters) /\ Len(word) \in {1, 3} /\ Safe(word)
<1>1. CASE c \in Plain /\ word = <<c>>
  <2>1. c \notin {"&", "=", ";", " ", "NUL"} /\ c \in Letters
    BY <1>1, EscapesAre DEF Plain, Letters
  <2>2. word \in Seq(Letters) /\ Len(word) = 1 /\ word[1] = c
    BY <1>1, <2>1, Single, Zenon
  <2>3. \A i \in 1..1 : i = 1
    OBVIOUS
  <2> QED BY <2>1, <2>2, <2>3 DEF Safe
<1>2. CASE c \in DOMAIN Escapes /\ word = <<"%">> \o Escapes[c]
  <2>1. Escapes[c][1] \in HexDigits /\ Escapes[c][2] \in HexDigits
    BY <1>2, EscapeIs
  <2>2. Escapes[c][1] \notin {"&", "=", ";", " ", "NUL"} /\ Escapes[c][2] \notin {"&", "=", ";", " ", "NUL"}
    BY <2>1 DEF HexDigits
  <2>3. c \in Letters
    BY <1>2 DEF Letters
  <2>4. /\ word \in Seq(Letters) /\ Len(word) = 3
        /\ word[1] = "%" /\ word[2] = Escapes[c][1] /\ word[3] = Escapes[c][2]
    BY <1>2, EscapeWritten
  <2>5. Safe(word)
    <3>1. \A i \in 1..3 : i = 1 \/ i = 2 \/ i = 3
      OBVIOUS
    <3>2. "%" \notin {"&", "=", ";", " ", "NUL"}
      OBVIOUS
    <3> QED BY <2>2, <2>4, <3>1, <3>2, Zenon DEF Safe
  <2> QED BY <2>3, <2>4, <2>5
<1>3. CASE c = " " /\ word = <<"+">>
  <2>1. "+" \in Letters /\ " " \in Letters
    BY EscapesAre DEF Letters
  <2>2. word \in Seq(Letters) /\ Len(word) = 1 /\ word[1] = "+"
    BY <1>3, <2>1, Single, Zenon
  <2>3. \A i \in 1..1 : i = 1
    OBVIOUS
  <2>4. Safe(word)
    BY <2>2, <2>3 DEF Safe
  <2> QED BY <1>3, <2>1, <2>2, <2>4
<1> QED BY <1>1, <1>2, <1>3 DEF Stands

LEMMA StandsPiece ==
  ASSUME NEW word, NEW c, Stands(word, c), NEW t, NEW p \in Nat, Put(t, p, word)
  PROVE  Piece(t, p, p + Len(word), c)
<1>1. CASE c \in Plain /\ word = <<c>>
  <2>2. Len(word) = 1 /\ word[1] = c
    BY <1>1
  <2>3. (p - 1) + 1 = p /\ 1 \in 1..1
    OBVIOUS
  <2>4. t[p] = c
    BY <2>2, <2>3, Zenon DEF Put
  <2> QED BY <1>1, <2>2, <2>4, Zenon DEF Piece
<1>2. CASE c \in DOMAIN Escapes /\ word = <<"%">> \o Escapes[c]
  <2>1. Len(word) = 3 /\ word[1] = "%" /\ word[2] = Escapes[c][1] /\ word[3] = Escapes[c][2]
    BY <1>2, EscapeWritten
  <2>2. (p - 1) + 1 = p /\ (p - 1) + 2 = p + 1 /\ (p - 1) + 3 = p + 2 /\ 1 \in 1..3 /\ 2 \in 1..3 /\ 3 \in 1..3
    OBVIOUS
  <2>3. t[p] = "%" /\ t[p + 1] = Escapes[c][1] /\ t[p + 2] = Escapes[c][2]
    BY <2>1, <2>2, Zenon DEF Put
  <2> QED BY <1>2, <2>1, <2>3, Zenon DEF Piece
<1>3. CASE c = " " /\ word = <<"+">>
  <2>1. PICK d : d = "+"
    OBVIOUS
  <2>2. Len(word) = 1 /\ word[1] = d
    BY <1>3, <2>1
  <2>3. (p - 1) + 1 = p /\ 1 \in 1..1
    OBVIOUS
  <2>4. t[p] = d
    BY <2>2, <2>3, Zenon DEF Put
  <2> QED BY <1>3, <2>1, <2>2, <2>4, Zenon DEF Piece
<1> QED BY <1>1, <1>2, <1>3 DEF Stands

LEMMA PieceStays ==
  ASSUME NEW raw \in Seq(Letters), NEW p \in Nat, NEW e \in Nat, p >= 1, e <= Len(raw) + 1, NEW c,
         Piece(raw, p, e, c), NEW t, \A i \in 1..Len(raw) : t[i] = raw[i]
  PROVE  Piece(t, p, e, c)
<1>1. PICK l \in Nat : l = Len(raw)
  OBVIOUS
<1>2. CASE e = p + 1
  <2>1. p \in 1..l
    BY <1>1, <1>2
  <2>2. t[p] = raw[p]
    BY <1>1, <2>1, Zenon
  <2>3. p + 1 # p + 3
    OBVIOUS
  <2> QED BY <1>2, <2>2, <2>3, Zenon DEF Piece
<1>3. CASE e = p + 3
  <2>1. p \in 1..l /\ p + 1 \in 1..l /\ p + 2 \in 1..l
    BY <1>1, <1>3
  <2>2. t[p] = raw[p] /\ t[p + 1] = raw[p + 1] /\ t[p + 2] = raw[p + 2]
    BY <1>1, <2>1, Zenon
  <2> QED BY <1>3, <2>2, Zenon DEF Piece
<1> QED BY <1>2, <1>3 DEF Piece

LEMMA EncodedNone == Encoded(<<>>, <<>>)
<1>1. PICK s \in Seq(Letters) : s = <<>> /\ Len(s) = 0
  <2>1. <<>> \in Seq(Letters) /\ Len(<<>>) = 0
    OBVIOUS
  <2> QED BY <2>1, Zenon
<1> DEFINE at == [j \in 1..(0 + 1) |-> 1]
<1>2. at \in [1..(0 + 1) -> Nat] /\ at[1] = 1 /\ at[0 + 1] = Len(s) + 1 /\ \A j \in 1..(0 + 1) : at[j] = 1
  BY <1>1
<1> HIDE DEF at
<1>3. \A j \in 1..(0 + 1) : at[j] >= 1 /\ at[j] <= Len(s) + 1
  BY <1>1, <1>2
<1>4. \A j \in 1..0 : Piece(s, at[j], at[j + 1], s[j])
  OBVIOUS
<1>5. Encoding(at, s, s, 0)
  BY <1>1, <1>2, <1>3, <1>4, Zenon DEF Encoding
<1> QED BY <1>1, <1>5, Zenon DEF Encoded

LEMMA EncodedAppend ==
  ASSUME NEW raw, NEW chars, Encoded(raw, chars), NEW word, NEW c, Stands(word, c)
  PROVE  Encoded(raw \o word, Append(chars, c))
<1>1. PICK at, n : Encoding(at, raw, chars, n)
  BY DEF Encoded
<1>2. /\ n \in Nat /\ chars \in Seq(Letters) /\ Len(chars) = n /\ raw \in Seq(Letters)
      /\ at \in [1..(n + 1) -> Nat] /\ at[1] = 1 /\ at[n + 1] = Len(raw) + 1
      /\ \A j \in 1..(n + 1) : at[j] >= 1 /\ at[j] <= Len(raw) + 1
  BY <1>1 DEF Encoding
<1>3. c \in Letters /\ word \in Seq(Letters) /\ Len(word) \in {1, 3}
  BY StandsIs
<1>4. PICK l \in Nat, m \in Nat : l = Len(raw) /\ m = Len(word) /\ m >= 1
  <2>1. Len(raw) \in Nat
    BY <1>2
  <2>2. Len(word) \in Nat /\ Len(word) >= 1
    <3>1. \A k \in {1, 3} : k \in Nat /\ k >= 1
      OBVIOUS
    <3> QED BY <1>3, <3>1, Zenon
  <2> QED BY <2>1, <2>2, Zenon
<1>5. PICK t \in Seq(Letters) : t = raw \o word
  BY <1>2, <1>3, JoinType
<1>6. /\ Len(t) = l + m /\ \A i \in 1..l : t[i] = raw[i]
      /\ \A i \in 1..m : t[l + i] = word[i]
  <2>1. /\ Len(raw \o word) = Len(raw) + Len(word)
        /\ \A i \in 1..Len(raw) + Len(word) : (raw \o word)[i] = IF i <= Len(raw) THEN raw[i] ELSE word[i - Len(raw)]
    BY <1>2, <1>3, ConcatProperties
  <2>2. Len(t) = l + m /\ \A i \in 1..(l + m) : t[i] = IF i <= l THEN raw[i] ELSE word[i - l]
    BY <1>4, <1>5, <2>1, Zenon
  <2>3. ASSUME NEW i \in 1..l PROVE t[i] = raw[i]
    <3>1. i \in 1..(l + m) /\ i <= l
      OBVIOUS
    <3> QED BY <2>2, <3>1, Zenon
  <2>4. ASSUME NEW i \in 1..m PROVE t[l + i] = word[i]
    <3>1. l + i \in 1..(l + m) /\ ~(l + i <= l) /\ (l + i) - l = i
      OBVIOUS
    <3> QED BY <2>2, <3>1, Zenon
  <2> QED BY <2>2, <2>3, <2>4
<1>7. PICK d \in Seq(Letters) : d = Append(chars, c) /\ Len(d) = n + 1 /\ d[n + 1] = c /\ \A j \in 1..n : d[j] = chars[j]
  <2>1. /\ Append(chars, c) \in Seq(Letters) /\ Len(Append(chars, c)) = n + 1 /\ Append(chars, c)[n + 1] = c
        /\ \A j \in 1..n : Append(chars, c)[j] = chars[j]
    BY <1>2, <1>3
  <2> QED BY <2>1
<1> DEFINE to == [j \in 1..((n + 1) + 1) |-> IF j <= n + 1 THEN at[j] ELSE l + 1 + m]
<1>8. /\ to \in [1..((n + 1) + 1) -> Nat] /\ to[1] = 1 /\ to[(n + 1) + 1] = l + 1 + m
      /\ \A j \in 1..(n + 1) : to[j] = at[j]
  BY <1>2
<1> HIDE DEF to
<1>9. ASSUME NEW j \in 1..((n + 1) + 1) PROVE to[j] >= 1 /\ to[j] <= Len(t) + 1
  <2>1. CASE j \in 1..(n + 1)
    <3>1. PICK x \in Nat : x = at[j] /\ x >= 1 /\ x <= l + 1
      BY <1>2, <1>4, <2>1
    <3>2. to[j] = x
      BY <1>8, <2>1, <3>1, Zenon
    <3> QED BY <1>6, <3>1, <3>2
  <2>2. CASE j = (n + 1) + 1
    BY <1>6, <1>8, <2>2
  <2> QED BY <1>2, <2>1, <2>2
<1>10. ASSUME NEW j \in 1..(n + 1) PROVE Piece(t, to[j], to[j + 1], d[j])
  <2>1. CASE j = n + 1
    <3>1. to[j] = l + 1 /\ to[j + 1] = l + 1 + m /\ d[j] = c
      BY <1>2, <1>4, <1>7, <1>8, <2>1
    <3>2. Put(t, l + 1, word)
      <4>1. (l + 1) - 1 = l
        OBVIOUS
      <4> QED BY <1>4, <1>6, <4>1, Zenon DEF Put
    <3>3. PICK p \in Nat : p = l + 1
      OBVIOUS
    <3>4. Piece(t, p, p + Len(word), c)
      BY <3>2, <3>3, StandsPiece
    <3> QED BY <1>4, <3>1, <3>3, <3>4, Zenon
  <2>2. CASE j \in 1..n
    <3>0. j \in 1..(n + 1) /\ j + 1 \in 1..(n + 1)
      BY <1>2, <2>2
    <3>1. PICK p \in Nat, e \in Nat : p = at[j] /\ e = at[j + 1]
      BY <1>2, <3>0, Zenon
    <3>2. to[j] = p /\ to[j + 1] = e /\ d[j] = chars[j]
      BY <1>7, <1>8, <2>2, <3>0, <3>1, Zenon
    <3>3. Piece(raw, p, e, chars[j]) /\ p >= 1 /\ e <= Len(raw) + 1
      BY <1>1, <2>2, <3>0, <3>1, Zenon DEF Encoding
    <3>4. PICK x : x = chars[j]
      OBVIOUS
    <3>5. Piece(raw, p, e, x)
      BY <3>3, <3>4, Zenon
    <3>6. Piece(t, p, e, x)
      BY <1>2, <1>4, <1>6, <3>3, <3>5, PieceStays
    <3> QED BY <3>2, <3>4, <3>6, Zenon
  <2> QED BY <1>2, <2>1, <2>2
<1>11. n + 1 \in Nat /\ to[(n + 1) + 1] = Len(t) + 1
  BY <1>2, <1>6, <1>8
<1>12. Encoding(to, t, d, n + 1)
  BY <1>7, <1>8, <1>9, <1>10, <1>11, Zenon DEF Encoding
<1> QED BY <1>5, <1>7, <1>12, Zenon DEF Encoded

LEMMA EncodedIs ==
  ASSUME NEW raw, NEW chars, Encoded(raw, chars)
  PROVE  /\ raw \in Seq(Letters) /\ chars \in Seq(Letters)
         /\ UrlDecode(raw) = chars
         /\ raw = <<>> <=> chars = <<>>
<1>1. PICK at, n : Encoding(at, raw, chars, n)
  BY DEF Encoded
<1>2. /\ n \in Nat /\ chars \in Seq(Letters) /\ Len(chars) = n /\ raw \in Seq(Letters)
      /\ at[1] = 1 /\ at[n + 1] = Len(raw) + 1
  BY <1>1 DEF Encoding
<1>3. at[n + 1] >= 1 + n
  BY <1>1, <1>2, EncodingLow
<1>4. n = 0 <=> Len(raw) = 0
  <2>1. PICK l \in Nat : l = Len(raw)
    BY <1>2
  <2>2. l >= n
    BY <1>2, <1>3, <2>1
  <2>3. n = 0 => l = 0
    BY <1>2, <2>1
  <2> QED BY <1>2, <2>1, <2>2, <2>3
<1>5. (raw = <<>> <=> Len(raw) = 0) /\ (chars = <<>> <=> Len(chars) = 0)
  BY <1>2
<1> QED BY <1>1, <1>2, <1>4, <1>5, DecodeIs

(* Where the = is.                                                         *)
Without(s, c) == \A i \in 1..Len(s) : s[i] # c

LEMMA EqualsNone ==
  ASSUME NEW s \in Seq(Letters), Without(s, "=")
  PROVE  Equals(s) = 0 /\ NameOf(s) = s /\ ValueOf(s) = <<>>
<1>1. {i \in 1..Len(s) : s[i] = "="} = {}
  BY DEF Without
<1>2. Equals(s) = 0
  BY <1>1, Zenon DEF Equals, SelectInSeq
<1> QED BY <1>2 DEF NameOf, ValueOf

Assigned(t, u, v) == t = u \o (<<"=">> \o v)

LEMMA EqualsAt ==
  ASSUME NEW u \in Seq(Letters), Without(u, "="), NEW v \in Seq(Letters), NEW t, Assigned(t, u, v)
  PROVE  /\ t \in Seq(Letters) /\ Equals(t) = Len(u) + 1 /\ Equals(t) # 0
         /\ NameOf(t) = u /\ ValueOf(t) = v
<1>1. PICK e \in Seq(Letters) : e = <<"=">> /\ Len(e) = 1 /\ e[1] = "="
  <2>1. "=" \in Letters
    BY EscapesAre DEF Letters
  <2> QED BY <2>1, Single, Zenon
<1>2. PICK l \in Nat, m \in Nat : l = Len(u) /\ m = Len(v)
  OBVIOUS
<1>3. t = u \o (e \o v)
  BY <1>1, Zenon DEF Assigned
<1>4. t \in Seq(Letters) /\ Len(t) = l + 1 + m
  BY <1>1, <1>2, <1>3
<1>5. \A i \in 1..l : t[i] = u[i]
  BY <1>1, <1>2, <1>3
<1>6. t[l + 1] = "="
  BY <1>1, <1>2, <1>3
<1>7. \A i \in 1..m : t[l + 1 + i] = v[i]
  BY <1>1, <1>2, <1>3
<1> DEFINE I == {i \in 1..Len(t) : t[i] = "="}
<1>8. l + 1 \in I /\ I \subseteq Int /\ \A y \in I : y >= l + 1
  <2>1. l + 1 \in I
    BY <1>4, <1>6
  <2>2. ASSUME NEW y \in I, y <= l PROVE FALSE
    <3>1. y \in 1..l /\ t[y] = "="
      BY <1>4, <2>2
    <3> QED BY <1>2, <1>5, <3>1, Zenon DEF Without
  <2> QED BY <2>1, <2>2
<1>9. Equals(t) = l + 1
  <2>1. Min(I) = l + 1
    BY <1>8, MinIs
  <2> QED BY <1>8, <2>1, Zenon DEF Equals, SelectInSeq
<1>10. Equals(t) # 0 /\ (l + 1) - 1 = l /\ (l + 1) + 1 = l + 2
  BY <1>9
<1>11. SubSeq(t, 1, l) = u
  BY <1>2, <1>4, <1>5
<1>12. SubSeq(t, l + 2, Len(t)) = v
  <2>1. PICK w : w = SubSeq(t, l + 2, Len(t))
    OBVIOUS
  <2>2. w \in Seq(Letters) /\ Len(w) = m /\ \A i \in 1..m : w[i] = t[l + 1 + i]
    <3>1. PICK p \in 1..(Len(t) + 1) : p = l + 2
      BY <1>4
    <3>2. PICK q \in 0..Len(t) : q = Len(t) /\ q = l + 1 + m
      BY <1>4
    <3>3. w = SubSeq(t, p, q)
      BY <2>1, <3>1, <3>2, Zenon
    <3>4. w \in Seq(Letters) /\ Len(w) = m
      BY <1>4, <3>1, <3>2, <3>3
    <3>5. \A i \in 1..m : w[i] = t[l + 1 + i]
      <4> TAKE i \in 1..m
      <4>1. w[i] = t[p + i - 1]
        BY <1>4, <3>1, <3>2, <3>3
      <4>2. p + i - 1 = l + 1 + i
        BY <3>1
      <4> QED BY <4>1, <4>2, Zenon
    <3> QED BY <3>4, <3>5
  <2>3. \A i \in 1..m : w[i] = v[i]
    BY <1>7, <2>2, Zenon
  <2>4. w = v
    BY <1>2, <2>2, <2>3, SeqEqual
  <2> QED BY <2>1, <2>4, Zenon
<1>13. NameOf(t) = u
  BY <1>9, <1>10, <1>11, Zenon DEF NameOf
<1>14. ValueOf(t) = v
  BY <1>9, <1>10, <1>12, Zenon DEF ValueOf
<1> QED BY <1>2, <1>4, <1>9, <1>10, <1>13, <1>14

(* Some characters more that are no separator.                             *)
Reads(s, separator, tokens, held) == Split(s, separator) = [tokens |-> tokens, last |-> held]

LEMMA SplitJoin ==
  ASSUME NEW s \in Seq(Letters), NEW word \in Seq(Letters), NEW separator, Without(word, separator),
         NEW tokens, NEW held, Reads(s, separator, tokens, held)
  PROVE  Reads(s \o word, separator, tokens, held \o word)
<1>1. PICK n \in Nat : n = Len(word)
  OBVIOUS
<1>2. held \in Seq(Letters)
  <2>1. Split(s, separator) \in Splits
    <3>1. \E c : c \in Letters
      <4>1. "=" \in Letters
        BY EscapesAre DEF Letters
      <4> QED BY <4>1
    <3> QED BY <3>1, SplitAppend
  <2> QED BY <2>1 DEF Splits, Reads
<1> DEFINE P == {k \in Nat : k <= n => Reads(s \o FirstOf(word, k), separator, tokens, held \o FirstOf(word, k))}
<1>3. 0 \in P
  <2>1. FirstOf(word, 0) = <<>>
    BY DEF FirstOf
  <2>2. s \o <<>> = s /\ held \o <<>> = held
    BY <1>2
  <2> QED BY <2>1, <2>2, Zenon
<1>4. ASSUME NEW k \in Nat, k \in P, k + 1 <= n
      PROVE  Reads(s \o FirstOf(word, k + 1), separator, tokens, held \o FirstOf(word, k + 1))
  <2>1. k <= n /\ k + 1 \in 1..n /\ (k + 1) - 1 = k
    BY <1>4
  <2>2. PICK f \in Seq(Letters) : f = FirstOf(word, k)
    <3>1. \A i \in 1..k : word[i] \in Letters
      <4> TAKE i \in 1..k
      <4>1. i \in 1..Len(word)
        BY <1>1, <2>1
      <4> QED BY <4>1
    <3>2. FirstOf(word, k) \in Seq(Letters)
      BY <3>1 DEF FirstOf
    <3> QED BY <3>2
  <2>3. PICK c \in Letters : c = word[k + 1] /\ c # separator
    <3>1. k + 1 \in 1..Len(word)
      BY <1>1, <2>1
    <3>2. word[k + 1] \in Letters
      BY <3>1
    <3> QED BY <3>1, <3>2, Zenon DEF Without
  <2>4. FirstOf(word, k + 1) = Append(f, c)
    <3>1. PICK w \in 1..n : w = k + 1 /\ w - 1 = k
      BY <2>1
    <3>2. FirstOf(word, w) = Append(FirstOf(word, w - 1), word[w])
      BY <1>1, FirstOfIs
    <3> QED BY <2>2, <2>3, <3>1, <3>2, Zenon
  <2>5. s \o f \in Seq(Letters) /\ s \o Append(f, c) = Append(s \o f, c)
    BY JoinAppend
  <2>6. held \o f \in Seq(Letters) /\ held \o Append(f, c) = Append(held \o f, c)
    BY <1>2, JoinAppend
  <2>7. PICK st : st = Split(s \o f, separator)
    OBVIOUS
  <2>8. st = [tokens |-> tokens, last |-> held \o f]
    BY <1>4, <2>1, <2>2, <2>7, Zenon DEF Reads
  <2>9. st \in Splits /\ Split(Append(s \o f, c), separator) = NextChar(st, c, separator)
    BY <2>5, <2>7, SplitAppend
  <2>10. NextChar(st, c, separator) = [tokens |-> st.tokens, last |-> Append(st.last, c)]
    BY <2>3, <2>9, NextCharIs
  <2>11. st.tokens = tokens /\ st.last = held \o f
    BY <2>8
  <2> QED BY <2>4, <2>5, <2>6, <2>9, <2>10, <2>11, Zenon DEF Reads
<1>5. n \in P
  <2>1. \A k \in Nat : k \in P => k + 1 \in P
    <3> SUFFICES ASSUME NEW k \in Nat, k \in P PROVE k + 1 \in P
      OBVIOUS
    <3>1. k + 1 \in Nat
      OBVIOUS
    <3> QED BY <1>4, <3>1, Zenon
  <2> HIDE DEF P
  <2> QED BY <1>3, <2>1, NatSet
<1>6. FirstOf(word, n) = word
  BY <1>1 DEF FirstOf
<1>7. n <= n
  OBVIOUS
<1> QED BY <1>5, <1>6, <1>7, Zenon

(* The space between cookies.                                              *)
Space == " "
Lead(lead) == lead \in {<<>>, <<Space>>}

LEMMA SkipIs ==
  ASSUME NEW lead, Lead(lead), NEW x \in Seq(Letters), Len(x) > 0, x[1] # Space
  PROVE  SkipSpaces(lead \o x) = x
<1>1. PICK n \in Nat : n = Len(x) /\ n > 0
  OBVIOUS
<1>2. CASE lead = <<>>
  <2>1. lead \o x = x
    BY <1>2
  <2> DEFINE I == {i \in 1..Len(x) : x[i] # Space}
  <2>2. 1 \in I /\ I \subseteq Int /\ \A y \in I : y >= 1
    BY <1>1
  <2>3. Min(I) = 1 /\ I # {}
    BY <2>2, MinIs
  <2>4. SubSeq(x, 1, Len(x)) = x
    OBVIOUS
  <2> QED BY <2>1, <2>3, <2>4, Zenon DEF SkipSpaces, Space
<1>3. CASE lead = <<Space>>
  <2>1. PICK b \in Seq({Space}) : b = <<Space>> /\ Len(b) = 1 /\ b[1] = Space
    <3>1. <<Space>> \in Seq({Space}) /\ Len(<<Space>>) = 1 /\ <<Space>>[1] = Space
      OBVIOUS
    <3> QED BY <3>1, Zenon
  <2>2. PICK t : t = b \o x
    OBVIOUS
  <2>3. Len(t) = n + 1 /\ t[1] = Space /\ \A i \in 1..n : t[i + 1] = x[i]
    BY <1>1, <2>1, <2>2
  <2> DEFINE I == {i \in 1..Len(t) : t[i] # Space}
  <2>4. 2 \in I /\ I \subseteq Int /\ \A y \in I : y >= 2
    <3>1. t[1 + 1] = x[1] /\ 1 + 1 = 2
      BY <1>1, <2>3
    <3>2. 2 \in I
      BY <1>1, <2>3, <3>1
    <3>3. 1 \notin I
      BY <2>3
    <3> QED BY <3>2, <3>3
  <2>5. Min(I) = 2 /\ I # {}
    BY <2>4, MinIs
  <2>6. SubSeq(t, 2, Len(t)) = x
    BY <1>1, <2>1, <2>2, <2>3
  <2> QED BY <1>3, <2>1, <2>2, <2>5, <2>6, Zenon DEF SkipSpaces, Space
<1> QED BY <1>2, <1>3 DEF Lead

(* A text without a NUL is read whole.                                     *)
LEMMA CStringWhole ==
  ASSUME NEW s \in Seq(Letters), Without(s, "NUL")
  PROVE  CString(s) = s
BY DEF CString, Contains, Without

LEMMA SafeIs ==
  ASSUME NEW s, Safe(s)
  PROVE  Without(s, "=") /\ Without(s, "&") /\ Without(s, ";") /\ Without(s, "NUL") /\ Without(s, Space)
BY Zenon DEF Safe, Without, Space

LEMMA SafeNone == ASSUME NEW s, s = <<>> PROVE Safe(s)
<1>1. 1..Len(s) = {}
  OBVIOUS
<1> QED BY <1>1, Zenon DEF Safe

LEMMA JoinWithout ==
  ASSUME NEW s \in Seq(Letters), NEW t \in Seq(Letters), NEW C,
         \A i \in 1..Len(s) : s[i] \notin C, \A i \in 1..Len(t) : t[i] \notin C
  PROVE  \A i \in 1..Len(s \o t) : (s \o t)[i] \notin C
<1>1. PICK l \in Nat, m \in Nat : l = Len(s) /\ m = Len(t)
  OBVIOUS
<1>2. PICK u : u = s \o t
  OBVIOUS
<1>3. Len(u) = l + m /\ \A i \in 1..(l + m) : u[i] = IF i <= l THEN s[i] ELSE t[i - l]
  <2>1. /\ Len(s \o t) = Len(s) + Len(t)
        /\ \A i \in 1..Len(s) + Len(t) : (s \o t)[i] = IF i <= Len(s) THEN s[i] ELSE t[i - Len(s)]
    BY ConcatProperties
  <2> QED BY <1>1, <1>2, <2>1, Zenon
<1>4. ASSUME NEW i \in 1..Len(u) PROVE u[i] \notin C
  <2>1. i \in 1..(l + m)
    BY <1>3, Zenon
  <2>2. CASE i <= l
    <3>1. i \in 1..l
      BY <2>1, <2>2
    <3> QED BY <1>1, <1>3, <2>1, <2>2, <3>1, Zenon
  <2>3. CASE ~(i <= l)
    <3>1. i - l \in 1..m
      BY <2>1, <2>3
    <3> QED BY <1>1, <1>3, <2>1, <2>3, <3>1, Zenon
  <2> QED BY <2>2, <2>3
<1> QED BY <1>2, <1>4, Zenon

LEMMA SafeJoin ==
  ASSUME NEW s \in Seq(Letters), NEW t \in Seq(Letters), Safe(s), Safe(t)
  PROVE  Safe(s \o t)
BY JoinWithout DEF Safe

-----------------------------------------------------------------------------
(* What an assignment is read as.                                          *)
Token(lead, rn, eq, rv) == IF eq THEN (lead \o rn) \o (<<"=">> \o rv) ELSE lead \o rn

LEMMA LeadType ==
  ASSUME NEW lead, Lead(lead)
  PROVE  lead \in Seq(Letters) /\ Without(lead, "=") /\ (lead = <<>> \/ lead = <<Space>>)
<1>1. Space \in Letters /\ Space # "="
  BY EscapesAre, Zenon DEF Letters, Space
<1>2. <<>> \in Seq(Letters) /\ Len(<<>>) = 0 /\ 1..0 = {}
  OBVIOUS
<1>3. <<Space>> \in Seq(Letters) /\ Len(<<Space>>) = 1 /\ <<Space>>[1] = Space
  BY <1>1, Single
<1>4. \A i \in 1..1 : i = 1
  OBVIOUS
<1>5. CASE lead = <<>>
  <2>1. Without(lead, "=")
    BY <1>2, <1>5 DEF Without
  <2> QED BY <1>2, <1>5, <2>1, Zenon
<1>6. CASE lead = <<Space>>
  <2>1. Without(<<Space>>, "=")
    BY <1>1, <1>3, <1>4, Zenon DEF Without
  <2> QED BY <1>3, <1>6, <2>1, Zenon
<1> QED BY <1>5, <1>6, Zenon DEF Lead

LEMMA WithoutJoin ==
  ASSUME NEW s \in Seq(Letters), NEW t \in Seq(Letters), NEW c, Without(s, c), Without(t, c)
  PROVE  s \o t \in Seq(Letters) /\ Without(s \o t, c)
<1>1. s \o t \in Seq(Letters)
  BY JoinType
<1>2. \A i \in 1..Len(s \o t) : (s \o t)[i] \notin {c}
  <2>1. (\A i \in 1..Len(s) : s[i] \notin {c}) /\ \A i \in 1..Len(t) : t[i] \notin {c}
    BY Zenon DEF Without
  <2> QED BY <2>1, JoinWithout
<1> QED BY <1>1, <1>2, Zenon DEF Without

LEMMA TokenIs ==
  ASSUME NEW lead, Lead(lead), NEW rn \in Seq(Letters), Safe(rn), NEW eq \in BOOLEAN, NEW rv \in Seq(Letters)
  PROVE  /\ Token(lead, rn, eq, rv) \in Seq(Letters)
         /\ eq => /\ Equals(Token(lead, rn, eq, rv)) # 0 /\ NameOf(Token(lead, rn, eq, rv)) = lead \o rn
                  /\ ValueOf(Token(lead, rn, eq, rv)) = rv
         /\ ~eq => /\ Equals(Token(lead, rn, eq, rv)) = 0 /\ NameOf(Token(lead, rn, eq, rv)) = lead \o rn
                   /\ ValueOf(Token(lead, rn, eq, rv)) = <<>>
<1>1. PICK u \in Seq(Letters) : u = lead \o rn /\ Without(u, "=")
  <2>1. lead \in Seq(Letters) /\ Without(lead, "=") /\ Without(rn, "=")
    BY LeadType, SafeIs
  <2>2. lead \o rn \in Seq(Letters) /\ Without(lead \o rn, "=")
    BY <2>1, WithoutJoin
  <2> QED BY <2>2, Zenon
<1>2. CASE eq
  <2>1. PICK t : t = u \o (<<"=">> \o rv) /\ Assigned(t, u, rv)
    BY Zenon DEF Assigned
  <2>2. /\ t \in Seq(Letters) /\ Equals(t) = Len(u) + 1 /\ Equals(t) # 0
        /\ NameOf(t) = u /\ ValueOf(t) = rv
    <3>1. Without(u, "=") /\ Assigned(t, u, rv)
      BY <1>1, <2>1, Zenon
    <3> QED BY <3>1, EqualsAt
  <2>3. Token(lead, rn, eq, rv) = t
    BY <1>1, <1>2, <2>1, Zenon DEF Token
  <2> QED BY <1>1, <1>2, <2>2, <2>3, Zenon
<1>3. CASE ~eq
  <2>1. Equals(u) = 0 /\ NameOf(u) = u /\ ValueOf(u) = <<>>
    BY <1>1, EqualsNone
  <2>2. Token(lead, rn, eq, rv) = u
    BY <1>1, <1>3, Zenon DEF Token
  <2> QED BY <1>1, <1>3, <2>1, <2>2, Zenon
<1> QED BY <1>2, <1>3, Zenon

LEMMA LettersJoin == \A x, y, z \in Seq(Letters) : (x \o y) \o z = x \o (y \o z)
BY JoinAgain

LEMMA JoinFirst ==
  ASSUME NEW S, NEW s \in Seq(S), NEW t \in Seq(S), Len(t) > 0
  PROVE  s \o t \in Seq(S) /\ Len(s \o t) > 0 /\ (s \o t)[1] = IF Len(s) = 0 THEN t[1] ELSE s[1]
OBVIOUS

(* Of a query string or a form.                                            *)
LEMMA PairRead ==
  ASSUME NEW pair \in PairsWritten, NEW lead, lead = <<>>, NEW rn, NEW rv,
         Encoded(rn, pair.name), Encoded(rv, pair.value), Safe(rn), ~pair.eq => rv = <<>>
  PROVE  Pair(Token(lead, rn, pair.eq, rv)) = Meaning(pair)
<1>1. /\ rn \in Seq(Letters) /\ rv \in Seq(Letters)
      /\ UrlDecode(rn) = pair.name /\ UrlDecode(rv) = pair.value
  BY EncodedIs
<1>2. PICK t : t = Token(lead, rn, pair.eq, rv)
  OBVIOUS
<1>3. lead \o rn = rn
  <2>1. <<>> \o rn = rn
    BY <1>1
  <2> QED BY <2>1, Zenon
<1>4. Lead(lead) /\ pair.eq \in BOOLEAN
  BY Zenon DEF Lead, PairsWritten
<1>5. NameOf(t) = rn /\ ValueOf(t) = rv
  <2>1. PICK e \in BOOLEAN : e = pair.eq
    BY <1>4, Zenon
  <2>2. /\ e => NameOf(Token(lead, rn, e, rv)) = lead \o rn /\ ValueOf(Token(lead, rn, e, rv)) = rv
        /\ ~e => NameOf(Token(lead, rn, e, rv)) = lead \o rn /\ ValueOf(Token(lead, rn, e, rv)) = <<>>
    BY <1>1, <1>4, TokenIs
  <2> QED BY <1>2, <1>3, <2>1, <2>2, Zenon
<1> QED BY <1>1, <1>2, <1>5, Zenon DEF Pair, Meaning

(* Of a cookie header.                                                     *)
LEMMA CookieRead ==
  ASSUME NEW pair \in PairsWritten, NEW lead, Lead(lead), NEW rn, NEW rv,
         Encoded(rn, pair.name), Encoded(rv, pair.value), Safe(rn), rn = pair.name, pair.eq
  PROVE  Cookie(Token(lead, rn, pair.eq, rv)) = Meaning(pair)
<1>1. rn \in Seq(Letters) /\ rv \in Seq(Letters) /\ UrlDecode(rv) = pair.value
  BY EncodedIs
<1>2. pair.eq = TRUE
  BY Zenon DEF PairsWritten
<1>3. PICK z \in Seq(Letters) : z = <<"=">> \o rv /\ Len(z) > 0 /\ z[1] = "="
  <2>1. PICK e \in Seq(Letters) : e = <<"=">> /\ Len(e) = 1 /\ e[1] = "="
    <3>1. "=" \in Letters
      BY EscapesAre DEF Letters
    <3> QED BY <3>1, Single, Zenon
  <2>2. e \o rv \in Seq(Letters) /\ Len(e \o rv) > 0 /\ (e \o rv)[1] = "="
    BY <1>1, <2>1
  <2> QED BY <2>1, <2>2, Zenon
<1>4. PICK x \in Seq(Letters) : x = rn \o z /\ Len(x) > 0 /\ x[1] # Space
  <2>1. /\ rn \o z \in Seq(Letters) /\ Len(rn \o z) > 0
        /\ (rn \o z)[1] = IF Len(rn) = 0 THEN z[1] ELSE rn[1]
    <3>1. rn \in Seq(Letters) /\ Len(z) > 0
      BY <1>1, <1>3, Zenon
    <3> QED BY <3>1, JoinFirst
  <2>2. "=" # Space /\ Without(rn, Space)
    BY SafeIs DEF Space
  <2>3. CASE Len(rn) = 0
    BY <1>3, <2>1, <2>2, <2>3, Zenon
  <2>4. CASE Len(rn) # 0
    <3>1. 1 \in 1..Len(rn)
      BY <1>1, <2>4
    <3>2. rn[1] # Space
      BY <2>2, <3>1, Zenon DEF Without
    <3> QED BY <2>1, <2>4, <3>2, Zenon
  <2> QED BY <2>3, <2>4, Zenon
<1>5. PICK t : t = Token(lead, rn, TRUE, rv)
  OBVIOUS
<1>6. t = lead \o x
  <2>1. lead \in Seq(Letters)
    BY LeadType
  <2>2. (lead \o rn) \o z = lead \o (rn \o z)
    <3>1. rn \in Seq(Letters)
      BY <1>1, Zenon
    <3> QED BY <2>1, <3>1, LettersJoin, Zenon
  <2> QED BY <1>3, <1>4, <1>5, <2>2, Zenon DEF Token
<1>7. SkipSpaces(t) = x
  BY <1>4, <1>6, SkipIs
<1>8. NameOf(x) = rn
  <2>1. Without(rn, "=")
    BY SafeIs
  <2>2. Assigned(x, rn, rv)
    BY <1>3, <1>4, Zenon DEF Assigned
  <2>3. rn \in Seq(Letters) /\ rv \in Seq(Letters)
    BY <1>1, Zenon
  <2> QED BY <2>1, <2>2, <2>3, EqualsAt
<1>9. ValueOf(t) = rv
  <2>1. PICK e \in BOOLEAN : e = TRUE
    OBVIOUS
  <2>2. e => ValueOf(Token(lead, rn, e, rv)) = rv
    BY <1>1, TokenIs
  <2> QED BY <1>5, <2>1, <2>2, Zenon
<1>10. CString(rn) = rn
  <2>1. Without(rn, "NUL")
    BY SafeIs
  <2> QED BY <1>1, <2>1, CStringWhole
<1> QED BY <1>1, <1>2, <1>5, <1>7, <1>8, <1>9, <1>10, Zenon DEF Cookie, Meaning

-----------------------------------------------------------------------------
(* What is read of the assignments written so far.                         *)
Separator(what) == IF what = "query" THEN "&" ELSE ";"
QueryOf(tokens) == [i \in 1..Len(tokens) |-> Pair(tokens[i])]
Objects(tokens, what) == IF what = "query" THEN QueryOf(tokens) ELSE CookiesOf(tokens)

LEMMA QueryAppend ==
  ASSUME NEW tokens \in Seq(Seq(Letters)), NEW token \in Seq(Letters)
  PROVE  QueryOf(Append(tokens, token)) = Append(QueryOf(tokens), Pair(token))
<1> DEFINE S == {Pair(u) : u \in Seq(Letters)}
<1>1. PICK n \in Nat : n = Len(tokens)
  OBVIOUS
<1>2. PICK m : m = Append(tokens, token)
  OBVIOUS
<1>3. Len(m) = n + 1 /\ m[n + 1] = token /\ \A i \in 1..n : m[i] = tokens[i] /\ tokens[i] \in Seq(Letters)
  BY <1>1, <1>2
<1>4. PICK q : q = QueryOf(tokens)
  OBVIOUS
<1>5. q = [i \in 1..n |-> Pair(tokens[i])]
  BY <1>1, <1>4, Zenon DEF QueryOf
<1>6. \A i \in 1..n : Pair(tokens[i]) \in S
  BY <1>3, Zenon
<1>7. q \in Seq(S) /\ Len(q) = n
  <2> HIDE DEF S
  <2> QED BY <1>5, <1>6
<1>8. PICK g : g = QueryOf(m)
  OBVIOUS
<1>9. g = [i \in 1..(n + 1) |-> Pair(m[i])]
  BY <1>3, <1>8, Zenon DEF QueryOf
<1>10. Longer(g, q, n, Pair(token))
  <2>1. g = [i \in 1..(n + 1) |-> g[i]]
    BY <1>9
  <2>2. ASSUME NEW i \in 1..n PROVE g[i] = q[i]
    <3>1. i \in 1..(n + 1)
      OBVIOUS
    <3> QED BY <1>3, <1>5, <1>9, <3>1, Zenon
  <2>3. g[n + 1] = Pair(token)
    <3>1. n + 1 \in 1..(n + 1)
      OBVIOUS
    <3> QED BY <1>3, <1>9, <3>1, Zenon
  <2> QED BY <2>1, <2>2, <2>3, Zenon DEF Longer
<1>11. Pair(token) \in S
  BY Zenon
<1>12. g = Append(q, Pair(token))
  <2> HIDE DEF S
  <2>1. PICK x \in S : x = Pair(token)
    BY <1>11, Zenon
  <2>2. Longer(g, q, n, x)
    BY <1>10, <2>1, Zenon
  <2>3. g = Append(q, x)
    BY <1>7, <2>2, OneMore
  <2> QED BY <2>1, <2>3, Zenon
<1> QED BY <1>2, <1>4, <1>8, <1>12, Zenon

LEMMA ObjectsNone == ASSUME NEW tokens, tokens = <<>>, NEW what PROVE Objects(tokens, what) = <<>>
<1>1. QueryOf(tokens) = <<>>
  BY DEF QueryOf
<1>2. CookiesOf(tokens) = <<>>
  BY CookiesNone
<1> QED BY <1>1, <1>2, Zenon DEF Objects

(* The last pair, written as rn and rv after lead and the tokens before.   *)
PairWritten(what, t, front, pair, tokens, lead, rn, rv) ==
  /\ front \in Seq(PairsWritten) /\ pair \in PairsWritten /\ tokens \in Seq(Seq(Letters))
  /\ Objects(tokens, what) = Meant(front, what)
  /\ Reads(t, Separator(what), tokens, Token(lead, rn, pair.eq, rv))
  /\ Lead(lead) /\ (what = "query" => lead = <<>>)
  /\ Encoded(rn, pair.name) /\ Safe(rn)
  /\ Encoded(rv, pair.value) /\ Safe(rv)
  /\ ~pair.eq => rv = <<>>
  /\ what = "cookies" => rn = pair.name

LEMMA WrittenIsRead ==
  ASSUME NEW what \in {"query", "cookies"}, NEW t, NEW front, NEW pair, NEW tokens, NEW lead, NEW rn, NEW rv,
         PairWritten(what, t, front, pair, tokens, lead, rn, rv)
  PROVE  Objects(Ended(Split(t, Separator(what))), what) = Meant(Append(front, pair), what)
<1>0. /\ front \in Seq(PairsWritten) /\ pair \in PairsWritten /\ tokens \in Seq(Seq(Letters))
      /\ Objects(tokens, what) = Meant(front, what)
      /\ Lead(lead) /\ Encoded(rn, pair.name) /\ Safe(rn) /\ Encoded(rv, pair.value)
      /\ ~pair.eq => rv = <<>>
  BY Zenon DEF PairWritten
<1>1. /\ rn \in Seq(Letters) /\ rv \in Seq(Letters) /\ (rn = <<>> <=> pair.name = <<>>)
  BY <1>0, EncodedIs
<1>2. PICK eq \in BOOLEAN : eq = pair.eq
  BY <1>0, Zenon DEF PairsWritten
<1>3. PICK l : l = Token(lead, rn, eq, rv)
  OBVIOUS
<1>4. /\ l \in Seq(Letters) /\ (eq <=> Equals(l) # 0)
      /\ ~eq => l = lead \o rn
  <2>1. /\ Token(lead, rn, eq, rv) \in Seq(Letters)
        /\ eq => Equals(Token(lead, rn, eq, rv)) # 0
        /\ ~eq => Equals(Token(lead, rn, eq, rv)) = 0
    BY <1>0, <1>1, TokenIs
  <2> QED BY <1>3, <2>1, Zenon DEF Token
<1>5. Ended(Split(t, Separator(what))) = IF l = <<>> THEN tokens ELSE Append(tokens, l)
  <2>1. PICK r : r = [tokens |-> tokens, last |-> l]
    OBVIOUS
  <2>2. Split(t, Separator(what)) = r
    BY <1>2, <1>3, <2>1, Zenon DEF PairWritten, Reads
  <2>3. r.tokens = tokens /\ r.last = l
    BY <2>1
  <2> QED BY <2>2, <2>3, Zenon DEF Ended
<1>6. Meant(Append(front, pair), what) =
        IF ~Means(pair, what) THEN Meant(front, what) ELSE Append(Meant(front, what), Meaning(pair))
  BY <1>0, MeantAppend
<1>7. lead \in Seq(Letters)
  BY <1>0, LeadType
<1>8. CASE l = <<>>
  <2>1. Equals(<<>>) = 0
    <3>1. <<>> \in Seq(Letters) /\ Len(<<>>) = 0 /\ 1..0 = {}
      OBVIOUS
    <3>2. Without(<<>>, "=")
      BY <3>1 DEF Without
    <3> QED BY <3>1, <3>2, EqualsNone, Zenon
  <2>2. ~eq
    BY <1>4, <1>8, <2>1, Zenon
  <2>3. rn = <<>>
    <3>1. PICK x \in Seq(Letters) : x = lead \o rn /\ x = <<>>
      BY <1>4, <1>8, <2>2, Zenon
    <3>2. Len(x) = Len(lead) + Len(rn) /\ Len(x) = 0
      BY <1>1, <1>7, <3>1, JoinLength
    <3>3. Len(rn) = 0
      <4>1. rn \in Seq(Letters)
        BY <1>1, Zenon
      <4>2. PICK a \in Nat, b \in Nat : a = Len(lead) /\ b = Len(rn)
        BY <1>7, <4>1
      <4>3. a + b = 0
        BY <3>2, <4>2, Zenon
      <4> QED BY <4>2, <4>3
    <3> QED BY <1>1, <3>3
  <2>4. ~Means(pair, what)
    BY <1>1, <1>2, <2>2, <2>3, Zenon DEF Means
  <2> QED BY <1>0, <1>5, <1>6, <1>8, <2>4, Zenon
<1>9. CASE l # <<>> /\ what = "query"
  <2>1. lead = <<>>
    BY <1>9, Zenon DEF PairWritten
  <2>2. Means(pair, what)
    <3>1. CASE eq
      BY <1>2, <3>1, Zenon DEF Means
    <3>2. CASE ~eq
      <4>1. <<>> \o rn = rn
        BY <1>1
      <4>2. rn # <<>>
        BY <1>4, <1>9, <2>1, <3>2, <4>1, Zenon
      <4> QED BY <1>1, <1>9, <4>2, Zenon DEF Means
    <3> QED BY <3>1, <3>2, Zenon
  <2>3. Pair(l) = Meaning(pair)
    <3>1. Pair(Token(lead, rn, pair.eq, rv)) = Meaning(pair)
      BY <1>0, <2>1, PairRead
    <3> QED BY <1>2, <1>3, <3>1, Zenon
  <2>4. QueryOf(Append(tokens, l)) = Append(QueryOf(tokens), Pair(l))
    BY <1>0, <1>4, QueryAppend
  <2> QED BY <1>0, <1>5, <1>6, <1>9, <2>2, <2>3, <2>4, Zenon DEF Objects
<1>10. CASE l # <<>> /\ what = "cookies"
  <2>0. what # "query"
    BY <1>10
  <2>1. CookiesOf(Append(tokens, l)) = IF Equals(l) = 0 THEN CookiesOf(tokens) ELSE Append(CookiesOf(tokens), Cookie(l))
    BY <1>0, <1>4, CookiesAppend
  <2>2. CASE ~eq
    <3>1. ~Means(pair, what)
      BY <1>2, <2>0, <2>2, Zenon DEF Means
    <3> QED BY <1>0, <1>4, <1>5, <1>6, <1>10, <2>0, <2>1, <2>2, <3>1, Zenon DEF Objects
  <2>3. CASE eq
    <3>1. Means(pair, what)
      BY <1>2, <2>3, Zenon DEF Means
    <3>2. Cookie(l) = Meaning(pair)
      <4>1. rn = pair.name /\ pair.eq
        BY <1>2, <1>10, <2>3, Zenon DEF PairWritten
      <4>2. Cookie(Token(lead, rn, pair.eq, rv)) = Meaning(pair)
        BY <1>0, <4>1, CookieRead
      <4> QED BY <1>2, <1>3, <4>2, Zenon
    <3> QED BY <1>0, <1>4, <1>5, <1>6, <1>10, <2>0, <2>1, <2>3, <3>1, <3>2, Zenon DEF Objects
  <2> QED BY <2>2, <2>3, Zenon
<1> QED BY <1>8, <1>9, <1>10

Changed(s, front, x, y) == s[Len(s)] = x /\ [s EXCEPT ![Len(s)] = y] = Append(front, y)

LEMMA LastChanged ==
  ASSUME NEW S, NEW front \in Seq(S), NEW x \in S, NEW y \in S, NEW s, s = Append(front, x)
  PROVE  Changed(s, front, x, y)
<1>1. PICK n \in Nat : n = Len(front)
  OBVIOUS
<1>2. /\ s \in Seq(S) /\ Len(s) = n + 1 /\ s[n + 1] = x /\ s # <<>>
      /\ \A i \in 1..n : s[i] = front[i]
  BY <1>1
<1>3. PICK g : g = [s EXCEPT ![n + 1] = y]
  OBVIOUS
<1>4. g \in Seq(S) /\ Len(g) = n + 1 /\ g[n + 1] = y /\ \A i \in 1..n : g[i] = front[i]
  <2>0. s \in Seq(S) /\ Len(s) = n + 1
    BY <1>2, Zenon
  <2>1. s = [i \in 1..(n + 1) |-> s[i]] /\ \A i \in 1..(n + 1) : s[i] \in S
    <3>1. s = [i \in 1..Len(s) |-> s[i]]
      <4>1. s \in [1..Len(s) -> S]
        BY <2>0, LenProperties
      <4> QED BY <4>1, Zenon
    <3>2. \A i \in 1..Len(s) : s[i] \in S
      BY <2>0
    <3> QED BY <2>0, <3>1, <3>2, Zenon
  <2>2. DOMAIN s = 1..(n + 1)
    BY <2>1
  <2>3. g = [i \in 1..(n + 1) |-> IF i = n + 1 THEN y ELSE s[i]]
    BY <1>3, <2>2
  <2>4. g \in Seq(S) /\ Len(g) = n + 1 /\ \A j \in 1..(n + 1) : g[j] = IF j = n + 1 THEN y ELSE s[j]
    <3>1. \A i \in 1..(n + 1) : (IF i = n + 1 THEN y ELSE s[i]) \in S
      BY <2>1, Zenon
    <3>2. g \in [1..(n + 1) -> S]
      BY <2>3, <3>1, Zenon
    <3>3. g \in Seq(S) /\ Len(g) = n + 1
      BY <3>2
    <3> QED BY <2>3, <3>3, Zenon
  <2>5. g[n + 1] = y
    <3>1. n + 1 \in 1..(n + 1)
      OBVIOUS
    <3> QED BY <2>4, <3>1, Zenon
  <2>6. ASSUME NEW i \in 1..n PROVE g[i] = front[i]
    <3>1. i \in 1..(n + 1) /\ i # n + 1
      OBVIOUS
    <3> QED BY <1>2, <2>4, <3>1, Zenon
  <2> QED BY <2>4, <2>5, <2>6
<1>5. PICK h : h = Append(front, y)
  OBVIOUS
<1>6. h \in Seq(S) /\ Len(h) = n + 1 /\ h[n + 1] = y /\ \A i \in 1..n : h[i] = front[i]
  BY <1>1, <1>5
<1>7. g = h
  <2>1. ASSUME NEW i \in 1..Len(g) PROVE g[i] = h[i]
    <3>1. i = n + 1 \/ i \in 1..n
      BY <1>4
    <3> QED BY <1>4, <1>6, <3>1, Zenon
  <2> QED BY <1>4, <1>6, <2>1, SeqEqual
<1> QED BY <1>2, <1>3, <1>5, <1>7, Zenon DEF Changed

LEMMA AppendIs ==
  ASSUME NEW S, NEW s \in Seq(S), NEW c \in S
  PROVE  s \o <<c>> = Append(s, c)
OBVIOUS

(* A character more of a name or a value.                                  *)
LEMMA FurtherIs ==
  ASSUME NEW pair \in PairsWritten, NEW c \in Letters
  PROVE  /\ Further(pair, c) \in PairsWritten /\ Further(pair, c).eq = pair.eq
         /\ pair.eq => Further(pair, c).name = pair.name /\ Further(pair, c).value = Append(pair.value, c)
         /\ ~pair.eq => Further(pair, c).name = Append(pair.name, c) /\ Further(pair, c).value = pair.value
<1>1. pair.name \in Seq(Letters) /\ pair.value \in Seq(Letters) /\ pair.eq \in BOOLEAN
  BY DEF PairsWritten
<1>2. PICK n \in Seq(Letters), v \in Seq(Letters) : n = Append(pair.name, c) /\ v = Append(pair.value, c)
  <2>1. PICK a \in Seq(Letters), b \in Seq(Letters) : a = pair.name /\ b = pair.value
    BY <1>1, Zenon
  <2>2. Append(a, c) \in Seq(Letters) /\ Append(b, c) \in Seq(Letters)
    OBVIOUS
  <2> QED BY <2>1, <2>2, Zenon
<1>3. CASE pair.eq
  <2>1. Further(pair, c) = [pair EXCEPT !.value = v]
    BY <1>2, <1>3, Zenon DEF Further
  <2>2. [pair EXCEPT !.value = v] \in PairsWritten
    BY DEF PairsWritten
  <2>3. /\ [pair EXCEPT !.value = v].eq = pair.eq /\ [pair EXCEPT !.value = v].name = pair.name
        /\ [pair EXCEPT !.value = v].value = v
    BY DEF PairsWritten
  <2> QED BY <1>2, <1>3, <2>1, <2>2, <2>3, Zenon
<1>4. CASE ~pair.eq
  <2>1. Further(pair, c) = [pair EXCEPT !.name = n]
    BY <1>2, <1>4, Zenon DEF Further
  <2>2. [pair EXCEPT !.name = n] \in PairsWritten
    BY DEF PairsWritten
  <2>3. /\ [pair EXCEPT !.name = n].eq = pair.eq /\ [pair EXCEPT !.name = n].value = pair.value
        /\ [pair EXCEPT !.name = n].name = n
    BY DEF PairsWritten
  <2> QED BY <1>2, <1>4, <2>1, <2>2, <2>3, Zenon
<1> QED BY <1>3, <1>4, Zenon

Longest(lead, rn, rv, word) ==
  /\ Token(lead, rn, TRUE, rv) \o word = Token(lead, rn, TRUE, rv \o word)
  /\ Token(lead, rn, FALSE, rv) \o word = Token(lead, rn \o word, FALSE, rv)

LEMMA TokenFurther ==
  ASSUME NEW lead \in Seq(Letters), NEW rn \in Seq(Letters), NEW rv \in Seq(Letters), NEW word \in Seq(Letters)
  PROVE  Longest(lead, rn, rv, word)
<1>1. PICK sign \in Seq(Letters) : sign = <<"=">>
  <2>1. "=" \in Letters
    BY EscapesAre DEF Letters
  <2> QED BY <2>1, Single, Zenon
<1>2. PICK u \in Seq(Letters) : u = lead \o rn
  BY JoinType
<1>3. PICK v \in Seq(Letters) : v = sign \o rv
  BY JoinType
<1>4. (u \o v) \o word = u \o (v \o word) /\ (sign \o rv) \o word = sign \o (rv \o word)
      /\ (lead \o rn) \o word = lead \o (rn \o word)
  <2>1. (u \o v) \o word = u \o (v \o word)
    BY LettersJoin, Zenon
  <2>2. (sign \o rv) \o word = sign \o (rv \o word)
    BY LettersJoin, ZenonT(40)
  <2>3. (lead \o rn) \o word = lead \o (rn \o word)
    OBVIOUS
  <2> QED BY <2>1, <2>2, <2>3, Zenon
<1>5. Token(lead, rn, TRUE, rv) = u \o v /\ Token(lead, rn, FALSE, rv) = u
  BY <1>1, <1>2, <1>3, Zenon DEF Token
<1>6. Token(lead, rn, TRUE, rv \o word) = u \o (sign \o (rv \o word))
  BY <1>1, <1>2, Zenon DEF Token
<1>7. Token(lead, rn \o word, FALSE, rv) = lead \o (rn \o word)
  BY Zenon DEF Token
<1> QED BY <1>2, <1>3, <1>4, <1>5, <1>6, <1>7, Zenon DEF Longest

LEMMA CharWritten ==
  ASSUME NEW what \in {"query", "cookies"}, NEW t \in Seq(Letters),
         NEW front, NEW pair, NEW tokens, NEW lead, NEW rn, NEW rv,
         PairWritten(what, t, front, pair, tokens, lead, rn, rv),
         NEW word, NEW c, Stands(word, c), what = "cookies" /\ ~pair.eq => word = <<c>>
  PROVE  \E rn2, rv2 : PairWritten(what, t \o word, front, Further(pair, c), tokens, lead, rn2, rv2)
<1>0. /\ front \in Seq(PairsWritten) /\ pair \in PairsWritten /\ tokens \in Seq(Seq(Letters))
      /\ Objects(tokens, what) = Meant(front, what)
      /\ Reads(t, Separator(what), tokens, Token(lead, rn, pair.eq, rv))
      /\ Lead(lead) /\ (what = "query" => lead = <<>>)
      /\ Encoded(rn, pair.name) /\ Safe(rn) /\ Encoded(rv, pair.value) /\ Safe(rv)
      /\ ~pair.eq => rv = <<>>
      /\ what = "cookies" => rn = pair.name
  BY Zenon DEF PairWritten
<1>1. c \in Letters /\ word \in Seq(Letters) /\ Safe(word)
  BY StandsIs
<1>2. rn \in Seq(Letters) /\ rv \in Seq(Letters) /\ lead \in Seq(Letters) /\ pair.name \in Seq(Letters)
  <2>1. lead \in Seq(Letters)
    BY <1>0, LeadType
  <2> QED BY <1>0, <2>1, EncodedIs
<1>3. PICK eq \in BOOLEAN : eq = pair.eq
  BY <1>0, Zenon DEF PairsWritten
<1>4. PICK next : next = Further(pair, c)
  OBVIOUS
<1>5. /\ next \in PairsWritten /\ next.eq = eq
      /\ eq => next.name = pair.name /\ next.value = Append(pair.value, c)
      /\ ~eq => next.name = Append(pair.name, c) /\ next.value = pair.value
  <2>1. /\ Further(pair, c) \in PairsWritten /\ Further(pair, c).eq = pair.eq
        /\ pair.eq => Further(pair, c).name = pair.name /\ Further(pair, c).value = Append(pair.value, c)
        /\ ~pair.eq => Further(pair, c).name = Append(pair.name, c) /\ Further(pair, c).value = pair.value
    BY <1>0, <1>1, FurtherIs
  <2> QED BY <1>3, <1>4, <2>1, Zenon
<1>6. Reads(t \o word, Separator(what), tokens, Token(lead, rn, eq, rv) \o word)
  <2>1. Without(word, "&") /\ Without(word, ";")
    BY <1>1, SafeIs
  <2>2. Without(word, Separator(what))
    BY <2>1, Zenon DEF Separator
  <2>3. PICK l : l = Token(lead, rn, eq, rv)
    OBVIOUS
  <2>4. Reads(t, Separator(what), tokens, l)
    BY <1>0, <1>3, <2>3, Zenon
  <2>5. Reads(t \o word, Separator(what), tokens, l \o word)
    BY <1>1, <2>2, <2>4, SplitJoin
  <2> QED BY <2>3, <2>5, Zenon
<1>7. /\ Token(lead, rn, TRUE, rv) \o word = Token(lead, rn, TRUE, rv \o word)
      /\ Token(lead, rn, FALSE, rv) \o word = Token(lead, rn \o word, FALSE, rv)
  <2>1. word \in Seq(Letters) /\ rn \in Seq(Letters) /\ rv \in Seq(Letters) /\ lead \in Seq(Letters)
    BY <1>1, <1>2, Zenon
  <2>2. Longest(lead, rn, rv, word)
    BY <2>1, TokenFurther
  <2> QED BY <2>2, Zenon DEF Longest
<1>8. CASE eq = TRUE
  <2>1. Encoded(rv \o word, Append(pair.value, c))
    BY <1>0, EncodedAppend
  <2>2. Safe(rv \o word)
    <3>1. word \in Seq(Letters) /\ rv \in Seq(Letters) /\ Safe(word) /\ Safe(rv)
      BY <1>0, <1>1, <1>2, Zenon
    <3> QED BY <3>1, SafeJoin, Zenon
  <2>3. PairWritten(what, t \o word, front, next, tokens, lead, rn, rv \o word)
    BY <1>0, <1>5, <1>6, <1>7, <1>8, <2>1, <2>2, Zenon DEF PairWritten
  <2> QED BY <1>4, <2>3, Zenon
<1>9. CASE eq = FALSE
  <2>1. Encoded(rn \o word, Append(pair.name, c))
    BY <1>0, EncodedAppend
  <2>2. Safe(rn \o word)
    <3>1. word \in Seq(Letters) /\ rn \in Seq(Letters) /\ Safe(word) /\ Safe(rn)
      BY <1>0, <1>1, <1>2, Zenon
    <3> QED BY <3>1, SafeJoin, Zenon
  <2>3. what = "cookies" => rn \o word = Append(pair.name, c)
    <3>1. pair.name \o <<c>> = Append(pair.name, c)
      BY <1>1, <1>2, AppendIs
    <3> QED BY <1>0, <1>3, <1>9, <3>1, Zenon
  <2>4. PairWritten(what, t \o word, front, next, tokens, lead, rn \o word, rv)
    BY <1>0, <1>3, <1>5, <1>6, <1>7, <1>9, <2>1, <2>2, <2>3, Zenon DEF PairWritten
  <2> QED BY <1>4, <2>4, Zenon
<1> QED BY <1>8, <1>9

LEMMA TwoMore ==
  ASSUME NEW S, NEW s \in Seq(S), NEW c \in S, NEW d \in S
  PROVE  s \o <<c, d>> = Append(s, c) \o <<d>>
OBVIOUS

(* A pair after the ones before.                                           *)
LEMMA PairBegun ==
  ASSUME NEW what \in {"query", "cookies"}, NEW t \in Seq(Letters), NEW front \in Seq(PairsWritten),
         NEW tokens \in Seq(Seq(Letters)), NEW lead, Lead(lead), what = "query" => lead = <<>>,
         Reads(t, Separator(what), tokens, lead), Objects(tokens, what) = Meant(front, what),
         NEW pair, pair = [name |-> <<>>, eq |-> FALSE, value |-> <<>>]
  PROVE  pair \in PairsWritten /\ \E rn, rv : PairWritten(what, t, front, pair, tokens, lead, rn, rv)
<1>1. PICK none \in Seq(Letters) : none = <<>>
  <2>1. <<>> \in Seq(Letters)
    OBVIOUS
  <2> QED BY <2>1, Zenon
<1>2. pair = [name |-> none, eq |-> FALSE, value |-> none]
  BY <1>1, Zenon
<1>3. pair \in PairsWritten /\ pair.name = none /\ pair.value = none /\ pair.eq = FALSE
  BY <1>2 DEF PairsWritten
<1>4. Safe(none) /\ Encoded(none, none)
  BY <1>1, SafeNone, EncodedNone, Zenon
<1>5. Token(lead, none, FALSE, none) = lead
  <2>1. lead \in Seq(Letters)
    BY LeadType
  <2>2. lead \o <<>> = lead
    BY <2>1
  <2> QED BY <1>1, <2>2, Zenon DEF Token
<1>6. PairWritten(what, t, front, pair, tokens, lead, none, none)
  BY <1>1, <1>3, <1>4, <1>5, Zenon DEF PairWritten
<1> QED BY <1>3, <1>6, Zenon

TextNext(what, t) == IF what = "query" THEN Append(t, "&") ELSE t \o <<";", " ">>

LEMMA PairAfter ==
  ASSUME NEW what \in {"query", "cookies"}, NEW t \in Seq(Letters), NEW all \in Seq(PairsWritten),
         NEW front, NEW pair, NEW tokens, NEW lead, NEW rn, NEW rv, all = Append(front, pair),
         PairWritten(what, t, front, pair, tokens, lead, rn, rv),
         NEW next, next = [name |-> <<>>, eq |-> FALSE, value |-> <<>>],
         NEW more, more = TextNext(what, t)
  PROVE  /\ more \in Seq(Letters) /\ next \in PairsWritten
         /\ \E tokens2, lead2, rn2, rv2 : PairWritten(what, more, all, next, tokens2, lead2, rn2, rv2)
<1>1. PICK r : r = Split(t, Separator(what))
  OBVIOUS
<1>2. PICK c \in Letters : c = Separator(what)
  BY EscapesAre, Zenon DEF Separator, Letters
<1>3. r \in Splits /\ Split(Append(t, c), Separator(what)) = NextChar(r, c, Separator(what))
  BY <1>1, SplitAppend
<1>4. PICK d \in Seq(Seq(Letters)) : d = Ended(r)
  BY <1>3, EndedType
<1>5. Reads(Append(t, c), Separator(what), d, <<>>)
  <2>1. NextChar(r, c, Separator(what)) = [tokens |-> Ended(r), last |-> <<>>]
    BY <1>2, <1>3, NextCharIs
  <2> QED BY <1>3, <1>4, <2>1, Zenon DEF Reads
<1>6. Objects(d, what) = Meant(all, what)
  <2>1. Objects(Ended(Split(t, Separator(what))), what) = Meant(Append(front, pair), what)
    BY WrittenIsRead
  <2> QED BY <1>1, <1>4, <2>1, Zenon
<1>7. PICK u \in Seq(Letters) : u = Append(t, c)
  <2>1. Append(t, c) \in Seq(Letters)
    OBVIOUS
  <2> QED BY <2>1, Zenon
<1>8. CASE what = "query"
  <2>1. more = u
    BY <1>2, <1>7, <1>8, Zenon DEF Separator, TextNext
  <2>2. PICK lead2 : lead2 = <<>>
    OBVIOUS
  <2>3. Lead(lead2) /\ (what = "query" => lead2 = <<>>) /\ Reads(u, Separator(what), d, lead2)
    BY <1>5, <1>7, <2>2, Zenon DEF Lead
  <2>4. next \in PairsWritten /\ \E rn2, rv2 : PairWritten(what, u, all, next, d, lead2, rn2, rv2)
    BY <1>6, <2>3, PairBegun, Zenon
  <2> QED BY <2>1, <2>4, Zenon
<1>9. CASE what = "cookies"
  <2>0. what # "query"
    BY <1>9
  <2>1. PICK word \in Seq(Letters) : word = <<Space>> /\ Without(word, ";") /\ Lead(word)
    <3>1. Space \in Letters /\ Space # ";"
      BY EscapesAre, Zenon DEF Letters, Space
    <3>2. <<Space>> \in Seq(Letters) /\ Len(<<Space>>) = 1 /\ <<Space>>[1] = Space
      BY <3>1, Single
    <3>3. \A i \in 1..1 : i = 1
      OBVIOUS
    <3>4. Without(<<Space>>, ";")
      BY <3>1, <3>2, <3>3, Zenon DEF Without
    <3> QED BY <3>2, <3>4, Zenon DEF Lead
  <2>2. more = u \o word
    <3>1. PICK b \in Letters : b = Space
      BY EscapesAre, Zenon DEF Letters, Space
    <3>2. t \o <<c, b>> = Append(t, c) \o <<b>>
      BY TwoMore
    <3>3. t \o <<";", " ">> = u \o word
      BY <1>2, <1>7, <2>0, <2>1, <3>1, <3>2, Zenon DEF Separator, Space
    <3> QED BY <2>0, <3>3, Zenon DEF TextNext
  <2>3. u \o word \in Seq(Letters)
    BY JoinType
  <2>4. Reads(u \o word, Separator(what), d, <<>> \o word)
    <3>1. PICK none : none = <<>>
      OBVIOUS
    <3>2. Reads(u, Separator(what), d, none)
      BY <1>5, <1>7, <3>1, Zenon
    <3>3. Without(word, Separator(what))
      BY <2>0, <2>1, Zenon DEF Separator
    <3>4. Reads(u \o word, Separator(what), d, none \o word)
      BY <3>2, <3>3, SplitJoin
    <3> QED BY <3>1, <3>4, Zenon
  <2>5. <<>> \o word = word
    OBVIOUS
  <2>6. PICK v \in Seq(Letters) : v = u \o word
    BY <2>3, Zenon
  <2>7. Reads(v, Separator(what), d, word) /\ (what = "query" => word = <<>>)
    BY <2>0, <2>4, <2>5, <2>6, Zenon
  <2>8. next \in PairsWritten /\ \E rn2, rv2 : PairWritten(what, v, all, next, d, word, rn2, rv2)
    BY <1>6, <2>1, <2>7, PairBegun, Zenon
  <2> QED BY <2>2, <2>6, <2>8, Zenon
<1> QED BY <1>8, <1>9

LEMMA EqualsWritten ==
  ASSUME NEW what \in {"query", "cookies"}, NEW t \in Seq(Letters),
         NEW front, NEW pair, NEW tokens, NEW lead, NEW rn, NEW rv,
         PairWritten(what, t, front, pair, tokens, lead, rn, rv), ~pair.eq
  PROVE  /\ Append(t, "=") \in Seq(Letters) /\ [pair EXCEPT !.eq = TRUE] \in PairsWritten
         /\ PairWritten(what, Append(t, "="), front, [pair EXCEPT !.eq = TRUE], tokens, lead, rn, rv)
<1>0. /\ pair \in PairsWritten /\ Lead(lead) /\ Encoded(rn, pair.name) /\ rv = <<>>
      /\ Reads(t, Separator(what), tokens, Token(lead, rn, pair.eq, rv))
  BY Zenon DEF PairWritten
<1>1. PICK c \in Letters : c = "=" /\ c # "&" /\ c # ";"
  <2>1. "=" # "&" /\ "=" # ";"
    OBVIOUS
  <2> QED BY <2>1, EscapesAre, Zenon DEF Letters
<1>2. PICK word \in Seq(Letters) : word = <<c>> /\ Len(word) = 1 /\ word[1] = c
  BY Single, Zenon
<1>3. Without(word, Separator(what))
  <2>1. \A i \in 1..1 : i = 1
    OBVIOUS
  <2> QED BY <1>1, <1>2, <2>1, Zenon DEF Without, Separator
<1>4. PICK u \in Seq(Letters) : u = lead \o rn
  <2>1. lead \in Seq(Letters)
    BY <1>0, LeadType
  <2>2. rn \in Seq(Letters)
    BY <1>0, EncodedIs
  <2>3. lead \o rn \in Seq(Letters)
    BY <2>1, <2>2, JoinType
  <2> QED BY <2>3, Zenon
<1>5. Reads(t, Separator(what), tokens, u)
  BY <1>0, <1>4, Zenon DEF Token
<1>6. Reads(t \o word, Separator(what), tokens, u \o word)
  BY <1>3, <1>5, SplitJoin
<1>7. t \o <<c>> = Append(t, c) /\ Append(t, c) \in Seq(Letters)
  BY AppendIs
<1>8. Token(lead, rn, TRUE, rv) = u \o word
  <2>1. word \o <<>> = word
    OBVIOUS
  <2> QED BY <1>0, <1>1, <1>2, <1>4, <2>1, Zenon DEF Token
<1>9. PICK next : next = [pair EXCEPT !.eq = TRUE]
  OBVIOUS
<1>10. next \in PairsWritten /\ next.name = pair.name /\ next.value = pair.value /\ next.eq = TRUE
  BY <1>0, <1>9 DEF PairsWritten
<1>11. PairWritten(what, Append(t, c), front, next, tokens, lead, rn, rv)
  BY <1>2, <1>6, <1>7, <1>8, <1>10, Zenon DEF PairWritten
<1> QED BY <1>1, <1>7, <1>9, <1>10, <1>11, Zenon

LEMMA PairStarted ==
  ASSUME NEW what \in {"query", "cookies"}, NEW t, t = <<>>, NEW all, all = <<>>,
         NEW pair, pair = [name |-> <<>>, eq |-> FALSE, value |-> <<>>]
  PROVE  /\ t \in Seq(Letters) /\ pair \in PairsWritten
         /\ \E tokens, lead, rn, rv : PairWritten(what, t, all, pair, tokens, lead, rn, rv)
<1>1. PICK s \in Seq(Letters) : s = t
  <2>1. <<>> \in Seq(Letters)
    OBVIOUS
  <2> QED BY <2>1, Zenon
<1>2. PICK front \in Seq(PairsWritten) : front = all
  <2>1. <<>> \in Seq(PairsWritten)
    OBVIOUS
  <2> QED BY <2>1, Zenon
<1>3. PICK tokens \in Seq(Seq(Letters)) : tokens = <<>>
  <2>1. <<>> \in Seq(Seq(Letters))
    OBVIOUS
  <2> QED BY <2>1, Zenon
<1>4. Reads(s, Separator(what), tokens, t)
  BY <1>1, <1>3, SplitNone, Zenon DEF Reads, Unsplit
<1>5. Objects(tokens, what) = Meant(front, what)
  BY <1>2, <1>3, ObjectsNone, MeantNone, Zenon
<1>6. Lead(t)
  BY Zenon DEF Lead
<1>7. pair \in PairsWritten /\ \E rn, rv : PairWritten(what, s, front, pair, tokens, t, rn, rv)
  BY <1>4, <1>5, <1>6, PairBegun, Zenon
<1> QED BY <1>1, <1>2, <1>7, Zenon

-----------------------------------------------------------------------------
(* What is read at any time, with the pairs before the last read as they   *)
(* were meant.                                                             *)
AssignmentsInv ==
  /\ kind \in {"query", "cookies"}
  /\ text \in Seq(Letters) /\ said \in Seq(PairsWritten)
  /\ said = <<>> => text = <<>>
  /\ said # <<>> => \E front, pair, tokens, lead, rn, rv :
                      said = Append(front, pair) /\ PairWritten(kind, text, front, pair, tokens, lead, rn, rv)

(* The same, as what a step leads to.                                      *)
LEMMA InvBy ==
  ASSUME NEW k \in {"query", "cookies"}, NEW t \in Seq(Letters), NEW all,
         NEW front \in Seq(PairsWritten), NEW pair \in PairsWritten, all = Append(front, pair),
         \E tokens, lead, rn, rv : PairWritten(k, t, front, pair, tokens, lead, rn, rv),
         kind' = k, text' = t, said' = all
  PROVE  AssignmentsInv'
<1>1. all \in Seq(PairsWritten) /\ all # <<>>
  OBVIOUS
<1> QED BY <1>1, Zenon DEF AssignmentsInv

LEMMA AssignmentsStep ==
  ASSUME AssignmentsInv, [AssignmentsNext]_<<kind, text, said>>
  PROVE  AssignmentsInv'
<1>0. kind \in {"query", "cookies"} /\ text \in Seq(Letters) /\ said \in Seq(PairsWritten)
  BY DEF AssignmentsInv
<1>1. ASSUME NEW c, NEW word, Stands(word, c), WriteChar(c, word)
      PROVE  AssignmentsInv'
  <2>1. said # <<>>
    BY <1>1, Zenon DEF WriteChar
  <2>2. PICK front, pair, tokens, lead, rn, rv :
          said = Append(front, pair) /\ PairWritten(kind, text, front, pair, tokens, lead, rn, rv)
    BY <2>1, Zenon DEF AssignmentsInv
  <2>3. front \in Seq(PairsWritten) /\ pair \in PairsWritten
    BY <2>2, Zenon DEF PairWritten
  <2>4. PICK next : next = Further(pair, c)
    OBVIOUS
  <2>5. c \in Letters /\ word \in Seq(Letters)
    BY <1>1, StandsIs
  <2>6. next \in PairsWritten
    BY <2>3, <2>4, <2>5, FurtherIs, Zenon
  <2>7. said[Len(said)] = pair /\ [said EXCEPT ![Len(said)] = next] = Append(front, next)
    <3>1. Changed(said, front, pair, next)
      BY <2>2, <2>3, <2>6, LastChanged
    <3> QED BY <3>1, Zenon DEF Changed
  <2>8. kind = "cookies" /\ ~pair.eq => word = <<c>>
    BY <1>1, <2>7, Zenon DEF WriteChar
  <2>9. \E rn2, rv2 : PairWritten(kind, text \o word, front, next, tokens, lead, rn2, rv2)
    BY <1>0, <1>1, <2>2, <2>4, <2>8, CharWritten, Zenon
  <2>10. PICK t \in Seq(Letters) : t = text \o word
    BY <1>0, <2>5, JoinType, Zenon
  <2>11. said' = Append(front, next)
    <3>1. said' = [said EXCEPT ![Len(said)] = Further(said[Len(said)], c)]
      BY <1>1, Zenon DEF WriteChar
    <3> QED BY <2>4, <2>7, <3>1, Zenon
  <2>12. kind' = kind /\ text' = t
    BY <1>1, <2>10, Zenon DEF WriteChar
  <2>13. \E tokens2, lead2, rn2, rv2 : PairWritten(kind, t, front, next, tokens2, lead2, rn2, rv2)
    BY <2>9, <2>10, Zenon
  <2> QED BY <1>0, <2>3, <2>6, <2>11, <2>12, <2>13, InvBy, Zenon
<1>2. CASE WriteEquals
  <2>1. said # <<>> /\ ~said[Len(said)].eq
    BY <1>2, Zenon DEF WriteEquals
  <2>2. PICK front, pair, tokens, lead, rn, rv :
          said = Append(front, pair) /\ PairWritten(kind, text, front, pair, tokens, lead, rn, rv)
    BY <2>1, Zenon DEF AssignmentsInv
  <2>3. front \in Seq(PairsWritten) /\ pair \in PairsWritten
    BY <2>2, Zenon DEF PairWritten
  <2>4. said[Len(said)] = pair
    <3>1. Changed(said, front, pair, pair)
      BY <2>2, <2>3, LastChanged
    <3> QED BY <3>1, Zenon DEF Changed
  <2>5. PICK next : next = [pair EXCEPT !.eq = TRUE]
    OBVIOUS
  <2>6. /\ Append(text, "=") \in Seq(Letters) /\ next \in PairsWritten
        /\ PairWritten(kind, Append(text, "="), front, next, tokens, lead, rn, rv)
    BY <1>0, <2>1, <2>2, <2>4, <2>5, EqualsWritten, Zenon
  <2>7. [said EXCEPT ![Len(said)] = next] = Append(front, next)
    <3>1. Changed(said, front, pair, next)
      BY <2>2, <2>3, <2>6, LastChanged
    <3> QED BY <2>4, <3>1, Zenon DEF Changed
  <2>8. said' = Append(front, next)
    <3>1. said' = [said EXCEPT ![Len(said)] = [said[Len(said)] EXCEPT !.eq = TRUE]]
      BY <1>2, Zenon DEF WriteEquals
    <3> QED BY <2>4, <2>5, <2>7, <3>1, Zenon
  <2>9. kind' = kind /\ text' = Append(text, "=")
    BY <1>2, Zenon DEF WriteEquals
  <2> QED BY <1>0, <2>3, <2>6, <2>8, <2>9, InvBy, Zenon
<1>3. CASE NextPair
  <2>1. PICK next : next = [name |-> <<>>, eq |-> FALSE, value |-> <<>>]
    OBVIOUS
  <2>2. kind' = kind /\ said' = Append(said, next)
    BY <1>3, <2>1, Zenon DEF NextPair
  <2>3. CASE said = <<>>
    <3>1. PICK t : t = <<>>
      OBVIOUS
    <3>2. text' = t
      BY <1>3, <2>3, <3>1, Zenon DEF NextPair
    <3>3. /\ t \in Seq(Letters) /\ next \in PairsWritten
          /\ \E tokens, lead, rn, rv : PairWritten(kind, t, said, next, tokens, lead, rn, rv)
      BY <1>0, <2>1, <2>3, <3>1, PairStarted, Zenon
    <3> QED BY <1>0, <2>2, <3>2, <3>3, InvBy, Zenon
  <2>4. CASE said # <<>>
    <3>1. PICK front, pair, tokens, lead, rn, rv :
            said = Append(front, pair) /\ PairWritten(kind, text, front, pair, tokens, lead, rn, rv)
      BY <2>4, Zenon DEF AssignmentsInv
    <3>2. PICK t : t = TextNext(kind, text)
      OBVIOUS
    <3>3. text' = t
      BY <1>3, <2>4, <3>2, Zenon DEF NextPair, TextNext
    <3>4. /\ t \in Seq(Letters) /\ next \in PairsWritten
          /\ \E tokens2, lead2, rn2, rv2 : PairWritten(kind, t, said, next, tokens2, lead2, rn2, rv2)
      BY <1>0, <2>1, <3>1, <3>2, PairAfter, Zenon
    <3> QED BY <1>0, <2>2, <3>3, <3>4, InvBy, Zenon
  <2> QED BY <2>3, <2>4
<1>4. CASE UNCHANGED <<kind, text, said>>
  <2>1. kind' = kind /\ text' = text /\ said' = said
    BY <1>4
  <2> QED BY <2>1, Zenon DEF AssignmentsInv
<1>5. CASE AssignmentsNext
  <2>1. ASSUME NEW c \in Plain, WriteChar(c, <<c>>) PROVE AssignmentsInv'
    BY <1>1, <2>1, Zenon DEF Stands
  <2>2. ASSUME NEW c \in DOMAIN Escapes, WriteChar(c, <<"%">> \o Escapes[c]) PROVE AssignmentsInv'
    BY <1>1, <2>2, Zenon DEF Stands
  <2>3. ASSUME WriteChar(" ", <<"+">>) PROVE AssignmentsInv'
    BY <1>1, <2>3, Zenon DEF Stands
  <2> QED BY <1>2, <1>3, <1>5, <2>1, <2>2, <2>3, Zenon DEF AssignmentsNext
<1> QED BY <1>4, <1>5

LEMMA AssignmentsRead ==
  ASSUME AssignmentsInv
  PROVE  AssignmentsParsed
<1>0. kind \in {"query", "cookies"}
  BY DEF AssignmentsInv
<1>1. Objects(Ended(Split(text, Separator(kind))), kind) = Meant(said, kind)
  <2>1. CASE said = <<>>
    <3>1. text = <<>>
      BY <2>1, Zenon DEF AssignmentsInv
    <3>2. Split(text, Separator(kind)) = Unsplit
      BY <3>1, SplitNone, Zenon
    <3>3. Unsplit.last = <<>> /\ Unsplit.tokens = <<>>
      BY DEF Unsplit
    <3>4. Ended(Unsplit) = <<>>
      BY <3>3, Zenon DEF Ended
    <3> QED BY <2>1, <3>2, <3>4, ObjectsNone, MeantNone, Zenon
  <2>2. CASE said # <<>>
    <3>1. PICK front, pair, tokens, lead, rn, rv :
            said = Append(front, pair) /\ PairWritten(kind, text, front, pair, tokens, lead, rn, rv)
      BY <2>2, Zenon DEF AssignmentsInv
    <3>2. Objects(Ended(Split(text, Separator(kind))), kind) = Meant(Append(front, pair), kind)
      BY <1>0, <3>1, WrittenIsRead
    <3> QED BY <3>1, <3>2, Zenon
  <2> QED BY <2>1, <2>2
<1>2. CASE kind = "query"
  BY <1>1, <1>2, Zenon DEF AssignmentsParsed, Objects, QueryOf, Query, Tokens, Separator
<1>3. CASE kind = "cookies"
  <2>1. kind # "query"
    BY <1>3
  <2> QED BY <1>1, <1>3, <2>1, Zenon DEF AssignmentsParsed, Objects, Cookies, Tokens, Separator
<1> QED BY <1>0, <1>2, <1>3

(* Whatever a browser writes, every assignment of a query string, a form   *)
(* or a cookie header is read as it was meant, and nothing else is         *)
(* (url_decode, parse_query_string, build_request_object).                 *)
THEOREM AssignmentsCorrect == AssignmentsSpec => []AssignmentsParsed
<1>1. AssignmentsInit => AssignmentsInv
  BY DEF AssignmentsInit, AssignmentsInv
<1>2. AssignmentsInv /\ [AssignmentsNext]_<<kind, text, said>> => AssignmentsInv'
  BY AssignmentsStep
<1>3. AssignmentsInv => AssignmentsParsed
  BY AssignmentsRead
<1> QED BY <1>1, <1>2, <1>3, PTL DEF AssignmentsSpec
-----------------------------------------------------------------------------
(* A head: where its lines are.                                            *)
Marks == Char \cup {"Status", "500", "Content-Type", "text/html", "Content-Length",
                    "message", "Internal Server Error"}
              \cup {ToString(n) : n \in Nat}

LineAt(s, p, line) ==
  LET l == Len(line)
  IN /\ \A q \in 1..l : s[p + q] = line[q]
     /\ s[p + l + 1] = "CR" /\ s[p + l + 2] = "LF"

LaidOut(s, lines, n, at) ==
  /\ at \in [0..n -> Nat] /\ at[0] = 0 /\ at[n] <= Len(s)
  /\ \A i \in 1..n : at[i] = at[i - 1] + Len(lines[i]) + 2 /\ LineAt(s, at[i - 1], lines[i])

Headed(s, lines) == \E at : LaidOut(s, lines, Len(lines), at) /\ at[Len(lines)] = Len(s)

LEMMA HeadNone ==
  ASSUME NEW s, s = <<>>, NEW lines, lines = <<>>
  PROVE  Headed(s, lines)
<1> DEFINE at == [i \in 0..0 |-> 0]
<1>1. at \in [0..0 -> Nat] /\ at[0] = 0 /\ Len(lines) = 0 /\ Len(s) = 0 /\ 1..0 = {}
  OBVIOUS
<1> HIDE DEF at
<1>2. LaidOut(s, lines, Len(lines), at) /\ at[Len(lines)] = Len(s)
  BY <1>1 DEF LaidOut
<1> QED BY <1>2, Zenon DEF Headed

LEMMA LineEndType ==
  /\ CRLF \in Seq(Marks) /\ Len(CRLF) = 2 /\ CRLF[1] = "CR" /\ CRLF[2] = "LF"
  /\ Char \subseteq Marks
<1>1. "CR" \in Marks /\ "LF" \in Marks /\ Char \subseteq Marks
  BY Chars DEF Marks
<1> QED BY <1>1, Double DEF CRLF

LEMMA Joined ==
  ASSUME NEW S, NEW x \in Seq(S), NEW y \in Seq(S)
  PROVE  /\ x \o y \in Seq(S) /\ Len(x \o y) = Len(x) + Len(y)
         /\ \A q \in 1..Len(x) : (x \o y)[q] = x[q]
         /\ \A q \in 1..Len(y) : (x \o y)[Len(x) + q] = y[q]
<1>1. PICK z \in Seq(S) : z = x \o y
  BY JoinType
<1>2. /\ Len(z) = Len(x) + Len(y)
      /\ \A i \in 1..Len(x) + Len(y) : z[i] = IF i <= Len(x) THEN x[i] ELSE y[i - Len(x)]
  BY <1>1, ConcatProperties, Zenon
<1>3. PICK m \in Nat, n \in Nat : m = Len(x) /\ n = Len(y)
  OBVIOUS
<1>4. \A q \in 1..m : z[q] = x[q]
  BY <1>2, <1>3
<1>5. \A q \in 1..n : z[m + q] = y[q]
  <2> TAKE q \in 1..n
  <2>1. m + q \in 1..(m + n) /\ ~(m + q <= m) /\ (m + q) - m = q
    OBVIOUS
  <2> QED BY <1>2, <1>3, <2>1, Zenon
<1> QED BY <1>1, <1>2, <1>3, <1>4, <1>5, Zenon

IsJoin(z, x, y) == z = x \o y

LEMMA JoinedBy ==
  ASSUME NEW S, NEW x \in Seq(S), NEW y \in Seq(S), NEW z, IsJoin(z, x, y)
  PROVE  /\ z \in Seq(S) /\ Len(z) = Len(x) + Len(y)
         /\ \A q \in 1..Len(x) : z[q] = x[q]
         /\ \A q \in 1..Len(y) : z[Len(x) + q] = y[q]
<1>1. /\ x \o y \in Seq(S) /\ Len(x \o y) = Len(x) + Len(y)
      /\ \A q \in 1..Len(x) : (x \o y)[q] = x[q]
      /\ \A q \in 1..Len(y) : (x \o y)[Len(x) + q] = y[q]
  BY Joined
<1> QED BY <1>1, Zenon DEF IsJoin

IsCut(t, s, m, n) == m + n <= Len(s) /\ t = SubSeq(s, m + 1, m + n)

LEMMA Cut ==
  ASSUME NEW S, NEW s \in Seq(S), NEW m \in Nat, NEW n \in Nat, NEW t, IsCut(t, s, m, n)
  PROVE  t \in Seq(S) /\ Len(t) = n /\ \A q \in 1..n : t[q] = s[m + q]
<1>0. m + n <= Len(s) /\ t = SubSeq(s, m + 1, m + n)
  BY Zenon DEF IsCut
<1>1. m + 1 \in Int /\ m + n \in Int /\ \A j \in (m + 1)..(m + n) : s[j] \in S
  BY <1>0
<1>2. /\ t \in Seq(S)
      /\ Len(t) = IF m + 1 <= m + n THEN (m + n) - (m + 1) + 1 ELSE 0
      /\ \A q \in 1..((m + n) - (m + 1) + 1) : t[q] = s[(m + 1) + q - 1]
  BY <1>0, <1>1, SubSeqProperties
<1>3. Len(t) = n /\ (m + n) - (m + 1) + 1 = n /\ \A q \in 1..n : (m + 1) + q - 1 = m + q
  BY <1>2
<1>4. \A q \in 1..n : t[q] = s[m + q]
  BY <1>2, <1>3, Zenon
<1> QED BY <1>2, <1>3, <1>4

LEMMA HeadOne ==
  ASSUME NEW line \in Seq(Marks), NEW s, s = line \o CRLF, NEW lines, lines = <<line>>
  PROVE  s \in Seq(Marks) /\ Headed(s, lines)
<1>0. PICK l \in Nat : l = Len(line)
  OBVIOUS
<1>1. PICK c \in Seq(Marks) : c = CRLF /\ Len(c) = 2 /\ c[1] = "CR" /\ c[2] = "LF"
  BY LineEndType
<1>2. /\ s \in Seq(Marks) /\ Len(s) = l + 2
      /\ \A q \in 1..l : s[q] = line[q]
      /\ s[l + 1] = "CR" /\ s[l + 2] = "LF"
  <2>1. /\ s \in Seq(Marks) /\ Len(s) = Len(line) + Len(c)
        /\ \A q \in 1..Len(line) : s[q] = line[q]
        /\ \A q \in 1..Len(c) : s[Len(line) + q] = c[q]
    <3>1. /\ line \o c \in Seq(Marks) /\ Len(line \o c) = Len(line) + Len(c)
          /\ \A q \in 1..Len(line) : (line \o c)[q] = line[q]
          /\ \A q \in 1..Len(c) : (line \o c)[Len(line) + q] = c[q]
      BY Joined
    <3>2. s = line \o c
      BY <1>1, Zenon
    <3> QED BY <3>1, <3>2, Zenon
  <2>2. 1 \in 1..2 /\ 2 \in 1..2
    OBVIOUS
  <2> QED BY <1>0, <1>1, <2>1, <2>2, Zenon
<1> DEFINE at == [i \in 0..1 |-> IF i = 0 THEN 0 ELSE l + 2]
<1>3. at \in [0..1 -> Nat] /\ at[0] = 0 /\ at[1] = l + 2 /\ Len(lines) = 1 /\ lines[1] = line
  OBVIOUS
<1> HIDE DEF at
<1>4. LineAt(s, 0, line)
  BY <1>0, <1>2 DEF LineAt
<1>5. LaidOut(s, lines, 1, at)
  <2>1. \A i \in 1..1 : i = 1 /\ i - 1 = 0
    OBVIOUS
  <2>2. l + 2 = 0 + l + 2 /\ l + 2 <= Len(s)
    BY <1>2
  <2>3. \A i \in 1..1 : at[i] = at[i - 1] + Len(lines[i]) + 2 /\ LineAt(s, at[i - 1], lines[i])
    BY <1>0, <1>3, <1>4, <2>1, <2>2, Zenon
  <2> QED BY <1>3, <2>2, <2>3, Zenon DEF LaidOut
<1> QED BY <1>2, <1>3, <1>5, Zenon DEF Headed

LEMMA LineMoved ==
  ASSUME NEW s, NEW t, NEW p \in Nat, NEW m \in Nat, NEW line \in Seq(Marks), LineAt(t, p, line),
         \A q \in 1..(Len(line) + 2) : s[m + p + q] = t[p + q]
  PROVE  LineAt(s, m + p, line)
<1>1. PICK l \in Nat : l = Len(line)
  OBVIOUS
<1>2. /\ \A q \in 1..l : t[p + q] = line[q]
      /\ t[p + l + 1] = "CR" /\ t[p + l + 2] = "LF"
  BY <1>1 DEF LineAt
<1>3. l + 1 \in 1..(l + 2) /\ l + 2 \in 1..(l + 2) /\ \A q \in 1..l : q \in 1..(l + 2)
  OBVIOUS
<1>4. s[m + p + (l + 1)] = t[p + (l + 1)] /\ s[m + p + (l + 2)] = t[p + (l + 2)]
  BY <1>1, <1>3
<1>5. p + (l + 1) = p + l + 1 /\ p + (l + 2) = p + l + 2
      /\ m + p + (l + 1) = m + p + l + 1 /\ m + p + (l + 2) = m + p + l + 2
  OBVIOUS
<1>6. s[m + p + l + 1] = "CR" /\ s[m + p + l + 2] = "LF"
  BY <1>2, <1>4, <1>5, Zenon
<1>7. \A q \in 1..l : s[m + p + q] = line[q]
  BY <1>1, <1>2, <1>3
<1> QED BY <1>1, <1>6, <1>7 DEF LineAt

(* The lines start in order, and each takes three characters at least.     *)
Neat(line) == line # <<>> /\ \A q \in 1..Len(line) : line[q] # "CR" /\ line[q] # "LF"

LEMMA Rises ==
  ASSUME NEW s \in Seq(Marks), NEW lines \in Seq(Seq(Marks)), NEW n \in Nat, n = Len(lines), NEW at,
         LaidOut(s, lines, n, at), NEW i \in 0..n
  PROVE  at[i] <= at[n] /\ at[n] <= Len(s) /\ at[i] \in Nat /\ at[n] \in Nat
<1>0. at \in [0..n -> Nat] /\ at[n] <= Len(s) /\ n \in 0..n
  BY DEF LaidOut
<1> DEFINE P == {d \in Nat : d <= n => at[n - d] <= at[n]}
<1>1. 0 \in P
  BY <1>0
<1>2. \A d \in Nat : d \in P => d + 1 \in P
  <2> SUFFICES ASSUME NEW d \in Nat, d \in P, d + 1 <= n PROVE at[n - (d + 1)] <= at[n]
    OBVIOUS
  <2>1. PICK j \in 1..n : j = n - d /\ j - 1 = n - (d + 1) /\ j \in 0..n /\ j - 1 \in 0..n
    <3>1. n - d \in 1..n /\ (n - d) - 1 = n - (d + 1) /\ n - d \in 0..n /\ (n - d) - 1 \in 0..n
      OBVIOUS
    <3> QED BY <3>1, Zenon
  <2>2. at[j] = at[j - 1] + Len(lines[j]) + 2
    BY Zenon DEF LaidOut
  <2>3. PICK x \in Nat, y \in Nat, l \in Nat : x = at[j - 1] /\ y = at[j] /\ l = Len(lines[j])
    <3>1. lines[j] \in Seq(Marks)
      OBVIOUS
    <3>2. Len(lines[j]) \in Nat
      BY <3>1
    <3>3. at[j - 1] \in Nat /\ at[j] \in Nat
      BY <1>0, <2>1, Zenon
    <3> QED BY <3>2, <3>3, Zenon
  <2>4. y <= at[n]
    BY <2>1, <2>3
  <2>5. y = x + l + 2 /\ at[n] \in Nat
    BY <1>0, <2>2, <2>3
  <2>6. x <= at[n]
    BY <2>4, <2>5
  <2> QED BY <2>1, <2>3, <2>6, Zenon
<1> HIDE DEF P
<1>3. n - i \in P
  <2>1. n - i \in Nat
    OBVIOUS
  <2> QED BY <1>1, <1>2, <2>1, NatSet
<1>4. n - (n - i) = i /\ n - i <= n
  OBVIOUS
<1> QED BY <1>0, <1>3, <1>4 DEF P

LEMMA RisesBy ==
  ASSUME NEW s \in Seq(Marks), NEW lines \in Seq(Seq(Marks)), NEW n \in Nat, n = Len(lines), NEW at,
         LaidOut(s, lines, n, at), \A i \in 1..n : Neat(lines[i]), NEW i \in 0..n
  PROVE  at[i] >= 3 * i
<1>0. at \in [0..n -> Nat] /\ at[0] = 0
  BY DEF LaidOut
<1> DEFINE P == {d \in Nat : d <= n => at[d] >= 3 * d}
<1>1. 0 \in P
  BY <1>0
<1>2. \A d \in Nat : d \in P => d + 1 \in P
  <2> SUFFICES ASSUME NEW d \in Nat, d \in P, d + 1 <= n PROVE at[d + 1] >= 3 * (d + 1)
    OBVIOUS
  <2>1. d + 1 \in 1..n /\ (d + 1) - 1 = d /\ d \in 0..n
    OBVIOUS
  <2>2. at[d + 1] = at[d] + Len(lines[d + 1]) + 2
    BY <2>1, Zenon DEF LaidOut
  <2>3. lines[d + 1] \in Seq(Marks) /\ lines[d + 1] # <<>>
    BY <2>1 DEF Neat
  <2>4. PICK x \in Nat, l \in Nat : x = at[d] /\ l = Len(lines[d + 1]) /\ l > 0
    BY <1>0, <2>1, <2>3
  <2>5. x >= 3 * d
    BY <2>1, <2>4
  <2>6. at[d + 1] = x + l + 2
    BY <2>2, <2>4, Zenon
  <2>7. x + l + 2 >= 3 * (d + 1)
    BY <2>4, <2>5
  <2> QED BY <2>6, <2>7, Zenon
<1> HIDE DEF P
<1>3. i \in P
  <2>1. i \in Nat
    OBVIOUS
  <2> QED BY <1>1, <1>2, <2>1, NatSet
<1> QED BY <1>3 DEF P

LEMMA HeadJoin ==
  ASSUME NEW s \in Seq(Marks), NEW t \in Seq(Marks),
         NEW lines \in Seq(Seq(Marks)), NEW more \in Seq(Seq(Marks)),
         Headed(s, lines), Headed(t, more)
  PROVE  Headed(s \o t, lines \o more)
<1>0. PICK n \in Nat, k \in Nat, m \in Nat : n = Len(lines) /\ k = Len(more) /\ m = Len(s)
  OBVIOUS
<1>1. PICK at : LaidOut(s, lines, n, at) /\ at[n] = m
  BY <1>0, Zenon DEF Headed
<1>2. PICK bt : LaidOut(t, more, k, bt) /\ bt[k] = Len(t)
  BY <1>0, Zenon DEF Headed
<1>3. /\ at \in [0..n -> Nat] /\ at[0] = 0 /\ bt \in [0..k -> Nat] /\ bt[0] = 0
  BY <1>1, <1>2 DEF LaidOut
<1>4. PICK u \in Seq(Marks) : /\ u = s \o t /\ Len(u) = m + Len(t)
                              /\ \A q \in 1..m : u[q] = s[q]
                              /\ \A q \in 1..Len(t) : u[m + q] = t[q]
  <2>1. /\ s \o t \in Seq(Marks) /\ Len(s \o t) = Len(s) + Len(t)
        /\ \A q \in 1..Len(s) : (s \o t)[q] = s[q]
        /\ \A q \in 1..Len(t) : (s \o t)[Len(s) + q] = t[q]
    BY Joined
  <2> QED BY <1>0, <2>1, Zenon
<1>5. PICK all \in Seq(Seq(Marks)) : /\ all = lines \o more /\ Len(all) = n + k
                                     /\ \A i \in 1..n : all[i] = lines[i]
                                     /\ \A i \in 1..k : all[n + i] = more[i]
  <2>1. /\ lines \o more \in Seq(Seq(Marks)) /\ Len(lines \o more) = Len(lines) + Len(more)
        /\ \A q \in 1..Len(lines) : (lines \o more)[q] = lines[q]
        /\ \A q \in 1..Len(more) : (lines \o more)[Len(lines) + q] = more[q]
    BY Joined
  <2> QED BY <1>0, <2>1, Zenon
<1> DEFINE ct == [i \in 0..(n + k) |-> IF i <= n THEN at[i] ELSE m + bt[i - n]]
<1>6. ct \in [0..(n + k) -> Nat]
  <2> SUFFICES ASSUME NEW i \in 0..(n + k) PROVE (IF i <= n THEN at[i] ELSE m + bt[i - n]) \in Nat
    OBVIOUS
  <2>1. CASE i <= n
    <3>1. i \in 0..n
      BY <2>1
    <3> QED BY <1>3, <2>1, <3>1
  <2>2. CASE ~(i <= n)
    <3>1. i - n \in 0..k
      BY <2>2
    <3>2. bt[i - n] \in Nat
      BY <1>3, <3>1
    <3> QED BY <2>2, <3>2
  <2> QED BY <2>1, <2>2
<1>7. \A i \in 0..n : ct[i] = at[i]
  OBVIOUS
<1>8. \A i \in 0..k : ct[n + i] = m + bt[i]
  <2> TAKE i \in 0..k
  <2>1. CASE i = 0
    BY <1>1, <1>3, <2>1
  <2>2. CASE i # 0
    <3>1. n + i \in 0..(n + k) /\ ~(n + i <= n) /\ (n + i) - n = i
      BY <2>2
    <3> QED BY <3>1
  <2> QED BY <2>1, <2>2
<1> HIDE DEF ct
<1>9. ct[0] = 0 /\ ct[n + k] = Len(u)
  <2>1. 0 \in 0..n /\ k \in 0..k
    OBVIOUS
  <2>2. ct[0] = 0 /\ ct[n + k] = m + Len(t)
    BY <1>2, <1>3, <1>7, <1>8, <2>1, Zenon
  <2> QED BY <1>4, <2>2, Zenon
<1>10. ASSUME NEW i \in 1..n
       PROVE  ct[i] = ct[i - 1] + Len(all[i]) + 2 /\ LineAt(u, ct[i - 1], all[i])
  <2>1. i \in 0..n /\ i - 1 \in 0..n
    OBVIOUS
  <2>2. ct[i] = at[i] /\ ct[i - 1] = at[i - 1] /\ all[i] = lines[i]
    BY <1>5, <1>7, <2>1, Zenon
  <2>3. at[i] = at[i - 1] + Len(lines[i]) + 2 /\ LineAt(s, at[i - 1], lines[i])
    BY <1>1, Zenon DEF LaidOut
  <2>4. PICK p \in Nat, line \in Seq(Marks) : p = at[i - 1] /\ line = lines[i]
    <3>1. at[i - 1] \in Nat
      BY <1>3, <2>1, Zenon
    <3>2. lines[i] \in Seq(Marks)
      BY <1>0
    <3> QED BY <3>1, <3>2, Zenon
  <2>5. p + Len(line) + 2 <= m
    <3>1. at[i] <= at[n]
      BY <1>0, <1>1, <2>1, Rises
    <3>2. p + Len(line) + 2 = at[i]
      BY <2>3, <2>4, Zenon
    <3> QED BY <1>1, <3>1, <3>2, Zenon
  <2>6. \A q \in 1..(Len(line) + 2) : u[0 + p + q] = s[p + q]
    <3> TAKE q \in 1..(Len(line) + 2)
    <3>1. p + q \in 1..m /\ 0 + p + q = p + q
      BY <2>5
    <3> QED BY <1>4, <3>1, Zenon
  <2>7. LineAt(s, p, line)
    BY <2>3, <2>4, Zenon
  <2>8. LineAt(u, 0 + p, line)
    BY <2>6, <2>7, LineMoved
  <2>9. 0 + p = p
    OBVIOUS
  <2> QED BY <2>2, <2>3, <2>4, <2>8, <2>9, Zenon
<1>11. ASSUME NEW i \in 1..k
       PROVE  ct[n + i] = ct[n + (i - 1)] + Len(all[n + i]) + 2 /\ LineAt(u, ct[n + (i - 1)], all[n + i])
  <2>1. i \in 0..k /\ i - 1 \in 0..k
    OBVIOUS
  <2>2. ct[n + i] = m + bt[i] /\ ct[n + (i - 1)] = m + bt[i - 1] /\ all[n + i] = more[i]
    BY <1>5, <1>8, <2>1, Zenon
  <2>3. bt[i] = bt[i - 1] + Len(more[i]) + 2 /\ LineAt(t, bt[i - 1], more[i])
    BY <1>2, Zenon DEF LaidOut
  <2>4. PICK p \in Nat, line \in Seq(Marks) : p = bt[i - 1] /\ line = more[i]
    <3>1. bt[i - 1] \in Nat
      BY <1>3, <2>1, Zenon
    <3>2. more[i] \in Seq(Marks)
      BY <1>0
    <3> QED BY <3>1, <3>2, Zenon
  <2>5. p + Len(line) + 2 <= Len(t)
    <3>1. bt[i] <= bt[k]
      BY <1>0, <1>2, <2>1, Rises
    <3>2. p + Len(line) + 2 = bt[i]
      BY <2>3, <2>4, Zenon
    <3> QED BY <1>2, <3>1, <3>2, Zenon
  <2>6. \A q \in 1..(Len(line) + 2) : u[m + p + q] = t[p + q]
    <3> TAKE q \in 1..(Len(line) + 2)
    <3>1. p + q \in 1..Len(t) /\ m + p + q = m + (p + q)
      BY <2>5
    <3> QED BY <1>4, <3>1, Zenon
  <2>7. LineAt(t, p, line)
    BY <2>3, <2>4, Zenon
  <2>8. LineAt(u, m + p, line)
    BY <2>6, <2>7, LineMoved
  <2>9. m + bt[i] = (m + bt[i - 1]) + Len(more[i]) + 2
    <3>1. PICK l \in Nat : l = Len(more[i])
      BY <2>4
    <3>2. bt[i] = p + l + 2
      BY <2>3, <2>4, <3>1, Zenon
    <3>3. m + (p + l + 2) = (m + p) + l + 2
      OBVIOUS
    <3> QED BY <2>4, <3>1, <3>2, <3>3, Zenon
  <2> QED BY <2>2, <2>4, <2>8, <2>9, Zenon
<1>12. ASSUME NEW i \in 1..(n + k)
       PROVE  ct[i] = ct[i - 1] + Len(all[i]) + 2 /\ LineAt(u, ct[i - 1], all[i])
  <2>1. CASE i <= n
    <3>1. i \in 1..n
      BY <2>1
    <3> QED BY <1>10, <3>1
  <2>2. CASE ~(i <= n)
    <3>1. PICK j \in 1..k : i = n + j /\ i - 1 = n + (j - 1)
      <4>1. i - n \in 1..k /\ i = n + (i - n) /\ i - 1 = n + ((i - n) - 1)
        BY <2>2
      <4> QED BY <4>1
    <3> QED BY <1>11, <3>1, Zenon
  <2> QED BY <2>1, <2>2
<1>13. LaidOut(u, all, n + k, ct)
  <2>1. ct[n + k] <= Len(u)
    BY <1>9
  <2> QED BY <1>6, <1>9, <1>12, <2>1, Zenon DEF LaidOut
<1> QED BY <1>4, <1>5, <1>9, <1>13, Zenon DEF Headed

(* An output that begins with a head: the empty line that ends it.         *)
Leading(sent, lines, n, at, e) ==
  /\ sent \in Seq(Marks) /\ lines \in Seq(Seq(Marks)) /\ n \in Nat \ {0} /\ n = Len(lines)
  /\ \A i \in 1..n : Neat(lines[i])
  /\ LaidOut(sent, lines, n, at)
  /\ e \in Nat /\ at[n] = e + 1 /\ sent[e + 2] = "CR" /\ sent[e + 3] = "LF" /\ e + 3 <= Len(sent)

LEMMA LeadingTypes ==
  ASSUME NEW sent, NEW lines, NEW n, NEW at, NEW e, Leading(sent, lines, n, at, e)
  PROVE  /\ sent \in Seq(Marks) /\ Len(sent) \in Nat
         /\ n \in Nat /\ n \in 1..n /\ at \in [0..n -> Nat] /\ at[0] = 0
         /\ e \in Nat /\ at[n] = e + 1 /\ e + 3 <= Len(sent)
         /\ \A i \in 0..n : at[i] \in 0..(e + 1)
         /\ \A i \in 1..n : lines[i] \in Seq(Marks)
<1>1. /\ sent \in Seq(Marks) /\ lines \in Seq(Seq(Marks)) /\ n \in Nat \ {0} /\ n = Len(lines)
      /\ LaidOut(sent, lines, n, at) /\ at \in [0..n -> Nat] /\ at[0] = 0
      /\ e \in Nat /\ at[n] = e + 1 /\ e + 3 <= Len(sent)
  BY DEF Leading, LaidOut
<1>2. ASSUME NEW i \in 0..n PROVE at[i] \in 0..(e + 1)
  <2>1. at[i] <= at[n] /\ at[i] \in Nat
    BY <1>1, Rises
  <2> QED BY <1>1, <2>1
<1>3. \A i \in 1..n : lines[i] \in Seq(Marks)
  BY <1>1
<1>4. n \in 1..n /\ Len(sent) \in Nat
  BY <1>1
<1> QED BY <1>1, <1>2, <1>3, <1>4

(* Where an end of a line is.                                              *)
LEMMA LineChars ==
  ASSUME NEW sent, NEW lines, NEW n, NEW at, NEW e, Leading(sent, lines, n, at, e),
         NEW i \in 1..n
  PROVE  /\ at[i] = at[i - 1] + Len(lines[i]) + 2 /\ at[i - 1] \in Nat /\ Len(lines[i]) \in Nat \ {0}
         /\ \A q \in 1..Len(lines[i]) : sent[at[i - 1] + q] = lines[i][q]
         /\ sent[at[i - 1] + 1] # "CR"
         /\ sent[at[i] - 1] = "CR" /\ sent[at[i]] = "LF"
         /\ \A m \in (at[i - 1] + 1)..at[i] : sent[m] = "CR" => m = at[i] - 1
<1>1. lines[i] \in Seq(Marks) /\ at[i - 1] \in Nat
  <2>1. i - 1 \in 0..n
    BY LeadingTypes
  <2>2. at \in [0..n -> Nat] /\ \A j \in 1..n : lines[j] \in Seq(Marks)
    BY LeadingTypes
  <2> QED BY <2>1, <2>2
<1>2. at[i] = at[i - 1] + Len(lines[i]) + 2 /\ LineAt(sent, at[i - 1], lines[i]) /\ Neat(lines[i])
  BY Zenon DEF Leading, LaidOut
<1>3. PICK p \in Nat, line \in Seq(Marks), l \in Nat : p = at[i - 1] /\ line = lines[i] /\ l = Len(line)
  <2>1. Len(lines[i]) \in Nat
    BY <1>1
  <2> QED BY <1>1, <2>1, Zenon
<1>4. /\ \A q \in 1..l : sent[p + q] = line[q] /\ line[q] # "CR" /\ line[q] # "LF"
      /\ sent[p + l + 1] = "CR" /\ sent[p + l + 2] = "LF" /\ l # 0
  <2>1. line # <<>> /\ \A q \in 1..l : line[q] # "CR" /\ line[q] # "LF"
    BY <1>2, <1>3, Zenon DEF Neat
  <2>2. l # 0
    BY <1>3, <2>1
  <2>3. \A q \in 1..l : sent[p + q] = line[q]
    BY <1>2, <1>3, Zenon DEF LineAt
  <2>4. sent[p + l + 1] = "CR" /\ sent[p + l + 2] = "LF"
    BY <1>2, <1>3, Zenon DEF LineAt
  <2> QED BY <2>1, <2>2, <2>3, <2>4, Zenon
<1>5. at[i] = p + l + 2
  BY <1>2, <1>3, Zenon
<1>6. (p + l + 2) - 1 = p + l + 1 /\ 1 \in 1..l
  BY <1>4
<1>7. sent[at[i] - 1] = "CR" /\ sent[at[i]] = "LF"
  BY <1>4, <1>5, <1>6, Zenon
<1>8. ASSUME NEW m \in (p + 1)..at[i], sent[m] = "CR" PROVE m = at[i] - 1
  <2>1. PICK q \in 1..(l + 2) : m = p + q
    <3>1. m - p \in 1..(l + 2) /\ m = p + (m - p)
      BY <1>5
    <3> QED BY <3>1
  <2>2. q \notin 1..l
    BY <1>4, <1>8, <2>1, Zenon
  <2>3. q # l + 2
    <3>1. ASSUME q = l + 2 PROVE FALSE
      <4>1. p + (l + 2) = p + l + 2
        OBVIOUS
      <4>2. sent[m] = "LF"
        BY <1>4, <2>1, <3>1, <4>1, Zenon
      <4> QED BY <1>8, <4>2
    <3> QED BY <3>1
  <2> QED BY <1>5, <2>1, <2>2, <2>3
<1>9. sent[p + 1] # "CR"
  BY <1>4, <1>6, Zenon
<1>10. l \in Nat \ {0}
  BY <1>4
<1> QED BY <1>2, <1>3, <1>4, <1>7, <1>8, <1>9, <1>10, Zenon

LEMMA InLine ==
  ASSUME NEW sent, NEW lines, NEW n, NEW at, NEW e, Leading(sent, lines, n, at, e),
         NEW m \in 1..(e + 1)
  PROVE  \E i \in 1..n : m \in (at[i - 1] + 1)..at[i]
<1> DEFINE I == {i \in 1..n : m <= at[i]}
<1>0. /\ n \in Nat /\ n \in 1..n /\ at \in [0..n -> Nat] /\ at[0] = 0
      /\ e \in Nat /\ at[n] = e + 1
  BY LeadingTypes
<1>1. PICK i \in I : \A j \in I : i <= j
  <2>1. I \subseteq Nat /\ n \in I
    BY <1>0
  <2> HIDE DEF I
  <2> QED BY <2>1, LeastOne
<1>2. at[i - 1] + 1 <= m
  <2>1. CASE i = 1
    BY <1>0, <2>1
  <2>2. CASE i # 1
    <3>1. i \in 1..n /\ ~(i <= i - 1) /\ i - 1 \in 1..n /\ i - 1 \in 0..n
      BY <1>0, <2>2
    <3>2. i - 1 \notin I
      BY <1>1, <3>1, Zenon
    <3>3. ~(m <= at[i - 1]) /\ at[i - 1] \in Nat
      BY <1>0, <3>1, <3>2
    <3> QED BY <3>3
  <2> QED BY <2>1, <2>2
<1>3. i \in 1..n /\ i \in 0..n /\ i - 1 \in 0..n /\ m <= at[i]
  BY <1>0
<1>4. at[i] \in Nat /\ at[i - 1] \in Nat
  BY <1>0, <1>3
<1> QED BY <1>2, <1>3, <1>4

LEMMA TwiceIs ==
  LET twice == CRLF \o CRLF
  IN /\ twice \in Seq(Marks) /\ Len(twice) = 4
     /\ twice[1] = "CR" /\ twice[2] = "LF" /\ twice[3] = "CR" /\ twice[4] = "LF"
<1>1. PICK c \in Seq(Marks) : c = CRLF /\ Len(c) = 2 /\ c[1] = "CR" /\ c[2] = "LF"
  BY LineEndType
<1>2. /\ c \o c \in Seq(Marks) /\ Len(c \o c) = Len(c) + Len(c)
      /\ \A q \in 1..Len(c) : (c \o c)[q] = c[q]
      /\ \A q \in 1..Len(c) : (c \o c)[Len(c) + q] = c[q]
  BY Joined
<1>3. PICK t \in Seq(Marks) : t = c \o c
  BY <1>2, Zenon
<1>4. Len(t) = 2 + 2 /\ \A q \in 1..2 : t[q] = c[q] /\ t[2 + q] = c[q]
  BY <1>1, <1>2, <1>3, Zenon
<1>5. t[1] = "CR" /\ t[2] = "LF" /\ t[3] = "CR" /\ t[4] = "LF" /\ Len(t) = 4
  BY <1>1, <1>4
<1> QED BY <1>1, <1>3, <1>5, Zenon

LEMMA EndFound ==
  ASSUME NEW sent, NEW lines, NEW n, NEW at, NEW e, Leading(sent, lines, n, at, e)
  PROVE  Find(sent, 1, Len(sent) + 1, CRLF \o CRLF) = e /\ e \in Nat \ {0}
<1>1. PICK t \in Seq(Marks) : /\ t = CRLF \o CRLF /\ Len(t) = 4
                              /\ t[1] = "CR" /\ t[2] = "LF" /\ t[3] = "CR" /\ t[4] = "LF"
  BY TwiceIs
<1>2. /\ sent \in Seq(Marks) /\ Len(sent) \in Nat /\ n \in Nat /\ n \in 1..n /\ at \in [0..n -> Nat]
      /\ e \in Nat /\ at[n] = e + 1 /\ e + 3 <= Len(sent)
  BY LeadingTypes
<1>3. sent[e] = "CR" /\ sent[e + 1] = "LF" /\ sent[e + 2] = "CR" /\ sent[e + 3] = "LF" /\ e # 0
  <2>1. sent[at[n] - 1] = "CR" /\ sent[at[n]] = "LF" /\ at[n] = at[n - 1] + Len(lines[n]) + 2
        /\ at[n - 1] \in Nat /\ Len(lines[n]) \in Nat \ {0}
    <3>1. n \in 1..n
      BY <1>2
    <3>2. ASSUME NEW i \in 1..n
          PROVE  sent[at[i] - 1] = "CR" /\ sent[at[i]] = "LF" /\ at[i] = at[i - 1] + Len(lines[i]) + 2
                 /\ at[i - 1] \in Nat /\ Len(lines[i]) \in Nat \ {0}
      BY LineChars
    <3> QED BY <3>1, <3>2, Zenon
  <2>2. sent[e + 2] = "CR" /\ sent[e + 3] = "LF"
    BY DEF Leading
  <2>3. at[n] - 1 = e /\ e # 0
    BY <1>2, <2>1
  <2> QED BY <1>2, <2>1, <2>2, <2>3, Zenon
<1>4. Occurs(sent, e, t)
  <2>1. ASSUME NEW q \in 1..4 PROVE sent[e + q - 1] = t[q]
    <3>1. q = 1 \/ q = 2 \/ q = 3 \/ q = 4
      OBVIOUS
    <3>2. e + 1 - 1 = e /\ e + 2 - 1 = e + 1 /\ e + 3 - 1 = e + 2 /\ e + 4 - 1 = e + 3
      BY <1>2
    <3> QED BY <1>1, <1>3, <3>1, <3>2, Zenon
  <2> QED BY <1>1, <2>1 DEF Occurs
<1>5. ASSUME NEW m \in 1..(e - 1), Occurs(sent, m, t) PROVE FALSE
  <2>1. m \in Nat /\ m \in 1..(e + 1) /\ m + 1 - 1 = m /\ m + 3 - 1 = m + 2
    BY <1>2
  <2>2. sent[m] = "CR" /\ sent[m + 2] = "CR"
    <3>1. 1 \in 1..4 /\ 3 \in 1..4
      OBVIOUS
    <3>2. sent[m + 1 - 1] = t[1] /\ sent[m + 3 - 1] = t[3]
      BY <1>1, <1>5, <3>1, Zenon DEF Occurs
    <3> QED BY <1>1, <2>1, <3>2, Zenon
  <2>3. PICK i \in 1..n : m \in (at[i - 1] + 1)..at[i]
    BY <2>1, InLine
  <2>4. m = at[i] - 1
    BY <2>2, <2>3, LineChars
  <2>5. i # n
    BY <1>2, <2>4
  <2>6. i + 1 \in 1..n /\ (i + 1) - 1 = i /\ i \in 0..n
    BY <1>2, <2>5
  <2>7. sent[at[(i + 1) - 1] + 1] # "CR"
    BY <2>6, LineChars
  <2>8. m + 2 = at[i] + 1
    BY <1>2, <2>1, <2>4, <2>6
  <2> QED BY <2>2, <2>6, <2>7, <2>8, Zenon
<1>6. FirstAt(sent, 1, Len(sent) + 1, t, e)
  <2>1. e \in 1..((Len(sent) + 1) - Len(t))
    BY <1>1, <1>2, <1>3
  <2> QED BY <1>4, <1>5, <2>1 DEF FirstAt
<1>7. Stretch(sent, 1, Len(sent) + 1)
  BY <1>2 DEF Stretch
<1>8. Find(sent, 1, Len(sent) + 1, t) = e
  BY <1>2, <1>6, <1>7, FindFirst
<1> QED BY <1>1, <1>2, <1>3, <1>8

LEMMA LineEnd ==
  ASSUME NEW sent, NEW lines, NEW n, NEW at, NEW e, Leading(sent, lines, n, at, e),
         NEW i \in 1..n
  PROVE  Find(sent, at[i - 1] + 1, Len(sent) + 1, CRLF) = at[i] - 1
<1>1. PICK c \in Seq(Marks) : c = CRLF /\ Len(c) = 2 /\ c[1] = "CR" /\ c[2] = "LF"
  BY LineEndType
<1>2. /\ sent \in Seq(Marks) /\ Len(sent) \in Nat /\ n \in Nat
      /\ e \in Nat /\ e + 3 <= Len(sent) /\ at[i] \in 0..(e + 1)
  <2>1. i \in 0..n /\ n \in Nat
    BY LeadingTypes
  <2> QED BY <2>1, LeadingTypes
<1>3. /\ at[i] = at[i - 1] + Len(lines[i]) + 2 /\ at[i - 1] \in Nat /\ Len(lines[i]) \in Nat \ {0}
      /\ sent[at[i] - 1] = "CR" /\ sent[at[i]] = "LF"
      /\ \A m \in (at[i - 1] + 1)..at[i] : sent[m] = "CR" => m = at[i] - 1
  BY LineChars
<1>4. PICK p \in Nat, z \in Nat : p = at[i - 1] /\ z = at[i]
  <2>1. at[i] \in Nat
    BY <1>2
  <2> QED BY <1>3, <2>1, Zenon
<1>5. z >= p + 3 /\ z + 2 <= Len(sent)
  <2>1. PICK l \in Nat \ {0} : l = Len(lines[i])
    BY <1>3
  <2>2. z = p + l + 2
    BY <1>3, <1>4, <2>1, Zenon
  <2>3. z <= e + 1
    BY <1>2, <1>4
  <2> QED BY <1>2, <2>1, <2>2, <2>3
<1>6. Occurs(sent, z - 1, c)
  <2>1. (z - 1) + 1 - 1 = z - 1 /\ (z - 1) + 2 - 1 = z /\ 1..2 = {1, 2}
    OBVIOUS
  <2>2. sent[z - 1] = c[1] /\ sent[z] = c[2]
    BY <1>1, <1>3, <1>4, Zenon
  <2>3. \A q \in {1, 2} : sent[(z - 1) + q - 1] = c[q]
    BY <2>1, <2>2
  <2> QED BY <1>1, <2>1, <2>3, Zenon DEF Occurs
<1>7. ASSUME NEW m \in (p + 1)..((z - 1) - 1), Occurs(sent, m, c) PROVE FALSE
  <2>1. m \in (p + 1)..z /\ m # z - 1 /\ m + 1 - 1 = m /\ 1 \in 1..2
    BY <1>5
  <2>2. sent[m] = "CR"
    BY <1>1, <1>7, <2>1, Zenon DEF Occurs
  <2> QED BY <1>3, <1>4, <2>1, <2>2, Zenon
<1>8. FirstAt(sent, p + 1, Len(sent) + 1, c, z - 1)
  <2>1. z - 1 \in (p + 1)..((Len(sent) + 1) - Len(c))
    BY <1>1, <1>2, <1>5
  <2> QED BY <1>6, <1>7, <2>1 DEF FirstAt
<1>9. Stretch(sent, p + 1, Len(sent) + 1)
  BY <1>2 DEF Stretch
<1>10. Find(sent, p + 1, Len(sent) + 1, c) = z - 1
  BY <1>2, <1>8, <1>9, FindFirst
<1> QED BY <1>1, <1>4, <1>10, Zenon

(* What is read of a head: its lines, but for those of the status.         *)
Heading == Seq(Seq(Marks))
NoLine == <<>>
KeepStep == [line \in Seq(Marks) |-> [kept \in Heading |-> IF line[1] = "Status" THEN kept
                                                         ELSE Append(kept, line)]]
Kept(lines) == Fold(Heading, NoLine, lines, KeepStep)

LEMMA KeepStepType == NoLine \in Heading /\ KeepStep \in [Seq(Marks) -> [Heading -> Heading]]
<1>1. NoLine \in Heading
  BY DEF NoLine, Heading
<1>2. ASSUME NEW line \in Seq(Marks), NEW kept \in Heading
      PROVE  (IF line[1] = "Status" THEN kept ELSE Append(kept, line)) \in Heading
  BY DEF Heading
<1> QED BY <1>1, <1>2 DEF KeepStep

LEMMA NextLineRead ==
  ASSUME NEW sent, NEW lines, NEW n, NEW at, NEW e, Leading(sent, lines, n, at, e),
         NEW i \in 1..n, NEW kept \in Heading, NEW hdr, hdr = [pos |-> at[i - 1] + 1, lines |-> kept]
  PROVE  NextLine(sent, e, hdr) = [pos |-> at[i] + 1, lines |-> KeepStep[lines[i]][kept]]
<1>0. /\ sent \in Seq(Marks) /\ Len(sent) \in Nat /\ n \in Nat
      /\ e \in Nat /\ e + 3 <= Len(sent) /\ at[i] \in 0..(e + 1) /\ lines[i] \in Seq(Marks)
  <2>1. i \in 0..n /\ n \in Nat
    BY LeadingTypes
  <2> QED BY <2>1, LeadingTypes
<1>1. /\ at[i] = at[i - 1] + Len(lines[i]) + 2 /\ at[i - 1] \in Nat /\ Len(lines[i]) \in Nat \ {0}
      /\ \A q \in 1..Len(lines[i]) : sent[at[i - 1] + q] = lines[i][q]
  BY LineChars
<1>2. PICK p \in Nat, l \in Nat \ {0}, line \in Seq(Marks) : p = at[i - 1] /\ line = lines[i] /\ l = Len(line)
  <2>1. PICK line \in Seq(Marks) : line = lines[i]
    BY <1>0, Zenon
  <2> QED BY <1>1, <2>1, Zenon
<1>3. at[i] = p + l + 2 /\ p + l + 2 <= e + 1
  <2>1. at[i] = p + l + 2
    BY <1>1, <1>2, Zenon
  <2> QED BY <1>0, <2>1
<1> DEFINE eol == Find(sent, hdr.pos, Len(sent) + 1, CRLF)
           read == SubSeq(sent, hdr.pos, eol - 1)
<1>4. eol = p + l + 1
  <2>1. eol = at[i] - 1
    <3>1. Find(sent, at[i - 1] + 1, Len(sent) + 1, CRLF) = at[i] - 1
      BY LineEnd
    <3>2. hdr.pos = at[i - 1] + 1
      OBVIOUS
    <3> QED BY <3>1, <3>2, Zenon
  <2> HIDE DEF eol
  <2> QED BY <1>3, <2>1
<1>5. read = line
  <2> DEFINE t == SubSeq(sent, p + 1, p + l)
  <2>1. read = t
    <3>1. (p + l + 1) - 1 = p + l
      OBVIOUS
    <3>2. hdr.pos = p + 1
      BY <1>2
    <3> HIDE DEF eol
    <3> QED BY <1>4, <3>1, <3>2, Zenon
  <2>2. t \in Seq(Marks) /\ Len(t) = l /\ \A q \in 1..l : t[q] = sent[p + q]
    <3>1. p + l <= Len(sent)
      BY <1>0, <1>3
    <3>2. t = SubSeq(sent, p + 1, p + l)
      OBVIOUS
    <3> HIDE DEF t
    <3>3. IsCut(t, sent, p, l)
      BY <3>1, <3>2, Zenon DEF IsCut
    <3> QED BY <1>0, <3>3, Cut
  <2> HIDE DEF t
  <2>3. \A q \in 1..l : t[q] = line[q]
    BY <1>1, <1>2, <2>2, Zenon
  <2>4. t = line
    BY <1>2, <2>2, <2>3, SeqEqual
  <2> QED BY <2>1, <2>4, Zenon
<1>6. hdr.pos = p + 1 /\ hdr.lines = kept /\ ~(hdr.pos >= e)
  <2>1. hdr.pos = at[i - 1] + 1 /\ hdr.lines = kept
    OBVIOUS
  <2>2. hdr.pos = p + 1
    BY <1>2, <2>1, Zenon
  <2>3. ~(p + 1 >= e)
    BY <1>0, <1>3
  <2> QED BY <2>1, <2>2, <2>3, Zenon
<1>7. eol + Len(CRLF) = at[i] + 1
  <2>1. Len(CRLF) = 2
    BY LineEndType
  <2> HIDE DEF eol
  <2> QED BY <1>3, <1>4, <2>1
<1> HIDE DEF eol, read
<1>8. NextLine(sent, e, hdr) = [pos |-> eol + Len(CRLF),
                               lines |-> IF read[1] = "Status" THEN kept ELSE Append(kept, read)]
  BY <1>6, Zenon DEF NextLine, eol, read
<1>9. KeepStep[line][kept] = IF line[1] = "Status" THEN kept ELSE Append(kept, line)
  BY <1>2 DEF KeepStep
<1> QED BY <1>2, <1>5, <1>7, <1>8, <1>9, Zenon

LEMMA NoLineRead ==
  ASSUME NEW sent, NEW lines, NEW n, NEW at, NEW e, Leading(sent, lines, n, at, e),
         NEW hdr, hdr.pos = at[n] + 1
  PROVE  NextLine(sent, e, hdr) = hdr
<1>1. at[n] = e + 1 /\ e \in Nat
  BY LeadingTypes
<1>2. hdr.pos >= e
  BY <1>1
<1> QED BY <1>2, Zenon DEF NextLine

ReadBy(g, sent, e) ==
  /\ g = [i \in 0..e |-> g[i]]
  /\ g[0] = [pos |-> 1, lines |-> NoLine]
  /\ \A i \in 1..e : g[i] = NextLine(sent, e, g[i - 1])

LEMMA HeaderLinesBy ==
  ASSUME NEW sent, NEW e \in Nat, NEW g, ReadBy(g, sent, e)
  PROVE  HeaderLines(sent, e) = g[e].lines
<1> DEFINE Body(h) == [i \in 0..e |-> IF i = 0 THEN [pos |-> 1, lines |-> <<>>] ELSE NextLine(sent, e, h[i - 1])]
           h == CHOOSE h : h = Body(h)
<1>1. g = Body(g)
  <2>1. \A i \in 0..e : i # 0 => i \in 1..e
    OBVIOUS
  <2>2. \A i \in 0..e : g[i] = IF i = 0 THEN [pos |-> 1, lines |-> <<>>] ELSE NextLine(sent, e, g[i - 1])
    BY <2>1, Zenon DEF ReadBy, NoLine
  <2> QED BY <2>2, Zenon DEF ReadBy
<1>2. h = Body(h)
  <2> HIDE DEF Body
  <2> QED BY <1>1
<1>3. HeaderLines(sent, e) = h[e].lines
  BY Zenon DEF HeaderLines
<1> HIDE DEF h
<1>4. h[0] = [pos |-> 1, lines |-> <<>>] /\ \A i \in 1..e : h[i] = NextLine(sent, e, h[i - 1])
  BY <1>2
<1>5. Alike(g, h, e)
  BY <1>4, Zenon DEF Alike, ReadBy, NoLine
<1> QED BY <1>3, <1>5, AlikeToTheEnd, Zenon

LEMMA HeadersRead ==
  ASSUME NEW sent, NEW lines, NEW n, NEW at, NEW e, Leading(sent, lines, n, at, e)
  PROVE  HeaderLines(sent, e) = Kept(lines)
<1>0. /\ n \in Nat /\ n \in 1..n /\ at \in [0..n -> Nat] /\ at[0] = 0
      /\ e \in Nat /\ at[n] = e + 1
  BY LeadingTypes
<1>1. lines \in Seq(Seq(Marks)) /\ n = Len(lines)
  BY DEF Leading
<1>2. PICK g : Folding(g, Heading, NoLine, lines, KeepStep)
  BY <1>1, KeepStepType, FoldExists
<1>3. Kept(lines) = g[n]
  <2>1. Fold(Heading, NoLine, lines, KeepStep) = g[Len(lines)]
    BY <1>1, <1>2, FoldBy
  <2> QED BY <1>1, <2>1, Zenon DEF Kept
<1>4. g \in [0..n -> Heading] /\ g[0] = NoLine /\ \A i \in 1..n : g[i] = KeepStep[lines[i]][g[i - 1]]
  BY <1>1, <1>2, Zenon DEF Folding
<1>5. n <= e
  <2>1. at[n] >= 3 * n
    <3>1. \A i \in 1..n : Neat(lines[i])
      BY DEF Leading
    <3>2. LaidOut(sent, lines, n, at) /\ sent \in Seq(Marks)
      BY DEF Leading
    <3>3. n \in 0..n
      BY <1>0
    <3> QED BY <1>0, <1>1, <3>1, <3>2, <3>3, RisesBy
  <2> QED BY <1>0, <2>1
<1> DEFINE Point(i) == [pos |-> at[i] + 1, lines |-> g[i]]
           r == [i \in 0..e |-> IF i <= n THEN Point(i) ELSE Point(n)]
<1>6. ReadBy(r, sent, e)
  <2>1. r[0] = [pos |-> 1, lines |-> NoLine]
    <3>1. r[0] = Point(0)
      BY <1>0
    <3>2. at[0] + 1 = 1
      BY <1>0
    <3> HIDE DEF r
    <3> QED BY <1>4, <3>1, <3>2, Zenon
  <2>2. ASSUME NEW i \in 1..n PROVE NextLine(sent, e, Point(i - 1)) = Point(i)
    <3>1. i - 1 \in 0..n
      BY <1>0
    <3>2. g[i - 1] \in Heading
      BY <1>4, <3>1, Zenon
    <3>3. NextLine(sent, e, Point(i - 1)) = [pos |-> at[i] + 1, lines |-> KeepStep[lines[i]][g[i - 1]]]
      <4>1. PICK kept \in Heading : kept = g[i - 1]
        BY <3>2
      <4>2. PICK hdr : hdr = [pos |-> at[i - 1] + 1, lines |-> kept]
        OBVIOUS
      <4>3. NextLine(sent, e, hdr) = [pos |-> at[i] + 1, lines |-> KeepStep[lines[i]][kept]]
        BY <4>2, NextLineRead
      <4> QED BY <4>1, <4>2, <4>3, Zenon
    <3> QED BY <1>4, <3>3, Zenon
  <2>3. NextLine(sent, e, Point(n)) = Point(n)
    <3>1. Point(n).pos = at[n] + 1
      OBVIOUS
    <3> HIDE DEF Point
    <3>2. PICK hdr : hdr = Point(n)
      OBVIOUS
    <3>3. hdr.pos = at[n] + 1
      BY <3>1, <3>2, Zenon
    <3>4. NextLine(sent, e, hdr) = hdr
      BY <3>3, NoLineRead
    <3> QED BY <3>2, <3>4, Zenon
  <2>4. \A i \in 0..e : r[i] = IF i <= n THEN Point(i) ELSE Point(n)
    BY Zenon
  <2>5. r = [i \in 0..e |-> r[i]]
    BY Zenon
  <2> HIDE DEF r, Point
  <2>6. ASSUME NEW i \in 1..e PROVE r[i] = NextLine(sent, e, r[i - 1])
    <3>0. i \in 0..e /\ i - 1 \in 0..e
      BY <1>0
    <3>1. CASE i <= n
      <4>1. i \in 1..n /\ i - 1 <= n
        BY <1>0, <3>1
      <4> QED BY <2>2, <2>4, <3>0, <3>1, <4>1, Zenon
    <3>2. CASE ~(i <= n)
      <4>1. r[i - 1] = Point(n)
        <5>1. CASE i - 1 <= n
          <6>1. i - 1 = n
            BY <1>0, <3>2, <5>1
          <6> QED BY <2>4, <3>0, <5>1, <6>1, Zenon
        <5>2. CASE ~(i - 1 <= n)
          BY <2>4, <3>0, <5>2, Zenon
        <5> QED BY <5>1, <5>2
      <4> QED BY <2>3, <2>4, <3>0, <3>2, <4>1, Zenon
    <3> QED BY <3>1, <3>2
  <2> QED BY <2>1, <2>5, <2>6, Zenon DEF ReadBy
<1>7. r[e].lines = g[n]
  <2>1. r[e] = Point(n)
    <3>1. e \in 0..e /\ (e <= n => e = n)
      BY <1>0, <1>5
    <3>2. r[e] = IF e <= n THEN Point(e) ELSE Point(n)
      BY <3>1, Zenon
    <3> HIDE DEF r, Point
    <3> QED BY <3>1, <3>2, Zenon
  <2> HIDE DEF r
  <2> QED BY <2>1
<1> HIDE DEF r
<1>8. HeaderLines(sent, e) = r[e].lines
  BY <1>0, <1>6, HeaderLinesBy
<1> QED BY <1>3, <1>7, <1>8, Zenon

TailFrom(z, m, y, n) == n = Len(y) /\ Len(z) = m + n /\ \A q \in 1..n : z[m + q] = y[q]

LEMMA TailCut ==
  ASSUME NEW S, NEW y \in Seq(S), NEW z \in Seq(S), NEW m \in Nat, NEW n \in Nat, TailFrom(z, m, y, n)
  PROVE  SubSeq(z, m + 1, m + n) = y
<1>0. n = Len(y) /\ Len(z) = m + n /\ \A q \in 1..n : z[m + q] = y[q]
  BY DEF TailFrom
<1>1. PICK t : t = SubSeq(z, m + 1, m + n)
  OBVIOUS
<1>2. t \in Seq(S) /\ Len(t) = n /\ \A q \in 1..n : t[q] = z[m + q]
  <2>1. m + n <= Len(z)
    BY <1>0
  <2>2. IsCut(t, z, m, n)
    BY <1>1, <2>1, Zenon DEF IsCut
  <2> QED BY <2>2, Cut
<1>3. \A q \in 1..n : t[q] = y[q]
  BY <1>0, <1>2, Zenon
<1>4. t = y
  BY <1>0, <1>2, <1>3, SeqEqual
<1> QED BY <1>1, <1>4, Zenon

LEMMA TailIs ==
  ASSUME NEW S, NEW x \in Seq(S), NEW y \in Seq(S), NEW z, z = x \o y
  PROVE  SubSeq(z, Len(x) + 1, Len(z)) = y
<1>0. PICK m \in Nat, n \in Nat : m = Len(x) /\ n = Len(y)
  OBVIOUS
<1>1. z \in Seq(S) /\ Len(z) = m + n /\ \A q \in 1..n : z[m + q] = y[q]
  <2>1. /\ z \in Seq(S) /\ Len(z) = Len(x) + Len(y)
        /\ \A q \in 1..Len(y) : z[Len(x) + q] = y[q]
    <3>1. IsJoin(z, x, y)
      BY Zenon DEF IsJoin
    <3> QED BY <3>1, JoinedBy
  <2> QED BY <1>0, <2>1, Zenon
<1>2. SubSeq(z, m + 1, m + n) = y
  <2>1. TailFrom(z, m, y, n)
    BY <1>0, <1>1, Zenon DEF TailFrom
  <2> QED BY <1>1, <2>1, TailCut
<1> QED BY <1>0, <1>1, <1>2, Zenon

StatusLine(line, status) == line = <<"Status", ":", status>>

Answered(status, headers, body) == [status |-> status, headers |-> headers, body |-> body]

IsSent(sent, head, body) == sent = (head \o CRLF) \o body

LEMMA HeadSent ==
  ASSUME NEW head \in Seq(Marks), NEW body \in Seq(Marks), NEW h \in Nat, h = Len(head),
         NEW sent, IsSent(sent, head, body)
  PROVE  /\ sent \in Seq(Marks) /\ h + 2 <= Len(sent)
         /\ \A q \in 1..h : sent[q] = head[q]
         /\ sent[h + 1] = "CR" /\ sent[h + 2] = "LF"
<1>1. PICK c \in Seq(Marks) : c = CRLF /\ Len(c) = 2 /\ c[1] = "CR" /\ c[2] = "LF"
  BY LineEndType
<1>2. PICK x : x = head \o c /\ IsJoin(x, head, c)
  BY Zenon DEF IsJoin
<1>3. /\ x \in Seq(Marks) /\ Len(x) = Len(head) + Len(c)
      /\ \A q \in 1..Len(head) : x[q] = head[q]
      /\ \A q \in 1..Len(c) : x[Len(head) + q] = c[q]
  BY <1>2, JoinedBy
<1>4. IsJoin(sent, x, body)
  BY <1>1, <1>2, Zenon DEF IsSent, IsJoin
<1>5. /\ sent \in Seq(Marks) /\ Len(sent) = Len(x) + Len(body)
      /\ \A q \in 1..Len(x) : sent[q] = x[q]
  BY <1>3, <1>4, JoinedBy
<1>6. PICK b \in Nat : b = Len(body)
  OBVIOUS
<1>7. Len(x) = h + 2
  BY <1>1, <1>3, Zenon
<1>8. h + 1 \in 1..(h + 2) /\ h + 2 \in 1..(h + 2) /\ 1 \in 1..2 /\ 2 \in 1..2
      /\ \A q \in 1..h : q \in 1..(h + 2)
  OBVIOUS
<1>9. h + 2 <= Len(sent)
  BY <1>5, <1>6, <1>7
<1> QED BY <1>1, <1>3, <1>5, <1>7, <1>8, <1>9, Zenon

LEMMA LeadingBy ==
  ASSUME NEW head \in Seq(Marks), NEW lines \in Heading, NEW n \in Nat \ {0}, n = Len(lines),
         NEW at, LaidOut(head, lines, n, at), at[n] = Len(head),
         \A i \in 1..n : Neat(lines[i]),
         NEW body \in Seq(Marks), NEW sent, IsSent(sent, head, body)
  PROVE  Leading(sent, lines, n, at, Len(head) - 1) /\ Len(head) \in Nat \ {0}
<1>0. PICK h \in Nat : h = Len(head)
  OBVIOUS
<1>3. sent \in Seq(Marks) /\ Len(sent) \in Nat
  BY <1>0, HeadSent
<1>5. /\ \A q \in 1..h : sent[q] = head[q]
      /\ sent[h + 1] = "CR" /\ sent[h + 2] = "LF" /\ h + 2 <= Len(sent)
  BY <1>0, HeadSent
<1>6. at \in [0..n -> Nat] /\ at[0] = 0
  BY DEF LaidOut
<1>7. lines \in Seq(Seq(Marks))
  BY DEF Heading
<1>8. ASSUME NEW i \in 1..n PROVE at[i] = at[i - 1] + Len(lines[i]) + 2 /\ LineAt(sent, at[i - 1], lines[i])
  <2>1. i \in 0..n /\ i - 1 \in 0..n
    OBVIOUS
  <2>2. at[i] = at[i - 1] + Len(lines[i]) + 2 /\ LineAt(head, at[i - 1], lines[i])
    BY Zenon DEF LaidOut
  <2>3. PICK p \in Nat, line \in Seq(Marks) : p = at[i - 1] /\ line = lines[i]
    <3>1. at[i - 1] \in Nat
      BY <1>6, <2>1, Zenon
    <3>2. lines[i] \in Seq(Marks)
      BY <1>7
    <3> QED BY <3>1, <3>2, Zenon
  <2>4. p + Len(line) + 2 <= h
    <3>1. at[i] <= at[n]
      BY <1>7, <2>1, Rises
    <3> QED BY <1>0, <2>2, <2>3, <3>1, Zenon
  <2>5. \A q \in 1..(Len(line) + 2) : sent[0 + p + q] = head[p + q]
    <3> TAKE q \in 1..(Len(line) + 2)
    <3>1. p + q \in 1..h /\ 0 + p + q = p + q
      BY <2>4
    <3> QED BY <1>5, <3>1, Zenon
  <2>6. LineAt(head, p, line)
    BY <2>2, <2>3, Zenon
  <2>7. LineAt(sent, 0 + p, line)
    BY <2>5, <2>6, LineMoved
  <2>8. 0 + p = p
    OBVIOUS
  <2> QED BY <2>2, <2>3, <2>7, <2>8, Zenon
<1>9. LaidOut(sent, lines, n, at)
  <2>1. at[n] <= Len(sent)
    BY <1>0, <1>3, <1>5
  <2> QED BY <1>6, <1>8, <2>1, Zenon DEF LaidOut
<1>10. h # 0
  <2>1. at[n] >= 3 * n
    <3>1. n \in 0..n
      OBVIOUS
    <3> QED BY <1>7, <3>1, RisesBy
  <2> QED BY <1>0, <2>1
<1>11. PICK e \in Nat : e = Len(head) - 1 /\ e = h - 1
  <2>1. h - 1 \in Nat
    BY <1>10
  <2> QED BY <1>0, <2>1, Zenon
<1>12. h = e + 1 /\ h + 1 = e + 2 /\ h + 2 = e + 3
  BY <1>11
<1>13. Leading(sent, lines, n, at, e)
  <2>1. at[n] = e + 1 /\ sent[e + 2] = "CR" /\ sent[e + 3] = "LF" /\ e + 3 <= Len(sent)
    BY <1>0, <1>5, <1>12, Zenon
  <2> QED BY <1>3, <1>7, <1>9, <2>1, Zenon DEF Leading
<1> QED BY <1>0, <1>10, <1>11, <1>13, Zenon

LEMMA FirstLine ==
  ASSUME NEW sent, NEW lines, NEW n, NEW at, NEW e, Leading(sent, lines, n, at, e),
         NEW status, StatusLine(lines[1], status)
  PROVE  sent[1] = "Status" /\ sent[2] = ":" /\ sent[3] = status /\ e >= 4
<1>1. /\ sent \in Seq(Marks) /\ Len(sent) \in Nat /\ n \in Nat /\ n \in 1..n /\ at[0] = 0
      /\ e \in Nat /\ at[n] = e + 1 /\ e + 3 <= Len(sent)
      /\ \A i \in 0..n : at[i] \in 0..(e + 1)
  BY LeadingTypes
<1>2. PICK line : line = lines[1] /\ line = <<"Status", ":", status>>
  BY DEF StatusLine
<1>3. Len(line) = 3 /\ line[1] = "Status" /\ line[2] = ":" /\ line[3] = status
  BY <1>2
<1>4. 1 \in 1..n /\ 1 \in 0..n /\ 1 - 1 = 0
  BY <1>1
<1>5. at[1] = at[0] + Len(line) + 2 /\ \A q \in 1..Len(line) : sent[at[0] + q] = line[q]
  <2>1. at[1] = at[1 - 1] + Len(lines[1]) + 2 /\ \A q \in 1..Len(lines[1]) : sent[at[1 - 1] + q] = lines[1][q]
    <3>1. ASSUME NEW i \in 1..n
          PROVE  at[i] = at[i - 1] + Len(lines[i]) + 2
                 /\ \A q \in 1..Len(lines[i]) : sent[at[i - 1] + q] = lines[i][q]
      BY LineChars
    <3> QED BY <1>4, <3>1, Zenon
  <2> QED BY <1>2, <1>4, <2>1, Zenon
<1>6. sent[1] = "Status" /\ sent[2] = ":" /\ sent[3] = status /\ e >= 4
  <2>1. at[1] = 5 /\ 0 + 1 = 1 /\ 0 + 2 = 2 /\ 0 + 3 = 3 /\ 1 \in 1..3 /\ 2 \in 1..3 /\ 3 \in 1..3
    BY <1>1, <1>3, <1>5
  <2>2. at[1] <= e + 1
    BY <1>1, <1>4
  <2>3. \A q \in 1..3 : sent[0 + q] = line[q]
    BY <1>1, <1>3, <1>5, Zenon
  <2>4. e >= 4
    BY <1>1, <2>1, <2>2
  <2> QED BY <1>3, <2>1, <2>3, <2>4, Zenon
<1> QED BY <1>6

LEMMA AnswerIs ==
  ASSUME NEW head \in Seq(Marks), NEW lines \in Heading, Headed(head, lines), Len(lines) # 0,
         \A i \in 1..Len(lines) : Neat(lines[i]),
         NEW status, StatusLine(lines[1], status),
         NEW body \in Seq(Marks), NEW sent, IsSent(sent, head, body)
  PROVE  Answer(sent) = Answered(status, Kept(lines), body)
<1>0. PICK n \in Nat \ {0} : n = Len(lines)
  BY DEF Heading
<1>1. PICK at : LaidOut(head, lines, n, at) /\ at[n] = Len(head)
  BY <1>0, Zenon DEF Headed
<1>2. Leading(sent, lines, n, at, Len(head) - 1) /\ Len(head) \in Nat \ {0}
  <2>1. \A i \in 1..n : Neat(lines[i])
    BY <1>0
  <2> QED BY <1>0, <1>1, <2>1, LeadingBy
<1>3. PICK e \in Nat : e = Len(head) - 1
  <2>1. PICK h \in Nat \ {0} : h = Len(head)
    BY <1>2, Zenon
  <2>2. h - 1 \in Nat
    OBVIOUS
  <2> QED BY <2>1, <2>2, Zenon
<1>4. Leading(sent, lines, n, at, e)
  BY <1>2, <1>3, Zenon
<1>5. Find(sent, 1, Len(sent) + 1, CRLF \o CRLF) = e /\ e # 0
  BY <1>4, EndFound
<1>6. HeaderLines(sent, e) = Kept(lines)
  BY <1>4, HeadersRead
<1>7. SubSeq(sent, e + 4, Len(sent)) = body
  <2>1. PICK c \in Seq(Marks) : c = CRLF /\ Len(c) = 2
    BY LineEndType
  <2>2. head \o c \in Seq(Marks) /\ Len(head \o c) = Len(head) + Len(c)
    BY Joined
  <2>3. PICK x \in Seq(Marks) : x = head \o c
    BY <2>2, Zenon
  <2>4. Len(x) + 1 = e + 4
    <3>1. Len(x) = Len(head) + 2
      BY <2>1, <2>2, <2>3, Zenon
    <3> QED BY <1>2, <1>3, <3>1
  <2>5. sent = x \o body
    BY <2>1, <2>3, Zenon DEF IsSent
  <2>6. SubSeq(sent, Len(x) + 1, Len(sent)) = body
    BY <2>5, TailIs
  <2> QED BY <2>4, <2>6, Zenon
<1>8. sent \in Seq(Marks) /\ Len(sent) \in Nat /\ e + 3 <= Len(sent)
  BY <1>4, LeadingTypes
<1>13. sent[1] = "Status" /\ sent[2] = ":" /\ sent[3] = status /\ e >= 4
  BY <1>4, FirstLine
<1>14. Find(sent, 1, e, <<"Status", ":">>) = 1
  <2>1. "Status" \in Marks /\ ":" \in Marks
    BY Chars, LineEndType DEF Marks
  <2>2. PICK p \in Seq(Marks) : p = <<"Status", ":">> /\ Len(p) = 2 /\ p[1] = "Status" /\ p[2] = ":"
    <3>1. <<"Status", ":">> \in Seq(Marks) /\ Len(<<"Status", ":">>) = 2
          /\ <<"Status", ":">>[1] = "Status" /\ <<"Status", ":">>[2] = ":"
      BY <2>1, Double
    <3> QED BY <3>1, Zenon
  <2>3. Occurs(sent, 1, p)
    <3>1. 1..2 = {1, 2} /\ 1 + 1 - 1 = 1 /\ 1 + 2 - 1 = 2
      OBVIOUS
    <3>2. \A q \in 1..2 : sent[1 + q - 1] = p[q]
      BY <1>13, <2>2, <3>1, Zenon
    <3> QED BY <2>2, <3>2, Zenon DEF Occurs
  <2>4. FirstAt(sent, 1, e, p, 1)
    <3>1. 1 \in 1..(e - Len(p)) /\ 1..(1 - 1) = {}
      BY <1>13, <2>2
    <3> QED BY <2>3, <3>1 DEF FirstAt
  <2>5. Stretch(sent, 1, e)
    BY <1>8 DEF Stretch
  <2>6. Find(sent, 1, e, p) = 1
    BY <1>8, <2>4, <2>5, FindFirst
  <2> QED BY <2>2, <2>6, Zenon
<1> DEFINE end == Find(sent, 1, Len(sent) + 1, CRLF \o CRLF)
           found == Find(sent, 1, end, <<"Status", ":">>)
<1>15. end = e /\ found = 1 /\ found # 0 /\ end # 0
  BY <1>5, <1>14
<1>16. Answer(sent) = IF end = 0
                     THEN [status |-> "500", headers |-> <<<<"Content-Type", ":", "text/html">>>>,
                           body |-> <<"Malformed CGI response">>]
                     ELSE [status |-> IF found # 0 THEN sent[found + 2] ELSE "200",
                           headers |-> HeaderLines(sent, end),
                           body |-> SubSeq(sent, end + 4, Len(sent))]
  BY Zenon DEF Answer
<1> HIDE DEF end, found
<1>17. Answer(sent) = [status |-> sent[found + 2], headers |-> HeaderLines(sent, end),
                      body |-> SubSeq(sent, end + 4, Len(sent))]
  BY <1>15, <1>16, Zenon
<1>18. sent[found + 2] = status
  <2>1. found + 2 = 3
    BY <1>15
  <2> QED BY <1>13, <2>1, Zenon
<1> QED BY <1>6, <1>7, <1>15, <1>17, <1>18, Zenon DEF Answered

(* What is kept of two heads, one after the other.                         *)
LEMMA KeptOne ==
  ASSUME NEW lines \in Heading, NEW line \in Seq(Marks)
  PROVE  /\ Kept(lines) \in Heading
         /\ Kept(Append(lines, line)) = IF line[1] = "Status" THEN Kept(lines)
                                        ELSE Append(Kept(lines), line)
<1>1. lines \in Seq(Seq(Marks))
  BY DEF Heading
<1>2. /\ Kept(lines) \in Heading
      /\ Kept(Append(lines, line)) = KeepStep[line][Kept(lines)]
  BY <1>1, KeepStepType, FoldAppend DEF Kept
<1>3. \A kept \in Heading : KeepStep[line][kept] = IF line[1] = "Status" THEN kept ELSE Append(kept, line)
  BY DEF KeepStep
<1> QED BY <1>2, <1>3, Zenon

LEMMA KeptNone == ASSUME NEW lines, lines = <<>> PROVE Kept(lines) = <<>>
<1>1. Fold(Heading, NoLine, lines, KeepStep) = NoLine
  BY KeepStepType, FoldNone
<1> QED BY <1>1, Zenon DEF Kept, NoLine

LEMMA AppendedIs ==
  ASSUME NEW S, NEW s \in Seq(S), NEW c \in S, NEW n \in Nat, n = Len(s)
  PROVE  /\ Append(s, c) \in Seq(S) /\ Len(Append(s, c)) = n + 1 /\ Append(s, c)[n + 1] = c
         /\ \A i \in 1..n : Append(s, c)[i] = s[i]
OBVIOUS

LEMMA JoinNone ==
  ASSUME NEW S, NEW x \in Seq(S), NEW y, y = <<>>
  PROVE  x \o y = x
OBVIOUS

LEMMA KeptJoin ==
  ASSUME NEW lines \in Heading, NEW more \in Heading
  PROVE  Kept(lines \o more) = Kept(lines) \o Kept(more)
<1> DEFINE Q(k) == \A rest \in Heading : Len(rest) = k => Kept(lines \o rest) = Kept(lines) \o Kept(rest)
           P == {k \in Nat : Q(k)}
<1>0. lines \in Seq(Seq(Marks)) /\ Kept(lines) \in Seq(Seq(Marks))
  <2>1. <<>> \in Seq(Marks)
    OBVIOUS
  <2>2. Kept(lines) \in Heading
    BY <2>1, KeptOne
  <2> QED BY <2>2 DEF Heading
<1>1. 0 \in P
  <2> SUFFICES ASSUME NEW rest \in Heading, Len(rest) = 0
               PROVE  Kept(lines \o rest) = Kept(lines) \o Kept(rest)
    OBVIOUS
  <2>1. rest = <<>>
    BY DEF Heading
  <2>2. lines \o rest = lines
    BY <1>0, <2>1, JoinNone
  <2>3. Kept(rest) = <<>>
    BY <2>1, KeptNone
  <2>4. Kept(lines) \o Kept(rest) = Kept(lines)
    BY <1>0, <2>3, JoinNone
  <2> QED BY <2>2, <2>4, Zenon
<1>2. \A k \in Nat : k \in P => k + 1 \in P
  <2> SUFFICES ASSUME NEW k \in Nat, Q(k) PROVE Q(k + 1)
    <3> HIDE DEF Q
    <3> QED OBVIOUS
  <2> SUFFICES ASSUME NEW rest \in Heading, Len(rest) = k + 1
               PROVE  Kept(lines \o rest) = Kept(lines) \o Kept(rest)
    BY Zenon
  <2>1. PICK front \in Seq(Seq(Marks)), line \in Seq(Marks) : rest = Append(front, line) /\ Len(front) = k
    <3>1. rest \in Seq(Seq(Marks))
      BY DEF Heading
    <3>2. OneLonger(Seq(Marks), rest, k)
      BY <3>1 DEF OneLonger
    <3>3. HasLast(Seq(Marks), rest, k)
      BY <3>2, LastOff
    <3> QED BY <3>3 DEF HasLast
  <2>2. front \in Heading
    BY DEF Heading
  <2>3. Kept(lines \o front) = Kept(lines) \o Kept(front)
    BY <2>1, <2>2, Zenon
  <2> HIDE DEF P
  <2>4. lines \o rest = Append(lines \o front, line) /\ lines \o front \in Heading
    <3>1. lines \o Append(front, line) = Append(lines \o front, line) /\ lines \o front \in Seq(Seq(Marks))
      BY <1>0, JoinAppend
    <3> QED BY <2>1, <3>1, Zenon DEF Heading
  <2>5. Kept(lines \o rest) = IF line[1] = "Status" THEN Kept(lines \o front)
                              ELSE Append(Kept(lines \o front), line)
    <3>1. PICK both \in Heading : both = lines \o front
      BY <2>4, Zenon
    <3>2. Kept(Append(both, line)) = IF line[1] = "Status" THEN Kept(both) ELSE Append(Kept(both), line)
      BY KeptOne
    <3> QED BY <2>4, <3>1, <3>2, Zenon
  <2>6. /\ Kept(front) \in Heading
        /\ Kept(Append(front, line)) = IF line[1] = "Status" THEN Kept(front) ELSE Append(Kept(front), line)
    BY <2>2, KeptOne
  <2>7. Kept(lines) \o Append(Kept(front), line) = Append(Kept(lines) \o Kept(front), line)
    <3>1. PICK x \in Seq(Seq(Marks)), y \in Seq(Seq(Marks)) : x = Kept(lines) /\ y = Kept(front)
      BY <1>0, <2>6, Zenon DEF Heading
    <3>2. x \o Append(y, line) = Append(x \o y, line)
      BY JoinAppend
    <3> QED BY <3>1, <3>2, Zenon
  <2>8. CASE line[1] = "Status"
    BY <2>1, <2>3, <2>5, <2>6, <2>8, Zenon
  <2>9. CASE line[1] # "Status"
    BY <2>1, <2>3, <2>5, <2>6, <2>7, <2>9, Zenon
  <2> QED BY <2>8, <2>9
<1> HIDE DEF P, Q
<1>3. Len(more) \in P
  <2>1. Len(more) \in Nat
    BY DEF Heading
  <2> QED BY <1>1, <1>2, <2>1, NatSet
<1> QED BY <1>3, Zenon DEF P, Q

-----------------------------------------------------------------------------
(* What the calls ask for.                                                 *)
AskedOf(calls) == FlattenSeq([i \in 1..Len(calls) |-> AskedBy(calls[i])])
StatusesOf(calls) == FlattenSeq([i \in 1..Len(calls) |-> StatusOf(calls[i])])

LEMMA AskedTypes ==
  ASSUME NEW made \in Calls
  PROVE  AskedBy(made) \in Seq(Calls) /\ StatusOf(made) \in Seq(Char)
<1>1. AskedBy(made) \in Seq(Calls)
  <2>1. AskedBy(made) = <<made>> \/ AskedBy(made) = <<>>
    BY Zenon DEF AskedBy
  <2>2. <<made>> \in Seq(Calls) /\ <<>> \in Seq(Calls)
    OBVIOUS
  <2> QED BY <2>1, <2>2, Zenon
<1>2. StatusOf(made) \in Seq(Char)
  <2>1. made.call = "status" => made.status \in Char
    BY DEF Calls
  <2> QED BY <2>1 DEF StatusOf
<1> QED BY <1>1, <1>2

LEMMA AskedStep ==
  ASSUME NEW calls \in Seq(Calls), NEW made \in Calls
  PROVE  /\ AskedOf(calls) \in Seq(Calls)
         /\ AskedOf(Append(calls, made)) = AskedOf(calls) \o AskedBy(made)
         /\ StatusesOf(calls) \in Seq(Char)
         /\ StatusesOf(Append(calls, made)) = StatusesOf(calls) \o StatusOf(made)
<1> DEFINE H == [c \in Calls |-> AskedBy(c)]
           B == [c \in Calls |-> StatusOf(c)]
<1>1. H \in [Calls -> Seq(Calls)] /\ B \in [Calls -> Seq(Char)]
  BY AskedTypes
<1>2. ASSUME NEW c \in Seq(Calls) PROVE AskedOf(c) = Pieces(H, c) /\ StatusesOf(c) = Pieces(B, c)
  <2>1. /\ [i \in 1..Len(c) |-> H[c[i]]] = [i \in 1..Len(c) |-> AskedBy(c[i])]
        /\ [i \in 1..Len(c) |-> B[c[i]]] = [i \in 1..Len(c) |-> StatusOf(c[i])]
    <3>1. \A i \in 1..Len(c) : H[c[i]] = AskedBy(c[i]) /\ B[c[i]] = StatusOf(c[i])
      OBVIOUS
    <3> HIDE DEF H, B
    <3> QED BY <3>1
  <2> HIDE DEF H, B
  <2> QED BY <2>1, Zenon DEF AskedOf, StatusesOf, Pieces
<1>3. Append(calls, made) \in Seq(Calls) /\ H[made] = AskedBy(made) /\ B[made] = StatusOf(made)
  OBVIOUS
<1> HIDE DEF H, B
<1>4. ASSUME NEW F \in [Calls -> Seq(Calls)]
      PROVE  Pieces(F, calls) \in Seq(Calls) /\ Pieces(F, Append(calls, made)) = Pieces(F, calls) \o F[made]
  BY PiecesStep
<1>5. ASSUME NEW F \in [Calls -> Seq(Char)]
      PROVE  Pieces(F, calls) \in Seq(Char) /\ Pieces(F, Append(calls, made)) = Pieces(F, calls) \o F[made]
  BY PiecesStep
<1> QED BY <1>1, <1>2, <1>3, <1>4, <1>5, Zenon

(* The head asks for what the calls did.                                   *)
Matched(lines, calls) == Len(lines) = Len(calls) /\ \A i \in 1..Len(calls) : Same(lines[i], calls[i])

AsAsked(head, calls) ==
  \E rows \in Heading : /\ \A i \in 1..Len(rows) : Neat(rows[i])
                        /\ Headed(head, rows)
                        /\ Matched(Kept(rows), calls)

AddsNone(made) == HeaderOf(made) = <<>> /\ AskedBy(made) = <<>>
AddsRow(made, row) ==
  /\ Neat(row) /\ HeaderOf(made) = row \o CRLF
  /\ \/ row[1] = "Status" /\ AskedBy(made) = <<>>
     \/ row[1] # "Status" /\ AskedBy(made) = <<made>> /\ Same(row, made)

LEMMA RowAdded ==
  ASSUME NEW head \in Seq(Marks), NEW calls \in Seq(Calls), AsAsked(head, calls),
         NEW made \in Calls, NEW row \in Seq(Marks), AddsRow(made, row)
  PROVE  AsAsked(head \o HeaderOf(made), calls \o AskedBy(made))
<1>1. PICK rows \in Heading : /\ \A i \in 1..Len(rows) : Neat(rows[i])
                              /\ Headed(head, rows)
                              /\ Matched(Kept(rows), calls)
  BY Zenon DEF AsAsked
<1>2. rows \in Seq(Seq(Marks))
  BY DEF Heading
<1>3. PICK more \in Seq(Seq(Marks)) : more = Append(rows, row) /\ more = rows \o <<row>>
  <2>1. rows \o <<row>> = Append(rows, row)
    BY <1>2, AppendIs
  <2>2. Append(rows, row) \in Seq(Seq(Marks))
    BY <1>2
  <2> QED BY <2>1, <2>2, Zenon
<1>4. Headed(head \o HeaderOf(made), more)
  <2>1. PICK tail, one : tail = row \o CRLF /\ one = <<row>>
    OBVIOUS
  <2>2. tail \in Seq(Marks) /\ Headed(tail, one)
    BY <2>1, HeadOne
  <2>3. one \in Seq(Seq(Marks))
    BY <2>1
  <2>4. Headed(head \o tail, rows \o one)
    BY <1>1, <1>2, <2>2, <2>3, HeadJoin
  <2> QED BY <1>3, <2>1, <2>4, Zenon DEF AddsRow
<1>5. \A i \in 1..Len(more) : Neat(more[i])
  <2>1. Neat(row)
    BY DEF AddsRow
  <2>2. Len(more) = Len(rows) + 1 /\ more[Len(rows) + 1] = row /\ \A i \in 1..Len(rows) : more[i] = rows[i]
    BY <1>2, <1>3
  <2>3. ASSUME NEW i \in 1..Len(more) PROVE i = Len(rows) + 1 \/ i \in 1..Len(rows)
    BY <1>2, <2>2
  <2> QED BY <1>1, <2>1, <2>2, <2>3, Zenon
<1>6. Matched(Kept(more), calls \o AskedBy(made))
  <2>1. Kept(rows) \in Heading /\ Kept(more) = IF row[1] = "Status" THEN Kept(rows) ELSE Append(Kept(rows), row)
    BY <1>3, KeptOne, Zenon
  <2>2. CASE row[1] = "Status"
    <3>1. AskedBy(made) = <<>>
      BY <2>2, Zenon DEF AddsRow
    <3>2. calls \o AskedBy(made) = calls
      BY <3>1, JoinNone
    <3> QED BY <1>1, <2>1, <2>2, <3>2, Zenon
  <2>3. CASE row[1] # "Status"
    <3>1. AskedBy(made) = <<made>> /\ Same(row, made)
      BY <2>3, Zenon DEF AddsRow
    <3>2. PICK old \in Seq(Seq(Marks)) : old = Kept(rows)
      BY <2>1 DEF Heading
    <3>3. PICK all \in Seq(Calls), kept \in Seq(Seq(Marks)) :
            all = calls \o AskedBy(made) /\ all = Append(calls, made) /\ kept = Append(old, row)
      <4>1. calls \o <<made>> = Append(calls, made) /\ Append(calls, made) \in Seq(Calls)
        BY AppendIs
      <4>2. Append(old, row) \in Seq(Seq(Marks))
        OBVIOUS
      <4> QED BY <3>1, <4>1, <4>2, Zenon
    <3>4. Len(old) = Len(calls) /\ \A i \in 1..Len(calls) : Same(old[i], calls[i])
      BY <1>1, <3>2, Zenon DEF Matched
    <3>5. PICK n \in Nat : n = Len(calls) /\ n = Len(old)
      BY <3>4
    <3>6. Len(all) = n + 1 /\ Len(kept) = n + 1 /\ all[n + 1] = made /\ kept[n + 1] = row
          /\ \A i \in 1..n : all[i] = calls[i] /\ kept[i] = old[i]
      <4>1. Len(all) = n + 1 /\ all[n + 1] = made /\ \A i \in 1..n : all[i] = calls[i]
        <5>1. /\ Append(calls, made) \in Seq(Calls)
              /\ Len(Append(calls, made)) = n + 1 /\ Append(calls, made)[n + 1] = made
              /\ \A i \in 1..n : Append(calls, made)[i] = calls[i]
          <6>1. n = Len(calls)
            BY <3>5
          <6> QED BY <6>1, AppendedIs
        <5> QED BY <3>3, <5>1, Zenon
      <4>2. Len(kept) = n + 1 /\ kept[n + 1] = row /\ \A i \in 1..n : kept[i] = old[i]
        <5>1. /\ Append(old, row) \in Seq(Seq(Marks))
              /\ Len(Append(old, row)) = n + 1 /\ Append(old, row)[n + 1] = row
              /\ \A i \in 1..n : Append(old, row)[i] = old[i]
          BY <3>5, AppendedIs
        <5> QED BY <3>3, <5>1, Zenon
      <4> QED BY <4>1, <4>2
    <3>7. ASSUME NEW i \in 1..(n + 1) PROVE Same(kept[i], all[i])
      <4>1. CASE i = n + 1
        BY <3>1, <3>6, <4>1, Zenon
      <4>2. CASE i \in 1..n
        BY <3>4, <3>5, <3>6, <4>2, Zenon
      <4> QED BY <4>1, <4>2
    <3>8. Matched(kept, all)
      BY <3>6, <3>7, Zenon DEF Matched
    <3> QED BY <2>1, <2>3, <3>2, <3>3, <3>8, Zenon
  <2> QED BY <2>2, <2>3
<1>7. more \in Heading
  BY DEF Heading
<1> QED BY <1>4, <1>5, <1>6, <1>7, Zenon DEF AsAsked

LEMMA NoneAdded ==
  ASSUME NEW head \in Seq(Marks), NEW calls \in Seq(Calls), AsAsked(head, calls),
         NEW made, AddsNone(made)
  PROVE  AsAsked(head \o HeaderOf(made), calls \o AskedBy(made))
<1>1. HeaderOf(made) = <<>> /\ AskedBy(made) = <<>>
  BY DEF AddsNone
<1>2. head \o HeaderOf(made) = head
  BY <1>1, JoinNone
<1>3. calls \o AskedBy(made) = calls
  BY <1>1, JoinNone
<1> QED BY <1>2, <1>3, Zenon

(* A line of characters that do not break it.                              *)
LEMMA Unbroken ==
  /\ Inline \subseteq Marks /\ Seq(Inline) \subseteq Seq(Marks)
  /\ {":", "/", "Path", "Set-Cookie"} \subseteq Inline
  /\ Attributes[1] \in Inline /\ Attributes[2] \in Inline /\ Attributes[3] \in Inline /\ Attributes[4] \in Inline
<1>1. Inline \subseteq Marks
  BY LineEndType DEF Inline
<1>2. Seq(Inline) \subseteq Seq(Marks)
  BY <1>1
<1>3. {":", "/", "Path", "Set-Cookie"} \subseteq Inline
  BY Chars DEF Inline
<1>4. Attributes[1] \in Inline /\ Attributes[2] \in Inline /\ Attributes[3] \in Inline /\ Attributes[4] \in Inline
  <2>1. /\ Attributes[1] = "Max-Age" /\ Attributes[2] = "HttpOnly" /\ Attributes[3] = "Secure"
        /\ Attributes[4] = "SameSite"
    BY DEF Attributes
  <2> QED BY <2>1, Chars DEF Inline
<1> QED BY <1>1, <1>2, <1>3, <1>4

LEMMA UnbrokenNeat ==
  ASSUME NEW row \in Seq(Inline), row # <<>>
  PROVE  Neat(row)
<1>1. \A q \in 1..Len(row) : row[q] \in Inline
  OBVIOUS
<1> QED BY <1>1 DEF Neat, Inline

LEMMA HeldFirst ==
  ASSUME NEW S, NEW s \in Seq(S), NEW cap \in Nat \ {0}, Len(s) # 0
  PROVE  Held(s, cap) # <<>> /\ Held(s, cap)[1] = s[1]
<1> DEFINE n == IF Len(s) < cap THEN Len(s) ELSE cap
<1>1. n \in Nat \ {0} /\ n <= Len(s)
  OBVIOUS
<1>2. Held(s, cap) = SubSeq(s, 1, n)
  BY Zenon DEF Held
<1> HIDE DEF n
<1>3. PICK t : t = SubSeq(s, 1, n)
  OBVIOUS
<1>4. /\ t \in Seq(S)
      /\ Len(t) = IF 1 <= n THEN n - 1 + 1 ELSE 0
      /\ \A q \in 1..(n - 1 + 1) : t[q] = s[1 + q - 1]
  <2>1. \A q \in 1..n : s[q] \in S
    BY <1>1
  <2>2. 1 \in Int /\ n \in Int
    BY <1>1
  <2> QED BY <1>3, <2>1, <2>2, SubSeqProperties
<1>5. Len(t) # 0 /\ t[1] = s[1]
  BY <1>1, <1>4
<1>6. t # <<>>
  BY <1>5
<1> QED BY <1>2, <1>3, <1>5, <1>6, Zenon

LEMMA HeaderLine ==
  ASSUME NEW name \in Inline, NEW value \in Seq(Inline), NEW line, line = <<name, ":">> \o CString(value)
  PROVE  line \in Seq(Inline) /\ Len(line) # 0 /\ line[1] = name
<1>1. PICK x \in Seq(Inline) : x = <<name, ":">> /\ Len(x) = 2 /\ x[1] = name
  <2>1. ":" \in Inline
    BY Unbroken
  <2>2. <<name, ":">> \in Seq(Inline) /\ Len(<<name, ":">>) = 2 /\ <<name, ":">>[1] = name
    BY <2>1, Double
  <2> QED BY <2>2, Zenon
<1>2. PICK y \in Seq(Inline) : y = CString(value)
  BY CStringOf
<1>3. /\ x \o y \in Seq(Inline) /\ Len(x \o y) = Len(x) + Len(y)
      /\ \A q \in 1..Len(x) : (x \o y)[q] = x[q]
  BY Joined
<1>4. line = x \o y
  BY <1>1, <1>2, Zenon
<1>5. 1 \in 1..Len(x) /\ Len(x) + Len(y) # 0
  BY <1>1
<1> QED BY <1>1, <1>3, <1>4, <1>5, Zenon

LEMMA HeaderMade ==
  ASSUME NEW name \in Inline, NEW value \in Seq(Inline), NEW line, line = <<name, ":">> \o CString(value),
         NEW made, made = [call |-> "header", line |-> line]
  PROVE  \E row \in Seq(Marks) : AddsRow(made, row)
<1>1. line \in Seq(Inline) /\ Len(line) # 0 /\ line[1] = name
  BY HeaderLine
<1>2. PICK cap \in Nat \ {0} : cap = LineRoom - 1
  <2>1. LineRoom - 1 \in Nat \ {0}
    BY ResponseAssumption
  <2> QED BY <2>1, Zenon
<1>3. PICK row \in Seq(Inline) : row = Held(line, cap) /\ row # <<>> /\ row[1] = name
  <2>1. Held(line, cap) \in Seq(Inline)
    BY <1>1, HeldType
  <2>2. Held(line, cap) # <<>> /\ Held(line, cap)[1] = line[1]
    BY <1>1, HeldFirst
  <2> QED BY <1>1, <2>1, <2>2, Zenon
<1>4. Neat(row) /\ row \in Seq(Marks)
  BY <1>3, UnbrokenNeat, Unbroken
<1>5. made.call = "header" /\ made.line = line
  OBVIOUS
<1>6. HeaderOf(made) = row \o CRLF
  <2>1. HeaderOf(made) = Held(made.line, LineRoom - 1) \o CRLF
    BY <1>5 DEF HeaderOf
  <2> QED BY <1>2, <1>3, <1>5, <2>1, Zenon
<1>7. made.line[1] = name /\ "cookie" # "header"
  BY <1>1, <1>5, Zenon
<1>8. AskedBy(made) = IF name # "Status" THEN <<made>> ELSE <<>>
  BY <1>5, <1>7, Zenon DEF AskedBy
<1>9. Same(row, made)
  BY <1>2, <1>3, <1>5, Zenon DEF Same
<1>10. AddsRow(made, row)
  BY <1>3, <1>4, <1>6, <1>8, <1>9, Zenon DEF AddsRow
<1> QED BY <1>4, <1>10

(* The attributes of a cookie.                                             *)
Picked(c, attributes) == IF c \in attributes THEN <<c>> ELSE <<>>

Chosen(t, D, attributes) ==
  /\ t \in Seq(Inline)
  /\ IsInjective(t)
  /\ ToSet(t) = attributes \cap D

LEMMA ChosenNone == ASSUME NEW attributes, NEW t, t = <<>> PROVE Chosen(t, {}, attributes)
BY DEF Chosen, IsInjective, ToSet

LEMMA ChosenMore ==
  ASSUME NEW attributes, NEW D, NEW t, Chosen(t, D, attributes), NEW c \in Inline, c \notin D
  PROVE  Chosen(t \o Picked(c, attributes), D \cup {c}, attributes)
<1>0. t \in Seq(Inline) /\ IsInjective(t) /\ ToSet(t) = attributes \cap D
  BY DEF Chosen
<1>1. CASE c \notin attributes
  <2>1. Picked(c, attributes) = <<>>
    BY <1>1 DEF Picked
  <2>2. t \o Picked(c, attributes) = t
    BY <1>0, <2>1, JoinNone
  <2>3. attributes \cap (D \cup {c}) = attributes \cap D
    BY <1>1
  <2> QED BY <1>0, <2>2, <2>3, Zenon DEF Chosen
<1>2. CASE c \in attributes
  <2>1. Picked(c, attributes) = <<c>>
    BY <1>2 DEF Picked
  <2>2. t \o <<c>> = Append(t, c)
    BY <1>0, AppendIs
  <2>3. PICK n \in Nat : n = Len(t)
    BY <1>0
  <2>4. PICK u \in Seq(Inline) : /\ u = Append(t, c) /\ Len(u) = n + 1 /\ u[n + 1] = c
                                 /\ \A i \in 1..n : u[i] = t[i]
    <3>1. /\ Append(t, c) \in Seq(Inline) /\ Len(Append(t, c)) = n + 1 /\ Append(t, c)[n + 1] = c
          /\ \A i \in 1..n : Append(t, c)[i] = t[i]
      BY <1>0, <2>3
    <3> QED BY <3>1, Zenon
  <2>5. DOMAIN t = 1..n /\ DOMAIN u = 1..(n + 1)
    BY <1>0, <2>3, <2>4
  <2>6. \A i \in 1..n : t[i] # c /\ t[i] \in attributes \cap D
    <3> TAKE i \in 1..n
    <3>1. t[i] \in ToSet(t)
      BY <2>5, Zenon DEF ToSet
    <3> QED BY <1>0, <3>1
  <2>7. \A i \in 1..(n + 1) : i = n + 1 \/ i \in 1..n
    OBVIOUS
  <2>8. \A i, j \in 1..n : t[i] = t[j] => i = j
    BY <1>0, <2>5, Zenon DEF IsInjective
  <2>9. \A i, j \in 1..(n + 1) : u[i] = u[j] => i = j
    BY <2>4, <2>6, <2>7, <2>8, Zenon
  <2>10. IsInjective(u)
    BY <2>5, <2>9, Zenon DEF IsInjective
  <2>11. ToSet(u) = attributes \cap (D \cup {c})
    <3>1. ASSUME NEW x \in ToSet(u) PROVE x \in attributes \cap (D \cup {c})
      <4>1. PICK i \in 1..(n + 1) : x = u[i]
        BY <2>5, Zenon DEF ToSet
      <4> QED BY <1>2, <2>4, <2>6, <2>7, <4>1
    <3>2. ASSUME NEW x \in attributes \cap (D \cup {c}) PROVE x \in ToSet(u)
      <4>1. CASE x = c
        <5>1. n + 1 \in 1..(n + 1)
          OBVIOUS
        <5> QED BY <2>4, <2>5, <4>1, <5>1, Zenon DEF ToSet
      <4>2. CASE x # c
        <5>1. x \in ToSet(t)
          BY <1>0, <4>2
        <5>2. PICK i \in 1..n : x = t[i]
          BY <2>5, <5>1, Zenon DEF ToSet
        <5>3. i \in 1..(n + 1)
          OBVIOUS
        <5> QED BY <2>4, <2>5, <5>2, <5>3, Zenon DEF ToSet
      <4> QED BY <4>1, <4>2
    <3> QED BY <3>1, <3>2
  <2> QED BY <2>1, <2>2, <2>4, <2>10, <2>11, Zenon DEF Chosen
<1> QED BY <1>1, <1>2

Named(i) == Attributes[i]

LEMMA AttributesIs ==
  /\ ToSet(Attributes) = {} \cup {Named(1)} \cup {Named(2)} \cup {Named(3)} \cup {Named(4)}
  /\ Named(1) \in Inline /\ Named(2) \in Inline /\ Named(3) \in Inline /\ Named(4) \in Inline
  /\ Named(1) \notin {} /\ Named(2) \notin {} \cup {Named(1)}
  /\ Named(3) \notin {} \cup {Named(1)} \cup {Named(2)}
  /\ Named(4) \notin {} \cup {Named(1)} \cup {Named(2)} \cup {Named(3)}
<1>1. /\ Named(1) = "Max-Age" /\ Named(2) = "HttpOnly" /\ Named(3) = "Secure" /\ Named(4) = "SameSite"
      /\ DOMAIN Attributes = 1..4
  BY DEF Attributes, Named
<1>2. 1..4 = {1, 2, 3, 4}
  OBVIOUS
<1>3. ToSet(Attributes) = {Named(1), Named(2), Named(3), Named(4)}
  <2>1. ToSet(Attributes) = {Attributes[i] : i \in {1, 2, 3, 4}}
    BY <1>1, <1>2, Zenon DEF ToSet
  <2> QED BY <2>1, Zenon DEF Named
<1>4. Named(1) \in Inline /\ Named(2) \in Inline /\ Named(3) \in Inline /\ Named(4) \in Inline
  BY Unbroken, Zenon DEF Named
<1>5. /\ Named(1) \notin {} /\ Named(2) \notin {} \cup {Named(1)}
      /\ Named(3) \notin {} \cup {Named(1)} \cup {Named(2)}
      /\ Named(4) \notin {} \cup {Named(1)} \cup {Named(2)} \cup {Named(3)}
  BY <1>1
<1>6. {Named(1), Named(2), Named(3), Named(4)} = {} \cup {Named(1)} \cup {Named(2)} \cup {Named(3)} \cup {Named(4)}
  OBVIOUS
<1> QED BY <1>3, <1>4, <1>5, <1>6, Zenon

Both(x, y) == x \o y

LEMMA BothAgain ==
  ASSUME NEW S, NEW x \in Seq(S), NEW y \in Seq(S), NEW z \in Seq(S)
  PROVE  Both(Both(x, y), z) = Both(x, Both(y, z)) /\ Both(x, y) \in Seq(S)
BY DEF Both

LEMMA AllAgain ==
  ASSUME NEW S, NEW x \in Seq(S), NEW a \in Seq(S), NEW b \in Seq(S), NEW c \in Seq(S), NEW d \in Seq(S)
  PROVE  Both(Both(Both(Both(x, a), b), c), d) = Both(x, Both(Both(Both(a, b), c), d))
<1>1. Both(Both(x, a), b) = Both(x, Both(a, b))
  BY BothAgain
<1>2. PICK e \in Seq(S) : e = Both(a, b)
  BY BothAgain
<1>3. Both(Both(x, e), c) = Both(x, Both(e, c))
  BY BothAgain
<1>4. PICK f \in Seq(S) : f = Both(e, c)
  BY BothAgain
<1>5. Both(Both(x, f), d) = Both(x, Both(f, d))
  BY BothAgain
<1> QED BY <1>1, <1>2, <1>3, <1>4, <1>5, Zenon

LEMMA PickedType == ASSUME NEW c \in Inline, NEW attributes PROVE Picked(c, attributes) \in Seq(Inline)
BY DEF Picked

Paths == Inline \cup {""}
PathOf(options) == IF options.path = "" THEN "/" ELSE options.path

IsCookie(made, value, options, path, attributes) ==
  /\ made.call = "cookie" /\ made.value = value /\ made.options = options
  /\ options.path = path /\ options.attributes = attributes

LEMMA CookieMade ==
  ASSUME NEW value \in Seq(Inline), NEW path \in Paths, NEW attributes,
         NEW options, NEW made, IsCookie(made, value, options, path, attributes)
  PROVE  \E row \in Seq(Marks) : AddsRow(made, row)
<1>0. /\ made.call = "cookie" /\ made.value = value /\ made.options = options
      /\ options.path = path /\ options.attributes = attributes
  BY Zenon DEF IsCookie
<1>1. PICK p \in Inline : p = PathOf(options)
  <2>1. "/" \in Inline
    BY Unbroken
  <2>2. PathOf(options) \in Inline
    BY <1>0, <2>1, Zenon DEF PathOf, Paths
  <2> QED BY <2>2, Zenon
<1>2. PICK x \in Seq(Inline) : x = CookieStart(made) /\ Len(x) # 0 /\ x[1] = "Set-Cookie"
  <2>1. PICK a \in Seq(Inline) : a = <<"Set-Cookie", ":">> /\ Len(a) = 2 /\ a[1] = "Set-Cookie"
    <3>1. "Set-Cookie" \in Inline /\ ":" \in Inline
      BY Unbroken
    <3>2. <<"Set-Cookie", ":">> \in Seq(Inline) /\ Len(<<"Set-Cookie", ":">>) = 2
          /\ <<"Set-Cookie", ":">>[1] = "Set-Cookie"
      BY <3>1, Double
    <3> QED BY <3>2, Zenon
  <2>2. PICK b \in Seq(Inline) : b = <<"Path", p>>
    <3>1. "Path" \in Inline
      BY Unbroken
    <3>2. <<"Path", p>> \in Seq(Inline)
      BY <3>1, PairType
    <3> QED BY <3>2, Zenon
  <2>3. PICK c \in Seq(Inline) : c = CString(value)
    BY CStringOf
  <2>4. CookieStart(made) = (a \o c) \o b
    BY <1>0, <1>1, <2>1, <2>2, <2>3, Zenon DEF CookieStart, PathOf
  <2>5. /\ a \o c \in Seq(Inline) /\ Len(a \o c) = Len(a) + Len(c)
        /\ \A q \in 1..Len(a) : (a \o c)[q] = a[q]
    BY Joined
  <2>6. PICK d \in Seq(Inline) : d = a \o c
    BY <2>5, Zenon
  <2>7. /\ d \o b \in Seq(Inline) /\ Len(d \o b) = Len(d) + Len(b)
        /\ \A q \in 1..Len(d) : (d \o b)[q] = d[q]
    BY Joined
  <2>8. Len(d) = 2 + Len(c) /\ d[1] = "Set-Cookie"
    <3>1. 1 \in 1..2
      OBVIOUS
    <3> QED BY <2>1, <2>5, <2>6, <3>1, Zenon
  <2>9. 1 \in 1..Len(d) /\ Len(d) + Len(b) # 0
    BY <2>8
  <2> QED BY <2>4, <2>6, <2>7, <2>8, <2>9, Zenon
<1> DEFINE P(i) == Picked(Named(i), attributes)
<1>3. P(1) \in Seq(Inline) /\ P(2) \in Seq(Inline) /\ P(3) \in Seq(Inline) /\ P(4) \in Seq(Inline)
  BY AttributesIs, PickedType
<1>4. PICK t : /\ Chosen(t, ToSet(Attributes), attributes)
               /\ t = Both(Both(Both(P(1), P(2)), P(3)), P(4))
  <2>1. \A t, D, c : Chosen(t, D, attributes) /\ c \in Inline /\ c \notin D
                       => Chosen(Both(t, Picked(c, attributes)), D \cup {c}, attributes)
    BY ChosenMore DEF Both
  <2>2. Chosen(<<>>, {}, attributes)
    BY ChosenNone
  <2>3. Chosen(Both(<<>>, P(1)), {} \cup {Named(1)}, attributes)
    BY <2>1, <2>2, AttributesIs, Zenon
  <2>4. Both(<<>>, P(1)) = P(1)
    BY <1>3 DEF Both
  <2>5. Chosen(P(1), {} \cup {Named(1)}, attributes)
    BY <2>3, <2>4, Zenon
  <2>6. Chosen(Both(P(1), P(2)), {} \cup {Named(1)} \cup {Named(2)}, attributes)
    BY <2>1, <2>5, AttributesIs, Zenon
  <2>7. Chosen(Both(Both(P(1), P(2)), P(3)), {} \cup {Named(1)} \cup {Named(2)} \cup {Named(3)}, attributes)
    BY <2>1, <2>6, AttributesIs, Zenon
  <2>8. Chosen(Both(Both(Both(P(1), P(2)), P(3)), P(4)),
               {} \cup {Named(1)} \cup {Named(2)} \cup {Named(3)} \cup {Named(4)}, attributes)
    BY <2>1, <2>7, AttributesIs, Zenon
  <2> QED BY <2>8, AttributesIs, Zenon
<1>5. t \in Seq(Inline)
  BY <1>4 DEF Chosen
<1>6. CookieLine(value, options) = x \o t
  <2>1. CookieLine(value, options) = (((CookieStart(made) \o P(1)) \o P(2)) \o P(3)) \o P(4)
    BY <1>0, Zenon DEF CookieLine, CookieStart, Picked, Named
  <2>2. CookieLine(value, options) = Both(Both(Both(Both(x, P(1)), P(2)), P(3)), P(4))
    BY <1>2, <2>1, Zenon DEF Both
  <2> HIDE DEF P
  <2>3. Both(Both(Both(Both(x, P(1)), P(2)), P(3)), P(4)) = Both(x, Both(Both(Both(P(1), P(2)), P(3)), P(4)))
    BY <1>2, <1>3, AllAgain, SMTT(30)
  <2>7. CookieLine(value, options) = Both(x, t)
    BY <2>2, <2>3, <1>4, Zenon
  <2> QED BY <2>7, Zenon DEF Both
<1> HIDE DEF P
<1>7. PICK row \in Seq(Inline) : row = x \o t /\ row # <<>> /\ row[1] = "Set-Cookie"
  <2>1. /\ x \o t \in Seq(Inline) /\ Len(x \o t) = Len(x) + Len(t)
        /\ \A q \in 1..Len(x) : (x \o t)[q] = x[q]
    BY <1>5, Joined
  <2>2. PICK row \in Seq(Inline) : row = x \o t
    BY <2>1, Zenon
  <2>3. Len(x) \in Nat \ {0} /\ Len(t) \in Nat
    BY <1>2, <1>5
  <2>4. 1 \in 1..Len(x) /\ Len(x) + Len(t) # 0
    BY <2>3
  <2>5. row[1] = "Set-Cookie" /\ Len(row) # 0
    BY <1>2, <2>1, <2>2, <2>4, Zenon
  <2>6. row # <<>>
    BY <2>5
  <2> QED BY <2>2, <2>5, <2>6, Zenon
<1>8. HeaderOf(made) = row \o CRLF
  <2>1. HeaderOf(made) = CookieLine(made.value, made.options) \o CRLF
    BY <1>0 DEF HeaderOf
  <2> QED BY <1>0, <1>6, <1>7, <2>1, Zenon
<1>9. Neat(row) /\ row \in Seq(Marks)
  BY <1>7, UnbrokenNeat, Unbroken
<1>10. AskedBy(made) = <<made>> /\ "Set-Cookie" # "Status"
  BY <1>0 DEF AskedBy
<1>11. Same(row, made)
  <2>1. SubSeq(row, Len(x) + 1, Len(row)) = t
    BY <1>5, <1>7, TailIs
  <2>2. IsInjective(t) /\ ToSet(t) = made.options.attributes \cap ToSet(Attributes)
    BY <1>0, <1>4, Zenon DEF Chosen
  <2>3. made.call # "header"
    BY <1>0
  <2> QED BY <1>2, <1>7, <2>1, <2>2, <2>3, Zenon DEF Same
<1>12. AddsRow(made, row)
  BY <1>7, <1>8, <1>9, <1>10, <1>11, Zenon DEF AddsRow
<1> QED BY <1>9, <1>12

(* The status set last, and whether a type was set.                        *)
Statuses(calls) == <<"200">> \o StatusesOf(calls)
TypeIn(made) == made.call = "header" /\ made.line[1] \in ContentType
Typed(calls) == \E i \in 1..Len(calls) : TypeIn(calls[i])

LEMMA LastSet ==
  ASSUME NEW calls \in Seq(Calls), NEW made \in Calls
  PROVE  /\ made.call # "status" => Statuses(Append(calls, made)) = Statuses(calls)
         /\ made.call = "status" => Last(Statuses(Append(calls, made))) = made.status
<1>1. PICK old \in Seq(Char) : /\ old = StatusesOf(calls)
                              /\ StatusesOf(Append(calls, made)) = old \o StatusOf(made)
  BY AskedStep, Zenon
<1>2. PICK one \in Seq(Char) : one = <<"200">>
  <2>1. "200" \in Char
    BY Chars
  <2>2. <<"200">> \in Seq(Char)
    BY <2>1, Single
  <2> QED BY <2>2, Zenon
<1>3. CASE made.call # "status"
  <2>1. StatusOf(made) = <<>>
    BY <1>3 DEF StatusOf
  <2>2. old \o StatusOf(made) = old
    BY <2>1, JoinNone
  <2> QED BY <1>1, <1>3, <2>2, Zenon DEF Statuses
<1>4. CASE made.call = "status"
  <2>1. StatusOf(made) = <<made.status>> /\ made.status \in Char
    BY <1>4 DEF StatusOf, Calls
  <2>2. PICK st \in Seq(Char) : st = StatusOf(made) /\ Len(st) = 1 /\ st[1] = made.status
    <3>1. PICK c \in Char : c = made.status
      BY <2>1, Zenon
    <3>2. <<c>> \in Seq(Char) /\ Len(<<c>>) = 1 /\ <<c>>[1] = c
      BY Single
    <3> QED BY <2>1, <3>1, <3>2, Zenon
  <2>3. PICK x \in Seq(Char) : x = one \o old
    BY JoinType
  <2>4. one \o (old \o st) = x \o st
    BY <2>3
  <2>5. /\ x \o st \in Seq(Char) /\ Len(x \o st) = Len(x) + Len(st)
        /\ \A q \in 1..Len(st) : (x \o st)[Len(x) + q] = st[q]
    BY Joined
  <2>6. 1 \in 1..1
    OBVIOUS
  <2>7. Last(x \o st) = made.status
    BY <2>2, <2>5, <2>6, Zenon DEF Last
  <2>8. Statuses(Append(calls, made)) = x \o st
    BY <1>1, <1>2, <2>2, <2>4, Zenon DEF Statuses
  <2> QED BY <1>4, <2>7, <2>8, Zenon
<1> QED BY <1>3, <1>4

LEMMA TypedMore ==
  ASSUME NEW calls \in Seq(Calls), NEW made \in Calls
  PROVE  Typed(Append(calls, made)) <=> Typed(calls) \/ TypeIn(made)
<1>1. PICK n \in Nat : n = Len(calls)
  OBVIOUS
<1>2. PICK more \in Seq(Calls) : /\ more = Append(calls, made) /\ Len(more) = n + 1 /\ more[n + 1] = made
                                 /\ \A i \in 1..n : more[i] = calls[i]
  <2>1. /\ Append(calls, made) \in Seq(Calls)
        /\ Len(Append(calls, made)) = n + 1 /\ Append(calls, made)[n + 1] = made
        /\ \A i \in 1..n : Append(calls, made)[i] = calls[i]
    BY <1>1, AppendedIs
  <2> QED BY <2>1, Zenon
<1>3. n + 1 \in 1..(n + 1) /\ \A i \in 1..(n + 1) : i = n + 1 \/ i \in 1..n
  OBVIOUS
<1>4. \A i \in 1..n : i \in 1..(n + 1)
  OBVIOUS
<1>5. (\E i \in 1..(n + 1) : TypeIn(more[i])) <=> (\E i \in 1..n : TypeIn(calls[i])) \/ TypeIn(made)
  BY <1>2, <1>3, <1>4, Zenon
<1> QED BY <1>1, <1>2, <1>5, Zenon DEF Typed

SetLast(response, calls) == response.status = Last(Statuses(calls)) /\ response.status \in Inline

(* The response is as the calls that were made, and its head is a head.    *)
NeatInv ==
  /\ AsMade
  /\ AsAsked(text.headers, AskedOf(said))
  /\ SetLast(text, said)
  /\ text.content_type_set <=> Typed(said)

Adds(made) == AddsNone(made) \/ \E row \in Seq(Marks) : AddsRow(made, row)
Sets(made, response) ==
  /\ made.call = "status" => response.status = made.status /\ made.status \in Inline
  /\ made.call # "status" => response.status = text.status
  /\ response.content_type_set <=> text.content_type_set \/ TypeIn(made)

LEMMA NeatStep ==
  ASSUME NeatInv, AsMade', NEW made \in Calls, NEW response, Call(made, response),
         Adds(made), Sets(made, response)
  PROVE  NeatInv'
<1>1. /\ said \in Seq(Calls) /\ said' = Append(said, made) /\ text' = response
      /\ text.headers = FlattenSeq(Heads(said)) /\ text'.headers = FlattenSeq(Heads(said'))
  BY Zenon DEF NeatInv, AsMade, Call
<1>2. text.headers \in Seq(Char) /\ text'.headers = text.headers \o HeaderOf(made)
  BY <1>1, PartsStep, Zenon
<1>3. AskedOf(said) \in Seq(Calls) /\ AskedOf(said') = AskedOf(said) \o AskedBy(made)
  BY <1>1, AskedStep, Zenon
<1>4. AsAsked(text'.headers, AskedOf(said'))
  <2>1. PICK head \in Seq(Marks), calls \in Seq(Calls) : head = text.headers /\ calls = AskedOf(said)
    <3>1. text.headers \in Seq(Marks)
      BY <1>2, LineEndType
    <3> QED BY <1>3, <3>1, Zenon
  <2>2. AsAsked(head, calls)
    BY <2>1, Zenon DEF NeatInv
  <2>3. CASE AddsNone(made)
    <3>1. AsAsked(head \o HeaderOf(made), calls \o AskedBy(made))
      BY <2>2, <2>3, NoneAdded
    <3> QED BY <1>2, <1>3, <2>1, <3>1, Zenon
  <2>4. ASSUME NEW row \in Seq(Marks), AddsRow(made, row)
        PROVE  AsAsked(text'.headers, AskedOf(said'))
    <3>1. AsAsked(head \o HeaderOf(made), calls \o AskedBy(made))
      BY <2>2, <2>4, RowAdded
    <3> QED BY <1>2, <1>3, <2>1, <3>1, Zenon
  <2> QED BY <2>3, <2>4, Zenon DEF Adds
<1>5. SetLast(text', said')
  <2>1. /\ made.call # "status" => Statuses(said') = Statuses(said)
        /\ made.call = "status" => Last(Statuses(said')) = made.status
    BY <1>1, LastSet, Zenon
  <2>2. SetLast(text, said)
    BY DEF NeatInv
  <2> QED BY <1>1, <2>1, <2>2, Zenon DEF SetLast, Sets
<1>6. text'.content_type_set <=> Typed(said')
  <2>1. Typed(said') <=> Typed(said) \/ TypeIn(made)
    BY <1>1, TypedMore, Zenon
  <2> QED BY <1>1, <2>1, Zenon DEF Sets, NeatInv
<1> QED BY <1>4, <1>5, <1>6, Zenon DEF NeatInv, SetLast

LEMMA NeatFirst ==
  ASSUME PageInit
  PROVE  NeatInv
<1>1. AsMade
  BY MadeInit
<1>2. said = <<>> /\ text = Fresh
  BY DEF PageInit
<1>3. text.headers = <<>> /\ text.status = "200" /\ text.content_type_set = FALSE
  BY <1>2 DEF Fresh
<1>4. AskedOf(said) = <<>> /\ StatusesOf(said) = <<>>
  <2>1. PICK none : none = <<>>
    OBVIOUS
  <2>2. [i \in 1..Len(said) |-> AskedBy(said[i])] = <<>> /\ [i \in 1..Len(said) |-> StatusOf(said[i])] = <<>>
    BY <1>2
  <2> QED BY <2>2, FlattenNone, Zenon DEF AskedOf, StatusesOf
<1>5. AsAsked(text.headers, AskedOf(said))
  <2>1. PICK rows \in Heading : rows = <<>>
    BY KeepStepType, Zenon DEF NoLine
  <2>2. Headed(text.headers, rows)
    BY <1>3, <2>1, HeadNone
  <2>3. \A i \in 1..Len(rows) : Neat(rows[i])
    BY <2>1
  <2>4. Kept(rows) = <<>>
    BY <2>1, KeptNone
  <2>5. Matched(Kept(rows), AskedOf(said))
    BY <1>4, <2>4 DEF Matched
  <2> QED BY <2>2, <2>3, <2>5, Zenon DEF AsAsked
<1>6. SetLast(text, said)
  <2>1. "200" \in Inline
    BY Chars DEF Inline
  <2>2. PICK one \in Seq(Inline) : one = <<"200">> /\ Len(one) = 1 /\ one[1] = "200"
    <3>1. <<"200">> \in Seq(Inline) /\ Len(<<"200">>) = 1 /\ <<"200">>[1] = "200"
      BY <2>1, Single
    <3> QED BY <3>1, Zenon
  <2>3. one \o StatusesOf(said) = one
    BY <1>4, JoinNone
  <2>4. Last(Statuses(said)) = "200"
    BY <2>2, <2>3, Zenon DEF Statuses, Last
  <2> QED BY <1>3, <2>1, <2>4, Zenon DEF SetLast
<1>7. text.content_type_set <=> Typed(said)
  <2>1. 1..Len(said) = {}
    BY <1>2
  <2> QED BY <1>3, <2>1, Zenon DEF Typed
<1> QED BY <1>1, <1>5, <1>6, <1>7, Zenon DEF NeatInv

LEMMA HeaderKeeps ==
  ASSUME NEW r \in Responses, NEW header
  PROVE  /\ AppendHeader(r, header).status = r.status
         /\ AppendHeader(r, header).content_type_set = r.content_type_set
<1>1. PICK cap, headers : AppendHeader(r, header) = [r EXCEPT !.headers_cap = cap, !.headers = headers]
  BY Zenon DEF AppendHeader
<1>2. [r EXCEPT !.headers_cap = cap, !.headers = headers].status = r.status
  BY DEF Responses
<1>3. [r EXCEPT !.headers_cap = cap, !.headers = headers].content_type_set = r.content_type_set
  BY Zenon DEF Responses
<1> QED BY <1>1, <1>2, <1>3, Zenon

LEMMA BodyKeeps ==
  ASSUME NEW r \in Responses, NEW data
  PROVE  /\ AppendBody(r, data).status = r.status
         /\ AppendBody(r, data).content_type_set = r.content_type_set
<1>1. PICK cap, body : AppendBody(r, data) = [r EXCEPT !.body_cap = cap, !.body = body]
  BY Zenon DEF AppendBody
<1>2. [r EXCEPT !.body_cap = cap, !.body = body].status = r.status
  BY DEF Responses
<1>3. [r EXCEPT !.body_cap = cap, !.body = body].content_type_set = r.content_type_set
  BY Zenon DEF Responses
<1> QED BY <1>1, <1>2, <1>3, Zenon

LEMMA InlineChars == Inline \subseteq Char /\ Seq(Inline) \subseteq Seq(Char)
<1>1. Inline \subseteq Char
  BY DEF Inline
<1> QED BY <1>1

LEMMA NeatHeader ==
  ASSUME NeatInv, AsMade', NEW name \in Inline, NEW value \in Seq(Inline), CallSetHeader(name, value)
  PROVE  NeatInv'
<1> DEFINE line == <<name, ":">> \o CString(value)
           made == [call |-> "header", line |-> line]
           q == AppendHeader(text, Held(line, LineRoom - 1))
           response == [q EXCEPT !.content_type_set = @ \/ name \in ContentType]
<1>1. line \in Seq(Inline) /\ line[1] = name
  BY HeaderLine
<1>2. Call(made, response)
  BY Zenon DEF CallSetHeader, SetHeader
<1>3. Adds(made)
  <2>1. PICK l : l = line
    OBVIOUS
  <2>2. PICK m : m = [call |-> "header", line |-> l]
    OBVIOUS
  <2>3. \E row \in Seq(Marks) : AddsRow(m, row)
    BY <2>1, <2>2, HeaderMade
  <2>4. m = made
    BY <2>1, <2>2, Zenon
  <2> HIDE DEF made
  <2> QED BY <2>3, <2>4, Zenon DEF Adds
<1> HIDE DEF line
<1>4. made \in Calls /\ made.call = "header" /\ made.line = line
  BY <1>1, InlineChars DEF Calls
<1>5. PICK r \in Responses : r = text
  BY Zenon DEF NeatInv, AsMade
<1>6. q.status = r.status /\ q.content_type_set = r.content_type_set /\ q \in Responses
  <2>1. Held(line, LineRoom - 1) \in Seq(Char)
    <3>1. LineRoom - 1 \in Nat
      BY ResponseAssumption
    <3> QED BY <1>1, <3>1, InlineChars, HeldType
  <2>2. AppendHeader(r, Held(line, LineRoom - 1)) \in Responses
    BY <2>1, HeaderAdded
  <2> QED BY <1>5, <2>2, HeaderKeeps, Zenon
<1> HIDE DEF q
<1>7. PICK b \in BOOLEAN : b = (text.content_type_set \/ name \in ContentType)
  OBVIOUS
<1>8. response = [q EXCEPT !.content_type_set = b]
  BY <1>5, <1>6, <1>7, Zenon
<1>9. [q EXCEPT !.content_type_set = b].status = q.status /\ [q EXCEPT !.content_type_set = b].content_type_set = b
  BY <1>6, Zenon DEF Responses
<1>10. Sets(made, response)
  <2>1. made.call # "status"
    BY <1>4
  <2>2. TypeIn(made) <=> name \in ContentType
    BY <1>1, <1>4, Zenon DEF TypeIn
  <2> HIDE DEF made, response
  <2>3. response.status = text.status /\ response.content_type_set = b
    BY <1>5, <1>6, <1>8, <1>9, Zenon
  <2> QED BY <1>7, <2>1, <2>2, <2>3, Zenon DEF Sets
<1> HIDE DEF made, response
<1> QED BY <1>2, <1>3, <1>4, <1>10, NeatStep

LEMMA NeatStatus ==
  ASSUME NeatInv, AsMade', NEW status \in Inline, CallSetStatus(status)
  PROVE  NeatInv'
<1> DEFINE made == [call |-> "status", status |-> status]
           response == [text EXCEPT !.status = status]
<1>1. Call(made, response)
  BY DEF CallSetStatus, SetStatus
<1>2. text \in Responses
  BY DEF NeatInv, AsMade
<1>3. made \in Calls /\ made.call = "status" /\ made.status = status
  BY InlineChars DEF Calls
<1>4. HeaderOf(made) = <<>> /\ AskedBy(made) = <<>>
  BY DEF HeaderOf, AskedBy
<1>5. Adds(made)
  BY <1>4, Zenon DEF Adds, AddsNone
<1>6. response.status = status
  BY <1>2 DEF Responses
<1>7. response.content_type_set = text.content_type_set
  BY <1>2, Zenon DEF Responses
<1>8. ~ TypeIn(made)
  BY <1>3 DEF TypeIn
<1> HIDE DEF made, response
<1>9. Sets(made, response)
  BY <1>3, <1>6, <1>7, <1>8, Zenon DEF Sets
<1> QED BY <1>1, <1>3, <1>5, <1>9, NeatStep

LEMMA NeatPrint ==
  ASSUME NeatInv, AsMade', NEW str \in Seq(Char), CallPrint(str)
  PROVE  NeatInv'
<1> DEFINE data == CString(str)
           made == [call |-> "print", data |-> data]
           response == AppendBody(text, data)
<1>1. Call(made, response)
  BY DEF CallPrint, PrintText
<1>2. data \in Seq(Char)
  BY CStringOf
<1> HIDE DEF data
<1>3. made \in Calls /\ made.call = "print"
  BY <1>2 DEF Calls
<1>4. HeaderOf(made) = <<>> /\ AskedBy(made) = <<>>
  BY DEF HeaderOf, AskedBy
<1>5. Adds(made)
  BY <1>4, Zenon DEF Adds, AddsNone
<1>6. response.status = text.status /\ response.content_type_set = text.content_type_set
  <2>1. text \in Responses
    BY DEF NeatInv, AsMade
  <2> QED BY <2>1, BodyKeeps
<1>7. ~ TypeIn(made) /\ made.call # "status"
  BY <1>3 DEF TypeIn
<1> HIDE DEF made, response
<1>8. Sets(made, response)
  BY <1>6, <1>7, Zenon DEF Sets
<1> QED BY <1>1, <1>3, <1>5, <1>8, NeatStep

LEMMA NeatThrow ==
  ASSUME NeatInv, AsMade', CallThrow
  PROVE  NeatInv'
<1> DEFINE made == [call |-> "throw"]
<1>1. Call(made, text)
  BY DEF CallThrow
<1>2. made \in Calls /\ made.call = "throw"
  BY DEF Calls
<1>3. HeaderOf(made) = <<>> /\ AskedBy(made) = <<>>
  BY DEF HeaderOf, AskedBy
<1>4. Adds(made)
  BY <1>3, Zenon DEF Adds, AddsNone
<1>5. ~ TypeIn(made) /\ made.call # "status"
  BY <1>2 DEF TypeIn
<1> HIDE DEF made
<1>6. Sets(made, text)
  BY <1>5, Zenon DEF Sets
<1> QED BY <1>1, <1>2, <1>4, <1>6, NeatStep

LEMMA NeatCookie ==
  ASSUME NeatInv, AsMade', NEW value \in Seq(Inline), NEW path \in Paths, NEW attributes \in SUBSET Char,
         NEW options, options = [path |-> path, attributes |-> attributes], CallSetCookie(value, options)
  PROVE  NeatInv'
<1> DEFINE made == [call |-> "cookie", value |-> value, options |-> options]
           line == CookieLine(value, options)
           response == AppendHeader(text, line)
<1>1. Call(made, response)
  BY Zenon DEF CallSetCookie, SetCookie
<1>2. made \in Calls
  <2>1. value \in Seq(Char)
    BY InlineChars
  <2>2. path \in Char \cup {""}
    BY InlineChars, Zenon DEF Paths
  <2>3. options \in [path : Char \cup {""}, attributes : SUBSET Char]
    BY <2>2, Zenon
  <2> QED BY <2>1, <2>3, Zenon DEF Calls
<1>3. made.call = "cookie" /\ made.value = value /\ made.options = options
  BY Zenon
<1>4. options.path = path /\ options.attributes = attributes
  BY Zenon
<1> HIDE DEF made
<1>5. Adds(made)
  <2>1. IsCookie(made, value, options, path, attributes)
    BY <1>3, <1>4, Zenon DEF IsCookie
  <2>2. \E row \in Seq(Marks) : AddsRow(made, row)
    BY <2>1, CookieMade
  <2> QED BY <2>2, Zenon DEF Adds
<1>6. response.status = text.status /\ response.content_type_set = text.content_type_set
  <2>1. text \in Responses
    BY Zenon DEF NeatInv, AsMade
  <2> QED BY <2>1, HeaderKeeps, Zenon
<1>7. ~ TypeIn(made) /\ made.call # "status"
  <2>1. "cookie" # "status" /\ "cookie" # "header"
    BY Zenon
  <2> QED BY <1>3, <2>1, Zenon DEF TypeIn
<1> HIDE DEF response
<1>8. Sets(made, response)
  BY <1>6, <1>7, Zenon DEF Sets
<1> QED BY <1>1, <1>2, <1>5, <1>8, NeatStep, Zenon

LEMMA NeatEach ==
  ASSUME NeatInv, NeatNext
  PROVE  NeatInv'
<1>1. Inline \ {"NUL"} \subseteq Inline
  OBVIOUS
<1>2. Inline \subseteq Char /\ Seq(Inline) \subseteq Seq(Char)
  BY InlineChars
<1>3. AsMade
  BY DEF NeatInv
<1>4. ASSUME NEW name \in Inline \ {"NUL"}, NEW value \in Seq(Inline), CallSetHeader(name, value)
      PROVE  NeatInv'
  <2>1. PageNext
    BY <1>1, <1>2, <1>4, Zenon DEF PageNext
  <2>2. AsMade'
    BY <1>3, <2>1, MadeNext
  <2> QED BY <1>4, <2>2, NeatHeader
<1>5. ASSUME NEW status \in Inline \ {"NUL"}, CallSetStatus(status)
      PROVE  NeatInv'
  <2>1. PageNext
    BY <1>1, <1>2, <1>5, Zenon DEF PageNext
  <2>2. AsMade'
    BY <1>3, <2>1, MadeNext
  <2> QED BY <1>5, <2>2, NeatStatus
<1>6. ASSUME NEW value \in Seq(Inline), NEW path \in (Inline \ {"NUL"}) \cup {""}, NEW attributes \in SUBSET Char,
             CallSetCookie(value, [path |-> path, attributes |-> attributes])
      PROVE  NeatInv'
  <2>1. path \in Paths /\ path \in Char \cup {""}
    BY <1>1, <1>2, Zenon DEF Paths
  <2>2. PageNext
    BY <1>2, <1>6, <2>1, Zenon DEF PageNext
  <2>3. AsMade'
    BY <1>3, <2>2, MadeNext, Zenon
  <2> QED BY <1>6, <2>1, <2>3, NeatCookie, Zenon
<1>7. ASSUME NEW str \in Seq(Char), CallPrint(str)
      PROVE  NeatInv'
  <2>1. PageNext
    BY <1>7, Zenon DEF PageNext
  <2>2. AsMade'
    BY <1>3, <2>1, MadeNext
  <2> QED BY <1>7, <2>2, NeatPrint
<1>8. ASSUME CallThrow
      PROVE  NeatInv'
  <2>1. PageNext
    BY <1>8, Zenon DEF PageNext
  <2>2. AsMade'
    BY <1>3, <2>1, MadeNext
  <2> QED BY <1>8, <2>2, NeatThrow
<1> QED BY <1>4, <1>5, <1>6, <1>7, <1>8, Zenon DEF NeatNext

(* No number is written as a line end.                                     *)
Digits == \A n \in Nat : ToString(n) \notin {"CR", "LF"}

StatusRow(status) == <<"Status", ":", status>>
HtmlRow == <<"Content-Type", ":", "text/html">>
LengthRow(n) == <<"Content-Length", ":", ToString(n)>>

IsHead(head, lines) ==
  /\ head \in Seq(Marks) /\ lines \in Heading
  /\ Headed(head, lines)
  /\ \A i \in 1..Len(lines) : Neat(lines[i])

PlainLine(line) == line \in Seq(Marks) /\ Neat(line)

LEMMA Triple ==
  ASSUME NEW S, NEW a \in S, NEW b \in S, NEW c \in S, NEW line, line = <<a, b, c>>
  PROVE  line \in Seq(S) /\ Len(line) = 3 /\ line[1] = a /\ line[2] = b /\ line[3] = c
OBVIOUS

LEMMA TriplePlain ==
  ASSUME NEW a \in Marks \ {"CR", "LF"}, NEW b \in Marks \ {"CR", "LF"}, NEW c \in Marks \ {"CR", "LF"},
         NEW line, line = <<a, b, c>>
  PROVE  PlainLine(line) /\ line[1] = a
<1>1. line \in Seq(Marks \ {"CR", "LF"}) /\ Len(line) = 3 /\ line[1] = a
  BY Triple
<1>2. line \in Seq(Marks) /\ line # <<>> /\ \A q \in 1..Len(line) : line[q] # "CR" /\ line[q] # "LF"
  BY <1>1
<1> QED BY <1>1, <1>2, Zenon DEF PlainLine, Neat

LEMMA OneKept ==
  ASSUME NEW line \in Seq(Marks), NEW lines, lines = <<line>>
  PROVE  Kept(lines) = IF line[1] = "Status" THEN <<>> ELSE lines
<1>1. PICK none \in Heading : none = <<>>
  BY KeepStepType, Zenon DEF NoLine
<1>2. Append(none, line) = lines
  BY <1>1
<1>3. Kept(Append(none, line)) = IF line[1] = "Status" THEN Kept(none) ELSE Append(Kept(none), line)
  BY KeptOne
<1>4. Kept(none) = none
  BY <1>1, KeptNone
<1> QED BY <1>1, <1>2, <1>3, <1>4, Zenon

LEMMA HeadLine ==
  ASSUME NEW line, PlainLine(line), NEW lines, lines = <<line>>
  PROVE  IsHead(line \o CRLF, lines)
<1>1. line \in Seq(Marks) /\ Neat(line)
  BY DEF PlainLine
<1>2. lines \in Heading /\ Len(lines) = 1 /\ lines[1] = line
  BY <1>1 DEF Heading
<1>3. line \o CRLF \in Seq(Marks) /\ Headed(line \o CRLF, lines)
  BY <1>1, HeadOne
<1>4. \A i \in 1..1 : i = 1
  OBVIOUS
<1> QED BY <1>1, <1>2, <1>3, <1>4, Zenon DEF IsHead

LEMMA HeadThen ==
  ASSUME NEW s, NEW lines, IsHead(s, lines), NEW t, NEW more, IsHead(t, more)
  PROVE  IsHead(s \o t, lines \o more)
<1>1. /\ s \in Seq(Marks) /\ lines \in Seq(Seq(Marks)) /\ Headed(s, lines)
      /\ \A i \in 1..Len(lines) : Neat(lines[i])
      /\ t \in Seq(Marks) /\ more \in Seq(Seq(Marks)) /\ Headed(t, more)
      /\ \A i \in 1..Len(more) : Neat(more[i])
  BY Zenon DEF IsHead, Heading
<1>2. Headed(s \o t, lines \o more)
  BY <1>1, HeadJoin
<1>3. s \o t \in Seq(Marks)
  BY <1>1, JoinType
<1>4. PICK m \in Nat, n \in Nat : m = Len(lines) /\ n = Len(more)
  BY <1>1
<1>5. PICK all \in Seq(Seq(Marks)) : /\ all = lines \o more /\ Len(all) = m + n
                                     /\ \A q \in 1..m : all[q] = lines[q]
                                     /\ \A q \in 1..n : all[m + q] = more[q]
  <2>1. /\ lines \o more \in Seq(Seq(Marks)) /\ Len(lines \o more) = Len(lines) + Len(more)
        /\ \A q \in 1..Len(lines) : (lines \o more)[q] = lines[q]
        /\ \A q \in 1..Len(more) : (lines \o more)[Len(lines) + q] = more[q]
    BY <1>1, Joined
  <2> QED BY <1>4, <2>1, Zenon
<1>6. ASSUME NEW i \in 1..(m + n) PROVE Neat(all[i])
  <2>1. CASE i \in 1..m
    BY <1>1, <1>4, <1>5, <2>1, Zenon
  <2>2. CASE i \notin 1..m
    <3>1. PICK q \in 1..n : i = m + q
      <4>1. i - m \in 1..n /\ i = m + (i - m)
        BY <2>2
      <4> QED BY <4>1, Zenon
    <3> QED BY <1>1, <1>4, <1>5, <3>1, Zenon
  <2> QED BY <2>1, <2>2
<1> QED BY <1>2, <1>3, <1>5, <1>6, Zenon DEF IsHead, Heading

(* What is answered to a head that begins with a status.                   *)
StartsWith(lines, status) == Len(lines) # 0 /\ StatusLine(lines[1], status)

LEMMA AnswerHead ==
  ASSUME NEW head, NEW lines, IsHead(head, lines),
         NEW status, StartsWith(lines, status),
         NEW body \in Seq(Marks), NEW sent, IsSent(sent, head, body)
  PROVE  Answer(sent) = Answered(status, Kept(lines), body)
<1>1. head \in Seq(Marks) /\ lines \in Heading
  BY Zenon DEF IsHead
<1>2. Headed(head, lines)
  BY Zenon DEF IsHead
<1>3. \A i \in 1..Len(lines) : Neat(lines[i])
  BY Zenon DEF IsHead
<1>4. Len(lines) # 0 /\ StatusLine(lines[1], status)
  BY Zenon DEF StartsWith
<1> QED BY <1>1, <1>2, <1>3, <1>4, AnswerIs

LEMMA AnswerTo ==
  ASSUME NEW status \in Marks \ {"CR", "LF"}, NEW rest, NEW more, IsHead(rest, more),
         NEW body \in Seq(Marks), NEW sent,
         sent = (((StatusRow(status) \o CRLF) \o rest) \o CRLF) \o body
  PROVE  Answer(sent) = Answered(status, Kept(more), body)
<1>1. PICK line : line = StatusRow(status) /\ PlainLine(line) /\ line[1] = "Status"
  <2>1. "Status" \in Marks \ {"CR", "LF"} /\ ":" \in Marks \ {"CR", "LF"}
    BY Chars, LineEndType DEF Marks
  <2>2. PICK line : line = <<"Status", ":", status>>
    BY Zenon
  <2>3. PlainLine(line) /\ line[1] = "Status"
    BY <2>1, <2>2, TriplePlain
  <2> QED BY <2>2, <2>3, Zenon DEF StatusRow
<1>2. PICK one \in Seq(Seq(Marks)) : one = <<line>> /\ Len(one) = 1 /\ one[1] = line
  <2>1. line \in Seq(Marks)
    BY <1>1 DEF PlainLine
  <2> HIDE DEF PlainLine
  <2>2. <<line>> \in Seq(Seq(Marks)) /\ Len(<<line>>) = 1 /\ <<line>>[1] = line
    BY <2>1, Single
  <2> QED BY <2>2, Zenon
<1>3. IsHead(line \o CRLF, one)
  BY <1>1, <1>2, HeadLine
<1>4. Kept(one) = <<>>
  <2>1. line \in Seq(Marks)
    BY <1>1 DEF PlainLine
  <2>2. Kept(one) = IF line[1] = "Status" THEN <<>> ELSE one
    BY <1>2, <2>1, OneKept
  <2> QED BY <1>1, <2>2, Zenon
<1>5. PICK head, lines : head = (line \o CRLF) \o rest /\ lines = one \o more
  OBVIOUS
<1>6. IsHead(head, lines) /\ Kept(lines) = Kept(one) \o Kept(more)
  <2>1. /\ IsHead((line \o CRLF) \o rest, one \o more)
        /\ Kept(one \o more) = Kept(one) \o Kept(more)
    <3>1. PICK s : s = line \o CRLF
      OBVIOUS
    <3>2. IsHead(s, one)
      BY <1>3, <3>1, Zenon
    <3>3. IsHead(s \o rest, one \o more)
      BY <3>2, HeadThen, Zenon
    <3>4. one \in Heading /\ more \in Heading
      BY Zenon DEF Heading, IsHead
    <3>5. Kept(one \o more) = Kept(one) \o Kept(more)
      BY <3>4, KeptJoin, Zenon
    <3> QED BY <3>1, <3>3, <3>5, Zenon
  <2> QED BY <1>5, <2>1, Zenon
<1>7. Kept(one) \o Kept(more) = Kept(more)
  <2>1. Kept(more) \in Seq(Seq(Marks))
    <3>1. more \in Heading /\ <<>> \in Seq(Marks)
      BY DEF IsHead
    <3>2. Kept(more) \in Heading
      BY <3>1, KeptOne
    <3> QED BY <3>2, Zenon DEF Heading
  <2> QED BY <1>4, <2>1
<1>8. lines[1] = line /\ Len(lines) # 0
  <2>1. more \in Seq(Seq(Marks))
    BY Zenon DEF IsHead, Heading
  <2>2. /\ Len(one \o more) = Len(one) + Len(more)
        /\ \A q \in 1..Len(one) : (one \o more)[q] = one[q]
    BY <2>1, Joined
  <2>3. Len(more) \in Nat /\ 1 + Len(more) # 0 /\ 1 \in 1..1
    BY <2>1
  <2> QED BY <1>2, <1>5, <2>2, <2>3, Zenon
<1>9. StartsWith(lines, status)
  BY <1>1, <1>8, Zenon DEF StartsWith, StatusLine, StatusRow
<1>10. IsSent(sent, head, body)
  BY <1>1, <1>5, Zenon DEF IsSent
<1>11. Answer(sent) = Answered(status, Kept(lines), body)
  <2>1. IsHead(head, lines) /\ body \in Seq(Marks)
    BY <1>6
  <2>2. \A x : IsSent(x, head, body) => Answer(x) = Answered(status, Kept(lines), body)
    BY ONLY <1>9, <2>1, AnswerHead, Zenon
  <2> QED BY <1>10, <2>2, Zenon
<1> QED BY <1>6, <1>7, <1>11, Zenon

(* The lines that a script does not have to ask for.                       *)
First(typed, n) == IF typed THEN <<LengthRow(n)>> ELSE <<HtmlRow, LengthRow(n)>>
HtmlLine(typed) == IF typed THEN <<>> ELSE HtmlRow \o CRLF

LEMMA HtmlPlain == PlainLine(HtmlRow) /\ HtmlRow[1] # "Status"
<1>1. "Content-Type" \in Marks \ {"CR", "LF"} /\ ":" \in Marks \ {"CR", "LF"} /\ "text/html" \in Marks \ {"CR", "LF"}
  BY Chars, LineEndType DEF Marks
<1>2. PICK line : line = <<"Content-Type", ":", "text/html">>
  BY Zenon
<1>3. PlainLine(line) /\ line[1] = "Content-Type"
  BY <1>1, <1>2, TriplePlain
<1>4. "Content-Type" # "Status"
  OBVIOUS
<1> QED BY <1>2, <1>3, <1>4, Zenon DEF HtmlRow

LEMMA LengthPlain ==
  ASSUME Digits, NEW n \in Nat
  PROVE  PlainLine(LengthRow(n)) /\ LengthRow(n)[1] # "Status"
<1>1. "Content-Length" \in Marks \ {"CR", "LF"} /\ ":" \in Marks \ {"CR", "LF"}
  BY Chars, LineEndType DEF Marks
<1>2. PICK number : number = ToString(n)
  OBVIOUS
<1>3. number \in Marks \ {"CR", "LF"}
  <2>1. number \in {ToString(m) : m \in Nat}
    BY <1>2, Zenon
  <2>2. number \in Marks
    BY <2>1, Zenon DEF Marks
  <2>3. number \notin {"CR", "LF"}
    BY <1>2, Zenon DEF Digits
  <2> QED BY <2>2, <2>3, Zenon
<1>4. PICK line : line = <<"Content-Length", ":", number>>
  BY Zenon
<1>5. PlainLine(line) /\ line[1] = "Content-Length"
  BY <1>1, <1>3, <1>4, TriplePlain
<1>6. "Content-Length" # "Status"
  OBVIOUS
<1> QED BY <1>2, <1>4, <1>5, <1>6, Zenon DEF LengthRow

LEMMA PairOf ==
  ASSUME NEW S, NEW c \in S, NEW d \in S
  PROVE  <<c>> \o <<d>> = <<c, d>>
<1>1. PICK one \in Seq(S) : one = <<c>> /\ Len(one) = 1 /\ one[1] = c
  <2>1. <<c>> \in Seq(S) /\ Len(<<c>>) = 1 /\ <<c>>[1] = c
    BY Single
  <2> QED BY <2>1, Zenon
<1>2. PICK two \in Seq(S) : two = <<c, d>> /\ Len(two) = 2 /\ two[1] = c /\ two[2] = d
  <2>1. <<c, d>> \in Seq(S) /\ Len(<<c, d>>) = 2 /\ <<c, d>>[1] = c /\ <<c, d>>[2] = d
    BY Double
  <2> QED BY <2>1, Zenon
<1>3. one \o <<d>> = Append(one, d)
  BY AppendIs
<1>4. /\ Append(one, d) \in Seq(S) /\ Len(Append(one, d)) = 1 + 1 /\ Append(one, d)[1 + 1] = d
      /\ \A i \in 1..1 : Append(one, d)[i] = one[i]
  BY <1>1, AppendedIs
<1>5. PICK more \in Seq(S) : more = Append(one, d) /\ Len(more) = 2 /\ more[2] = d /\ more[1] = c
  <2>1. 1 + 1 = 2 /\ 1 \in 1..1
    OBVIOUS
  <2> QED BY <1>1, <1>4, <2>1, Zenon
<1>6. \A q \in 1..2 : more[q] = two[q]
  <2>1. \A q \in 1..2 : q = 1 \/ q = 2
    OBVIOUS
  <2> QED BY <1>2, <1>5, <2>1, Zenon
<1>7. more = two
  BY <1>2, <1>5, <1>6, SeqEqual
<1> QED BY <1>1, <1>2, <1>3, <1>5, <1>7, Zenon

LEMMA NoneJoin ==
  ASSUME NEW S, NEW x \in Seq(S), NEW none, none = <<>>
  PROVE  none \o x = x
OBVIOUS

LEMMA FirstHead ==
  ASSUME Digits, NEW n \in Nat, NEW typed \in BOOLEAN
  PROVE  /\ IsHead((HtmlLine(typed) \o LengthRow(n)) \o CRLF, First(typed, n))
         /\ Kept(First(typed, n)) = First(typed, n)
         /\ First(typed, n) \in Heading
<1>1. PICK l \in Seq(Marks) : l = LengthRow(n) /\ PlainLine(l) /\ l[1] # "Status"
  BY LengthPlain, Zenon DEF PlainLine
<1>2. PICK h \in Seq(Marks) : h = HtmlRow /\ PlainLine(h) /\ h[1] # "Status"
  BY HtmlPlain, Zenon DEF PlainLine
<1>3. PICK a, b : a = <<l>> /\ b = <<h>>
  OBVIOUS
<1>4. IsHead(l \o CRLF, a) /\ IsHead(h \o CRLF, b)
  BY <1>1, <1>2, <1>3, HeadLine
<1>5. Kept(a) = a /\ Kept(b) = b
  <2>1. Kept(a) = IF l[1] = "Status" THEN <<>> ELSE a
    BY <1>3, OneKept
  <2>2. Kept(b) = IF h[1] = "Status" THEN <<>> ELSE b
    BY <1>3, OneKept
  <2> QED BY <1>1, <1>2, <2>1, <2>2, Zenon
<1>6. a \in Heading /\ b \in Heading
  BY <1>4, Zenon DEF IsHead
<1>7. PICK c \in Seq(Marks) : c = CRLF
  BY LineEndType, Zenon
<1>8. CASE typed
  <2>1. First(typed, n) = a
    BY <1>1, <1>3, <1>8, Zenon DEF First
  <2>2. HtmlLine(typed) = <<>>
    BY <1>8, Zenon DEF HtmlLine
  <2>3. HtmlLine(typed) \o l = l
    BY <2>2, NoneJoin
  <2> QED BY <1>1, <1>4, <1>5, <1>6, <2>1, <2>3, Zenon
<1>9. CASE ~ typed
  <2>1. b \o a = <<h, l>>
    <3>1. <<h>> \o <<l>> = <<h, l>>
      BY PairOf
    <3> QED BY <1>3, <3>1, Zenon
  <2>2. First(typed, n) = b \o a
    BY <1>1, <1>2, <1>9, <2>1, Zenon DEF First
  <2>3. HtmlLine(typed) = h \o c
    BY <1>2, <1>7, <1>9, Zenon DEF HtmlLine
  <2>4. ((h \o c) \o l) \o c = (h \o c) \o (l \o c)
    <3>1. PICK x \in Seq(Marks) : x = h \o c
      BY JoinType
    <3>2. (x \o l) \o c = x \o (l \o c)
      BY JoinAgain, SMTT(30)
    <3> QED BY <3>1, <3>2, Zenon
  <2>5. PICK s, t : s = h \o c /\ t = l \o c
    OBVIOUS
  <2>6. IsHead(s, b) /\ IsHead(t, a)
    BY <1>4, <1>7, <2>5, Zenon
  <2>7. IsHead(s \o t, b \o a)
    BY <2>6, HeadThen, Zenon
  <2>8. Kept(b \o a) = Kept(b) \o Kept(a)
    BY <1>6, KeptJoin, Zenon
  <2>9. IsHead((HtmlLine(typed) \o LengthRow(n)) \o CRLF, First(typed, n))
    BY <1>1, <1>7, <2>2, <2>3, <2>4, <2>5, <2>7, Zenon
  <2>10. First(typed, n) \in Heading
    BY <2>9, Zenon DEF IsHead
  <2> QED BY <1>5, <2>2, <2>8, <2>9, <2>10, Zenon
<1> QED BY <1>8, <1>9

LEMMA KeptType ==
  ASSUME NEW headers, NEW rows, IsHead(headers, rows)
  PROVE  Kept(rows) \in Heading
<1>1. rows \in Heading
  BY Zenon DEF IsHead
<1>2. <<>> \in Seq(Marks)
  OBVIOUS
<1> QED BY <1>1, <1>2, KeptOne

SentOut(status, typed, n, headers, body) ==
  ((((((StatusRow(status) \o CRLF) \o HtmlLine(typed)) \o LengthRow(n)) \o CRLF) \o headers) \o CRLF) \o body

(* What a client gets of the response to a script that ends.               *)
LEMMA EndedAnswer ==
  ASSUME Digits, NEW status \in Inline, NEW typed \in BOOLEAN, NEW headers, NEW rows, IsHead(headers, rows),
         NEW body \in Seq(Char), NEW n \in Nat
  PROVE  Answer(SentOut(status, typed, n, headers, body)) = Answered(status, First(typed, n) \o Kept(rows), body)
<1>0. PICK sent : sent = SentOut(status, typed, n, headers, body)
  OBVIOUS
<1>1. PICK front, first : /\ front = (HtmlLine(typed) \o LengthRow(n)) \o CRLF
                          /\ first = First(typed, n)
  OBVIOUS
<1>2. IsHead(front, first) /\ Kept(first) = first /\ first \in Heading
  BY <1>1, FirstHead, Zenon
<1>3. IsHead(front \o headers, first \o rows)
  BY <1>2, HeadThen, Zenon
<1>4. rows \in Heading
  BY Zenon DEF IsHead
<1>5. Kept(first \o rows) = first \o Kept(rows)
  <2>1. Kept(first \o rows) = Kept(first) \o Kept(rows)
    BY <1>2, <1>4, KeptJoin, Zenon
  <2> QED BY <1>2, <2>1, Zenon
<1>7. sent = (((StatusRow(status) \o CRLF) \o (front \o headers)) \o CRLF) \o body
  <2>1. PICK c \in Seq(Marks) : c = CRLF
    BY LineEndType, Zenon
  <2>2. StatusRow(status) \in Seq(Marks)
    <3>1. "Status" \in Marks /\ ":" \in Marks /\ status \in Marks
      BY Chars, LineEndType, InlineChars DEF Marks
    <3>2. <<"Status", ":", status>> \in Seq(Marks)
      BY <3>1, Triple
    <3> QED BY <3>2, Zenon DEF StatusRow
  <2>3. PICK x \in Seq(Marks) : x = StatusRow(status) \o c
    BY <2>2, JoinType
  <2>4. PICK a \in Seq(Marks) : a = HtmlLine(typed)
    <3>1. HtmlRow \o c \in Seq(Marks)
      <4>1. HtmlRow \in Seq(Marks)
        BY HtmlPlain, Zenon DEF PlainLine
      <4> QED BY <4>1, JoinType
    <3>2. <<>> \in Seq(Marks)
      OBVIOUS
    <3>3. HtmlLine(typed) = <<>> \/ HtmlLine(typed) = HtmlRow \o c
      BY <2>1, Zenon DEF HtmlLine
    <3> QED BY <3>1, <3>2, <3>3, Zenon
  <2>5. PICK b \in Seq(Marks) : b = LengthRow(n)
    BY LengthPlain, Zenon DEF PlainLine
  <2>6. PICK d \in Seq(Marks) : d = headers
    BY Zenon DEF IsHead
  <2>7. Both(Both(Both(Both(x, a), b), c), d) = Both(x, Both(Both(Both(a, b), c), d))
    BY AllAgain
  <2>8. (((x \o a) \o b) \o c) \o d = x \o (front \o headers)
    BY <1>1, <2>1, <2>4, <2>5, <2>6, <2>7, Zenon DEF Both
  <2> QED BY <1>0, <2>1, <2>3, <2>4, <2>5, <2>6, <2>8, Zenon DEF SentOut
<1>8. status \in Marks \ {"CR", "LF"} /\ body \in Seq(Marks)
  <2>1. status \in Marks \ {"CR", "LF"}
    BY LineEndType DEF Inline
  <2>2. body \in Seq(Marks)
    BY LineEndType
  <2> QED BY <2>1, <2>2
<1>9. PICK head, lines : head = front \o headers /\ lines = first \o rows
  OBVIOUS
<1>10. \A s : s = (((StatusRow(status) \o CRLF) \o head) \o CRLF) \o body
              => Answer(s) = Answered(status, Kept(lines), body)
  <2>1. IsHead(head, lines)
    BY <1>3, <1>9, Zenon
  <2> QED BY <1>8, <2>1, AnswerTo, ZenonT(60)
<1> QED BY <1>0, <1>1, <1>2, <1>5, <1>7, <1>9, <1>10, Zenon

Hidden == <<"Internal Server Error">>
Message == <<"message">>

LEMMA AnyAnswer ==
  ASSUME NEW status \in Marks \ {"CR", "LF"}, NEW body \in Seq(Marks), NEW rest, NEW more, IsHead(rest, more)
  PROVE  Answer((((StatusRow(status) \o CRLF) \o rest) \o CRLF) \o body) = Answered(status, Kept(more), body)
<1>1. \A s : s = (((StatusRow(status) \o CRLF) \o rest) \o CRLF) \o body
             => Answer(s) = Answered(status, Kept(more), body)
  BY AnswerTo, Zenon
<1> QED BY <1>1, Zenon

(* What a client gets of the error page.                                   *)
LEMMA ErrorAnswer ==
  ASSUME NEW body \in Seq(Marks), NEW sent,
         sent = ((((StatusRow("500") \o CRLF) \o HtmlRow) \o CRLF) \o CRLF) \o body
  PROVE  Answer(sent) = Answered("500", <<HtmlRow>>, body)
<1>1. PICK status \in Marks \ {"CR", "LF"} : status = "500"
  <2>1. "500" \in Marks \ {"CR", "LF"}
    BY DEF Marks
  <2> QED BY <2>1, Zenon
<1>2. PICK h \in Seq(Marks) : h = HtmlRow /\ PlainLine(h) /\ h[1] # "Status"
  BY HtmlPlain, Zenon DEF PlainLine
<1>3. PICK c \in Seq(Marks) : c = CRLF
  BY LineEndType, Zenon
<1>4. PICK more : more = <<h>>
  OBVIOUS
<1>5. IsHead(h \o CRLF, more)
  BY <1>2, <1>4, HeadLine
<1>6. Kept(more) = more
  <2>1. Kept(more) = IF h[1] = "Status" THEN <<>> ELSE more
    BY <1>4, OneKept
  <2> QED BY <1>2, <2>1, Zenon
<1>7. PICK x \in Seq(Marks) : x = StatusRow(status) \o c
  <2>1. "Status" \in Marks /\ ":" \in Marks /\ status \in Marks
    BY Chars, LineEndType DEF Marks
  <2>2. PICK line \in Seq(Marks) : line = StatusRow(status)
    <3>1. <<"Status", ":", status>> \in Seq(Marks)
      BY <2>1, Triple
    <3> QED BY <3>1, Zenon DEF StatusRow
  <2>3. line \o c \in Seq(Marks)
    BY JoinType
  <2> QED BY <2>2, <2>3, Zenon
<1>8. (x \o h) \o c = x \o (h \o c)
  BY JoinAgain
<1>9. PICK rest : rest = h \o c
  OBVIOUS
<1>10. sent = (((StatusRow(status) \o CRLF) \o rest) \o CRLF) \o body
  BY <1>1, <1>2, <1>3, <1>7, <1>8, <1>9, Zenon
<1>11. IsHead(rest, more)
  BY <1>3, <1>5, <1>9, Zenon
<1>12. Answer((((StatusRow(status) \o CRLF) \o rest) \o CRLF) \o body) = Answered(status, Kept(more), body)
  BY <1>11, AnyAnswer, Zenon
<1> QED BY <1>1, <1>2, <1>4, <1>6, <1>10, <1>12, Zenon

LEMMA ErrorPages ==
  /\ Answer(ErrorPage(Message, FALSE)) = Answered("500", <<HtmlRow>>, Hidden)
  /\ Answer(ErrorPage(Message, TRUE)) = Answered("500", <<HtmlRow>>, Message)
<1>1. Hidden \in Seq(Marks) /\ Message \in Seq(Marks)
  <2>1. PICK a \in Marks, b \in Marks : a = "Internal Server Error" /\ b = "message"
    BY Zenon DEF Marks
  <2>2. <<a>> \in Seq(Marks) /\ <<b>> \in Seq(Marks)
    OBVIOUS
  <2> QED BY <2>1, <2>2, Zenon DEF Hidden, Message
<1>2. ASSUME NEW body \in Seq(Marks)
      PROVE  \A s : s = ((((StatusRow("500") \o CRLF) \o HtmlRow) \o CRLF) \o CRLF) \o body
                      => Answer(s) = Answered("500", <<HtmlRow>>, body)
  BY ErrorAnswer, Zenon
<1>3. ErrorPage(Message, FALSE) = ((((StatusRow("500") \o CRLF) \o HtmlRow) \o CRLF) \o CRLF) \o Hidden
  BY Zenon DEF ErrorPage, StatusRow, HtmlRow, Hidden
<1>4. ErrorPage(Message, TRUE) = ((((StatusRow("500") \o CRLF) \o HtmlRow) \o CRLF) \o CRLF) \o Message
  BY Zenon DEF ErrorPage, StatusRow, HtmlRow
<1> QED BY <1>1, <1>2, <1>3, <1>4, Zenon

(* The answer to a script that throws.                                     *)
LEMMA ThrownAnswer ==
  ASSUME NEW response
  PROVE  /\ Answer(OutputOf(response, Message, FALSE, FALSE)) = Answered("500", <<HtmlRow>>, Hidden)
         /\ Answer(OutputOf(response, Message, FALSE, TRUE)) = Answered("500", <<HtmlRow>>, Message)
<1>1. Message # <<>>
  BY DEF Message
<1>2. OutputOf(response, Message, FALSE, FALSE) = ErrorPage(Message, FALSE)
      /\ OutputOf(response, Message, FALSE, TRUE) = ErrorPage(Message, TRUE)
  BY <1>1, Zenon DEF OutputOf
<1> QED BY <1>2, ErrorPages, Zenon

(* The answer to a script that ends.                                       *)
LEMMA OutputIs ==
  ASSUME NEW response, NEW none, none = <<>>, NEW d
  PROVE  /\ OutputOf(response, none, TRUE, d) = response.body
         /\ OutputOf(response, none, FALSE, d)
              = SentOut(response.status, response.content_type_set, Len(response.body),
                      response.headers, response.body)
<1>1. OutputOf(response, none, TRUE, d) = Output(response, TRUE)
      /\ OutputOf(response, none, FALSE, d) = Output(response, FALSE)
  BY Zenon DEF OutputOf
<1>2. Output(response, TRUE) = response.body
  BY Zenon DEF Output
<1>3. Output(response, FALSE)
        = SentOut(response.status, response.content_type_set, Len(response.body), response.headers, response.body)
  BY Zenon DEF Output, SentOut, StatusRow, HtmlLine, HtmlRow, LengthRow
<1> QED BY <1>1, <1>2, <1>3, Zenon

LEMMA ClientGets ==
  ASSUME Digits, NeatInv
  PROVE  \E kept \in Heading :
           /\ Matched(kept, AskedOf(said))
           /\ First(text.content_type_set, Len(text.body)) \in Heading
           /\ \A none, d : none = <<>> =>
                /\ OutputOf(text, none, TRUE, d) = text.body
                /\ Answer(OutputOf(text, none, FALSE, d))
                     = Answered(text.status, First(text.content_type_set, Len(text.body)) \o kept, text.body)
<1>1. PICK rows \in Heading : /\ \A i \in 1..Len(rows) : Neat(rows[i])
                              /\ Headed(text.headers, rows)
                              /\ Matched(Kept(rows), AskedOf(said))
  BY Zenon DEF NeatInv, AsAsked
<1>2. text \in Responses
  BY Zenon DEF NeatInv, AsMade
<1>3. /\ text.headers \in Seq(Char) /\ text.body \in Seq(Char) /\ text.content_type_set \in BOOLEAN
      /\ Len(text.body) \in Nat
  <2>1. text.headers \in Seq(Char) /\ text.body \in Seq(Char)
    BY <1>2 DEF Responses
  <2>2. text.content_type_set \in BOOLEAN
    BY <1>2, Zenon DEF Responses
  <2>3. Len(text.body) \in Nat
    BY <2>1
  <2> QED BY <2>1, <2>2, <2>3
<1>4. IsHead(text.headers, rows)
  <2>1. text.headers \in Seq(Marks)
    BY <1>3, LineEndType
  <2> QED BY <1>1, <2>1, Zenon DEF IsHead
<1>5. text.status \in Inline
  BY Zenon DEF NeatInv, SetLast
<1>6. PICK status \in Inline, typed \in BOOLEAN, headers, body \in Seq(Char), n \in Nat :
        /\ status = text.status /\ typed = text.content_type_set /\ headers = text.headers
        /\ body = text.body /\ n = Len(text.body)
  BY <1>3, <1>5, Zenon
<1>7. IsHead(headers, rows)
  BY <1>4, <1>6, Zenon
<1>8. Answer(SentOut(status, typed, n, headers, body))
        = Answered(status, First(typed, n) \o Kept(rows), body)
  BY <1>7, EndedAnswer
<1>9. /\ First(typed, n) \in Heading /\ Kept(rows) \in Heading
      /\ Answer(SentOut(status, typed, n, headers, body))
           = Answered(status, First(typed, n) \o Kept(rows), body)
  <2>1. First(typed, n) \in Heading
    <3>1. typed \in BOOLEAN /\ n \in Nat /\ Digits
      BY <1>6, Zenon
    <3> QED BY <3>1, FirstHead, Zenon
  <2>2. Kept(rows) \in Heading
    BY <1>7, KeptType, Zenon
  <2> QED BY <1>8, <2>1, <2>2, Zenon
<1>10. ASSUME NEW none, NEW d, none = <<>>
       PROVE  /\ OutputOf(text, none, TRUE, d) = text.body
              /\ Answer(OutputOf(text, none, FALSE, d))
                   = Answered(text.status, First(text.content_type_set, Len(text.body)) \o Kept(rows), text.body)
  <2>1. /\ OutputOf(text, none, TRUE, d) = text.body
        /\ OutputOf(text, none, FALSE, d)
             = SentOut(text.status, text.content_type_set, Len(text.body), text.headers, text.body)
    BY <1>10, OutputIs, Zenon
  <2> QED BY <1>6, <1>9, <2>1, Zenon
<1> QED BY <1>1, <1>6, <1>9, <1>10, Zenon

LEMMA AnsweredFields ==
  ASSUME NEW status, NEW headers, NEW body, NEW other
  PROVE  /\ Answered(status, headers, body).status = status
         /\ Answered(status, headers, body).headers = headers
         /\ Answered(status, headers, body).body = body
         /\ [Answered(status, headers, body) EXCEPT !.body = other] = Answered(status, headers, other)
BY DEF Answered

LEMMA FrontCut ==
  ASSUME NEW S, NEW x \in Seq(S), NEW z \in Seq(S), NEW m \in Nat, m = Len(x), m <= Len(z),
         \A q \in 1..m : z[q] = x[q]
  PROVE  SubSeq(z, 1, m) = x
<1>1. PICK t : t = SubSeq(z, 0 + 1, 0 + m)
  OBVIOUS
<1>2. t \in Seq(S) /\ Len(t) = m /\ \A q \in 1..m : t[q] = z[0 + q]
  <2>1. 0 + m <= Len(z) /\ 0 \in Nat
    OBVIOUS
  <2>2. IsCut(t, z, 0, m)
    BY <1>1, <2>1, Zenon DEF IsCut
  <2> QED BY <2>1, <2>2, Cut
<1>3. 0 + 1 = 1 /\ 0 + m = m /\ \A q \in 1..m : 0 + q = q
  OBVIOUS
<1>4. \A q \in 1..m : t[q] = x[q]
  BY <1>2, <1>3, Zenon
<1>5. t = x
  BY <1>2, <1>4, SeqEqual
<1> QED BY <1>1, <1>3, <1>5, Zenon

LEMMA FrontIs ==
  ASSUME NEW S, NEW x \in Seq(S), NEW y \in Seq(S), NEW z, z = x \o y
  PROVE  /\ Len(z) = Len(x) + Len(y)
         /\ SubSeq(z, 1, Len(x)) = x
         /\ \A q \in 1..Len(y) : z[Len(x) + q] = y[q]
<1>1. /\ z \in Seq(S) /\ Len(z) = Len(x) + Len(y)
      /\ \A q \in 1..Len(x) : z[q] = x[q]
      /\ \A q \in 1..Len(y) : z[Len(x) + q] = y[q]
  <2>1. IsJoin(z, x, y)
    BY Zenon DEF IsJoin
  <2> QED BY <2>1, JoinedBy
<1>2. PICK m \in Nat : m = Len(x)
  OBVIOUS
<1>3. m <= Len(z)
  BY <1>1, <1>2
<1>4. SubSeq(z, 1, m) = x
  BY <1>1, <1>2, <1>3, FrontCut, Zenon
<1> QED BY <1>1, <1>2, <1>4, Zenon

Printed == FlattenSeq([i \in 1..Len(said) |-> BodyOf(said[i])])

(* What AnsweredAsMade says of a script that throws, and of one that ends. *)
GivesError(error) ==
  /\ Answer(OutputOf(text, error, FALSE, TRUE))
       = [Answer(OutputOf(text, error, FALSE, FALSE)) EXCEPT !.body = error]
  /\ Answer(OutputOf(text, error, FALSE, FALSE)) = Answered("500", <<HtmlRow>>, Hidden)

GivesPage(error, first) ==
  LET answer == Answer(OutputOf(text, error, FALSE, FALSE))
      asked == AskedOf(said)
  IN /\ answer.status = Last(Statuses(said))
     /\ answer.body = Printed
     /\ Len(answer.headers) = Len(first) + Len(asked)
     /\ SubSeq(answer.headers, 1, Len(first)) = first
     /\ \A i \in 1..Len(asked) : Same(answer.headers[Len(first) + i], asked[i])
     /\ OutputOf(text, error, TRUE, FALSE) = Printed

LEMMA ErrorGiven == ASSUME NEW error, error = Message PROVE GivesError(error)
<1>1. /\ Answer(OutputOf(text, error, FALSE, FALSE)) = Answered("500", <<HtmlRow>>, Hidden)
      /\ Answer(OutputOf(text, error, FALSE, TRUE)) = Answered("500", <<HtmlRow>>, error)
  BY ThrownAnswer, Zenon
<1>2. PICK status, headers, body : status = "500" /\ headers = <<HtmlRow>> /\ body = Hidden
  BY Zenon
<1>3. [Answered(status, headers, body) EXCEPT !.body = error] = Answered(status, headers, error)
  BY AnsweredFields
<1> QED BY <1>1, <1>2, <1>3, Zenon DEF GivesError

LEMMA PageGiven ==
  ASSUME Digits, NeatInv, NEW error, error = <<>>, NEW first, first = First(Typed(said), Len(Printed))
  PROVE  GivesPage(error, first)
<1>1. PICK kept \in Heading :
         /\ Matched(kept, AskedOf(said))
         /\ First(text.content_type_set, Len(text.body)) \in Heading
         /\ \A none, d : none = <<>> =>
              /\ OutputOf(text, none, TRUE, d) = text.body
              /\ Answer(OutputOf(text, none, FALSE, d))
                   = Answered(text.status, First(text.content_type_set, Len(text.body)) \o kept, text.body)
  BY ClientGets
<1>2. text.body = Printed
  BY Zenon DEF NeatInv, AsMade, Bodies, Printed
<1>3. first = First(text.content_type_set, Len(text.body))
  <2>1. text.content_type_set <=> Typed(said)
    BY Zenon DEF NeatInv
  <2> QED BY <1>2, <2>1, Zenon DEF First
<1>4. PICK headers : headers = first \o kept
  OBVIOUS
<1>5. /\ OutputOf(text, error, TRUE, FALSE) = Printed
      /\ Answer(OutputOf(text, error, FALSE, FALSE)) = Answered(text.status, headers, Printed)
  BY <1>1, <1>2, <1>3, <1>4, Zenon
<1>6. /\ Len(headers) = Len(first) + Len(kept)
      /\ SubSeq(headers, 1, Len(first)) = first
      /\ \A q \in 1..Len(kept) : headers[Len(first) + q] = kept[q]
  <2>1. first \in Seq(Seq(Marks)) /\ kept \in Seq(Seq(Marks))
    BY <1>1, <1>3, Zenon DEF Heading
  <2> QED BY <1>4, <2>1, FrontIs, SMTT(30)
<1>7. Len(kept) = Len(AskedOf(said)) /\ \A i \in 1..Len(AskedOf(said)) : Same(kept[i], AskedOf(said)[i])
  BY <1>1, Zenon DEF Matched
<1>8. text.status = Last(Statuses(said))
  BY Zenon DEF NeatInv, SetLast
<1>9. PICK answer : answer = Answer(OutputOf(text, error, FALSE, FALSE))
  OBVIOUS
<1>10. answer.status = text.status /\ answer.headers = headers /\ answer.body = Printed
  <2>1. PICK status : status = text.status
    OBVIOUS
  <2>2. /\ Answered(status, headers, Printed).status = status
        /\ Answered(status, headers, Printed).headers = headers
        /\ Answered(status, headers, Printed).body = Printed
    BY AnsweredFields
  <2> QED BY <1>5, <1>9, <2>1, <2>2, Zenon
<1>11. \A i \in 1..Len(AskedOf(said)) : Same(answer.headers[Len(first) + i], AskedOf(said)[i])
  BY <1>6, <1>7, <1>10, Zenon
<1> QED BY <1>5, <1>6, <1>7, <1>8, <1>9, <1>10, <1>11, Zenon DEF GivesPage

LEMMA Faithful ==
  ASSUME Digits, NeatInv
  PROVE  AnsweredAsMade
<1> DEFINE thrown == \E i \in 1..Len(said) : said[i].call = "throw"
           typed == \E i \in 1..Len(said) :
                      said[i].call = "header" /\ said[i].line[1] \in {"Content-Type", "content-type"}
           error == IF thrown THEN <<"message">> ELSE <<>>
           html == <<"Content-Type", ":", "text/html">>
           length == <<"Content-Length", ":", ToString(Len(Printed))>>
           first == IF typed THEN <<length>> ELSE <<html, length>>
<1>1. typed <=> Typed(said)
  BY Zenon DEF Typed, TypeIn, ContentType
<1>2. first = First(Typed(said), Len(Printed))
  BY <1>1, Zenon DEF First, HtmlRow, LengthRow
<1>3. thrown => GivesError(error)
  BY ErrorGiven, Zenon DEF Message
<1>4. ~ thrown => GivesPage(error, first)
  <2>1. ASSUME ~ thrown PROVE error = <<>>
    BY <2>1, Zenon
  <2> HIDE DEF error, first
  <2> QED BY <1>2, <2>1, PageGiven, Zenon
<1> QED BY <1>3, <1>4, Zenon
        DEF AnsweredAsMade, GivesError, GivesPage, Answered, HtmlRow, Hidden, Printed, AskedOf, Statuses, StatusesOf

(* The client of a script no header, status or cookie of which breaks its  *)
(* line is answered as the script meant, whatever and however much it sets *)
(* and prints: no header is lost, split or taken for another, and none of  *)
(* the body is taken for a header (js_response_set_header,                 *)
(* response_output, output_error, handle_request).  Digits is of the       *)
(* language: ToString gives a number some string, here not a line end.     *)
THEOREM NeatCorrect ==
  ASSUME Digits
  PROVE  NeatSpec => []AnsweredAsMade
<1>1. PageInit => NeatInv
  BY NeatFirst
<1>2. NeatInv /\ [NeatNext]_<<kind, text, said>> => NeatInv'
  <2> SUFFICES ASSUME NeatInv, [NeatNext]_<<kind, text, said>> PROVE NeatInv'
    OBVIOUS
  <2>1. CASE NeatNext
    BY <2>1, NeatEach
  <2>2. CASE UNCHANGED <<kind, text, said>>
    <3>1. kind' = kind /\ text' = text /\ said' = said
      BY <2>2
    <3> QED BY <3>1, Zenon DEF NeatInv, AsMade, SetLast
  <2> QED BY <2>1, <2>2
<1>3. NeatInv => AnsweredAsMade
  BY Faithful
<1> QED BY <1>1, <1>2, <1>3, PTL DEF NeatSpec
=============================================================================
