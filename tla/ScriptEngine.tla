---------------------------- MODULE ScriptEngine ----------------------------
(***************************************************************************)
(* One js-cgi process executing scripts, one after another (execute_script *)
(* and what it calls): the uploads of a multipart body become temporary    *)
(* files, the extensions are loaded, the script and then its queued jobs   *)
(* run, one page is printed, and everything the execution owned is         *)
(* released.  The script is arbitrary: it may enqueue jobs, move its       *)
(* uploads, throw, or never end.                                           *)
(*                                                                         *)
(* QuickJS is external.  What is used of it: JS_Eval of a plain script     *)
(* returns an exception when the script throws, JS_Eval of a module        *)
(* returns a promise that is rejected when the module throws, a pending    *)
(* job may fail, and the interrupt handler is polled while code runs.      *)
(*                                                                         *)
(* An operator named X_how is X with a plausible mistake, kept beside it   *)
(* for the properties to be tested against; no specification uses it.      *)
(***************************************************************************)
EXTENDS Naturals, Sequences

CONSTANTS
  NumExecs,       \* bound: executions in a behaviour
  MaxUploads,     \* bound: file parts of one multipart body
  MaxFiles,       \* bound: temporary files created in a behaviour
  MaxJobs,        \* bound: pending jobs at any time
  MaxTempFiles,   \* MAX_TEMP_FILES
  Extensions,     \* number of extensions configured
  TimeLimit,      \* max_execution_time: "positive", "zero" or "negative"
  Modules,        \* may a script be an ES module?
  FullDisks       \* which disks may be full: subset of {"upload", "target"}

ASSUME ConstantsAssumption ==
  /\ NumExecs \in Nat /\ MaxUploads \in Nat
  /\ MaxFiles \in Nat /\ MaxJobs \in Nat
  /\ MaxTempFiles \in Nat
  /\ Extensions \in Nat
  /\ TimeLimit \in {"positive", "zero", "negative"}
  /\ Modules \in BOOLEAN
  /\ FullDisks \subseteq {"upload", "target"}

VARIABLES
  phase,      \* where execute_script is
  execs,      \* executions begun
  module,     \* the script has been taken for a module
  todo,       \* file parts of the body still to be parsed
  created,    \* temporary files created so far (their random names)
  temp,       \* temp[f]: file f of upload_dir, "none", "whole" or "cut"
  target,     \* target[f]: the file that f was moved to, likewise
  tracked,    \* g_temp_files: the names cleanup_temp_files will unlink
  given,      \* request.files[...].tmpPath: the files the script knows
  moved,      \* those of them that move() has moved
  next_ext,   \* index of the loop in load_extensions
  loaded,     \* g_extensions: indexes of the extensions loaded
  inited,     \* extensions initialised and not shut down
  ctx,        \* is there a JSContext?
  jobs,       \* pending jobs of the runtime
  over,       \* max_execution_time seconds have passed since the start
  result,     \* "none", "ok", "rejected" (promise) or "exception"
  stopped,    \* history: the interrupt handler has stopped the script
  out,        \* pages printed by the execution
  orphans,    \* history: files that crashed executions left behind
  since,      \* history: the value of created when the execution began
  late        \* history: files stored by an execution past its MAX_TEMP_FILES

fileVars   == <<created, temp, target, tracked, given, moved, since, late>>
engineVars == <<next_ext, loaded, inited, ctx, jobs>>
resultVars == <<over, result, stopped, out>>
vars == <<phase, execs, module, todo, fileVars, engineVars, resultVars, orphans>>

File == 1..MaxFiles
FileState == {"none", "whole", "cut"}
Extension == 1..Extensions
OnDisk == {f \in File : temp[f] # "none"}
Elements(s) == {s[n] : n \in DOMAIN s}

(* What a write of a whole file to a disk leaves when fwrite is unchecked. *)
Written(disk) == IF disk \in FullDisks THEN {"whole", "cut"} ELSE {"whole"}

Init ==
  /\ phase = "idle"
  /\ execs = 0
  /\ module = FALSE
  /\ todo = 0
  /\ created = 0
  /\ temp = [f \in File |-> "none"]
  /\ target = [f \in File |-> "none"]
  /\ tracked = <<>>
  /\ given = {}
  /\ moved = {}
  /\ next_ext = 1
  /\ loaded = <<>>
  /\ inited = {}
  /\ ctx = FALSE
  /\ jobs = 0
  /\ over = FALSE
  /\ result = "none"
  /\ stopped = FALSE
  /\ out = <<>>
  /\ orphans = {}
  /\ since = 0
  /\ late = {}

-----------------------------------------------------------------------------
(* Set-up.                                                                 *)

(* The script file can be read: start the clock, create runtime, context.  *)
Begin(uploads) ==
  /\ phase = "idle"
  /\ execs < NumExecs
  /\ execs' = execs + 1
  /\ module' \in (IF Modules THEN BOOLEAN ELSE {FALSE})
  /\ todo' = uploads
  /\ given' = {}
  /\ moved' = {}
  /\ ctx' = TRUE
  /\ over' = FALSE
  /\ result' = "none"
  /\ stopped' = FALSE
  /\ out' = <<>>
  /\ since' = created
  /\ phase' = "request"
  /\ UNCHANGED <<created, temp, target, tracked, late, next_ext, loaded, inited,
                 jobs, orphans>>

(* It cannot: an error page, and nothing else has happened.                *)
BeginUnreadable ==
  /\ phase = "idle"
  /\ execs < NumExecs
  /\ execs' = execs + 1
  /\ given' = {}
  /\ moved' = {}
  /\ over' = FALSE
  /\ result' = "none"
  /\ stopped' = FALSE
  /\ out' = <<"error">>
  /\ UNCHANGED <<phase, module, todo, created, temp, target, tracked, since, late,
                 engineVars, orphans>>

track_temp_file(f) ==
  tracked' = IF Len(tracked) < MaxTempFiles THEN Append(tracked, f) ELSE tracked

(* A file part within upload_max_filesize: a temporary file is written.    *)
StoreUpload ==
  /\ phase = "request"
  /\ todo > 0
  /\ created < MaxFiles
  /\ todo' = todo - 1
  /\ created' = created + 1
  /\ \E w \in Written("upload") : temp' = [temp EXCEPT ![created + 1] = w]
  /\ track_temp_file(created + 1)
  /\ given' = given \union {created + 1}
  /\ late' = IF created - since < MaxTempFiles THEN late
                                               ELSE late \union {created + 1}
  /\ UNCHANGED <<phase, execs, module, target, moved, since, engineVars,
                 resultVars, orphans>>

(* A part too large, or whose file cannot be opened: an error property.    *)
RefuseUpload ==
  /\ phase = "request"
  /\ todo > 0
  /\ todo' = todo - 1
  /\ UNCHANGED <<phase, execs, module, fileVars, engineVars, resultVars, orphans>>

EndRequest ==
  /\ phase = "request"
  /\ todo = 0
  /\ phase' = "load"
  /\ next_ext' = 1
  /\ UNCHANGED <<execs, module, todo, fileVars, loaded, inited, ctx, jobs,
                 resultVars, orphans>>

(* One extension: dlopen, symbol, entry and module_init; any can fail.     *)
LoadExtension ==
  /\ phase = "load"
  /\ next_ext <= Extensions
  /\ next_ext' = next_ext + 1
  /\ \/ /\ loaded' = Append(loaded, next_ext)
        /\ inited' = inited \union {next_ext}
     \/ UNCHANGED <<loaded, inited>>
  /\ UNCHANGED <<phase, execs, module, todo, fileVars, ctx, jobs, resultVars,
                 orphans>>

EndLoad ==
  /\ phase = "load"
  /\ next_ext > Extensions
  /\ phase' = "script"
  /\ UNCHANGED <<execs, module, todo, fileVars, engineVars, resultVars, orphans>>

-----------------------------------------------------------------------------
(* The script and its jobs.                                                *)

Running == phase = "script" \/ (phase = "jobs" /\ jobs > 0)

Enqueue ==
  /\ Running
  /\ jobs < MaxJobs
  /\ jobs' = jobs + 1
  /\ UNCHANGED <<phase, execs, module, todo, fileVars, next_ext, loaded, inited,
                 ctx, resultVars, orphans>>

(* move() of an upload that returns true: a rename, or, across file        *)
(* systems, a copy whose writes are not checked, and the source removed.   *)
Move(f) ==
  /\ Running
  /\ f \in given
  /\ temp[f] # "none"
  /\ \/ target' = [target EXCEPT ![f] = temp[f]]
     \/ \E w \in Written("target") :
          target' = [target EXCEPT ![f] = IF temp[f] = "cut" THEN "cut" ELSE w]
  /\ temp' = [temp EXCEPT ![f] = "none"]
  /\ moved' = moved \union {f}
  /\ UNCHANGED <<phase, execs, module, todo, created, tracked, given, since, late,
                 engineVars, resultVars, orphans>>

(* JS_Eval returns.  A module that throws rejects the promise, one that    *)
(* does not compile or whose imports fail is an exception, as in a script. *)
EndScript_cleans(r) ==
  /\ phase = "script"
  /\ r = "ok"
  /\ result' = r
  /\ phase' = "jobs"
  /\ temp' = [f \in File |-> IF f \in Elements(tracked) THEN "none" ELSE temp[f]]
  /\ tracked' = <<>>
  /\ UNCHANGED <<execs, module, todo, created, target, given, moved, since, late,
                 engineVars, over, stopped, out, orphans>>

EndScript(r) ==
  /\ phase = "script"
  /\ \/ r = "ok"
     \/ r = "exception"
     \/ r = "rejected" /\ module
  /\ result' = r
  /\ phase' = IF r = "exception" THEN "report" ELSE "jobs"
  /\ UNCHANGED <<execs, module, todo, fileVars, engineVars, over, stopped, out,
                 orphans>>

(* JS_ExecutePendingJob on a job that ends normally.                       *)
RunJob ==
  /\ phase = "jobs"
  /\ jobs > 0
  /\ jobs' = jobs - 1
  /\ UNCHANGED <<phase, execs, module, todo, fileVars, next_ext, loaded, inited,
                 ctx, resultVars, orphans>>

(* ... and on one that fails: the drain loop ends with an exception.       *)
FailJob ==
  /\ phase = "jobs"
  /\ jobs > 0
  /\ jobs' = jobs - 1
  /\ result' = "exception"
  /\ phase' = "report"
  /\ UNCHANGED <<execs, module, todo, fileVars, next_ext, loaded, inited, ctx,
                 over, stopped, out, orphans>>

EndJobs_early ==
  /\ phase = "jobs"
  /\ phase' = "report"
  /\ UNCHANGED <<execs, module, todo, fileVars, engineVars, resultVars, orphans>>

EndJobs ==
  /\ phase = "jobs"
  /\ jobs = 0
  /\ phase' = "report"
  /\ UNCHANGED <<execs, module, todo, fileVars, engineVars, resultVars, orphans>>

(* Time passes whatever the process does.                                  *)
Clock ==
  /\ phase # "idle"
  /\ ~over
  /\ over' = TRUE
  /\ UNCHANGED <<phase, execs, module, todo, fileVars, engineVars, result,
                 stopped, out, orphans>>

(* Where the interrupt handler is polled.                                  *)
Polled_script == phase = "script"
Polled        == Running

(* interrupt_handler stops the code that runs: JS_Eval or the job fails,   *)
(* unless (a module) the failure ends up in a promise.                     *)
Interrupt ==
  /\ TimeLimit = "positive"
  /\ over
  /\ Polled
  /\ stopped' = TRUE
  /\ jobs' = IF phase = "jobs" THEN jobs - 1 ELSE jobs
  /\ \/ result' = "exception" /\ phase' = "report"
     \/ module /\ phase = "script" /\ result' = "rejected" /\ phase' = "jobs"
  /\ UNCHANGED <<execs, module, todo, fileVars, next_ext, loaded, inited, ctx,
                 over, out, orphans>>

-----------------------------------------------------------------------------
(* The page, and the end of the execution.                                 *)

(* elapsed >= max_execution_time * 1000, unsigned: with a limit of zero    *)
(* always, with a negative one never.                                      *)
CountsAsTimeout_never == TimeLimit = "zero"
CountsAsTimeout ==
  \/ TimeLimit = "zero"
  \/ TimeLimit = "positive" /\ over

Report_and_free ==
  /\ phase = "report"
  /\ out' = Append(out, IF result # "exception" THEN "response"
                        ELSE IF CountsAsTimeout THEN "timeout" ELSE "error")
  /\ phase' = IF result # "exception" THEN "unload" ELSE "free"
  /\ UNCHANGED <<execs, module, todo, fileVars, engineVars, over, result,
                 stopped, orphans>>

Report ==
  /\ phase = "report"
  /\ out' = Append(out, IF result # "exception" THEN "response"
                        ELSE IF CountsAsTimeout THEN "timeout" ELSE "error")
  /\ phase' = "unload"
  /\ UNCHANGED <<execs, module, todo, fileVars, engineVars, over, result,
                 stopped, orphans>>

(* unload_extensions.                                                      *)
Unload ==
  /\ phase = "unload"
  /\ inited' = inited \ Elements(loaded)
  /\ loaded' = <<>>
  /\ phase' = "free"
  /\ UNCHANGED <<execs, module, todo, fileVars, next_ext, ctx, jobs, resultVars,
                 orphans>>

(* JS_FreeContext and JS_FreeRuntime, with the jobs that were not run.     *)
Free ==
  /\ phase = "free"
  /\ ctx' = FALSE
  /\ jobs' = 0
  /\ phase' = "cleanup"
  /\ UNCHANGED <<execs, module, todo, fileVars, next_ext, loaded, inited,
                 resultVars, orphans>>

(* cleanup_temp_files.                                                     *)
Cleanup_keeps_count ==
  /\ phase = "cleanup"
  /\ temp' = [f \in File |-> IF f \in Elements(tracked) THEN "none" ELSE temp[f]]
  /\ phase' = "idle"
  /\ UNCHANGED <<execs, module, todo, created, tracked, target, given, moved,
                 since, late, engineVars, resultVars, orphans>>

Cleanup ==
  /\ phase = "cleanup"
  /\ temp' = [f \in File |-> IF f \in Elements(tracked) THEN "none" ELSE temp[f]]
  /\ tracked' = <<>>
  /\ phase' = "idle"
  /\ UNCHANGED <<execs, module, todo, created, target, given, moved, since, late,
                 engineVars, resultVars, orphans>>

(* The process crashes in native code of the engine or of an extension; a  *)
(* new process takes its place.                                            *)
Crash ==
  /\ Running
  /\ orphans' = OnDisk
  /\ phase' = "idle"
  /\ tracked' = <<>>
  /\ given' = {}
  /\ moved' = {}
  /\ next_ext' = 1
  /\ loaded' = <<>>
  /\ inited' = {}
  /\ ctx' = FALSE
  /\ jobs' = 0
  /\ out' = <<>>
  /\ UNCHANGED <<execs, module, todo, created, temp, target, since, late, over,
                 result, stopped>>

Script == \/ Enqueue \/ RunJob \/ FailJob
          \/ \E f \in File : Move(f)
          \/ \E r \in {"ok", "exception", "rejected"} : EndScript(r)

Host ==
  \/ StoreUpload \/ RefuseUpload \/ EndRequest \/ LoadExtension \/ EndLoad
  \/ EndJobs \/ Interrupt \/ Report \/ Unload \/ Free \/ Cleanup

Next ==
  \/ \E n \in 0..MaxUploads : Begin(n)
  \/ BeginUnreadable
  \/ Host \/ Script \/ Clock \/ Crash

(* The host code runs on and time passes; the script may do what it likes, *)
(* for ever.                                                               *)
Fairness == WF_vars(Host) /\ WF_vars(Clock)

Spec == Init /\ [][Next]_vars /\ Fairness

-----------------------------------------------------------------------------
(* Properties.                                                             *)

TypeControl ==
  /\ phase \in {"idle", "request", "load", "script", "jobs", "report", "unload",
                "free", "cleanup"}
  /\ execs \in 0..NumExecs
  /\ todo \in 0..MaxUploads

TypeFiles ==
  /\ created \in 0..MaxFiles
  /\ temp \in [File -> FileState]
  /\ target \in [File -> FileState]
  /\ tracked \in Seq(File)
  /\ given \subseteq File
  /\ moved \subseteq File
  /\ orphans \subseteq File
  /\ since \in 0..created
  /\ late \subseteq File

TypeEngine ==
  /\ next_ext \in 1..(Extensions + 1)
  /\ loaded \in Seq(Extension)
  /\ inited \subseteq Extension
  /\ jobs \in 0..MaxJobs

TypeFlags ==
  /\ module \in BOOLEAN
  /\ ctx \in BOOLEAN
  /\ over \in BOOLEAN
  /\ stopped \in BOOLEAN

TypeResult ==
  /\ result \in {"none", "ok", "rejected", "exception"}
  /\ out \in Seq({"response", "error", "timeout"})

(* Every variable keeps its type.                                          *)
TypeOK == TypeControl /\ TypeFlags /\ TypeFiles /\ TypeEngine /\ TypeResult

(* Between executions the upload directory holds no temporary file of the *)
(* first MAX_TEMP_FILES that an execution stored: neither an error nor a   *)
(* timeout, nor uploads of an earlier request, nor a script that moves     *)
(* some of its files keep them from being removed.  Left there for good    *)
(* are the files of executions that crashed (orphans) and, as the table of *)
(* track_temp_file is full and says nothing, all uploads of a request past *)
(* its MAX_TEMP_FILES-th that the script does not move (late).             *)
NoTempLeft == phase = "idle" => OnDisk \subseteq orphans \union late

(* A script finds each of its uploads under tmpPath until it moves it, up  *)
(* to its last job.                                                        *)
UploadsAvailable == Running => \A f \in given \ moved : temp[f] # "none"

(* Extensions live inside the context they were initialised in: each one   *)
(* is shut down before the context is freed, on every path, and none is    *)
(* initialised that unload_extensions does not know.                       *)
ExtensionsInContext ==
  /\ inited # {} => ctx
  /\ inited = Elements(loaded)

(* The page is printed once the queue is empty: nothing a script that      *)
(* succeeds has scheduled is missing from its response.                    *)
ResponseIsComplete == out = <<"response">> => jobs = 0

(* What the time limit stops is reported as timed out, be it a script, a   *)
(* module or a job, with one exception: where all that the stop did was to *)
(* reject the promise of a module, nobody looks at it, and if no job fails *)
(* afterwards the page is an ordinary response.                            *)
TimeoutReported ==
  (stopped /\ phase = "unload" /\ result # "rejected") => out = <<"timeout">>

(* No execution is reported as timed out before its time is up (with a     *)
(* limit of zero it is up at once).  Past it, an error of the script's own *)
(* is reported as a timeout too: only the clock is asked.                  *)
TimeoutTrue == out = <<"timeout">> => over \/ TimeLimit = "zero"

(* The page says what became of the script.                                *)
PageIsRight ==
  /\ ResponseIsComplete
  /\ TimeoutReported
  /\ TimeoutTrue

(* With a positive time limit every execution ends, even if its script     *)
(* loops or schedules jobs for ever.                                       *)
ExecutionEnds == (phase # "idle") ~> (phase = "idle")
=============================================================================
