--------------------------- MODULE FcgiConnection ---------------------------
(***************************************************************************)
(* One FastCGI worker process of js-cgi and the web server ("upstream")    *)
(* that talks to it: fcgi_handle_connection, the part of execute_script it *)
(* depends on (the CGI environment and the request body), and the worker   *)
(* loop of run_fastcgi.                                                    *)
(*                                                                         *)
(* What outlives a request in the worker process is what can go wrong      *)
(* between requests, so that is what the module keeps: the environment     *)
(* variables set from a request's parameters, and the stdio buffer and     *)
(* end-of-file flag of the C stream stdin, through which every request     *)
(* body is read.  Lengths are counted in units; the pipes that carry the   *)
(* body to the script and the output back hold PipeCap of them.            *)
(*                                                                         *)
(* The wire is reliable and ordered, so it is not a queue of records but   *)
(* two positions in the record stream of the request in progress: sent     *)
(* (records upstream has written) and recvd (records the worker has read). *)
(*                                                                         *)
(* An operator named X_how is X with a plausible mistake, kept beside it   *)
(* for the properties to be tested against; no specification uses it.      *)
(***************************************************************************)
EXTENDS Naturals, Sequences

CONSTANTS
  NumRequests,   \* bound: requests upstream makes in a behaviour
  MaxBody,       \* bound: largest request body, in units
  MaxOutput,     \* bound: largest output of a script, in units
  PipeCap,       \* capacity of a pipe (64 KiB), in units
  MaxContent,    \* content of one FastCGI record (65535 bytes), in units
  ExactLengths   \* TRUE: a CONTENT_LENGTH that is present is the body's length

ASSUME ConstantsAssumption ==
  /\ NumRequests \in Nat
  /\ MaxBody \in Nat
  /\ MaxOutput \in Nat \ {0}
  /\ PipeCap \in Nat
  /\ MaxContent \in Nat \ {0}
  /\ ExactLengths \in BOOLEAN

VARIABLES
  cur,          \* number (and FastCGI id) of the request in progress, 0 at first
  req,          \* what that request is: see Attr
  sent,         \* records of it that upstream has written
  link,         \* the connection: "none", "open", "shut" (closed by upstream),
                \* "abort" (ABORT_REQUEST written)
  fate,         \* fate[r]: what upstream knows of request r
  pc,           \* where the worker is
  recvd,        \* records of the request that the worker has read
  request_id, params_buf, stdin_buf, params_done, stdin_done, keep_conn,
  env,          \* the process environment: env[v].of is the request that set v
  stdio,        \* the C stream stdin: unread buffered data and EOF flag
  given,        \* what the script of the request was given
  output,       \* units of output captured from the request's execution
  written,      \* units of it written to the connection
  reply         \* records upstream has received for the request

upstreamVars == <<cur, req, sent, link, fate>>
bufferVars   == <<recvd, request_id, params_buf, stdin_buf, params_done,
                  stdin_done, keep_conn>>
processVars  == <<env, stdio>>
scriptVars   == <<given, output, written, reply>>
vars == <<upstreamVars, pc, bufferVars, processVars, scriptVars>>

Request == 1..NumRequests

(* A request: does it keep the connection, does it name a script, does it  *)
(* have a Cookie, its CONTENT_LENGTH (0: absent) and the units of its body.*)
Attr ==
  { a \in [keep : BOOLEAN, script : BOOLEAN, cookie : BOOLEAN,
           length : 0..MaxBody, body : 0..MaxBody] :
      ExactLengths => a.length \in {0, a.body} }

NoAttr == [keep |-> FALSE, script |-> FALSE, cookie |-> FALSE,
           length |-> 0, body |-> 0]

(* The record stream of a request: BEGIN_REQUEST, its PARAMS, the empty    *)
(* PARAMS, one STDIN record for each unit of body, the empty STDIN.        *)
Total == req.body + 4

Kind(i) ==
  CASE i = 1 -> "BEGIN"
    [] i = 2 -> "PARAMS"
    [] i = 3 -> "PARAMS_END"
    [] i > 3 /\ i < Total -> "STDIN"
    [] OTHER -> "STDIN_END"

(* The name-value pairs of a PARAMS record, with the request they are of.  *)
ParamsOf == [of |-> cur, script |-> req.script, cookie |-> req.cookie,
             length |-> req.length]

Block == [of : Request, script : BOOLEAN, cookie : BOOLEAN, length : 0..MaxBody]

(* Variables build_request_object reads, and the two execute_script sets.  *)
Observable == {"REQUEST_METHOD", "HTTP_COOKIE", "CONTENT_LENGTH"}
EnvVar     == Observable \union {"SCRIPT_FILENAME", "PATH_TRANSLATED"}

(* The variables among EnvVar that a block of parameters names.            *)
Names(b) ==
  {"REQUEST_METHOD"}
    \union (IF b.script     THEN {"SCRIPT_FILENAME"} ELSE {})
    \union (IF b.cookie     THEN {"HTTP_COOKIE"}     ELSE {})
    \union (IF b.length > 0 THEN {"CONTENT_LENGTH"}  ELSE {})

Unset == [of |-> 0, val |-> 0]
NotGiven == [cgi |-> [v \in Observable |-> 0], body |-> <<>>]
FreshStdio == [buf |-> <<>>, eof |-> FALSE]

Take(s, n) == SubSeq(s, 1, n)
Drop(s, n) == SubSeq(s, n + 1, Len(s))

-----------------------------------------------------------------------------
(* Upstream.                                                               *)

StartRequest(a) ==
  /\ cur < NumRequests
  /\ cur' = cur + 1
  /\ req' = a
  /\ sent' = 0
  /\ recvd' = 0
  /\ reply' = <<>>
  /\ fate' = [fate EXCEPT ![cur + 1] = "pending"]

(* A new connection with its first request.                                *)
Connect(a) ==
  /\ link = "none"
  /\ pc = "accept"
  /\ StartRequest(a)
  /\ link' = "open"
  /\ UNCHANGED <<pc, request_id, params_buf, stdin_buf, params_done,
                 stdin_done, keep_conn, processVars, given, output,
                 written>>

(* The next request on a kept connection: as soon as END_REQUEST arrived,  *)
(* whether or not the worker is back in its read loop.                     *)
NextRequest(a) ==
  /\ link = "open"
  /\ cur \in Request
  /\ req.keep
  /\ fate[cur] = "answered"
  /\ StartRequest(a)
  /\ UNCHANGED <<link, pc, request_id, params_buf, stdin_buf, params_done,
                 stdin_done, keep_conn, processVars, given, output,
                 written>>

SendRecord ==
  /\ link = "open"
  /\ sent < Total
  /\ sent' = sent + 1
  /\ UNCHANGED <<cur, req, link, fate, pc, bufferVars, processVars, scriptVars>>

(* Upstream gives the request up: it closes the connection, or writes      *)
(* ABORT_REQUEST, or closes an idle kept connection.                       *)
HangUp(how) ==
  /\ link = "open"
  /\ how \in {"shut", "abort"}
  /\ link' = how
  /\ fate' = [fate EXCEPT ![cur] = IF @ = "pending" THEN "lost" ELSE @]
  /\ UNCHANGED <<cur, req, sent, pc, bufferVars, processVars, scriptVars>>

-----------------------------------------------------------------------------
(* The worker: accept loop and record reader.                              *)

Accept ==
  /\ pc = "accept"
  /\ link # "none"
  /\ pc' = "read"
  /\ request_id' = 0
  /\ params_buf' = <<>>
  /\ stdin_buf' = <<>>
  /\ params_done' = FALSE
  /\ stdin_done' = FALSE
  /\ keep_conn' = FALSE
  /\ UNCHANGED <<upstreamVars, recvd, processVars, scriptVars>>

ReadBegin ==
  /\ params_buf' = <<>>
  /\ stdin_buf' = <<>>
  /\ params_done' = FALSE
  /\ stdin_done' = FALSE
  /\ keep_conn' = req.keep

ReadParams ==
  /\ params_buf' = Append(params_buf, ParamsOf)
  /\ UNCHANGED <<stdin_buf, params_done, stdin_done, keep_conn>>

ReadStdin ==
  /\ stdin_buf' = Append(stdin_buf, cur)
  /\ UNCHANGED <<params_buf, params_done, stdin_done, keep_conn>>

ReadParamsEnd ==
  /\ params_done' = TRUE
  /\ UNCHANGED <<params_buf, stdin_buf, stdin_done, keep_conn>>

ReadStdinEnd ==
  /\ stdin_done' = TRUE
  /\ UNCHANGED <<params_buf, stdin_buf, params_done, keep_conn>>

(* The test at the end of an iteration, on what its record has changed.    *)
Complete_stale == params_done /\ stdin_done
Complete_early == params_done'
Complete       == params_done' /\ stdin_done'

(* One iteration of the record loop: header, content and padding, then the *)
(* switch on the type, then the test that starts the execution.            *)
ReadRecord ==
  /\ pc = "read"
  /\ recvd < sent
  /\ recvd' = recvd + 1
  /\ request_id' = cur
  /\ \/ Kind(recvd + 1) = "BEGIN"      /\ ReadBegin
     \/ Kind(recvd + 1) = "PARAMS"     /\ ReadParams
     \/ Kind(recvd + 1) = "PARAMS_END" /\ ReadParamsEnd
     \/ Kind(recvd + 1) = "STDIN"      /\ ReadStdin
     \/ Kind(recvd + 1) = "STDIN_END"  /\ ReadStdinEnd
  /\ pc' = IF Complete THEN "dispatch" ELSE "read"
  /\ UNCHANGED <<upstreamVars, processVars, scriptVars>>

(* End of file, ABORT_REQUEST or a read error (a reset can overtake what   *)
(* upstream had sent): leave the loop and close the connection.            *)
ReadEnd ==
  /\ pc = "read"
  /\ \/ link = "shut"
     \/ link = "abort" /\ recvd = sent
  /\ pc' = "accept"
  /\ link' = "none"
  /\ UNCHANGED <<cur, req, sent, fate, bufferVars, processVars, scriptVars>>

-----------------------------------------------------------------------------
(* The worker: execution of a complete request.                            *)

HasScript == \E i \in DOMAIN params_buf : params_buf[i].script

(* No script path among the parameters: a fixed error page, one unit long. *)
DispatchNoScript ==
  /\ pc = "dispatch"
  /\ ~HasScript
  /\ output' = 1
  /\ pc' = "reply"
  /\ UNCHANGED <<upstreamVars, bufferVars, processVars, given, written, reply>>

(* setenv for every decoded pair, in order: the last block naming v wins.  *)
Assigning(v) == {i \in DOMAIN params_buf : v \in Names(params_buf[i])}

SetEnv ==
  [v \in EnvVar |->
     IF Assigning(v) = {} THEN env[v]
     ELSE LET b == params_buf[CHOOSE i \in Assigning(v) :
                                 \A j \in Assigning(v) : j <= i]
          IN  [of |-> b.of, val |-> IF v = "CONTENT_LENGTH" THEN b.length ELSE 0]]

(* The environment is set and the whole body is written to a pipe that     *)
(* nobody reads yet: a body beyond the pipe's capacity blocks the worker.  *)
DispatchScript ==
  /\ pc = "dispatch"
  /\ HasScript
  /\ env' = SetEnv
  /\ pc' = IF Len(stdin_buf) > PipeCap THEN "stuck" ELSE "run"
  /\ UNCHANGED <<upstreamVars, bufferVars, stdio, scriptVars>>

(* What the loop of freads for want > 0 units can yield.  The descriptor is *)
(* the body pipe (without a body, the worker's own stdin, at end of file). *)
(* k units leave the pipe.  A sticky EOF flag stops buffered reads but not *)
(* the direct reads of large requests, and direct reads leave nothing      *)
(* behind; a buffered read may pull in units beyond want.                  *)
Fread(want) ==
  LET Pulled(k) == stdio.buf \o Take(stdin_buf, k)
      Enough == { k \in 0..Len(stdin_buf) :
                    /\ Len(Pulled(k)) >= want
                    /\ (stdio.eof /\ k > 0) => Len(Pulled(k)) = want
                    /\ Len(stdio.buf) >= want => k = 0 }
      Short  == { k \in 0..Len(stdin_buf) :
                    /\ Len(Pulled(k)) < want
                    /\ stdio.eof \/ k = Len(stdin_buf) }
  IN  { [body  |-> Take(Pulled(k), want),
         stdio |-> [buf |-> Drop(Pulled(k), want), eof |-> stdio.eof]] : k \in Enough }
      \union
      { [body  |-> Pulled(k), stdio |-> [buf |-> <<>>, eof |-> TRUE]] : k \in Short }

(* atoi of CONTENT_LENGTH; 0 when it is not set.                           *)
WantedLength_long  == IF env["CONTENT_LENGTH"].val = 0 THEN 0
                      ELSE env["CONTENT_LENGTH"].val + 1
WantedLength_short == IF env["CONTENT_LENGTH"].val > 1
                      THEN env["CONTENT_LENGTH"].val - 1
                      ELSE env["CONTENT_LENGTH"].val
WantedLength       == env["CONTENT_LENGTH"].val

(* read_request_body: without a CONTENT_LENGTH nothing is read.            *)
ReadBody ==
  IF WantedLength = 0
  THEN { [body |-> <<>>, stdio |-> stdio] }
  ELSE Fread(WantedLength)

(* The output is captured by a pipe read only after the execution.         *)
Produce ==
  \E n \in 1..MaxOutput :
    /\ output' = n
    /\ pc' = IF n > PipeCap THEN "stuck" ELSE "reply"

(* execute_script: the script's path joins the environment, the request    *)
(* object is built from environment and stdin, and the script runs.        *)
Run ==
  /\ pc = "run"
  /\ Produce
  /\ env' = [v \in EnvVar |-> IF v \in Observable THEN env[v]
                              ELSE [of |-> request_id, val |-> 0]]
  /\ \E r \in ReadBody :
       /\ given' = [cgi |-> [v \in Observable |-> env[v].of], body |-> r.body]
       /\ stdio' = r.stdio
  /\ UNCHANGED <<upstreamVars, bufferVars, written, reply>>

(* execute_script when the script file cannot be read: only an error page. *)
RunUnreadable ==
  /\ pc = "run"
  /\ output' = 1
  /\ pc' = IF 1 > PipeCap THEN "stuck" ELSE "reply"
  /\ UNCHANGED <<upstreamVars, bufferVars, processVars, given, written, reply>>

-----------------------------------------------------------------------------
(* The worker: the reply.                                                  *)

(* A write to the connection.  What is written after upstream closed it is *)
(* discarded (or kills the worker, see Killed); after ABORT_REQUEST it     *)
(* arrives and is ignored.                                                 *)
Write(kind, len) ==
  reply' = IF link = "open"
           THEN Append(reply, [kind |-> kind, id |-> request_id, len |-> len])
           ELSE reply

(* fcgi_write_record on the captured output: records of at most MaxContent *)
(* and, because the loop goes on for STDOUT, an empty record of its own.   *)
Chunk == IF output - written > MaxContent THEN MaxContent ELSE output - written

AfterChunk_once == "eos"
AfterChunk      == IF Chunk = 0 THEN "eos" ELSE "reply"

WriteOutput ==
  /\ pc = "reply"
  /\ Write("STDOUT", Chunk)
  /\ written' = written + Chunk
  /\ pc' = AfterChunk
  /\ UNCHANGED <<upstreamVars, bufferVars, processVars, given, output>>

WriteEndOfStream ==
  /\ pc = "eos"
  /\ Write("STDOUT", 0)
  /\ pc' = "end"
  /\ UNCHANGED <<upstreamVars, bufferVars, processVars, given, output, written>>

WriteEndRequest ==
  /\ pc = "end"
  /\ Write("END", 0)
  /\ fate' = IF link = "open" THEN [fate EXCEPT ![request_id] = "answered"] ELSE fate
  /\ pc' = "finish"
  /\ UNCHANGED <<cur, req, sent, link, bufferVars, processVars, given, output,
                 written>>

(* The locals of one execution go out of scope.                            *)
ForgetScript ==
  /\ given' = NotGiven
  /\ output' = 0
  /\ written' = 0

(* unsetenv of what the parameters named, after an execution only.         *)
ClearEnv_skipped == UNCHANGED env
ClearEnv ==
  env' = [v \in EnvVar |-> IF HasScript /\ Assigning(v) # {} THEN Unset ELSE env[v]]

(* The next request of the connection, or the end of the connection.       *)
Finish ==
  /\ pc = "finish"
  /\ ClearEnv
  /\ IF keep_conn
     THEN /\ pc' = "read"
          /\ params_buf' = <<>>
          /\ stdin_buf' = <<>>
          /\ params_done' = FALSE
          /\ stdin_done' = FALSE
          /\ UNCHANGED link
     ELSE /\ pc' = "accept"
          /\ link' = "none"
          /\ UNCHANGED <<params_buf, stdin_buf, params_done, stdin_done>>
  /\ ForgetScript
  /\ UNCHANGED <<cur, req, sent, fate, recvd, request_id, keep_conn, stdio,
                 reply>>

(* The process dies: a crash of the engine or an extension while a script  *)
(* runs, or SIGPIPE on a write to a connection that upstream has closed.   *)
Killed ==
  /\ \/ pc = "run"
     \/ pc \in {"reply", "eos", "end"} /\ link = "shut"
  /\ pc' = "dead"
  /\ link' = "none"
  /\ fate' = [fate EXCEPT ![cur] = IF @ = "pending" THEN "lost" ELSE @]
  /\ ForgetScript
  /\ UNCHANGED <<cur, req, sent, bufferVars, processVars, reply>>

(* The master forks a new worker: a fresh process.                         *)
Restart ==
  /\ pc = "dead"
  /\ pc' = "accept"
  /\ env' = [v \in EnvVar |-> Unset]
  /\ stdio' = FreshStdio
  /\ UNCHANGED <<upstreamVars, bufferVars, scriptVars>>

-----------------------------------------------------------------------------
Init ==
  /\ cur = 0
  /\ req = NoAttr
  /\ sent = 0
  /\ link = "none"
  /\ fate = [r \in Request |-> "unsent"]
  /\ pc = "accept"
  /\ recvd = 0
  /\ request_id = 0
  /\ params_buf = <<>>
  /\ stdin_buf = <<>>
  /\ params_done = FALSE
  /\ stdin_done = FALSE
  /\ keep_conn = FALSE
  /\ env = [v \in EnvVar |-> Unset]
  /\ stdio = FreshStdio
  /\ given = NotGiven
  /\ output = 0
  /\ written = 0
  /\ reply = <<>>

Upstream ==
  \/ \E a \in Attr : Connect(a) \/ NextRequest(a)
  \/ SendRecord
  \/ \E how \in {"shut", "abort"} : HangUp(how)

Worker ==
  \/ Accept \/ ReadRecord \/ ReadEnd
  \/ DispatchNoScript \/ DispatchScript
  \/ Run \/ RunUnreadable
  \/ WriteOutput \/ WriteEndOfStream \/ WriteEndRequest \/ Finish

Next == Upstream \/ Worker \/ Killed \/ Restart

(* The worker is a process that runs when it can, and the master restarts  *)
(* it.  Nothing is assumed of upstream, and nothing has to crash.          *)
Fairness == WF_vars(Worker) /\ WF_vars(Restart)

Spec == Init /\ [][Next]_vars /\ Fairness

-----------------------------------------------------------------------------
(* Properties.                                                             *)

Tag == 0..NumRequests
Record == [kind : {"STDOUT", "END"}, id : Request, len : 0..MaxContent]

TypeUpstream ==
  /\ cur \in Tag
  /\ req \in Attr \union {NoAttr}
  /\ sent \in Nat
  /\ link \in {"none", "open", "shut", "abort"}
  /\ fate \in [Request -> {"unsent", "pending", "answered", "lost"}]

TypeWorker ==
  /\ pc \in {"accept", "read", "dispatch", "run", "reply", "eos", "end",
             "finish", "stuck", "dead"}
  /\ recvd \in Nat
  /\ request_id \in Tag
  /\ params_buf \in Seq(Block)
  /\ stdin_buf \in Seq(Request)

TypeFlags ==
  /\ params_done \in BOOLEAN
  /\ stdin_done \in BOOLEAN
  /\ keep_conn \in BOOLEAN

TypeProcess ==
  /\ env \in [EnvVar -> [of : Tag, val : 0..MaxBody]]
  /\ stdio \in [buf : Seq(Request), eof : BOOLEAN]

TypeScript ==
  /\ given \in [cgi : [Observable -> Tag], body : Seq(Request)]
  /\ output \in Nat
  /\ written \in Nat
  /\ reply \in Seq(Record)

(* Every variable keeps its type.                                          *)
TypeOK == TypeUpstream /\ TypeWorker /\ TypeFlags /\ TypeProcess /\ TypeScript

(* The worker is sending the reply to the request it has executed.         *)
Replying == pc \in {"reply", "eos", "end"}

(* No script is given a CGI variable of another request: the variables a   *)
(* request sets are gone before the next one of the process, whichever way *)
(* the requests end (setenv at 1477, unsetenv at 1532).                    *)
CgiIsOwn == Replying => \A v \in Observable : given.cgi[v] \in {0, cur}

(* No script is given body bytes of another request, although the stream   *)
(* they are read from lives as long as the process.                        *)
BodyIsOwn == Replying => \A i \in DOMAIN given.body : given.body[i] = cur

(* A script that runs for a request with a CONTENT_LENGTH gets the body    *)
(* upstream sent, whole, whatever the requests before it did.              *)
BodyIsWhole ==
  (Replying /\ given.cgi["REQUEST_METHOD"] # 0 /\ req.length > 0)
    => Len(given.body) = req.body

(* The records of an answered request.                                     *)
FullReply ==
  LET n == (output + MaxContent - 1) \div MaxContent
      Data(i) == IF i * MaxContent <= output THEN MaxContent ELSE output % MaxContent
  IN  [i \in 1..(n + 3) |->
         [kind |-> IF i = n + 3 THEN "END" ELSE "STDOUT",
          id   |-> cur,
          len  |-> IF i <= n THEN Data(i) ELSE 0]]

(* When END_REQUEST is in, upstream has the whole output in order, under   *)
(* the request's id, and nothing of another reply.                         *)
ReplyIsWhole ==
  (pc = "finish" /\ cur = request_id /\ fate[cur] = "answered") => reply = FullReply

(* The refinement mapping to RequestService: a pending request whose last  *)
(* record is still to be sent is arriving; the script has seen the data of *)
(* whichever requests its variables and its body come from.                *)
FateOf(r) == IF fate[r] = "pending" /\ sent < Total THEN "arriving" ELSE fate[r]

Seen == ({ given.cgi[v] : v \in Observable } \ {0})
        \union { given.body[i] : i \in DOMAIN given.body }

Service == INSTANCE RequestService
             WITH fate <- [r \in Request |-> FateOf(r)], seen <- Seen

(* The worker implements RequestService: one request at a time, no answer  *)
(* twice, before the request is complete or after it was given up, and     *)
(* none computed from another request's data.                              *)
ImplementsService == Service!Spec

(* A request that upstream has sent completely is answered, or upstream is *)
(* told (the connection closes) or has given it up itself.                 *)
EventuallySettled ==
  (cur > 0 /\ sent = Total /\ fate[cur] = "pending") ~> (cur > 0 /\ fate[cur] # "pending")
=============================================================================
