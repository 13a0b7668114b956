---------------------------- MODULE ScriptRelay -----------------------------
(***************************************************************************)
(* One request to the development server (handle_request): the handler, a  *)
(* child of the server, reads the request, starts the script in a child of *)
(* its own, writes the body to it through one pipe, collects its page from *)
(* another and answers the client.  The script (execute_script in a fresh  *)
(* process, ScriptEngine has the inside of that) reads the body it was     *)
(* told of, then writes its page.                                          *)
(*                                                                         *)
(* A read of a pipe ends, and a write to it kills, only when no process    *)
(* holds its other end: holders records who has which descriptor, as fork  *)
(* copies them and close drops them.                                       *)
(*                                                                         *)
(* A request is three pieces of head (the request line, the headers, the   *)
(* empty line) and bytes of body, a page is bytes of which the first is    *)
(* its head; only their numbers matter.                                    *)
(*                                                                         *)
(* An operator named X_how is X with a plausible mistake, kept beside it   *)
(* for the properties to be tested against; no specification uses it.      *)
(***************************************************************************)
EXTENDS Naturals, FiniteSets

CONSTANTS
  MaxBody,      \* bound: bytes of body, and the largest CONTENT_LENGTH
  MaxOutput,    \* bound: bytes of a page
  PipeCap,      \* capacity of a pipe (64 KiB)
  HeadRoom,     \* bytes of body that request_buf has room for (below 64 KiB)
  MaxResponse,  \* size of response_buf (1 MiB)
  ServerStdin,  \* the server's own stdin: "empty" or an idle "terminal"
  Faults        \* the faults that may happen, of {"pipe", "fork", "crash"}

ASSUME ConstantsAssumption ==
  /\ MaxBody \in Nat
  /\ MaxOutput \in Nat \ {0}
  /\ PipeCap \in Nat \ {0}
  /\ HeadRoom \in 0..PipeCap
  /\ MaxResponse \in Nat \ {0}
  /\ ServerStdin \in {"empty", "terminal"}
  /\ Faults \subseteq {"pipe", "fork", "crash"}

VARIABLES
  req,       \* the request: what its path names, CONTENT_LENGTH, body, page
  client,    \* "open", "shut" (will send no more) or "gone"
  sent,      \* pieces of head and bytes of body the client has sent
  hpc,       \* where the handler is
  headIn,    \* pieces of the head that the handler has read
  bodyIn,    \* body_len
  fed,       \* bytes written to the script's stdin
  resp,      \* resp_total
  reply,     \* what the handler wrote to the client
  replied,   \* bytes of page in it
  spc,       \* where the script's process is
  given,     \* bytes of body the script has read
  written,   \* bytes of page the script has written
  holders    \* the processes that have each descriptor

clientVars == <<req, client, sent>>
inputVars == <<headIn, bodyIn>>
replyVars == <<reply, replied>>
scriptVars == <<spc, given, written>>
vars == <<clientVars, hpc, inputVars, fed, resp, replyVars, scriptVars, holders>>

Lesser(m, n) == IF m < n THEN m ELSE n

Ends == {"inR", "inW", "outR", "outW", "client"}
Head == 3

Files == {"script", "unreadable", "static", "missing"}

(* Only an existing script writes more than a short page.                  *)
Requests ==
  [file : {"script"}, length : 0..MaxBody, body : 0..MaxBody, output : 1..MaxOutput]
    \cup [file : Files, length : 0..MaxBody, body : 0..MaxBody, output : {1}]

(* The CONTENT_LENGTH that the handler finds among the headers it has.     *)
Length == IF headIn >= 2 THEN req.length ELSE 0

Piped == bodyIn > 0
InPipe == fed - given
OutPipe == written - resp

HandlerOver == hpc \in {"ended", "killed"}
ScriptOver == spc \in {"done", "killed", "crashed"}

Drop(p, ends) == [e \in Ends |-> IF e \in ends THEN holders[e] \ {p} ELSE holders[e]]

Init ==
  /\ req \in Requests
  /\ client = "open"
  /\ sent = 0
  /\ hpc = "head"
  /\ headIn = 0
  /\ bodyIn = 0
  /\ fed = 0
  /\ resp = 0
  /\ reply = "none"
  /\ replied = 0
  /\ spc = "none"
  /\ given = 0
  /\ written = 0
  /\ holders = [e \in Ends |-> IF e = "client" THEN {"handler"} ELSE {}]

-----------------------------------------------------------------------------
(* The client.                                                             *)

ClientSends ==
  /\ client = "open"
  /\ sent < Head + req.body
  /\ sent' = sent + 1
  /\ UNCHANGED <<req, client, hpc, inputVars, fed, resp, replyVars, scriptVars, holders>>

(* It may shut its side down and wait for the reply, or go away.           *)
ClientCloses ==
  /\ client # "gone"
  /\ client' \in {"shut", "gone"} \ {client}
  /\ UNCHANGED <<req, sent, hpc, inputVars, fed, resp, replyVars, scriptVars, holders>>

-----------------------------------------------------------------------------
(* The handler.                                                            *)

(* A reply of n bytes of page, then the end of the process; the client     *)
(* takes what it is sent, and a write to a client that is gone may kill.   *)
Finish(r, n) ==
  /\ reply' = r
  /\ replied' = n
  /\ hpc' \in IF client = "gone" THEN {"ended", "killed"} ELSE {"ended"}
  /\ holders' = Drop("handler", Ends)

(* read until the head is complete or the client has closed; what arrived  *)
(* with the end of the head is the first part of the body.  Nothing at all *)
(* ends the handler, a cut head does not.                                  *)
ReadHead ==
  /\ hpc = "head"
  /\ \/ /\ sent >= Head
        /\ headIn' = Head
        /\ bodyIn' = Lesser(sent - Head, HeadRoom)
        /\ hpc' = "route"
        /\ UNCHANGED holders
     \/ /\ sent \in 1..(Head - 1)
        /\ client # "open"
        /\ headIn' = sent
        /\ hpc' = "route"
        /\ UNCHANGED <<bodyIn, holders>>
     \/ /\ sent = 0
        /\ client # "open"
        /\ hpc' = "ended"
        /\ holders' = Drop("handler", Ends)
        /\ UNCHANGED inputVars
  /\ UNCHANGED <<clientVars, fed, resp, replyVars, scriptVars>>

(* The path names nothing and there is no router.                          *)
NotFound ==
  /\ hpc = "route"
  /\ req.file = "missing"
  /\ Finish("not found", 0)
  /\ UNCHANGED <<clientVars, inputVars, fed, resp, scriptVars>>

(* serve_static, which has its own reply for a file it cannot open.        *)
ServeStatic ==
  /\ hpc = "route"
  /\ req.file = "static"
  /\ \/ Finish("static", 0)
     \/ Finish("not found", 0)
  /\ UNCHANGED <<clientVars, inputVars, fed, resp, scriptVars>>

(* The path, or the router, names a script; nobody has looked whether it   *)
(* can be read.  The headers are searched for what the script is told.     *)
ParseHeaders ==
  /\ hpc = "route"
  /\ req.file \in {"script", "unreadable"}
  /\ hpc' = "body"
  /\ UNCHANGED <<clientVars, inputVars, fed, resp, replyVars, scriptVars, holders>>

(* read until CONTENT_LENGTH bytes are there or the client has closed.     *)
BodyMissing == headIn = Head /\ Length > bodyIn
Arrived == Lesser(sent - Head, Length)

ReadBody_once ==
  /\ hpc = "body"
  /\ IF BodyMissing /\ Arrived > bodyIn
     THEN /\ bodyIn' = Arrived
          /\ hpc' = "spawn"
     ELSE /\ BodyMissing => client # "open"
          /\ hpc' = "spawn"
          /\ UNCHANGED bodyIn
  /\ UNCHANGED <<clientVars, headIn, fed, resp, replyVars, scriptVars, holders>>

ReadBody ==
  /\ hpc = "body"
  /\ IF BodyMissing /\ Arrived > bodyIn
     THEN /\ bodyIn' = Arrived
          /\ UNCHANGED hpc
     ELSE /\ BodyMissing => client # "open"
          /\ hpc' = "spawn"
          /\ UNCHANGED bodyIn
  /\ UNCHANGED <<clientVars, headIn, fed, resp, replyVars, scriptVars, holders>>

(* The pipes, a second one only for a body, and fork, whose failure is not *)
(* looked at.                                                              *)
Pipes == {"outR", "outW"} \cup (IF Piped THEN {"inR", "inW"} ELSE {})

Spawn ==
  /\ hpc = "spawn"
  /\ \/ /\ "pipe" \in Faults
        /\ Finish("error", 0)
        /\ UNCHANGED spc
     \/ /\ spc' = "setup"
        /\ holders' = [e \in Ends |-> IF e \in Pipes \cup {"client"}
                                      THEN {"handler", "script"} ELSE {}]
        /\ hpc' = "close"
        /\ UNCHANGED replyVars
     \/ /\ "fork" \in Faults
        /\ holders' = [e \in Ends |-> IF e \in Pipes \cup {"client"} THEN {"handler"} ELSE {}]
        /\ hpc' = "close"
        /\ UNCHANGED <<replyVars, spc>>
  /\ UNCHANGED <<clientVars, inputVars, fed, resp, given, written>>

(* After fork: the handler drops the ends that are the script's.           *)
CloseEnds ==
  /\ hpc = "close"
  /\ holders' = Drop("handler", {"outW", "inR"})
  /\ hpc' = IF Piped THEN "feed" ELSE "collect"
  /\ UNCHANGED <<clientVars, inputVars, fed, resp, replyVars, scriptVars>>

(* write the body, blocking while the pipe is full, and close; without a   *)
(* reader left SIGPIPE kills the handler.                                  *)
Feed ==
  /\ hpc = "feed"
  /\ \/ /\ fed < bodyIn
        /\ holders["inR"] # {}
        /\ InPipe < PipeCap
        /\ fed' = Lesser(bodyIn, given + PipeCap)
        /\ UNCHANGED <<hpc, holders>>
     \/ /\ fed < bodyIn
        /\ holders["inR"] = {}
        /\ hpc' = "killed"
        /\ holders' = Drop("handler", Ends)
        /\ UNCHANGED fed
     \/ /\ fed = bodyIn
        /\ hpc' = "collect"
        /\ holders' = Drop("handler", {"inW"})
        /\ UNCHANGED fed
  /\ UNCHANGED <<clientVars, inputVars, resp, replyVars, scriptVars>>

(* read the page until its end, or until response_buf is full.             *)
Collect_once ==
  /\ hpc = "collect"
  /\ \/ /\ OutPipe > 0
        /\ resp' = Lesser(written, MaxResponse)
        /\ hpc' = "wait"
        /\ holders' = Drop("handler", {"outR"})
     \/ /\ OutPipe = 0
        /\ holders["outW"] = {}
        /\ hpc' = "wait"
        /\ holders' = Drop("handler", {"outR"})
        /\ UNCHANGED resp
  /\ UNCHANGED <<clientVars, inputVars, fed, replyVars, scriptVars>>

Collect ==
  /\ hpc = "collect"
  /\ \/ /\ OutPipe > 0
        /\ resp < MaxResponse
        /\ resp' = Lesser(written, MaxResponse)
        /\ UNCHANGED <<hpc, holders>>
     \/ /\ \/ OutPipe = 0 /\ holders["outW"] = {}
           \/ resp = MaxResponse
        /\ hpc' = "wait"
        /\ holders' = Drop("handler", {"outR"})
        /\ UNCHANGED resp
  /\ UNCHANGED <<clientVars, inputVars, fed, replyVars, scriptVars>>

(* waitpid, and the page or, when there is none, a reply that says so.     *)
Respond_silent ==
  /\ hpc = "wait"
  /\ ScriptOver \/ spc = "none"
  /\ IF resp = 0 THEN Finish("none", 0) ELSE Finish("page", resp)
  /\ UNCHANGED <<clientVars, inputVars, fed, resp, scriptVars>>

Respond_at_once ==
  /\ hpc = "wait"
  /\ IF resp = 0 THEN Finish("malformed", 0) ELSE Finish("page", resp)
  /\ UNCHANGED <<clientVars, inputVars, fed, resp, scriptVars>>

Respond ==
  /\ hpc = "wait"
  /\ ScriptOver \/ spc = "none"
  /\ IF resp = 0 THEN Finish("malformed", 0) ELSE Finish("page", resp)
  /\ UNCHANGED <<clientVars, inputVars, fed, resp, scriptVars>>

-----------------------------------------------------------------------------
(* The script's process.  It is given the client's descriptor too.         *)

ScriptEnds(how) ==
  /\ spc' = how
  /\ holders' = Drop("script", Ends)

(* After fork: it drops the ends that are the handler's, and execs.        *)
Setup ==
  /\ spc = "setup"
  /\ spc' = "read"
  /\ holders' = Drop("script", {"outR", "inW"})
  /\ UNCHANGED <<clientVars, hpc, inputVars, fed, resp, replyVars, given, written>>

(* read_request_body, from the pipe or, when there was no body to pipe,    *)
(* from the stdin that the server was started with.                        *)
WantsBody == req.file = "script" /\ given < Length

Read ==
  /\ spc = "read"
  /\ IF WantsBody /\ Piped /\ InPipe > 0
     THEN /\ given' = Lesser(fed, Length)
          /\ UNCHANGED spc
     ELSE /\ WantsBody => IF Piped THEN holders["inW"] = {} ELSE ServerStdin = "empty"
          /\ spc' = "write"
          /\ UNCHANGED given
  /\ UNCHANGED <<clientVars, hpc, inputVars, fed, resp, replyVars, written, holders>>

(* The page, blocking while the pipe is full; without a reader left        *)
(* SIGPIPE kills the script.                                               *)
Write ==
  /\ spc = "write"
  /\ \/ /\ written < req.output
        /\ holders["outR"] # {}
        /\ OutPipe < PipeCap
        /\ written' = written + 1
        /\ UNCHANGED <<spc, holders>>
     \/ /\ written < req.output
        /\ holders["outR"] = {}
        /\ ScriptEnds("killed")
        /\ UNCHANGED written
     \/ /\ written = req.output
        /\ ScriptEnds("done")
        /\ UNCHANGED written
  /\ UNCHANGED <<clientVars, hpc, inputVars, fed, resp, replyVars, given>>

(* exec fails, or the process dies of something else than SIGPIPE.         *)
Crash ==
  /\ "crash" \in Faults
  /\ spc \in {"setup", "read", "write"}
  /\ ScriptEnds("crashed")
  /\ UNCHANGED <<clientVars, hpc, inputVars, fed, resp, replyVars, given, written>>

Client == ClientSends \/ ClientCloses
Handler ==
  \/ ReadHead \/ NotFound \/ ServeStatic \/ ParseHeaders \/ ReadBody
  \/ Spawn \/ CloseEnds \/ Feed \/ Collect \/ Respond
Script == Setup \/ Read \/ Write

Next == Client \/ Handler \/ Script \/ Crash

(* The client owes what it means to send and what its CONTENT_LENGTH       *)
(* promises: it goes on sending, or closes.                                *)
Owes == sent < Head + req.body \/ sent < Head + req.length

(* Processes run when they can, and the client does what it owes.          *)
Fairness == WF_vars(Handler) /\ WF_vars(Script) /\ WF_vars(Owes /\ Client)

Spec == Init /\ [][Next]_vars /\ Fairness

-----------------------------------------------------------------------------
(* Properties.                                                             *)

(* Every variable keeps its type.                                          *)
TypeOK ==
  /\ req \in Requests
  /\ client \in {"open", "shut", "gone"}
  /\ sent \in 0..(Head + req.body)
  /\ hpc \in {"head", "route", "body", "spawn", "close", "feed", "collect", "wait",
              "ended", "killed"}
  /\ headIn \in 0..Head
  /\ bodyIn \in 0..MaxBody
  /\ fed \in 0..bodyIn
  /\ given \in 0..fed
  /\ written \in 0..req.output
  /\ resp \in 0..Lesser(written, MaxResponse)
  /\ reply \in {"none", "not found", "static", "error", "malformed", "page"}
  /\ replied \in 0..resp
  /\ spc \in {"none", "setup", "read", "write", "done", "killed", "crashed"}
  /\ holders \in [Ends -> SUBSET {"handler", "script"}]

(* A client that sent its whole body has it given to the script, however   *)
(* it arrived: with the head, in pieces, or larger than the pipe.          *)
BodyIsWhole ==
  (spc \in {"write", "done"} /\ req.file = "script" /\ sent >= Head + Length)
    => given = Length

(* A page that is sent is all of the script's page, up to the size of      *)
(* response_buf, unless the script crashed: a slow script is not cut short *)
(* and not killed by the handler closing the pipe on it.                   *)
PageIsWhole ==
  (reply = "page" /\ spc # "crashed") => replied = Lesser(req.output, MaxResponse)

(* Whoever sent something is answered, also when the script crashed or     *)
(* could not be started, but for one case: the handler has a body to write *)
(* and nobody has read all of it, because the script ended or because fork *)
(* failed and there was none.  handle_request does not ignore SIGPIPE.     *)
Answered ==
  (HandlerOver /\ reply = "none" /\ headIn > 0) => Piped /\ given < bodyIn

(* The processes of a request live as RelayLife says: the two pipes never  *)
(* make them wait for each other, both end, and with them the connection,  *)
(* which is open as long as one of them lives.                             *)
Life == INSTANCE RelayLife WITH
  handler <- IF HandlerOver THEN hpc ELSE "running",
  script <- CASE spc = "none" -> "none" [] ScriptOver -> "over" [] OTHER -> "running",
  open <- holders["client"] # {}

ImplementsLife == Life!Spec
=============================================================================
