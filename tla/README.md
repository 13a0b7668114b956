# A TLA+ model of js-cgi

js-cgi runs JavaScript files as web pages, as a CGI program, as a FastCGI server with a pool of
worker processes, or under a development server of its own. Its core is `src/js-cgi.c`, with
extensions in `src/extensions/` and QuickJS as the engine. This directory models what happens in
and between those processes, checks the models with TLC, and proves with TLAPS all but one
of the safety invariants that TLC checks.

Line numbers without a file name are those of `src/js-cgi.c`.

## 1. The system

| Component | State it keeps | Operations | Talks to |
|---|---|---|---|
| FastCGI connection (1252-1555) | the flags and buffers of the request in progress, the process environment, the C stream stdin | accept, read a record, dispatch, run, write records, finish | web server over a socket; script execution by call, with the environment and two pipes |
| FastCGI master (1557-1689) | the pool: forked workers, dead workers, the listen queue | prefork, waitpid, fork again, exit | workers by fork and waitpid |
| Script execution (1060-1247) | one context, pending jobs, temporary files, loaded extensions, the clock | parse the request, load, evaluate, drain the jobs, print, unload, free, clean up | QuickJS, extensions, the request's uploads |
| Request object (441-760) | none between requests; uploads become files | build from CGI variables and body | the connection's environment and stdin |
| Response buffer (176-262, 409-440, 762-860) | headers, status, body, in buffers that grow | set a header, a status or a cookie, print, write the page or the error page | the script; the web server or the development server reads the page |
| Includes and ES modules (354-407, 862-931) | none | resolve, read | file system |
| Configuration (49-174) | one record, filled from ini files | load in order | environment |
| Command line (2109-2229) | options, the script | read the words, choose what to start | configuration; everything else is started from here |
| Development server (2038-2107) | listening socket, children, a pending signal | accept, fork, close, reap | handlers |
| One request of it (1713-2036) | buffers, two pipes, a child | read, fork and exec, feed, collect, answer | client, script |
| Session extension | the session of the process; one file per session | start, get, set, destroy | other processes through the files |
| MySQL extension | a table of 16 slots with a connection each, two counters for each slot | connect, query, exec, begin, commit, rollback, close, shutdown | the database server |
| SQLite extension | a table of slots with a database each | open, exec, query, begin, commit, rollback, close, shutdown | other processes through the locks of the library on the file |
| SMTP extension | a table of slots with a connection each | connect, send, close; send at once | a mail server, command by command |
| File, HTTP, crypto, hello extensions | none between calls | library calls | the libraries |

What is hard about it:

* **State outlives a request.** A FastCGI worker serves many requests with one environment, one
  `stdin` stream, one table of temporary files, one of extensions, one session, one table of
  database connections. Each has to be clean when the next request begins, on every path out of
  the last one.
* **Numbers stand for things.** A connection object of MySQL, SQLite or SMTP is a number of a slot;
  the slot may be given to another connection.
* **A process writes to itself.** The connection code puts the body in a pipe before anything
  reads it, and captures the output in a pipe it empties afterwards.
* **Two pipes between two processes** in the development server: who holds which end decides
  whether a read ends and whether a write kills.
* **Deaths at any moment:** workers, handlers, scripts, the peer of a connection, a database
  server in the middle of COMMIT. One pending SIGCHLD stands for many deaths.
* **Files without locks** in the session extension, and locks without waiting in SQLite.
* **A conversation read in pieces:** the SMTP client takes one read for one reply.
* **The page is decided late:** after the script come its jobs, then a second look at the clock.
* **Texts with separators in them**, taken apart and decoded in place, in buffers that grow.

What makes each component correct is in section 3, next to the run that checks it.

## 2. The modules

| Module | Models | Proofs |
|---|---|---|
| `RequestService` | what a FastCGI worker promises a web server | |
| `FcgiConnection` | `fcgi_handle_connection`, its record reader and writer, the part of `execute_script` it depends on, its restart | `FcgiConnection_proofs` |
| `ListenQueue` | the queue of a listening socket, which both servers accept from | `Servers_proofs` |
| `FcgiMaster` | `run_fastcgi` after `listen` | `Servers_proofs` |
| `ScriptEngine` | `execute_script`, uploads, `move`, extensions | `ScriptEngine_proofs` |
| `RelayLife` | what the processes of one development request promise the server and the client | |
| `ScriptRelay` | `handle_request`, `serve_static` and the script's process | `ScriptRelay_proofs` |
| `Descriptors` | which processes of the development server have a connection | |
| `DevServer` | `run_dev_server`, `reap_children` | `Servers_proofs` |
| `Session` | the session extension in several processes | `Session_proofs` |
| `MySQL` | the mysql extension over the requests of a worker, and its server | `MySQL_proofs` |
| `SQLite` | the sqlite extension in several processes on one file | `SQLite_proofs` |
| `Smtp` | the smtp extension, the mail server and what is between them | `Smtp_proofs` |
| `NameValue` | `fcgi_decode_name_value` | |
| `Params` | the web server that writes the variables `NameValue` reads | `FcgiConnection_proofs` |
| `RequestText` | `url_decode`, `parse_query_string`, cookies, the multipart parser | |
| `Assignments` | the browser that writes the query strings, forms and cookies `RequestText` reads | `ScriptEngine_proofs` |
| `Parts` | the browser that sends the parts of a multipart body | `ScriptEngine_proofs` |
| `Response` | the response buffer, the page, and how `handle_request` takes it apart | |
| `Page` | the script that makes a response with the calls of `Response` | `ScriptEngine_proofs` |
| `Settings` | `config_load`, the loop over `argv` | |
| `Start` | the administrator who writes the command line and the ini files `Settings` reads | `ScriptEngine_proofs` |
| `Texts` | the variables that the writers `Params`, `Assignments`, `Parts`, `Page` and `Start` share | |
| `MCText` | all these writers within bounds | |
| `MC*` (others) | constants for TLC, and properties that the documentation states | |

`RequestService` and `RelayLife` are abstract: `FcgiConnection` and `ScriptRelay` are shown to
implement them under refinement mappings (`ImplementsService`, `ImplementsLife`). The modules meet
at these seams:

* `FcgiMaster` sees a worker as idle, serving or dead and a connection as held or not;
  `FcgiConnection` is the inside of "serving" (`Return` in the one is a connection closed in the
  other, `BusyDies` is `Killed`).
* `FcgiConnection` sees an execution as one step that reads the body and yields an output;
  `ScriptEngine` is the inside of that step. What is in the PARAMS records is in `NameValue`, what
  is in the body is in `RequestText`, what is in the output is in `Response`.
* `ScriptEngine` loads and unloads extensions; `Session`, `MySQL`, `SQLite` and `Smtp` begin with
  their `init` and end with their `shutdown`, in one process or in several.
* `DevServer` sees a handler and its script as `RelayLife` describes them; `ScriptRelay` is the
  inside. The script's own process runs what `ScriptEngine` describes, once.

In each module an operator `X_how` is the action or helper `X` with a plausible mistake. No
specification uses one; it documents which mistake each property is there to catch.

### State and code

**FcgiConnection.** The wire is reliable and ordered, so it is two positions in the record stream
of the request in progress (`sent`, `recvd`). `request_id`, `params_buf`, `stdin_buf`,
`params_done`, `stdin_done`, `keep_conn` are the code's variables. `env` is the process
environment, each variable with the request that set it; `stdio` is the stream stdin with its
buffer and end-of-file flag. `given` records what the script got, `reply` what upstream received.
`ReadRecord` has one case per record type (`ReadBegin`, `ReadParams`, `ReadParamsEnd`, `ReadStdin`,
`ReadStdinEnd`), then come `DispatchScript` (setenv, pipe, dup2), `Run` (with the request body read through
`Fread`), `WriteOutput`, `WriteEndOfStream`, `WriteEndRequest`, `Finish` (unsetenv, reset).
Upstream may close, reset or abort between any two records, and the worker may be killed.
Values of variables and bytes of bodies are tagged with their request; sizes are in units.

**FcgiMaster.** Workers are interchangeable, so the idle ones are counted; `conn` and `queue` are
the connections and the listen queue. `failed` and `deaths` are history.

**ScriptEngine.** `phase` is the place in `execute_script`. Files are numbered as they are
created; `tracked` is `g_temp_files`, `given` what the script knows, `moved` what it has moved;
`late` is history, the files of a request that found the table full.
The script is an arbitrary process that moves uploads, adds jobs, throws, ends or loops; a module may
also fail to compile or link, or reject its promise, which `execute_script` does not look at. A job may
fail. `over` is the clock past the limit, and `stopped` records that the interrupt handler acted.

**ScriptRelay.** `holders[e]` is the set of processes with descriptor `e`: fork copies, `close`
and exit drop. From it follow end of file (no writer left) and SIGPIPE (no reader left). The
handler's and the script's steps interleave freely with the client's. Bytes are counted:
`bodyIn` is `body_len`, `resp` is `resp_total`, what is in a pipe is a difference of counters.

**DevServer.** `holders[c]` and `listeners` again follow descriptors through fork. `pending` is
the one SIGCHLD the kernel keeps, `reaping` the signal handler, which stops the main loop.

**Session.** `dir` maps a session to a file (an inode), `disk` is the text in each; a text is a
sequence of cells that parses only when it is whole. `fopen("wb")` and the write are two steps,
the read is three (`fopen`, size, read), and a file unlinked lives on for those who have it open.
`FailMay` lets `JSON_Stringify`, `fopen`, `fread`, `fputs` and `unlink` fail, none of which the code
asks about, and processes die: `kept` is what has been saved of a session, `disturbed` are the
sessions that a failure has spoiled.

**MySQL.** `g_conns[i]` is the handle in a slot, `g_last[i]` the statement that `g_last_insert_id`
and `g_last_affected` are about (the code sets both at once), `objects` the connection objects the
script holds: the `_id` of each and, as history, the handle it was made for. A handle is numbered
by `mysql_init`; `link[h]` says whether its connection is open, has a result waiting to be read, is
lost or closed. The server is external: `txn`, `pending` and `db` are what it keeps of
transactions. `stmts` and `belief` record what the script was told, `strayed` that it has used an
object of a connection it had closed and whose slot is another's. Each method is an action that
fails or succeeds as a whole, except `commit`, where the connection may be lost with the
transaction committed or not.

**SQLite.** Several processes have one file, whose content is a counter `value`. A call is split
where the library takes a lock: `share`, `reserve`, `exclude`, `write`, `written`, then
`finalize`. The library is external: the locks of a rollback journal, and no busy handler, as
`sqlite.c` sets none. `active` counts statements not finalized, `view` is the counter a transaction
sees. `promised`, `owed` and `survived` are the additions that scripts were told of, will be told
of, or died before they heard of. There is one database object per process, since the table of
slots is that of MySQL.

**Smtp.** `pc` is the reply the client is waiting for, `stage` what the server expects next,
`input` and `output` are the two directions of the connection; a reply is one or more pieces with
the code each starts with, and a read takes whatever has arrived, as `smtp_read_response` does.
`envelope` and `text` are what the server has of the next message. `instep` records that so far
every reply was read as one, `told` and `accepted` compare what the script believes with what the
server has.

**NameValue, RequestText, Settings, Response** are functions on sequences. `NameValue` has bytes
with a reduced high bit (`Half` for 128); `RequestText` and `Response` have sequences of characters,
of which some have names ("NUL", "CR", "LF"), and stand for a multipart header or an attribute of
a cookie by a single character. In `Params`, `Assignments`, `Parts`, `Start` and `Page` someone
writes a `text` one item after the other and keeps beside it what it says, `said`; the properties
compare what the code reads with what was said. Decoding and splitting are the code's, in its order;
writing is the format's, so neither is derived from the other. Each of the five is a specification
of its own (`ParamsSpec`, `AssignmentsSpec`, `PartsSpec`, `StartSpec`, `PageSpec`), without a bound
on lengths or numbers, and it is about these that there are theorems; `MCText` puts the same actions
under bounds. `NeatSpec` is `PageSpec` for a script of which no header, status or cookie has a CR or
LF in it: the code writes them as they are, so one that has starts a line of its own.

**Response.** A buffer is its contents and its capacity. `Held` is what of a write finds room: where
growth falls short of what the code copies, the rest is gone. `HeaderLines` and `Answer` are the
development server's reading of the same page.

## 3. The runs

Passing runs; each is a complete search of its bounded state space.

| Run | Question | States |
|---|---|---|
| `fcgi_connection` | Do requests of one worker see each other? Is each answered once, wholly, or lost with its connection? | 855 000 |
| `fcgi_master` | Is the pool restored, and every queued connection served, whatever dies when and whichever fork fails? | 10 000 |
| `script_engine` | Are files, extensions and jobs accounted for on every path, and the right page printed? | 654 000 |
| `script_relay` | Can handler and script wait for each other? Do body and page arrive whole? | 55 000 |
| `dev_server` | Who holds which connection; are children reaped; does a held request hold up others? | 22 000 |
| `session` | Do sessions mix; what survives overlapping requests? | 2 350 000 |
| `mysql` | Does an object reach its own connection? What of a transaction is in the database? Is anything left open? | 1 830 000 |
| `sqlite` | Is an addition ever lost or made twice? Does anybody keep a lock? | 670 000 |
| `smtp` | Is a message that was sent accepted, as it was meant? Does a call return? | 406 000 |
| `text` | Is a text read as it was meant, and a page answered as it was made? | 559 000 |

**fcgi_connection.** `CgiIsOwn`, `BodyIsOwn`, `BodyIsWhole`: what a script is given is its own
request's, all of it. `ReplyIsWhole`: when END_REQUEST is in, upstream has the whole output in
order, in chunks of at most the record size. `ImplementsService`: refinement of `RequestService`.
`EventuallySettled`: a request sent completely is answered or lost. Bounds: three requests (one
that leaves something, one between, one that could find it), bodies of 0-2 and outputs of 0-3 units
with chunks of 2, so that outputs are below, at and above a chunk and the pipe is exactly full.
`CONTENT_LENGTH` is absent or exact (`ExactLengths`); what happens otherwise is described below.

**fcgi_master.** Two workers, four connections of which one is never released, a queue of two,
three deaths, any fork failing. `PoolAccounted`: living, dead, being replaced and lost to a failed
fork add up to the forks of the prefork loop. `PoolRestored` and `QueueServed` are liveness;
`ExitIsFinal` is proved. `QueueServed` excepts a pool that failed forks
have left with no more workers than connections are held: with two workers and one connection held,
one failed fork is enough. Three deaths are one more than there are workers, so a
replacement dies too; four connections fill the queue while both workers are busy.

**script_engine.** Two executions in one process, three uploads, a table of two, two extensions, two
jobs, modules or plain scripts, both disks full or not. `NoTempLeft`, `UploadsAvailable`,
`ExtensionsInContext`, `PageIsRight` (a response is printed when no job is left, and what the time
limit stopped is reported as timed out, unless all it did was to reject a module's promise, and
nothing else is before its time), `ExecutionEnds`. A third upload of a request finds the table full and
stays for good, which `NoTempLeft` says. The second
execution is what finds state the first left. The time limit is positive: without one a script may
run for ever, as the documentation of the setting implies.

**script_relay.** A body of up to 3 and a page of up to 4 bytes with pipes of 2, room for 2 bytes
of body beside the head, and a response buffer of 3: both pipes overflow, a body comes in several
reads, and a page is too large. Failing `pipe` and `fork`, crashes of the script, and a client that
shuts down or leaves at any moment. `BodyIsWhole`, `PageIsWhole`, `Answered`, and
`ImplementsLife`, which says among other things that both processes end. The argument for the
absence of a deadlock needs that what can arrive with the head fits in a pipe
(`HeadRoom <= PipeCap`: 65535 against 65536 bytes); it is an assumption of the module, since a
script that is told no length does not read.

**dev_server.** Three connections, one held, a queue of two, failing `accept` and `fork`.
`OwnConnection`, `ZombiesReaped`, `ConnectionEnds` (with its socket), `QueueServed`. Two connections
that are not held can die together, which is what coalesced signals need.

**session.** Two processes, two ids, four requests, two sets, crashes, and every call on a file
failing. `SessionIsOwn`, `OwnWritesSeen`, and `SerialSessionKept`: without overlap a script finds what
was saved before it, and nothing else. Saved is less than set: a `set` whose object has no JSON text, or
whose `fopen` fails, returns as if it had saved, and the property says that the session is then what it
was. It excepts a session of which a write was cut short by a full disk or a death, or a read or an
unlink failed. With overlap updates do get lost; nothing documents otherwise. Four requests allow two
that overlap, one that looks at the result and one in another session; the second set is the one that
can lose or shorten the first. `session_destroyed` has three of each and no failures.

**mysql.** Two slots, two requests, three connections, two statements. `LiveObjectsOwn`: an object
that was not closed reaches its own connection. `NoConnectionLeft`: between requests everything is
closed, also what failed to connect and what the script forgot. `TransactionsWhole`: what was
promised is in the database, what was dropped is not, unless the script strayed.
`CountersOwnRequest`. Three connections and two slots let a slot be taken again while an old object
still names it; two statements are enough for one in a transaction and one beside it; the second
request finds what the first left.

**sqlite.** Three processes (symmetric) and a counter up to 3. `NoLostUpdate`, `IdleHoldsNoLock`.
With three, one can hold the shared lock that turns a COMMIT away while another waits behind the
pending lock. Every refusal, a COMMIT tried again, a transaction given up, and a death at every
step happen in the run.

**smtp.** Two messages over one connection or each over its own, replies of up to three lines in up
to three pieces, refusals of any command, a server that hangs up at any time, bodies with and
without a line that is a dot. `MessagesOwn` holds as long as client and server are in step,
`SendReal` then and for the first message of a connection always; the properties say so, because
the code reads once and takes what it gets for the reply. `CallsReturn` likewise: out of step both
may wait for ever. The second message is the one that can find an envelope of the first.

**text.** One behaviour for each text up to the bound. `PairsDecoded`: CGI variables whose lengths
take one byte or four, with names and values that look like lengths, up to 3 pairs; `Half` is 4, so
that lengths 3 and 4 are the two sides of the boundary at 128, and the array of `MaxParams = 5`
entries has no room for the third pair. `AssignmentsParsed`: queries and cookies up to 8 characters, plain
or encoded, separators and NUL among them. `MultipartParsed`: bodies with up to 5 characters of
data, where line ends, dashes and the beginning of the boundary may be data, and files at, below
and above `upload_max_filesize` (2); every body also breaks off after each of its bytes, and is then
followed by a NUL and by what the memory held before, which is nothing, or another body in the same
place or nine bytes on. The parts that are whole come first and unchanged; that there are no others is
said of a body that has arrived to its end only, since in the run the rest of another body does make
parts of one that has not (591). `StartsAsTold`: up to 4 options, words and lines, options before
and after the script, a number of workers below, at and above its limits, and an extension list of
2 that overflows. `BuffersHold` and `AnsweredAsMade`: up to 3 calls on buffers that start at 8 and 4
with header lines of at most 15 characters, which are cut at, or grow past, each of them; texts
printed may look like the end of the headers. The first says what the two buffers hold, the second
what the development server makes of the page that is printed from them.

### Runs that end in a violation

Each states something the documentation says, and TLC shows a behaviour of the code that
contradicts it.

| Run | Said | The code |
|---|---|---|
| `fcgi_large_body` | uploads up to 2M (README.md:476-477) | a body larger than a pipe (64 KiB) blocks the worker for ever at 1487 |
| `session_destroyed` | destroy ends the session (README.md:354) | a request that had started it earlier brings its data back with its next set (session.c:187-194) |

### Other things noticed

There is no run for these. The models contain those marked (m), and their properties are stated so
that the exception is visible; the others are abstracted.

*FastCGI and scripts.*
* (m) An output larger than a pipe blocks the worker at 1502, although print takes any string
  (README.md:250-251).
* (m) With a CONTENT_LENGTH below the STDIN data the rest stays in the buffer of the stream (527)
  and reaches a later request. Without CONTENT_LENGTH a body is not given to the script (519).
* (m) Uploads past the 64th of a request are never removed (36), while upload_dir is said to be for
  temporary files (js-cgi.ini:18). `fwrite` and `fclose` are unchecked where uploads are stored and moved
  (331, 698), so a full disk makes a short file.
* (m) A module that throws, or is stopped by the time limit, answers with a normal response when that
  only rejects its promise (1168), although errors are to be shown (js-cgi.ini:6-9). An error of a script
  that comes after the limit is called a time-out (1184). With `max_execution_time = 0` every error is called a time-out (1184).
* (m) A fork that fails is not repeated (1665).
* (m) The multipart parser goes on to `CONTENT_LENGTH` (591), also over bytes of memory that the body
  has not filled because it broke off (528-531).

*Development server.* (m) Pages are cut at 1 MiB (1976); there is no answer when there is a
body to write and the script ends without having read it, or its fork fails (SIGPIPE at 1967); a script reads the server's own stdin
when a CONTENT_LENGTH comes without a body (1877); a script's own Status header is not passed on.

*Extensions.*
* (m) `session.set` returns normally when nothing was saved, or a part (session.c:80-82, 193); a read or
  an unlink that fails is not reported either.
* A `connect` of MySQL looks for its slot (mysql.c:480) before it converts its arguments (485-493); a
  connect that such a conversion makes takes the same slot. `Connect` is one step of the model.
* (m) A MySQL object used after its `close` may reach the connection that has its slot now. An `exec`
  without parameters of a statement that has a result leaves it unread, and the next call on the
  connection fails.
* (m) SQLite's `tableExists` and `queryOne` take SQLITE_BUSY for "no row" (sqlite.c:390,
  README.md:372). `exec` runs the first statement only, and what `finalize` returns is not read.
* (m) SMTP: a reply in two pieces puts the client out of step, there is no RSET after a send that
  failed, no doubling of leading dots, no time-out, and SIGPIPE is not ignored.

*Rows and lines, not modelled.* A MySQL row that does not fit its buffers ends the rows without an
error. SMTP headers of more than 4096 bytes are cut.

*Texts.* `--serve` and `--fastcgi` take the next word for a port (m), although the help shows it as
optional. A multipart header with `filename` before `name` is misread. A line of an ini file longer
than 1023 characters is two lines. An extension named in both ini files is loaded twice (m).
`setCookie` encodes nothing. A script that fails under the command line prints CGI headers.

### Fairness

* `FcgiConnection`: the worker is a process that runs when it can, and the master restarts it.
  Nothing is assumed of upstream, and no crash has to happen.
* `FcgiMaster`: master and idle workers run; connections that are not in `Held` are let go.
* `ScriptEngine`: the host code runs and time passes. The script is not fair: it may loop.
* `ScriptRelay`: handler and script run; the client sends what it has announced or closes (a client
  that does neither is waited for without limit, the code has no time-out). A client that stays
  takes what it is sent.
* `DevServer`: server, signal handler and children run; requests not in `Held` end, as `RelayLife`
  says they do.
* `Smtp`: the client runs, and the server answers each complete command or hangs up.
* `Session`, `MySQL`, `SQLite` and `MCText` have no liveness property: no code there waits. (A busy
  database is an answer, and that a script which tries again succeeds in the end is not promised.)

All are weak fairness of a process that the kernel schedules; none is about a choice the code
makes. Deadlock is not checked (`CHECK_DEADLOCK FALSE`): every model may stop when its bounded
number of requests, statements or characters is used up, and the worker, or an SMTP call out of
step, may really block. The liveness properties say instead that nothing stops too early.

## 4. The proofs

For every value of the constants that satisfies the modules' assumptions. Every theorem is
`Spec => []P`, or `Spec => P` for a refinement or an action property; the specification of the
texts is `ParamsSpec`, `AssignmentsSpec`, `PartsSpec`, `PageSpec`, `NeatSpec` or `StartSpec`.

| Module | Theorem | Property | Further assumption |
|---|---|---|---|
| `FcgiConnection_proofs` | `TypeCorrect` | `TypeOK` | |
| | `CgiCorrect` | `CgiIsOwn` | |
| | `BodyCorrect` | `BodyIsOwn` | `ExactLengths` |
| | `BodyWhole` | `BodyIsWhole` | `ExactLengths` |
| | `ReplyCorrect` | `ReplyIsWhole` | |
| | `Implements` | `ImplementsService` | `ExactLengths` |
| | `ParamsCorrect` | `PairsDecoded` | |
| `Servers_proofs` | `TypeCorrect`, `PoolCorrect`, `ExitCorrect` | `TypeOK`, `PoolAccounted`, `ExitIsFinal` | |
| | `DevTypeCorrect`, `DevConnectionsCorrect` | `TypeOK` and `OwnConnection` of `DevServer` | `Dev!ConstantsOK` |
| `ScriptEngine_proofs` | `TypeCorrect`, `ExtensionsCorrect`, `UploadsRemoved`, `UploadsFound`, `PageCorrect` | `TypeOK`, `ExtensionsInContext`, `NoTempLeft`, `UploadsAvailable`, `PageIsRight` | |
| | `BuffersCorrect` | `BuffersHold` | |
| | `NeatCorrect` | `AnsweredAsMade` | `Digits`: no number is written as a line end |
| | `StartCorrect` | `StartsAsTold` | |
| | `PartsCorrect` | `MultipartParsed` | |
| | `AssignmentsCorrect` | `AssignmentsParsed` | |
| `ScriptRelay_proofs` | `TypeCorrect`, `BodyCorrect`, `PageCorrect`, `AnswerCorrect` | `TypeOK`, `BodyIsWhole`, `PageIsWhole`, `Answered` | |
| | `LifeCorrect` | the safety part of `ImplementsLife` | |
| `Session_proofs` | `TypeCorrect`, `SessionsCorrect`, `WritesCorrect`, `SerialCorrect` | `TypeOK`, `SessionIsOwn`, `OwnWritesSeen`, `SerialSessionKept` | |
| `MySQL_proofs` | `TypeCorrect`, `ObjectsCorrect`, `NothingHeld`, `CountersCorrect`, `TransactionsCorrect` | `TypeOK`, `LiveObjectsOwn`, `NoConnectionLeft`, `CountersOwnRequest`, `TransactionsWhole` | |
| `SQLite_proofs` | `TypeCorrect`, `UpdatesCorrect`, `IdleCorrect` | `TypeOK`, `NoLostUpdate`, `IdleHoldsNoLock` | |
| `Smtp_proofs` | `TypeCorrect`, `SendCorrect`, `MessagesCorrect` | `TypeOK`, `SendReal`, `MessagesOwn` | |

*FcgiConnection.* `CgiIsOwn` is about what a script was given; why it holds is in the environment
before that, and in which records have been read when. The inductive invariant `IInv` is the
conjunction of `Typed`; `Control` (how `pc`, the two record positions, the flags, the link and the
fate of the request fit together); `Params` and `Body` (the buffers hold exactly what has been
read, and are empty between requests); `Environment` (empty until dispatch, exactly the request's
variables while it runs, and after the reply only variables that `Finish` will unset); `Counts`;
`Given`. `BodyGiven` adds that the stream is fresh whenever no script runs. This is where
`ExactLengths` is needed: otherwise a rest of one body is read with the next. The refinement follows
step by step: each action maps to `Submit`, `Arrive`, `Execute`, `Answer`, `GiveUp` or a stutter of
the abstract specification.

`ReplyIsWhole`: the records received are at any time a prefix of the full reply, `RecordOf(1)` to
`RecordOf(Chunks + 3)`, and as many as `written` says (`Sending`); the lemmas about quotients say
which record comes next when the output is a multiple of a record, and when it is not.

*FcgiMaster and DevServer.* The two specifications are separate and share `ListenQueue`.
`Servers_proofs` has `DevServer` under the name `Dev`, so what that module assumes
of its constants is a hypothesis there. `PoolAccounted` is inductive with the types and with `QueueExact`,
which says no more than what the kernel's queue does and is a lemma here (`QueueAlways`): accepting moves a
worker from `idle` to `Serving`, so the proof is about the cardinality of `Serving` when one
connection enters or leaves. `ExitIsFinal` follows from it at the moment of `Exit`.

`OwnConnection` is inductive with the types and with what the server itself holds in each state of
its loop (`ServerHolds`).

*ScriptEngine.* Extensions: `loaded` without repetition below `next_ext`, and equal to `inited` while
there is a context. Files (`FilesInv`): every file on disk that is no orphan and not late is tracked, and
a request tracks as many as it has stored, until the table is full. The page: no job is left where the
result is no exception, and nothing is printed before. The time limit (`TimeInv`): a script that it
stopped has `over` for good, so the second look at the clock finds it so, and `over` is asked before
a time-out is printed.

*ScriptRelay.* `holders` is not free: `Held` computes it from where handler, script and client
are, and `IInv` says that it is so (`WordsOK`, `NumbersOK`, `Control`, `holders = Held`). With it
each end of file and each SIGPIPE is a fact about program counters. `BodyInv` and `PageInv` follow
the bytes from one counter to the next.

*Session.* Each file ever made belongs to one session: `OwnInv` says that such a map of files to
sessions exists, so that whatever is read from a session's file was written for that session, by
whomever, over whatever and however much of it (`CutProperties`). `SerialInv` says of a session no two requests have overlapped in that
its file has exactly what was kept, or is in the hands of the one process that writes it.

*MySQL.* `TableInv`: a handle is in one slot, what is in a slot is not closed, what is not closed is
in a slot. `TransInv` relates what the server keeps to what the script believes, connection by
connection, and holds up to the first stray use.

*SQLite.* `IInv` has the compatibility of the locks (`Compatible`), which lock goes with which step of
a call, and what a writer sees: the value of the file and its own additions (`ViewInv`). A process
that is idle has no transaction and no statement, so `sqlite3_close` did what it is there for.

*Smtp.* What was accepted is settled long after client and server were where they could go wrong, so
the invariant says where they are, twice. `InStep`: while every reply has been read whole, the
command of the step the client is in is on its way, or its reply, and nothing else. `FirstMail`:
before the first message of a connection, nothing of a message is on the way; while its envelope
is written, the server grants no text before it has all of it. The replies of that message may come
in any pieces, so `FirstMail` says nothing of how many are unread. There is one lemma for each action.

*Variables of a request* (`ParamsCorrect`). `Written`: the variables stand in the text one after the
other, each as two lengths in one of their forms, the name and the value. One iteration of the loop
reads the next (`PairRead`, from `LengthRead`, where the byte form and the 32-bit form are told apart
by the high bit), if it is whole and there is room; so `c` iterations have read the first `c`
variables or as many as there are. The theorem is for every prefix of the text.

*Buffers* (`BuffersCorrect`). `Grown` doubles the capacity until the text and its NUL fit, so what is
held is what was there and what is added. Each call adds its part to the headers or to the body;
a call more is a part more at the end of what all calls together say.

*The page as it is answered* (`NeatCorrect`). `AnsweredAsMade` is not inductive: it does not say where
the lines of a head are. `Headed` does: one line after the other, each with its CR LF, and nothing
else. `NeatInv` says that the buffer of headers is a head whose lines, but for those named `Status`,
are the ones that were asked for, one for one and in their order (`AsAsked`), and that status and
type are those of the calls. Every call adds one line or none (`HeaderMade`, `CookieMade`,
`RowAdded`); `response_output` puts its own lines before them, and heads put together are a head
(`HeadJoin`). No line is empty or breaks, so the first CR LF CR LF of the output is the end of the
head, whatever is printed (`EndFound`), the next CR LF of a line is its own end (`LineEnd`), one turn
of the loop of `handle_request` reads one line (`NextLineRead`), and `AnswerIs` puts this together.
`Digits` is there because `ToString` is, to the prover, some string: a length must not be a line end.

*Command line and ini files* (`StartCorrect`). `AsWritten`: options stand one after the other, then the
script and its arguments. One turn of the loop over `argv` reads the next option and gets what the
last options so far say (`OptionRead`); the first word of the script ends it. A file with one line
more has that line read last (`LoadAppend`), so two files are read like one with the lines of both
(`LoadJoined`), and the settings are as the last lines ask for (`LoadsAskedFor`), the extensions up
to the limit.

*Multipart bodies* (`PartsCorrect`). What could go wrong is that something in the data is taken for a
boundary, or something between the data and the boundary for data. `Fits` is `memmem` character by
character. In what has arrived of a body, the next boundary is found where a part begins and nowhere in
the part, because its data has none and none can begin in the data and end behind it, the CR LF
behind the data being in no boundary (`FindBoundary`). So one turn of the loop reads the next part
if it is whole, one CR LF and no more being taken off its data (`PartRead`), and stays where it is
otherwise (`PartNotRead`); `c` turns have read the first `c` parts or all that are whole. That is so
up to the last byte that has arrived. Behind it the memory may hold anything: the scan of it exists
(`SomeScan`), and whatever it finds it only adds to what was read before (`BegunStays`). The
invariant (`BodyInv`) says only that the text is what was said and that no data has a boundary; the
theorem is for every prefix of the text and every content of the memory (`Memory`, of which nothing is
assumed).

*Query strings, forms, cookies* (`AssignmentsCorrect`). The property itself is not inductive: it does
not say how the text was cut. `AssignmentsInv` says of the tokens before the last that they are read
as the pairs before the last, and of the last token that it is what stands for the last pair: its
space if it is a cookie, its name and value character by character, plain or escaped (`Encoding`,
which says where in the text each character stands), and its `=`. Nothing in an encoded name or value
is a separator, an `=`, a space or a NUL (`Safe`), so a character more makes the last token longer and
cuts nothing (`SplitJoin`), the first `=` is the one that was meant (`EqualsAt`), and decoding gives
back the characters (`DecodeIs`). Decoded before it is cut, a text would not be read so:
`Query_decoded_first` is that mistake.

The last six are about loops over texts of any length, and need induction. The library's
induction theorems take an operator as a parameter, which the provers cannot instantiate; `NatSet`
is induction for a set of numbers that is given, proved from a minimal element of its complement.
`Recursion` says from it that a function defined by recursion exists; the loops are written as such
functions, `f[i \in 0..n] == ...`, or with a fold that is one (`Fold`, `FoldAppend`).

Only model-checked: all liveness (`EventuallySettled`, `PoolRestored`, `QueueServed`,
`ExecutionEnds`, the fair part of `ImplementsLife`, `ZombiesReaped`,
`ConnectionEnds`, `CallsReturn`), which with ENABLED is out of the prover's reach altogether.

## 5. Not modelled

* Includes and ES modules: a path is joined to a directory, cleaned and given to the C library, and
  the file is read. No state is kept; which modules are loaded is QuickJS's business.
* File, HTTP, crypto and hello extensions: single library calls with no state between them.
* The extension API header: declarations; its entry points are the `init` and `shutdown` of the
  modules above.
* QuickJS, libc, the kernel and the clients' libraries of MySQL and SQLite: external, modelled as
  far as js-cgi uses them (promise jobs, the interrupt handler, stdio buffering of stdin, pipes,
  fork, signals, locks, transactions).
* Of the request object: names of headers, which are copied from `HTTP_*` variables with a change
  of case, and the path, which is the URI up to "?". Which process they come from is modelled
  (`CgiIsOwn`).
* Of MySQL and SQLite: bound parameters and the conversion of columns; the SQL is what it does.
* Of SMTP: several connections at a time (their slots are as in MySQL), the bytes of TLS.
* Socket set-up, MIME types, error texts, logging: no concurrency and no state.
* Request heads longer than `request_buf`, a reset that makes a client lose a reply already
  written, texts of sessions that need several writes, a cookie longer than its buffer.

## 6. What could come next

1. The head of a request from the wire to the `headers` object: the development server's parser,
   the environment it makes, the names of headers made of it again.
2. Several SMTP connections in one process.
