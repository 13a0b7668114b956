-------------------------------- MODULE Smtp --------------------------------
(***************************************************************************)
(* The smtp extension: a script hands messages to a mail server, over a    *)
(* connection that it keeps (smtp.connect, send, close) or that is made    *)
(* for one message (smtp.send).                                            *)
(*                                                                         *)
(* The client writes a command and takes the next read for its reply: the  *)
(* number the text starts with is the code, and all that has arrived is    *)
(* consumed.  The server and the network are external.  A reply may have   *)
(* several lines and may arrive in several pieces; the server may refuse   *)
(* any command, and may hang up at any time.                               *)
(*                                                                         *)
(* An operator named X_how is X with a plausible mistake, kept beside it   *)
(* for the properties to be tested against; no specification uses it.      *)
(***************************************************************************)
EXTENDS Naturals, Sequences

CONSTANTS
  MaxSends,   \* bound: messages of the script
  MaxPieces   \* bound: pieces of a reply

ASSUME ConstantsAssumption == MaxSends \in Nat /\ MaxPieces \in Nat \ {0}

VARIABLES
  pc,        \* "script", the step whose reply the client reads, or "dead"
  how,       \* how the call connects: to port 465, with a user, for one message
  kept,      \* the connection is in g_conns
  n,         \* the messages sent so far: the last is number n
  dotted,    \* the body that the call sends has a line that is a single dot
  stage,     \* what the server expects; "closed" when there is no connection
  input,     \* what the client has written and the server not yet read
  output,    \* the pieces of replies the client has not yet read, each by its code
  envelope,  \* the senders and recipients the server has for the next message
  text,      \* the message text the server has read
  instep,    \* history: on this connection every reply came whole, and no dot was taken for an end
  first,     \* history: no earlier message was sent over this connection
  told,      \* history: the messages that were sent, for all the script is told
  accepted   \* history: the messages the server has accepted

client == <<pc, how, kept, n, dotted>>
server == <<stage, envelope, text, accepted>>
wires == <<input, output>>
vars == <<client, server, wires, instep, first, told>>

NoMessage == [from |-> {}, to |-> {}]
NoCall == [direct |-> FALSE, login |-> FALSE, once |-> FALSE]

Init ==
  /\ pc = "script"
  /\ how = NoCall
  /\ kept = FALSE
  /\ n = 0
  /\ dotted = FALSE
  /\ stage = "closed"
  /\ input = <<>>
  /\ output = <<>>
  /\ envelope = NoMessage
  /\ text = <<>>
  /\ instep = TRUE
  /\ first = TRUE
  /\ told = {}
  /\ accepted = {}

-----------------------------------------------------------------------------
(* The client.                                                             *)

(* The code that each reply must have.                                     *)
Expected == [greeting |-> 220, ehlo |-> 250, starttls |-> 220, again |-> 250,
             auth |-> 334, user |-> 334, pass |-> 235,
             mail |-> 250, rcpt |-> 250, data |-> 354, body |-> 250]

Reads == DOMAIN Expected

Sending == {"mail", "rcpt", "data", "body"}

Codes == {0, 220, 235, 250, 334, 354, 500}

Commands == {"EHLO", "starttls", "auth", "user", "pass", "mail", "rcpt", "data",
             "text", "rest", "dot", "quit"}

(* What the client writes to get there; the headers go with the body.      *)
Command_unended(step) ==
  IF step = "body" THEN <<[cmd |-> "text", of |-> n]>>
  ELSE <<[cmd |-> IF step \in {"ehlo", "again"} THEN "EHLO" ELSE step, of |-> n]>>

Command(step) ==
  CASE step \in {"ehlo", "again"} -> <<[cmd |-> "EHLO", of |-> n]>>
    [] step = "body" /\ dotted -> <<[cmd |-> "text", of |-> n], [cmd |-> "dot", of |-> n],
                                    [cmd |-> "rest", of |-> n], [cmd |-> "dot", of |-> n]>>
    [] step = "body" /\ ~dotted -> <<[cmd |-> "text", of |-> n], [cmd |-> "dot", of |-> n]>>
    [] OTHER -> <<[cmd |-> step, of |-> n]>>

(* The step after one whose reply was as expected.                         *)
AfterLogin == IF how.once THEN "mail" ELSE "script"

After(step) ==
  CASE step = "greeting" -> "ehlo"
    [] step = "ehlo" -> IF ~how.direct THEN "starttls" ELSE IF how.login THEN "auth" ELSE AfterLogin
    [] step = "starttls" -> "handshake"
    [] step = "again" -> IF how.login THEN "auth" ELSE AfterLogin
    [] step = "auth" -> "user"
    [] step = "user" -> "pass"
    [] step = "pass" -> AfterLogin
    [] step = "mail" -> "rcpt"
    [] step = "rcpt" -> "data"
    [] step = "data" -> "body"
    [] step = "body" -> "script"

(* The client has its end of the connection open.                          *)
Connected == pc # "dead" /\ (kept \/ pc # "script")

(* A write to a connection that is closed may kill the process: nobody     *)
(* ignores SIGPIPE.                                                        *)
Writes(step, commands) ==
  \/ /\ pc' = step
     /\ input' = IF stage = "closed" THEN <<>> ELSE input \o commands
  \/ /\ stage = "closed"
     /\ pc' = "dead"
     /\ UNCHANGED input

Connect(direct, login) ==
  /\ pc = "script" /\ ~kept
  /\ stage = "closed"
  /\ how' = [direct |-> direct, login |-> login, once |-> FALSE]
  /\ pc' = "greeting"
  /\ stage' = "greeting"
  /\ input' = <<>> /\ output' = <<>>
  /\ instep' = TRUE /\ first' = TRUE
  /\ UNCHANGED <<kept, n, dotted, envelope, text, accepted, told>>

(* smtp.send: connect, send and close in one call.                         *)
SendOnce(direct, login, dot) ==
  /\ pc = "script" /\ ~kept
  /\ stage = "closed"
  /\ n < MaxSends
  /\ how' = [direct |-> direct, login |-> login, once |-> TRUE]
  /\ n' = n + 1
  /\ dotted' = dot
  /\ pc' = "greeting"
  /\ stage' = "greeting"
  /\ input' = <<>> /\ output' = <<>>
  /\ instep' = TRUE /\ first' = TRUE
  /\ UNCHANGED <<kept, envelope, text, accepted, told>>

Send(dot) ==
  /\ pc = "script" /\ kept
  /\ n < MaxSends
  /\ n' = n + 1
  /\ dotted' = dot
  /\ Writes("mail", <<[cmd |-> "mail", of |-> n']>>)
  /\ UNCHANGED <<how, kept, server, output, instep, first, told>>

(* One read: what has arrived is consumed, and the number it starts with   *)
(* is the code; at the end of the connection there is none.                *)
Read(code) ==
  \/ /\ output # <<>>
     /\ code = Head(output)
     /\ \E i \in 1..Len(output) : output' = SubSeq(output, i + 1, Len(output))
     /\ instep' = (instep /\ output' = <<>> /\ input = <<>>)
  \/ /\ output = <<>> /\ stage = "closed"
     /\ code = 0
     /\ UNCHANGED <<output, instep>>

(* The reply is as expected: on to the next step, and its command.         *)
Proceed_unchecked ==
  /\ pc \in Reads \ {"body"}
  /\ \E code \in IF pc = "mail" THEN Codes ELSE {Expected[pc]} : Read(code)
  /\ kept' = (kept \/ After(pc) = "script")
  /\ IF After(pc) \in {"script", "handshake"}
     THEN pc' = After(pc) /\ UNCHANGED input
     ELSE Writes(After(pc), Command(After(pc)))
  /\ how' = IF After(pc) = "script" THEN NoCall ELSE how
  /\ UNCHANGED <<n, dotted, server, first, told>>

Proceed ==
  /\ pc \in Reads \ {"body"}
  /\ Read(Expected[pc])
  /\ kept' = (kept \/ After(pc) = "script")
  /\ IF After(pc) \in {"script", "handshake"}
     THEN pc' = After(pc) /\ UNCHANGED input
     ELSE Writes(After(pc), Command(After(pc)))
  /\ how' = IF After(pc) = "script" THEN NoCall ELSE how
  /\ UNCHANGED <<n, dotted, server, first, told>>

(* The call returns.  A connection that is kept is left as it is; any      *)
(* other is closed, after a QUIT if there was no error in setting it up.   *)
Return ==
  /\ IF ~kept /\ pc \in Sending THEN Writes("script", <<[cmd |-> "quit", of |-> n]>>)
                                  ELSE pc' = "script" /\ UNCHANGED input
  /\ how' = NoCall
  /\ dotted' = FALSE
  /\ UNCHANGED <<kept, n, server>>

(* The message is sent, for all the script is told.                        *)
Sent_hopeful ==
  /\ pc = "body"
  /\ \E code \in Codes : Read(code)
  /\ told' = told \cup {[send |-> n, trusted |-> first \/ instep]}
  /\ first' = FALSE
  /\ Return

Sent ==
  /\ pc = "body"
  /\ Read(250)
  /\ told' = told \cup {[send |-> n, trusted |-> first \/ instep]}
  /\ first' = FALSE
  /\ Return

(* Any other reply is an exception, in whatever state it leaves the server.*)
Fail ==
  /\ pc \in Reads
  /\ \E code \in Codes \ {Expected[pc]} : Read(code)
  /\ first' = (first /\ pc \notin Sending)
  /\ Return
  /\ UNCHANGED told

(* SSL_connect after STARTTLS; what is left of earlier replies is not TLS. *)
Handshake ==
  /\ pc = "handshake"
  /\ stage = "tls" /\ output = <<>>
  /\ stage' = "command"
  /\ envelope' = NoMessage
  /\ pc' = "again"
  /\ input' = input \o Command("again")
  /\ UNCHANGED <<how, kept, n, dotted, text, accepted, output, instep, first, told>>

HandshakeFails ==
  /\ pc = "handshake"
  /\ stage \in {"tls", "closed"} \/ output # <<>>
  /\ Return
  /\ UNCHANGED <<output, instep, first, told>>

(* conn.close(), and the end of the script.                                *)
Close ==
  /\ pc = "script" /\ kept
  /\ kept' = FALSE
  /\ Writes("script", <<[cmd |-> "quit", of |-> n]>>)
  /\ UNCHANGED <<how, n, dotted, server, output, instep, first, told>>

-----------------------------------------------------------------------------
(* The server, external.                                                   *)

(* A reply, whole or in pieces, which start a line with the same code or   *)
(* are the rest of one.  Nobody is there to read it after a close.         *)
Pieces(code) ==
  {<<code, 0>>} \cup {[j \in 1..i |-> code] : i \in 1..MaxPieces}

Reply(code) ==
  IF Connected THEN \E reply \in Pieces(code) : output' = output \o reply
               ELSE output' = <<>>

Greet ==
  /\ stage = "greeting"
  /\ stage' = "command"
  /\ Reply(220)
  /\ UNCHANGED <<client, envelope, text, accepted, input, instep, first, told>>

(* The server takes the next command in one of its stages.                 *)
Takes(command, in) ==
  /\ input # <<>>
  /\ stage = in
  /\ Head(input).cmd = command
  /\ input' = Tail(input)
  /\ UNCHANGED <<client, instep, first, told>>

Ehlo ==
  /\ Takes("EHLO", "command")
  /\ envelope' = NoMessage
  /\ Reply(250)
  /\ UNCHANGED <<stage, text, accepted>>

StartTls ==
  /\ Takes("starttls", "command")
  /\ stage' = "tls"
  /\ Reply(220)
  /\ UNCHANGED <<envelope, text, accepted>>

Login ==
  /\ \/ Takes("auth", "command") /\ stage' = "user" /\ Reply(334)
     \/ Takes("user", "user") /\ stage' = "pass" /\ Reply(334)
     \/ Takes("pass", "pass") /\ stage' = "command" /\ Reply(235)
  /\ UNCHANGED <<envelope, text, accepted>>

Mail ==
  /\ Takes("mail", "command")
  /\ envelope.from = {}
  /\ envelope' = [envelope EXCEPT !.from = {Head(input).of}]
  /\ Reply(250)
  /\ UNCHANGED <<stage, text, accepted>>

Rcpt ==
  /\ Takes("rcpt", "command")
  /\ envelope.from # {}
  /\ envelope' = [envelope EXCEPT !.to = @ \cup {Head(input).of}]
  /\ Reply(250)
  /\ UNCHANGED <<stage, text, accepted>>

Data ==
  /\ Takes("data", "command")
  /\ envelope.to # {}
  /\ stage' = "data"
  /\ Reply(354)
  /\ UNCHANGED <<envelope, text, accepted>>

(* Whatever comes before the dot is text.                                  *)
Line ==
  /\ \E c \in Commands \ {"dot"} : Takes(c, "data")
  /\ text' = Append(text, Head(input))
  /\ UNCHANGED <<stage, envelope, accepted, output>>

Dot ==
  /\ Takes("dot", "data")
  /\ stage' = "command"
  /\ envelope' = NoMessage
  /\ text' = <<>>
  /\ \/ /\ Reply(250)
        /\ accepted' = accepted \cup {[from |-> envelope.from, to |-> envelope.to,
                                       text |-> text, instep |-> instep]}
     \/ /\ Reply(500)
        /\ UNCHANGED accepted

(* What is out of order is refused, and anything else may be.              *)
Refuse ==
  /\ \/ stage = "greeting" /\ UNCHANGED <<input, client, instep, first, told>>
     \/ \E c \in Commands, in \in {"command", "user", "pass"} : Takes(c, in)
  /\ stage' = "command"
  /\ Reply(500)
  /\ UNCHANGED <<envelope, text, accepted>>

(* The connection is closed or reset, by the server, after QUIT or on the  *)
(* way; a reset loses what has not been read.                              *)
HangUp ==
  /\ stage # "closed"
  /\ stage' = "closed"
  /\ envelope' = NoMessage
  /\ text' = <<>>
  /\ input' = <<>>
  /\ output' \in IF Connected THEN {output, <<>>} ELSE {<<>>}
  /\ UNCHANGED <<client, accepted, instep, first, told>>

-----------------------------------------------------------------------------
Call ==
  \/ \E direct, login \in BOOLEAN : Connect(direct, login)
  \/ \E direct, login, dot \in BOOLEAN : SendOnce(direct, login, dot)
  \/ \E dot \in BOOLEAN : Send(dot)
  \/ Close

Progress == Proceed \/ Sent \/ Fail \/ Handshake \/ HandshakeFails

Serve ==
  \/ Greet \/ Ehlo \/ StartTls \/ Login \/ Mail \/ Rcpt \/ Data \/ Line \/ Dot \/ Refuse

Next == Call \/ Progress \/ Serve \/ HangUp

(* The process runs while it can, and the server answers each command: the *)
(* client itself has no timeout.                                           *)
Fairness == WF_vars(Progress) /\ WF_vars(Serve)

Spec == Init /\ [][Next]_vars /\ Fairness

-----------------------------------------------------------------------------
(* The lines that the client writes, the envelopes and the messages.       *)
Written == [cmd : Commands, of : 0..MaxSends]
Envelopes == [from : SUBSET (0..MaxSends), to : SUBSET (0..MaxSends)]
Messages == [from : SUBSET (0..MaxSends), to : SUBSET (0..MaxSends),
             text : Seq(Written), instep : BOOLEAN]

(* Every variable keeps its type.                                          *)
TypeOK ==
  /\ pc \in {"script", "handshake", "dead"} \cup Reads
  /\ how \in [direct : BOOLEAN, login : BOOLEAN, once : BOOLEAN]
  /\ kept \in BOOLEAN
  /\ n \in 0..MaxSends
  /\ dotted \in BOOLEAN
  /\ stage \in {"closed", "greeting", "command", "tls", "user", "pass", "data"}
  /\ input \in Seq(Written)
  /\ output \in Seq(Codes)
  /\ envelope \in Envelopes
  /\ text \in Seq(Written)
  /\ instep \in BOOLEAN
  /\ first \in BOOLEAN
  /\ told \subseteq [send : 0..MaxSends, trusted : BOOLEAN]
  /\ accepted \subseteq Messages

(* A message the script was told is sent has been accepted by the server,  *)
(* with its own sender, recipient and text: always for the first message   *)
(* of a connection, in whatever pieces the replies come, and for a later   *)
(* one if every reply was read whole.  A text with a line that is a dot    *)
(* ends there: it is sent as it is (smtp_do_send, smtp_read_response).     *)
SendReal == \A t \in told : t.trusted =>
  \E m \in accepted : m.from = {t.send} /\ m.to = {t.send}
                      /\ m.text = <<[cmd |-> "text", of |-> t.send]>>

(* No message is put together from two sends: after a send that failed     *)
(* half-way its sender and recipient are not taken for the next message,   *)
(* which the script may send over the same connection (there is no RSET in *)
(* smtp_do_send; the reply to MAIL is what prevents it).                   *)
MessagesOwn == \A m \in accepted : m.instep =>
  \E i \in 1..MaxSends : m.from = {i} /\ m.to = {i} /\ Head(m.text).of = i /\ Len(m.text) = 1

(* Every call returns, or the connection that is closed under it has       *)
(* killed the process, if the server answers every command; unless a reply *)
(* was taken for another, when both may wait (smtp_read_response).         *)
CallsReturn == pc \in Reads \cup {"handshake"} ~> pc \in {"script", "dead"} \/ ~instep
=============================================================================
