----------------------------- MODULE Smtp_proofs ------------------------------
(***************************************************************************)
(* The safety properties of Smtp, for any number of messages and of pieces *)
(* of a reply.                                                             *)
(*                                                                         *)
(* SendReal and MessagesOwn are about what has been accepted, long after   *)
(* client and server were where they could go wrong.  The invariant says   *)
(* where they are, twice: InStep for a connection on which every reply has *)
(* been read whole, and FirstMail for the first message of a connection,   *)
(* whose replies may come in any number of pieces.                         *)
(***************************************************************************)
EXTENDS Smtp, TLAPS

(* The server has accepted message i, as it was meant.                     *)
Has(i) == \E m \in accepted : m.from = {i} /\ m.to = {i}
                              /\ m.text = <<[cmd |-> "text", of |-> i]>>

(* The envelope and the text of a message.                                 *)
Own(i) == [from |-> {i}, to |-> {i}]

Message == <<[cmd |-> "text", of |-> n]>>

(* What holds whatever the replies are.                                    *)
Always ==
  /\ stage # "data" => text = <<>>
  /\ envelope.from = {} => envelope.to = {}
  /\ stage = "closed" => input = <<>> /\ envelope = NoMessage
  /\ pc = "dead" => stage = "closed"
  /\ pc \in Sending \/ how.once => n >= 1
  /\ kept => pc \in {"script", "dead"} \cup Sending

(* What the server expects before it takes the command of a step, and once *)
(* it has granted it.                                                      *)
Before(step) == IF step \in {"user", "pass"} THEN step ELSE "command"

Behind(step) == CASE step = "starttls" -> "tls" [] step = "auth" -> "user"
                  [] step = "user" -> "pass" [] step = "data" -> "data"
                  [] OTHER -> "command"

(* Client and server are in step: the command of a step is on its way, or  *)
(* the reply, and nothing else.                                            *)
Asked(step) == output = <<>> /\ input = Command(step) /\ stage = Before(step)

Granted(step) == input = <<>> /\ output # <<>> /\ Head(output) = Expected[step]
                 /\ stage = Behind(step)

Refused == input = <<>> /\ output # <<>> /\ Head(output) = 500 /\ stage = "command"

Turn ==
  /\ pc = "script" /\ kept => input = <<>> /\ output = <<>> /\ stage = "command"
  /\ pc = "script" /\ ~kept => stage # "data" /\ \A i \in 1..Len(input) : input[i].cmd = "quit"
  /\ pc = "greeting" => \/ input = <<>> /\ output = <<>> /\ stage = "greeting"
                        \/ Granted(pc)
                        \/ Refused
  /\ pc = "handshake" => input = <<>> /\ output = <<>> /\ stage = "tls"
  /\ pc \in {"ehlo", "again", "starttls", "auth", "user", "pass"} =>
       Asked(pc) \/ Granted(pc) \/ Refused
  /\ pc = "mail" => \/ Asked(pc)
                    \/ Granted(pc) /\ envelope = [from |-> {n}, to |-> {}]
                    \/ Refused
  /\ pc = "rcpt" => \/ Asked(pc) /\ envelope = [from |-> {n}, to |-> {}]
                    \/ Granted(pc) /\ envelope = Own(n)
                    \/ Refused
  /\ pc = "data" => \/ Asked(pc) /\ envelope = Own(n)
                    \/ Granted(pc) /\ envelope = Own(n) /\ text = <<>>
                    \/ Refused

(* The text of message n is on its way to the server.                      *)
Writing ==
  /\ envelope = Own(n)
  /\ \/ text = <<>> /\ input = Command("body")
     \/ text = Message /\ input = Tail(Command("body"))

(* What is left of a text when the server takes a dot in it for its end.   *)
Left == \A i \in 1..Len(input) : input[i].cmd \in {"rest", "dot"}

(* And so they are while the text is sent.                                 *)
BodyTurn ==
  pc = "body" =>
    \/ stage = "data" /\ output = <<>> /\ Writing
    \/ /\ stage = "command" /\ Left /\ output # <<>>
       /\ \/ Head(output) = 250 /\ Has(n)
          \/ Head(output) = 500

(* What holds while every reply has been read whole.                       *)
InStep ==
  instep => /\ stage # "closed" => Turn /\ BodyTurn
            /\ pc = "script" /\ kept => input = <<>> /\ output = <<>>
            /\ pc = "body" /\ output # <<>> /\ Head(output) = 250 => Has(n)

(* The first message of a connection, in whatever pieces the replies come. *)
Content == {"mail", "rcpt", "data", "text", "rest", "dot"}

In(s, c) == \E i \in 1..Len(s) : s[i] = c

(* Before it, nothing of a message is on the way or at the server.         *)
Clean ==
  /\ \A i \in 1..Len(input) : input[i].cmd \notin Content
  /\ ~In(output, 354)
  /\ stage # "data"
  /\ envelope = NoMessage

(* While its envelope is written the server has nothing else, and grants   *)
(* no text before it has all of it.                                        *)
Addressed ==
  /\ \A i \in 1..Len(input) :
       /\ input[i].cmd \notin {"text", "rest", "dot"}
       /\ input[i].cmd \in {"mail", "rcpt", "data"} => input[i].of = n
       /\ input[i].cmd = "data" => pc = "data" /\ i = Len(input)
  /\ envelope.from \subseteq {n} /\ envelope.to \subseteq {n}
  /\ stage = "data" => pc = "data" /\ input = <<>> /\ text = <<>> /\ envelope = Own(n)
  /\ In(output, 354) => /\ pc = "data" /\ stage \in {"data", "closed"}
                        /\ Head(output) = 354 =>
                             \A i \in 1..Len(output) : output[i] \in {354, 0}

(* And an answer that is as expected is the answer to its text.            *)
Delivered ==
  /\ In(output, 250) => Has(n)
  /\ stage = "data" => Writing
  /\ stage # "data" => Left

(* What holds while no earlier message was sent over the connection.       *)
FirstMail ==
  first => /\ pc \notin Sending \cup {"dead"} => Clean
           /\ pc \in {"mail", "rcpt", "data"} => Addressed
           /\ pc = "body" => Delivered

(* The inductive invariant.                                                *)
IInv == TypeOK /\ Always /\ InStep /\ FirstMail /\ SendReal /\ MessagesOwn

-----------------------------------------------------------------------------
(* The operators of the client and the server.                             *)
LEMMA ReadsAre == Reads = {"greeting", "ehlo", "starttls", "again", "auth", "user", "pass",
                           "mail", "rcpt", "data", "body"}
BY DEF Reads, Expected

(* What the client writes: one command, but for the body.                  *)
LEMMA CommandFacts ==
  ASSUME TypeOK, NEW step \in Reads \ {"body", "greeting"}
  PROVE  /\ Command(step) \in Seq(Written) /\ Len(Command(step)) = 1
         /\ Command(step) # <<>>
         /\ Command(step)[1] \in Written /\ Command(step) = <<Command(step)[1]>>
         /\ Head(Command(step)) = Command(step)[1]
         /\ Command(step)[1].of = n
         /\ Tail(Command(step)) = <<>>
         /\ Command(step)[1].cmd = IF step \in {"ehlo", "again"} THEN "EHLO" ELSE step
<1> DEFINE c == [cmd |-> IF step \in {"ehlo", "again"} THEN "EHLO" ELSE step, of |-> n]
<1>1. Command(step) = <<c>>
  BY ReadsAre DEF Command
<1>2. c \in Written /\ c.of = n /\ c.cmd = IF step \in {"ehlo", "again"} THEN "EHLO" ELSE step
  BY ReadsAre DEF Written, Commands, TypeOK
<1> HIDE DEF c
<1> QED BY <1>1, <1>2

LEMMA BodyCommand ==
  ASSUME TypeOK
  PROVE  /\ Command("body") \in Seq(Written) /\ Len(Command("body")) >= 2
         /\ Command("body") # <<>> /\ Tail(Command("body")) # <<>>
         /\ Head(Command("body")) = [cmd |-> "text", of |-> n]
         /\ Head(Tail(Command("body"))).cmd = "dot"
         /\ \A i \in 1..Len(Tail(Tail(Command("body")))) :
              Tail(Tail(Command("body")))[i].cmd \in {"rest", "dot"}
<1> DEFINE t == [cmd |-> "text", of |-> n]
           d == [cmd |-> "dot", of |-> n]
           r == [cmd |-> "rest", of |-> n]
<1>1. t \in Written /\ d \in Written /\ r \in Written /\ d.cmd = "dot" /\ r.cmd = "rest"
  BY DEF TypeOK, Written, Commands
<1>2. Command("body") = IF dotted THEN <<t, d, r, d>> ELSE <<t, d>>
  BY DEF Command, TypeOK
<1> HIDE DEF t, d, r
<1>3. CASE dotted
  <2>1. Command("body") = <<t, d, r, d>>
    BY <1>2, <1>3
  <2>2. Tail(<<t, d, r, d>>) = <<d, r, d>>
    OBVIOUS
  <2>3. Tail(<<d, r, d>>) = <<r, d>>
    OBVIOUS
  <2>4. \A i \in 1..Len(<<r, d>>) : <<r, d>>[i].cmd \in {"rest", "dot"}
    BY <1>1
  <2>5. /\ <<t, d, r, d>> \in Seq(Written) /\ Len(<<t, d, r, d>>) >= 2
        /\ <<t, d, r, d>> # <<>> /\ <<d, r, d>> # <<>>
        /\ Head(<<t, d, r, d>>) = t /\ Head(<<d, r, d>>) = d
    BY <1>1
  <2> QED BY <1>1, <2>1, <2>2, <2>3, <2>4, <2>5 DEF t
<1>4. CASE ~dotted
  <2>1. Command("body") = <<t, d>>
    BY <1>2, <1>4
  <2>2. Tail(<<t, d>>) = <<d>>
    OBVIOUS
  <2>3. Tail(<<d>>) = <<>>
    OBVIOUS
  <2>4. /\ <<t, d>> \in Seq(Written) /\ Len(<<t, d>>) >= 2
        /\ <<t, d>> # <<>> /\ <<d>> # <<>> /\ Head(<<t, d>>) = t /\ Head(<<d>>) = d
    BY <1>1
  <2>5. \A i \in 1..Len(<<>>) : <<>>[i].cmd \in {"rest", "dot"}
    OBVIOUS
  <2> QED BY <1>1, <2>1, <2>2, <2>3, <2>4, <2>5 DEF t
<1> QED BY <1>3, <1>4

(* A reply is added to what the client has not read, and starts with its code. *)
LEMMA ReplyMade ==
  ASSUME TypeOK, NEW code \in Codes, Reply(code)
  PROVE  /\ output' \in Seq(Codes)
         /\ ~Connected => output' = <<>>
         /\ Connected => /\ output' # <<>>
                         /\ Head(output') = IF output = <<>> THEN code ELSE Head(output)
         /\ \A x : In(output', x) => x \in {code, 0} \/ In(output, x)
         /\ output = <<>> => \A i \in 1..Len(output') : output'[i] \in {code, 0}
<1>1. CASE Connected
  <2>1. PICK reply \in Pieces(code) : output' = output \o reply
    BY <1>1 DEF Reply
  <2>2. /\ reply \in Seq(Codes) /\ reply # <<>> /\ Len(reply) >= 1 /\ reply[1] = code
        /\ \A i \in 1..Len(reply) : reply[i] \in {code, 0}
    <3>1. CASE reply = <<code, 0>>
      BY <3>1 DEF Codes
    <3>2. ASSUME NEW k \in 1..MaxPieces, reply = [j \in 1..k |-> code]
          PROVE  /\ reply \in Seq(Codes) /\ reply # <<>> /\ Len(reply) >= 1 /\ reply[1] = code
                 /\ \A i \in 1..Len(reply) : reply[i] \in {code, 0}
      <4>1. k \in Nat /\ k >= 1 /\ DOMAIN reply = 1..k
        BY <3>2, ConstantsAssumption
      <4>2. reply \in Seq(Codes) /\ Len(reply) = k
        BY <3>2, <4>1
      <4> QED BY <3>2, <4>1, <4>2
    <3> QED BY <2>1, <3>1, <3>2 DEF Pieces
  <2>3. output \in Seq(Codes)
    BY DEF TypeOK
  <2> HIDE DEF Codes
  <2>4. /\ output' \in Seq(Codes) /\ Len(output') = Len(output) + Len(reply)
        /\ \A i \in 1..Len(output') : output'[i] = IF i <= Len(output) THEN output[i]
                                                    ELSE reply[i - Len(output)]
    BY <2>1, <2>2, <2>3
  <2>5. output' # <<>> /\ output'[1] = IF output = <<>> THEN code ELSE output[1]
    BY <2>2, <2>3, <2>4
  <2>6. ASSUME NEW i \in 1..Len(output')
        PROVE  \/ output'[i] \in {code, 0}
               \/ In(output, output'[i]) /\ output # <<>>
    <3>1. CASE i <= Len(output)
      <4>1. i \in 1..Len(output) /\ output'[i] = output[i]
        BY <2>3, <2>4, <3>1
      <4> QED BY <4>1 DEF In
    <3>2. CASE i > Len(output)
      <4>1. i - Len(output) \in 1..Len(reply) /\ output'[i] = reply[i - Len(output)]
        BY <2>2, <2>3, <2>4, <3>2
      <4> QED BY <2>2, <4>1
    <3> QED BY <2>3, <2>4, <3>1, <3>2
  <2>7. \A x : In(output', x) => x \in {code, 0} \/ In(output, x)
    BY <2>6 DEF In
  <2> QED BY <1>1, <2>3, <2>4, <2>5, <2>6, <2>7
<1>2. CASE ~Connected
  BY <1>2 DEF Reply, In
<1> QED BY <1>1, <1>2

(* What is left after a read was there before.                             *)
LEMMA ReadMade ==
  ASSUME TypeOK, NEW code, Read(code)
  PROVE  /\ output' \in Seq(Codes)
         /\ instep' \in BOOLEAN
         /\ instep' => instep /\ output' = <<>>
         /\ instep' => input = <<>> \/ stage = "closed"
         /\ code # 0 => output # <<>> /\ code = Head(output) /\ output[1] = code
         /\ \A i \in 1..Len(output') : \E j \in 1..Len(output) : output[j] = output'[i]
         /\ \/ output # <<>> /\ code = Head(output) /\ (instep' => input = <<>>)
            \/ output = <<>> /\ stage = "closed"
<1> USE DEF TypeOK
<1>1. CASE output # <<>> /\ code = Head(output)
           /\ \E i \in 1..Len(output) : output' = SubSeq(output, i + 1, Len(output))
           /\ instep' = (instep /\ output' = <<>> /\ input = <<>>)
  <2>1. PICK i \in 1..Len(output) : output' = SubSeq(output, i + 1, Len(output))
    BY <1>1
  <2> DEFINE cs == Codes
  <2>0. output \in Seq(cs)
    OBVIOUS
  <2> HIDE DEF cs
  <2>2. output' \in Seq(cs) /\ Len(output') = Len(output) - i
        /\ \A j \in 1..Len(output') : output'[j] = output[i + j]
    <3>1. i \in Nat /\ i + 1 \in Nat /\ Len(output) \in Nat /\ i <= Len(output)
      BY <2>0
    <3>2. \A k \in (i + 1)..Len(output) : output[k] \in cs
      BY <3>1, <2>0
    <3> QED BY <2>1, <2>0, <3>1, <3>2
  <2>3. ASSUME NEW j \in 1..Len(output') PROVE \E k \in 1..Len(output) : output[k] = output'[j]
    <3>1. i \in Nat /\ j \in Nat /\ j >= 1 /\ Len(output) \in Nat /\ j <= Len(output) - i
      BY <2>2, <2>0
    <3>2. i + j \in 1..Len(output)
      BY <3>1
    <3>3. output[i + j] = output'[j]
      BY <2>2
    <3> QED BY <3>2, <3>3
  <2>4. output # <<>> => Head(output) = output[1]
    BY <2>0
  <2>5. output' \in Seq(Codes)
    BY <2>2 DEF cs
  <2> QED BY <1>1, <2>3, <2>4, <2>5
<1>2. CASE output = <<>> /\ stage = "closed" /\ code = 0 /\ UNCHANGED <<output, instep>>
  BY <1>2
<1> QED BY <1>1, <1>2 DEF Read
(* A command that the client writes comes last, or to nobody.              *)
LEMMA WritesMade ==
  ASSUME TypeOK, Always, NEW step, step # "dead", NEW command \in Written, Writes(step, <<command>>)
  PROVE  /\ input' \in Seq(Written)
         /\ pc' \in {step, "dead"}
         /\ pc' = "dead" => stage = "closed"
         /\ stage = "closed" => input' = <<>>
         /\ stage # "closed" => /\ pc' = step
                                /\ input = <<>> => input' = <<command>>
                                /\ Len(input') = Len(input) + 1
                                /\ input'[Len(input) + 1] = command
                                /\ \A i \in 1..Len(input) : input'[i] = input[i]
<1>1. input \in Seq(Written) /\ (stage = "closed" => input = <<>>)
  BY DEF TypeOK, Always, Written
<1>2. /\ input \o <<command>> \in Seq(Written)
      /\ Len(input \o <<command>>) = Len(input) + 1
      /\ (input \o <<command>>)[Len(input) + 1] = command
      /\ \A i \in 1..Len(input) : (input \o <<command>>)[i] = input[i]
  BY <1>1
<1>3. input = <<>> => input \o <<command>> = <<command>>
  OBVIOUS
<1> QED BY <1>1, <1>2, <1>3 DEF Writes

(* The server takes the first command.                                     *)
LEMMA TakesMade ==
  ASSUME TypeOK, NEW command, NEW in, Takes(command, in)
  PROVE  /\ input' \in Seq(Written) /\ Head(input) \in Written /\ Head(input) = input[1]
         /\ Len(input) >= 1 /\ Len(input') = Len(input) - 1
         /\ \A i \in 1..Len(input') : i + 1 \in 1..Len(input) /\ input'[i] = input[i + 1]
<1> input \in Seq(Written) /\ input # <<>> /\ input' = Tail(input)
  BY DEF TypeOK, Written, Takes
<1> QED OBVIOUS

(* Being in the types, one value after the other.                          *)
LEMMA Typed ==
  /\ NoMessage \in Envelopes
  /\ \A x \in BOOLEAN, y \in BOOLEAN, z \in BOOLEAN :
       [direct |-> x, login |-> y, once |-> z] \in [direct : BOOLEAN, login : BOOLEAN, once : BOOLEAN]
  /\ NoCall \in [direct : BOOLEAN, login : BOOLEAN, once : BOOLEAN]
BY DEF NoMessage, Envelopes, NoCall

(* A command depends on the call only.                                     *)
LEMMA SameCommand ==
  ASSUME n' = n, dotted' = dotted, NEW step
  PROVE  Command(step)' = Command(step)
BY DEF Command

(* What the server has accepted stays accepted.                            *)
LEMMA Kept ==
  ASSUME accepted \subseteq accepted'
  PROVE  /\ \A i : Has(i) => Has(i)'
         /\ told' = told /\ SendReal => SendReal'
         /\ accepted' = accepted /\ MessagesOwn => MessagesOwn'
BY DEF Has, SendReal, MessagesOwn

-----------------------------------------------------------------------------
(* The client's calls, one lemma each.                                     *)
LEMMA InitInv == Init => IInv
<1> SUFFICES ASSUME Init PROVE IInv
  OBVIOUS
<1> USE DEF Init
<1>1. TypeOK
  <2>1. 0 \in 0..MaxSends
    BY ConstantsAssumption
  <2>2. NoMessage \in Envelopes /\ NoCall \in [direct : BOOLEAN, login : BOOLEAN, once : BOOLEAN]
    BY Typed
  <2>3. input \in Seq(Written) /\ output \in Seq(Codes) /\ text \in Seq(Written)
    OBVIOUS
  <2> QED BY <2>1, <2>2, <2>3 DEF TypeOK
<1>2. Always
  BY DEF Always, NoMessage, NoCall, Sending
<1>3. InStep
  BY DEF InStep
<1>4. FirstMail
  BY DEF FirstMail, Clean, In, NoMessage, Sending
<1>5. SendReal /\ MessagesOwn
  BY DEF SendReal, MessagesOwn
<1> QED BY <1>1, <1>2, <1>3, <1>4, <1>5 DEF IInv

LEMMA ConnectStep ==
  ASSUME IInv, NEW direct \in BOOLEAN, NEW login \in BOOLEAN, Connect(direct, login)
  PROVE  IInv'
<1> USE DEF IInv, Connect
<1>1. TypeOK'
  BY Typed, ReadsAre DEF TypeOK
<1>2. Always'
  BY DEF Always, Sending
<1>3. InStep'
  BY DEF InStep, Turn, BodyTurn
<1>4. FirstMail'
  BY DEF FirstMail, Clean, In, Always, Sending
<1>5. SendReal' /\ MessagesOwn'
  BY Kept
<1> QED BY <1>1, <1>2, <1>3, <1>4, <1>5

LEMMA SendOnceStep ==
  ASSUME IInv, NEW direct \in BOOLEAN, NEW login \in BOOLEAN, NEW dot \in BOOLEAN,
         SendOnce(direct, login, dot)
  PROVE  IInv'
<1> USE DEF IInv, SendOnce
<1>1. TypeOK'
  BY Typed, ReadsAre, ConstantsAssumption DEF TypeOK
<1>2. Always'
  BY DEF Always, Sending, TypeOK
<1>3. InStep'
  BY DEF InStep, Turn, BodyTurn
<1>4. FirstMail'
  BY DEF FirstMail, Clean, In, Always, Sending
<1>5. SendReal' /\ MessagesOwn'
  BY Kept
<1> QED BY <1>1, <1>2, <1>3, <1>4, <1>5

LEMMA SendStep ==
  ASSUME IInv, NEW dot \in BOOLEAN, Send(dot)
  PROVE  IInv'
<1> DEFINE mail == [cmd |-> "mail", of |-> n']
<1> USE DEF IInv
<1>0. /\ pc = "script" /\ kept /\ n' = n + 1 /\ n' \in 1..MaxSends /\ dotted' = dot
      /\ Writes("mail", <<mail>>)
      /\ UNCHANGED <<how, kept, stage, envelope, text, accepted, output, instep, first, told>>
  BY ConstantsAssumption DEF Send, TypeOK, server
<1>1. mail \in Written /\ mail.cmd = "mail" /\ mail.of = n'
  BY <1>0, ConstantsAssumption DEF Written, Commands
<1> HIDE DEF mail
<1>2. /\ input' \in Seq(Written) /\ pc' \in {"mail", "dead"} /\ (pc' = "dead" => stage = "closed")
      /\ stage = "closed" => input' = <<>>
      /\ stage # "closed" => /\ pc' = "mail"
                             /\ input = <<>> => input' = <<mail>>
                             /\ Len(input') = Len(input) + 1
                             /\ input'[Len(input) + 1] = mail
                             /\ \A i \in 1..Len(input) : input'[i] = input[i]
  BY <1>0, <1>1, WritesMade
<1>3. TypeOK'
  BY <1>0, <1>2, ReadsAre DEF TypeOK
<1>4. Always'
  BY <1>0, <1>2 DEF Always, Sending
<1>5. InStep'
  <2>1. Command("mail")' = <<mail>>
    BY <1>0 DEF Command, mail
  <2> QED BY <1>0, <1>2, <2>1 DEF InStep, Turn, BodyTurn, Asked, Before
<1>6. FirstMail'
  <2> SUFFICES ASSUME first', pc' = "mail"
               PROVE  Addressed'
    BY <1>2 DEF FirstMail, Sending
  <2>1. Clean
    BY <1>0 DEF FirstMail, Sending
  <2>2. \A i \in 1..Len(input') : input'[i].cmd \notin Content \/ input'[i] = mail
    <3>1. \A i \in 1..Len(input') : i \in 1..Len(input) \/ i = Len(input) + 1
      BY <1>2, <2>1 DEF TypeOK, Always
    <3> QED BY <1>2, <2>1, <3>1 DEF Clean, Always
  <2>3. ASSUME NEW i \in 1..Len(input')
        PROVE  /\ input'[i].cmd \notin {"text", "rest", "dot"}
               /\ input'[i].cmd \in {"mail", "rcpt", "data"} => input'[i].of = n'
               /\ input'[i].cmd = "data" => pc' = "data" /\ i = Len(input')
    <3>1. CASE input'[i].cmd \notin Content
      BY <3>1 DEF Content
    <3>2. CASE input'[i] = mail
      BY <3>2, <1>1
    <3> QED BY <2>2, <3>1, <3>2
  <2>4. envelope'.from \subseteq {n'} /\ envelope'.to \subseteq {n'}
    BY <1>0, <2>1 DEF Clean, NoMessage
  <2>5. ~In(output', 354) /\ stage' # "data"
    BY <1>0, <2>1 DEF Clean
  <2> QED BY <2>3, <2>4, <2>5 DEF Addressed
<1>7. SendReal' /\ MessagesOwn'
  BY <1>0, Kept
<1> QED BY <1>3, <1>4, <1>5, <1>6, <1>7

-----------------------------------------------------------------------------
(* The server takes a command and answers, anywhere but in a text: in what *)
(* follows the client is unchanged.                                        *)
LEMMA FirstAnswered ==
  ASSUME IInv, UNCHANGED <<client, first, text, accepted>>,
         NEW code \in Codes \ {0, 354}, Reply(code),
         stage \notin {"data", "closed"}, stage' # "data",
         input' = input \/ (\E c, in : Takes(c, in)),
         code = 250 => input # <<>> /\ Head(input).cmd \notin {"rest", "dot"},
         \/ envelope' \in {envelope, NoMessage}
         \/ /\ input # <<>> /\ Head(input).cmd \in {"mail", "rcpt"}
            /\ envelope'.from \subseteq envelope.from \cup {Head(input).of}
            /\ envelope'.to \subseteq envelope.to \cup {Head(input).of}
  PROVE  FirstMail'
<1> USE DEF IInv
<1>1. UNCHANGED <<pc, how, kept, n, dotted, first, text, accepted>>
  BY DEF client
<1>2. \A x : In(output', x) => x \in {code, 0} \/ In(output, x)
  BY ReplyMade
<1>3. /\ \A i \in 1..Len(input') : \E j \in 1..Len(input) :
            input'[i] = input[j] /\ Len(input') - i = Len(input) - j
      /\ input # <<>> => 1 \in 1..Len(input) /\ Head(input) = input[1]
      /\ input \in Seq(Written) /\ input' \in Seq(Written)
  <2>1. input \in Seq(Written)
    BY DEF TypeOK
  <2>2. CASE input' = input
    BY <2>1, <2>2
  <2>3. ASSUME NEW c, NEW in, Takes(c, in)
        PROVE  /\ \A i \in 1..Len(input') : \E j \in 1..Len(input) :
                     input'[i] = input[j] /\ Len(input') - i = Len(input) - j
               /\ input # <<>> => 1 \in 1..Len(input) /\ Head(input) = input[1]
               /\ input' \in Seq(Written)
    <3>1. /\ input' \in Seq(Written) /\ Head(input) = input[1]
          /\ Len(input) >= 1 /\ Len(input') = Len(input) - 1
          /\ \A i \in 1..Len(input') : i + 1 \in 1..Len(input) /\ input'[i] = input[i + 1]
      BY <2>3, TakesMade
    <3> QED BY <2>1, <3>1
  <2> QED BY <2>1, <2>2, <2>3
<1>4. ASSUME first, pc \notin Sending \cup {"dead"}
      PROVE  Clean'
  <2>1. Clean
    BY <1>4 DEF FirstMail
  <2>2. \A i \in 1..Len(input') : input'[i].cmd \notin Content
    BY <1>3, <2>1 DEF Clean
  <2>3. envelope' = NoMessage
    BY <1>3, <2>1 DEF Clean, Content
  <2> QED BY <1>2, <2>1, <2>2, <2>3 DEF Clean
<1>5. ASSUME first, pc \in {"mail", "rcpt", "data"}
      PROVE  Addressed'
  <2>1. Addressed
    BY <1>5 DEF FirstMail
  <2>2. ASSUME NEW i \in 1..Len(input')
        PROVE  /\ input'[i].cmd \notin {"text", "rest", "dot"}
               /\ input'[i].cmd \in {"mail", "rcpt", "data"} => input'[i].of = n
               /\ input'[i].cmd = "data" => pc = "data" /\ i = Len(input')
    <3>1. PICK j \in 1..Len(input) : input'[i] = input[j] /\ Len(input') - i = Len(input) - j
      BY <1>3
    <3>2. /\ input[j].cmd \notin {"text", "rest", "dot"}
          /\ input[j].cmd \in {"mail", "rcpt", "data"} => input[j].of = n
          /\ input[j].cmd = "data" => pc = "data" /\ j = Len(input)
      BY <2>1 DEF Addressed
    <3> QED BY <1>3, <3>1, <3>2
  <2>3. envelope'.from \subseteq {n} /\ envelope'.to \subseteq {n}
    <3>1. NoMessage.from = {} /\ NoMessage.to = {}
      BY DEF NoMessage
    <3>2. input # <<>> /\ Head(input).cmd \in {"mail", "rcpt"} => Head(input).of = n
      BY <1>3, <2>1 DEF Addressed
    <3> QED BY <2>1, <3>1, <3>2 DEF Addressed
  <2>4. ~In(output', 354)
    BY <1>2, <2>1 DEF Addressed
  <2> QED BY <1>1, <2>2, <2>3, <2>4 DEF Addressed
<1>6. ASSUME first, pc = "body"
      PROVE  Delivered'
  <2>1. Delivered /\ Left
    BY <1>6 DEF FirstMail, Delivered
  <2>2. Left'
    BY <1>3, <2>1 DEF Left
  <2>3. In(output', 250) => In(output, 250)
    BY <1>2, <1>3, <2>1 DEF Left
  <2>4. Has(n) => Has(n)'
    BY <1>1 DEF Has
  <2> QED BY <2>1, <2>2, <2>3, <2>4 DEF Delivered
<1> QED BY <1>1, <1>4, <1>5, <1>6 DEF FirstMail, Sending

(* Whose command it is that the server takes when they are in step.        *)
LEMMA Asking ==
  ASSUME IInv, instep, NEW c, NEW in \in {"command", "user", "pass"}, Takes(c, in)
  PROVE  \/ pc = "script" /\ ~kept /\ c = "quit" /\ \A i \in 1..Len(input') : input'[i].cmd = "quit"
         \/ /\ pc \in {"ehlo", "again", "starttls", "auth", "user", "pass", "mail", "rcpt", "data"}
            /\ c = IF pc \in {"ehlo", "again"} THEN "EHLO" ELSE pc
            /\ Head(input).of = n
            /\ input' = <<>> /\ output = <<>>
            /\ pc = "rcpt" => envelope = [from |-> {n}, to |-> {}]
            /\ pc = "data" => envelope = Own(n)
         \/ /\ pc = "body" /\ c \in {"rest", "dot"} /\ in = "command" /\ Left'
            /\ output # <<>> /\ ((Head(output) = 250 /\ Has(n)) \/ Head(output) = 500)
<1> USE DEF IInv
<1>1. /\ input # <<>> /\ stage = in /\ Head(input).cmd = c /\ input' = Tail(input)
      /\ UNCHANGED <<pc, kept, n>>
  BY DEF Takes, client
<1>2. /\ Head(input) = input[1] /\ Len(input) >= 1 /\ Len(input') = Len(input) - 1
      /\ \A i \in 1..Len(input') : i + 1 \in 1..Len(input) /\ input'[i] = input[i + 1]
      /\ input \in Seq(Written)
  BY TakesMade DEF TypeOK
<1>3. Turn /\ BodyTurn
  BY <1>1 DEF InStep
<1>4. CASE pc = "script"
  BY <1>1, <1>2, <1>3, <1>4 DEF Turn
<1>5. CASE pc \in {"ehlo", "again", "starttls", "auth", "user", "pass", "mail", "rcpt", "data"}
  <2>1. /\ Asked(pc)
        /\ pc = "rcpt" => envelope = [from |-> {n}, to |-> {}]
        /\ pc = "data" => envelope = Own(n)
    BY <1>1, <1>3, <1>5 DEF Turn, Granted, Refused
  <2>2. pc \in Reads \ {"body", "greeting"}
    BY <1>5, ReadsAre
  <2>3. /\ Head(Command(pc)) = Command(pc)[1] /\ Command(pc)[1].of = n /\ Tail(Command(pc)) = <<>>
        /\ Command(pc)[1].cmd = IF pc \in {"ehlo", "again"} THEN "EHLO" ELSE pc
    BY <2>2, CommandFacts
  <2> QED BY <1>1, <1>5, <2>1, <2>3 DEF Asked
<1>6. CASE pc = "body"
  <2>1. /\ stage = "command" /\ Left /\ output # <<>>
        /\ ((Head(output) = 250 /\ Has(n)) \/ Head(output) = 500)
    BY <1>1, <1>3, <1>6 DEF BodyTurn
  <2>2. Left' /\ c \in {"rest", "dot"}
    BY <1>1, <1>2, <2>1 DEF Left
  <2> QED BY <1>1, <1>6, <2>1, <2>2
<1>7. CASE pc \in {"greeting", "handshake", "dead"}
  BY <1>1, <1>3, <1>7 DEF Turn, Always, Granted, Refused
<1> QED BY <1>4, <1>5, <1>6, <1>7, ReadsAre DEF TypeOK

(* A command that is taken in step is granted or refused in step.          *)
LEMMA InStepAnswered ==
  ASSUME IInv, NEW c, NEW in \in {"command", "user", "pass"}, Takes(c, in),
         NEW code \in Codes, Reply(code), UNCHANGED <<text, accepted>>, stage' # "closed",
         \/ code = 500 /\ stage' = "command"
         \/ /\ c \notin {"quit", "rest", "dot"}
            /\ \A p \in Reads \ {"greeting", "body"} :
                 c = (IF p \in {"ehlo", "again"} THEN "EHLO" ELSE p) =>
                   code = Expected[p] /\ stage' = Behind(p)
            /\ c = "mail" => envelope' = [from |-> {Head(input).of}, to |-> {}]
            /\ c = "rcpt" => envelope' = [envelope EXCEPT !.to = @ \cup {Head(input).of}]
            /\ c = "data" => envelope' = envelope
  PROVE  InStep'
<1> USE DEF IInv
<1>1. /\ input # <<>> /\ stage = in /\ UNCHANGED <<pc, how, kept, n, dotted, instep, first, told>>
      /\ stage # "data"
  BY DEF Takes, client
<1> SUFFICES ASSUME instep PROVE InStep'
  BY <1>1 DEF InStep
<1>2. CASE pc = "script" /\ ~kept /\ c = "quit" /\ \A i \in 1..Len(input') : input'[i].cmd = "quit"
  BY <1>1, <1>2 DEF InStep, Turn, BodyTurn
<1>3. CASE /\ pc \in {"ehlo", "again", "starttls", "auth", "user", "pass", "mail", "rcpt", "data"}
           /\ c = IF pc \in {"ehlo", "again"} THEN "EHLO" ELSE pc
           /\ Head(input).of = n
           /\ input' = <<>> /\ output = <<>>
           /\ pc = "rcpt" => envelope = [from |-> {n}, to |-> {}]
           /\ pc = "data" => envelope = Own(n)
  <2>1. Connected /\ pc \in Reads \ {"greeting", "body"}
    BY <1>3, ReadsAre DEF Connected
  <2>2. output' # <<>> /\ Head(output') = code
    BY <1>3, <2>1, ReplyMade
  <2>3. CASE code = 500 /\ stage' = "command"
    <3>1. Refused'
      BY <1>3, <2>2, <2>3 DEF Refused
    <3> QED BY <1>1, <1>3, <3>1 DEF InStep, Turn, BodyTurn
  <2>4. CASE code = Expected[pc] /\ stage' = Behind(pc)
             /\ (c = "mail" => envelope' = [from |-> {Head(input).of}, to |-> {}])
             /\ (c = "rcpt" => envelope' = [envelope EXCEPT !.to = @ \cup {Head(input).of}])
             /\ (c = "data" => envelope' = envelope)
    <3>1. Granted(pc)'
      BY <1>1, <1>3, <2>2, <2>4 DEF Granted
    <3>2. pc = "mail" => envelope' = [from |-> {n}, to |-> {}]
      BY <1>3, <2>4
    <3>3. pc = "rcpt" => envelope' = Own(n)
      BY <1>3, <2>4 DEF Own
    <3>4. pc = "data" => envelope' = Own(n) /\ text' = <<>>
      BY <1>1, <1>3, <2>4 DEF Always
    <3>5. Own(n)' = Own(n)
      BY <1>1 DEF Own
    <3> QED BY <1>1, <1>3, <3>1, <3>2, <3>3, <3>4, <3>5 DEF InStep, Turn, BodyTurn
  <2> QED BY <1>3, <2>1, <2>3, <2>4
<1>4. CASE /\ pc = "body" /\ c \in {"rest", "dot"} /\ in = "command" /\ Left'
           /\ output # <<>> /\ ((Head(output) = 250 /\ Has(n)) \/ Head(output) = 500)
  <2>1. Connected
    BY <1>4 DEF Connected
  <2>2. output' # <<>> /\ Head(output') = Head(output)
    BY <1>4, <2>1, ReplyMade
  <2>3. Has(n) => Has(n)'
    BY <1>1 DEF Has
  <2> QED BY <1>1, <1>4, <2>2, <2>3 DEF InStep, Turn, BodyTurn
<1> QED BY <1>2, <1>3, <1>4, Asking

(* The steps of the server, one lemma each.                                *)
LEMMA GreetStep == IInv /\ Greet => IInv'
<1> SUFFICES ASSUME IInv, Greet PROVE IInv'
  OBVIOUS
<1> USE DEF IInv
<1>0. /\ stage = "greeting" /\ stage' = "command" /\ Reply(220) /\ 220 \in Codes
      /\ UNCHANGED <<pc, how, kept, n, dotted, envelope, text, accepted, input, instep, first, told>>
  BY DEF Greet, client, Codes
<1>1. /\ output' \in Seq(Codes)
      /\ Connected => output' # <<>> /\ Head(output') = IF output = <<>> THEN 220 ELSE Head(output)
  BY <1>0, ReplyMade
<1>2. TypeOK'
  BY <1>0, <1>1 DEF TypeOK
<1>3. Always'
  BY <1>0 DEF Always
<1>4. InStep'
  <2> SUFFICES ASSUME instep PROVE InStep'
    BY <1>0 DEF InStep
  <2>1. Turn /\ BodyTurn
    BY <1>0 DEF InStep
  <2>2. \/ pc = "script" /\ ~kept
        \/ pc = "greeting" /\ input = <<>> /\ output = <<>>
    BY <1>0, <2>1, ReadsAre DEF TypeOK, Always, Turn, BodyTurn, Asked, Granted, Refused, Before, Behind
  <2>3. pc = "greeting" => Granted(pc)'
    BY <1>0, <1>1, <2>2 DEF Granted, Expected, Behind, Connected
  <2> QED BY <1>0, <2>1, <2>2, <2>3 DEF InStep, Turn, BodyTurn
<1>5. FirstMail'
  BY <1>0, FirstAnswered DEF client
<1>6. SendReal' /\ MessagesOwn'
  BY <1>0, Kept
<1> QED BY <1>2, <1>3, <1>4, <1>5, <1>6

LEMMA EhloStep == IInv /\ Ehlo => IInv'
<1> SUFFICES ASSUME IInv, Ehlo PROVE IInv'
  OBVIOUS
<1> USE DEF IInv
<1>0. /\ Takes("EHLO", "command") /\ Reply(250) /\ 250 \in Codes
      /\ envelope' = NoMessage /\ stage = "command" /\ input # <<>> /\ Head(input).cmd = "EHLO"
      /\ UNCHANGED <<pc, how, kept, n, dotted, stage, text, accepted, instep, first, told>>
  BY DEF Ehlo, Takes, client, Codes
<1>1. output' \in Seq(Codes) /\ input' \in Seq(Written)
  BY <1>0, ReplyMade, TakesMade
<1>2. TypeOK'
  BY <1>0, <1>1, Typed DEF TypeOK
<1>3. Always'
  BY <1>0 DEF Always, NoMessage
<1>4. InStep'
  <2>1. \A p \in Reads \ {"greeting", "body"} :
          "EHLO" = (IF p \in {"ehlo", "again"} THEN "EHLO" ELSE p) =>
             250 = Expected[p] /\ stage' = Behind(p)
    BY <1>0, ReadsAre DEF Expected, Behind
  <2> QED BY <1>0, <2>1, InStepAnswered
<1>5. FirstMail'
  BY <1>0, FirstAnswered DEF client
<1>6. SendReal' /\ MessagesOwn'
  BY <1>0, Kept
<1> QED BY <1>2, <1>3, <1>4, <1>5, <1>6

LEMMA StartTlsStep == IInv /\ StartTls => IInv'
<1> SUFFICES ASSUME IInv, StartTls PROVE IInv'
  OBVIOUS
<1> USE DEF IInv
<1>0. /\ Takes("starttls", "command") /\ Reply(220) /\ 220 \in Codes
      /\ input # <<>> /\ Head(input).cmd = "starttls" /\ stage = "command"
      /\ stage' = "tls"
      /\ UNCHANGED <<pc, how, kept, n, dotted, envelope, text, accepted, instep, first, told>>
  BY DEF StartTls, Takes, client, Codes
<1>1. /\ output' \in Seq(Codes) /\ input' \in Seq(Written)
      /\ Head(input) \in Written
  BY <1>0, ReplyMade, TakesMade
<1>2. TypeOK'
  BY <1>0, <1>1 DEF TypeOK
<1>3. Always'
  BY <1>0 DEF Always
<1>4. InStep'
  <2>1. \A p \in Reads \ {"greeting", "body"} :
          "starttls" = (IF p \in {"ehlo", "again"} THEN "EHLO" ELSE p) =>
             220 = Expected[p] /\ stage' = Behind(p)
    BY <1>0, ReadsAre DEF Expected, Behind
  <2> QED BY <1>0, <2>1, InStepAnswered
<1>5. FirstMail'
  BY <1>0, FirstAnswered DEF client
<1>6. SendReal' /\ MessagesOwn'
  BY <1>0, Kept
<1> QED BY <1>2, <1>3, <1>4, <1>5, <1>6

LEMMA LoginStep == IInv /\ Login => IInv'
<1> SUFFICES ASSUME IInv, Login PROVE IInv'
  OBVIOUS
<1> USE DEF IInv
<1>0. /\ UNCHANGED <<pc, how, kept, n, dotted, envelope, text, accepted, instep, first, told>>
      /\ \/ Takes("auth", "command") /\ stage = "command" /\ stage' = "user" /\ Reply(334)
         \/ Takes("user", "user") /\ stage = "user" /\ stage' = "pass" /\ Reply(334)
         \/ Takes("pass", "pass") /\ stage = "pass" /\ stage' = "command" /\ Reply(235)
  BY DEF Login, Takes, client
<1> 334 \in Codes /\ 235 \in Codes
  BY DEF Codes
<1>1. output' \in Seq(Codes) /\ input' \in Seq(Written)
  BY <1>0, ReplyMade, TakesMade
<1>2. TypeOK'
  BY <1>0, <1>1 DEF TypeOK
<1>3. Always'
  BY <1>0 DEF Always
<1>4. InStep'
  <2>1. \A p \in Reads \ {"greeting", "body"} :
          /\ "auth" = (IF p \in {"ehlo", "again"} THEN "EHLO" ELSE p) => p = "auth"
          /\ "user" = (IF p \in {"ehlo", "again"} THEN "EHLO" ELSE p) => p = "user"
          /\ "pass" = (IF p \in {"ehlo", "again"} THEN "EHLO" ELSE p) => p = "pass"
    BY ReadsAre
  <2>2. /\ Expected["auth"] = 334 /\ Behind("auth") = "user"
        /\ Expected["user"] = 334 /\ Behind("user") = "pass"
        /\ Expected["pass"] = 235 /\ Behind("pass") = "command"
    BY DEF Expected, Behind
  <2>3. CASE Takes("auth", "command") /\ stage' = "user" /\ Reply(334)
    BY <1>0, <2>1, <2>2, <2>3, InStepAnswered
  <2>4. CASE Takes("user", "user") /\ stage' = "pass" /\ Reply(334)
    BY <1>0, <2>1, <2>2, <2>4, InStepAnswered
  <2>5. CASE Takes("pass", "pass") /\ stage' = "command" /\ Reply(235)
    BY <1>0, <2>1, <2>2, <2>5, InStepAnswered
  <2> QED BY <1>0, <2>3, <2>4, <2>5
<1>5. FirstMail'
  <2>1. CASE Reply(334)
    BY <1>0, <2>1, FirstAnswered DEF client
  <2>2. CASE Reply(235)
    BY <1>0, <2>2, FirstAnswered DEF client
  <2> QED BY <1>0, <2>1, <2>2
<1>6. SendReal' /\ MessagesOwn'
  BY <1>0, Kept
<1> QED BY <1>2, <1>3, <1>4, <1>5, <1>6

LEMMA MailStep == IInv /\ Mail => IInv'
<1> SUFFICES ASSUME IInv, Mail PROVE IInv'
  OBVIOUS
<1> USE DEF IInv
<1>0. /\ Takes("mail", "command") /\ Reply(250) /\ 250 \in Codes
      /\ input # <<>> /\ Head(input).cmd = "mail" /\ stage = "command"
      /\ envelope.from = {} /\ envelope' = [envelope EXCEPT !.from = {Head(input).of}]
      /\ UNCHANGED <<pc, how, kept, n, dotted, stage, text, accepted, instep, first, told>>
  BY DEF Mail, Takes, client, Codes
<1>1. /\ output' \in Seq(Codes) /\ input' \in Seq(Written)
      /\ Head(input) \in Written
  BY <1>0, ReplyMade, TakesMade
<1> DEFINE i == Head(input).of
<1>e. /\ envelope.to = {} /\ i \in 0..MaxSends
      /\ envelope' = [from |-> {i}, to |-> {}]
  BY <1>0, <1>1 DEF TypeOK, Always, Envelopes, Written
<1>2. TypeOK'
  <2>1. envelope' \in Envelopes
    BY <1>e DEF Envelopes
  <2> QED BY <1>0, <1>1, <2>1 DEF TypeOK
<1>3. Always'
  BY <1>0, <1>e DEF Always
<1>4. InStep'
  <2>1. \A p \in Reads \ {"greeting", "body"} :
          "mail" = (IF p \in {"ehlo", "again"} THEN "EHLO" ELSE p) =>
             250 = Expected[p] /\ stage' = Behind(p)
    BY <1>0, ReadsAre DEF Expected, Behind
  <2>2. /\ Takes("mail", "command") /\ Reply(250) /\ 250 \in Codes
        /\ UNCHANGED <<text, accepted>> /\ stage' # "closed"
    BY <1>0
  <2> QED BY <1>e, <2>1, <2>2, InStepAnswered
<1>5. FirstMail'
  BY <1>0, <1>e, FirstAnswered DEF client
<1>6. SendReal' /\ MessagesOwn'
  BY <1>0, Kept
<1> QED BY <1>2, <1>3, <1>4, <1>5, <1>6

LEMMA RcptStep == IInv /\ Rcpt => IInv'
<1> SUFFICES ASSUME IInv, Rcpt PROVE IInv'
  OBVIOUS
<1> USE DEF IInv
<1>0. /\ Takes("rcpt", "command") /\ Reply(250) /\ 250 \in Codes
      /\ input # <<>> /\ Head(input).cmd = "rcpt" /\ stage = "command"
      /\ envelope.from # {} /\ envelope' = [envelope EXCEPT !.to = @ \cup {Head(input).of}]
      /\ UNCHANGED <<pc, how, kept, n, dotted, stage, text, accepted, instep, first, told>>
  BY DEF Rcpt, Takes, client, Codes
<1>1. /\ output' \in Seq(Codes) /\ input' \in Seq(Written)
      /\ Head(input) \in Written
  BY <1>0, ReplyMade, TakesMade
<1> DEFINE i == Head(input).of
<1>e. /\ envelope'.from = envelope.from /\ envelope'.to = envelope.to \cup {i} /\ i \in 0..MaxSends
      /\ envelope' \in Envelopes
  BY <1>0, <1>1 DEF TypeOK, Envelopes, Written
<1>2. TypeOK'
  BY <1>0, <1>1, <1>e DEF TypeOK
<1>3. Always'
  BY <1>0, <1>e DEF Always
<1>4. InStep'
  <2>1. \A p \in Reads \ {"greeting", "body"} :
          "rcpt" = (IF p \in {"ehlo", "again"} THEN "EHLO" ELSE p) =>
             250 = Expected[p] /\ stage' = Behind(p)
    BY <1>0, ReadsAre DEF Expected, Behind
  <2> QED BY <1>0, <2>1, InStepAnswered
<1>5. FirstMail'
  BY <1>0, <1>e, FirstAnswered DEF client
<1>6. SendReal' /\ MessagesOwn'
  BY <1>0, Kept
<1> QED BY <1>2, <1>3, <1>4, <1>5, <1>6

LEMMA DataStep == IInv /\ Data => IInv'
<1> SUFFICES ASSUME IInv, Data PROVE IInv'
  OBVIOUS
<1> USE DEF IInv
<1>0. /\ Takes("data", "command") /\ Reply(354) /\ 354 \in Codes
      /\ input # <<>> /\ Head(input).cmd = "data" /\ stage = "command"
      /\ envelope.to # {} /\ stage' = "data"
      /\ UNCHANGED <<pc, how, kept, n, dotted, envelope, text, accepted, instep, first, told>>
  BY DEF Data, Takes, client, Codes
<1>1. /\ output' \in Seq(Codes) /\ input' \in Seq(Written)
      /\ Head(input) \in Written
  BY <1>0, ReplyMade, TakesMade
<1>e. /\ Len(input) >= 1 /\ Len(input') = Len(input) - 1 /\ Head(input) = input[1]
      /\ input \in Seq(Written)
  BY <1>0, TakesMade DEF TypeOK
<1>2. TypeOK'
  BY <1>0, <1>1 DEF TypeOK
<1>3. Always'
  BY <1>0 DEF Always
<1>4. InStep'
  <2>1. \A p \in Reads \ {"greeting", "body"} :
          "data" = (IF p \in {"ehlo", "again"} THEN "EHLO" ELSE p) =>
             354 = Expected[p] /\ stage' = Behind(p)
    BY <1>0, ReadsAre DEF Expected, Behind
  <2> QED BY <1>0, <2>1, InStepAnswered
<1>5. FirstMail'
  <2>1. ASSUME first, pc \notin Sending \cup {"dead"} PROVE FALSE
    <3>1. Clean
      BY <2>1 DEF FirstMail
    <3> QED BY <1>0, <1>e, <3>1 DEF Clean, Content
  <2>2. ASSUME first, pc \in {"mail", "rcpt", "data"} PROVE Addressed'
    <3>1. Addressed
      BY <2>2 DEF FirstMail
    <3>2. pc = "data" /\ Len(input) = 1 /\ input' = <<>> /\ text = <<>> /\ ~In(output, 354)
      BY <1>0, <1>1, <1>e, <3>1 DEF Addressed, Always
    <3>3. envelope = Own(n)
      <4>1. envelope.from # {} /\ envelope.from \subseteq {n} /\ envelope.to \subseteq {n}
        BY <1>0, <3>1 DEF Addressed, Always
      <4>2. envelope = [from |-> envelope.from, to |-> envelope.to]
        BY DEF TypeOK, Envelopes
      <4>3. envelope.from = {n} /\ envelope.to = {n}
        BY <1>0, <4>1
      <4> QED BY <4>2, <4>3 DEF Own
    <3>4. Connected /\ output \in Seq(Codes)
      BY <3>2 DEF Connected, TypeOK
    <3>5. output = <<>> => \A i \in 1..Len(output') : output'[i] \in {354, 0}
      BY <1>0, ReplyMade
    <3>6. output # <<>> => output' # <<>> /\ Head(output') = Head(output) /\ Head(output) # 354
      <4>1. output # <<>> => 1 \in 1..Len(output) /\ Head(output) = output[1]
        BY <3>4
      <4>2. output # <<>> => Head(output) # 354
        BY <3>2, <4>1 DEF In
      <4> QED BY <1>0, <3>4, <4>2, ReplyMade
    <3>7. Own(n)' = Own(n)
      BY <1>0 DEF Own
    <3> QED BY <1>0, <3>1, <3>2, <3>3, <3>5, <3>6, <3>7 DEF Addressed
  <2>3. ASSUME first, pc = "body" PROVE FALSE
    <3>1. Left
      BY <1>0, <2>3 DEF FirstMail, Delivered
    <3> QED BY <1>0, <1>e, <3>1 DEF Left
  <2> QED BY <1>0, <2>1, <2>2, <2>3 DEF FirstMail, Sending
<1>6. SendReal' /\ MessagesOwn'
  BY <1>0, Kept
<1> QED BY <1>2, <1>3, <1>4, <1>5, <1>6

LEMMA RefuseStep == IInv /\ Refuse => IInv'
<1> SUFFICES ASSUME IInv, Refuse PROVE IInv'
  OBVIOUS
<1> USE DEF IInv
<1>0. /\ stage' = "command" /\ Reply(500) /\ 500 \in Codes \ {0, 354}
      /\ UNCHANGED <<pc, how, kept, n, dotted, envelope, text, accepted, instep, first, told>>
      /\ \/ stage = "greeting" /\ UNCHANGED input
         \/ \E c \in Commands, in \in {"command", "user", "pass"} : Takes(c, in) /\ stage = in
  BY DEF Refuse, Takes, client, Codes
<1>1. output' \in Seq(Codes) /\ input' \in Seq(Written)
  BY <1>0, ReplyMade, TakesMade DEF TypeOK
<1>2. TypeOK'
  BY <1>0, <1>1 DEF TypeOK
<1>3. Always'
  BY <1>0 DEF Always
<1>4. InStep'
  <2>1. CASE stage = "greeting" /\ UNCHANGED input
    <3> SUFFICES ASSUME instep PROVE InStep'
      BY <1>0 DEF InStep
    <3>1. Turn /\ BodyTurn
      BY <2>1 DEF InStep
    <3>2. \/ pc = "script" /\ ~kept
          \/ pc = "greeting" /\ input = <<>> /\ output = <<>>
      BY <2>1, <3>1, ReadsAre DEF TypeOK, Always, Turn, BodyTurn, Asked, Granted, Refused, Before, Behind
    <3>3. pc = "greeting" => Refused'
      <4>1. pc = "greeting" => Connected
        BY DEF Connected
      <4> QED BY <1>0, <2>1, <3>2, <4>1, ReplyMade DEF Refused
    <3> QED BY <1>0, <2>1, <3>1, <3>2, <3>3 DEF InStep, Turn, BodyTurn
  <2>2. ASSUME NEW c \in Commands, NEW in \in {"command", "user", "pass"}, Takes(c, in)
        PROVE  InStep'
    BY <1>0, <2>2, InStepAnswered
  <2> QED BY <1>0, <2>1, <2>2
<1>5. FirstMail'
  <2>1. stage \notin {"data", "closed"} /\ (input' = input \/ \E c, in : Takes(c, in))
    BY <1>0
  <2> QED BY <1>0, <2>1, FirstAnswered DEF client
<1>6. SendReal' /\ MessagesOwn'
  BY <1>0, Kept
<1> QED BY <1>2, <1>3, <1>4, <1>5, <1>6

(* The server takes a line of text, or the end of it.                      *)
LEMMA InText ==
  ASSUME IInv, NEW c, Takes(c, "data"), instep \/ first
  PROVE  pc = "body" /\ Writing /\ (output = <<>> \/ ~instep)
<1> USE DEF IInv
<1>1. /\ input # <<>> /\ stage = "data"
  BY DEF Takes
<1>2. CASE instep
  <2>1. Turn /\ BodyTurn
    BY <1>1, <1>2 DEF InStep
  <2> QED BY <1>1, <2>1, ReadsAre DEF TypeOK, Always, Turn, BodyTurn, Asked, Granted, Refused, Before, Behind
<1>3. CASE first /\ ~instep
  BY <1>1, <1>3, ReadsAre DEF FirstMail, Clean, Addressed, Delivered, Always, TypeOK, Sending
<1> QED BY <1>2, <1>3

LEMMA LineStep == IInv /\ Line => IInv'
<1> SUFFICES ASSUME IInv, Line PROVE IInv'
  OBVIOUS
<1> USE DEF IInv
<1>0. PICK c \in Commands \ {"dot"} : Takes(c, "data")
  BY DEF Line
<1>1. /\ UNCHANGED <<pc, how, kept, n, dotted, stage, envelope, accepted, output, instep, first, told>>
      /\ text' = Append(text, Head(input)) /\ input' = Tail(input)
      /\ input # <<>> /\ stage = "data" /\ Head(input).cmd # "dot"
  BY <1>0 DEF Line, Takes, client
<1>2. input' \in Seq(Written) /\ Head(input) \in Written
  BY <1>0, TakesMade
<1>3. TypeOK'
  <2>1. text' \in Seq(Written)
    BY <1>1, <1>2 DEF TypeOK
  <2> QED BY <1>1, <1>2, <2>1 DEF TypeOK
<1>4. Always'
  BY <1>1 DEF Always
<1>5. instep \/ first => pc = "body" /\ Writing' /\ (output = <<>> \/ ~instep)
  <2> SUFFICES ASSUME instep \/ first PROVE pc = "body" /\ Writing' /\ (output = <<>> \/ ~instep)
    OBVIOUS
  <2>1. pc = "body" /\ Writing /\ (output = <<>> \/ ~instep)
    BY <1>0, InText
  <2>2. text = <<>> /\ input = Command("body")
    BY <1>1, <2>1, BodyCommand DEF Writing
  <2>3. text' = Message
    <3>1. Append(<<>>, [cmd |-> "text", of |-> n]) = <<[cmd |-> "text", of |-> n]>>
      OBVIOUS
    <3> QED BY <1>1, <2>2, <3>1, BodyCommand DEF Message
  <2>4. Command("body")' = Command("body") /\ Message' = Message /\ Own(n)' = Own(n)
    BY <1>1, SameCommand DEF Message, Own
  <2> QED BY <1>1, <2>1, <2>2, <2>3, <2>4 DEF Writing
<1>6. InStep'
  BY <1>1, <1>5 DEF InStep, Turn, BodyTurn
<1>7. FirstMail'
  <2>1. pc = "body" /\ first => (In(output', 250) => Has(n)')
    BY <1>1 DEF FirstMail, Delivered, Has
  <2> QED BY <1>1, <1>5, <2>1 DEF FirstMail, Delivered, Sending
<1>8. SendReal' /\ MessagesOwn'
  BY <1>1, Kept
<1> QED BY <1>3, <1>4, <1>6, <1>7, <1>8

LEMMA DotStep == IInv /\ Dot => IInv'
<1> SUFFICES ASSUME IInv, Dot PROVE IInv'
  OBVIOUS
<1> USE DEF IInv
<1> DEFINE new == [from |-> envelope.from, to |-> envelope.to, text |-> text, instep |-> instep]
<1>0. Takes("dot", "data")
  BY DEF Dot
<1>1. /\ UNCHANGED <<pc, how, kept, n, dotted, instep, first, told>>
      /\ input' = Tail(input) /\ stage' = "command" /\ envelope' = NoMessage /\ text' = <<>>
      /\ input # <<>> /\ stage = "data" /\ Head(input).cmd = "dot"
  BY DEF Dot, Takes, client
<1>2. \/ Reply(250) /\ accepted' = accepted \cup {new}
      \/ Reply(500) /\ accepted' = accepted
  BY DEF Dot
<1>3. 250 \in Codes /\ 500 \in Codes
  BY DEF Codes
<1>4. input' \in Seq(Written) /\ output' \in Seq(Codes)
  BY <1>0, <1>2, <1>3, TakesMade, ReplyMade
<1>5. TypeOK'
  <2>1. new \in Messages
    BY DEF TypeOK, Messages, Envelopes
  <2> HIDE DEF new
  <2>2. accepted' \subseteq Messages
    BY <1>2, <2>1 DEF TypeOK
  <2>3. text' \in Seq(Written)
    BY <1>1
  <2> QED BY <1>1, <1>4, <2>2, <2>3, Typed DEF TypeOK
<1>6. Always'
  BY <1>1 DEF Always, NoMessage
<1>7. instep \/ first => /\ pc = "body" /\ (output = <<>> \/ ~instep) /\ Left'
                         /\ envelope = Own(n) /\ text = Message
  <2> SUFFICES ASSUME instep \/ first
               PROVE  /\ pc = "body" /\ (output = <<>> \/ ~instep) /\ Left'
                      /\ envelope = Own(n) /\ text = Message
    OBVIOUS
  <2>1. pc = "body" /\ Writing /\ (output = <<>> \/ ~instep)
    BY <1>0, InText
  <2>2. text = Message /\ input = Tail(Command("body"))
    BY <1>1, <2>1, BodyCommand DEF Writing
  <2>3. Left'
    BY <1>1, <2>2, BodyCommand DEF Left
  <2> QED BY <2>1, <2>2, <2>3 DEF Writing
<1>8. accepted' = accepted \cup {new} /\ (instep \/ first) => Has(n)'
  <2> SUFFICES ASSUME accepted' = accepted \cup {new}, instep \/ first PROVE Has(n)'
    OBVIOUS
  <2>1. new \in accepted'
    OBVIOUS
  <2>2. new.from = {n} /\ new.to = {n} /\ new.text = <<[cmd |-> "text", of |-> n]>>
    BY <1>7 DEF Own, Message
  <2> HIDE DEF new
  <2> QED BY <1>1, <2>1, <2>2 DEF Has
<1>9. Has(n) => Has(n)'
  BY <1>1, <1>2 DEF Has
<1>10. InStep'
  <2> SUFFICES ASSUME instep PROVE InStep'
    BY <1>1 DEF InStep
  <2>1. Connected
    BY <1>7 DEF Connected
  <2>2. output' # <<>> /\ ((Head(output') = 250 /\ Has(n)') \/ Head(output') = 500)
    BY <1>2, <1>3, <1>7, <1>8, <2>1, ReplyMade
  <2> QED BY <1>1, <1>7, <2>2 DEF InStep, Turn, BodyTurn
<1>11. FirstMail'
  <2> SUFFICES ASSUME first PROVE Delivered'
    BY <1>1, <1>7 DEF FirstMail, Sending
  <2>1. In(output, 250) => Has(n)
    BY <1>7 DEF FirstMail, Delivered
  <2>2. In(output', 250) => Has(n)'
    <3>1. CASE Reply(500) /\ accepted' = accepted
      BY <1>3, <1>9, <2>1, <3>1, ReplyMade
    <3> QED BY <1>2, <1>8, <3>1
  <2> QED BY <1>1, <1>7, <2>2 DEF Delivered
<1>12. SendReal'
  <2>1. accepted \subseteq accepted'
    BY <1>2
  <2> QED BY <1>1, <2>1, Kept
<1>13. MessagesOwn'
  <2> SUFFICES ASSUME instep, accepted' = accepted \cup {new}
               PROVE  MessagesOwn'
    BY <1>2 DEF MessagesOwn
  <2>1. n \in 1..MaxSends
    BY <1>7, ConstantsAssumption DEF Always, TypeOK, Sending
  <2>2. new.from = {n} /\ new.to = {n} /\ Head(new.text).of = n /\ Len(new.text) = 1
    BY <1>7 DEF Own, Message
  <2> HIDE DEF new
  <2> QED BY <2>1, <2>2 DEF MessagesOwn
<1> QED BY <1>5, <1>6, <1>10, <1>11, <1>12, <1>13

LEMMA HangUpStep == IInv /\ HangUp => IInv'
<1> SUFFICES ASSUME IInv, HangUp PROVE IInv'
  OBVIOUS
<1> USE DEF IInv
<1>1. /\ UNCHANGED <<pc, how, kept, n, dotted, accepted, instep, first, told>>
      /\ stage' = "closed" /\ envelope' = NoMessage /\ text' = <<>> /\ input' = <<>>
      /\ output' \in {output, <<>>}
  BY DEF HangUp, client
<1>2. TypeOK'
  <2>1. text' \in Seq(Written) /\ input' \in Seq(Written)
    BY <1>1
  <2>2. output' \in Seq(Codes)
    <3>1. <<>> \in Seq(Codes)
      OBVIOUS
    <3> QED BY <1>1, <3>1 DEF TypeOK
  <2> QED BY <1>1, <2>1, <2>2, Typed DEF TypeOK
<1>3. Always'
  BY <1>1 DEF Always, NoMessage
<1>4. InStep'
  BY <1>1 DEF InStep, Has
<1>5. FirstMail'
  <2>1. \A x : In(output', x) => In(output, x)
    BY <1>1 DEF In
  <2>2. Clean => Clean'
    BY <1>1, <2>1 DEF Clean
  <2>3. Addressed /\ pc \in {"mail", "rcpt", "data"} => Addressed'
    <3>1. In(output', 354) => output' = output
      BY <1>1 DEF In
    <3> QED BY <1>1, <2>1, <3>1 DEF Addressed, NoMessage
  <2>4. Delivered => Delivered'
    BY <1>1, <2>1 DEF Delivered, Has, Left
  <2> QED BY <1>1, <2>2, <2>3, <2>4 DEF FirstMail
<1>6. SendReal' /\ MessagesOwn'
  BY <1>1, Kept
<1> QED BY <1>2, <1>3, <1>4, <1>5, <1>6

-----------------------------------------------------------------------------
(* The steps of the client within a call.                                  *)
LEMMA HandshakeStep == IInv /\ Handshake => IInv'
<1> SUFFICES ASSUME IInv, Handshake PROVE IInv'
  OBVIOUS
<1> USE DEF IInv
<1> DEFINE ehlo == Command("again")[1]
<1>0. "again" \in Reads \ {"body", "greeting"}
  BY ReadsAre
<1>1. /\ pc = "handshake" /\ stage = "tls" /\ output = <<>>
      /\ stage' = "command" /\ envelope' = NoMessage /\ pc' = "again"
      /\ input' = input \o <<ehlo>>
      /\ UNCHANGED <<how, kept, n, dotted, text, accepted, output, instep, first, told>>
  BY <1>0, CommandFacts DEF Handshake
<1>3. ehlo \in Written /\ ehlo.cmd = "EHLO"
  BY <1>0, CommandFacts
<1>4. Command("again")' = <<ehlo>>
  BY <1>0, <1>1, CommandFacts, SameCommand
<1> HIDE DEF ehlo
<1>5. /\ input \in Seq(Written) /\ input' \in Seq(Written) /\ Len(input') = Len(input) + 1
      /\ input'[Len(input) + 1] = ehlo
      /\ \A i \in 1..Len(input) : input'[i] = input[i]
  <2>1. input \in Seq(Written)
    BY DEF TypeOK
  <2> QED BY <1>1, <1>3, <2>1
<1>6. TypeOK'
  BY <1>1, <1>0, <1>5, Typed DEF TypeOK
<1>7. Always'
  BY <1>1 DEF Always, NoMessage, Sending
<1>8. InStep'
  <2>1. instep => input = <<>>
    BY <1>1 DEF InStep, Turn
  <2>2. instep => input' = <<ehlo>>
    BY <1>1, <1>3, <2>1
  <2> QED BY <1>1, <1>4, <2>2 DEF InStep, Turn, BodyTurn, Asked, Before
<1>9. FirstMail'
  <2> SUFFICES ASSUME first PROVE Clean'
    BY <1>1 DEF FirstMail, Sending
  <2>1. Clean
    BY <1>1 DEF FirstMail, Sending
  <2>2. ASSUME NEW i \in 1..Len(input') PROVE input'[i].cmd \notin Content
    <3>1. i \in 1..Len(input) \/ i = Len(input) + 1
      BY <1>5
    <3> QED BY <1>3, <1>5, <2>1, <3>1 DEF Clean, Content
  <2> QED BY <1>1, <2>1, <2>2 DEF Clean
<1>10. SendReal' /\ MessagesOwn'
  BY <1>1, Kept
<1> QED BY <1>6, <1>7, <1>8, <1>9, <1>10

LEMMA HandshakeFailsStep == IInv /\ HandshakeFails => IInv'
<1> SUFFICES ASSUME IInv, HandshakeFails PROVE IInv'
  OBVIOUS
<1> USE DEF IInv
<1>1. /\ pc = "handshake" /\ pc' = "script" /\ ~kept
      /\ how' = NoCall /\ dotted' = FALSE
      /\ UNCHANGED <<kept, n, stage, envelope, text, accepted, input, output, instep, first, told>>
  BY DEF HandshakeFails, Return, server, Always, Sending
<1>2. TypeOK'
  BY <1>1, Typed DEF TypeOK
<1>3. Always'
  BY <1>1 DEF Always, NoCall, Sending
<1>4. InStep'
  BY <1>1 DEF InStep, Turn, BodyTurn
<1>5. FirstMail'
  BY <1>1 DEF FirstMail, Clean, Sending
<1>6. SendReal' /\ MessagesOwn'
  BY <1>1, Kept
<1> QED BY <1>2, <1>3, <1>4, <1>5, <1>6

LEMMA CloseStep == IInv /\ Close => IInv'
<1> SUFFICES ASSUME IInv, Close PROVE IInv'
  OBVIOUS
<1> USE DEF IInv
<1> DEFINE quit == [cmd |-> "quit", of |-> n]
<1>1. /\ pc = "script" /\ kept /\ kept' = FALSE /\ Writes("script", <<quit>>)
      /\ UNCHANGED <<how, n, dotted, stage, envelope, text, accepted, output, instep, first, told>>
  BY DEF Close, server
<1>2. quit \in Written /\ quit.cmd = "quit"
  BY DEF TypeOK, Written, Commands
<1> HIDE DEF quit
<1>3. /\ input' \in Seq(Written) /\ pc' \in {"script", "dead"} /\ (pc' = "dead" => stage = "closed")
      /\ stage = "closed" => input' = <<>>
      /\ stage # "closed" => /\ pc' = "script"
                             /\ input = <<>> => input' = <<quit>>
                             /\ Len(input') = Len(input) + 1
                             /\ input'[Len(input) + 1] = quit
                             /\ \A i \in 1..Len(input) : input'[i] = input[i]
  BY <1>1, <1>2, WritesMade
<1>4. TypeOK'
  BY <1>1, <1>3 DEF TypeOK
<1>5. Always'
  BY <1>1, <1>3 DEF Always, Sending
<1>6. InStep'
  BY <1>1, <1>2, <1>3 DEF InStep, Turn, BodyTurn
<1>7. FirstMail'
  <2> SUFFICES ASSUME first, pc' = "script" PROVE Clean'
    BY <1>1, <1>3 DEF FirstMail, Sending
  <2>1. Clean
    BY <1>1 DEF FirstMail, Sending
  <2>2. ASSUME NEW i \in 1..Len(input') PROVE input'[i].cmd \notin Content
    <3>1. stage # "closed" => i \in 1..Len(input) \/ i = Len(input) + 1
      BY <1>3 DEF TypeOK
    <3> QED BY <1>2, <1>3, <2>1, <3>1 DEF Clean, Content
  <2> QED BY <1>1, <2>1, <2>2 DEF Clean
<1>8. SendReal' /\ MessagesOwn'
  BY <1>1, Kept
<1> QED BY <1>4, <1>5, <1>6, <1>7, <1>8

(* The call returns: after a send the connection that was made for it is   *)
(* closed with a QUIT.                                                     *)
LEMMA ReturnMade ==
  ASSUME TypeOK, Always, pc \in Reads, Return
  PROVE  /\ UNCHANGED <<kept, n, stage, envelope, text, accepted>>
         /\ how' = NoCall /\ dotted' = FALSE
         /\ input' \in Seq(Written) /\ pc' \in {"script", "dead"}
         /\ pc' = "dead" => stage = "closed"
         /\ stage = "closed" => input' = <<>>
         /\ kept \/ pc \notin Sending => input' = input /\ pc' = "script"
         /\ input = <<>> => \A i \in 1..Len(input') : input'[i].cmd = "quit"
<1> DEFINE quit == [cmd |-> "quit", of |-> n]
<1>1. /\ UNCHANGED <<kept, n, stage, envelope, text, accepted>> /\ how' = NoCall /\ dotted' = FALSE
      /\ ~kept /\ pc \in Sending => Writes("script", <<quit>>)
      /\ kept \/ pc \notin Sending => input' = input /\ pc' = "script"
  BY DEF Return, server
<1>2. quit \in Written /\ quit.cmd = "quit"
  BY DEF TypeOK, Written, Commands
<1> HIDE DEF quit
<1>3. CASE ~kept /\ pc \in Sending
  <2>1. /\ input' \in Seq(Written) /\ pc' \in {"script", "dead"} /\ (pc' = "dead" => stage = "closed")
        /\ stage = "closed" => input' = <<>>
        /\ stage # "closed" /\ input = <<>> => input' = <<quit>>
    BY <1>1, <1>2, <1>3, WritesMade
  <2>2. Len(<<quit>>) = 1 /\ <<quit>>[1] = quit /\ Len(<<>>) = 0
    OBVIOUS
  <2> QED BY <1>1, <1>2, <1>3, <2>1, <2>2
<1>4. CASE kept \/ pc \notin Sending
  BY <1>1, <1>4 DEF TypeOK, Always
<1> QED BY <1>3, <1>4 DEF TypeOK

LEMMA SentStep == IInv /\ Sent => IInv'
<1> SUFFICES ASSUME IInv, Sent PROVE IInv'
  OBVIOUS
<1> USE DEF IInv
<1>1. /\ pc = "body" /\ Read(250) /\ Return /\ ~first' /\ first' \in BOOLEAN
      /\ told' = told \cup {[send |-> n, trusted |-> first \/ instep]}
  BY DEF Sent
<1>2. /\ output' \in Seq(Codes) /\ instep' \in BOOLEAN
      /\ instep' => instep /\ output' = <<>>
      /\ instep' => input = <<>> \/ stage = "closed"
      /\ output # <<>> /\ Head(output) = 250 /\ output[1] = 250
  BY <1>1, ReadMade
<1>3. pc \in Reads
  BY <1>1, ReadsAre
<1>4. /\ UNCHANGED <<kept, n, stage, envelope, text, accepted>>
      /\ how' = NoCall /\ dotted' = FALSE
      /\ input' \in Seq(Written) /\ pc' \in {"script", "dead"}
      /\ pc' = "dead" => stage = "closed"
      /\ stage = "closed" => input' = <<>>
      /\ kept => input' = input /\ pc' = "script"
      /\ input = <<>> => \A i \in 1..Len(input') : input'[i].cmd = "quit"
  BY <1>1, <1>3, ReturnMade
<1>5. TypeOK'
  <2>1. [send |-> n, trusted |-> first \/ instep] \in [send : 0..MaxSends, trusted : BOOLEAN]
    BY DEF TypeOK
  <2>2. told' \subseteq [send : 0..MaxSends, trusted : BOOLEAN]
    BY <1>1, <2>1 DEF TypeOK
  <2> QED BY <1>1, <1>2, <1>4, <2>2, Typed DEF TypeOK
<1>6. Always'
  BY <1>1, <1>4 DEF Always, NoCall, Sending
<1>7. InStep'
  <2> SUFFICES ASSUME instep' PROVE InStep'
    BY DEF InStep
  <2>1. stage # "closed" => input = <<>> /\ stage = "command"
    BY <1>1, <1>2 DEF InStep, BodyTurn
  <2>2. stage = "closed" => input = <<>>
    BY DEF Always
  <2> QED BY <1>2, <1>4, <2>1, <2>2 DEF InStep, Turn, BodyTurn
<1>8. FirstMail'
  BY <1>1 DEF FirstMail
<1>9. SendReal'
  <2>1. first => Has(n)
    <3>1. In(output, 250)
      BY <1>2 DEF In, TypeOK
    <3> QED BY <1>1, <3>1 DEF FirstMail, Delivered
  <2>2. instep => Has(n)
    BY <1>1, <1>2 DEF InStep
  <2>3. ASSUME NEW t \in told', t.trusted
        PROVE  \E m \in accepted' : m.from = {t.send} /\ m.to = {t.send}
                                    /\ m.text = <<[cmd |-> "text", of |-> t.send]>>
    <3>1. CASE t \in told
      BY <1>4, <2>3, <3>1 DEF SendReal
    <3>2. CASE t = [send |-> n, trusted |-> first \/ instep]
      <4>1. t.send = n /\ (first \/ instep)
        BY <2>3, <3>2
      <4> QED BY <1>4, <2>1, <2>2, <4>1 DEF Has
    <3> QED BY <1>1, <3>1, <3>2
  <2> QED BY <2>3 DEF SendReal
<1>10. MessagesOwn'
  BY <1>4, Kept
<1> QED BY <1>5, <1>6, <1>7, <1>8, <1>9, <1>10

LEMMA FailStep == IInv /\ Fail => IInv'
<1> SUFFICES ASSUME IInv, Fail PROVE IInv'
  OBVIOUS
<1> USE DEF IInv
<1>0. PICK code \in Codes \ {Expected[pc]} : Read(code)
  BY DEF Fail
<1>1. /\ pc \in Reads /\ Return /\ first' = (first /\ pc \notin Sending) /\ told' = told
  BY DEF Fail
<1>2. /\ output' \in Seq(Codes) /\ instep' \in BOOLEAN
      /\ instep' => instep /\ output' = <<>>
      /\ \A i \in 1..Len(output') : \E j \in 1..Len(output) : output[j] = output'[i]
      /\ \/ output # <<>> /\ code = Head(output) /\ (instep' => input = <<>>)
         \/ output = <<>> /\ stage = "closed"
  BY <1>0, ReadMade
<1>4. /\ UNCHANGED <<kept, n, stage, envelope, text, accepted>>
      /\ how' = NoCall /\ dotted' = FALSE
      /\ input' \in Seq(Written) /\ pc' \in {"script", "dead"}
      /\ pc' = "dead" => stage = "closed"
      /\ stage = "closed" => input' = <<>>
      /\ kept \/ pc \notin Sending => input' = input /\ pc' = "script"
      /\ input = <<>> => \A i \in 1..Len(input') : input'[i].cmd = "quit"
  BY <1>1, ReturnMade
<1>5. TypeOK'
  <2>1. first' \in BOOLEAN
    BY <1>1
  <2> QED BY <1>1, <1>2, <1>4, <2>1, Typed DEF TypeOK
<1>6. Always'
  BY <1>1, <1>4, ReadsAre DEF Always, NoCall, Sending
<1>7. InStep'
  <2> SUFFICES ASSUME instep' PROVE InStep'
    BY DEF InStep
  <2>1. stage # "closed" => input = <<>> /\ stage = "command"
    <3> SUFFICES ASSUME stage # "closed" PROVE input = <<>> /\ stage = "command"
      OBVIOUS
    <3>1. Turn /\ BodyTurn /\ output # <<>> /\ input = <<>> /\ Head(output) # Expected[pc]
      BY <1>0, <1>2 DEF InStep
    <3> QED BY <1>1, <3>1, ReadsAre DEF Turn, BodyTurn, Asked, Granted, Refused
  <2>2. stage = "closed" => input = <<>>
    BY DEF Always
  <2> QED BY <1>2, <1>4, <2>1, <2>2 DEF InStep, Turn, BodyTurn
<1>8. FirstMail'
  <2> SUFFICES ASSUME first' PROVE Clean'
    BY <1>1, <1>4 DEF FirstMail, Sending
  <2>1. Clean /\ input' = input
    BY <1>1, <1>4, ReadsAre DEF FirstMail, Sending
  <2> QED BY <1>2, <1>4, <2>1 DEF Clean, In
<1>9. SendReal' /\ MessagesOwn'
  BY <1>1, <1>4, Kept
<1> QED BY <1>5, <1>6, <1>7, <1>8, <1>9

(* The order of the steps, and where the server is when the next begins.   *)
LEMMA AfterIs ==
  ASSUME TypeOK, pc \in Reads \ {"body"}
  PROVE  /\ After(pc) \in {"script", "handshake"} \cup (Reads \ {"greeting"})
         /\ After(pc) = "script" => pc \in {"ehlo", "again", "pass"} /\ ~how.once
         /\ After(pc) = "handshake" => pc = "starttls"
         /\ pc \in {"mail", "rcpt", "data"} <=> After(pc) \in {"rcpt", "data", "body"}
         /\ After(pc) = "mail" => how.once
         /\ After(pc) = "rcpt" <=> pc = "mail"
         /\ After(pc) = "data" <=> pc = "rcpt"
         /\ After(pc) = "body" <=> pc = "data"
         /\ After(pc) \in Reads \ {"body"} => Before(After(pc)) = Behind(pc)
         /\ Expected[pc] # 0 /\ Expected[pc] # 500
<1>1. After(pc) =
        CASE pc = "greeting" -> "ehlo"
          [] pc = "ehlo" -> IF ~how.direct THEN "starttls" ELSE IF how.login THEN "auth" ELSE AfterLogin
          [] pc = "starttls" -> "handshake"
          [] pc = "again" -> IF how.login THEN "auth" ELSE AfterLogin
          [] pc = "auth" -> "user"
          [] pc = "user" -> "pass"
          [] pc = "pass" -> AfterLogin
          [] pc = "mail" -> "rcpt"
          [] pc = "rcpt" -> "data"
          [] pc = "data" -> "body"
          [] pc = "body" -> "script"
  BY DEF After
<1>2. AfterLogin = IF how.once THEN "mail" ELSE "script"
  BY DEF AfterLogin
<1>3. /\ pc = "greeting" => After(pc) = "ehlo"
      /\ pc \in {"ehlo", "again", "pass"} => After(pc) \in {"starttls", "auth", "mail", "script"}
      /\ After(pc) = "mail" => how.once /\ pc \in {"ehlo", "again", "pass"}
      /\ After(pc) = "script" => ~how.once /\ pc \in {"ehlo", "again", "pass"}
      /\ pc = "starttls" => After(pc) = "handshake"
      /\ pc = "auth" => After(pc) = "user"
      /\ pc = "user" => After(pc) = "pass"
      /\ pc = "mail" => After(pc) = "rcpt"
      /\ pc = "rcpt" => After(pc) = "data"
      /\ pc = "data" => After(pc) = "body"
  BY <1>1, <1>2, ReadsAre
<1>4. pc \in {"greeting", "ehlo", "starttls", "again", "auth", "user", "pass", "mail", "rcpt", "data"}
  BY ReadsAre
<1>5. Expected[pc] # 0 /\ Expected[pc] # 500
  BY <1>4 DEF Expected
<1> HIDE DEF After
<1> QED BY <1>3, <1>4, <1>5, ReadsAre DEF Before, Behind

LEMMA ProceedStep == IInv /\ Proceed => IInv'
<1> SUFFICES ASSUME IInv, Proceed PROVE IInv'
  OBVIOUS
<1> USE DEF IInv
<1> DEFINE next == After(pc)
<1>0. /\ pc \in Reads \ {"body"} /\ Read(Expected[pc])
      /\ kept' = (kept \/ next = "script")
      /\ next \in {"script", "handshake"} => pc' = next /\ input' = input
      /\ next \notin {"script", "handshake"} => Writes(next, Command(next))
      /\ how' = IF next = "script" THEN NoCall ELSE how
      /\ UNCHANGED <<n, dotted, stage, envelope, text, accepted, first, told>>
  BY DEF Proceed, server
<1>1. /\ next \in {"script", "handshake"} \cup (Reads \ {"greeting"})
      /\ next = "script" => pc \in {"ehlo", "again", "pass"} /\ ~how.once
      /\ next = "handshake" => pc = "starttls"
      /\ pc \in {"mail", "rcpt", "data"} <=> next \in {"rcpt", "data", "body"}
      /\ next = "mail" => how.once
      /\ next = "rcpt" <=> pc = "mail"
      /\ next = "data" <=> pc = "rcpt"
      /\ next = "body" <=> pc = "data"
      /\ next \in Reads \ {"body"} => Before(next) = Behind(pc)
      /\ Expected[pc] # 0 /\ Expected[pc] # 500
  BY <1>0, AfterIs
<1> HIDE DEF next
<1>2. /\ output' \in Seq(Codes) /\ instep' \in BOOLEAN
      /\ instep' => instep /\ output' = <<>>
      /\ instep' => input = <<>> \/ stage = "closed"
      /\ output # <<>> /\ Head(output) = Expected[pc] /\ output[1] = Expected[pc]
      /\ \A i \in 1..Len(output') : \E j \in 1..Len(output) : output[j] = output'[i]
  BY <1>0, <1>1, ReadMade
<1>3. input \in Seq(Written) /\ (stage = "closed" => input = <<>>)
  BY DEF TypeOK, Always
<1>4. /\ input' \in Seq(Written) /\ pc' \in {next, "dead"}
      /\ pc' = "dead" => stage = "closed"
      /\ stage = "closed" => input' = <<>>
  <2>1. CASE next \in {"script", "handshake"}
    BY <1>0, <1>3, <2>1
  <2>2. CASE next \in Reads \ {"greeting"}
    <3>1. next \notin {"script", "handshake"}
      BY <2>2, ReadsAre
    <3>2. Command(next) \in Seq(Written)
      BY <2>2, CommandFacts, BodyCommand
    <3>3. input \o Command(next) \in Seq(Written) /\ next # "dead"
      BY <1>3, <2>2, <3>2, ReadsAre
    <3> QED BY <1>0, <1>3, <3>1, <3>3 DEF Writes
  <2> QED BY <1>1, <2>1, <2>2
<1>5. /\ \A step \in Reads : Command(step)' = Command(step)
      /\ next \in Reads /\ input = <<>> /\ stage # "closed" => input' = Command(next) /\ pc' = next
  <2>1. next \in Reads => next \notin {"script", "handshake"}
    BY ReadsAre
  <2>2. \A step \in Reads : Command(step)' = Command(step)
    BY <1>0, SameCommand
  <2>3. next \in Reads => Command(next) \in Seq(Written)
    BY <1>1, CommandFacts, BodyCommand
  <2>4. next \in Reads => <<>> \o Command(next) = Command(next)
    BY <2>3
  <2> QED BY <1>0, <2>1, <2>2, <2>4 DEF Writes
<1>6. TypeOK'
  BY <1>0, <1>1, <1>2, <1>4, Typed DEF TypeOK
<1>7. Always'
  <2>1. kept => pc \in {"mail", "rcpt", "data"}
    BY <1>0, ReadsAre DEF Always, Sending
  <2>2. kept' => pc' \in {"script", "dead"} \cup Sending
    BY <1>0, <1>1, <1>4, <2>1 DEF Sending
  <2>3. pc' \in Sending \/ how'.once => n' >= 1
    <3>1. ~NoCall.once
      BY DEF NoCall
    <3>2. pc' \in Sending => how.once \/ pc \in Sending
      BY <1>1, <1>4, ReadsAre DEF Sending
    <3> QED BY <1>0, <3>1, <3>2 DEF Always
  <2> QED BY <1>0, <1>4, <2>2, <2>3 DEF Always
<1>8. InStep'
  <2> SUFFICES ASSUME instep' PROVE InStep'
    BY DEF InStep
  <2>1. input = <<>> /\ output' = <<>>
    BY <1>2, <1>3
  <2>2. pc' = "script" => input' = <<>>
    BY <1>0, <1>1, <1>4, <2>1, ReadsAre
  <2>3. ASSUME stage # "closed" PROVE Turn' /\ BodyTurn'
    <3>1. pc' = next /\ Turn
      BY <1>2, <1>4, <2>3 DEF InStep
    <3>2. Granted(pc)
      BY <1>0, <1>1, <1>2, <2>1, <2>3, <3>1, ReadsAre DEF Turn, Asked, Refused
    <3>3. /\ pc = "mail" => envelope = [from |-> {n}, to |-> {}]
          /\ pc = "rcpt" => envelope = Own(n)
          /\ pc = "data" => envelope = Own(n) /\ text = <<>>
      BY <1>1, <1>2, <2>1, <3>1 DEF Turn, Asked, Refused
    <3>4. CASE next = "script"
      <4>1. stage = "command" /\ kept' = TRUE
        BY <1>0, <1>1, <3>2, <3>4 DEF Granted, Behind
      <4> QED BY <1>0, <2>1, <2>2, <3>1, <3>4, <4>1 DEF Turn, BodyTurn
    <3>5. CASE next = "handshake"
      <4>1. stage = "tls" /\ input' = <<>>
        BY <1>0, <1>1, <2>1, <3>2, <3>5 DEF Granted, Behind
      <4> QED BY <1>0, <2>1, <3>1, <3>5, <4>1 DEF Turn, BodyTurn
    <3>6. CASE next = "body"
      <4>1. stage = "data" /\ envelope = Own(n) /\ text = <<>>
        BY <1>1, <3>2, <3>3, <3>6 DEF Granted, Behind
      <4>2. input' = Command("body")'
        BY <1>5, <2>1, <2>3, <3>6, ReadsAre
      <4>3. Own(n)' = Own(n)
        BY <1>0 DEF Own
      <4>4. Writing'
        BY <1>0, <4>1, <4>2, <4>3 DEF Writing
      <4> QED BY <1>0, <2>1, <3>1, <3>6, <4>1, <4>4 DEF Turn, BodyTurn
    <3>7. CASE next \in Reads \ {"greeting", "body"}
      <4>1. Asked(pc)'
        <5>1. stage' = Before(next)
          BY <1>0, <1>1, <3>2, <3>7 DEF Granted
        <5> QED BY <1>5, <2>1, <2>3, <3>1, <3>7, <5>1 DEF Asked, Before
      <4>2. Own(n)' = Own(n)
        BY <1>0 DEF Own
      <4> QED BY <1>0, <1>1, <3>1, <3>3, <3>7, <4>1, <4>2, ReadsAre DEF Turn, BodyTurn
    <3> QED BY <1>1, <3>4, <3>5, <3>6, <3>7
  <2> QED BY <1>0, <2>1, <2>2, <2>3 DEF InStep
<1>9. FirstMail'
  <2> SUFFICES ASSUME first, pc' # "dead", pc' = next PROVE FirstMail'
    BY <1>0, <1>4 DEF FirstMail, Sending
  <2>1. \A x : In(output', x) => In(output, x)
    BY <1>2 DEF In
  <2>2. In(output, Expected[pc])
    BY <1>2 DEF In, TypeOK
  <2>3. stage # "closed" /\ next \in Reads \ {"body"} =>
          /\ Len(input') = Len(input) + 1
          /\ input'[Len(input) + 1].cmd = IF next \in {"ehlo", "again"} THEN "EHLO" ELSE next
          /\ input'[Len(input) + 1].of = n
          /\ \A i \in 1..Len(input) : input'[i] = input[i]
    <3> SUFFICES ASSUME stage # "closed", next \in Reads \ {"body"}
                 PROVE  /\ Len(input') = Len(input) + 1
                        /\ input'[Len(input) + 1].cmd = IF next \in {"ehlo", "again"} THEN "EHLO" ELSE next
                        /\ input'[Len(input) + 1].of = n
                        /\ \A i \in 1..Len(input) : input'[i] = input[i]
      OBVIOUS
    <3> DEFINE c == Command(next)[1]
    <3>1. /\ Command(next) = <<c>> /\ c \in Written /\ c.of = n
          /\ c.cmd = IF next \in {"ehlo", "again"} THEN "EHLO" ELSE next
      BY <1>1, CommandFacts, ReadsAre
    <3> HIDE DEF c
    <3>2. Writes(next, <<c>>)
      BY <1>0, <3>1, ReadsAre
    <3> QED BY <3>1, <3>2, WritesMade, ReadsAre
  <2>4. \A i \in 1..Len(input') : next \in {"script", "handshake"} \cup (Reads \ {"body"}) =>
          \/ i \in 1..Len(input) /\ input'[i] = input[i] /\ (next \in Reads => i < Len(input'))
          \/ /\ stage # "closed" /\ next \in Reads /\ i = Len(input')
             /\ input'[i].cmd = IF next \in {"ehlo", "again"} THEN "EHLO" ELSE next
             /\ input'[i].of = n
    BY <1>0, <1>3, <1>4, <2>3, ReadsAre
  <2>5. CASE pc \notin Sending /\ next # "mail"
    <3>1. Clean
      BY <1>0, <2>5, ReadsAre DEF FirstMail
    <3>2. next \in {"script", "handshake", "ehlo", "again", "starttls", "auth", "user", "pass"}
      BY <1>0, <1>1, <2>5, ReadsAre DEF Sending
    <3>3. \A i \in 1..Len(input') : input'[i].cmd \notin Content
      BY <2>4, <3>1, <3>2, ReadsAre DEF Clean, Content
    <3>4. Clean'
      BY <1>0, <2>1, <3>1, <3>3 DEF Clean
    <3> QED BY <3>2, <3>4 DEF FirstMail, Sending
  <2>6. CASE next = "mail"
    <3>1. Clean
      BY <1>0, <1>1, <2>6, ReadsAre DEF FirstMail, Sending
    <3>2. ASSUME NEW i \in 1..Len(input')
          PROVE  /\ input'[i].cmd \notin {"text", "rest", "dot"}
                 /\ input'[i].cmd \in {"mail", "rcpt", "data"} => input'[i].of = n'
                 /\ input'[i].cmd = "data" => pc' = "data" /\ i = Len(input')
      BY <1>0, <2>4, <2>6, <3>1, ReadsAre DEF Clean, Content
    <3>3. envelope'.from = {} /\ envelope'.to = {} /\ stage' # "data" /\ ~In(output', 354)
      BY <1>0, <2>1, <3>1 DEF Clean, NoMessage
    <3>4. Addressed'
      BY <3>2, <3>3 DEF Addressed
    <3> QED BY <2>6, <3>4 DEF FirstMail, Sending
  <2>7. CASE pc \in {"mail", "rcpt"}
    <3>1. Addressed
      BY <2>7 DEF FirstMail
    <3>2. next \in {"rcpt", "data"} /\ next \in Reads \ {"body"}
      BY <1>1, <2>7, ReadsAre
    <3>3. ASSUME NEW i \in 1..Len(input')
          PROVE  /\ input'[i].cmd \notin {"text", "rest", "dot"}
                 /\ input'[i].cmd \in {"mail", "rcpt", "data"} => input'[i].of = n'
                 /\ input'[i].cmd = "data" => pc' = "data" /\ i = Len(input')
      BY <1>0, <2>4, <2>7, <3>1, <3>2 DEF Addressed
    <3>4. stage' # "data" /\ ~In(output', 354)
      BY <1>0, <2>1, <2>7, <3>1 DEF Addressed
    <3>5. envelope'.from \subseteq {n'} /\ envelope'.to \subseteq {n'}
      BY <1>0, <3>1 DEF Addressed
    <3>6. Addressed'
      BY <3>3, <3>4, <3>5 DEF Addressed
    <3> QED BY <3>2, <3>6 DEF FirstMail, Sending
  <2>8. CASE pc = "data"
    <3>1. Addressed /\ next = "body"
      BY <1>1, <2>8 DEF FirstMail
    <3>2. Head(output) = 354 /\ In(output, 354)
      BY <1>2, <2>2, <2>8 DEF Expected
    <3>3. stage \in {"data", "closed"} /\ \A i \in 1..Len(output) : output[i] \in {354, 0}
      BY <3>1, <3>2 DEF Addressed
    <3>4. ~In(output', 250)
      BY <2>1, <3>3 DEF In
    <3>5. stage' = "data" => Writing'
      <4> SUFFICES ASSUME stage = "data" PROVE Writing'
        BY <1>0
      <4>1. input = <<>> /\ text = <<>> /\ envelope = Own(n)
        BY <3>1 DEF Addressed
      <4>2. input' = Command("body")'
        BY <1>5, <3>1, <4>1, ReadsAre
      <4>3. Own(n)' = Own(n)
        BY <1>0 DEF Own
      <4> QED BY <1>0, <4>1, <4>2, <4>3 DEF Writing
    <3>6. stage' # "data" => Left'
      BY <1>0, <1>4, <3>3 DEF Left
    <3> QED BY <3>1, <3>4, <3>5, <3>6 DEF FirstMail, Delivered, Sending
  <2> QED BY <1>0, <2>5, <2>6, <2>7, <2>8 DEF Sending
<1>10. SendReal' /\ MessagesOwn'
  BY <1>0, Kept
<1> QED BY <1>6, <1>7, <1>8, <1>9, <1>10

-----------------------------------------------------------------------------
(* Every step keeps the invariant.                                         *)
LEMMA StepInv == IInv /\ [Next]_vars => IInv'
<1> SUFFICES ASSUME IInv, [Next]_vars PROVE IInv'
  OBVIOUS
<1>1. CASE Call
  BY <1>1, ConnectStep, SendOnceStep, SendStep, CloseStep DEF Call
<1>2. CASE Progress
  BY <1>2, ProceedStep, SentStep, FailStep, HandshakeStep, HandshakeFailsStep DEF Progress
<1>3. CASE Serve
  BY <1>3, GreetStep, EhloStep, StartTlsStep, LoginStep, MailStep, RcptStep, DataStep,
     LineStep, DotStep, RefuseStep DEF Serve
<1>4. CASE HangUp
  BY <1>4, HangUpStep
<1>5. CASE UNCHANGED vars
  <2>1. UNCHANGED <<pc, how, kept, n, dotted, stage, input, output, envelope, text, instep,
                    first, told, accepted>>
    BY <1>5 DEF vars, client, server, wires
  <2>2. TypeOK' /\ Always'
    BY <2>1 DEF IInv, TypeOK, Always
  <2>3. \A step : Command(step)' = Command(step)
    BY <2>1, SameCommand
  <2>4. Message' = Message /\ Own(n)' = Own(n) /\ (Has(n)' <=> Has(n)) /\ (Left' <=> Left)
    BY <2>1 DEF Message, Own, Has, Left
  <2>5. Writing' <=> Writing
    BY <2>1, <2>3, <2>4 DEF Writing
  <2>6. InStep'
    BY <2>1, <2>3, <2>4, <2>5 DEF IInv, InStep, Turn, BodyTurn, Asked, Granted, Refused
  <2>7. FirstMail'
    BY <2>1, <2>4, <2>5 DEF IInv, FirstMail, Clean, Addressed, Delivered
  <2>8. SendReal' /\ MessagesOwn'
    BY <2>1, Kept DEF IInv
  <2> QED BY <2>2, <2>6, <2>7, <2>8 DEF IInv
<1> QED BY <1>1, <1>2, <1>3, <1>4, <1>5 DEF Next

(* The invariant holds.                                                    *)
LEMMA Inductive == Spec => []IInv
BY InitInv, StepInv, PTL DEF Spec

(* Every variable of the client, the connection and the server keeps its   *)
(* type, for every number of messages and of pieces.                       *)
THEOREM TypeCorrect == Spec => []TypeOK
<1>1. IInv => TypeOK
  BY DEF IInv
<1> QED BY <1>1, Inductive, PTL

(* A message the script is told is sent has been accepted by the server,   *)
(* with its own sender, recipient and text: the first of a connection, and *)
(* any other if every reply was read whole (smtp_do_send,                  *)
(* smtp_read_response).                                                    *)
THEOREM SendCorrect == Spec => []SendReal
<1>1. IInv => SendReal
  BY DEF IInv
<1> QED BY <1>1, Inductive, PTL

(* No message that is accepted in step is put together from two sends: a   *)
(* failed send leaves nothing of its own for the next (smtp_do_send).      *)
THEOREM MessagesCorrect == Spec => []MessagesOwn
<1>1. IInv => MessagesOwn
  BY DEF IInv
<1> QED BY <1>1, Inductive, PTL
=============================================================================
