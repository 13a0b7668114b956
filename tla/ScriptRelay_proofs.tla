------------------------ MODULE ScriptRelay_proofs -------------------------
(***************************************************************************)
(* The safety properties of ScriptRelay, for bodies, pages, pipes and      *)
(* buffers of any size.                                                    *)
(***************************************************************************)
EXTENDS ScriptRelay, TLAPS

Alive == spc \in {"setup", "read", "write"}
Early == hpc \in {"head", "route", "body", "spawn"}

(* How far the two processes have come, together.                          *)
Control ==
  /\ hpc = "head" => headIn = 0 /\ bodyIn = 0
  /\ Early => fed = 0 /\ resp = 0 /\ spc = "none"
  /\ spc \in {"none", "setup"} => given = 0 /\ written = 0
  /\ ~HandlerOver => reply = "none"
  /\ hpc \in {"collect", "wait"} => fed = bodyIn
  /\ Alive => ~HandlerOver

(* Who has which descriptor follows from where the two are.                *)
The(p, condition) == IF condition THEN {p} ELSE {}

Held == [e \in Ends |->
  CASE e = "inR" -> The("handler", Piped /\ hpc = "close") \cup The("script", Piped /\ Alive)
    [] e = "inW" -> The("handler", Piped /\ hpc \in {"close", "feed"})
                      \cup The("script", Piped /\ spc = "setup")
    [] e = "outR" -> The("handler", hpc \in {"close", "feed", "collect"})
                       \cup The("script", spc = "setup")
    [] e = "outW" -> The("handler", hpc = "close") \cup The("script", Alive)
    [] e = "client" -> The("handler", ~HandlerOver) \cup The("script", Alive)]

(* TypeOK without holders, as words and numbers.                           *)
WordsOK ==
  /\ req \in Requests
  /\ client \in {"open", "shut", "gone"}
  /\ hpc \in {"head", "route", "body", "spawn", "close", "feed", "collect", "wait",
              "ended", "killed"}
  /\ reply \in {"none", "not found", "static", "error", "malformed", "page"}
  /\ spc \in {"none", "setup", "read", "write", "done", "killed", "crashed"}

NumbersOK ==
  /\ sent \in Nat /\ sent <= Head + req.body
  /\ headIn \in Nat /\ headIn <= Head
  /\ bodyIn \in Nat /\ bodyIn <= MaxBody
  /\ fed \in Nat /\ fed <= bodyIn
  /\ given \in Nat /\ given <= fed
  /\ written \in Nat /\ written <= req.output
  /\ resp \in Nat /\ resp <= written /\ resp <= MaxResponse
  /\ replied \in Nat /\ replied <= resp

IInv == WordsOK /\ NumbersOK /\ Control /\ holders = Held

-----------------------------------------------------------------------------
LEMMA RequestFields ==
  ASSUME WordsOK
  PROVE  /\ req.length \in Nat /\ req.length <= MaxBody
         /\ req.body \in Nat /\ req.body <= MaxBody
         /\ req.output \in Nat \ {0}
         /\ Length \in Nat /\ Length <= MaxBody
         /\ MaxBody \in Nat /\ HeadRoom \in Nat /\ MaxResponse \in Nat \ {0} /\ PipeCap \in Nat
<1>1. /\ req.length \in 0..MaxBody /\ req.body \in 0..MaxBody
      /\ req.output \in Nat \ {0}
  <2>1. CASE req \in [file : {"script"}, length : 0..MaxBody, body : 0..MaxBody, output : 1..MaxOutput]
    BY <2>1, ConstantsAssumption
  <2>2. CASE req \in [file : Files, length : 0..MaxBody, body : 0..MaxBody, output : {1}]
    BY <2>2
  <2> QED BY <2>1, <2>2 DEF WordsOK, Requests
<1> QED BY <1>1, ConstantsAssumption DEF Length

LEMMA WordsStep == IInv /\ [Next]_vars => WordsOK'
<1> SUFFICES ASSUME IInv, [Next]_vars PROVE WordsOK'
  OBVIOUS
<1> USE DEF clientVars, inputVars, replyVars, scriptVars, IInv, WordsOK
<1>1. CASE ClientSends
  BY <1>1 DEF ClientSends
<1>2. CASE ClientCloses
  BY <1>2 DEF ClientCloses
<1>3. CASE ReadHead
  BY <1>3 DEF ReadHead
<1>4. CASE NotFound
  BY <1>4 DEF NotFound, Finish
<1>5. CASE ServeStatic
  BY <1>5 DEF ServeStatic, Finish
<1>6. CASE ParseHeaders
  BY <1>6 DEF ParseHeaders
<1>7. CASE ReadBody
  BY <1>7 DEF ReadBody
<1>8. CASE Spawn
  BY <1>8 DEF Spawn, Finish
<1>9. CASE CloseEnds
  BY <1>9 DEF CloseEnds
<1>10. CASE Feed
  BY <1>10 DEF Feed
<1>11. CASE Collect
  BY <1>11 DEF Collect
<1>12. CASE Respond
  BY <1>12 DEF Respond, Finish
<1>13. CASE Setup
  BY <1>13 DEF Setup
<1>14. CASE Read
  BY <1>14 DEF Read
<1>15. CASE Write
  BY <1>15 DEF Write, ScriptEnds
<1>16. CASE Crash
  BY <1>16 DEF Crash, ScriptEnds
<1>17. CASE UNCHANGED vars
  BY <1>17 DEF vars
<1> QED BY <1>1, <1>2, <1>3, <1>4, <1>5, <1>6, <1>7, <1>8, <1>9, <1>10, <1>11, <1>12, <1>13,
           <1>14, <1>15, <1>16, <1>17 DEF Next, Client, Handler, Script

LEMMA NumbersStep == IInv /\ [Next]_vars => NumbersOK'
<1> SUFFICES ASSUME IInv, [Next]_vars PROVE NumbersOK'
  OBVIOUS
<1> USE DEF clientVars, inputVars, replyVars, scriptVars, IInv, NumbersOK, Lesser, Head
<1>0. /\ req.length \in Nat /\ req.length <= MaxBody
      /\ req.body \in Nat /\ req.body <= MaxBody
      /\ req.output \in Nat \ {0}
      /\ Length \in Nat /\ Length <= MaxBody
      /\ MaxBody \in Nat /\ HeadRoom \in Nat /\ MaxResponse \in Nat \ {0} /\ PipeCap \in Nat
  BY RequestFields
<1>1. CASE ClientSends
  BY <1>0, <1>1 DEF ClientSends
<1>2. CASE ClientCloses
  BY <1>0, <1>2 DEF ClientCloses
<1>3. CASE ReadHead
  BY <1>0, <1>3 DEF ReadHead, Control, Early
<1>4. CASE NotFound
  <2>1. replied' = 0 /\ UNCHANGED <<req, sent, headIn, bodyIn, fed, resp, given, written>>
    BY <1>4 DEF NotFound, Finish
  <2> QED BY <1>0, <2>1
<1>5. CASE ServeStatic
  <2>1. replied' = 0 /\ UNCHANGED <<req, sent, headIn, bodyIn, fed, resp, given, written>>
    BY <1>5 DEF ServeStatic, Finish
  <2> QED BY <1>0, <2>1
<1>6. CASE ParseHeaders
  BY <1>0, <1>6 DEF ParseHeaders
<1>7. CASE ReadBody
  BY <1>0, <1>7 DEF ReadBody, BodyMissing, Arrived, Control, Early
<1>8. CASE Spawn
  BY <1>0, <1>8 DEF Spawn, Finish
<1>9. CASE CloseEnds
  BY <1>0, <1>9 DEF CloseEnds
<1>10. CASE Feed
  BY <1>0, <1>10 DEF Feed, InPipe
<1>11. CASE Collect
  BY <1>0, <1>11 DEF Collect, OutPipe
<1>12. CASE Respond
  BY <1>0, <1>12 DEF Respond, Finish
<1>13. CASE Setup
  BY <1>0, <1>13 DEF Setup
<1>14. CASE Read
  BY <1>0, <1>14 DEF Read, InPipe, WantsBody
<1>15. CASE Write
  BY <1>0, <1>15 DEF Write, ScriptEnds
<1>16. CASE Crash
  BY <1>0, <1>16 DEF Crash, ScriptEnds
<1>17. CASE UNCHANGED vars
  BY <1>17 DEF vars
<1> QED BY <1>1, <1>2, <1>3, <1>4, <1>5, <1>6, <1>7, <1>8, <1>9, <1>10, <1>11, <1>12, <1>13,
           <1>14, <1>15, <1>16, <1>17 DEF Next, Client, Handler, Script

LEMMA ControlStep == IInv /\ [Next]_vars => Control'
<1> SUFFICES ASSUME IInv, [Next]_vars PROVE Control'
  OBVIOUS
<1> USE DEF clientVars, inputVars, replyVars, scriptVars, IInv, Control, Early, Alive, HandlerOver
<1>0. Alive /\ Piped => holders["inR"] # {}
  BY DEF Held, Ends, The
<1>2. CASE ClientSends
  BY <1>2 DEF ClientSends
<1>3. CASE ClientCloses
  BY <1>3 DEF ClientCloses
<1>4. CASE ReadHead
  BY <1>4 DEF ReadHead
<1>5. CASE NotFound
  BY <1>5 DEF NotFound, Finish
<1>6. CASE ServeStatic
  BY <1>6 DEF ServeStatic, Finish
<1>7. CASE ParseHeaders
  BY <1>7 DEF ParseHeaders
<1>8. CASE ReadBody
  BY <1>8 DEF ReadBody
<1>9. CASE Spawn
  BY <1>9 DEF Spawn, Finish
<1>10. CASE CloseEnds
  BY <1>10 DEF CloseEnds, Piped, NumbersOK
<1>11. CASE Feed
  BY <1>0, <1>11 DEF Feed, Piped, NumbersOK
<1>12. CASE Collect
  BY <1>12 DEF Collect
<1>13. CASE Respond
  BY <1>13 DEF Respond, Finish, ScriptOver
<1>14. CASE Setup
  BY <1>14 DEF Setup
<1>15. CASE Read
  BY <1>15 DEF Read
<1>16. CASE Write
  BY <1>16 DEF Write, ScriptEnds
<1>17. CASE Crash
  BY <1>17 DEF Crash, ScriptEnds
<1>18. CASE UNCHANGED vars
  BY <1>18 DEF vars
<1> QED BY <1>2, <1>3, <1>4, <1>5, <1>6, <1>7, <1>8, <1>9, <1>10, <1>11, <1>12, <1>13, <1>14,
           <1>15, <1>16, <1>17, <1>18 DEF Next, Client, Handler, Script

LEMMA HoldersStep == IInv /\ [Next]_vars => holders' = Held'
<1> SUFFICES ASSUME IInv, [Next]_vars PROVE holders' = Held'
  OBVIOUS
<1> USE DEF clientVars, inputVars, replyVars, scriptVars, IInv, Control, Early, Alive, HandlerOver,
        Held, The, Ends, Piped
<1>2. CASE ClientSends
  BY <1>2 DEF ClientSends
<1>3. CASE ClientCloses
  BY <1>3 DEF ClientCloses
<1>4. CASE ReadHead
  BY <1>4 DEF ReadHead, Drop
<1>5. CASE NotFound
  <2>1. hpc' \in {"ended", "killed"} /\ spc = "none" /\ UNCHANGED <<bodyIn, spc>>
    BY <1>5 DEF NotFound, Finish
  <2>2. holders' = [e \in Ends |-> holders[e] \ {"handler"}]
    BY <1>5 DEF NotFound, Finish, Drop
  <2> QED BY <2>1, <2>2
<1>6. CASE ServeStatic
  BY <1>6 DEF ServeStatic, Finish, Drop
<1>7. CASE ParseHeaders
  BY <1>7 DEF ParseHeaders
<1>8. CASE ReadBody
  BY <1>8 DEF ReadBody
<1>9. CASE Spawn
  BY <1>9 DEF Spawn, Finish, Pipes, Drop
<1>10. CASE CloseEnds
  BY <1>10 DEF CloseEnds, Drop
<1>11. CASE Feed
  BY <1>11 DEF Feed, Drop
<1>12. CASE Collect
  BY <1>12 DEF Collect, Drop
<1>13. CASE Respond
  BY <1>13 DEF Respond, Finish, ScriptOver, Drop
<1>14. CASE Setup
  BY <1>14 DEF Setup, Drop
<1>15. CASE Read
  BY <1>15 DEF Read
<1>16. CASE Write
  BY <1>16 DEF Write, ScriptEnds, Drop
<1>17. CASE Crash
  BY <1>17 DEF Crash, ScriptEnds, Drop
<1>18. CASE UNCHANGED vars
  BY <1>18 DEF vars
<1> QED BY <1>2, <1>3, <1>4, <1>5, <1>6, <1>7, <1>8, <1>9, <1>10, <1>11, <1>12, <1>13, <1>14,
           <1>15, <1>16, <1>17, <1>18 DEF Next, Client, Handler, Script

LEMMA Initial == Init => IInv
<1> SUFFICES ASSUME Init PROVE IInv
  OBVIOUS
<1> USE DEF Init
<1>1. WordsOK
  BY DEF WordsOK
<1>0. NumbersOK
  BY <1>1, RequestFields DEF NumbersOK, Head
<1>2. Control
  BY DEF Control, HandlerOver, Alive
<1>3. holders = Held
  BY DEF Held, The, Ends, Piped, Alive, HandlerOver
<1> QED BY <1>0, <1>1, <1>2, <1>3 DEF IInv

LEMMA Invariance == Spec => []IInv
<1>1. IInv /\ [Next]_vars => IInv'
  BY WordsStep, NumbersStep, ControlStep, HoldersStep DEF IInv
<1> QED BY <1>1, Initial, PTL DEF Spec

(* Every variable keeps its type.                                          *)
THEOREM TypeCorrect == Spec => []TypeOK
<1>1. IInv => TypeOK
  <2> SUFFICES ASSUME IInv PROVE TypeOK
    OBVIOUS
  <2>1. holders \in [Ends -> SUBSET {"handler", "script"}]
    BY DEF IInv, Held, The, Ends
  <2>2. WordsOK
    BY DEF IInv
  <2>3. /\ req.body \in Nat /\ req.output \in Nat /\ MaxBody \in Nat /\ MaxResponse \in Nat
        /\ Head \in Nat
    BY <2>2, RequestFields DEF Head
  <2>4. /\ sent \in 0..(Head + req.body) /\ headIn \in 0..Head /\ bodyIn \in 0..MaxBody
        /\ fed \in 0..bodyIn /\ given \in 0..fed /\ written \in 0..req.output
        /\ resp \in 0..Lesser(written, MaxResponse) /\ replied \in 0..resp
    BY <2>3 DEF IInv, NumbersOK, Lesser
  <2> QED BY <2>1, <2>2, <2>4 DEF WordsOK, TypeOK
<1> QED BY <1>1, Invariance, PTL

-----------------------------------------------------------------------------
(* The body on its way: what the client has not sent by now it will not    *)
(* send, and what it has sent is with the handler, in the pipe, or read.   *)

Cut == client # "open" /\ sent < Head + Length

BodyInv ==
  /\ hpc # "head" => headIn = Head \/ (client # "open" /\ sent < Head)
  /\ hpc \notin {"head", "route", "body"} /\ req.file = "script" => bodyIn >= Length \/ Cut
  /\ req.file = "script" => given <= Length
  /\ spc \in {"write", "done"} /\ req.file = "script" => given = Length \/ Cut

LEMMA BodyRead == IInv /\ BodyInv /\ Read => BodyInv'
<1> SUFFICES ASSUME IInv, BodyInv, Read PROVE BodyInv'
  OBVIOUS
<1>1. /\ given \in Nat /\ fed \in Nat /\ bodyIn \in Nat /\ given <= fed /\ fed <= bodyIn
      /\ Length \in Nat
  BY RequestFields DEF IInv, NumbersOK
<1>2. /\ spc = "read" /\ hpc \in {"close", "feed", "collect", "wait"}
      /\ UNCHANGED <<client, sent, hpc, headIn, bodyIn, fed, req>>
  BY DEF Read, IInv, WordsOK, Control, Early, Alive, HandlerOver, clientVars, inputVars
<1>3. Length' = Length /\ Cut' = Cut
  BY <1>2 DEF Length, Cut
<1>4. req.file = "script" => bodyIn >= Length \/ Cut
  BY <1>2 DEF BodyInv
<1>5. CASE WantsBody /\ Piped /\ InPipe > 0
  <2>1. given' = Lesser(fed, Length) /\ spc' = spc
    BY <1>5 DEF Read
  <2> QED BY <1>1, <1>2, <1>3, <2>1 DEF BodyInv, Lesser
<1>6. CASE ~(WantsBody /\ Piped /\ InPipe > 0)
  <2>1. given' = given /\ spc' = "write"
    BY <1>6 DEF Read
  <2>2. ASSUME req.file = "script" PROVE given = Length \/ Cut
    <3>1. CASE ~WantsBody
      BY <1>1, <2>2, <3>1 DEF WantsBody, BodyInv
    <3>2. CASE WantsBody
      <4>1. Piped => hpc \in {"collect", "wait"}
        BY <1>2, <1>6, <3>2 DEF Read, IInv, Held, The, Ends
      <4>2. Piped => given = bodyIn
        BY <1>1, <1>6, <3>2, <4>1 DEF InPipe, IInv, Control
      <4>3. ~Piped => given = bodyIn
        BY <1>1 DEF Piped
      <4>4. given < Length
        BY <3>2 DEF WantsBody
      <4>5. ~(bodyIn >= Length)
        BY <1>1, <4>2, <4>3, <4>4
      <4> QED BY <1>4, <2>2, <4>5
    <3> QED BY <3>1, <3>2
  <2> QED BY <1>1, <1>2, <1>3, <2>1, <2>2 DEF BodyInv
<1> QED BY <1>5, <1>6

LEMMA BodyStep == IInv /\ BodyInv /\ [Next]_vars => BodyInv'
<1> SUFFICES ASSUME IInv, BodyInv, [Next]_vars PROVE BodyInv'
  OBVIOUS
<1> USE DEF clientVars, inputVars, replyVars, scriptVars, IInv, BodyInv, NumbersOK, WordsOK, Head, Cut,
        Control, Early, Alive, HandlerOver, Length
<1>0. /\ req.length \in Nat /\ req.body \in Nat
      /\ MaxBody \in Nat /\ HeadRoom \in Nat /\ PipeCap \in Nat
  BY RequestFields
<1>1. CASE ClientSends
  BY <1>0, <1>1 DEF ClientSends
<1>2. CASE ClientCloses
  BY <1>0, <1>2 DEF ClientCloses
<1>3. CASE ReadHead
  BY <1>0, <1>3 DEF ReadHead
<1>4. CASE NotFound
  BY <1>0, <1>4 DEF NotFound, Finish
<1>5. CASE ServeStatic
  BY <1>0, <1>5 DEF ServeStatic, Finish
<1>6. CASE ParseHeaders
  BY <1>0, <1>6 DEF ParseHeaders
<1>7. CASE ReadBody
  BY <1>0, <1>7 DEF ReadBody, BodyMissing, Arrived, Lesser
<1>8. CASE Spawn
  BY <1>0, <1>8 DEF Spawn, Finish
<1>9. CASE CloseEnds
  BY <1>0, <1>9 DEF CloseEnds
<1>10. CASE Feed
  BY <1>0, <1>10 DEF Feed
<1>11. CASE Collect
  BY <1>0, <1>11 DEF Collect
<1>12. CASE Respond
  BY <1>0, <1>12 DEF Respond, Finish
<1>13. CASE Setup
  BY <1>0, <1>13 DEF Setup
<1>14. CASE Read
  BY <1>14, BodyRead
<1>15. CASE Write
  BY <1>0, <1>15 DEF Write, ScriptEnds
<1>16. CASE Crash
  BY <1>0, <1>16 DEF Crash, ScriptEnds
<1>17. CASE UNCHANGED vars
  BY <1>17 DEF vars
<1> QED BY <1>1, <1>2, <1>3, <1>4, <1>5, <1>6, <1>7, <1>8, <1>9, <1>10, <1>11, <1>12, <1>13,
           <1>14, <1>15, <1>16, <1>17 DEF Next, Client, Handler, Script

(* A client that sent its whole body has it given to the script.           *)
THEOREM BodyCorrect == Spec => []BodyIsWhole
<1>1. Init => BodyInv
  BY Initial, RequestFields DEF Init, BodyInv, Length, IInv
<1>2. IInv /\ BodyInv /\ [Next]_vars => BodyInv'
  BY BodyStep
<1>3. IInv /\ BodyInv => BodyIsWhole
  BY RequestFields DEF IInv, NumbersOK, BodyInv, BodyIsWhole, Cut, Head
<1> QED BY <1>1, <1>2, <1>3, Invariance, PTL DEF Spec

-----------------------------------------------------------------------------
(* The page on its way: it is complete when the script is done and there   *)
(* is nothing in the pipe, and nobody closes the pipe on a script before   *)
(* the buffer is full.                                                     *)

PageInv ==
  /\ spc = "done" => written = req.output
  /\ hpc = "wait" => resp = MaxResponse \/ (resp = written /\ ~Alive)
  /\ spc = "killed" /\ ~HandlerOver => hpc = "wait" /\ resp = MaxResponse
  /\ reply = "page" /\ spc # "crashed" => replied = Lesser(req.output, MaxResponse)

LEMMA PageStep == IInv /\ PageInv /\ [Next]_vars => PageInv'
<1> SUFFICES ASSUME IInv, PageInv, [Next]_vars PROVE PageInv'
  OBVIOUS
<1> USE DEF clientVars, inputVars, replyVars, scriptVars, IInv, PageInv, NumbersOK, WordsOK,
        Control, Early, Alive, HandlerOver, Lesser
<1>0. req.output \in Nat \ {0} /\ MaxResponse \in Nat \ {0}
  BY RequestFields
<1>1. CASE ClientSends
  BY <1>0, <1>1 DEF ClientSends
<1>2. CASE ClientCloses
  BY <1>0, <1>2 DEF ClientCloses
<1>3. CASE ReadHead
  BY <1>0, <1>3 DEF ReadHead
<1>4. CASE NotFound
  BY <1>0, <1>4 DEF NotFound, Finish
<1>5. CASE ServeStatic
  BY <1>0, <1>5 DEF ServeStatic, Finish
<1>6. CASE ParseHeaders
  BY <1>0, <1>6 DEF ParseHeaders
<1>7. CASE ReadBody
  BY <1>0, <1>7 DEF ReadBody
<1>8. CASE Spawn
  BY <1>0, <1>8 DEF Spawn, Finish
<1>9. CASE CloseEnds
  BY <1>0, <1>9 DEF CloseEnds
<1>10. CASE Feed
  BY <1>0, <1>10 DEF Feed
<1>11. CASE Collect
  BY <1>0, <1>11 DEF Collect, OutPipe, Held, The, Ends
<1>12. CASE Respond
  BY <1>0, <1>12 DEF Respond, Finish, ScriptOver
<1>13. CASE Setup
  BY <1>0, <1>13 DEF Setup
<1>14. CASE Read
  BY <1>0, <1>14 DEF Read
<1>15. CASE Write
  BY <1>0, <1>15 DEF Write, ScriptEnds, OutPipe, Held, The, Ends
<1>16. CASE Crash
  BY <1>0, <1>16 DEF Crash, ScriptEnds
<1>17. CASE UNCHANGED vars
  BY <1>17 DEF vars
<1> QED BY <1>1, <1>2, <1>3, <1>4, <1>5, <1>6, <1>7, <1>8, <1>9, <1>10, <1>11, <1>12, <1>13,
           <1>14, <1>15, <1>16, <1>17 DEF Next, Client, Handler, Script

(* A page that is sent is all of the script's page, up to the size of the  *)
(* buffer, unless the script crashed.                                      *)
THEOREM PageCorrect == Spec => []PageIsWhole
<1>1. Init => PageInv
  BY DEF Init, PageInv, HandlerOver
<1>2. IInv /\ PageInv /\ [Next]_vars => PageInv'
  BY PageStep
<1>3. PageInv => PageIsWhole
  BY DEF PageInv, PageIsWhole
<1> QED BY <1>1, <1>2, <1>3, Invariance, PTL DEF Spec

-----------------------------------------------------------------------------
LEMMA AnsweredStep == IInv /\ Answered /\ [Next]_vars => Answered'
<1> SUFFICES ASSUME IInv, Answered, [Next]_vars PROVE Answered'
  OBVIOUS
<1> USE DEF clientVars, inputVars, replyVars, scriptVars, IInv, Answered, NumbersOK, WordsOK,
        Control, Early, Alive, HandlerOver, Piped
<1>1. CASE ClientSends
  BY <1>1 DEF ClientSends
<1>2. CASE ClientCloses
  BY <1>2 DEF ClientCloses
<1>3. CASE ReadHead
  BY <1>3 DEF ReadHead, Head
<1>4. CASE NotFound
  BY <1>4 DEF NotFound, Finish
<1>5. CASE ServeStatic
  BY <1>5 DEF ServeStatic, Finish
<1>6. CASE ParseHeaders
  BY <1>6 DEF ParseHeaders
<1>7. CASE ReadBody
  BY <1>7 DEF ReadBody
<1>8. CASE Spawn
  BY <1>8 DEF Spawn, Finish
<1>9. CASE CloseEnds
  BY <1>9 DEF CloseEnds
<1>10. CASE Feed
  BY <1>10 DEF Feed
<1>11. CASE Collect
  BY <1>11 DEF Collect
<1>12. CASE Respond
  BY <1>12 DEF Respond, Finish
<1>13. CASE Setup
  BY <1>13 DEF Setup
<1>14. CASE Read
  BY <1>14 DEF Read
<1>15. CASE Write
  BY <1>15 DEF Write, ScriptEnds
<1>16. CASE Crash
  BY <1>16 DEF Crash, ScriptEnds
<1>17. CASE UNCHANGED vars
  BY <1>17 DEF vars
<1> QED BY <1>1, <1>2, <1>3, <1>4, <1>5, <1>6, <1>7, <1>8, <1>9, <1>10, <1>11, <1>12, <1>13,
           <1>14, <1>15, <1>16, <1>17 DEF Next, Client, Handler, Script

(* Whoever sent something is answered, unless there was a body to write    *)
(* that a script, ended or never forked, has not read to the end.          *)
THEOREM AnswerCorrect == Spec => []Answered
<1>1. Init => Answered
  BY DEF Init, Answered, HandlerOver
<1>2. IInv /\ Answered /\ [Next]_vars => Answered'
  BY AnsweredStep
<1> QED BY <1>1, <1>2, Invariance, PTL DEF Spec

-----------------------------------------------------------------------------
(* The refinement mapping of ImplementsLife, step by step.                 *)

LEMMA LifeStep == IInv /\ IInv' /\ [Next]_vars => [Life!Next]_(Life!vars)
<1> SUFFICES ASSUME IInv, IInv', [Next]_vars PROVE [Life!Next]_(Life!vars)
  OBVIOUS
<1> DEFINE handler == IF HandlerOver THEN hpc ELSE "running"
           script == CASE spc = "none" -> "none" [] ScriptOver -> "over" [] OTHER -> "running"
           open == holders["client"] # {}
<1>1. open <=> (handler = "running" \/ script = "running")
  BY DEF IInv, WordsOK, Held, The, Ends, Alive, HandlerOver, ScriptOver
<1>2. open' <=> (handler' = "running" \/ script' = "running")
  BY DEF IInv, WordsOK, Held, The, Ends, Alive, HandlerOver, ScriptOver
<1>3. handler \in {"running", "ended", "killed"} /\ script \in {"none", "running", "over"}
  BY DEF IInv, WordsOK, HandlerOver, ScriptOver
<1>4. \/ handler' = handler /\ script' = script
      \/ handler = "running" /\ handler' = "running" /\ script = "none" /\ script' = "running"
      \/ handler = "running" /\ handler' = "ended" /\ script # "running" /\ script' = script
      \/ handler = "running" /\ handler' = "killed" /\ script' = script
      \/ handler' = handler /\ script = "running" /\ script' = "over"
  <2> USE DEF HandlerOver, ScriptOver, clientVars, inputVars, replyVars, scriptVars
  <2>1. CASE ClientSends
    BY <2>1 DEF ClientSends
  <2>2. CASE ClientCloses
    BY <2>2 DEF ClientCloses
  <2>3. CASE ReadHead
    BY <2>3 DEF ReadHead, IInv, Control, Early
  <2>4. CASE NotFound
    BY <2>4 DEF NotFound, Finish, IInv, Control, Early
  <2>5. CASE ServeStatic
    BY <2>5 DEF ServeStatic, Finish, IInv, Control, Early
  <2>6. CASE ParseHeaders
    BY <2>6 DEF ParseHeaders
  <2>7. CASE ReadBody
    BY <2>7 DEF ReadBody
  <2>8. CASE Spawn
    BY <2>8 DEF Spawn, Finish, IInv, Control, Early
  <2>9. CASE CloseEnds
    BY <2>9 DEF CloseEnds
  <2>10. CASE Feed
    BY <2>10 DEF Feed, IInv, WordsOK
  <2>11. CASE Collect
    BY <2>11 DEF Collect
  <2>12. CASE Respond
    BY <2>12 DEF Respond, Finish, IInv, WordsOK
  <2>13. CASE Setup
    BY <2>13 DEF Setup
  <2>14. CASE Read
    BY <2>14 DEF Read
  <2>15. CASE Write
    BY <2>15 DEF Write, ScriptEnds
  <2>16. CASE Crash
    BY <2>16 DEF Crash, ScriptEnds
  <2>17. CASE UNCHANGED vars
    BY <2>17 DEF vars
  <2> QED BY <2>1, <2>2, <2>3, <2>4, <2>5, <2>6, <2>7, <2>8, <2>9, <2>10, <2>11, <2>12, <2>13,
             <2>14, <2>15, <2>16, <2>17 DEF Next, Client, Handler, Script
<1> QED BY <1>1, <1>2, <1>3, <1>4 DEF Life!Next, Life!vars, Life!StartScript, Life!HandlerEnds,
                                      Life!HandlerKilled, Life!ScriptEnds

(* The processes of a request live as RelayLife says, but for the fairness *)
(* in it.                                                                  *)
THEOREM LifeCorrect == Spec => Life!Safety
<1>1. ASSUME Init PROVE Life!Init
  <2>1. hpc = "head" /\ spc = "none"
    BY <1>1 DEF Init
  <2>2. "handler" \in holders["client"]
    BY <1>1 DEF Init, Ends
  <2> QED BY <2>1, <2>2 DEF Life!Init, HandlerOver, ScriptOver
<1>2. IInv /\ IInv' /\ [Next]_vars => [Life!Next]_(Life!vars)
  BY LifeStep
<1> QED BY <1>1, <1>2, Invariance, PTL DEF Spec, Life!Safety
=============================================================================
