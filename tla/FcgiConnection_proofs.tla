------------------------ MODULE FcgiConnection_proofs ------------------------
(***************************************************************************)
(* The safety of FcgiConnection, for any number and size of requests, and  *)
(* at the end that of NameValue, for any variables of a request.           *)
(***************************************************************************)
EXTENDS FcgiConnection, Params, SequenceTheorems, FiniteSetTheorems,
        WellFoundedInduction, TLAPS

(* Taking from the front of a sequence and dropping it.                    *)
LEMMA TakeDrop ==
  ASSUME NEW S, NEW s \in Seq(S), NEW n \in 0..Len(s)
  PROVE  /\ Take(s, n) \in Seq(S)
         /\ Len(Take(s, n)) = n
         /\ \A j \in 1..n : Take(s, n)[j] = s[j]
         /\ Drop(s, n) \in Seq(S)
         /\ Len(Drop(s, n)) = Len(s) - n
  BY DEF Take, Drop

-----------------------------------------------------------------------------
(* Type correctness, one group of variables at a time.                     *)
LEMMA TypeUpstreamStep == TypeUpstream /\ [Next]_vars => TypeUpstream'
<1> SUFFICES ASSUME TypeUpstream, [Next]_vars PROVE TypeUpstream'
  OBVIOUS
<1> USE ConstantsAssumption DEF TypeUpstream, upstreamVars, Tag, Request
<1>1. ASSUME UNCHANGED <<cur, req, sent, fate>>,
             link' \in {"none", "open", "shut", "abort"}
      PROVE  TypeUpstream'
  BY <1>1
<1>2. ASSUME NEW a \in Attr, Connect(a) PROVE TypeUpstream'
  BY <1>2 DEF Connect, StartRequest
<1>3. ASSUME NEW a \in Attr, NextRequest(a) PROVE TypeUpstream'
  BY <1>3 DEF NextRequest, StartRequest
<1>4. CASE SendRecord
  BY <1>4 DEF SendRecord
<1>5. ASSUME NEW how \in {"shut", "abort"}, HangUp(how) PROVE TypeUpstream'
  BY <1>5 DEF HangUp
<1>6. CASE WriteEndRequest
  BY <1>6 DEF WriteEndRequest
<1>7. CASE Killed
  BY <1>7 DEF Killed
<1> QED BY <1>1, <1>2, <1>3, <1>4, <1>5, <1>6, <1>7
        DEF Next, Upstream, Worker, vars, Accept, ReadRecord, ReadEnd,
            DispatchNoScript, DispatchScript, Run, RunUnreadable, WriteOutput,
            WriteEndOfStream, Finish, Restart

(* The fields of the request in progress.                                  *)
LEMMA ReqFields ==
  ASSUME TypeUpstream
  PROVE  /\ req.keep \in BOOLEAN
         /\ req.script \in BOOLEAN
         /\ req.cookie \in BOOLEAN
         /\ req.length \in 0..MaxBody
         /\ req.body \in 0..MaxBody
<1>1. CASE req \in Attr
  <2>1. req \in [keep : BOOLEAN, script : BOOLEAN, cookie : BOOLEAN,
                length : 0..MaxBody, body : 0..MaxBody]
    BY <1>1 DEF Attr
  <2> QED BY <2>1
<1>2. CASE req = NoAttr
  <2>1. 0 \in 0..MaxBody
    BY ConstantsAssumption
  <2>2. /\ req.keep = FALSE /\ req.script = FALSE /\ req.cookie = FALSE
        /\ req.length = 0 /\ req.body = 0
    BY <1>2 DEF NoAttr
  <2> QED BY <2>1, <2>2
<1> QED BY <1>1, <1>2 DEF TypeUpstream

(* Before the first request there is no connection and no record.          *)
Started == cur = 0 => link = "none" /\ sent = 0

LEMMA StartedStep == TypeUpstream /\ Started /\ [Next]_vars => Started'
<1> SUFFICES ASSUME TypeUpstream, Started, [Next]_vars PROVE Started'
  OBVIOUS
<1> USE DEF TypeUpstream, Started, upstreamVars, Tag
<1>1. ASSUME NEW a \in Attr, Connect(a) \/ NextRequest(a) PROVE Started'
  BY <1>1, ConstantsAssumption DEF Connect, NextRequest, StartRequest
<1> QED BY <1>1
        DEF Next, Upstream, Worker, vars, SendRecord, HangUp, Accept, ReadRecord,
            ReadEnd, DispatchNoScript, DispatchScript, Run, RunUnreadable,
            WriteOutput, WriteEndOfStream, WriteEndRequest, Finish, Killed, Restart

LEMMA TypeWorkerStep ==
  TypeUpstream /\ Started /\ TypeWorker /\ [Next]_vars => TypeWorker'
<1> SUFFICES ASSUME TypeUpstream, Started, TypeWorker, [Next]_vars
             PROVE  TypeWorker'
  OBVIOUS
<1> USE DEF TypeWorker, bufferVars, upstreamVars
<1>1. ASSUME UNCHANGED <<request_id, params_buf, stdin_buf>>, recvd' \in {recvd, 0},
             pc' = pc \/
             pc' \in {"accept", "read", "dispatch", "run", "reply", "eos", "end",
                     "finish", "stuck", "dead"}
      PROVE  TypeWorker'
  BY <1>1
<1>2. <<>> \in Seq(Block) /\ <<>> \in Seq(Request)
  OBVIOUS
<1>3. CASE Accept
  BY <1>2, <1>3, ConstantsAssumption DEF Accept, Tag
<1>4. CASE ReadRecord
  <2>1. cur \in Request
    BY <1>4, ConstantsAssumption
    DEF ReadRecord, Started, TypeUpstream, Tag, Request
  <2>2. recvd' \in Nat /\ request_id' \in Tag /\ pc' \in {"dispatch", "read"}
    BY <1>4 DEF ReadRecord, TypeUpstream
  <2>3. CASE ReadParams
    <3>1. ParamsOf \in Block
      BY <2>1, ReqFields DEF ParamsOf, Block
    <3>2. params_buf' \in Seq(Block) /\ stdin_buf' \in Seq(Request)
      BY <2>3, <3>1 DEF ReadParams
    <3> QED BY <2>2, <3>2
  <2>4. CASE ReadStdin
    BY <2>1, <2>2, <2>4 DEF ReadStdin
  <2>5. CASE ReadBegin
    BY <1>2, <2>2, <2>5 DEF ReadBegin
  <2>6. CASE ReadParamsEnd \/ ReadStdinEnd
    BY <2>2, <2>6 DEF ReadParamsEnd, ReadStdinEnd
  <2> QED BY <1>4, <2>3, <2>4, <2>5, <2>6 DEF ReadRecord
<1>5. CASE Finish
  <2>1. params_buf' \in Seq(Block) /\ stdin_buf' \in Seq(Request)
    BY <1>2, <1>5 DEF Finish
  <2> QED BY <1>5, <2>1 DEF Finish
<1> QED BY <1>1, <1>3, <1>4, <1>5
        DEF Next, Upstream, Worker, vars, Connect, NextRequest, StartRequest,
            SendRecord, HangUp, ReadEnd, DispatchNoScript, DispatchScript, Run,
            Produce, RunUnreadable, WriteOutput, AfterChunk, WriteEndOfStream,
            WriteEndRequest, Killed, Restart

LEMMA TypeFlagsStep == TypeUpstream /\ TypeFlags /\ [Next]_vars => TypeFlags'
<1> SUFFICES ASSUME TypeUpstream, TypeFlags, [Next]_vars PROVE TypeFlags'
  OBVIOUS
<1> USE DEF TypeFlags, bufferVars
<1>1. ASSUME UNCHANGED <<params_done, stdin_done, keep_conn>> PROVE TypeFlags'
  BY <1>1
<1>2. CASE Accept
  BY <1>2 DEF Accept
<1>3. CASE ReadRecord
  <2>1. req.keep \in BOOLEAN
    BY ReqFields
  <2>2. CASE ReadBegin
    BY <2>1, <2>2 DEF ReadBegin
  <2>3. CASE ReadParams
    BY <2>3 DEF ReadParams
  <2>4. CASE ReadParamsEnd
    BY <2>4 DEF ReadParamsEnd
  <2>5. CASE ReadStdin
    BY <2>5 DEF ReadStdin
  <2>6. CASE ReadStdinEnd
    BY <2>6 DEF ReadStdinEnd
  <2> QED BY <1>3, <2>2, <2>3, <2>4, <2>5, <2>6 DEF ReadRecord
<1>4. CASE Finish
  BY <1>4 DEF Finish
<1> QED BY <1>1, <1>2, <1>3, <1>4
        DEF Next, Upstream, Worker, vars, Connect, NextRequest, StartRequest,
            SendRecord, HangUp, ReadEnd, DispatchNoScript, DispatchScript, Run,
            RunUnreadable, WriteOutput, WriteEndOfStream, WriteEndRequest, Killed,
            Restart

Typed == TypeUpstream /\ TypeWorker /\ TypeFlags /\ Started

LEMMA TypedAlways == Spec => []Typed
<1>1. Init => Typed
  <2> SUFFICES ASSUME Init PROVE Typed
    OBVIOUS
  <2>1. TypeUpstream
    BY ConstantsAssumption DEF Init, TypeUpstream, Tag
  <2>2. TypeWorker
    BY ConstantsAssumption DEF Init, TypeWorker, Tag
  <2>3. TypeFlags
    BY DEF Init, TypeFlags
  <2> QED BY <2>1, <2>2, <2>3 DEF Init, Typed, Started
<1>2. Typed /\ [Next]_vars => Typed'
  BY TypeUpstreamStep, StartedStep, TypeWorkerStep, TypeFlagsStep DEF Typed
<1> QED BY <1>1, <1>2, PTL DEF Spec

-----------------------------------------------------------------------------
(* Control: how the position of the worker, the connection and what        *)
(* upstream knows of the request in progress hang together.                *)
Busy == pc \in {"dispatch", "run", "reply", "eos", "end"}

Fates ==
  \A r \in Request : /\ r > cur => fate[r] = "unsent"
                     /\ r < cur => fate[r] \in {"answered", "lost"}

Link ==
  /\ recvd <= sent /\ sent <= Total
  /\ link = "open" => fate[cur] \in {"pending", "answered"}
  /\ link # "open" /\ cur > 0 => fate[cur] \in {"answered", "lost"}
  /\ link = "open" /\ fate[cur] = "answered" => recvd = Total
  /\ Busy \/ pc \in {"read", "finish"} => link # "none"
  /\ pc = "dead" => link = "none"
  /\ pc = "accept" /\ link # "none" => recvd = 0

Position ==
  /\ pc = "read" => ~stdin_done
  /\ pc = "read" /\ 3 <= recvd /\ recvd < Total => params_done
  /\ Busy => /\ request_id = cur
             /\ recvd = Total
             /\ link = "open" => fate[cur] = "pending"

Keep ==
  /\ pc = "read" /\ 0 < recvd /\ recvd < Total => keep_conn = req.keep
  /\ Busy => keep_conn = req.keep
  /\ pc = "finish" /\ cur = request_id =>
       /\ recvd = Total
       /\ keep_conn = req.keep
       /\ link = "open" => fate[cur] = "answered"
  /\ pc = "finish" /\ cur # request_id =>
       request_id < cur /\ recvd = 0 /\ keep_conn

Control == Fates /\ Link /\ Position /\ Keep

(* What NextRequest finds: the request it follows was answered completely, *)
(* and the worker is past its reply.                                       *)
LEMMA AtNextRequest ==
  ASSUME Typed, Control, NEW a \in Attr, NextRequest(a)
  PROVE  ~Busy /\ pc \notin {"accept", "dead"} /\ recvd = Total
<1>1. link = "open" /\ fate[cur] = "answered" /\ recvd = Total
  BY DEF NextRequest, Control, Link
<1>2. Total > 0
  BY ConstantsAssumption, ReqFields DEF Typed, Total
<1> QED BY <1>1, <1>2 DEF Control, Link, Position, Busy

LEMMA KindIsEnd ==
  ASSUME Typed, NEW i \in Nat, i > 0, i <= Total
  PROVE  /\ Kind(i) = "STDIN_END" <=> i = Total
         /\ Kind(i) = "BEGIN" <=> i = 1
BY ReqFields, ConstantsAssumption DEF Typed, Kind, Total

LEMMA FatesStep == Typed /\ Control /\ [Next]_vars => Fates'
<1> SUFFICES ASSUME Typed, Control, [Next]_vars PROVE Fates'
  OBVIOUS
<1> USE ConstantsAssumption DEF Typed, TypeUpstream, Request, Tag, Fates, Control,
        upstreamVars
<1>1. CASE UNCHANGED <<cur, fate>>
  BY <1>1
<1>2. ASSUME NEW a \in Attr, Connect(a) PROVE Fates'
  BY <1>2 DEF Connect, StartRequest, Link
<1>3. ASSUME NEW a \in Attr, NextRequest(a) PROVE Fates'
  BY <1>3 DEF NextRequest, StartRequest
<1>4. ASSUME NEW how \in {"shut", "abort"}, HangUp(how) PROVE Fates'
  BY <1>4 DEF HangUp
<1>5. CASE WriteEndRequest
  BY <1>5 DEF WriteEndRequest, Position, Busy
<1>6. CASE Killed
  BY <1>6 DEF Killed
<1> QED BY <1>1, <1>2, <1>3, <1>4, <1>5, <1>6
        DEF Next, Upstream, Worker, vars, SendRecord, Accept, ReadRecord, ReadEnd,
            DispatchNoScript, DispatchScript, Run, RunUnreadable, WriteOutput,
            WriteEndOfStream, Finish, Restart

LEMMA LinkStep == Typed /\ Control /\ [Next]_vars => Link'
<1> SUFFICES ASSUME Typed, Control, [Next]_vars PROVE Link'
  OBVIOUS
<1>0. Total \in Nat \ {0, 1, 2, 3} /\ \A a \in Attr : a.body + 4 \in Nat \ {0, 1, 2, 3}
  BY ConstantsAssumption, ReqFields DEF Typed, Total, Attr
<1> USE ConstantsAssumption
    DEF Typed, TypeUpstream, TypeWorker, Tag, Request, Link, upstreamVars,
        bufferVars
<1>1. CASE UNCHANGED vars
  BY <1>1 DEF Control, vars, Busy, Total
<1>2. ASSUME NEW a \in Attr, Connect(a) PROVE Link'
  BY <1>0, <1>2 DEF Connect, StartRequest, Control, Busy, Total
<1>3. ASSUME NEW a \in Attr, NextRequest(a) PROVE Link'
  <2>1. pc # "accept" /\ pc # "dead"
    BY <1>3, AtNextRequest
  <2> QED BY <1>0, <1>3, <2>1 DEF NextRequest, StartRequest, Control, Busy, Total
<1>4. CASE SendRecord
  BY <1>0, <1>4 DEF SendRecord, Control, Busy, Total
<1>5. ASSUME NEW how \in {"shut", "abort"}, HangUp(how) PROVE Link'
  BY <1>0, <1>5, AtNextRequest DEF HangUp, Control, Busy, Total
<1>6. CASE Accept
  BY <1>0, <1>6 DEF Accept, Control, Busy, Total
<1>7. CASE ReadRecord
  BY <1>0, <1>7 DEF ReadRecord, Control, Busy, Total
<1>8. CASE ReadEnd
  BY <1>0, <1>8 DEF ReadEnd, Control, Busy, Total
<1>9. CASE DispatchNoScript \/ DispatchScript \/ Run \/ RunUnreadable
  BY <1>9 DEF DispatchNoScript, DispatchScript, Run, Produce, RunUnreadable,
              Control, Busy, Total
<1>10. CASE WriteOutput \/ WriteEndOfStream
  BY <1>10 DEF WriteOutput, AfterChunk, WriteEndOfStream, Control, Busy, Total
<1>11. CASE WriteEndRequest
  BY <1>0, <1>11 DEF WriteEndRequest, Control, Position, Busy, Total
<1>12. CASE Finish
  <2>1. cur > 0
    BY <1>12 DEF Finish, Control, Started
  <2>2. fate[cur] \in {"answered", "lost"} \/ keep_conn
    BY <1>12, <2>1 DEF Finish, Control, Keep
  <2> QED BY <1>0, <1>12, <2>1, <2>2 DEF Finish, Control, Busy, Total
<1>13. CASE Killed
  BY <1>0, <1>13 DEF Killed, Control, Started, Busy, Total
<1>14. CASE Restart
  BY <1>0, <1>14 DEF Restart, Control, Busy, Total
<1> QED BY <1>1, <1>2, <1>3, <1>4, <1>5, <1>6, <1>7, <1>8, <1>9, <1>10, <1>11,
           <1>12, <1>13, <1>14
        DEF Next, Upstream, Worker

LEMMA PositionStep == Typed /\ Control /\ [Next]_vars => Position'
<1> SUFFICES ASSUME Typed, Control, [Next]_vars PROVE Position'
  OBVIOUS
<1>0. Total \in Nat \ {0, 1, 2, 3}
  BY ConstantsAssumption, ReqFields DEF Typed, Total
<1> USE DEF Position, upstreamVars, bufferVars
<1>1. CASE UNCHANGED vars
  BY <1>1 DEF Control, vars, Busy, Total
<1>2. ASSUME NEW a \in Attr, Connect(a) PROVE Position'
  BY <1>2 DEF Connect, StartRequest, Busy
<1>3. ASSUME NEW a \in Attr, NextRequest(a) PROVE Position'
  <2>1. ~Busy /\ pc' = pc /\ stdin_done' = stdin_done /\ recvd' = 0
    BY <1>3, AtNextRequest DEF NextRequest, StartRequest
  <2> QED BY <2>1 DEF Busy, Control
<1>4. CASE SendRecord
  BY <1>4 DEF SendRecord, Control, Busy, Total
<1>5. ASSUME NEW how \in {"shut", "abort"}, HangUp(how) PROVE Position'
  BY <1>5 DEF HangUp, Control, Busy, Total
<1>6. CASE Accept
  <2>1. pc' = "read" /\ stdin_done' = FALSE /\ recvd' = 0
    BY <1>6 DEF Accept, Control, Link
  <2> QED BY <2>1 DEF Busy
<1>7. CASE ReadRecord
  <2>1. /\ pc = "read" /\ ~stdin_done /\ recvd \in Nat /\ recvd' = recvd + 1
        /\ recvd < sent /\ sent \in Nat /\ sent <= Total /\ Total' = Total
        /\ request_id' = cur /\ UNCHANGED <<cur, link, fate>>
    BY <1>7 DEF ReadRecord, Control, Typed, TypeWorker, TypeUpstream, Link, Total
  <2>2. 3 <= recvd => params_done
    BY <2>1, <1>0 DEF Control
  <2>3. link = "open" => fate[cur] = "pending"
    BY <2>1, <1>0 DEF Control, Link
  <2>4. pc' = IF params_done' /\ stdin_done' THEN "dispatch" ELSE "read"
    BY <1>7 DEF ReadRecord, Complete
  <2>5. CASE recvd + 1 = Total
    <3>1. ReadStdinEnd
      BY <1>7, <2>1, <2>5, KindIsEnd, <1>0 DEF ReadRecord
    <3>2. params_done' /\ stdin_done'
      BY <3>1, <2>2, <2>5, <2>1, <1>0 DEF ReadStdinEnd
    <3> QED BY <3>2, <2>1, <2>3, <2>4, <2>5 DEF Busy
  <2>6. CASE recvd + 1 # Total
    <3>1. ~stdin_done'
      <4>1. ~ReadStdinEnd \/ Kind(recvd + 1) # "STDIN_END"
        BY <2>1, <2>6, KindIsEnd, <1>0
      <4> QED BY <1>7, <2>1, <4>1
              DEF ReadRecord, ReadBegin, ReadParams, ReadStdin, ReadParamsEnd,
                  Kind
    <3>2. 3 <= recvd' => params_done'
      <4>1. recvd = 2 => Kind(recvd + 1) = "PARAMS_END"
        BY DEF Kind
      <4>2. recvd >= 3 => Kind(recvd + 1) \in {"STDIN", "STDIN_END"}
        BY <2>1 DEF Kind
      <4>3. recvd < 2 \/ recvd = 2 \/ recvd >= 3
        BY <2>1
      <4>4. CASE recvd < 2
        BY <4>4, <2>1
      <4>5. CASE recvd = 2
        BY <1>7, <4>1, <4>5 DEF ReadRecord, ReadParamsEnd
      <4>6. CASE recvd >= 3
        <5>1. ReadStdin \/ ReadStdinEnd
          BY <1>7, <4>2, <4>6 DEF ReadRecord
        <5>2. params_done' = params_done
          BY <5>1 DEF ReadStdin, ReadStdinEnd
        <5>3. params_done
          BY <4>6, <2>1, <2>2
        <5> QED BY <5>2, <5>3
      <4> QED BY <4>3, <4>4, <4>5, <4>6
    <3> QED BY <3>1, <3>2, <2>4 DEF Busy
  <2> QED BY <2>5, <2>6
<1>8. CASE ReadEnd
  BY <1>8 DEF ReadEnd, Busy
<1>9. CASE DispatchNoScript \/ DispatchScript \/ Run \/ RunUnreadable
  BY <1>9 DEF DispatchNoScript, DispatchScript, Run, Produce, RunUnreadable,
              Control, Busy, Total
<1>10. CASE WriteOutput \/ WriteEndOfStream
  BY <1>10 DEF WriteOutput, AfterChunk, WriteEndOfStream, Control, Busy, Total
<1>11. CASE WriteEndRequest
  BY <1>11 DEF WriteEndRequest, Busy
<1>12. CASE Finish
  <2>1. \/ pc' = "read" /\ stdin_done' = FALSE /\ recvd' \in {0, Total} /\ Total' = Total
        \/ pc' = "accept"
    BY <1>12 DEF Finish, Control, Keep, Total
  <2> QED BY <2>1, <1>0 DEF Busy
<1>13. CASE Killed \/ Restart
  BY <1>13 DEF Killed, Restart, Busy
<1> QED BY <1>1, <1>2, <1>3, <1>4, <1>5, <1>6, <1>7, <1>8, <1>9, <1>10, <1>11,
           <1>12, <1>13
        DEF Next, Upstream, Worker

LEMMA KeepStep == Typed /\ Control /\ [Next]_vars => Keep'
<1> SUFFICES ASSUME Typed, Control, [Next]_vars PROVE Keep'
  OBVIOUS
<1>0. Total \in Nat \ {0, 1, 2, 3} /\ recvd \in Nat /\ cur \in Nat
  BY ConstantsAssumption, ReqFields DEF Typed, TypeUpstream, TypeWorker, Total, Tag
<1> USE DEF Keep, upstreamVars, bufferVars
<1>1. CASE UNCHANGED vars
  BY <1>1 DEF Control, vars, Busy, Total
<1>2. ASSUME NEW a \in Attr, Connect(a) PROVE Keep'
  BY <1>2 DEF Connect, StartRequest, Busy
<1>3. ASSUME NEW a \in Attr, NextRequest(a) PROVE Keep'
  <2>1. ~Busy /\ pc' = pc /\ recvd' = 0 /\ recvd = Total /\ cur' = cur + 1
        /\ UNCHANGED <<keep_conn, request_id>> /\ req.keep
    BY <1>3, AtNextRequest DEF NextRequest, StartRequest
  <2>2. pc = "finish" => request_id = cur /\ keep_conn
    BY <2>1, <1>0 DEF Control
  <2> QED BY <2>1, <2>2, <1>0 DEF Busy
<1>4. CASE SendRecord
  BY <1>4 DEF SendRecord, Control, Busy, Total
<1>5. ASSUME NEW how \in {"shut", "abort"}, HangUp(how) PROVE Keep'
  BY <1>5 DEF HangUp, Control, Busy, Total
<1>6. CASE Accept
  BY <1>6 DEF Accept, Control, Link, Busy
<1>7. CASE ReadRecord
  <2>1. /\ pc = "read" /\ recvd' = recvd + 1 /\ recvd < Total
        /\ req' = req /\ Total' = Total /\ pc' \in {"read", "dispatch"}
    BY <1>7, <1>0
    DEF ReadRecord, Control, Typed, TypeUpstream, Link, Total
  <2>2. keep_conn' = req.keep
    <3>1. CASE recvd = 0
      <4>1. Kind(recvd + 1) = "BEGIN"
        BY <3>1 DEF Kind
      <4> QED BY <1>7, <4>1 DEF ReadRecord, ReadBegin
    <3>2. CASE recvd # 0
      <4>1. Kind(recvd + 1) # "BEGIN"
        BY <3>2, <1>0 DEF Kind
      <4>2. keep_conn' = keep_conn
        BY <1>7, <4>1 DEF ReadRecord, ReadParams, ReadStdin, ReadParamsEnd,
                          ReadStdinEnd
      <4> QED BY <4>2, <3>2, <2>1, <1>0 DEF Control
    <3> QED BY <3>1, <3>2
  <2> QED BY <2>1, <2>2 DEF Busy
<1>8. CASE ReadEnd
  BY <1>8 DEF ReadEnd, Busy
<1>9. CASE DispatchNoScript \/ DispatchScript \/ Run \/ RunUnreadable
  BY <1>9 DEF DispatchNoScript, DispatchScript, Run, Produce, RunUnreadable,
              Control, Busy, Total
<1>10. CASE WriteOutput \/ WriteEndOfStream
  BY <1>10 DEF WriteOutput, AfterChunk, WriteEndOfStream, Control, Busy, Total
<1>11. CASE WriteEndRequest
  <2>1. /\ pc' = "finish" /\ request_id = cur /\ recvd = Total /\ keep_conn = req.keep
        /\ UNCHANGED <<cur, req, recvd, request_id, keep_conn, link>>
    BY <1>11 DEF WriteEndRequest, Control, Position, Busy
  <2>2. cur \in Request
    BY <1>11, ConstantsAssumption
    DEF WriteEndRequest, Control, Link, Busy, Typed, Started, TypeUpstream, Tag,
        Request
  <2>3. link' = "open" => fate'[cur] = "answered"
    BY <1>11, <2>1, <2>2 DEF WriteEndRequest, Typed, TypeUpstream
  <2> QED BY <2>1, <2>3 DEF Busy, Total
<1>12. CASE Finish
  <2>1. /\ pc' \in {"read", "accept"} /\ recvd' \in {0, Total} /\ Total' = Total
    BY <1>12 DEF Finish, Control, Total
  <2> QED BY <2>1, <1>0 DEF Busy
<1>13. CASE Killed \/ Restart
  BY <1>13 DEF Killed, Restart, Busy
<1> QED BY <1>1, <1>2, <1>3, <1>4, <1>5, <1>6, <1>7, <1>8, <1>9, <1>10, <1>11,
           <1>12, <1>13
        DEF Next, Upstream, Worker

LEMMA ControlAlways == Spec => [](Typed /\ Control)
<1>1. Init => Control
  BY ConstantsAssumption
  DEF Init, Control, Fates, Link, Position, Keep, Busy, Total, NoAttr, Request
<1>2. Typed /\ Control /\ [Next]_vars => Control'
  BY FatesStep, LinkStep, PositionStep, KeepStep DEF Control
<1> QED BY <1>1, <1>2, TypedAlways, PTL DEF Spec

-----------------------------------------------------------------------------
(* Data: whose parameters and body the worker holds, and whose variables   *)
(* are in its environment.                                                 *)
Params ==
  /\ pc = "read" /\ (recvd < 2 \/ recvd = Total) => params_buf = <<>>
  /\ pc = "read" /\ 2 <= recvd /\ recvd < Total => params_buf = <<ParamsOf>>
  /\ Busy => params_buf = <<ParamsOf>>

Body ==
  /\ pc = "read" /\ (recvd < 4 \/ recvd = Total) => stdin_buf = <<>>
  /\ pc = "read" /\ 4 <= recvd /\ recvd < Total => Len(stdin_buf) = recvd - 3
  /\ pc \in {"dispatch", "run"} => Len(stdin_buf) = req.body
  /\ pc \in {"read", "dispatch", "run"} =>
       \A i \in 1..Len(stdin_buf) : stdin_buf[i] = cur

TypeEnv == env \in [EnvVar -> [of : Tag, val : 0..MaxBody]]

(* A variable the current request has set, with its value.                 *)
Value(v) == [of |-> cur, val |-> IF v = "CONTENT_LENGTH" THEN req.length ELSE 0]

Environment ==
  /\ pc \in {"accept", "read", "dispatch"} => \A v \in Observable : env[v] = Unset
  /\ pc = "run" =>
       /\ req.script
       /\ \A v \in Observable :
            env[v] = IF v \in Names(ParamsOf) THEN Value(v) ELSE Unset
  /\ pc \in {"reply", "eos", "end", "finish"} =>
       \A v \in Observable : env[v] # Unset => HasScript /\ Assigning(v) # {}

(* What one iteration of the record loop finds and does.                   *)
LEMMA ReadFacts ==
  ASSUME Typed, Control, ReadRecord
  PROVE  /\ pc = "read"
         /\ recvd < Total
         /\ recvd' = recvd + 1
         /\ UNCHANGED <<cur, req, Total, ParamsOf>>
         /\ pc' = IF recvd + 1 = Total THEN "dispatch" ELSE "read"
<1>0. Total \in Nat \ {0, 1, 2, 3} /\ recvd \in Nat
  BY ConstantsAssumption, ReqFields DEF Typed, TypeWorker, Total
<1>1. /\ pc = "read" /\ recvd' = recvd + 1 /\ recvd < Total
      /\ UNCHANGED <<cur, req, Total, ParamsOf>>
  BY <1>0
  DEF ReadRecord, Control, Typed, TypeUpstream, Link, Total, ParamsOf, upstreamVars
<1>2. pc' \in {"read", "dispatch"} /\ (pc' = "dispatch" => recvd' = Total')
  BY PositionStep DEF ReadRecord, Next, Worker, Position, Busy
<1>3. ASSUME recvd + 1 = Total PROVE pc' = "dispatch"
  <2>1. ReadStdinEnd /\ recvd >= 3 /\ recvd < Total
    BY <1>0, <1>1, <1>3, KindIsEnd DEF ReadRecord
  <2>2. params_done
    BY <1>1, <2>1 DEF Control, Position
  <2>3. params_done' /\ stdin_done'
    BY <2>1, <2>2 DEF ReadStdinEnd
  <2> QED BY <2>3 DEF ReadRecord, Complete
<1> QED BY <1>1, <1>2, <1>3

LEMMA ParamsStep == Typed /\ Control /\ Params /\ [Next]_vars => Params'
<1> SUFFICES ASSUME Typed, Control, Params, [Next]_vars PROVE Params'
  OBVIOUS
<1>0. Total \in Nat \ {0, 1, 2, 3} /\ recvd \in Nat
  BY ConstantsAssumption, ReqFields DEF Typed, TypeWorker, Total
<1> USE DEF Params, upstreamVars, bufferVars
<1>1. CASE UNCHANGED <<cur, req, pc, params_buf, recvd>>
  BY <1>1 DEF Busy, Total, ParamsOf
<1>2. ASSUME UNCHANGED <<cur, req, params_buf>>, Busy, pc' # "read" PROVE Params'
  BY <1>2 DEF ParamsOf
<1>3. CASE pc' \in {"accept", "dead"}
  BY <1>3 DEF Busy
<1>4. ASSUME NEW a \in Attr, NextRequest(a) PROVE Params'
  <2>1. ~Busy /\ pc' = pc /\ recvd' = 0 /\ recvd = Total /\ params_buf' = params_buf
    BY <1>4, AtNextRequest DEF NextRequest, StartRequest
  <2> QED BY <2>1, <1>0 DEF Busy
<1>5. CASE Accept
  BY <1>5 DEF Accept, Control, Link, Busy
<1>6. CASE ReadRecord
  <2>1. recvd' < 2 => params_buf' = <<>>
    <3>1. recvd' < 2 => Kind(recvd + 1) = "BEGIN"
      BY <1>0, <1>6, ReadFacts DEF Kind
    <3> QED BY <1>6, <3>1 DEF ReadRecord, ReadBegin
  <2>2. recvd' >= 2 => params_buf' = <<ParamsOf>>
    <3>1. CASE recvd = 1
      <4>1. Kind(recvd + 1) = "PARAMS" /\ params_buf = <<>>
        BY <1>6, <3>1, ReadFacts DEF Kind
      <4>2. params_buf' = Append(params_buf, ParamsOf)
        BY <1>6, <4>1 DEF ReadRecord, ReadParams
      <4> QED BY <4>1, <4>2
    <3>2. CASE recvd >= 2
      <4>1. Kind(recvd + 1) \in {"PARAMS_END", "STDIN", "STDIN_END"}
        BY <3>2, <1>0 DEF Kind
      <4>2. params_buf' = params_buf
        BY <1>6, <4>1 DEF ReadRecord, ReadStdin, ReadParamsEnd, ReadStdinEnd
      <4> QED BY <1>6, <4>2, <3>2, ReadFacts
    <3> QED BY <1>0, <1>6, <3>1, <3>2, ReadFacts
  <2> QED BY <1>0, <1>6, <2>1, <2>2, ReadFacts DEF Busy
<1>7. CASE Finish
  <2>1. \/ pc' = "read" /\ params_buf' = <<>> /\ recvd' \in {0, Total} /\ Total' = Total
        \/ pc' = "accept"
    BY <1>7 DEF Finish, Control, Keep, Total
  <2> QED BY <2>1, <1>0 DEF Busy
<1> QED BY <1>1, <1>2, <1>3, <1>4, <1>5, <1>6, <1>7
        DEF Next, Upstream, Worker, vars, Connect, StartRequest, SendRecord, HangUp,
            ReadEnd, DispatchNoScript, DispatchScript, Run, Produce, RunUnreadable,
            WriteOutput, AfterChunk, WriteEndOfStream, WriteEndRequest, Killed,
            Restart, Busy

LEMMA BodyStep == Typed /\ Control /\ Body /\ [Next]_vars => Body'
<1> SUFFICES ASSUME Typed, Control, Body, [Next]_vars PROVE Body'
  OBVIOUS
<1>0. Total \in Nat \ {0, 1, 2, 3} /\ recvd \in Nat
  BY ConstantsAssumption, ReqFields DEF Typed, TypeWorker, Total
<1> USE DEF Body, upstreamVars, bufferVars
<1>1. CASE UNCHANGED <<cur, req, pc, stdin_buf, recvd>>
  BY <1>1 DEF Total
<1>2. ASSUME UNCHANGED <<cur, req, stdin_buf>>, pc = "dispatch", pc' # "read"
      PROVE  Body'
  BY <1>2
<1>3. CASE pc' \notin {"read", "dispatch", "run"}
  BY <1>3
<1>4. ASSUME NEW a \in Attr, NextRequest(a) PROVE Body'
  <2>1. ~Busy /\ pc' = pc /\ recvd' = 0 /\ recvd = Total /\ stdin_buf' = stdin_buf
    BY <1>4, AtNextRequest DEF NextRequest, StartRequest
  <2> QED BY <2>1, <1>0 DEF Busy
<1>5. CASE Accept
  BY <1>5 DEF Accept, Control, Link
<1>6. CASE ReadRecord
  <2>1. recvd' < 4 => stdin_buf' = <<>>
    <3>1. CASE recvd = 0
      <4>1. Kind(recvd + 1) = "BEGIN"
        BY <3>1 DEF Kind
      <4> QED BY <1>6, <4>1 DEF ReadRecord, ReadBegin
    <3>2. CASE recvd \in {1, 2}
      <4>1. Kind(recvd + 1) \in {"PARAMS", "PARAMS_END"}
        BY <3>2 DEF Kind
      <4>2. stdin_buf' = stdin_buf
        BY <1>6, <4>1 DEF ReadRecord, ReadParams, ReadParamsEnd
      <4> QED BY <1>6, <3>2, <4>2, ReadFacts
    <3> QED BY <1>0, <1>6, <3>1, <3>2, ReadFacts
  <2>2. CASE 3 <= recvd /\ recvd + 1 < Total
    <3>1. Kind(recvd + 1) = "STDIN"
      BY <1>0, <2>2 DEF Kind
    <3>2. stdin_buf' = Append(stdin_buf, cur)
      BY <1>6, <3>1 DEF ReadRecord, ReadStdin
    <3>3. stdin_buf \in Seq(Request) /\ Len(stdin_buf) = recvd - 3
      BY <1>0, <1>6, <2>2, ReadFacts DEF Typed, TypeWorker
    <3>4. /\ Len(stdin_buf') = Len(stdin_buf) + 1
          /\ \A i \in 1..Len(stdin_buf') : stdin_buf'[i] = cur
      BY <1>6, <3>2, <3>3, ReadFacts
    <3> QED BY <1>0, <1>6, <2>2, <3>3, <3>4, ReadFacts
  <2>3. CASE recvd + 1 = Total
    <3>1. ReadStdinEnd
      BY <1>0, <1>6, <2>3, KindIsEnd DEF ReadRecord
    <3>2. stdin_buf' = stdin_buf /\ Len(stdin_buf) = recvd - 3
      BY <1>0, <1>6, <2>3, <3>1, ReadFacts DEF ReadStdinEnd
    <3>3. recvd - 3 = req.body
      BY <1>0, <2>3, ReqFields DEF Typed, Total
    <3> QED BY <1>6, <2>3, <3>2, <3>3, ReadFacts
  <2>4. CASE recvd < 3
    <3>1. stdin_buf' = <<>> /\ recvd' \in 0..3 /\ pc' = "read"
      BY <1>0, <1>6, <2>1, <2>4, ReadFacts
    <3> QED BY <3>1
  <2> QED BY <1>0, <1>6, <2>2, <2>3, <2>4, ReadFacts
<1>7. CASE Finish
  <2>1. \/ pc' = "read" /\ stdin_buf' = <<>> /\ recvd' \in {0, Total} /\ Total' = Total
        \/ pc' = "accept"
    BY <1>7 DEF Finish, Control, Keep, Total
  <2> QED BY <2>1, <1>0
<1> QED BY <1>1, <1>2, <1>3, <1>4, <1>5, <1>6, <1>7
        DEF Next, Upstream, Worker, vars, Connect, StartRequest, SendRecord, HangUp,
            ReadEnd, DispatchNoScript, DispatchScript, Run, Produce, RunUnreadable,
            WriteOutput, AfterChunk, WriteEndOfStream, WriteEndRequest, Killed,
            Restart

(* What the one block of parameters of a request assigns.                  *)
LEMMA OneBlock ==
  ASSUME params_buf = <<ParamsOf>>
  PROVE  /\ HasScript <=> req.script
         /\ \A v \in EnvVar : v \in Names(ParamsOf) => Assigning(v) = {1}
         /\ \A v \in EnvVar : v \notin Names(ParamsOf) => Assigning(v) = {}
         /\ SetEnv = [v \in EnvVar |-> IF v \in Names(ParamsOf) THEN Value(v) ELSE env[v]]
<1>1. DOMAIN params_buf = {1} /\ params_buf[1] = ParamsOf
  OBVIOUS
<1>2. HasScript <=> req.script
  BY <1>1 DEF HasScript, ParamsOf
<1>3. ASSUME NEW v \in EnvVar
      PROVE  Assigning(v) = IF v \in Names(ParamsOf) THEN {1} ELSE {}
  BY <1>1 DEF Assigning
<1>4. ASSUME NEW v \in EnvVar
      PROVE  SetEnv[v] = IF v \in Names(ParamsOf) THEN Value(v) ELSE env[v]
  <2>1. CASE v \in Names(ParamsOf)
    <3>1. Assigning(v) = {1}
      BY <1>3, <2>1
    <3>2. (CHOOSE i \in Assigning(v) : \A j \in Assigning(v) : j <= i) = 1
      BY <3>1
    <3>3. params_buf[1].of = cur /\ params_buf[1].length = req.length
      BY <1>1 DEF ParamsOf
    <3> QED BY <2>1, <3>1, <3>2, <3>3 DEF SetEnv, Value
  <2>2. CASE v \notin Names(ParamsOf)
    BY <1>3, <2>2 DEF SetEnv
  <2> QED BY <2>1, <2>2
<1> QED BY <1>2, <1>3, <1>4 DEF SetEnv

LEMMA TypeEnvStep ==
  Typed /\ Control /\ Params /\ TypeEnv /\ [Next]_vars => TypeEnv'
<1> SUFFICES ASSUME Typed, Control, Params, TypeEnv, [Next]_vars PROVE TypeEnv'
  OBVIOUS
<1> USE DEF TypeEnv, processVars
<1>1. CASE UNCHANGED env
  BY <1>1
<1>2. Unset \in [of : Tag, val : 0..MaxBody]
  BY ConstantsAssumption DEF Unset, Tag
<1>3. CASE DispatchScript
  <2>1. env' = [v \in EnvVar |-> IF v \in Names(ParamsOf) THEN Value(v) ELSE env[v]]
    BY <1>3, OneBlock DEF DispatchScript, Params, Busy
  <2>2. \A v \in EnvVar : Value(v) \in [of : Tag, val : 0..MaxBody]
    BY ReqFields, ConstantsAssumption DEF Value, Typed, TypeUpstream
  <2> QED BY <2>1, <2>2
<1>4. CASE Run
  <2>1. request_id \in Tag /\ 0 \in 0..MaxBody
    BY ConstantsAssumption DEF Typed, TypeWorker
  <2> QED BY <1>4, <2>1 DEF Run
<1>5. CASE Finish
  BY <1>2, <1>5 DEF Finish, ClearEnv
<1>6. CASE Restart
  BY <1>2, <1>6 DEF Restart
<1> QED BY <1>1, <1>3, <1>4, <1>5, <1>6
        DEF Next, Upstream, Worker, vars, Connect, NextRequest, StartRequest,
            SendRecord, HangUp, Accept, ReadRecord, ReadEnd, DispatchNoScript,
            RunUnreadable, WriteOutput, WriteEndOfStream, WriteEndRequest, Killed

LEMMA EnvironmentStep ==
  Typed /\ Control /\ Params /\ TypeEnv /\ Environment /\ [Next]_vars => Environment'
<1> SUFFICES ASSUME Typed, Control, Params, TypeEnv, Environment, [Next]_vars
             PROVE  Environment'
  OBVIOUS
<1> USE DEF Environment, processVars, upstreamVars, bufferVars
<1>1. CASE UNCHANGED <<cur, req, pc, params_buf, env>>
  BY <1>1 DEF ParamsOf, Value, HasScript, Assigning
<1>2. CASE pc \in {"accept", "read"} /\ pc' \in {"accept", "read", "dispatch"} /\ env' = env
  BY <1>2
<1>3. ASSUME NEW a \in Attr, NextRequest(a) PROVE Environment'
  <2>1. UNCHANGED <<pc, params_buf, env>> /\ pc # "run"
    BY <1>3, AtNextRequest DEF NextRequest, StartRequest, Busy
  <2> QED BY <2>1 DEF HasScript, Assigning
<1>4. CASE DispatchNoScript
  BY <1>4 DEF DispatchNoScript
<1>5. CASE DispatchScript
  <2>1. /\ env' = [v \in EnvVar |-> IF v \in Names(ParamsOf) THEN Value(v) ELSE env[v]]
        /\ req.script
    BY <1>5, OneBlock DEF DispatchScript, Params, Busy
  <2>2. \A v \in Observable : v \in EnvVar /\ env[v] = Unset
    BY <1>5 DEF DispatchScript, EnvVar
  <2> QED BY <1>5, <2>1, <2>2 DEF DispatchScript, ParamsOf, Value
<1>6. CASE Run \/ RunUnreadable
  <2>1. pc = "run" /\ pc' \in {"stuck", "reply"} /\ UNCHANGED <<cur, req, params_buf>>
        /\ \A v \in Observable : env'[v] = env[v]
    BY <1>6 DEF Run, RunUnreadable, Produce, EnvVar
  <2>2. HasScript /\ \A v \in Observable : env[v] # Unset => Assigning(v) # {}
    BY <2>1, OneBlock DEF Params, Busy, EnvVar
  <2>3. HasScript' /\ \A v \in Observable : env'[v] # Unset => Assigning(v)' # {}
    BY <2>1, <2>2 DEF HasScript, Assigning
  <2> QED BY <2>1, <2>3
<1>7. CASE WriteOutput \/ WriteEndOfStream \/ WriteEndRequest
  <2>1. /\ pc \in {"reply", "eos", "end"} /\ pc' \in {"reply", "eos", "end", "finish"}
        /\ UNCHANGED <<params_buf, env>>
    BY <1>7 DEF WriteOutput, AfterChunk, WriteEndOfStream, WriteEndRequest
  <2> QED BY <2>1 DEF HasScript, Assigning
<1>8. CASE Finish
  <2>1. pc = "finish" /\ pc' \in {"accept", "read"}
    BY <1>8 DEF Finish
  <2>2. \A v \in Observable : env'[v] = Unset
    BY <1>8 DEF Finish, ClearEnv, EnvVar
  <2> QED BY <2>1, <2>2
<1>9. CASE Killed
  BY <1>9 DEF Killed
<1>10. CASE Restart
  BY <1>10 DEF Restart, EnvVar
<1> QED BY <1>1, <1>2, <1>3, <1>4, <1>5, <1>6, <1>7, <1>8, <1>9, <1>10
        DEF Next, Upstream, Worker, vars, Connect, StartRequest, SendRecord, HangUp,
            Accept, ReadRecord, ReadEnd

-----------------------------------------------------------------------------
(* What reading a body of want units can do to the stream.                 *)
LEMMA FreadType ==
  ASSUME stdio \in [buf : Seq(Request), eof : BOOLEAN],
         stdin_buf \in Seq(Request), NEW want \in Nat, NEW r \in Fread(want)
  PROVE  r.body \in Seq(Request) /\ r.stdio \in [buf : Seq(Request), eof : BOOLEAN]
<1> DEFINE Pulled(k) == stdio.buf \o Take(stdin_buf, k)
<1>1. ASSUME NEW k \in 0..Len(stdin_buf) PROVE Pulled(k) \in Seq(Request)
  <2>1. Take(stdin_buf, k) \in Seq(Request)
    BY TakeDrop
  <2> QED BY <2>1
<1>2. CASE \E k \in 0..Len(stdin_buf) :
             /\ Len(Pulled(k)) >= want
             /\ r = [body |-> Take(Pulled(k), want),
                     stdio |-> [buf |-> Drop(Pulled(k), want), eof |-> stdio.eof]]
  <2>1. PICK k \in 0..Len(stdin_buf) :
             /\ Len(Pulled(k)) >= want
             /\ r = [body |-> Take(Pulled(k), want),
                     stdio |-> [buf |-> Drop(Pulled(k), want), eof |-> stdio.eof]]
    BY <1>2
  <2>2. Pulled(k) \in Seq(Request) /\ want \in 0..Len(Pulled(k))
    BY <1>1, <2>1
  <2> HIDE DEF Pulled
  <2>3. Take(Pulled(k), want) \in Seq(Request) /\ Drop(Pulled(k), want) \in Seq(Request)
    BY <2>2, TakeDrop
  <2> QED BY <2>1, <2>3
<1>3. CASE \E k \in 0..Len(stdin_buf) :
             r = [body |-> Pulled(k), stdio |-> [buf |-> <<>>, eof |-> TRUE]]
  <2>1. <<>> \in Seq(Request)
    OBVIOUS
  <2> QED BY <1>1, <1>3, <2>1
<1> QED BY <1>2, <1>3 DEF Fread

(* On a fresh stream, a body of exactly the wanted length is read whole    *)
(* and leaves the stream fresh.                                            *)
LEMMA FreadExact ==
  ASSUME stdio = FreshStdio, stdin_buf \in Seq(Request),
         Len(stdin_buf) > 0, NEW r \in Fread(Len(stdin_buf))
  PROVE  r.body = stdin_buf /\ r.stdio = FreshStdio
<1> DEFINE Pulled(k) == stdio.buf \o Take(stdin_buf, k)
           n == Len(stdin_buf)
<1>1. ASSUME NEW k \in 0..n
      PROVE  Take(stdin_buf, k) \in Seq(Request) /\ Len(Pulled(k)) = k
             /\ Pulled(k) = Take(stdin_buf, k)
  <2>1. Take(stdin_buf, k) \in Seq(Request) /\ Len(Take(stdin_buf, k)) = k
    BY TakeDrop
  <2> QED BY <2>1 DEF FreshStdio
<1>2. Take(stdin_buf, n) = stdin_buf
  BY DEF Take
<1>3. Drop(stdin_buf, n) = <<>>
  BY DEF Drop
<1>4. CASE \E k \in 0..n :
             /\ Len(Pulled(k)) >= n
             /\ r = [body |-> Take(Pulled(k), n),
                     stdio |-> [buf |-> Drop(Pulled(k), n), eof |-> stdio.eof]]
  <2>1. PICK k \in 0..n :
             /\ Len(Pulled(k)) >= n
             /\ r = [body |-> Take(Pulled(k), n),
                     stdio |-> [buf |-> Drop(Pulled(k), n), eof |-> stdio.eof]]
    BY <1>4
  <2>2. k = n
    BY <1>1, <2>1
  <2>3. Pulled(k) = stdin_buf
    BY <1>1, <1>2, <2>2
  <2> HIDE DEF Pulled
  <2>4. r = [body |-> stdin_buf, stdio |-> [buf |-> <<>>, eof |-> stdio.eof]]
    BY <2>1, <2>3, <1>2, <1>3
  <2>5. stdio.eof = FALSE
    BY DEF FreshStdio
  <2> QED BY <2>4, <2>5 DEF FreshStdio
<1>5. CASE \E k \in 0..n : Len(Pulled(k)) < n /\ (stdio.eof \/ k = n)
  <2>1. PICK k \in 0..n : Len(Pulled(k)) < n /\ (stdio.eof \/ k = n)
    BY <1>5
  <2>2. ~stdio.eof
    BY DEF FreshStdio
  <2> QED BY <1>1, <2>1, <2>2
<1> QED BY <1>4, <1>5 DEF Fread

TypeData ==
  /\ stdio \in [buf : Seq(Request), eof : BOOLEAN]
  /\ given \in [cgi : [Observable -> Tag], body : Seq(Request)]

LEMMA TypeDataStep == Typed /\ TypeEnv /\ TypeData /\ [Next]_vars => TypeData'
<1> SUFFICES ASSUME Typed, TypeEnv, TypeData, [Next]_vars PROVE TypeData'
  OBVIOUS
<1> USE DEF TypeData, processVars, scriptVars
<1>1. CASE UNCHANGED <<stdio, given>>
  BY <1>1
<1>2. NotGiven \in [cgi : [Observable -> Tag], body : Seq(Request)]
      /\ FreshStdio \in [buf : Seq(Request), eof : BOOLEAN]
  <2>1. <<>> \in Seq(Request) /\ 0 \in Tag
    BY ConstantsAssumption DEF Tag
  <2> QED BY <2>1 DEF NotGiven, FreshStdio
<1>3. CASE Run
  <2>1. PICK r \in ReadBody :
          /\ given' = [cgi |-> [v \in Observable |-> env[v].of], body |-> r.body]
          /\ stdio' = r.stdio
    BY <1>3 DEF Run
  <2>2. r.body \in Seq(Request) /\ r.stdio \in [buf : Seq(Request), eof : BOOLEAN]
    <3>1. CASE WantedLength = 0
      <4>1. r = [body |-> <<>>, stdio |-> stdio] /\ <<>> \in Seq(Request)
        BY <2>1, <3>1 DEF ReadBody
      <4> QED BY <4>1
    <3>2. CASE WantedLength # 0
      <4>1. WantedLength \in Nat
        BY ConstantsAssumption DEF WantedLength, TypeEnv, EnvVar, Observable
      <4> QED BY <2>1, <3>2, <4>1, FreadType DEF ReadBody, Typed, TypeWorker
    <3> QED BY <3>1, <3>2
  <2>3. [v \in Observable |-> env[v].of] \in [Observable -> Tag]
    BY DEF TypeEnv, EnvVar
  <2> QED BY <2>1, <2>2, <2>3
<1>4. CASE Finish
  BY <1>2, <1>4 DEF Finish, ForgetScript
<1>5. CASE Killed
  BY <1>2, <1>5 DEF Killed, ForgetScript
<1>6. CASE Restart
  BY <1>2, <1>6 DEF Restart
<1> QED BY <1>1, <1>3, <1>4, <1>5, <1>6
        DEF Next, Upstream, Worker, vars, Connect, NextRequest, StartRequest,
            SendRecord, HangUp, Accept, ReadRecord, ReadEnd, DispatchNoScript,
            DispatchScript, RunUnreadable, WriteOutput, WriteEndOfStream,
            WriteEndRequest

(* The output, what is written of it, and the records upstream received.   *)
Counts ==
  /\ output \in Nat /\ written \in Nat /\ written <= output
  /\ reply \in Seq(Record)
  /\ pc \in {"accept", "read", "dispatch", "run", "dead"} => written = 0

LEMMA CountsStep == Typed /\ Control /\ Counts /\ [Next]_vars => Counts'
<1> SUFFICES ASSUME Typed, Control, Counts, [Next]_vars PROVE Counts'
  OBVIOUS
<1> USE ConstantsAssumption DEF Counts, scriptVars
<1>1. CASE UNCHANGED <<scriptVars, pc>>
  BY <1>1
<1>2. ASSUME UNCHANGED <<output, written>>, reply' \in {reply, <<>>}, pc' = pc
      PROVE  Counts'
  <2>1. <<>> \in Seq(Record)
    OBVIOUS
  <2> QED BY <1>2, <2>1
<1>3. CASE /\ UNCHANGED scriptVars
           /\ pc \in {"accept", "read", "dispatch", "run", "dead"}
  BY <1>3
<1>4. CASE DispatchNoScript \/ Run \/ RunUnreadable
  BY <1>4 DEF DispatchNoScript, Run, Produce, RunUnreadable
<1>5. Busy => request_id \in Request
  BY DEF Busy, Typed, TypeUpstream, Control, Position, Link, Started, Tag, Request
<1>6. ASSUME Busy, NEW sort \in {"STDOUT", "END"}, NEW len \in 0..MaxContent,
             Write(sort, len)
      PROVE  reply' \in Seq(Record)
  <2>1. [kind |-> sort, id |-> request_id, len |-> len] \in Record
    BY <1>5, <1>6 DEF Record
  <2> QED BY <1>6, <2>1 DEF Write
<1>7. CASE WriteOutput
  <2>1. Chunk \in 0..MaxContent /\ Chunk <= output - written
    BY DEF Chunk
  <2>2. reply' \in Seq(Record)
    BY <1>6, <1>7, <2>1 DEF WriteOutput, Busy
  <2> QED BY <1>7, <2>1, <2>2 DEF WriteOutput, AfterChunk
<1>8. CASE WriteEndOfStream \/ WriteEndRequest
  <2>1. reply' \in Seq(Record)
    BY <1>6, <1>8 DEF WriteEndOfStream, WriteEndRequest, Busy
  <2> QED BY <1>8, <2>1 DEF WriteEndOfStream, WriteEndRequest
<1>9. CASE Finish \/ Killed
  BY <1>9 DEF Finish, Killed, ForgetScript
<1> QED BY <1>1, <1>2, <1>3, <1>4, <1>7, <1>8, <1>9
        DEF Next, Upstream, Worker, vars, Connect, NextRequest, StartRequest,
            SendRecord, HangUp, Accept, ReadRecord, ReadEnd, DispatchScript, Restart

(* Whose variables the script was given.                                   *)
Given ==
  /\ pc \in {"accept", "read", "dispatch", "run", "dead"} => given = NotGiven
  /\ Replying => \A v \in Observable : given.cgi[v] \in {0, cur}

LEMMA GivenStep ==
  Typed /\ Control /\ Params /\ Environment /\ Given /\ [Next]_vars => Given'
<1> SUFFICES ASSUME Typed, Control, Params, Environment, Given, [Next]_vars
             PROVE  Given'
  OBVIOUS
<1> USE DEF Given, scriptVars, upstreamVars, Replying
<1>1. CASE UNCHANGED <<cur, given, pc>>
  BY <1>1
<1>2. CASE /\ UNCHANGED <<cur, given>>
           /\ pc \in {"accept", "read", "dead"}
           /\ pc' \in {"accept", "read", "dispatch"}
  BY <1>2
<1>3. ASSUME NEW a \in Attr, Connect(a) \/ NextRequest(a) PROVE Given'
  <2>1. UNCHANGED <<pc, given>> /\ ~Busy
    BY <1>3, AtNextRequest DEF Connect, NextRequest, StartRequest, Busy
  <2> QED BY <2>1 DEF Busy
<1>4. CASE DispatchNoScript \/ DispatchScript \/ RunUnreadable
  <2>1. /\ given = NotGiven /\ given' = given
        /\ pc' \in {"run", "stuck", "reply"}
    BY <1>4 DEF DispatchNoScript, DispatchScript, RunUnreadable
  <2> QED BY <2>1 DEF NotGiven
<1>5. CASE Run
  <2>1. PICK r \in ReadBody :
          given' = [cgi |-> [v \in Observable |-> env[v].of], body |-> r.body]
    BY <1>5 DEF Run
  <2>2. \A v \in Observable : env[v].of \in {0, cur}
    <3>1. pc = "run"
      BY <1>5 DEF Run
    <3>2. \A v \in Observable : env[v] = Value(v) \/ env[v] = Unset
      BY <3>1 DEF Environment
    <3>3. \A v : Value(v).of = cur /\ Unset.of = 0
      BY DEF Value, Unset
    <3> QED BY <3>2, <3>3
  <2>3. pc' \in {"stuck", "reply"} /\ cur' = cur
    BY <1>5 DEF Run, Produce
  <2> QED BY <2>1, <2>2, <2>3
<1>6. CASE WriteOutput \/ WriteEndOfStream \/ WriteEndRequest
  <2>1. /\ Replying /\ pc' \in {"reply", "eos", "end", "finish"}
        /\ UNCHANGED <<cur, given>>
    BY <1>6 DEF WriteOutput, AfterChunk, WriteEndOfStream, WriteEndRequest
  <2> QED BY <2>1
<1>7. CASE Finish \/ Killed
  BY <1>7 DEF Finish, Killed, ForgetScript
<1> QED BY <1>1, <1>2, <1>3, <1>4, <1>5, <1>6, <1>7
        DEF Next, Upstream, Worker, vars, SendRecord, HangUp, Accept, ReadRecord,
            ReadEnd, Restart

-----------------------------------------------------------------------------
(* The inductive invariant.                                                *)
IInv == /\ Typed /\ Control
        /\ Params /\ Body
        /\ TypeEnv /\ Environment
        /\ TypeData /\ Counts /\ Given

LEMMA IInvAlways == Spec => []IInv
<1>1. Init => Params /\ Body /\ TypeEnv /\ Environment /\ TypeData /\ Counts /\ Given
  <2> SUFFICES ASSUME Init
               PROVE  /\ Params /\ Body /\ TypeEnv /\ Environment /\ TypeData
                      /\ Counts /\ Given
    OBVIOUS
  <2> USE ConstantsAssumption DEF Init
  <2>1. Params /\ Body /\ Environment /\ Given
    BY DEF Params, Body, Busy, Environment, EnvVar, Given, Replying
  <2>2. TypeEnv
    <3>1. Unset \in [of : Tag, val : 0..MaxBody]
      BY DEF Unset, Tag
    <3> QED BY <3>1 DEF TypeEnv
  <2>3. TypeData
    <3>1. <<>> \in Seq(Request) /\ 0 \in Tag
      BY DEF Tag
    <3> QED BY <3>1 DEF TypeData, NotGiven, FreshStdio
  <2>4. Counts
    <3>1. <<>> \in Seq(Record)
      OBVIOUS
    <3> QED BY <3>1 DEF Counts
  <2> QED BY <2>1, <2>2, <2>3, <2>4
<1> DEFINE Rest == Params /\ Body /\ TypeEnv /\ Environment /\ TypeData /\ Counts /\ Given
<1>2. Init => Rest
  BY <1>1
<1>3. (Typed /\ Control) /\ Rest /\ [Next]_vars => Rest'
  BY ParamsStep, BodyStep, TypeEnvStep, EnvironmentStep, TypeDataStep, CountsStep,
     GivenStep
<1>4. (Typed /\ Control) /\ Rest => IInv
  BY DEF IInv
<1> HIDE DEF Rest
<1> QED BY <1>2, <1>3, <1>4, ControlAlways, PTL DEF Spec

(* Every variable keeps its type, whatever the requests and however large. *)
THEOREM TypeCorrect == Spec => []TypeOK
<1>1. IInv => TypeOK
  BY DEF IInv, Typed, TypeOK, TypeProcess, TypeScript, TypeEnv, TypeData, Counts
<1> QED BY <1>1, IInvAlways, PTL

(* The script of a request is never given a CGI variable of another one:   *)
(* setenv and unsetenv in fcgi_handle_connection (1477, 1532) pair up on   *)
(* every way a request can end.                                            *)
THEOREM CgiCorrect == Spec => []CgiIsOwn
<1>1. IInv => CgiIsOwn
  BY DEF IInv, Given, CgiIsOwn
<1> QED BY <1>1, IInvAlways, PTL

-----------------------------------------------------------------------------
(* Replies: the number of records with data, and the record at a place.    *)
Chunks == (output + MaxContent - 1) \div MaxContent

LenOf(i) ==
  IF i > Chunks THEN 0
  ELSE IF i * MaxContent <= output THEN MaxContent ELSE output % MaxContent

RecordOf(i) ==
  [kind |-> IF i = Chunks + 3 THEN "END" ELSE "STDOUT", id |-> cur, len |-> LenOf(i)]

Received(k) == Len(reply) = k /\ \A i \in 1..k : reply[i] = RecordOf(i)

(* A request that has been answered is past its reply, one that has not    *)
(* has got the records that go with what is written of its output.         *)
Answered ==
  cur > 0 /\ fate[cur] = "answered" => recvd = Total /\ ~Busy

Sending ==
  /\ cur > 0 /\ fate[cur] = "pending" /\ ~Replying => reply = <<>>
  /\ pc = "reply" /\ link = "open" =>
       \E k \in 0..Chunks : /\ Received(k)
                            /\ written = k * MaxContent \/ (k = Chunks /\ written = output)
  /\ pc = "eos" /\ link = "open" => Received(Chunks + 1)
  /\ pc = "end" /\ link = "open" => Received(Chunks + 2)

LEMMA FullReplyRecords == FullReply = [i \in 1..(Chunks + 3) |-> RecordOf(i)]
<1> DEFINE n == (output + MaxContent - 1) \div MaxContent
           Data(i) == IF i * MaxContent <= output THEN MaxContent ELSE output % MaxContent
           R(i) == [kind |-> IF i = n + 3 THEN "END" ELSE "STDOUT",
                    id   |-> cur,
                    len  |-> IF i <= n THEN Data(i) ELSE 0]
<1>1. FullReply = [i \in 1..(n + 3) |-> R(i)]
  BY DEF FullReply
<1>2. Chunks = n
  BY DEF Chunks
<1>3. \A i \in 1..(n + 3) : R(i) = RecordOf(i)
  BY <1>2 DEF RecordOf, LenOf
<1> QED BY <1>1, <1>2, <1>3

(* Division, as far as it is needed.                                       *)
LEMMA Quotient ==
  ASSUME NEW m \in Nat \ {0}, NEW k \in Nat, NEW r \in Nat, r < m
  PROVE  (k * m + r) \div m = k /\ (k * m + r) % m = r
<1>1. (k * m + r) \div m = k
  BY SMTT(20)
<1>2. (k * m + r) % m = r
  BY SMTT(20)
<1> QED BY <1>1, <1>2

LEMMA QuotientBound ==
  ASSUME NEW m \in Nat \ {0}, NEW k \in Nat, NEW x \in Nat, k * m <= x
  PROVE  k <= x \div m
  BY SMTT(20)

LEMMA ChunksNat == output \in Nat => Chunks \in Nat
  BY ConstantsAssumption, SMTT(20) DEF Chunks

(* The record that fcgi_write_record writes next is the one that is due.   *)
LEMMA NextChunk ==
  ASSUME Counts, NEW k \in 0..Chunks,
         written = k * MaxContent \/ (k = Chunks /\ written = output)
  PROVE  /\ LenOf(k + 1) = Chunk
         /\ Chunk = 0 => k = Chunks
         /\ Chunk # 0 =>
              /\ k + 1 \in 0..Chunks
              /\ \/ written + Chunk = (k + 1) * MaxContent
                 \/ k + 1 = Chunks /\ written + Chunk = output
<1> DEFINE m == MaxContent
           rest == output - written
<1>1. /\ m \in Nat \ {0} /\ k \in Nat /\ Chunks \in Nat
      /\ output \in Nat /\ written \in Nat /\ rest \in Nat /\ output = written + rest
  BY ChunksNat, ConstantsAssumption DEF Counts
<1>2. (k + 1) * m = k * m + m
  BY <1>1
<1>3. CASE rest = 0
  <2>1. k = Chunks
    <3>1. CASE written = k * m
      <4>1. output + m - 1 = k * m + (m - 1)
        BY <1>1, <1>3, <3>1
      <4> QED BY <1>1, <4>1, Quotient DEF Chunks
    <3> QED BY <3>1
  <2>2. Chunk = 0
    BY <1>1, <1>3 DEF Chunk
  <2> QED BY <1>1, <2>1, <2>2 DEF LenOf
<1>4. CASE 0 < rest /\ rest <= m
  <2>1. written = k * m
    BY <1>1, <1>4
  <2>2. Chunks = k + 1
    <3>1. output + m - 1 = (k + 1) * m + (rest - 1)
      BY <1>1, <1>2, <2>1
    <3> QED BY <1>1, <1>4, <3>1, Quotient DEF Chunks
  <2>3. Chunk = rest
    BY <1>1, <1>4 DEF Chunk
  <2>4. LenOf(k + 1) = rest
    <3>1. CASE rest = m
      BY <1>1, <1>2, <2>1, <2>2, <3>1 DEF LenOf
    <3>2. CASE rest < m
      <4>1. output = k * m + rest
        BY <1>1, <2>1
      <4>2. output % m = rest
        <5>1. (k * m + rest) % m = rest
          BY <1>1, <3>2, Quotient
        <5> QED BY <4>1, <5>1
      <4>3. ~((k + 1) * m <= output)
        BY <1>1, <1>2, <3>2, <4>1
      <4> QED BY <1>1, <2>2, <4>2, <4>3 DEF LenOf
    <3> QED BY <1>1, <1>4, <3>1, <3>2
  <2> QED BY <1>1, <1>4, <2>2, <2>3, <2>4
<1>5. CASE rest > m
  <2>1. written = k * m
    BY <1>1, <1>5
  <2>2. (k + 1) * m <= output
    BY <1>1, <1>2, <1>5, <2>1
  <2>3. k + 1 <= Chunks
    <3>1. (k + 1) * m <= output + m - 1 /\ output + m - 1 \in Nat
      BY <1>1, <2>2
    <3> QED BY <1>1, <3>1, QuotientBound DEF Chunks
  <2>4. Chunk = m
    BY <1>1, <1>5 DEF Chunk
  <2>5. LenOf(k + 1) = m
    BY <1>1, <2>2, <2>3 DEF LenOf
  <2> QED BY <1>1, <1>2, <2>1, <2>3, <2>4, <2>5
<1> QED BY <1>1, <1>3, <1>4, <1>5

LEMMA AnsweredStep == IInv /\ Answered /\ [Next]_vars => Answered'
<1> SUFFICES ASSUME IInv, Answered, [Next]_vars PROVE Answered'
  OBVIOUS
<1> USE ConstantsAssumption
    DEF Answered, IInv, Typed, TypeUpstream, Tag, Request, Total, upstreamVars, bufferVars
<1>1. ASSUME UNCHANGED <<cur, req, fate, recvd>>, Busy' => Busy PROVE Answered'
  BY <1>1
<1>2. ASSUME NEW a \in Attr, Connect(a) \/ NextRequest(a) PROVE Answered'
  BY <1>2 DEF Connect, NextRequest, StartRequest
<1>3. ASSUME NEW how \in {"shut", "abort"}, HangUp(how) PROVE Answered'
  BY <1>3 DEF HangUp, Busy
<1>4. CASE ReadRecord
  BY <1>4 DEF ReadRecord, Control, Link, TypeWorker
<1>5. CASE WriteEndRequest
  BY <1>5 DEF WriteEndRequest, Control, Position, Busy
<1>6. CASE Killed
  BY <1>6 DEF Killed, Busy
<1> QED BY <1>1, <1>2, <1>3, <1>4, <1>5, <1>6
        DEF Next, Upstream, Worker, vars, SendRecord, Accept, ReadEnd, DispatchNoScript,
            DispatchScript, Run, Produce, RunUnreadable, WriteOutput, AfterChunk,
            WriteEndOfStream, Finish, Restart, Busy

(* A record that is written while the connection is open arrives.          *)
LEMMA ReceiveNext ==
  ASSUME IInv, Busy, link = "open", NEW k \in 0..(Chunks + 2), Received(k),
         UNCHANGED <<cur, output>>,
         Write(IF k + 1 = Chunks + 3 THEN "END" ELSE "STDOUT", LenOf(k + 1))
  PROVE  Received(k + 1)'
<1> DEFINE r == [kind |-> IF k + 1 = Chunks + 3 THEN "END" ELSE "STDOUT",
                 id |-> request_id, len |-> LenOf(k + 1)]
<1>1. k \in Nat /\ Chunks \in Nat
  BY ChunksNat DEF IInv, Counts
<1>2. r = RecordOf(k + 1)
  BY DEF RecordOf, IInv, Control, Position
<1>3. reply' = Append(reply, r)
  BY DEF Write
<1>4. reply \in Seq(Record) /\ Len(reply) = k
  BY DEF IInv, Counts, Received
<1>5. /\ Len(reply') = k + 1 /\ reply'[k + 1] = r
      /\ \A i \in 1..k : reply'[i] = reply[i]
  <2> HIDE DEF r
  <2> QED BY <1>1, <1>3, <1>4
<1>6. \A i : RecordOf(i)' = RecordOf(i)
  BY DEF RecordOf, LenOf, Chunks
<1>7. \A i \in 1..(k + 1) : reply'[i] = RecordOf(i)
  <2> HIDE DEF r
  <2> QED BY <1>1, <1>2, <1>5 DEF Received
<1> QED BY <1>5, <1>6, <1>7 DEF Received

LEMMA ReplyStep ==
  IInv /\ Answered /\ Sending /\ ReplyIsWhole /\ [Next]_vars => Sending' /\ ReplyIsWhole'
<1> SUFFICES ASSUME IInv, Answered, Sending, ReplyIsWhole, [Next]_vars
             PROVE  Sending' /\ ReplyIsWhole'
  OBVIOUS
<1>0. cur \in Nat /\ Chunks \in Nat
  BY ConstantsAssumption, ChunksNat DEF IInv, Typed, TypeUpstream, Tag, Counts
<1>1. ASSUME UNCHANGED <<cur, output, written, reply, link, fate>>,
             \/ UNCHANGED <<pc, request_id>>
             \/ ~Replying /\ ~Replying' /\ pc' # "finish"
      PROVE  Sending' /\ ReplyIsWhole'
  <2>1. Chunks' = Chunks
    BY <1>1 DEF Chunks
  <2>2. ReplyIsWhole'
    BY <1>1 DEF ReplyIsWhole, FullReply
  <2>3. \A k : Received(k) => Received(k)'
    <3>1. \A i : RecordOf(i)' = RecordOf(i)
      BY <1>1, <2>1 DEF RecordOf, LenOf
    <3> QED BY <1>1, <3>1 DEF Received
  <2> QED BY <1>0, <1>1, <2>1, <2>2, <2>3 DEF Sending, Replying
<1>2. ASSUME NEW a \in Attr, Connect(a) \/ NextRequest(a) PROVE Sending' /\ ReplyIsWhole'
  <2>1. cur' = cur + 1 /\ reply' = <<>> /\ UNCHANGED <<pc, request_id>>
    BY <1>2 DEF Connect, NextRequest, StartRequest
  <2>2. ~Busy
    BY <1>2, AtNextRequest DEF Connect, Busy, IInv
  <2>3. pc = "finish" => request_id # cur + 1
    BY <1>0 DEF IInv, Control, Keep
  <2> QED BY <2>1, <2>2, <2>3 DEF Sending, ReplyIsWhole, Replying, Busy
<1>3. ASSUME NEW how \in {"shut", "abort"}, HangUp(how) PROVE Sending' /\ ReplyIsWhole'
  <2>1. cur \in Request /\ fate \in [Request -> {"unsent", "pending", "answered", "lost"}]
    BY <1>3 DEF HangUp, IInv, Typed, TypeUpstream, Started, Tag, Request
  <2>2. fate'[cur] # "pending" /\ (fate'[cur] = "answered" => fate[cur] = "answered")
    BY <1>3, <2>1 DEF HangUp
  <2>3. link' # "open" /\ UNCHANGED <<cur, pc, request_id, reply, output>>
    BY <1>3 DEF HangUp, bufferVars, scriptVars
  <2> QED BY <2>2, <2>3 DEF Sending, ReplyIsWhole, FullReply
<1>4. CASE ReadEnd \/ Killed
  <2>1. cur > 0 /\ fate'[cur] = "pending" => fate[cur] = "pending" /\ ~Replying
    BY <1>4, ConstantsAssumption
    DEF ReadEnd, Killed, Replying, IInv, Typed, TypeUpstream, Tag, Request
  <2>2. UNCHANGED <<cur, reply>> /\ link' = "none" /\ pc' \in {"accept", "dead"}
    BY <1>4 DEF ReadEnd, Killed, scriptVars
  <2> QED BY <2>1, <2>2 DEF Sending, ReplyIsWhole
<1>5. CASE DispatchNoScript \/ Run \/ RunUnreadable
  <2>1. /\ Busy /\ ~Replying /\ written = 0 /\ pc' \in {"reply", "stuck"} /\ output' \in Nat
        /\ UNCHANGED <<cur, fate, link, reply, written>>
    BY <1>5, ConstantsAssumption
    DEF DispatchNoScript, Run, Produce, RunUnreadable, Busy, Replying, IInv, Counts, upstreamVars
  <2>2. cur > 0
    BY <1>0, <2>1 DEF Busy, IInv, Typed, Started, Control, Link
  <2>3. link = "open" => reply = <<>>
    BY <2>1, <2>2 DEF Sending, IInv, Control, Position
  <2>4. Chunks' \in Nat
    <3>1. \A x \in Nat : (x + MaxContent - 1) \div MaxContent \in Nat
      BY ConstantsAssumption, SMTT(20)
    <3> QED BY <2>1, <3>1 DEF Chunks
  <2>5. pc' = "reply" /\ link' = "open" => Received(0)' /\ written' = 0 * MaxContent
    BY <2>1, <2>3, ConstantsAssumption DEF Received
  <2> QED BY <2>1, <2>4, <2>5 DEF Sending, ReplyIsWhole
<1>6. CASE WriteOutput
  <2>1. /\ pc = "reply" /\ Chunks' = Chunks
        /\ UNCHANGED <<cur, fate, link, output>>
    BY <1>6 DEF WriteOutput, upstreamVars, Chunks
  <2>2. CASE link # "open"
    BY <1>6, <2>1, <2>2 DEF WriteOutput, AfterChunk, Sending, ReplyIsWhole, Replying
  <2>3. CASE link = "open"
    <3>1. PICK k \in 0..Chunks :
            Received(k) /\ (written = k * MaxContent \/ (k = Chunks /\ written = output))
      BY <2>1, <2>3 DEF Sending
    <3>2. Received(k + 1)'
      <4>1. Write("STDOUT", LenOf(k + 1)) /\ k + 1 # Chunks + 3
        BY <1>0, <1>6, <3>1, NextChunk DEF WriteOutput, IInv
      <4> QED BY <1>0, <2>1, <2>3, <3>1, <4>1, ReceiveNext DEF Busy
    <3>3. CASE Chunk = 0
      BY <1>6, <2>1, <3>1, <3>2, <3>3, NextChunk
      DEF WriteOutput, AfterChunk, Sending, ReplyIsWhole, Replying, IInv
    <3>4. CASE Chunk # 0
      <4>1. /\ k + 1 \in 0..Chunks
            /\ \/ written' = (k + 1) * MaxContent
               \/ k + 1 = Chunks /\ written' = output
        BY <1>6, <3>1, <3>4, NextChunk DEF WriteOutput, IInv
      <4> QED BY <1>6, <2>1, <3>2, <3>4, <4>1
              DEF WriteOutput, AfterChunk, Sending, ReplyIsWhole, Replying
    <3> QED BY <3>3, <3>4
  <2> QED BY <2>2, <2>3
<1>7. CASE WriteEndOfStream
  <2>1. /\ pc = "eos" /\ pc' = "end" /\ Chunks' = Chunks
        /\ UNCHANGED <<cur, fate, link, output>>
    BY <1>7 DEF WriteEndOfStream, upstreamVars, Chunks
  <2>2. ASSUME link = "open" PROVE Received(Chunks + 2)'
    <3>1. Received(Chunks + 1)
      BY <2>1, <2>2 DEF Sending
    <3>2. LenOf((Chunks + 1) + 1) = 0 /\ (Chunks + 1) + 1 = Chunks + 2
      BY <1>0 DEF LenOf
    <3>3. Received((Chunks + 1) + 1)'
      BY <1>0, <1>7, <2>1, <2>2, <3>1, <3>2, ReceiveNext DEF WriteEndOfStream, Busy
    <3> QED BY <3>2, <3>3, <2>1
  <2> QED BY <2>1, <2>2 DEF Sending, ReplyIsWhole, Replying
<1>8. CASE WriteEndRequest
  <2>1. /\ pc = "end" /\ pc' = "finish" /\ Chunks' = Chunks
        /\ UNCHANGED <<cur, link, output, request_id>> /\ request_id = cur
    BY <1>8 DEF WriteEndRequest, Chunks, bufferVars, IInv, Control, Position, Busy
  <2>2. cur \in Request /\ fate \in [Request -> {"unsent", "pending", "answered", "lost"}]
    BY <2>1 DEF Busy, IInv, Typed, TypeUpstream, Started, Control, Link, Tag, Request
  <2>3. CASE link # "open"
    <3>1. fate' = fate /\ fate[cur] = "lost"
      BY <1>0, <1>8, <2>1, <2>2, <2>3
      DEF WriteEndRequest, Answered, Busy, IInv, Control, Link, Request
    <3> QED BY <2>1, <3>1 DEF Sending, ReplyIsWhole
  <2>4. CASE link = "open"
    <3>1. fate'[cur] = "answered"
      BY <1>8, <2>1, <2>2, <2>4 DEF WriteEndRequest
    <3>2. Received(Chunks + 2)
      BY <2>1, <2>4 DEF Sending
    <3>3. LenOf((Chunks + 2) + 1) = 0 /\ (Chunks + 2) + 1 = Chunks + 3
      BY <1>0 DEF LenOf
    <3>4. Received((Chunks + 2) + 1)'
      BY <1>0, <1>8, <2>1, <2>4, <3>2, <3>3, ReceiveNext DEF WriteEndRequest, Busy
    <3>5. reply' \in Seq(Record)
      <4>1. Counts'
        BY CountsStep DEF IInv
      <4> QED BY <4>1 DEF Counts
    <3>6. reply' = FullReply'
      <4>1. FullReply' = [i \in 1..(Chunks' + 3) |-> RecordOf(i)']
        <5>1. (FullReply = [i \in 1..(Chunks + 3) |-> RecordOf(i)])'
          BY FullReplyRecords, PTL
        <5> QED BY <5>1
      <4>2. /\ Len(reply') = Chunks' + 3
            /\ \A i \in 1..(Chunks' + 3) : reply'[i] = RecordOf(i)'
        BY <2>1, <3>3, <3>4 DEF Received
      <4>3. reply' = [i \in 1..(Chunks' + 3) |-> reply'[i]]
        BY <3>5, <4>2
      <4> QED BY <4>1, <4>2, <4>3
    <3> QED BY <2>1, <3>1, <3>6 DEF Sending, ReplyIsWhole
  <2> QED BY <2>3, <2>4
<1>9. CASE Finish
  BY <1>9 DEF Finish, Sending, ReplyIsWhole, Replying
<1> QED BY <1>1, <1>2, <1>3, <1>4, <1>5, <1>6, <1>7, <1>8, <1>9
        DEF Next, Upstream, Worker, vars, upstreamVars, bufferVars, scriptVars, SendRecord,
            Accept, ReadRecord, DispatchScript, Restart, Replying

(* When a request is answered, upstream has received its output, whole and *)
(* in order, and the two empty records that fcgi_write_record and its      *)
(* caller end it with, whatever its size is to that of a record.           *)
THEOREM ReplyCorrect == Spec => []ReplyIsWhole
<1>1. Init => Answered /\ Sending /\ ReplyIsWhole
  BY DEF Init, Answered, Sending, ReplyIsWhole
<1>2. Answered /\ Sending /\ ReplyIsWhole /\ IInv /\ [Next]_vars
        => Answered' /\ Sending' /\ ReplyIsWhole'
  BY AnsweredStep, ReplyStep
<1> QED BY <1>1, <1>2, IInvAlways, PTL DEF Spec

-----------------------------------------------------------------------------
(* Bodies, when a CONTENT_LENGTH is the length of the body.                *)
BodyGiven ==
  /\ stdio = FreshStdio
  /\ Replying => \A i \in 1..Len(given.body) : given.body[i] = cur
  /\ Replying /\ given.cgi["REQUEST_METHOD"] # 0 /\ req.length > 0
       => Len(given.body) = req.body

(* What the script of a request reads from the stream.                     *)
LEMMA RunReads ==
  ASSUME ExactLengths, IInv, pc = "run", stdio = FreshStdio, NEW r \in ReadBody
  PROVE  /\ r.stdio = FreshStdio
         /\ \A i \in 1..Len(r.body) : r.body[i] = cur
         /\ req.length > 0 => Len(r.body) = req.body
<1>1. req.length \in {0, req.body} /\ req.body \in Nat
  BY ReqFields, ConstantsAssumption DEF IInv, Typed, TypeUpstream, Attr, NoAttr
<1>2. WantedLength = req.length
  <2>1. env["CONTENT_LENGTH"] = IF "CONTENT_LENGTH" \in Names(ParamsOf)
                                THEN Value("CONTENT_LENGTH") ELSE Unset
    BY DEF IInv, Environment, Observable
  <2>2. "CONTENT_LENGTH" \in Names(ParamsOf) <=> req.length > 0
    BY DEF Names, ParamsOf
  <2> QED BY <1>1, <2>1, <2>2 DEF WantedLength, Value, Unset
<1>3. /\ Len(stdin_buf) = req.body /\ stdin_buf \in Seq(Request)
      /\ \A i \in 1..Len(stdin_buf) : stdin_buf[i] = cur
  BY DEF IInv, Body, Typed, TypeWorker
<1>4. CASE req.length = 0
  <2>1. r = [body |-> <<>>, stdio |-> stdio]
    BY <1>2, <1>4 DEF ReadBody
  <2> QED BY <1>4, <2>1
<1>5. CASE req.length > 0
  <2>1. r \in Fread(Len(stdin_buf)) /\ Len(stdin_buf) > 0
    BY <1>1, <1>2, <1>3, <1>5 DEF ReadBody
  <2>2. r.body = stdin_buf /\ r.stdio = FreshStdio
    BY <1>3, <2>1, FreadExact
  <2> QED BY <1>3, <2>2
<1> QED BY <1>1, <1>4, <1>5

LEMMA BodyGivenStep ==
  ASSUME ExactLengths
  PROVE  IInv /\ BodyGiven /\ [Next]_vars => BodyGiven'
<1> SUFFICES ASSUME IInv, BodyGiven, [Next]_vars PROVE BodyGiven'
  OBVIOUS
<1> USE DEF BodyGiven, scriptVars, upstreamVars, processVars, Replying
<1>1. CASE UNCHANGED <<cur, req, given, stdio, pc>>
  BY <1>1
<1>2. CASE stdio' = stdio /\ pc' \notin {"reply", "eos", "end"}
  BY <1>2
<1>3. ASSUME NEW a \in Attr, Connect(a) \/ NextRequest(a) PROVE BodyGiven'
  <2>1. UNCHANGED <<pc, stdio>> /\ ~Busy
    BY <1>3, AtNextRequest DEF Connect, NextRequest, StartRequest, Busy, IInv
  <2> QED BY <2>1 DEF Busy
<1>4. CASE DispatchNoScript \/ RunUnreadable
  <2>1. given = NotGiven /\ given' = given /\ stdio' = stdio
    BY <1>4 DEF DispatchNoScript, RunUnreadable, IInv, Given
  <2>2. given'.body = <<>> /\ given'.cgi["REQUEST_METHOD"] = 0
    BY <2>1 DEF NotGiven, Observable
  <2> QED BY <2>1, <2>2
<1>5. CASE Run
  <2>1. PICK r \in ReadBody :
          /\ given' = [cgi |-> [v \in Observable |-> env[v].of], body |-> r.body]
          /\ stdio' = r.stdio
    BY <1>5 DEF Run
  <2>2. /\ r.stdio = FreshStdio
        /\ \A i \in 1..Len(r.body) : r.body[i] = cur
        /\ req.length > 0 => Len(r.body) = req.body
    BY <1>5, RunReads DEF Run
  <2>3. UNCHANGED <<cur, req>>
    BY <1>5 DEF Run
  <2> QED BY <2>1, <2>2, <2>3
<1>6. CASE WriteOutput \/ WriteEndOfStream \/ WriteEndRequest
  <2>1. Replying /\ UNCHANGED <<cur, req, given, stdio>>
    BY <1>6 DEF WriteOutput, WriteEndOfStream, WriteEndRequest
  <2> QED BY <2>1
<1>7. CASE Restart
  BY <1>7 DEF Restart
<1> QED BY <1>1, <1>2, <1>3, <1>4, <1>5, <1>6, <1>7
        DEF Next, Upstream, Worker, vars, SendRecord, HangUp, Accept, ReadRecord,
            ReadEnd, DispatchScript, Finish, Killed

LEMMA BodyGivenAlways == ASSUME ExactLengths PROVE Spec => []BodyGiven
<1>1. Init => BodyGiven
  BY DEF Init, BodyGiven, Replying
<1>2. IInv /\ BodyGiven /\ [Next]_vars => BodyGiven'
  BY BodyGivenStep
<1> QED BY <1>1, <1>2, IInvAlways, PTL DEF Spec

(* When lengths are exact, no script is given body bytes of another        *)
(* request: the stream stdin never holds anything between two requests.    *)
THEOREM BodyCorrect == ASSUME ExactLengths PROVE Spec => []BodyIsOwn
<1>1. IInv /\ BodyGiven => BodyIsOwn
  <2> SUFFICES ASSUME IInv, BodyGiven, Replying, NEW i \in DOMAIN given.body
               PROVE  given.body[i] = cur
    BY DEF BodyIsOwn
  <2>1. given.body \in Seq(Request)
    BY DEF IInv, TypeData
  <2> QED BY <2>1 DEF BodyGiven
<1> QED BY <1>1, IInvAlways, BodyGivenAlways, PTL

(* When lengths are exact, a script that runs for a request with a         *)
(* CONTENT_LENGTH is given the whole body.                                 *)
THEOREM BodyWhole == ASSUME ExactLengths PROVE Spec => []BodyIsWhole
<1>1. BodyGiven => BodyIsWhole
  BY DEF BodyGiven, BodyIsWhole
<1> QED BY <1>1, BodyGivenAlways, PTL

-----------------------------------------------------------------------------
(* The refinement of RequestService.                                       *)
Fate == [r \in Request |-> FateOf(r)]

LEMMA SeenNone == given = NotGiven => Seen = {}
  BY DEF NotGiven, Seen

LEMMA SeenOwn ==
  ASSUME IInv, BodyGiven, Replying
  PROVE  Seen \subseteq {cur}
<1>1. \A v \in Observable : given.cgi[v] \in {0, cur}
  BY DEF IInv, Given
<1>2. \A i \in DOMAIN given.body : given.body[i] = cur
  BY DEF IInv, TypeData, BodyGiven
<1> QED BY <1>1, <1>2 DEF Seen

(* The request in progress is the only one that is not settled.            *)
LEMMA OnlyCurrent ==
  ASSUME IInv
  PROVE  /\ \A r \in Request : r # cur => FateOf(r) = fate[r]
         /\ cur \in Request => FateOf(cur) =
              IF fate[cur] = "pending" /\ sent < Total THEN "arriving" ELSE fate[cur]
         /\ fate \in [Request -> {"unsent", "pending", "answered", "lost"}]
         /\ cur \in Tag /\ (cur \in Request \/ cur = 0)
<1>1. cur \in Tag /\ fate \in [Request -> {"unsent", "pending", "answered", "lost"}]
      /\ (cur \in Request \/ cur = 0)
  BY ConstantsAssumption DEF IInv, Typed, TypeUpstream, Tag, Request
<1>2. ASSUME NEW r \in Request, r # cur PROVE fate[r] # "pending"
  <2>1. r > cur \/ r < cur
    BY <1>1, <1>2, ConstantsAssumption DEF Request, Tag
  <2> QED BY <1>1, <2>1 DEF IInv, Control, Fates
<1> QED BY <1>1, <1>2 DEF FateOf

(* How a step that changes the fate of the current request only looks.     *)
LEMMA OneFate ==
  ASSUME IInv, IInv', UNCHANGED <<cur, req, sent>>, cur \in Request,
         NEW f, fate' = [fate EXCEPT ![cur] = f], f \in {"answered", "lost"}
  PROVE  Fate' = [Fate EXCEPT ![cur] = f]
<1>1. fate'[cur] = f /\ \A r \in Request : r # cur => fate'[r] = fate[r]
  BY OnlyCurrent
<1>2. \A r \in Request : FateOf(r)' =
        IF fate'[r] = "pending" /\ sent < Total THEN "arriving" ELSE fate'[r]
  BY DEF FateOf, Total
<1>3. \A r \in Request : Fate'[r] = [Fate EXCEPT ![cur] = f][r]
  BY <1>1, <1>2 DEF Fate, FateOf
<1> QED BY <1>3 DEF Fate

LEMMA StepRefines ==
  ASSUME ExactLengths, IInv, IInv', BodyGiven, [Next]_vars
  PROVE  Service!Next \/ UNCHANGED <<cur, Fate, Seen>>
<1> USE DEF upstreamVars, scriptVars
<1>0. cur \in Nat /\ (cur \in Request \/ cur = 0)
  BY OnlyCurrent, ConstantsAssumption DEF Tag
<1>1. ASSUME UNCHANGED <<cur, req, sent, fate>> PROVE Fate' = Fate
  BY <1>1 DEF Fate, FateOf, Total
<1>2. ASSUME given' = given PROVE Seen' = Seen
  BY <1>2 DEF Seen
<1>3. CASE UNCHANGED <<cur, req, sent, fate, given>>
  BY <1>1, <1>2, <1>3
<1>4. ASSUME NEW a \in Attr, Connect(a) \/ NextRequest(a) PROVE Service!Next
  <2>1. /\ cur < NumRequests /\ cur' = cur + 1 /\ req' = a /\ sent' = 0
        /\ fate' = [fate EXCEPT ![cur + 1] = "pending"] /\ given' = given
    BY <1>4 DEF Connect, NextRequest, StartRequest
  <2>2. cur = 0 \/ fate[cur] \in {"answered", "lost"}
    BY <1>0, <1>4, ConstantsAssumption
    DEF Connect, NextRequest, IInv, Control, Link, Request
  <2>3. cur = 0 \/ Fate[cur] \in {"answered", "lost"}
    BY <1>0, <2>2, OnlyCurrent DEF Fate
  <2>4. Total' \in Nat /\ Total' > 0
    BY <2>1, ConstantsAssumption DEF Total, Attr
  <2>5. Fate' = [Fate EXCEPT ![cur + 1] = "arriving"]
    <3>1. cur + 1 \in Request
      BY <1>0, <2>1, ConstantsAssumption DEF Request
    <3>2. \A r \in Request : FateOf(r)' =
            IF fate'[r] = "pending" THEN "arriving" ELSE fate'[r]
      BY <2>1, <2>4 DEF FateOf
    <3>3. \A r \in Request : FateOf(r) = fate[r] /\ fate[r] # "pending"
      <4> SUFFICES ASSUME NEW r \in Request
                   PROVE  FateOf(r) = fate[r] /\ fate[r] # "pending"
        OBVIOUS
      <4>1. r = cur \/ r > cur \/ r < cur
        BY <1>0, ConstantsAssumption DEF Request
      <4>2. fate[r] # "pending"
        BY <4>1, <2>2, <1>0, ConstantsAssumption DEF IInv, Control, Fates, Request
      <4> QED BY <4>2 DEF FateOf
    <3>4. \A r \in Request : Fate'[r] = [Fate EXCEPT ![cur + 1] = "arriving"][r]
      BY <2>1, <3>1, <3>2, <3>3, OnlyCurrent DEF Fate
    <3> QED BY <3>4 DEF Fate
  <2>6. Service!Submit
    BY <1>2, <2>1, <2>3, <2>5 DEF Service!Submit, Service!Settled, Fate
  <2> QED BY <2>6 DEF Service!Next
<1>5. CASE SendRecord
  <2>1. /\ link = "open" /\ sent < Total /\ sent' = sent + 1 /\ Total' = Total
        /\ UNCHANGED <<cur, fate, given>>
    BY <1>5 DEF SendRecord, Total
  <2>2. cur \in Request /\ fate[cur] \in {"pending", "answered"}
    BY <1>0, <2>1 DEF IInv, Control, Link, Typed, Started
  <2>3. CASE fate[cur] = "pending" /\ sent + 1 = Total
    <3>1. Fate[cur] = "arriving"
      BY <2>1, <2>2, <2>3, OnlyCurrent DEF Fate
    <3>2. \A r \in Request : Fate'[r] = [Fate EXCEPT ![cur] = "pending"][r]
      <4> SUFFICES ASSUME NEW r \in Request
                   PROVE  Fate'[r] = [Fate EXCEPT ![cur] = "pending"][r]
        OBVIOUS
      <4>1. Fate'[r] = fate[r]
        BY <2>1, <2>3 DEF Fate, FateOf
      <4> QED BY <4>1, <2>3, OnlyCurrent DEF Fate
    <3>3. Fate' = [Fate EXCEPT ![cur] = "pending"]
      BY <3>2 DEF Fate
    <3>4. Service!Arrive
      BY <1>2, <2>1, <2>2, <3>1, <3>3, ConstantsAssumption
      DEF Service!Arrive, Service!Settled, Fate, Request
    <3> QED BY <3>4 DEF Service!Next
  <2>4. CASE ~(fate[cur] = "pending" /\ sent + 1 = Total)
    <3>1. sent \in Nat /\ Total \in Nat
      BY ReqFields, ConstantsAssumption DEF IInv, Typed, TypeUpstream, Total
    <3>2. \A r \in Request : FateOf(r)' = FateOf(r)
      <4> SUFFICES ASSUME NEW r \in Request PROVE FateOf(r)' = FateOf(r)
        OBVIOUS
      <4>1. FateOf(r)' = IF fate[r] = "pending" /\ sent + 1 < Total
                         THEN "arriving" ELSE fate[r]
        BY <2>1 DEF FateOf
      <4>2. r # cur => fate[r] # "pending"
        BY OnlyCurrent, <2>1, <3>1 DEF FateOf
      <4> QED BY <4>1, <4>2, <2>1, <2>4, <3>1 DEF FateOf
    <3> QED BY <1>2, <2>1, <3>2 DEF Fate
  <2> QED BY <2>3, <2>4
<1>6. ASSUME NEW how \in {"shut", "abort"}, HangUp(how)
      PROVE  Service!Next \/ UNCHANGED <<cur, Fate, Seen>>
  <2>1. /\ UNCHANGED <<cur, req, sent, given>>
        /\ fate' = [fate EXCEPT ![cur] = IF @ = "pending" THEN "lost" ELSE @]
        /\ cur \in Request
    BY <1>0, <1>6 DEF HangUp, IInv, Typed, Started
  <2>2. CASE fate[cur] = "pending"
    <3>1. Fate' = [Fate EXCEPT ![cur] = "lost"]
      BY <2>1, <2>2, OneFate
    <3>2. cur # 0 /\ Fate[cur] \notin {"answered", "lost"}
      BY <2>1, <2>2, OnlyCurrent, ConstantsAssumption DEF Fate, Request
    <3>3. Service!GiveUp
      BY <1>2, <2>1, <3>1, <3>2 DEF Service!GiveUp, Service!Settled, Fate
    <3> QED BY <3>3 DEF Service!Next
  <2>3. CASE fate[cur] # "pending"
    <3>1. fate' = fate
      BY <2>1, <2>3, OnlyCurrent
    <3> QED BY <1>1, <1>2, <2>1, <3>1
  <2> QED BY <2>2, <2>3
<1>7. CASE Run
  <2>1. PICK r \in ReadBody :
          given' = [cgi |-> [v \in Observable |-> env[v].of], body |-> r.body]
    BY <1>7 DEF Run
  <2>2. /\ pc = "run" /\ UNCHANGED <<cur, req, sent, fate>>
    BY <1>7 DEF Run
  <2>3. \A i \in 1..Len(r.body) : r.body[i] = cur
    BY <2>2, RunReads DEF BodyGiven
  <2>4. \A v \in Observable : env[v].of \in {0, cur}
    <3>1. \A v \in Observable : env[v] = Value(v) \/ env[v] = Unset
      BY <2>2 DEF IInv, Environment
    <3>2. \A v : Value(v).of = cur /\ Unset.of = 0
      BY DEF Value, Unset
    <3> QED BY <3>1, <3>2
  <2>5. r.body \in Seq(Request)
    BY <2>1 DEF IInv, TypeData
  <2>6. Seen' \subseteq {cur}
    BY <2>1, <2>3, <2>4, <2>5 DEF Seen
  <2>7. Service!Execute
    BY <1>1, <2>2, <2>6 DEF Service!Execute, Fate
  <2> QED BY <2>7 DEF Service!Next
<1>8. CASE WriteEndRequest
  <2>1. /\ pc = "end" /\ request_id = cur /\ recvd = Total
        /\ link = "open" => fate[cur] = "pending"
        /\ fate' = IF link = "open" THEN [fate EXCEPT ![request_id] = "answered"] ELSE fate
        /\ UNCHANGED <<cur, req, sent, given>>
    BY <1>8 DEF WriteEndRequest, IInv, Control, Position, Busy
  <2>2. CASE link = "open"
    <3>1. cur \in Request /\ sent = Total
      BY <1>0, <2>1, <2>2, ReqFields, ConstantsAssumption
      DEF IInv, Control, Link, Typed, Started, TypeUpstream, TypeWorker, Total
    <3>2. Fate' = [Fate EXCEPT ![cur] = "answered"]
      BY <2>1, <2>2, <3>1, OneFate
    <3>3. Fate[cur] = "pending" /\ cur # 0
      <4>1. ~(sent < Total)
        BY <3>1, ReqFields, ConstantsAssumption DEF IInv, Typed, Total
      <4> QED BY <2>1, <2>2, <3>1, <4>1, ConstantsAssumption
              DEF Fate, FateOf, Request
    <3>4. Seen \subseteq {cur}
      BY <2>1, SeenOwn DEF Replying
    <3>5. Service!Answer
      BY <1>2, <2>1, <3>2, <3>3, <3>4 DEF Service!Answer, Service!Settled, Fate
    <3> QED BY <3>5 DEF Service!Next
  <2>3. CASE link # "open"
    BY <1>1, <1>2, <2>1, <2>3
  <2> QED BY <2>2, <2>3
<1>9. CASE Finish
  <2>1. UNCHANGED <<cur, req, sent, fate>> /\ given' = NotGiven
    BY <1>9 DEF Finish, ForgetScript
  <2>2. Seen' = {}
    BY <2>1 DEF NotGiven, Seen
  <2>3. Service!Execute
    BY <1>1, <2>1, <2>2 DEF Service!Execute, Fate
  <2> QED BY <2>3 DEF Service!Next
<1>10. CASE Killed
  <2>1. /\ UNCHANGED <<cur, req, sent>> /\ given' = NotGiven
        /\ fate' = [fate EXCEPT ![cur] = IF @ = "pending" THEN "lost" ELSE @]
        /\ cur \in Request
    BY <1>0, <1>10
    DEF Killed, ForgetScript, IInv, Typed, Started, Control, Link, Busy
  <2>2. Seen' = {}
    BY <2>1 DEF NotGiven, Seen
  <2>3. CASE fate[cur] = "pending"
    <3>1. Fate' = [Fate EXCEPT ![cur] = "lost"]
      BY <2>1, <2>3, OneFate
    <3>2. cur # 0 /\ Fate[cur] \notin {"answered", "lost"}
      BY <2>1, <2>3, OnlyCurrent, ConstantsAssumption DEF Fate, Request
    <3>3. Service!GiveUp
      BY <2>1, <2>2, <3>1, <3>2 DEF Service!GiveUp, Service!Settled, Fate
    <3> QED BY <3>3 DEF Service!Next
  <2>4. CASE fate[cur] # "pending"
    <3>1. fate' = fate
      BY <2>1, <2>4, OnlyCurrent
    <3>2. Service!Execute
      BY <1>1, <2>1, <2>2, <3>1 DEF Service!Execute, Fate
    <3> QED BY <3>2 DEF Service!Next
  <2> QED BY <2>3, <2>4
<1> QED BY <1>3, <1>4, <1>5, <1>6, <1>7, <1>8, <1>9, <1>10
        DEF Next, Upstream, Worker, vars, Accept, ReadRecord, ReadEnd,
            DispatchNoScript, DispatchScript, RunUnreadable, WriteOutput,
            WriteEndOfStream, Restart

(* When lengths are exact, a worker implements RequestService: one request *)
(* at a time, none answered twice, before it has arrived whole or after it *)
(* was given up, and none from another request's data.                     *)
THEOREM Implements == ASSUME ExactLengths PROVE Spec => ImplementsService
<1>1. Init => Service!Init
  <2> SUFFICES ASSUME Init PROVE Service!Init
    OBVIOUS
  <2>1. \A r \in Request : FateOf(r) = "unsent"
    BY DEF Init, FateOf
  <2>2. Seen = {}
    BY SeenNone DEF Init
  <2> QED BY <2>1, <2>2 DEF Init, Service!Init, Request
<1>2. IInv /\ IInv' /\ BodyGiven /\ [Next]_vars => [Service!Next]_(Service!serviceVars)
  BY StepRefines DEF Service!serviceVars, Fate
<1> QED BY <1>1, <1>2, IInvAlways, BodyGivenAlways, PTL
        DEF Spec, ImplementsService, Service!Spec
-----------------------------------------------------------------------------
(* Induction, for a set that is given.                                     *)
LEMMA NatSet ==
  ASSUME NEW P, 0 \in P, \A n \in Nat : n \in P => n + 1 \in P
  PROVE  \A n \in Nat : n \in P
<1> DEFINE T == {n \in Nat : n \notin P}
<1> SUFFICES ASSUME T # {} PROVE FALSE
  OBVIOUS
<1>1. PICK x \in T : \A y \in T : ~ (<<y, x>> \in OpToRel(<, Nat))
  <2> HIDE DEF T
  <2>1. T \subseteq Nat
    BY DEF T
  <2> QED BY <2>1, WFMin, NatLessThanWellFounded
<1>2. x \in Nat /\ x # 0 /\ x - 1 \in Nat /\ x - 1 < x
  OBVIOUS
<1>3. <<x - 1, x>> \in OpToRel(<, Nat)
  BY <1>2 DEF OpToRel
<1>4. x - 1 \notin T
  BY <1>1, <1>3
<1> QED BY <1>2, <1>4

-----------------------------------------------------------------------------
(* Lengths.                                                                *)
LEMMA Divided ==
  ASSUME NEW n \in Nat
  PROVE  /\ Base \in Nat \ {0}
         /\ Shifted(n) \in Nat
         /\ n % Base \in Byte
         /\ Shifted(n) * Base + (n % Base) = n
<1>1. Base \in Nat \ {0}
  BY NameValueAssumption DEF Base
<1> DEFINE q == n \div Base  r == n % Base
<1>2. q \in Nat /\ r \in 0..(Base - 1)
  BY <1>1
<1>3. n = q * Base + r
  <2> SUFFICES ASSUME NEW d \in Int, NEW e \in Int, d = n \div Base, e = n % Base
               PROVE  n = d * Base + e
    BY <1>2
  <2> QED BY <1>1
<1>4. Shifted(n) = q /\ n % Base = r /\ Byte = 0..(Base - 1)
  BY DEF Shifted, Byte
<1> HIDE DEF q, r
<1>5. Shifted(n) * Base + (n % Base) = n
  BY <1>3, <1>4, Zenon
<1>6. Shifted(n) \in Nat /\ n % Base \in Byte
  BY <1>2, <1>4
<1> QED BY <1>1, <1>5, <1>6

(* w stands in t at pos.                                                   *)
LengthAt(t, pos, w) ==
  /\ pos + Len(w) - 1 <= Len(t)
  /\ \A i \in 1..Len(w) : t[pos + i - 1] = w[i]

(* A length is read as it was written, from any text that has it whole;    *)
(* one that the text has only a part of is not read.                       *)
LEMMA LengthRead ==
  ASSUME NEW l \in Nat, NEW w \in Encodings(l), NEW t \in Seq(Byte),
         NEW pos \in Nat \ {0}, LengthAt(t, pos, w),
         NEW k \in 0..Len(t)
  PROVE  /\ w \in Seq(Byte) /\ Len(w) \in {1, 4}
         /\ pos + Len(w) - 1 <= k =>
              Length(SubSeq(t, 1, k), pos) = [ok |-> TRUE, size |-> l, next |-> pos + Len(w)]
         /\ pos + Len(w) - 1 > k => ~Length(SubSeq(t, 1, k), pos).ok
<1> DEFINE buf == SubSeq(t, 1, k)
<1>1. /\ Half \in Nat \ {0} /\ Base = 2 * Half /\ Base \in Nat
      /\ Byte = 0..(Base - 1)
  BY NameValueAssumption DEF Base, Byte
<1>2. Len(buf) = k /\ \A i \in 1..k : buf[i] = t[i]
  OBVIOUS
<1>0. pos + Len(w) - 1 <= Len(t) /\ \A i \in 1..Len(w) : t[pos + i - 1] = w[i]
  BY DEF LengthAt
<1> HIDE DEF buf
<1>3. CASE l < Half /\ w = <<l>>
  <2>1. w \in Seq(Byte) /\ Len(w) = 1
    BY <1>1, <1>3
  <2>2. t[pos] = l
    BY <1>0, <1>3, <2>1
  <2>3. CASE pos <= k
    <3>1. buf[pos] = l
      BY <1>2, <2>2, <2>3
    <3>2. Length(buf, pos) = [ok |-> TRUE, size |-> l, next |-> pos + 1]
      BY <1>2, <1>3, <2>3, <3>1 DEF Length
    <3> QED BY <2>1, <2>3, <3>2 DEF buf
  <2>4. CASE pos > k
    <3>1. Length(buf, pos) = Nothing
      BY <1>2, <2>4 DEF Length
    <3> QED BY <2>1, <2>4, <3>1 DEF buf, Nothing
  <2> QED BY <2>3, <2>4
<1>4. CASE /\ Shifted(Shifted(Shifted(l))) < Half
           /\ w = <<Half + Shifted(Shifted(Shifted(l))), Shifted(Shifted(l)) % Base, Shifted(l) % Base, l % Base>>
  <2> DEFINE a == Shifted(Shifted(Shifted(l)))  b == Shifted(Shifted(l)) % Base  c == Shifted(l) % Base  d == l % Base
  <2>0. \A n \in Nat : Shifted(n) \in Nat /\ n % Base \in Byte /\ Shifted(n) * Base + (n % Base) = n
    BY Divided, Zenon
  <2>1. /\ Shifted(l) \in Nat /\ d \in Byte
        /\ Shifted(l) * Base + d = l
    BY <2>0, Zenon
  <2>2. /\ Shifted(Shifted(l)) \in Nat /\ c \in Byte
        /\ Shifted(Shifted(l)) * Base + c = Shifted(l)
    BY <2>0, <2>1, Zenon
  <2>3. a \in Nat /\ b \in Byte /\ a * Base + b = Shifted(Shifted(l))
    BY <2>0, <2>2, Zenon
  <2>4. ((a * Base + b) * Base + c) * Base + d = l
    BY <2>1, <2>2, <2>3
  <2> HIDE DEF a, b, c, d
  <2>5. w = <<Half + a, b, c, d>> /\ a < Half
    BY <1>4 DEF a, b, c, d
  <2>6. Half + a \in Byte
    BY <1>1, <2>3, <2>5
  <2>7. w \in Seq(Byte) /\ Len(w) = 4
    BY <2>1, <2>2, <2>3, <2>5, <2>6
  <2>8. t[pos] = Half + a /\ t[pos + 1] = b /\ t[pos + 2] = c /\ t[pos + 3] = d
    BY <1>0, <2>5, <2>7
  <2>9. CASE pos + 3 <= k
    <3>1. buf[pos] = Half + a /\ buf[pos + 1] = b /\ buf[pos + 2] = c /\ buf[pos + 3] = d
      BY <1>2, <2>8, <2>9
    <3>2. ~(pos > Len(buf)) /\ ~(buf[pos] < Half) /\ ~(pos + 3 > Len(buf)) /\ buf[pos] - Half = a
      BY <1>1, <1>2, <2>3, <2>9, <3>1
    <3>3. Length(buf, pos) = [ok |-> TRUE, next |-> pos + 4, size |-> ((a * Base + b) * Base + c) * Base + d]
      BY <3>1, <3>2 DEF Length
    <3>4. Length(buf, pos) = [ok |-> TRUE, size |-> l, next |-> pos + Len(w)]
      BY <2>4, <2>7, <3>3
    <3> QED BY <2>7, <2>9, <3>4 DEF buf
  <2>10. CASE pos + 3 > k
    <3>1. CASE pos > k
      <4>1. Length(buf, pos) = Nothing
        BY <1>2, <3>1 DEF Length
      <4> QED BY <2>7, <2>10, <4>1 DEF buf, Nothing
    <3>2. CASE pos <= k
      <4>1. buf[pos] = Half + a
        BY <1>2, <2>8, <3>2
      <4>2. ~(buf[pos] < Half)
        BY <1>1, <2>3, <4>1
      <4>3. Length(buf, pos) = Nothing
        BY <1>2, <2>10, <3>2, <4>2 DEF Length
      <4> QED BY <2>7, <2>10, <4>3 DEF buf, Nothing
    <3> QED BY <3>1, <3>2
  <2> QED BY <2>9, <2>10
<1> QED BY <1>3, <1>4 DEF Encodings

(* A piece of a text.                                                      *)
LEMMA PieceIs ==
  ASSUME NEW S, NEW s \in Seq(S), NEW p \in Seq(S), NEW m \in 1..(Len(s) + 1),
         m + Len(p) - 1 <= Len(s),
         \A i \in 1..Len(p) : s[m + i - 1] = p[i]
  PROVE  SubSeq(s, m, m + Len(p) - 1) = p
<1> DEFINE q == SubSeq(s, m, m + Len(p) - 1)
<1>1. q \in Seq(S) /\ Len(q) = Len(p)
  OBVIOUS
<1>2. ASSUME NEW i \in 1..Len(p) PROVE q[i] = p[i]
  OBVIOUS
<1> HIDE DEF q
<1>3. q = p
  BY <1>1, <1>2
<1> QED BY <1>3 DEF q

LEMMA PieceOf ==
  ASSUME NEW s \in Seq(Byte), NEW p \in Seq(Byte), NEW k, Len(s) = k, NEW m \in 1..(k + 1),
         m + Len(p) - 1 <= k,
         \A i \in 1..Len(p) : s[m + i - 1] = p[i]
  PROVE  SubSeq(s, m, m + Len(p) - 1) = p
BY PieceIs

LEMMA LengthTypes ==
  ASSUME NEW l \in Nat, NEW w \in Encodings(l)
  PROVE  Len(w) \in {1, 4}
BY DEF Encodings

(* The pair of a and b stands in t between e and f, their lengths as n and *)
(* v.                                                                      *)
PairAt(t, e, n, v, a, b, f) ==
  /\ f = e + Len(n) + Len(v) + Len(a) + Len(b)
  /\ f <= Len(t)
  /\ \A i \in 1..Len(n) : t[e + i] = n[i]
  /\ \A i \in 1..Len(v) : t[e + Len(n) + i] = v[i]
  /\ \A i \in 1..Len(a) : t[e + Len(n) + Len(v) + i] = a[i]
  /\ \A i \in 1..Len(b) : t[e + Len(n) + Len(v) + Len(a) + i] = b[i]

(* The loop at the byte after e, and after a pair of a and b up to f.      *)
At(e, params) == [pos |-> e + 1, params |-> params]

Further(k, e, params, a, b, f) ==
  IF 2 * Len(params) < MaxParams - 1 /\ f <= k
  THEN At(f, Append(params, <<a, b>>))
  ELSE At(e, params)

LEMMA EncodingTypes ==
  ASSUME NEW l \in Nat, NEW w \in Encodings(l)
  PROVE  w \in Seq(Byte)
<1>1. /\ Half \in Nat \ {0} /\ Base = 2 * Half /\ Byte = 0..(Base - 1)
  BY NameValueAssumption DEF Base, Byte
<1>2. CASE l < Half /\ w = <<l>>
  <2>1. l \in Byte
    BY <1>1, <1>2
  <2> QED BY <1>2, <2>1
<1>3. CASE /\ Shifted(Shifted(Shifted(l))) < Half
           /\ w = <<Half + Shifted(Shifted(Shifted(l))), Shifted(Shifted(l)) % Base, Shifted(l) % Base, l % Base>>
  <2>0. \A n \in Nat : Shifted(n) \in Nat /\ n % Base \in Byte
    BY Divided, Zenon
  <2> DEFINE a == Shifted(Shifted(Shifted(l)))  b == Shifted(Shifted(l)) % Base  c == Shifted(l) % Base  d == l % Base
  <2>1. a \in Nat /\ b \in Byte /\ c \in Byte /\ d \in Byte
    BY <2>0, Zenon
  <2> HIDE DEF a, b, c, d
  <2>2. w = <<Half + a, b, c, d>> /\ a < Half
    BY <1>3 DEF a, b, c, d
  <2>3. Half + a \in Byte
    BY <1>1, <2>1, <2>2
  <2> QED BY <2>1, <2>2, <2>3
<1> QED BY <1>2, <1>3 DEF Encodings

(* A pair with its lengths, and a text after which it is written.          *)
Pair(n, v, a, b) == n \o v \o a \o b

Longer(t, n, v, a, b) == t \o n \o v \o a \o b

LEMMA Regrouped ==
  ASSUME NEW t \in Seq(Byte), NEW n \in Seq(Byte), NEW v \in Seq(Byte),
         NEW a \in Seq(Byte), NEW b \in Seq(Byte)
  PROVE  /\ Longer(t, n, v, a, b) = t \o Pair(n, v, a, b)
         /\ Pair(n, v, a, b) \in Seq(Byte)
<1> DEFINE nv == n \o v  nva == nv \o a  nvab == nva \o b
<1>1. nv \in Seq(Byte) /\ (t \o n) \o v = t \o nv
  OBVIOUS
<1> HIDE DEF nv
<1>2. nva \in Seq(Byte) /\ (t \o nv) \o a = t \o nva
  BY <1>1
<1> HIDE DEF nva
<1>3. nvab \in Seq(Byte) /\ (t \o nva) \o b = t \o nvab
  BY <1>2
<1>4. ((t \o n) \o v) \o a = t \o nva
  BY <1>1, <1>2, Zenon
<1>5. (((t \o n) \o v) \o a) \o b = t \o nvab
  BY <1>3, <1>4, Zenon
<1> QED BY <1>3, <1>5, Zenon DEF nv, nva, nvab, Pair, Longer

(* An iteration reads a pair that begins where it is, if the bytes have    *)
(* all of it and there is room.                                            *)
LEMMA PairRead ==
  ASSUME NEW t \in Seq(Byte), NEW k \in 0..Len(t), NEW e \in Nat, NEW params,
         NEW a \in Seq(Byte), NEW n \in Encodings(Len(a)),
         NEW b \in Seq(Byte), NEW v \in Encodings(Len(b)),
         NEW f, PairAt(t, e, n, v, a, b, f)
  PROVE  Iterate(SubSeq(t, 1, k), At(e, params)) = Further(k, e, params, a, b, f)
<1> DEFINE buf == SubSeq(t, 1, k)
           at == At(e, params)
           name == Length(buf, e + 1)
           value == Length(buf, name.next)
           first == value.next
           last == first + name.size + value.size - 1
           ln == Len(n)  lv == Len(v)  la == Len(a)  lb == Len(b)  lt == Len(t)
<1>1. /\ buf \in Seq(Byte) /\ Len(buf) = k /\ k \in 0..lt
      /\ \A i \in 1..k : buf[i] = t[i]
  OBVIOUS
<1>2. /\ ln \in Nat /\ ln > 0 /\ lv \in Nat /\ lv > 0
      /\ la \in Nat /\ lb \in Nat /\ lt \in Nat /\ k \in Nat /\ k <= lt
  <2>1. ln \in {1, 4} /\ lv \in {1, 4} /\ la \in Nat /\ lb \in Nat /\ lt \in Nat
    BY LengthTypes
  <2> HIDE DEF ln, lv, la, lb, lt
  <2> QED BY <1>1, <2>1
<1>3. f = e + ln + lv + la + lb /\ f <= lt
  BY DEF PairAt
<1>4. /\ \A i \in 1..ln : t[e + i] = n[i]
      /\ \A i \in 1..lv : t[e + ln + i] = v[i]
      /\ \A i \in 1..la : t[e + ln + lv + i] = a[i]
      /\ \A i \in 1..lb : t[e + ln + lv + la + i] = b[i]
  BY DEF PairAt
<1>5. Iterate(buf, at) =
        IF 2 * Len(params) < MaxParams - 1 /\ name.ok /\ value.ok /\ last <= k
        THEN [pos |-> last + 1,
              params |-> Append(params, <<SubSeq(buf, first, first + name.size - 1),
                                          SubSeq(buf, first + name.size, last)>>)]
        ELSE at
  <2>1. at.pos = e + 1 /\ at.params = params
    BY DEF At
  <2> HIDE DEF buf, at
  <2> QED BY <1>1, <2>1, Zenon DEF Iterate
<1>6. /\ e + ln <= k => name = [ok |-> TRUE, size |-> la, next |-> e + ln + 1]
      /\ e + ln > k => ~name.ok
  <2>1. \A i \in 1..ln : t[(e + 1) + i - 1] = n[i]
    <3>1. TAKE i \in 1..ln
    <3> HIDE DEF ln
    <3>2. (e + 1) + i - 1 = e + i
      BY <1>2
    <3> QED BY <1>4, <3>2
  <2>2. (e + 1) + ln - 1 = e + ln /\ (e + 1) + ln = e + ln + 1 /\ e + 1 \in Nat \ {0} /\ e + ln <= lt
    <3> HIDE DEF ln, lv, la, lb, lt
    <3> QED BY <1>2, <1>3
  <2>3. /\ (e + 1) + ln - 1 <= k => name = [ok |-> TRUE, size |-> la, next |-> (e + 1) + ln]
        /\ (e + 1) + ln - 1 > k => ~name.ok
    <3>1. LengthAt(t, e + 1, n)
      BY <2>1, <2>2 DEF LengthAt
    <3> QED BY <1>2, <2>2, <3>1, LengthRead
  <2> HIDE DEF name, ln, la
  <2> QED BY <2>2, <2>3
<1> HIDE DEF name
<1>7. e + ln <= k => /\ e + ln + lv <= k =>
                          value = [ok |-> TRUE, size |-> lb, next |-> e + ln + lv + 1]
                     /\ e + ln + lv > k => ~value.ok
  <2> SUFFICES ASSUME e + ln <= k
               PROVE  /\ e + ln + lv <= k =>
                           value = [ok |-> TRUE, size |-> lb, next |-> e + ln + lv + 1]
                      /\ e + ln + lv > k => ~value.ok
    OBVIOUS
  <2> DEFINE from == e + ln + 1
  <2>0. name.next = from
    BY <1>6
  <2>1. \A i \in 1..lv : t[from + i - 1] = v[i]
    <3>1. TAKE i \in 1..lv
    <3> HIDE DEF lv, ln
    <3>2. from + i - 1 = e + ln + i
      BY <1>2
    <3> QED BY <1>4, <3>2
  <2>2. /\ from + lv - 1 = e + ln + lv /\ from + lv = e + ln + lv + 1
        /\ from \in Nat \ {0} /\ e + ln + lv <= lt
    <3> HIDE DEF ln, lv, la, lb, lt
    <3> QED BY <1>2, <1>3
  <2>4. value = Length(buf, from) /\ from + lv - 1 <= Len(t)
    BY <2>0, <2>2
  <2> HIDE DEF from
  <2>5. /\ from + lv - 1 <= k => Length(buf, from) = [ok |-> TRUE, size |-> lb, next |-> from + lv]
        /\ from + lv - 1 > k => ~Length(buf, from).ok
    <3>1. LengthAt(t, from, v)
      BY <2>1, <2>4 DEF LengthAt
    <3> QED BY <1>2, <2>2, <3>1, LengthRead
  <2>3. /\ from + lv - 1 <= k => value = [ok |-> TRUE, size |-> lb, next |-> from + lv]
        /\ from + lv - 1 > k => ~value.ok
    BY <2>4, <2>5, Zenon
  <2> HIDE DEF value, ln, lv, lb
  <2> QED BY <2>2, <2>3
<1> HIDE DEF value, ln, lv, la, lb, lt
<1>8. CASE e + ln > k \/ e + ln + lv > k
  <2>1. ~name.ok \/ ~value.ok
    BY <1>2, <1>6, <1>7, <1>8
  <2>2. Iterate(buf, at) = at
    <3> HIDE DEF buf, at, last, first
    <3> QED BY <1>5, <2>1, Zenon
  <2>3. ~(f <= k)
    BY <1>2, <1>3, <1>8
  <2> HIDE DEF at
  <2> QED BY <2>2, <2>3, Zenon DEF buf, at, Further
<1>9. CASE e + ln <= k /\ e + ln + lv <= k
  <2>1. /\ name.ok /\ name.size = la
        /\ value.ok /\ value.size = lb /\ first = e + ln + lv + 1
    BY <1>6, <1>7, <1>9
  <2>2. last = (e + ln + lv + 1) + la + lb - 1
    BY <2>1
  <2> HIDE DEF first, last
  <2>3. last = f /\ last \in Nat /\ f \in Nat
    <3>1. (e + ln + lv + 1) + la + lb - 1 = e + ln + lv + la + lb /\ e + ln + lv + la + lb \in Nat
      BY <1>2
    <3> QED BY <1>3, <2>2, <3>1, Zenon
  <2>4. CASE ~(2 * Len(params) < MaxParams - 1 /\ f <= k)
    <3>1. Iterate(buf, at) = at
      <4> HIDE DEF buf, at
      <4> QED BY <1>5, <2>3, <2>4, Zenon
    <3> HIDE DEF at
    <3> QED BY <2>4, <3>1, Zenon DEF buf, at, Further
  <2>5. CASE 2 * Len(params) < MaxParams - 1 /\ f <= k
    <3>1. SubSeq(buf, first, first + la - 1) = a
      <4>1. ASSUME NEW i \in 1..la PROVE buf[first + i - 1] = a[i]
        <5>1. first + i - 1 = e + ln + lv + i /\ first + i - 1 \in 1..k
          BY <1>2, <1>3, <2>1, <2>5
        <5> HIDE DEF buf
        <5> QED BY <1>1, <1>4, <5>1
      <4>2. first \in 1..(k + 1)
        BY <1>2, <1>3, <2>1, <2>5
      <4>3. first + la - 1 <= k
        BY <1>2, <1>3, <2>1, <2>5
      <4> HIDE DEF buf
      <4> QED BY <1>1, <4>1, <4>2, <4>3, PieceOf DEF la
    <3>2. SubSeq(buf, first + la, last) = b
      <4> DEFINE m == first + la
      <4>1. ASSUME NEW i \in 1..lb PROVE buf[m + i - 1] = b[i]
        <5>1. m + i - 1 = e + ln + lv + la + i /\ m + i - 1 \in 1..k
          BY <1>2, <1>3, <2>1, <2>5
        <5> HIDE DEF buf, m
        <5> QED BY <1>1, <1>4, <5>1
      <4>2. m \in 1..(k + 1) /\ m + lb - 1 <= k /\ last = m + lb - 1
        BY <1>2, <1>3, <2>1, <2>3, <2>5
      <4> HIDE DEF buf, m
      <4>3. SubSeq(buf, m, m + lb - 1) = b
        BY <1>1, <4>1, <4>2, PieceOf DEF lb
      <4> QED BY <4>2, <4>3 DEF m
    <3>3. Iterate(buf, at) = At(f, Append(params, <<a, b>>))
      <4> HIDE DEF buf, at
      <4> QED BY <1>5, <2>1, <2>3, <2>5, <3>1, <3>2, Zenon DEF At
    <3> QED BY <2>5, <3>3, Zenon DEF buf, at, Further
  <2> QED BY <2>4, <2>5
<1> QED BY <1>2, <1>8, <1>9

-----------------------------------------------------------------------------
(* What has been written so far: the variables stand in the text one after *)
(* the other, each as the lengths of its name and its value, in one of     *)
(* their forms, the name and the value.                                    *)
NameAt(j) == said[j].pair[1]
ValueAt(j) == said[j].pair[2]
EndAt(j) == IF j = 0 THEN 0 ELSE said[j].end

Stands(j) ==
  \E n \in Encodings(Len(NameAt(j))), v \in Encodings(Len(ValueAt(j))) :
    PairAt(text, EndAt(j - 1), n, v, NameAt(j), ValueAt(j), EndAt(j))

Variable == [pair : Seq(Byte) \X Seq(Byte), end : Nat]

Written ==
  /\ kind = "params"
  /\ text \in Seq(Byte)
  /\ said \in Seq(Variable)
  /\ EndAt(Len(said)) = Len(text)
  /\ \A j \in 0..Len(said) : j <= EndAt(j)
  /\ \A i, j \in 0..Len(said) : i <= j => EndAt(i) <= EndAt(j)
  /\ \A j \in 1..Len(said) : Stands(j)

(* The loop when it has read the first c variables.                        *)
After(c) == At(EndAt(c), [j \in 1..c |-> said[j].pair])

LEMMA Types ==
  ASSUME Written, NEW j \in 1..Len(said)
  PROVE  /\ NameAt(j) \in Seq(Byte) /\ ValueAt(j) \in Seq(Byte)
         /\ said[j].pair = <<NameAt(j), ValueAt(j)>>
         /\ EndAt(j) \in Nat /\ EndAt(j - 1) \in Nat
         /\ EndAt(j) <= Len(text)
<1>1. said[j] \in Variable
  BY DEF Written
<1>2. said[j].pair \in Seq(Byte) \X Seq(Byte) /\ said[j].end \in Nat
  BY <1>1 DEF Variable
<1>3. EndAt(j) \in Nat
  BY <1>2 DEF EndAt
<1>4. EndAt(j - 1) \in Nat
  <2>1. CASE j = 1
    BY <2>1 DEF EndAt
  <2>2. CASE j # 1
    <3>1. said[j - 1] \in Variable
      BY <2>2 DEF Written
    <3> QED BY <2>2, <3>1 DEF Variable, EndAt
  <2> QED BY <2>1, <2>2
<1>5. EndAt(j) <= EndAt(Len(said))
  BY DEF Written
<1> QED BY <1>2, <1>3, <1>4, <1>5 DEF Written, NameAt, ValueAt

(* Room for one pair more.                                                 *)
LEMMA Room ==
  ASSUME NEW c \in Nat
  PROVE  2 * c < MaxParams - 1 <=> c < MaxParams \div 2
BY NameValueAssumption

(* One iteration reads the next variable, if the bytes have all of it and  *)
(* there is room for it.                                                   *)
LEMMA OneIteration ==
  ASSUME Written, NEW k \in 0..Len(text), NEW c \in 0..Len(said)
  PROVE  Iterate(SubSeq(text, 1, k), After(c)) =
           IF c < Len(said) /\ c < MaxParams \div 2 /\ EndAt(c + 1) <= k THEN After(c + 1) ELSE After(c)
<1> DEFINE buf == SubSeq(text, 1, k)
           params == [j \in 1..c |-> said[j].pair]
<1>1. After(c) = At(EndAt(c), params)
  BY DEF After
<1>2. Len(params) = c /\ text \in Seq(Byte) /\ EndAt(c) \in Nat
  <2>1. ASSUME NEW j \in 1..c PROVE said[j].pair \in Seq(Byte) \X Seq(Byte)
    <3>1. said[j] \in Variable
      BY DEF Written
    <3> QED BY <3>1 DEF Variable
  <2>2. params \in Seq(Seq(Byte) \X Seq(Byte))
    BY <2>1
  <2>3. EndAt(c) \in Nat
    <3>1. CASE c = 0
      BY <3>1 DEF EndAt
    <3>2. CASE c # 0
      BY <3>2, Types
    <3> QED BY <3>1, <3>2
  <2> QED BY <2>2, <2>3 DEF Written
<1>3. 2 * Len(params) < MaxParams - 1 <=> c < MaxParams \div 2
  BY <1>2, Room
<1> HIDE DEF params
<1>4. CASE c = Len(said)
  <2>1. EndAt(c) + 1 > Len(buf)
    BY <1>2, <1>4 DEF Written
  <2>2. ~Length(buf, EndAt(c) + 1).ok
    <3> HIDE DEF buf
    <3> QED BY <2>1 DEF Length, Nothing
  <2>3. Iterate(buf, After(c)) = After(c)
    <3> HIDE DEF buf
    <3>1. After(c).pos = EndAt(c) + 1
      BY <1>1 DEF At
    <3> QED BY <2>2, <3>1, Zenon DEF Iterate
  <2>4. ~(c < Len(said))
    BY <1>4 DEF Written
  <2> QED BY <2>3, <2>4, Zenon DEF buf
<1>5. CASE c < Len(said)
  <2> DEFINE j == c + 1
  <2>1. j \in 1..Len(said) /\ j - 1 = c
    BY <1>5
  <2>2. /\ NameAt(j) \in Seq(Byte) /\ ValueAt(j) \in Seq(Byte)
        /\ said[j].pair = <<NameAt(j), ValueAt(j)>>
        /\ EndAt(j) \in Nat /\ EndAt(j) <= Len(text)
    BY <2>1, Types
  <2> HIDE DEF j
  <2>3. PICK n \in Encodings(Len(NameAt(j))), v \in Encodings(Len(ValueAt(j))) :
          PairAt(text, EndAt(c), n, v, NameAt(j), ValueAt(j), EndAt(j))
    BY <2>1 DEF Written, Stands
  <2>4. Iterate(buf, At(EndAt(c), params)) =
          Further(k, EndAt(c), params, NameAt(j), ValueAt(j), EndAt(j))
    BY <1>2, <2>2, <2>3, PairRead
  <2>5. Append(params, said[j].pair) = [i \in 1..j |-> said[i].pair]
    BY <1>2, <2>1, <2>2 DEF params, Written
  <2>6. After(j) = At(EndAt(j), Append(params, <<NameAt(j), ValueAt(j)>>))
    BY <2>2, <2>5, Zenon DEF After
  <2>7. Iterate(buf, After(c)) = IF c < MaxParams \div 2 /\ EndAt(j) <= k THEN After(j) ELSE After(c)
    <3> HIDE DEF buf
    <3> QED BY <1>1, <1>3, <2>4, <2>6, Zenon DEF Further
  <2> QED BY <1>5, <2>7, Zenon DEF j, buf
<1>6. Len(said) \in Nat
  BY DEF Written
<1> QED BY <1>4, <1>5, <1>6

(* The variables whose end is in the first k bytes are the first ones.     *)
LEMMA WholeOnes ==
  ASSUME Written, NEW k \in 0..Len(text)
  PROVE  \E w \in 0..Len(said) : \A j \in 0..Len(said) : EndAt(j) <= k <=> j <= w
<1> DEFINE L == Len(said)
           Up(n, w) == \A j \in 0..n : EndAt(j) <= k <=> j <= w
           P == {n \in Nat : n <= L => \E w \in 0..n : Up(n, w)}
<1>0. L \in Nat /\ k \in Nat
  BY DEF Written
<1>1. 0 \in P
  <2>1. Up(0, 0)
    BY <1>0 DEF EndAt
  <2> QED BY <2>1
<1>2. \A n \in Nat : n \in P => n + 1 \in P
  <2>1. SUFFICES ASSUME NEW n \in Nat, n + 1 <= L, NEW w \in 0..n, Up(n, w)
                 PROVE  \E x \in 0..(n + 1) : Up(n + 1, x)
    <3> HIDE DEF L, Up
    <3> QED BY <1>0
  <2>2. EndAt(n + 1) \in Nat /\ \A j \in 0..(n + 1) : EndAt(j) <= EndAt(n + 1) /\ EndAt(j) \in Nat
    <3>1. \A j \in 1..L : EndAt(j) \in Nat
      BY Types
    <3>2. EndAt(0) = 0
      BY DEF EndAt
    <3>3. \A j \in 0..L : EndAt(j) \in Nat
      <4> HIDE DEF L
      <4> QED BY <1>0, <3>1, <3>2
    <3>4. \A i, j \in 0..L : i <= j => EndAt(i) <= EndAt(j)
      BY DEF Written
    <3> HIDE DEF L
    <3> QED BY <1>0, <2>1, <3>3, <3>4
  <2>3. CASE EndAt(n + 1) <= k
    <3>1. Up(n + 1, n + 1)
      BY <1>0, <2>2, <2>3
    <3> QED BY <3>1
  <2>4. CASE ~(EndAt(n + 1) <= k)
    <3>1. Up(n + 1, w)
      BY <1>0, <2>1, <2>4
    <3>2. w \in 0..(n + 1)
      BY <2>1
    <3> HIDE DEF Up
    <3> QED BY <3>1, <3>2
  <2> QED BY <2>3, <2>4
<1> HIDE DEF P
<1>3. \A n \in Nat : n \in P
  BY <1>1, <1>2, NatSet
<1>4. \E w \in 0..L : Up(L, w)
  <2> HIDE DEF Up
  <2>1. L \in P /\ L <= L
    BY <1>0, <1>3
  <2> QED BY <2>1 DEF P
<1> QED BY <1>4

LEMMA Count ==
  ASSUME Written, NEW k \in 0..Len(text), NEW w \in 0..Len(said),
         \A j \in 0..Len(said) : EndAt(j) <= k <=> j <= w
  PROVE  Cardinality({i \in 1..Len(said) : said[i].end <= k}) = w
<1>1. Len(said) \in Nat
  BY DEF Written
<1>2. \A i \in 1..Len(said) : said[i].end = EndAt(i)
  BY DEF EndAt
<1>3. {i \in 1..Len(said) : said[i].end <= k} = 1..w
  BY <1>1, <1>2
<1>4. Cardinality(1..w) = w
  BY <1>1, FS_Interval
<1> QED BY <1>3, <1>4, Zenon

(* Each iteration reads one variable more, as long as there is one.        *)
Smaller(m, n) == IF m < n THEN m ELSE n

LEMMA LoopIs ==
  ASSUME Written, NEW k \in 0..Len(text), NEW w \in 0..Len(said),
         \A j \in 0..Len(said) : EndAt(j) <= k <=> j <= w,
         NEW n, n = Smaller(w, MaxParams \div 2)
  PROVE  \A i \in 0..k : Loop(SubSeq(text, 1, k))[i] = After(Smaller(i, n))
<1> DEFINE buf == SubSeq(text, 1, k)
           g == [i \in 0..k |-> After(Smaller(i, n))]
           Unrolled(f) == [i \in 0..k |-> IF i = 0 THEN Start ELSE Iterate(buf, f[i - 1])]
<1>1. Len(buf) = k /\ k \in Nat /\ Len(said) \in Nat
  BY DEF Written
<1>2. MaxParams \div 2 \in Nat /\ n \in 0..Len(said)
  BY <1>1, NameValueAssumption DEF Smaller
<1>3. Start = After(Smaller(0, n))
  <2>1. Smaller(0, n) = 0
    BY <1>2 DEF Smaller
  <2>2. [j \in 1..0 |-> said[j].pair] = <<>>
    OBVIOUS
  <2> QED BY <2>1, <2>2 DEF Start, After, At, EndAt
<1>4. ASSUME NEW i \in 1..k
      PROVE  Iterate(buf, After(Smaller(i - 1, n))) = After(Smaller(i, n))
  <2> DEFINE c == Smaller(i - 1, n)
  <2>1. c \in 0..Len(said)
    BY <1>1, <1>2 DEF Smaller
  <2>2. Iterate(buf, After(c)) =
          IF c < Len(said) /\ c < MaxParams \div 2 /\ EndAt(c + 1) <= k THEN After(c + 1) ELSE After(c)
    <3> HIDE DEF c
    <3> QED BY <2>1, OneIteration
  <2>3. CASE i - 1 < n
    <3>1. c = i - 1 /\ Smaller(i, n) = c + 1
      BY <1>1, <1>2, <2>3 DEF Smaller
    <3>2. c < w /\ c < MaxParams \div 2 /\ c + 1 \in 0..Len(said) /\ c + 1 <= w
      BY <1>1, <1>2, <2>3, <3>1 DEF Smaller
    <3>3. EndAt(c + 1) <= k /\ c < Len(said)
      <4> HIDE DEF c
      <4> QED BY <1>1, <2>1, <3>2
    <3> HIDE DEF c
    <3> QED BY <2>2, <3>1, <3>2, <3>3, Zenon DEF c
  <2>4. CASE ~(i - 1 < n)
    <3>1. c = n /\ Smaller(i, n) = n
      BY <1>1, <1>2, <2>4 DEF Smaller
    <3>2. ~(n < Len(said) /\ n < MaxParams \div 2 /\ EndAt(n + 1) <= k)
      <4> SUFFICES ASSUME n < Len(said), n < MaxParams \div 2, EndAt(n + 1) <= k PROVE FALSE
        OBVIOUS
      <4>1. n = w
        BY <1>1, <1>2 DEF Smaller
      <4>2. n + 1 \in 0..Len(said) /\ ~(n + 1 <= w)
        BY <1>1, <1>2, <4>1
      <4> QED BY <4>2
    <3> HIDE DEF c
    <3> QED BY <2>2, <3>1, <3>2, Zenon DEF c
  <2> QED BY <2>3, <2>4
<1> DEFINE f == Loop(buf)
<1>5. f = CHOOSE h : h = Unrolled(h)
  <2> HIDE DEF buf
  <2> QED BY <1>1, Zenon DEF Loop
<1>6. g = Unrolled(g)
  <2> HIDE DEF buf
  <2>1. ASSUME NEW i \in 0..k
        PROVE  After(Smaller(i, n)) = IF i = 0 THEN Start ELSE Iterate(buf, g[i - 1])
    <3>1. CASE i = 0
      BY <1>3, <3>1
    <3>2. CASE i # 0
      <4>1. i \in 1..k /\ i - 1 \in 0..k
        BY <1>1, <3>2
      <4>2. g[i - 1] = After(Smaller(i - 1, n))
        BY <4>1
      <4> QED BY <1>4, <3>2, <4>1, <4>2, Zenon
    <3> QED BY <3>1, <3>2
  <2> QED BY <2>1, Zenon
<1> HIDE DEF g, f
<1>7. f = Unrolled(f)
  <2> HIDE DEF Unrolled
  <2> QED BY <1>5, <1>6, Zenon
<1> DEFINE P == {i \in Nat : i <= k => f[i] = After(Smaller(i, n))}
<1> HIDE DEF buf
<1>8. 0 \in P
  <2>1. f[0] = Start
    BY <1>1, <1>7
  <2> QED BY <1>3, <2>1
<1>9. \A i \in Nat : i \in P => i + 1 \in P
  <2>1. SUFFICES ASSUME NEW i \in Nat, i + 1 <= k, f[i] = After(Smaller(i, n))
                 PROVE  f[i + 1] = After(Smaller(i + 1, n))
    BY <1>1
  <2>2. i + 1 \in 1..k /\ i + 1 \in 0..k /\ (i + 1) - 1 = i /\ i + 1 # 0
    BY <1>1, <2>1
  <2>3. f[i + 1] = Iterate(buf, f[i])
    <3>1. f[i + 1] = Unrolled(f)[i + 1]
      <4> HIDE DEF Unrolled
      <4> QED BY <1>7, Zenon
    <3>2. Unrolled(f)[i + 1] = Iterate(buf, f[(i + 1) - 1])
      BY <2>2, Zenon
    <3> QED BY <2>2, <3>1, <3>2, Zenon
  <2>4. Iterate(buf, After(Smaller((i + 1) - 1, n))) = After(Smaller(i + 1, n))
    BY <1>4, <2>2, Zenon
  <2> QED BY <2>1, <2>2, <2>3, <2>4, Zenon
<1> HIDE DEF P
<1>10. \A i \in Nat : i \in P
  BY <1>8, <1>9, NatSet
<1> QED BY <1>1, <1>10 DEF P, f, buf

LEMMA WrittenDecoded ==
  ASSUME Written
  PROVE  PairsDecoded
<1> SUFFICES ASSUME NEW k \in 0..Len(text)
             PROVE  LET whole == Cardinality({i \in 1..Len(said) : said[i].end <= k})
                        room == MaxParams \div 2
                    IN Decode(SubSeq(text, 1, k)) =
                         [i \in 1..(IF whole < room THEN whole ELSE room) |-> said[i].pair]
  BY DEF PairsDecoded
<1>1. PICK w \in 0..Len(said) : \A j \in 0..Len(said) : EndAt(j) <= k <=> j <= w
  BY WholeOnes
<1> DEFINE n == Smaller(w, MaxParams \div 2)  buf == SubSeq(text, 1, k)
<1>2. Cardinality({i \in 1..Len(said) : said[i].end <= k}) = w
  BY <1>1, Count
<1>3. \A i \in 0..k : Loop(buf)[i] = After(Smaller(i, n))
  <2> HIDE DEF n
  <2> QED BY <1>1, LoopIs DEF n
<1>4. Len(buf) = k /\ k \in Nat /\ Len(said) \in Nat /\ MaxParams \div 2 \in Nat
  BY NameValueAssumption DEF Written
<1>5. Smaller(k, n) = n
  <2>1. w <= EndAt(w) /\ EndAt(w) <= k
    BY <1>1, <1>4 DEF Written
  <2>2. EndAt(w) \in Nat
    <3>1. CASE w = 0
      BY <3>1 DEF EndAt
    <3>2. CASE w # 0
      BY <1>4, <3>2, Types
    <3> QED BY <3>1, <3>2
  <2>3. w <= k
    BY <1>4, <2>1, <2>2
  <2> QED BY <1>4, <2>3 DEF Smaller
<1>6. Loop(buf)[Len(buf)] = After(n)
  <2> HIDE DEF n, buf
  <2>1. k \in 0..k
    BY <1>4
  <2> QED BY <1>3, <1>4, <1>5, <2>1, Zenon
<1>7. Decode(buf) = [i \in 1..n |-> said[i].pair]
  <2> HIDE DEF n, buf
  <2>1. After(n).params = [i \in 1..n |-> said[i].pair]
    BY DEF After, At
  <2> QED BY <1>6, <2>1, Zenon DEF Decode
<1> QED BY <1>2, <1>7, Zenon DEF Smaller

-----------------------------------------------------------------------------
(* A pair that is written stands at the end of the text, and stays where   *)
(* it is when more is written.                                             *)
LEMMA Joined ==
  ASSUME NEW t \in Seq(Byte), NEW u \in Seq(Byte)
  PROVE  /\ t \o u \in Seq(Byte) /\ Len(t \o u) = Len(t) + Len(u)
         /\ \A i \in 1..Len(t) : (t \o u)[i] = t[i]
         /\ \A i \in 1..Len(u) : (t \o u)[Len(t) + i] = u[i]
OBVIOUS

LEMMA Stays ==
  ASSUME NEW t \in Seq(Byte), NEW u \in Seq(Byte), NEW e \in Nat,
         NEW a \in Seq(Byte), NEW n \in Encodings(Len(a)),
         NEW b \in Seq(Byte), NEW v \in Encodings(Len(b)),
         NEW f, PairAt(t, e, n, v, a, b, f)
  PROVE  PairAt(t \o u, e, n, v, a, b, f)
<1> DEFINE ln == Len(n)  lv == Len(v)  la == Len(a)  lb == Len(b)  lt == Len(t)  lu == Len(u)
           w == t \o u
<1>1. /\ ln \in Nat /\ lv \in Nat /\ la \in Nat /\ lb \in Nat /\ lt \in Nat /\ lu \in Nat
  BY LengthTypes
<1>2. Len(w) = lt + lu /\ \A i \in 1..lt : w[i] = t[i]
  OBVIOUS
<1>3. /\ f = e + ln + lv + la + lb
      /\ f <= lt
      /\ \A i \in 1..ln : t[e + i] = n[i]
      /\ \A i \in 1..lv : t[e + ln + i] = v[i]
      /\ \A i \in 1..la : t[e + ln + lv + i] = a[i]
      /\ \A i \in 1..lb : t[e + ln + lv + la + i] = b[i]
  BY DEF PairAt
<1> HIDE DEF ln, lv, la, lb, lt, lu, w
<1>4. f <= Len(w)
  BY <1>1, <1>2, <1>3
<1>5. \A i \in 1..ln : w[e + i] = n[i]
  <2>1. TAKE i \in 1..ln
  <2>2. e + i \in 1..lt
    BY <1>1, <1>3
  <2> QED BY <1>2, <1>3, <2>2
<1>6. \A i \in 1..lv : w[e + ln + i] = v[i]
  <2>1. TAKE i \in 1..lv
  <2>2. e + ln + i \in 1..lt
    BY <1>1, <1>3
  <2> QED BY <1>2, <1>3, <2>2
<1>7. \A i \in 1..la : w[e + ln + lv + i] = a[i]
  <2>1. TAKE i \in 1..la
  <2>2. e + ln + lv + i \in 1..lt
    BY <1>1, <1>3
  <2> QED BY <1>2, <1>3, <2>2
<1>8. \A i \in 1..lb : w[e + ln + lv + la + i] = b[i]
  <2>1. TAKE i \in 1..lb
  <2>2. e + ln + lv + la + i \in 1..lt
    BY <1>1, <1>3
  <2> QED BY <1>2, <1>3, <2>2
<1> QED BY <1>3, <1>4, <1>5, <1>6, <1>7, <1>8 DEF PairAt, ln, lv, la, lb, w

LEMMA Appended ==
  ASSUME NEW t \in Seq(Byte),
         NEW a \in Seq(Byte), NEW n \in Encodings(Len(a)),
         NEW b \in Seq(Byte), NEW v \in Encodings(Len(b))
  PROVE  LET w == Longer(t, n, v, a, b)
         IN /\ w \in Seq(Byte)
            /\ w = t \o Pair(n, v, a, b) /\ Pair(n, v, a, b) \in Seq(Byte)
            /\ Len(w) > Len(t)
            /\ PairAt(w, Len(t), n, v, a, b, Len(w))
<1> DEFINE w == Longer(t, n, v, a, b)
<1> DEFINE ln == Len(n)  lv == Len(v)  la == Len(a)  lb == Len(b)  lt == Len(t)
           x == t \o n
           y == x \o v
           z == y \o a
<1>1. n \in Seq(Byte) /\ v \in Seq(Byte)
  BY EncodingTypes
<1>2. /\ ln \in Nat /\ ln > 0 /\ lv \in Nat /\ la \in Nat /\ lb \in Nat /\ lt \in Nat
  <2>1. ln \in {1, 4} /\ lv \in {1, 4} /\ la \in Nat /\ lb \in Nat /\ lt \in Nat
    BY LengthTypes
  <2> HIDE DEF ln, lv, la, lb, lt
  <2> QED BY <2>1
<1>3. /\ x \in Seq(Byte) /\ Len(x) = lt + ln
      /\ \A i \in 1..lt : x[i] = t[i]
      /\ \A i \in 1..ln : x[lt + i] = n[i]
  BY <1>1, Joined
<1> HIDE DEF x
<1>4. /\ y \in Seq(Byte) /\ Len(y) = Len(x) + lv
      /\ \A i \in 1..Len(x) : y[i] = x[i]
      /\ \A i \in 1..lv : y[Len(x) + i] = v[i]
  BY <1>1, <1>3, Joined
<1> HIDE DEF y
<1>5. /\ z \in Seq(Byte) /\ Len(z) = Len(y) + la
      /\ \A i \in 1..Len(y) : z[i] = y[i]
      /\ \A i \in 1..la : z[Len(y) + i] = a[i]
  BY <1>4, Joined
<1> HIDE DEF z
<1>6. /\ w \in Seq(Byte) /\ Len(w) = Len(z) + lb
      /\ \A i \in 1..Len(z) : w[i] = z[i]
      /\ \A i \in 1..lb : w[Len(z) + i] = b[i]
  <2>1. w = z \o b
    BY Zenon DEF x, y, z, Longer
  <2> HIDE DEF w
  <2> QED BY <1>5, <2>1, Joined
<1>7. w = t \o Pair(n, v, a, b) /\ Pair(n, v, a, b) \in Seq(Byte)
  <2>1. Longer(t, n, v, a, b) = t \o Pair(n, v, a, b) /\ Pair(n, v, a, b) \in Seq(Byte)
    <3> HIDE DEF ln, lv, la, lb, lt
    <3> QED BY <1>1, Regrouped
  <2> QED BY <2>1, Zenon
<1> HIDE DEF ln, lv, la, lb, lt, w
<1>8. Len(x) = lt + ln /\ Len(y) = lt + ln + lv /\ Len(z) = lt + ln + lv + la /\ Len(w) = lt + ln + lv + la + lb
  BY <1>2, <1>3, <1>4, <1>5, <1>6
<1>9. \A i \in 1..ln : w[lt + i] = n[i]
  <2>1. TAKE i \in 1..ln
  <2>2. lt + i \in 1..Len(x) /\ lt + i \in 1..Len(y) /\ lt + i \in 1..Len(z)
    BY <1>2, <1>8
  <2> QED BY <1>3, <1>4, <1>5, <1>6, <2>1, <2>2, Zenon
<1>10. \A i \in 1..lv : w[lt + ln + i] = v[i]
  <2>1. TAKE i \in 1..lv
  <2>2. lt + ln + i \in 1..Len(y) /\ lt + ln + i \in 1..Len(z)
    BY <1>2, <1>8
  <2> QED BY <1>4, <1>5, <1>6, <1>8, <2>1, <2>2, Zenon
<1>11. \A i \in 1..la : w[lt + ln + lv + i] = a[i]
  <2>1. TAKE i \in 1..la
  <2>2. lt + ln + lv + i \in 1..Len(z)
    BY <1>2, <1>8
  <2> QED BY <1>5, <1>6, <1>8, <2>1, <2>2, Zenon
<1>12. \A i \in 1..lb : w[lt + ln + lv + la + i] = b[i]
  BY <1>6, <1>8, Zenon
<1>13. Len(w) > lt /\ Len(w) <= Len(w)
  BY <1>2, <1>8
<1> QED BY <1>6, <1>7, <1>8, <1>9, <1>10, <1>11, <1>12, <1>13 DEF PairAt, ln, lv, la, lb, lt, w

LEMMA WrittenInit ==
  ASSUME ParamsInit
  PROVE  Written
<1>1. kind = "params" /\ text = <<>> /\ said = <<>> /\ Len(said) = 0 /\ Len(text) = 0
  BY DEF ParamsInit
<1>2. 0..Len(said) = {0} /\ 1..Len(said) = {}
  BY <1>1
<1>3. EndAt(0) = 0
  BY DEF EndAt
<1>4. text \in Seq(Byte) /\ said \in Seq(Variable)
  BY <1>1
<1> QED BY <1>1, <1>2, <1>3, <1>4 DEF Written

LEMMA WrittenStep ==
  ASSUME Written, NEW name \in Seq(Byte), NEW value \in Seq(Byte), WritePair(name, value)
  PROVE  Written'
<1>1. PICK n \in Encodings(Len(name)), v \in Encodings(Len(value)) :
        text' = Longer(text, n, v, name, value)
  BY Zenon DEF WritePair, Longer
<1> SUFFICES ASSUME NEW L, L = Len(said) PROVE Written'
  OBVIOUS
<1> DEFINE new == [pair |-> <<name, value>>, end |-> Len(text')]
           more == Pair(n, v, name, value)
<1>2. /\ said \in Seq(Variable) /\ text \in Seq(Byte) /\ L \in Nat /\ Len(text) \in Nat
      /\ kind' = "params" /\ said' = Append(said, new)
  BY DEF Written, WritePair
<1>3. /\ text' \in Seq(Byte)
      /\ text' = text \o more /\ more \in Seq(Byte)
      /\ Len(text') > Len(text)
      /\ PairAt(text', Len(text), n, v, name, value, Len(text'))
  <2> DEFINE w == Longer(text, n, v, name, value)
  <2>1. /\ w \in Seq(Byte)
        /\ w = text \o more /\ more \in Seq(Byte)
        /\ Len(w) > Len(text)
        /\ PairAt(w, Len(text), n, v, name, value, Len(w))
    BY <1>2, Appended
  <2> HIDE DEF w
  <2>2. text' = w
    BY <1>1 DEF w
  <2> QED BY <2>1, <2>2, Zenon
<1>4. new \in Variable
  BY <1>3 DEF Variable
<1> HIDE DEF new, more
<1>5. /\ said' \in Seq(Variable) /\ Len(said') = L + 1
      /\ \A j \in 1..L : said'[j] = said[j]
      /\ said'[L + 1] = new
  BY <1>2, <1>4
<1>6. /\ \A j \in 0..L : EndAt(j)' = EndAt(j)
      /\ EndAt(L + 1)' = Len(text')
      /\ \A j \in 1..L : NameAt(j)' = NameAt(j) /\ ValueAt(j)' = ValueAt(j)
      /\ NameAt(L + 1)' = name /\ ValueAt(L + 1)' = value
  <2>1. ASSUME NEW j \in 0..L PROVE EndAt(j)' = EndAt(j)
    BY <1>2, <1>5 DEF EndAt
  <2>2. EndAt(L + 1)' = Len(text')
    BY <1>2, <1>5 DEF EndAt, new
  <2>3. NameAt(L + 1)' = name /\ ValueAt(L + 1)' = value
    BY <1>5 DEF NameAt, ValueAt, new
  <2> QED BY <1>5, <2>1, <2>2, <2>3 DEF NameAt, ValueAt
<1>7. EndAt(L) = Len(text) /\ \A j \in 0..L : EndAt(j) \in Nat /\ EndAt(j) <= Len(text)
  <2>1. EndAt(0) = 0 /\ EndAt(L) = Len(text)
    BY DEF EndAt, Written
  <2> QED BY <1>2, <2>1, Types
<1>8. \A j \in 1..L : Stands(j)'
  <2>1. TAKE j \in 1..L
  <2>2. PICK m \in Encodings(Len(NameAt(j))), u \in Encodings(Len(ValueAt(j))) :
          PairAt(text, EndAt(j - 1), m, u, NameAt(j), ValueAt(j), EndAt(j))
    BY <2>1 DEF Written, Stands
  <2>3. j - 1 \in 0..L /\ j \in 0..L /\ EndAt(j - 1) \in Nat
    BY <1>2, <1>7, <2>1
  <2>4. NameAt(j) \in Seq(Byte) /\ ValueAt(j) \in Seq(Byte)
    BY <2>1, Types
  <2>5. PairAt(text', EndAt(j - 1), m, u, NameAt(j), ValueAt(j), EndAt(j))
    BY <1>2, <1>3, <2>2, <2>3, <2>4, Stays
  <2>6. EndAt(j - 1)' = EndAt(j - 1) /\ EndAt(j)' = EndAt(j) /\ NameAt(j)' = NameAt(j) /\ ValueAt(j)' = ValueAt(j)
    BY <1>6, <2>1, <2>3, Zenon
  <2> QED BY <2>5, <2>6 DEF Stands
<1>9. Stands(L + 1)'
  <2>1. (L + 1) - 1 = L /\ L \in 0..L
    BY <1>2
  <2>2. EndAt((L + 1) - 1)' = Len(text)
    BY <1>6, <1>7, <2>1
  <2> QED BY <1>3, <1>6, <2>2 DEF Stands
<1>10. EndAt(Len(said))' = Len(text)'
  BY <1>5, <1>6, Zenon
<1>11. 0..Len(said') = (0..L) \cup {L + 1} /\ 1..Len(said') = (1..L) \cup {L + 1} /\ L + 1 \notin 0..L
  BY <1>2, <1>5
<1>12. \A j \in 0..L : j <= EndAt(j)
  BY DEF Written
<1>13. \A i, j \in 0..L : i <= j => EndAt(i) <= EndAt(j)
  BY DEF Written
<1>14. (\A j \in 0..Len(said) : j <= EndAt(j))'
  <2>0. L <= Len(text)
    BY <1>2, <1>7, <1>12
  <2>1. L + 1 <= Len(text')
    BY <1>2, <1>3, <2>0
  <2> QED BY <1>6, <1>11, <1>12, <2>1
<1>15. (\A i, j \in 0..Len(said) : i <= j => EndAt(i) <= EndAt(j))'
  <2>1. ASSUME NEW i \in 0..(L + 1), NEW j \in 0..(L + 1), i <= j PROVE EndAt(i)' <= EndAt(j)'
    <3>1. CASE j \in 0..L
      BY <1>2, <1>6, <1>13, <2>1, <3>1
    <3>2. CASE j = L + 1 /\ i \in 0..L
      BY <1>2, <1>3, <1>6, <1>7, <3>2
    <3>3. CASE j = L + 1 /\ i = L + 1
      BY <1>3, <1>6, <3>3
    <3> QED BY <1>2, <3>1, <3>2, <3>3
  <2> QED BY <1>5, <2>1
<1>16. (\A j \in 1..Len(said) : Stands(j))'
  BY <1>8, <1>9, <1>11
<1> QED BY <1>2, <1>3, <1>5, <1>10, <1>14, <1>15, <1>16 DEF Written

(* In the first k bytes of what a web server wrote, whatever the variables *)
(* and the forms of their lengths, the loop of fcgi_decode_name_value      *)
(* reads those it has room for, as they were written.                      *)
THEOREM ParamsCorrect == ParamsSpec => []PairsDecoded
<1>1. ParamsInit => Written
  BY WrittenInit
<1>2. Written /\ [ParamsNext]_<<kind, text, said>> => Written'
  <2> SUFFICES ASSUME Written, [ParamsNext]_<<kind, text, said>> PROVE Written'
    OBVIOUS
  <2>1. CASE ParamsNext
    BY <2>1, WrittenStep DEF ParamsNext
  <2>2. CASE UNCHANGED <<kind, text, said>>
    BY <2>2 DEF Written, Stands, NameAt, ValueAt, EndAt
  <2> QED BY <2>1, <2>2
<1>3. Written => PairsDecoded
  BY WrittenDecoded
<1> QED BY <1>1, <1>2, <1>3, PTL DEF ParamsSpec
=============================================================================
