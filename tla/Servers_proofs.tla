---------------------------- MODULE Servers_proofs ----------------------------
(***************************************************************************)
(* The safety properties of the two servers' processes: FcgiMaster, for    *)
(* any number of workers and any finite set of connections, and DevServer, *)
(* for any finite set of connections.                                      *)
(*                                                                         *)
(* The specifications are separate: each theorem is for all values of its  *)
(* constants and variables.  The second is named Dev here, and what it     *)
(* assumes of its constants is a hypothesis, Dev!ConstantsOK, of each      *)
(* theorem about it.                                                       *)
(***************************************************************************)
EXTENDS FcgiMaster, Descriptors, FiniteSetTheorems, TLAPS

CONSTANTS Faults, None

VARIABLES main, client, reaping, pending, handler, script, listeners

Dev == INSTANCE DevServer

-----------------------------------------------------------------------------
(* ListenQueue.                                                            *)

(* What a step of a server does to the queue: s is what becomes of         *)
(* the connections that it takes, drops or finishes.                       *)
QueueStep(s) ==
  \/ UNCHANGED queueVars
  \/ Take(s)
  \/ Drop(s)
  \/ \E c \in Conn : Arrive(c)
  \/ \E c \in Conn :
       /\ conn[c] # "queued"
       /\ conn' = [conn EXCEPT ![c] = s]
       /\ UNCHANGED queue

(* Whatever it does, the queue stays exact.                                *)
LEMMA QueueSteps ==
  ASSUME QueueExact, queue \in Seq(Conn), DOMAIN conn = Conn, conn = [c \in Conn |-> conn[c]],
         NEW s, s # "queued", QueueStep(s)
  PROVE  QueueExact'
<1> DEFINE n == Len(queue)
<1>0. n \in Nat /\ DOMAIN queue = 1..n
  OBVIOUS
<1>1. CASE UNCHANGED queueVars
  BY <1>1 DEF queueVars, QueueExact
<1>2. CASE Drop(s)
  <2>1. DOMAIN queue' = {}
    BY <1>2 DEF Drop
  <2>2. \A c \in Conn : conn'[c] # "queued"
    BY <1>2 DEF Drop
  <2> QED BY <2>1, <2>2 DEF QueueExact
<1>3. CASE Take(s)
  <2>0. queue # <<>> /\ queue' = Tail(queue) /\ conn' = [conn EXCEPT ![Head(queue)] = s]
    BY <1>3 DEF Take
  <2>1. n > 0 /\ queue[1] \in Conn /\ Head(queue) = queue[1]
    BY <2>0, <1>0
  <2>2. DOMAIN queue' = 1..(n - 1) /\ \A m \in 1..(n - 1) : queue'[m] = queue[m + 1]
    BY <2>0, <1>0, <2>1
  <2>3. \A c \in Conn : conn'[c] = IF c = queue[1] THEN s ELSE conn[c]
    BY <2>0, <2>1
  <2>4. \A l, m \in 1..n : queue[l] = queue[m] => l = m
    BY <1>0 DEF QueueExact
  <2>5. \A l, m \in DOMAIN queue' : queue'[l] = queue'[m] => l = m
    BY <1>0, <2>1, <2>2, <2>4
  <2>6. ASSUME NEW c \in Conn
        PROVE  conn'[c] = "queued" <=> \E m \in DOMAIN queue' : queue'[m] = c
    <3>1. CASE c = queue[1]
      <4>1. conn'[c] # "queued"
        BY <2>3, <3>1
      <4>2. ASSUME NEW m \in 1..(n - 1) PROVE queue'[m] # c
        <5>1. m + 1 \in 1..n /\ m + 1 # 1 /\ 1 \in 1..n
          BY <1>0
        <5> QED BY <5>1, <2>2, <2>4, <3>1
      <4> QED BY <4>1, <4>2, <2>2
    <3>2. CASE c # queue[1]
      <4>1. conn[c] = "queued" <=> \E m \in 1..n : queue[m] = c
        BY <1>0 DEF QueueExact
      <4>2. ASSUME NEW m \in 1..n, queue[m] = c
            PROVE  m - 1 \in 1..(n - 1) /\ queue'[m - 1] = c
        BY <1>0, <2>1, <2>2, <3>2, <4>2
      <4>3. ASSUME NEW m \in 1..(n - 1), queue'[m] = c
            PROVE  m + 1 \in 1..n /\ queue[m + 1] = c
        BY <1>0, <2>2, <4>3
      <4> QED BY <2>2, <2>3, <3>2, <4>1, <4>2, <4>3
    <3> QED BY <3>1, <3>2
  <2> QED BY <2>5, <2>6 DEF QueueExact
<1>4. ASSUME NEW c \in Conn, Arrive(c) PROVE QueueExact'
  <2>0. queue' = Append(queue, c)
    BY <1>4 DEF Arrive
  <2>1. /\ DOMAIN queue' = 1..(n + 1)
        /\ queue'[n + 1] = c
        /\ \A m \in 1..n : queue'[m] = queue[m]
    BY <2>0, <1>0
  <2>2. \A m \in 1..n : queue[m] # c
    BY <1>4, <1>0 DEF Arrive, QueueExact
  <2>3. \A d \in Conn : conn'[d] = IF d = c THEN "queued" ELSE conn[d]
    BY <1>4 DEF Arrive
  <2>4. \A l, m \in DOMAIN queue' : queue'[l] = queue'[m] => l = m
    BY <1>0, <2>1, <2>2 DEF QueueExact
  <2>5. ASSUME NEW d \in Conn
        PROVE  conn'[d] = "queued" <=> \E m \in DOMAIN queue' : queue'[m] = d
    BY <1>0, <2>1, <2>2, <2>3 DEF QueueExact
  <2> QED BY <2>4, <2>5 DEF QueueExact
<1>5. ASSUME NEW c \in Conn,
             UNCHANGED queue /\ conn[c] # "queued" /\ conn' = [conn EXCEPT ![c] = s]
      PROVE  QueueExact'
  <2>1. \A d \in Conn : conn'[d] = IF d = c THEN s ELSE conn[d]
    BY <1>5
  <2>2. \A d \in Conn : conn'[d] = "queued" <=> conn[d] = "queued"
    BY <2>1, <1>5
  <2> QED BY <1>5, <2>2 DEF QueueExact
<1> QED BY <1>1, <1>2, <1>3, <1>4, <1>5 DEF QueueStep

-----------------------------------------------------------------------------
(* FcgiMaster.                                                             *)

(* Serving a connection more, or one less, counts.                         *)
LEMMA ServingCounts ==
  ASSUME TypeOK
  PROVE  /\ IsFiniteSet(Serving)
         /\ Cardinality(Serving) \in Nat
         /\ \A c \in Conn : c \notin Serving =>
              Cardinality(Serving \union {c}) = Cardinality(Serving) + 1
         /\ \A c \in Serving :
              /\ Cardinality(Serving \ {c}) \in Nat
              /\ Cardinality(Serving) = Cardinality(Serving \ {c}) + 1
<1>1. IsFiniteSet(Serving)
  BY FS_Subset, ConstantsAssumption DEF Serving
<1>2. Cardinality(Serving) \in Nat
  BY <1>1, FS_CardinalityType
<1>3. \A c \in Conn : c \notin Serving =>
        Cardinality(Serving \union {c}) = Cardinality(Serving) + 1
  BY <1>1, FS_AddElement
<1>4. \A c \in Serving : /\ Cardinality(Serving \ {c}) \in Nat
                         /\ Cardinality(Serving) = Cardinality(Serving \ {c}) + 1
  <2>1. TAKE c \in Serving
  <2>2. IsFiniteSet(Serving \ {c}) /\ Cardinality(Serving \ {c}) = Cardinality(Serving) - 1
    BY <1>1, <2>1, FS_RemoveElement
  <2>3. Cardinality(Serving \ {c}) \in Nat
    BY <2>2, FS_CardinalityType
  <2> QED BY <1>2, <2>2, <2>3
<1> QED BY <1>1, <1>2, <1>3, <1>4

-----------------------------------------------------------------------------
(* Type correctness: no counter of the master ever leaves its range.       *)
THEOREM TypeCorrect == Spec => []TypeOK
<1>1. Init => TypeOK
  BY ConstantsAssumption DEF Init, TypeOK
<1>2. TypeOK /\ [Next]_vars => TypeOK'
  <2> SUFFICES ASSUME TypeOK, [Next]_vars PROVE TypeOK'
    OBVIOUS
  <2> USE ConstantsAssumption DEF TypeOK, poolVars, queueVars
  <2>1. CASE Prefork
    BY <2>1 DEF Prefork, Fork
  <2>2. CASE EndPrefork
    BY <2>2 DEF EndPrefork
  <2>3. CASE Reap
    BY <2>3 DEF Reap
  <2>4. CASE Refork
    BY <2>4 DEF Refork, Fork
  <2>5. CASE Exit
    BY <2>5 DEF Exit, Drop
  <2>6. CASE Accept
    BY <2>6 DEF Accept, Take
  <2>7. CASE IdleDies
    BY <2>7 DEF IdleDies
  <2>8. ASSUME NEW c \in Conn, Connect(c) PROVE TypeOK'
    BY <2>8 DEF Connect, Arrive
  <2>9. ASSUME NEW c \in Conn, Return(c) PROVE TypeOK'
    BY <2>9 DEF Return
  <2>10. ASSUME NEW c \in Conn, BusyDies(c) PROVE TypeOK'
    BY <2>10 DEF BusyDies
  <2>11. CASE UNCHANGED vars
    BY <2>11 DEF vars
  <2> QED BY <2>1, <2>2, <2>3, <2>4, <2>5, <2>6, <2>7, <2>8, <2>9, <2>10, <2>11
          DEF Next, Master
<1> QED BY <1>1, <1>2, PTL DEF Spec

-----------------------------------------------------------------------------
(* The queue is exact, which the account of the pool rests on: a worker    *)
(* that accepts has one connection more than it had.                       *)
LEMMA QueueAlways == Spec => []QueueExact
<1>1. Init => QueueExact
  BY DEF Init, QueueExact
<1>2. TypeOK /\ QueueExact /\ [Next]_vars => QueueExact'
  <2> SUFFICES ASSUME TypeOK, QueueExact, [Next]_vars PROVE QueueExact'
    OBVIOUS
  <2>0. queue \in Seq(Conn) /\ DOMAIN conn = Conn /\ conn = [c \in Conn |-> conn[c]]
    BY DEF TypeOK
  <2>1. ASSUME UNCHANGED queueVars PROVE QueueExact'
    BY <2>1 DEF queueVars, QueueExact
  <2>2. CASE Exit
    <3>1. QueueStep("dropped")
      BY <2>2 DEF Exit, QueueStep
    <3> QED BY <2>0, <3>1, QueueSteps
  <2>3. CASE Accept
    <3>1. QueueStep("serving")
      BY <2>3 DEF Accept, QueueStep
    <3> QED BY <2>0, <3>1, QueueSteps
  <2>4. ASSUME NEW c \in Conn, Connect(c) PROVE QueueExact'
    <3>1. QueueStep("new")
      BY <2>4 DEF Connect, QueueStep
    <3> QED BY <2>0, <3>1, QueueSteps
  <2>5. ASSUME NEW c \in Conn, Return(c) \/ BusyDies(c) PROVE QueueExact'
    <3>1. QueueStep("closed") \/ QueueStep("dropped")
      BY <2>5 DEF Return, BusyDies, QueueStep
    <3> QED BY <2>0, <3>1, QueueSteps
  <2> QED BY <2>1, <2>2, <2>3, <2>4, <2>5
          DEF Next, Master, Prefork, EndPrefork, Reap, Refork, IdleDies, vars, queueVars
<1> QED BY <1>1, <1>2, TypeCorrect, PTL DEF Spec

-----------------------------------------------------------------------------
(* The account of the pool, and what makes the end of the master final.    *)
(* PoolAccounted and QueueExact alone are not enough: that nothing is left *)
(* at the end is known only from the guard of Exit, so the invariant keeps *)
(* it, and that the prefork loop is complete when the master waits.        *)
Accounted ==
  /\ PoolAccounted
  /\ master # "prefork" => i = NumWorkers
  /\ master = "exited" => /\ zombies = 0 /\ idle = 0 /\ Serving = {}
                          /\ \A c \in Conn : conn[c] # "queued"

LEMMA AccountedStep == TypeOK /\ QueueExact /\ Accounted /\ [Next]_vars => Accounted'
<1> SUFFICES ASSUME TypeOK, QueueExact, Accounted, [Next]_vars PROVE Accounted'
  OBVIOUS
<1> USE ConstantsAssumption, ServingCounts DEF TypeOK, poolVars, queueVars
<1>1. ASSUME UNCHANGED conn PROVE Serving' = Serving
  BY <1>1 DEF Serving
<1>2. CASE Prefork
  BY <1>1, <1>2 DEF Prefork, Fork, Accounted, PoolAccounted, Live, Replacing
<1>3. CASE EndPrefork
  BY <1>1, <1>3 DEF EndPrefork, Accounted, PoolAccounted, Live, Replacing
<1>4. CASE Reap
  BY <1>1, <1>4 DEF Reap, Accounted, PoolAccounted, Live, Replacing
<1>5. CASE Refork
  BY <1>1, <1>5 DEF Refork, Fork, Accounted, PoolAccounted, Live, Replacing
<1>6. CASE Exit
  <2>1. idle = 0 /\ Cardinality(Serving) = 0
    BY <1>6 DEF Exit, Drop, Live
  <2>2. Serving = {}
    BY <2>1, FS_EmptySet
  <2>3. Serving' = Serving
    BY <1>6 DEF Exit, Drop, Serving
  <2> QED BY <1>6, <2>1, <2>2, <2>3 DEF Exit, Drop, Accounted, PoolAccounted, Live, Replacing
<1>7. CASE Accept
  <2>1. Head(queue) \in Conn /\ conn[Head(queue)] = "queued"
    BY <1>7 DEF Accept, Take, QueueExact
  <2>2. Head(queue) \notin Serving /\ Serving' = Serving \union {Head(queue)}
    BY <1>7, <2>1 DEF Accept, Take, Serving
  <2>3. Cardinality(Serving') = Cardinality(Serving) + 1
    BY <2>1, <2>2
  <2>4. master # "exited"
    BY <1>7 DEF Accept, Take, Accounted
  <2> QED BY <1>7, <2>3, <2>4 DEF Accept, Take, Accounted, PoolAccounted, Live, Replacing
<1>8. CASE IdleDies
  <2>1. Serving' = Serving /\ Cardinality(Serving) \in Nat
    BY <1>1, <1>8 DEF IdleDies
  <2>2. master # "exited"
    BY <1>8 DEF IdleDies, Accounted
  <2> QED BY <1>8, <2>1, <2>2 DEF IdleDies, Accounted, PoolAccounted, Live, Replacing
<1>9. ASSUME NEW c \in Conn, Connect(c) PROVE Accounted'
  <2>1. Serving' = Serving
    BY <1>9 DEF Connect, Arrive, Serving
  <2> QED BY <1>9, <2>1 DEF Connect, Arrive, Accounted, PoolAccounted, Live, Replacing
<1>10. ASSUME NEW c \in Conn, conn[c] = "serving",
              \E s \in {"closed", "dropped"} : conn' = [conn EXCEPT ![c] = s]
       PROVE  /\ Cardinality(Serving') \in Nat
              /\ Cardinality(Serving) = Cardinality(Serving') + 1
              /\ Serving # {}
  <2>1. c \in Serving /\ Serving' = Serving \ {c}
    BY <1>10 DEF Serving
  <2> QED BY <2>1
<1>11. ASSUME NEW c \in Conn, Return(c) PROVE Accounted'
  <2>1. /\ Cardinality(Serving') \in Nat
        /\ Cardinality(Serving) = Cardinality(Serving') + 1
        /\ Serving # {}
    BY <1>10, <1>11 DEF Return
  <2> QED BY <1>11, <2>1 DEF Return, Accounted, PoolAccounted, Live, Replacing
<1>12. ASSUME NEW c \in Conn, BusyDies(c) PROVE Accounted'
  <2>1. /\ Cardinality(Serving') \in Nat
        /\ Cardinality(Serving) = Cardinality(Serving') + 1
        /\ Serving # {}
    BY <1>10, <1>12 DEF BusyDies
  <2> QED BY <1>12, <2>1 DEF BusyDies, Accounted, PoolAccounted, Live, Replacing
<1>13. CASE UNCHANGED vars
  BY <1>1, <1>13 DEF vars, Accounted, PoolAccounted, Live, Replacing
<1> QED BY <1>2, <1>3, <1>4, <1>5, <1>6, <1>7, <1>8, <1>9, <1>11, <1>12, <1>13
        DEF Next, Master

LEMMA AccountedAlways == Spec => []Accounted
<1>1. Init => Accounted
  <2> SUFFICES ASSUME Init PROVE Accounted
    OBVIOUS
  <2>1. Serving = {}
    BY DEF Init, Serving
  <2> QED BY <2>1, FS_EmptySet DEF Init, Accounted, PoolAccounted, Live, Replacing
<1> QED BY <1>1, AccountedStep, TypeCorrect, QueueAlways, PTL DEF Spec

(* The pool is accounted for, whatever dies when.                          *)
THEOREM PoolCorrect == Spec => []PoolAccounted
<1>1. Accounted => PoolAccounted
  BY DEF Accounted
<1> QED BY <1>1, AccountedAlways, PTL

(* The master returns only after every worker was lost to a failed fork,   *)
(* and then no connection is left queued or being served.                  *)
THEOREM ExitCorrect == Spec => []ExitIsFinal
<1>1. TypeOK /\ Accounted => ExitIsFinal
  <2> SUFFICES ASSUME TypeOK, Accounted, master = "exited"
               PROVE  /\ failed = NumWorkers
                      /\ \A c \in Conn : conn[c] \notin {"queued", "serving"}
    BY DEF ExitIsFinal
  <2>1. Live = 0
    BY FS_EmptySet DEF Accounted, Live
  <2>2. failed = NumWorkers
    BY <2>1, ConstantsAssumption DEF TypeOK, Accounted, PoolAccounted, Replacing
  <2>3. \A c \in Conn : conn[c] \notin {"queued", "serving"}
    BY DEF Accounted, Serving
  <2> QED BY <2>2, <2>3
<1> QED BY <1>1, TypeCorrect, AccountedAlways, PTL

-----------------------------------------------------------------------------
(* DevServer.  fork copies every descriptor of the parent, so that         *)
(* OwnConnection rests on what the server itself has open when it forks:   *)
(* at most the connection it has just accepted (ServerHolds).              *)

(* The server has one connection open, between accept and close.           *)
ServerHolds ==
  /\ main \in {"fork", "close"} => client \in Conn
  /\ \A c \in Conn : Dev!Main \in holders[c] => main \in {"fork", "close"} /\ c = client

DevInv == Dev!TypeOK /\ ServerHolds /\ Dev!OwnConnection

LEMMA DevInitial ==
  ASSUME Dev!ConstantsOK
  PROVE  Dev!Init => DevInv
<1> SUFFICES ASSUME Dev!Init PROVE DevInv
  OBVIOUS
<1>1. queue \in Seq(Conn) /\ Len(queue) <= Backlog
  BY DEF Dev!ConstantsOK, Dev!Init
<1>2. Dev!TypeOK
  BY <1>1 DEF Dev!Init, Dev!TypeOK
<1>3. ServerHolds /\ Dev!OwnConnection
  BY DEF Dev!Init, ServerHolds, Dev!OwnConnection
<1> QED BY <1>2, <1>3 DEF DevInv

(* What a process that closes the listening socket leaves of the queue.    *)
LEMMA DevCloseSocketTypes ==
  ASSUME Dev!ConstantsOK, Dev!TypeOK, NEW p, Dev!CloseSocket(p)
  PROVE  /\ listeners' \subseteq listeners
         /\ conn' \in [Conn -> {"new", "queued", "accepted", "reset"}]
         /\ queue' \in Seq(Conn) /\ Len(queue') <= Backlog
<1>1. listeners' = listeners \ {p}
  BY DEF Dev!CloseSocket, Dev!Drop, Dev!Drop
<1>2. CASE listeners' = {}
  <2>1. queue' = <<>> /\ conn' = [c \in Conn |-> IF conn[c] = "queued" THEN "reset" ELSE conn[c]]
    BY <1>2 DEF Dev!CloseSocket, Dev!Drop, Dev!Drop
  <2>2. queue' \in Seq(Conn) /\ Len(queue') = 0
    BY <2>1
  <2>3. conn' \in [Conn -> {"new", "queued", "accepted", "reset"}]
    BY <2>1 DEF Dev!TypeOK
  <2> QED BY <1>1, <2>2, <2>3 DEF Dev!ConstantsOK
<1>3. CASE listeners' # {}
  BY <1>1, <1>3 DEF Dev!CloseSocket, Dev!Drop, Dev!TypeOK, Dev!queueVars
<1> QED BY <1>1, <1>2, <1>3

(* Every step keeps the types.                                             *)
LEMMA DevTypeStep ==
  ASSUME Dev!ConstantsOK
  PROVE  Dev!TypeOK /\ ServerHolds /\ [Dev!Next]_(Dev!vars) => Dev!TypeOK'
<1> SUFFICES ASSUME Dev!TypeOK, ServerHolds, [Dev!Next]_(Dev!vars) PROVE Dev!TypeOK'
  OBVIOUS
<1>0. Backlog \in Nat \ {0}
  BY DEF Dev!ConstantsOK
<1> USE <1>0 DEF Dev!TypeOK, Dev!signalVars, Dev!queueVars, Dev!childVars, Dev!fdVars
<1>1. CASE Dev!Accept
  BY <1>1 DEF Dev!Accept, Dev!Take
<1>2. CASE Dev!Fork
  BY <1>2 DEF Dev!Fork, Dev!Inherit, ServerHolds
<1>3. CASE Dev!Close
  BY <1>3 DEF Dev!Close
<1>4. CASE Dev!AcceptFails
  BY <1>4, DevCloseSocketTypes DEF Dev!AcceptFails
<1>5. CASE Dev!Interrupt
  BY <1>5 DEF Dev!Interrupt
<1>6. CASE Dev!Reap
  BY <1>6 DEF Dev!Reap, Dev!Zombies
<1>7. ASSUME NEW c \in Conn, Dev!Connect(c) PROVE Dev!TypeOK'
  BY <1>7 DEF Dev!Connect, Dev!Arrive
<1>8. ASSUME NEW c \in Conn, Dev!Setup(c) PROVE Dev!TypeOK'
  BY <1>8, DevCloseSocketTypes DEF Dev!Setup
<1>9. ASSUME NEW c \in Conn, Dev!StartScript(c) PROVE Dev!TypeOK'
  BY <1>9 DEF Dev!StartScript, Dev!Inherit
<1>10. ASSUME NEW c \in Conn, Dev!HandlerExits(c) PROVE Dev!TypeOK'
  BY <1>10, DevCloseSocketTypes DEF Dev!HandlerExits, Dev!Release
<1>11. ASSUME NEW c \in Conn, Dev!ScriptEnds(c) PROVE Dev!TypeOK'
  BY <1>11, DevCloseSocketTypes DEF Dev!ScriptEnds, Dev!Release
<1>12. CASE UNCHANGED Dev!vars
  BY <1>12 DEF Dev!vars
<1> QED BY <1>1, <1>2, <1>3, <1>4, <1>5, <1>6, <1>7, <1>8, <1>9, <1>10, <1>11, <1>12
        DEF Dev!Next, Dev!Server, Dev!Signal, Dev!HandlerEnds, Dev!HandlerKilled

(* The processes of one connection are not those of another.               *)
LEMMA DevDistinct ==
  \A c, d \in Conn : /\ Dev!H(c) # Dev!Main /\ Dev!S(c) # Dev!Main /\ Dev!H(c) # Dev!S(d)
                     /\ Dev!H(c) = Dev!H(d) => c = d
                     /\ Dev!S(c) = Dev!S(d) => c = d
BY DEF Dev!H, Dev!S, Dev!Main

(* Every step leaves connections with their own processes.                 *)
LEMMA DevHoldersStep == DevInv /\ [Dev!Next]_(Dev!vars) => ServerHolds' /\ Dev!OwnConnection'
<1> SUFFICES ASSUME DevInv, [Dev!Next]_(Dev!vars) PROVE ServerHolds' /\ Dev!OwnConnection'
  OBVIOUS
<1> USE DevDistinct DEF DevInv, Dev!TypeOK, ServerHolds, Dev!OwnConnection, Dev!signalVars, Dev!queueVars, Dev!childVars,
        Dev!fdVars
<1>1. CASE Dev!Accept
  BY <1>1 DEF Dev!Accept, Dev!Take
<1>2. CASE Dev!Fork
  BY <1>2 DEF Dev!Fork, Dev!Inherit
<1>3. CASE Dev!Close
  BY <1>3 DEF Dev!Close
<1>4. CASE Dev!AcceptFails
  BY <1>4 DEF Dev!AcceptFails
<1>5. CASE Dev!Interrupt \/ Dev!Reap
  BY <1>5 DEF Dev!Interrupt, Dev!Reap
<1>6. ASSUME NEW c \in Conn, Dev!Connect(c) \/ Dev!Setup(c) PROVE ServerHolds' /\ Dev!OwnConnection'
  BY <1>6 DEF Dev!Connect, Dev!Setup
<1>7. ASSUME NEW c \in Conn, Dev!StartScript(c) PROVE ServerHolds' /\ Dev!OwnConnection'
  BY <1>7 DEF Dev!StartScript, Dev!Inherit
<1>8. ASSUME NEW c \in Conn, Dev!HandlerExits(c) \/ Dev!ScriptEnds(c)
      PROVE  ServerHolds' /\ Dev!OwnConnection'
  BY <1>8 DEF Dev!HandlerExits, Dev!ScriptEnds, Dev!Release
<1>9. CASE UNCHANGED Dev!vars
  BY <1>9 DEF Dev!vars
<1> QED BY <1>1, <1>2, <1>3, <1>4, <1>5, <1>6, <1>7, <1>8, <1>9
        DEF Dev!Next, Dev!Server, Dev!Signal, Dev!HandlerEnds, Dev!HandlerKilled

LEMMA DevInvariance ==
  ASSUME Dev!ConstantsOK
  PROVE  Dev!Spec => []DevInv
<1>1. DevInv /\ [Dev!Next]_(Dev!vars) => DevInv'
  BY DevTypeStep, DevHoldersStep DEF DevInv
<1> QED BY DevInitial, <1>1, PTL DEF Dev!Spec

-----------------------------------------------------------------------------
(* Every variable of the server and its children keeps its type.           *)
THEOREM DevTypeCorrect ==
  ASSUME Dev!ConstantsOK
  PROVE  Dev!Spec => []Dev!TypeOK
<1>1. DevInv => Dev!TypeOK
  BY DEF DevInv
<1> QED BY DevInvariance, <1>1, PTL

(* No process ever has the connection of another request.                  *)
THEOREM DevConnectionsCorrect ==
  ASSUME Dev!ConstantsOK
  PROVE  Dev!Spec => []OwnConnection
<1>1. DevInv => OwnConnection
  BY DEF DevInv, Dev!OwnConnection, OwnConnection, Dev!Main, Dev!H, Dev!S, Main, H, S
<1> QED BY DevInvariance, <1>1, PTL
=============================================================================
