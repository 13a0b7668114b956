---------------------------- MODULE MySQL_proofs ----------------------------
(***************************************************************************)
(* The safety properties of MySQL, for a table of any size and any number  *)
(* of requests, connections and statements.                                *)
(***************************************************************************)
EXTENDS MySQL, SequenceTheorems, TLAPS

LinkState == {"open", "unread", "lost", "closed"}
Fate == {"pending", "promised", "dropped", "unknown"}
Stmt == [request : Nat, made : Handles, fate : Fate]

(* A function on 1..n is a sequence.                                       *)
LEMMA FunctionIsSeq ==
  ASSUME NEW S, NEW n \in Nat, NEW f \in [1..n -> S]
  PROVE  f \in Seq(S) /\ Len(f) = n
<1>1. f \in Seq(S)
  BY SeqDef
<1> QED BY <1>1, LenProperties

(* What Append leaves and adds.                                            *)
LEMMA SeqGrows ==
  ASSUME NEW S, NEW f \in Seq(S), NEW e \in S
  PROVE  /\ Append(f, e) \in Seq(S)
         /\ Len(Append(f, e)) = Len(f) + 1
         /\ DOMAIN Append(f, e) = 1..(Len(f) + 1)
         /\ \A k \in 1..Len(f) : Append(f, e)[k] = f[k]
         /\ Append(f, e)[Len(f) + 1] = e
<1>1. /\ Append(f, e) \in Seq(S) /\ Len(Append(f, e)) = Len(f) + 1
      /\ (\A k \in 1..Len(f) : Append(f, e)[k] = f[k])
      /\ Append(f, e)[Len(f) + 1] = e
  BY AppendProperties
<1> QED BY <1>1, LenProperties

(* Handles and statements are numbered from 1.                             *)
LEMMA Sizes ==
  ASSUME TypeOK
  PROVE  /\ Len(link) \in Nat /\ Handles = 1..Len(link)
         /\ Len(stmts) \in Nat /\ Stmts = 1..Len(stmts)
         /\ link \in [Handles -> LinkState]
         /\ stmts \in [Stmts -> Stmt]
         /\ Slot \subseteq Nat
<1>1. link \in Seq(LinkState) /\ stmts \in Seq(Stmt)
  BY DEF TypeOK, LinkState, Stmt, Fate
<1>2. Len(link) \in Nat /\ Handles = 1..Len(link) /\ link \in [Handles -> LinkState]
  BY <1>1, LenProperties DEF Handles
<1>3. Len(stmts) \in Nat /\ Stmts = 1..Len(stmts) /\ stmts \in [Stmts -> Stmt]
  BY <1>1, LenProperties DEF Stmts
<1>4. Slot \subseteq Nat
  BY ConstantsAssumption DEF Slot
<1> QED BY <1>2, <1>3, <1>4

LEMMA NewHandleEffect ==
  ASSUME TypeOK, NEW state \in LinkState, NewHandle(state)
  PROVE  /\ Len(link) + 1 \notin Handles /\ Len(link) + 1 # NULL
         /\ Handles' = Handles \cup {Len(link) + 1}
         /\ link' \in Seq(LinkState)
         /\ pending' \in [Handles' -> SUBSET Stmts]
         /\ belief' \in [Handles' -> {"none", "open", "broken"}]
         /\ \A h \in Handles : /\ link'[h] = link[h]
                               /\ pending'[h] = pending[h]
                               /\ belief'[h] = belief[h]
         /\ link'[Len(link) + 1] = state
         /\ pending'[Len(link) + 1] = {}
         /\ belief'[Len(link) + 1] = "none"
<1> DEFINE n == Len(link)
<1>1. n \in Nat /\ Handles = 1..n /\ link \in [1..n -> LinkState]
  BY Sizes
<1>2. /\ pending \in [1..n -> SUBSET Stmts]
      /\ belief \in [1..n -> {"none", "open", "broken"}]
  BY <1>1 DEF TypeOK
<1>3. /\ link' = Append(link, state)
      /\ pending' = Append(pending, {})
      /\ belief' = Append(belief, "none")
  BY DEF NewHandle
<1> DEFINE Writes == SUBSET Stmts
           Belief == {"none", "open", "broken"}
<1>10. {} \in Writes /\ "none" \in Belief
  OBVIOUS
<1>11. pending \in [1..n -> Writes] /\ belief \in [1..n -> Belief]
  BY <1>2
<1>12. link \in Seq(LinkState) /\ Len(link) = n
  BY DEF TypeOK, LinkState
<1> HIDE DEF n, Writes, Belief
<1>14. pending \in Seq(Writes) /\ Len(pending) = n
  BY <1>1, <1>11, FunctionIsSeq
<1>15. belief \in Seq(Belief) /\ Len(belief) = n
  BY <1>1, <1>11, FunctionIsSeq
<1>4. /\ link' \in Seq(LinkState) /\ Len(link') = n + 1
      /\ (\A k \in 1..n : link'[k] = link[k]) /\ link'[n + 1] = state
  BY <1>3, <1>12, SeqGrows
<1>6. /\ pending' \in Seq(Writes) /\ Len(pending') = n + 1
      /\ (\A k \in 1..n : pending'[k] = pending[k]) /\ pending'[n + 1] = {}
  BY <1>3, <1>10, <1>14, SeqGrows
<1>7. /\ belief' \in Seq(Belief) /\ Len(belief') = n + 1
      /\ (\A k \in 1..n : belief'[k] = belief[k]) /\ belief'[n + 1] = "none"
  BY <1>3, <1>10, <1>15, SeqGrows
<1>16. /\ pending' \in [1..(n + 1) -> Writes]
       /\ belief' \in [1..(n + 1) -> Belief]
  BY <1>6, <1>7, LenProperties
<1>8. Handles' = 1..(n + 1)
  BY <1>4, LenProperties DEF Handles
<1>9. 1..(n + 1) = (1..n) \cup {n + 1} /\ n + 1 \notin 1..n /\ n + 1 # NULL
  BY <1>1 DEF NULL
<1> QED BY <1>1, <1>4, <1>6, <1>7, <1>8, <1>9, <1>16 DEF n, Writes, Belief

LEMMA ConcludeEffect ==
  ASSUME TypeOK, NEW hs, NEW fate \in Fate, NEW next \in {"none", "open", "broken"},
         Conclude(hs, fate, next)
  PROVE  /\ stmts' \in Seq(Stmt) /\ Len(stmts') = Len(stmts) /\ Stmts' = Stmts
         /\ \A s \in Stmts :
              /\ stmts'[s].request = stmts[s].request
              /\ stmts'[s].made = stmts[s].made
              /\ stmts[s].made \in hs /\ stmts[s].fate = "pending" => stmts'[s].fate = fate
              /\ ~(stmts[s].made \in hs /\ stmts[s].fate = "pending")
                   => stmts'[s].fate = stmts[s].fate
         /\ belief' \in [Handles -> {"none", "open", "broken"}]
         /\ \A h \in Handles : belief'[h] = IF h \in hs THEN next ELSE belief[h]
<1>1. Len(stmts) \in Nat /\ Stmts = 1..Len(stmts) /\ stmts \in [Stmts -> Stmt]
  BY Sizes
<1>2. stmts' \in [Stmts -> Stmt]
  BY <1>1 DEF Conclude, Stmt
<1>3. stmts' \in Seq(Stmt) /\ Len(stmts') = Len(stmts)
  BY <1>1, <1>2, FunctionIsSeq
<1>4. Stmts' = Stmts
  BY <1>1, <1>2 DEF Stmts
<1>5. \A s \in Stmts :
        /\ stmts'[s].request = stmts[s].request
        /\ stmts'[s].made = stmts[s].made
        /\ stmts[s].made \in hs /\ stmts[s].fate = "pending" => stmts'[s].fate = fate
        /\ ~(stmts[s].made \in hs /\ stmts[s].fate = "pending")
             => stmts'[s].fate = stmts[s].fate
  BY <1>1 DEF Conclude, Stmt
<1>6. /\ belief' \in [Handles -> {"none", "open", "broken"}]
      /\ \A h \in Handles : belief'[h] = IF h \in hs THEN next ELSE belief[h]
  BY DEF Conclude, TypeOK
<1> QED BY <1>3, <1>4, <1>5, <1>6

LEMMA ServerEndsEffect ==
  ASSUME TypeOK, NEW hs, ServerEnds(hs)
  PROVE  /\ txn' = txn \ hs
         /\ pending' \in [Handles -> SUBSET Stmts]
         /\ \A h \in Handles : pending'[h] = IF h \in hs THEN {} ELSE pending[h]
BY DEF ServerEnds, TypeOK

(* A record at the end of stmts.                                           *)
LEMMA StatementAdded ==
  ASSUME TypeOK, NEW e \in Stmt, stmts' = Append(stmts, e)
  PROVE  /\ stmts' \in Seq(Stmt)
         /\ Len(stmts) + 1 \notin Stmts /\ Len(stmts) + 1 # 0
         /\ Stmts' = Stmts \cup {Len(stmts) + 1}
         /\ \A s \in Stmts : stmts'[s] = stmts[s]
         /\ stmts'[Len(stmts) + 1] = e
<1> DEFINE n == Len(stmts)
<1>1. n \in Nat /\ Stmts = 1..n /\ stmts \in [1..n -> Stmt]
  BY Sizes
<1> HIDE DEF n
<1>2. /\ stmts' \in Seq(Stmt) /\ Len(stmts') = n + 1
      /\ (\A k \in 1..n : stmts'[k] = stmts[k]) /\ stmts'[n + 1] = e
  BY SeqGrows, FunctionIsSeq, <1>1
<1>3. Stmts' = 1..(n + 1)
  BY <1>2, LenProperties DEF Stmts
<1>4. 1..(n + 1) = (1..n) \cup {n + 1} /\ n + 1 \notin 1..n /\ n + 1 # 0
  BY <1>1
<1> QED BY <1>1, <1>2, <1>3, <1>4 DEF n

-----------------------------------------------------------------------------
(* Type correctness, in parts that few actions change.                     *)
TypeTable ==
  /\ phase \in {"idle", "script"}
  /\ g_conns \in [Slot -> {NULL} \cup Handles]
  /\ objects \subseteq [id : Slot, made : Handles]
  /\ requests \in Nat
  /\ strayed \in BOOLEAN

TypeServer ==
  /\ link \in Seq(LinkState)
  /\ txn \subseteq Handles
  /\ pending \in [Handles -> SUBSET Stmts]
  /\ belief \in [Handles -> {"none", "open", "broken"}]

TypeStmts ==
  /\ g_last \in [Slot -> {0} \cup Stmts]
  /\ db \subseteq Stmts
  /\ stmts \in Seq(Stmt)

LEMMA TypeParts == TypeOK <=> TypeTable /\ TypeServer /\ TypeStmts
BY DEF TypeOK, TypeTable, TypeServer, TypeStmts, LinkState, Stmt, Fate

(* What an object may reach is a slot, and a connection when it is taken.  *)
LEMMA ObjectReaches ==
  ASSUME TypeOK, NEW o \in objects
  PROVE  /\ o.id \in Slot /\ o.made \in Handles
         /\ g_conns[o.id] # NULL => g_conns[o.id] \in Handles
BY DEF TypeOK

(* A change of one link keeps the handles.                                 *)
LEMMA LinkChanges ==
  ASSUME TypeOK, NEW h \in Handles, NEW state \in LinkState,
         link' = [link EXCEPT ![h] = state]
  PROVE  /\ link' \in Seq(LinkState) /\ Handles' = Handles
         /\ link'[h] = state
         /\ \A k \in Handles : k # h => link'[k] = link[k]
<1>1. Len(link) \in Nat /\ Handles = 1..Len(link) /\ link \in [Handles -> LinkState]
  BY Sizes
<1>2. link' \in [1..Len(link) -> LinkState]
  BY <1>1
<1>3. link' \in Seq(LinkState)
  BY <1>1, <1>2, FunctionIsSeq
<1> QED BY <1>1, <1>2, <1>3 DEF Handles

LEMMA LinksClose ==
  ASSUME TypeOK, NEW hs,
         link' = [h \in Handles |-> IF h \in hs THEN "closed" ELSE link[h]]
  PROVE  /\ link' \in Seq(LinkState) /\ Handles' = Handles
         /\ \A k \in Handles : link'[k] = IF k \in hs THEN "closed" ELSE link[k]
<1>1. Len(link) \in Nat /\ Handles = 1..Len(link) /\ link \in [Handles -> LinkState]
  BY Sizes
<1>2. link' \in [1..Len(link) -> LinkState]
  BY <1>1 DEF LinkState
<1>3. link' \in Seq(LinkState)
  BY <1>1, <1>2, FunctionIsSeq
<1> QED BY <1>1, <1>2, <1>3 DEF Handles

(* What Executes adds.                                                     *)
LEMMA ExecutesEffect ==
  ASSUME TypeOK, NEW o \in objects, NEW h \in Handles, NEW fate \in Fate,
         Executes(o, h, fate)
  PROVE  /\ TypeServer /\ UNCHANGED <<link, txn, belief>> => TypeServer'
         /\ db' \subseteq Stmts' /\ stmts' \in Seq(Stmt)
         /\ Len(stmts) + 1 \notin Stmts /\ Len(stmts) + 1 # 0
         /\ Stmts' = Stmts \cup {Len(stmts) + 1}
         /\ \A s \in Stmts : stmts'[s] = stmts[s]
         /\ stmts'[Len(stmts) + 1] = [request |-> requests, made |-> o.made, fate |-> fate]
         /\ pending' \in [Handles -> SUBSET Stmts']
<1>1. [request |-> requests, made |-> o.made, fate |-> fate] \in Stmt
  BY ObjectReaches DEF Stmt, TypeOK
<1>2. stmts' = Append(stmts, [request |-> requests, made |-> o.made, fate |-> fate])
  BY DEF Executes
<1>3. /\ stmts' \in Seq(Stmt)
      /\ Len(stmts) + 1 \notin Stmts /\ Len(stmts) + 1 # 0
      /\ Stmts' = Stmts \cup {Len(stmts) + 1}
      /\ \A s \in Stmts : stmts'[s] = stmts[s]
      /\ stmts'[Len(stmts) + 1] = [request |-> requests, made |-> o.made, fate |-> fate]
  BY <1>1, <1>2, StatementAdded
<1>4. db' \subseteq Stmts' /\ pending' \in [Handles -> SUBSET Stmts']
  <2>1. db \subseteq Stmts /\ pending \in [Handles -> SUBSET Stmts]
    BY DEF TypeOK
  <2> DEFINE n == Len(stmts) + 1
  <2>2. \/ /\ pending' = [pending EXCEPT ![h] = @ \cup {n}]
           /\ db' = db
        \/ /\ pending' = pending
           /\ db' = db \cup {n}
    BY DEF Executes
  <2>3. Stmts' = Stmts \cup {n}
    BY <1>3
  <2> HIDE DEF n
  <2>4. db' \subseteq Stmts \cup {n}
    BY <2>1, <2>2
  <2>5. pending' \in [Handles -> SUBSET (Stmts \cup {n})]
    BY <2>1, <2>2
  <2> QED BY <2>3, <2>4, <2>5
<1>5. TypeServer /\ UNCHANGED <<link, txn, belief>> => TypeServer'
  BY <1>4 DEF TypeServer, Handles
<1> QED BY <1>3, <1>4, <1>5

LEMMA TypeInit == Init => TypeOK
<1> SUFFICES ASSUME Init PROVE TypeOK
  OBVIOUS
<1>1. link \in Seq(LinkState) /\ Handles = {} /\ stmts \in Seq(Stmt) /\ Stmts = {}
  BY EmptySeq, LenProperties DEF Init, Handles, Stmts
<1>2. pending \in [Handles -> SUBSET Stmts]
  <2>1. pending \in Seq(SUBSET Stmts) /\ Len(pending) = 0
    BY EmptySeq DEF Init
  <2> QED BY <1>1, <2>1, LenProperties
<1>3. belief \in [Handles -> {"none", "open", "broken"}]
  <2>1. belief \in Seq({"none", "open", "broken"}) /\ Len(belief) = 0
    BY EmptySeq DEF Init
  <2> QED BY <1>1, <2>1, LenProperties
<1>4. TypeServer
  BY <1>1, <1>2, <1>3 DEF Init, TypeServer
<1>5. TypeTable
  BY DEF Init, TypeTable
<1>6. TypeStmts
  BY <1>1 DEF Init, TypeStmts
<1> QED BY <1>4, <1>5, <1>6, TypeParts

(* One step, action by action.                                             *)
LEMMA TypeStep == TypeOK /\ [Next]_vars => TypeOK'
<1> SUFFICES ASSUME TypeOK, [Next]_vars PROVE TypeTable' /\ TypeServer' /\ TypeStmts'
  BY DEF TypeOK, TypeTable, TypeServer, TypeStmts, LinkState, Stmt, Fate
<1>a. TypeTable /\ TypeServer /\ TypeStmts
  BY TypeParts
<1> USE DEF processVars, serverVars, history
<1>1. CASE Begin
  BY <1>1, <1>a DEF Begin, TypeTable, TypeServer, TypeStmts, Handles, Stmts, Stmt
<1>2. CASE End
  <2>1. /\ ServerEnds(InTable)
        /\ Conclude(Handles, "dropped", "none")
        /\ link' = [h \in Handles |-> IF h \in InTable THEN "closed" ELSE link[h]]
    BY <1>2 DEF End
  <2>2. /\ link' \in Seq(LinkState) /\ Handles' = Handles
        /\ txn' = txn \ InTable /\ pending' \in [Handles -> SUBSET Stmts]
        /\ stmts' \in Seq(Stmt) /\ Stmts' = Stmts
        /\ belief' \in [Handles -> {"none", "open", "broken"}]
    BY <2>1, LinksClose, ServerEndsEffect, ConcludeEffect DEF Fate
  <2> QED BY <1>a, <1>2, <2>2 DEF End, TypeTable, TypeServer, TypeStmts, Stmt
<1>3. CASE Crash
  <2>1. /\ ServerEnds(Handles)
        /\ Conclude(Handles, "dropped", "none")
        /\ link' = [h \in Handles |-> IF h \in Handles THEN "closed" ELSE link[h]]
    BY <1>3 DEF Crash
  <2>2. /\ link' \in Seq(LinkState) /\ Handles' = Handles
        /\ txn' = txn \ Handles /\ pending' \in [Handles -> SUBSET Stmts]
        /\ stmts' \in Seq(Stmt) /\ Stmts' = Stmts
        /\ belief' \in [Handles -> {"none", "open", "broken"}]
    BY <2>1, LinksClose, ServerEndsEffect, ConcludeEffect DEF Fate
  <2> QED BY <1>a, <1>3, <2>2 DEF Crash, TypeTable, TypeServer, TypeStmts, Stmt
<1>4. CASE Connect
  <2>1. NewHandle("open") /\ "open" \in LinkState
    BY <1>4 DEF Connect, LinkState
  <2>2. PICK slot \in Slot : /\ g_conns' = [g_conns EXCEPT ![slot] = Len(link) + 1]
                             /\ objects' = objects \cup {[id |-> slot, made |-> Len(link) + 1]}
    BY <1>4 DEF Connect, FindConnSlot
  <2> DEFINE n == Len(link) + 1
  <2>3. /\ Handles' = Handles \cup {n}
        /\ link' \in Seq(LinkState)
        /\ pending' \in [Handles' -> SUBSET Stmts]
        /\ belief' \in [Handles' -> {"none", "open", "broken"}]
    BY <2>1, NewHandleEffect
  <2>4. g_conns' = [g_conns EXCEPT ![slot] = n] /\ objects' = objects \cup {[id |-> slot, made |-> n]}
    BY <2>2
  <2>5. UNCHANGED <<phase, g_last, db, requests, stmts, strayed, txn>>
    BY <1>4 DEF Connect, NewHandle
  <2> HIDE DEF n
  <2>6. TypeTable'
    BY <1>a, <2>3, <2>4, <2>5 DEF TypeTable
  <2>7. TypeServer'
    BY <1>a, <2>3, <2>5 DEF TypeServer, Stmts
  <2>8. TypeStmts'
    <3>1. stmts \in Seq(Stmt') /\ Stmts' = Stmts
      <4>1. Stmt \subseteq Stmt'
        BY <2>3 DEF Stmt
      <4> QED BY <1>a, <2>5, <4>1, SeqMonotonic DEF TypeStmts, Stmts
    <3> QED BY <1>a, <2>5, <3>1 DEF TypeStmts
  <2> QED BY <2>6, <2>7, <2>8
<1>5. CASE ConnectFails
  <2>1. NewHandle("closed") /\ "closed" \in LinkState
    BY <1>5 DEF ConnectFails, LinkState
  <2> DEFINE n == Len(link) + 1
  <2>3. /\ Handles' = Handles \cup {n}
        /\ link' \in Seq(LinkState)
        /\ pending' \in [Handles' -> SUBSET Stmts]
        /\ belief' \in [Handles' -> {"none", "open", "broken"}]
    BY <2>1, NewHandleEffect
  <2>5. UNCHANGED <<processVars, db, requests, stmts, strayed, txn>>
    BY <1>5 DEF ConnectFails, NewHandle
  <2> HIDE DEF n
  <2>6. TypeTable'
    BY <1>a, <2>3, <2>5 DEF TypeTable
  <2>7. TypeServer'
    BY <1>a, <2>3, <2>5 DEF TypeServer, Stmts
  <2>8. TypeStmts'
    <3>1. stmts \in Seq(Stmt') /\ Stmts' = Stmts
      <4>1. Stmt \subseteq Stmt'
        BY <2>3 DEF Stmt
      <4> QED BY <1>a, <2>5, <4>1, SeqMonotonic DEF TypeStmts, Stmts
    <3> QED BY <1>a, <2>5, <3>1 DEF TypeStmts
  <2> QED BY <2>6, <2>7, <2>8
<1>6. ASSUME NEW h \in Handles, ServerGone(h) PROVE TypeTable' /\ TypeServer' /\ TypeStmts'
  <2>1. ServerEnds({h}) /\ link' = [link EXCEPT ![h] = "lost"] /\ "lost" \in LinkState
    BY <1>6 DEF ServerGone, LinkState
  <2>2. /\ link' \in Seq(LinkState) /\ Handles' = Handles
        /\ txn' = txn \ {h} /\ pending' \in [Handles -> SUBSET Stmts]
    BY <2>1, LinkChanges, ServerEndsEffect
  <2>3. UNCHANGED <<processVars, db, history>>
    BY <1>6 DEF ServerGone
  <2> QED BY <1>a, <2>2, <2>3 DEF TypeTable, TypeServer, TypeStmts, Stmts, Stmt
<1>7. ASSUME NEW o \in objects, Call(o) PROVE TypeTable' /\ TypeServer' /\ TypeStmts'
  <2>o. o.id \in Slot /\ o.made \in Handles
    BY ObjectReaches
  <2>c. ASSUME NEW hs, NEW fate \in Fate, NEW next \in {"none", "open", "broken"},
               Conclude(hs, fate, next), Handles' = Handles,
               UNCHANGED g_last, db' \subseteq Stmts
        PROVE  /\ TypeStmts' /\ Stmts' = Stmts
               /\ belief' \in [Handles' -> {"none", "open", "broken"}]
    BY <1>a, <2>c, ConcludeEffect DEF TypeStmts, Stmt
  <2>l. ASSUME NEW h \in Handles, NEW state \in LinkState, link' = [link EXCEPT ![h] = state]
        PROVE  link' \in Seq(LinkState) /\ Handles' = Handles
    BY <2>l, LinkChanges
  <2>k. UNCHANGED link => link' \in Seq(LinkState) /\ Handles' = Handles
    BY <1>a DEF TypeServer, Handles
  <2>f. "none" \in {"none", "open", "broken"} /\ "open" \in {"none", "open", "broken"}
        /\ "broken" \in {"none", "open", "broken"} /\ Fate = {"pending", "promised", "dropped", "unknown"}
        /\ LinkState = {"open", "unread", "lost", "closed"}
    BY DEF Fate, LinkState
  <2>p. \A h \in Handles : pending[h] \subseteq Stmts
    BY <1>a DEF TypeServer
  <2>d. db \subseteq Stmts
    BY <1>a DEF TypeStmts
  <2>u. Uses(o) => strayed' \in BOOLEAN
    BY <1>a DEF Uses, TypeTable
  <2>e. FateOf(o.made) \in Fate
    BY <1>a, <2>o DEF TypeServer, FateOf, Fate
  <2>h. g_conns[o.id] # NULL => g_conns[o.id] \in Handles
    BY ObjectReaches
  <2> DEFINE h == g_conns[o.id]
  <2>1. CASE Close(o)
    <3>1. /\ ServerEnds({h}) /\ Conclude({h}, "dropped", "none") /\ h \in Handles
          /\ link' = [link EXCEPT ![h] = "closed"]
          /\ g_conns' = [g_conns EXCEPT ![o.id] = NULL]
          /\ strayed' \in BOOLEAN
          /\ UNCHANGED <<phase, g_last, objects, db, requests>>
      BY <2>1, <2>h, <2>u DEF Close
    <3>2. link' \in Seq(LinkState) /\ Handles' = Handles
      BY <3>1, <2>l, <2>f
    <3>3. TypeStmts' /\ Stmts' = Stmts /\ belief' \in [Handles' -> {"none", "open", "broken"}]
      BY <3>1, <3>2, <2>c, <2>d, <2>f
    <3>4. TypeServer'
      BY <1>a, <3>1, <3>2, <3>3, ServerEndsEffect DEF TypeServer
    <3>5. TypeTable'
      BY <1>a, <2>o, <3>1, <3>2 DEF TypeTable
    <3> QED BY <3>3, <3>4, <3>5
  <2>2. CASE Exec(o)
    <3>1. /\ h \in Handles /\ Executes(o, h, FateOf(o.made)) /\ strayed' \in BOOLEAN
          /\ g_last' = [g_last EXCEPT ![o.id] = Len(stmts) + 1]
          /\ UNCHANGED <<phase, g_conns, objects, txn, requests, belief>>
      BY <2>2, <2>h, <2>u DEF Exec, Calls, GetConn
    <3>2. link' \in Seq(LinkState) /\ Handles' = Handles
      <4>1. PICK state \in {"open", "unread"} : link' = [link EXCEPT ![h] = state]
        BY <2>2 DEF Exec, GetConn
      <4> QED BY <3>1, <4>1, <2>l, <2>f
    <3>3. /\ db' \subseteq Stmts' /\ stmts' \in Seq(Stmt)
          /\ Stmts' = Stmts \cup {Len(stmts) + 1}
          /\ pending' \in [Handles -> SUBSET Stmts']
      BY <3>1, <2>e, ExecutesEffect
    <3>4. TypeServer'
      BY <1>a, <3>1, <3>2, <3>3 DEF TypeServer
    <3>5. TypeStmts'
      <4>1. g_last' \in [Slot -> {0} \cup Stmts']
        BY <1>a, <2>o, <3>1, <3>3 DEF TypeStmts
      <4> QED BY <4>1, <3>2, <3>3 DEF TypeStmts, Stmt
    <3>6. TypeTable'
      BY <1>a, <3>1, <3>2 DEF TypeTable
    <3> QED BY <3>4, <3>5, <3>6
  <2>3. CASE Query(o)
    <3>1. /\ h \in Handles /\ Executes(o, h, FateOf(o.made)) /\ strayed' \in BOOLEAN
          /\ UNCHANGED <<processVars, link, txn, requests, belief>>
      BY <2>3, <2>h, <2>u DEF Query, Calls, GetConn
    <3>2. link' \in Seq(LinkState) /\ Handles' = Handles
      BY <2>k, <3>1
    <3>3. /\ db' \subseteq Stmts' /\ stmts' \in Seq(Stmt)
          /\ Stmts' = Stmts \cup {Len(stmts) + 1}
          /\ pending' \in [Handles -> SUBSET Stmts']
      BY <3>1, <2>e, ExecutesEffect
    <3>4. TypeServer'
      BY <1>a, <3>1, <3>2, <3>3 DEF TypeServer
    <3>5. TypeStmts'
      <4>1. g_last' \in [Slot -> {0} \cup Stmts']
        BY <1>a, <3>1, <3>3 DEF TypeStmts
      <4> QED BY <4>1, <3>2, <3>3 DEF TypeStmts, Stmt
    <3>6. TypeTable'
      BY <1>a, <3>1, <3>2 DEF TypeTable
    <3> QED BY <3>4, <3>5, <3>6
  <2>4. CASE StatementLost(o)
    <3>1. /\ h \in Handles /\ strayed' \in BOOLEAN /\ ServerEnds({h})
          /\ stmts' = Append(stmts, [request |-> requests, made |-> o.made, fate |-> "unknown"])
          /\ db' \subseteq db \cup {Len(stmts) + 1}
          /\ link' = [link EXCEPT ![h] = "lost"]
          /\ UNCHANGED <<processVars, requests, belief>>
      BY <2>4, <2>h, <2>u DEF StatementLost, Calls, GetConn
    <3>2. link' \in Seq(LinkState) /\ Handles' = Handles
      BY <2>l, <2>f, <3>1
    <3>3. [request |-> requests, made |-> o.made, fate |-> "unknown"] \in Stmt
      BY <1>a, <2>o, <2>f DEF Stmt, TypeTable
    <3>4. stmts' \in Seq(Stmt) /\ Stmts' = Stmts \cup {Len(stmts) + 1}
      BY <3>1, <3>3, StatementAdded
    <3>5. pending' \in [Handles -> SUBSET Stmts] /\ txn' = txn \ {h}
      BY <3>1, ServerEndsEffect
    <3>6. TypeServer'
      BY <1>a, <3>1, <3>2, <3>4, <3>5 DEF TypeServer
    <3>7. TypeStmts'
      <4>1. g_last' \in [Slot -> {0} \cup Stmts'] /\ db' \subseteq Stmts'
        BY <1>a, <3>1, <3>4 DEF TypeStmts
      <4> QED BY <4>1, <3>2, <3>4 DEF TypeStmts, Stmt
    <3>8. TypeTable'
      BY <1>a, <3>1, <3>2 DEF TypeTable
    <3> QED BY <3>6, <3>7, <3>8
  <2>5. CASE StatementDeadlocks(o)
    <3>1. /\ ServerEnds({h}) /\ Conclude({o.made}, "unknown", "broken") /\ strayed' \in BOOLEAN
          /\ UNCHANGED <<processVars, link, db, requests>>
      BY <2>5, <2>u DEF StatementDeadlocks, Calls, GetConn
    <3>2. link' \in Seq(LinkState) /\ Handles' = Handles
      BY <2>k, <3>1
    <3>3. TypeStmts' /\ Stmts' = Stmts /\ belief' \in [Handles' -> {"none", "open", "broken"}]
      BY <3>1, <3>2, <2>c, <2>d, <2>f
    <3>4. TypeServer'
      BY <1>a, <3>1, <3>2, <3>3, ServerEndsEffect DEF TypeServer
    <3>5. TypeTable'
      BY <1>a, <3>1, <3>2 DEF TypeTable
    <3> QED BY <3>3, <3>4, <3>5
  <2>6. ASSUME BeginTransaction(o) \/ Commit(o)
        PROVE  TypeTable' /\ TypeServer' /\ TypeStmts'
    <3>1. /\ h \in Handles /\ strayed' \in BOOLEAN
          /\ db' = db \cup pending[h]
          /\ pending' = [pending EXCEPT ![h] = {}]
          /\ \/ txn' = txn \cup {h}
             \/ txn' = txn \ {h}
          /\ \/ Conclude({o.made}, "promised", "open")
             \/ Conclude({o.made}, "promised", "none")
          /\ UNCHANGED <<processVars, link, requests>>
      BY <2>6, <2>h, <2>u DEF BeginTransaction, Commit, Calls, GetConn
    <3>2. link' \in Seq(LinkState) /\ Handles' = Handles
      BY <2>k, <3>1
    <3>3. db' \subseteq Stmts
      BY <2>d, <2>p, <3>1
    <3>4. TypeStmts' /\ Stmts' = Stmts /\ belief' \in [Handles' -> {"none", "open", "broken"}]
      BY <3>1, <3>2, <3>3, <2>c, <2>f
    <3>5. pending' \in [Handles -> SUBSET Stmts] /\ txn' \subseteq Handles
      BY <1>a, <3>1 DEF TypeServer
    <3>6. TypeServer'
      BY <3>2, <3>4, <3>5 DEF TypeServer
    <3>7. TypeTable'
      BY <1>a, <3>1, <3>2 DEF TypeTable
    <3> QED BY <3>4, <3>6, <3>7
  <2>7. CASE CommitFails(o)
    <3>1. /\ h \in Handles /\ strayed' \in BOOLEAN
          /\ Conclude({o.made}, "unknown", "broken")
          /\ \/ UNCHANGED <<link, txn, pending, db>>
             \/ /\ link' = [link EXCEPT ![h] = "lost"]
                /\ db' \in {db, db \cup pending[h]}
                /\ ServerEnds({h})
          /\ UNCHANGED <<processVars, requests>>
      BY <2>7, <2>h, <2>u DEF CommitFails, CommitLost, Calls, GetConn
    <3>2. link' \in Seq(LinkState) /\ Handles' = Handles
      BY <2>k, <2>l, <2>f, <3>1
    <3>3. db' \subseteq Stmts
      BY <2>d, <2>p, <3>1
    <3>4. TypeStmts' /\ Stmts' = Stmts /\ belief' \in [Handles' -> {"none", "open", "broken"}]
      BY <3>1, <3>2, <3>3, <2>c, <2>f
    <3>5. pending' \in [Handles -> SUBSET Stmts] /\ txn' \subseteq Handles
      BY <1>a, <3>1, ServerEndsEffect DEF TypeServer
    <3>6. TypeServer'
      BY <3>2, <3>4, <3>5 DEF TypeServer
    <3>7. TypeTable'
      BY <1>a, <3>1, <3>2 DEF TypeTable
    <3> QED BY <3>4, <3>6, <3>7
  <2>8. CASE Rollback(o)
    <3>1. /\ ServerEnds({h}) /\ Conclude({o.made}, "dropped", "none") /\ strayed' \in BOOLEAN
          /\ UNCHANGED <<processVars, link, db, requests>>
      BY <2>8, <2>u DEF Rollback, Calls, GetConn
    <3>2. link' \in Seq(LinkState) /\ Handles' = Handles
      BY <2>k, <3>1
    <3>3. TypeStmts' /\ Stmts' = Stmts /\ belief' \in [Handles' -> {"none", "open", "broken"}]
      BY <3>1, <3>2, <2>c, <2>d, <2>f
    <3>4. TypeServer'
      BY <1>a, <3>1, <3>2, <3>3, ServerEndsEffect DEF TypeServer
    <3>5. TypeTable'
      BY <1>a, <3>1, <3>2 DEF TypeTable
    <3> QED BY <3>3, <3>4, <3>5
  <2>9. CASE CommandFails(o)
    <3>1. /\ Conclude({o.made}, "unknown", "broken") /\ strayed' \in BOOLEAN
          /\ UNCHANGED <<processVars, link, serverVars, requests>>
      BY <2>9, <2>u DEF CommandFails, Calls
    <3>2. link' \in Seq(LinkState) /\ Handles' = Handles
      BY <2>k, <3>1
    <3>3. TypeStmts' /\ Stmts' = Stmts /\ belief' \in [Handles' -> {"none", "open", "broken"}]
      BY <3>1, <3>2, <2>c, <2>d, <2>f
    <3>4. TypeServer'
      BY <1>a, <3>1, <3>2, <3>3 DEF TypeServer
    <3>5. TypeTable'
      BY <1>a, <3>1, <3>2 DEF TypeTable
    <3> QED BY <3>3, <3>4, <3>5
  <2> QED BY <1>7, <2>1, <2>2, <2>3, <2>4, <2>5, <2>6, <2>7, <2>8, <2>9 DEF Call
<1>8. CASE UNCHANGED vars
  BY <1>8, <1>a DEF vars, TypeTable, TypeServer, TypeStmts, Handles, Stmts, Stmt
<1> QED BY <1>1, <1>2, <1>3, <1>4, <1>5, <1>6, <1>7, <1>8 DEF Next

(* Type correctness: the table holds handles, the counters statements, and *)
(* the server keeps what connections have written.                         *)
THEOREM TypeCorrect == Spec => []TypeOK
BY TypeInit, TypeStep, PTL DEF Spec

-----------------------------------------------------------------------------
(* The table.  A connection that is not closed has one slot, a slot that   *)
(* is taken a connection that is not closed, and an idle process no slot.  *)
OneSlot == \A i, j \in Slot : g_conns[i] # NULL /\ g_conns[i] = g_conns[j] => i = j
SlotsLive == \A i \in Slot : g_conns[i] # NULL => link[g_conns[i]] # "closed"
AllHeld == \A h \in Handles : link[h] # "closed" => \E i \in Slot : g_conns[i] = h
IdleEmpty == phase = "idle" => \A i \in Slot : g_conns[i] = NULL

TableInv == OneSlot /\ SlotsLive /\ AllHeld /\ IdleEmpty /\ LiveObjectsOwn

(* What does not touch the table and closes nothing keeps all of it.       *)
LEMMA TableQuiet ==
  ASSUME TypeOK, TableInv, UNCHANGED <<phase, g_conns, objects>>, Handles' = Handles,
         \A h \in Handles : link'[h] = "closed" <=> link[h] = "closed"
  PROVE  TableInv'
<1>1. /\ \A i \in Slot : g_conns[i] # NULL => g_conns[i] \in Handles
      /\ \A o \in objects : o.made \in Handles
  BY DEF TypeOK
<1> QED BY <1>1 DEF TableInv, OneSlot, SlotsLive, AllHeld, IdleEmpty, LiveObjectsOwn

(* A handle the process has just made.                                     *)
LEMMA TableGrows ==
  ASSUME TypeOK, TableInv, UNCHANGED <<phase, g_conns, objects>>, NewHandle("closed")
  PROVE  TableInv'
<1>1. /\ \A i \in Slot : g_conns[i] # NULL => g_conns[i] \in Handles
      /\ \A o \in objects : o.made \in Handles
  BY DEF TypeOK
<1>2. /\ Handles' = Handles \cup {Len(link) + 1}
      /\ \A h \in Handles : link'[h] = link[h]
      /\ link'[Len(link) + 1] = "closed"
  BY NewHandleEffect DEF LinkState
<1> QED BY <1>1, <1>2 DEF TableInv, OneSlot, SlotsLive, AllHeld, IdleEmpty, LiveObjectsOwn

LEMMA TableStep == TypeOK /\ TableInv /\ [Next]_vars => TableInv'
<1> SUFFICES ASSUME TypeOK, TableInv, [Next]_vars PROVE TableInv'
  OBVIOUS
<1> USE DEF processVars, serverVars, history
<1>t. /\ \A i \in Slot : g_conns[i] # NULL => g_conns[i] \in Handles
      /\ \A o \in objects : o.id \in Slot /\ o.made \in Handles
      /\ g_conns \in [Slot -> {NULL} \cup Handles]
  BY DEF TypeOK
<1>d. DOMAIN link = Handles
  BY DEF Handles
<1>1. CASE Begin
  <2>1. /\ UNCHANGED link /\ Handles' = Handles /\ objects' = {}
        /\ phase' = "script" /\ phase = "idle"
        /\ g_conns' = [i \in Slot |-> NULL]
    BY <1>1 DEF Begin, Handles
  <2>2. \A h \in Handles : link[h] = "closed"
    BY <1>t, <2>1, Sizes DEF TableInv, AllHeld, IdleEmpty, NULL
  <2> QED BY <2>1, <2>2 DEF TableInv, OneSlot, SlotsLive, AllHeld, IdleEmpty, LiveObjectsOwn
<1>2. CASE End
  <2>1. /\ Handles' = Handles /\ objects' = {} /\ g_conns' = [i \in Slot |-> NULL]
        /\ \A h \in Handles : link'[h] = IF h \in InTable THEN "closed" ELSE link[h]
    BY <1>2, LinksClose DEF End
  <2>2. \A h \in Handles : link[h] # "closed" => h \in InTable
    BY <1>t, Sizes DEF TableInv, AllHeld, InTable, NULL
  <2> QED BY <2>1, <2>2 DEF TableInv, OneSlot, SlotsLive, AllHeld, IdleEmpty, LiveObjectsOwn
<1>3. CASE Crash
  <2>0. link' = [h \in Handles |-> IF h \in Handles THEN "closed" ELSE link[h]]
    BY <1>3 DEF Crash
  <2>1. /\ Handles' = Handles /\ objects' = {} /\ g_conns' = [i \in Slot |-> NULL]
        /\ \A h \in Handles : link'[h] = "closed"
    BY <1>3, <2>0, LinksClose DEF Crash
  <2> QED BY <2>1 DEF TableInv, OneSlot, SlotsLive, AllHeld, IdleEmpty, LiveObjectsOwn
<1>4. CASE Connect
  <2>1. NewHandle("open") /\ "open" \in LinkState /\ phase' = phase /\ phase = "script"
    BY <1>4 DEF Connect, LinkState
  <2>2. PICK slot \in Slot : /\ g_conns[slot] = NULL
                             /\ g_conns' = [g_conns EXCEPT ![slot] = Len(link) + 1]
                             /\ objects' = objects \cup {[id |-> slot, made |-> Len(link) + 1]}
    BY <1>4 DEF Connect, FindConnSlot
  <2> DEFINE n == Len(link) + 1
  <2>3. /\ n \notin Handles /\ n # NULL
        /\ Handles' = Handles \cup {n}
        /\ \A h \in Handles : link'[h] = link[h]
        /\ link'[n] = "open"
    BY <2>1, NewHandleEffect
  <2>4. \A i \in Slot : g_conns'[i] = IF i = slot THEN n ELSE g_conns[i]
    BY <1>t, <2>2
  <2>5. \A o \in objects' : o \in objects \/ (o.id = slot /\ o.made = n)
    BY <2>2
  <2> HIDE DEF n
  <2>6. OneSlot'
    BY <1>t, <2>3, <2>4 DEF TableInv, OneSlot
  <2>7. SlotsLive'
    BY <1>t, <2>3, <2>4 DEF TableInv, SlotsLive
  <2>8. AllHeld'
    <3>1. \A h \in Handles : link[h] # "closed" =>
            \E i \in Slot \ {slot} : g_conns[i] = h
      BY <1>t, <2>2, Sizes DEF TableInv, AllHeld, NULL
    <3> QED BY <2>3, <2>4, <3>1 DEF AllHeld
  <2>9. LiveObjectsOwn'
    <3>1. \A o \in objects : link[o.made] # "closed" => o.id # slot
      BY <1>t, <2>2, Sizes DEF TableInv, LiveObjectsOwn, NULL
    <3> QED BY <1>t, <2>3, <2>4, <2>5, <3>1 DEF TableInv, LiveObjectsOwn
  <2> QED BY <2>1, <2>6, <2>7, <2>8, <2>9 DEF TableInv, IdleEmpty
<1>5. CASE ConnectFails
  BY <1>5, TableGrows DEF ConnectFails
<1>6. ASSUME NEW h \in Handles, ServerGone(h) PROVE TableInv'
  BY <1>6, LinkChanges, TableQuiet DEF ServerGone, LinkState
<1>7. ASSUME NEW o \in objects, Call(o) PROVE TableInv'
  <2> DEFINE h == g_conns[o.id]
  <2>1. CASE Close(o)
    <3>1. /\ h \in Handles /\ o.id \in Slot
          /\ link' = [link EXCEPT ![h] = "closed"]
          /\ g_conns' = [g_conns EXCEPT ![o.id] = NULL]
          /\ UNCHANGED <<phase, objects>>
      BY <1>t, <2>1 DEF Close
    <3>2. /\ Handles' = Handles /\ link'[h] = "closed"
          /\ \A k \in Handles : k # h => link'[k] = link[k]
      BY <3>1, LinkChanges DEF LinkState
    <3>3. \A i \in Slot : g_conns'[i] = IF i = o.id THEN NULL ELSE g_conns[i]
      BY <1>t, <3>1
    <3>4. \A i \in Slot : i # o.id => g_conns[i] # h
      BY <1>t, <3>1, <2>1 DEF TableInv, OneSlot, Close
    <3> HIDE DEF h
    <3>5. OneSlot' /\ SlotsLive' /\ IdleEmpty'
      BY <1>t, <3>1, <3>2, <3>3, <3>4 DEF TableInv, OneSlot, SlotsLive, IdleEmpty
    <3>6. AllHeld'
      <4>1. ASSUME NEW k \in Handles, link'[k] # "closed" PROVE \E i \in Slot : g_conns'[i] = k
        <5>1. k # h /\ link[k] # "closed"
          BY <3>2, <4>1
        <5>2. PICK i \in Slot : g_conns[i] = k
          BY <5>1 DEF TableInv, AllHeld
        <5>3. i # o.id
          BY <5>1, <5>2 DEF h
        <5> QED BY <3>3, <5>2, <5>3
      <4> QED BY <3>2, <4>1 DEF AllHeld
    <3>7. LiveObjectsOwn'
      <4>1. ASSUME NEW q \in objects, link'[q.made] # "closed" PROVE g_conns'[q.id] = q.made
        <5>1. q.made # h /\ link[q.made] # "closed" /\ q.id \in Slot
          BY <1>t, <3>2, <4>1
        <5>2. g_conns[q.id] = q.made
          BY <5>1 DEF TableInv, LiveObjectsOwn
        <5>3. q.id # o.id
          BY <5>1, <5>2 DEF h
        <5> QED BY <3>3, <5>1, <5>2, <5>3
      <4> QED BY <3>1, <4>1 DEF LiveObjectsOwn
    <3> QED BY <3>5, <3>6, <3>7 DEF TableInv
  <2>2. ASSUME Exec(o) \/ StatementLost(o) \/ CommitFails(o) PROVE TableInv'
    <3>1. UNCHANGED <<phase, g_conns, objects>> /\ h \in Handles
      BY <1>t, <2>2 DEF Exec, StatementLost, CommitFails, CommitLost, Calls, GetConn
    <3>2. \/ UNCHANGED link
          \/ /\ link[h] = "open"
             /\ \E state \in {"open", "unread", "lost"} : link' = [link EXCEPT ![h] = state]
      BY <2>2 DEF Exec, StatementLost, CommitFails, CommitLost, GetConn
    <3>3. CASE UNCHANGED link
      BY <3>1, <3>3, TableQuiet DEF Handles
    <3>4. ASSUME NEW state \in {"open", "unread", "lost"}, link[h] = "open",
                 link' = [link EXCEPT ![h] = state]
          PROVE  TableInv'
      BY <3>1, <3>4, LinkChanges, TableQuiet DEF LinkState
    <3> QED BY <3>2, <3>3, <3>4
  <2>3. ASSUME \/ Query(o) \/ StatementDeadlocks(o) \/ BeginTransaction(o) \/ Commit(o)
               \/ Rollback(o) \/ CommandFails(o)
        PROVE  TableInv'
    <3>1. UNCHANGED <<phase, g_conns, objects, link>>
      BY <2>3 DEF Query, StatementDeadlocks, BeginTransaction, Commit, Rollback, CommandFails
    <3> QED BY <3>1, TableQuiet DEF Handles
  <2> QED BY <1>7, <2>1, <2>2, <2>3 DEF Call
<1>8. CASE UNCHANGED vars
  BY <1>8, TableQuiet DEF vars, Handles
<1> QED BY <1>1, <1>2, <1>3, <1>4, <1>5, <1>6, <1>7, <1>8 DEF Next

LEMMA TableInit == Init => TableInv
<1> SUFFICES ASSUME Init PROVE TableInv
  OBVIOUS
<1>1. Handles = {}
  BY EmptySeq, LenProperties DEF Init, Handles
<1> QED BY <1>1 DEF Init, TableInv, OneSlot, SlotsLive, AllHeld, IdleEmpty, LiveObjectsOwn

(* Until it is closed, an object reaches the connection it was made for,   *)
(* whatever else the scripts of the process connect and close.             *)
THEOREM ObjectsCorrect == Spec => []LiveObjectsOwn
<1>1. TableInv => LiveObjectsOwn
  BY DEF TableInv
<1> QED BY <1>1, TypeInit, TypeStep, TableInit, TableStep, PTL DEF Spec

(* A process between two requests holds no connection.                     *)
THEOREM NothingHeld == Spec => []NoConnectionLeft
<1>1. TypeOK /\ TableInv => NoConnectionLeft
  <2> SUFFICES ASSUME TypeOK, TableInv, phase = "idle", NEW h \in Handles
               PROVE  link[h] = "closed"
    BY DEF NoConnectionLeft
  <2> QED BY Sizes DEF TableInv, AllHeld, IdleEmpty, NULL
<1> QED BY <1>1, TypeInit, TypeStep, TableInit, TableStep, PTL DEF Spec

-----------------------------------------------------------------------------
(* No counter is left over from an earlier request.                        *)
LEMMA CountersStep == TypeOK /\ CountersOwnRequest /\ [Next]_vars => CountersOwnRequest'
<1> SUFFICES ASSUME TypeOK, CountersOwnRequest, [Next]_vars, phase' = "script"
             PROVE  \A i \in Slot : g_last'[i] # 0 => stmts'[g_last'[i]].request = requests'
  BY DEF CountersOwnRequest
<1> USE DEF processVars, serverVars, history
<1>t. g_last \in [Slot -> {0} \cup Stmts]
  BY DEF TypeOK
<1>q. ASSUME UNCHANGED <<phase, g_last, requests>>,
             \A s \in Stmts : stmts'[s].request = stmts[s].request
      PROVE  \A i \in Slot : g_last'[i] # 0 => stmts'[g_last'[i]].request = requests'
  BY <1>t, <1>q DEF CountersOwnRequest
<1>1. CASE Begin
  BY <1>1 DEF Begin
<1>2. CASE End \/ Crash
  BY <1>2 DEF End, Crash
<1>3. CASE Connect \/ ConnectFails \/ (\E h \in Handles : ServerGone(h))
  BY <1>3, <1>q DEF Connect, ConnectFails, ServerGone
<1>4. ASSUME NEW o \in objects, Call(o)
      PROVE  \A i \in Slot : g_last'[i] # 0 => stmts'[g_last'[i]].request = requests'
  <2>1. CASE Exec(o)
    <3>1. /\ phase = "script" /\ requests' = requests /\ g_conns[o.id] \in Handles
          /\ Executes(o, g_conns[o.id], FateOf(o.made)) /\ FateOf(o.made) \in Fate
          /\ g_last' = [g_last EXCEPT ![o.id] = Len(stmts) + 1]
      <4>1. FateOf(o.made) \in Fate
        BY ObjectReaches DEF TypeOK, FateOf, Fate
      <4> QED BY <2>1, <4>1, ObjectReaches DEF Exec, Calls, GetConn
    <3>2. /\ \A s \in Stmts : stmts'[s] = stmts[s]
          /\ stmts'[Len(stmts) + 1] =
               [request |-> requests, made |-> o.made, fate |-> FateOf(o.made)]
      BY <3>1, ExecutesEffect
    <3>3. TAKE i \in Slot
    <3>4. g_last'[i] = IF i = o.id THEN Len(stmts) + 1 ELSE g_last[i]
      BY <1>t, <3>1
    <3> QED BY <1>t, <3>1, <3>2, <3>4 DEF CountersOwnRequest
  <2>2. CASE Query(o)
    <3>1. g_conns[o.id] \in Handles /\ FateOf(o.made) \in Fate
      <4>1. FateOf(o.made) \in Fate
        BY ObjectReaches DEF TypeOK, FateOf, Fate
      <4> QED BY <2>2, <4>1, ObjectReaches DEF Query, Calls, GetConn
    <3>2. \A s \in Stmts : stmts'[s] = stmts[s]
      BY <2>2, <3>1, ExecutesEffect DEF Query, GetConn
    <3> QED BY <1>q, <2>2, <3>2 DEF Query
  <2>3. CASE StatementLost(o)
    <3>1. [request |-> requests, made |-> o.made, fate |-> "unknown"] \in Stmt
      BY ObjectReaches DEF Stmt, Fate, TypeOK
    <3>2. \A s \in Stmts : stmts'[s] = stmts[s]
      BY <2>3, <3>1, StatementAdded DEF StatementLost
    <3> QED BY <1>q, <2>3, <3>2 DEF StatementLost
  <2>4. ASSUME NEW hs, NEW fate \in Fate, NEW next \in {"none", "open", "broken"},
               Conclude(hs, fate, next), UNCHANGED <<phase, g_last, requests>>
        PROVE  \A i \in Slot : g_last'[i] # 0 => stmts'[g_last'[i]].request = requests'
    BY <1>q, <2>4, ConcludeEffect
  <2>5. CASE \/ Close(o) \/ StatementDeadlocks(o) \/ BeginTransaction(o) \/ Commit(o)
             \/ CommitFails(o) \/ Rollback(o) \/ CommandFails(o)
    BY <2>4, <2>5 DEF Close, StatementDeadlocks, BeginTransaction, Commit, CommitFails,
                      CommitLost, Rollback, CommandFails, Fate
  <2> QED BY <1>4, <2>1, <2>2, <2>3, <2>5 DEF Call
<1>5. CASE UNCHANGED vars
  BY <1>q, <1>5 DEF vars
<1> QED BY <1>1, <1>2, <1>3, <1>4, <1>5 DEF Next

(* What lastInsertId and changes tell is of a statement of this request.   *)
THEOREM CountersCorrect == Spec => []CountersOwnRequest
<1>1. Init => CountersOwnRequest
  BY DEF Init, CountersOwnRequest
<1> QED BY <1>1, TypeInit, TypeStep, CountersStep, PTL DEF Spec

-----------------------------------------------------------------------------
(* The transactions.  The server keeps writes apart only for an open       *)
(* transaction of a connection it still has.                               *)
ServerInv ==
  \A h \in Handles : /\ link[h] \in {"lost", "closed"} => h \notin txn
                     /\ h \notin txn => pending[h] = {}

(* What the script believes of an open connection is so.                   *)
Aware ==
  \A h \in Handles : link[h] = "open" => /\ belief[h] = "open" => h \in txn
                                         /\ belief[h] = "none" => h \notin txn

(* What is kept apart is of that connection, and nothing was told of it.   *)
PendingOwn ==
  \A h \in Handles : \A s \in pending[h] : /\ stmts[s].made = h
                                           /\ s \notin db
                                           /\ stmts[s].fate \in {"pending", "unknown"}

(* What awaits its commit is kept apart, or was lost with the connection.  *)
PendingKept ==
  \A s \in Stmts : stmts[s].fate = "pending" =>
    /\ s \notin db
    /\ link[stmts[s].made] \in {"open", "unread"} => s \in pending[stmts[s].made]

Told ==
  \A s \in Stmts : /\ stmts[s].fate = "promised" => s \in db
                   /\ stmts[s].fate = "dropped" => s \notin db

FateInv == Aware /\ PendingOwn /\ PendingKept /\ Told

TransInv == ServerInv /\ (~strayed => FateInv)

LEMMA ServerStep == TypeOK /\ ServerInv /\ [Next]_vars => ServerInv'
<1> SUFFICES ASSUME TypeOK, ServerInv, [Next]_vars PROVE ServerInv'
  OBVIOUS
<1> USE DEF processVars, serverVars, history
<1>t. txn \subseteq Handles /\ pending \in [Handles -> SUBSET Stmts]
  BY DEF TypeOK
<1>q. UNCHANGED <<link, txn, pending>> => ServerInv'
  BY DEF ServerInv, Handles
<1>e. ASSUME NEW h \in Handles, NEW state \in LinkState, ServerEnds({h}),
             link' = [link EXCEPT ![h] = state]
      PROVE  ServerInv'
  <2>1. /\ Handles' = Handles
        /\ \A k \in Handles : k # h => link'[k] = link[k]
    BY <1>e, LinkChanges
  <2>2. /\ txn' = txn \ {h}
        /\ \A k \in Handles : pending'[k] = IF k = h THEN {} ELSE pending[k]
    BY <1>e, ServerEndsEffect
  <2> QED BY <2>1, <2>2 DEF ServerInv
<1>1. CASE Begin
  BY <1>1, <1>q DEF Begin
<1>2. CASE End
  <2>1. /\ Handles' = Handles
        /\ \A h \in Handles : link'[h] = IF h \in InTable THEN "closed" ELSE link[h]
        /\ txn' = txn \ InTable
        /\ \A h \in Handles : pending'[h] = IF h \in InTable THEN {} ELSE pending[h]
    BY <1>2, LinksClose, ServerEndsEffect DEF End
  <2> QED BY <2>1 DEF ServerInv
<1>3. CASE Crash
  <2>1. Handles' = Handles
    <3>1. link' = [h \in Handles |-> IF h \in Handles THEN "closed" ELSE link[h]]
      BY <1>3 DEF Crash
    <3> QED BY <3>1, LinksClose
  <2>2. txn' = txn \ Handles /\ \A h \in Handles : pending'[h] = {}
    BY <1>3, ServerEndsEffect DEF Crash
  <2> QED BY <2>1, <2>2 DEF ServerInv
<1>4. ASSUME NEW state \in LinkState, NewHandle(state) PROVE ServerInv'
  <2>1. /\ Handles' = Handles \cup {Len(link) + 1} /\ Len(link) + 1 \notin Handles
        /\ txn' = txn
        /\ pending'[Len(link) + 1] = {}
        /\ \A h \in Handles : link'[h] = link[h] /\ pending'[h] = pending[h]
    BY <1>4, NewHandleEffect DEF NewHandle
  <2> QED BY <1>t, <2>1 DEF ServerInv
<1>5. CASE Connect \/ ConnectFails
  BY <1>4, <1>5 DEF Connect, ConnectFails, LinkState
<1>6. ASSUME NEW h \in Handles, ServerGone(h) PROVE ServerInv'
  BY <1>6, <1>e DEF ServerGone, LinkState
<1>7. ASSUME NEW o \in objects, Call(o) PROVE ServerInv'
  <2> DEFINE h == g_conns[o.id]
  <2>h. Close(o) \/ Calls(o) => h \in Handles
    BY ObjectReaches DEF Close, Calls, GetConn
  <2>s. UNCHANGED link => Handles' = Handles
    BY DEF Handles
  <2>1. CASE Close(o)
    BY <2>1, <2>h, <1>e DEF Close, LinkState
  <2>2. CASE Exec(o) \/ Query(o)
    <3>1. /\ h \in Handles /\ link[h] = "open" /\ txn' = txn
          /\ h \notin txn => pending' = pending
          /\ \A k \in Handles : k # h => pending'[k] = pending[k]
      BY <1>t, <2>2, <2>h DEF Exec, Query, Executes, Calls, GetConn
    <3>2. /\ Handles' = Handles
          /\ \A k \in Handles : k # h => link'[k] = link[k]
          /\ link'[h] \in {"open", "unread"}
      <4>1. ASSUME NEW state \in {"open", "unread"}, link' = [link EXCEPT ![h] = state]
            PROVE  /\ Handles' = Handles
                   /\ \A k \in Handles : k # h => link'[k] = link[k]
                   /\ link'[h] \in {"open", "unread"}
        BY <3>1, <4>1, LinkChanges DEF LinkState
      <4> QED BY <2>2, <2>s, <3>1, <4>1 DEF Exec, Query, GetConn
    <3> HIDE DEF h
    <3> QED BY <3>1, <3>2 DEF ServerInv
  <2>3. CASE StatementLost(o)
    BY <2>3, <2>h, <1>e DEF StatementLost, LinkState, Calls, GetConn
  <2>4. CASE StatementDeadlocks(o) \/ Rollback(o)
    BY <2>4, <2>s, ServerEndsEffect DEF StatementDeadlocks, Rollback, ServerInv
  <2>5. CASE BeginTransaction(o) \/ Commit(o)
    <3>1. /\ h \in Handles /\ link[h] = "open" /\ UNCHANGED link /\ Handles' = Handles
          /\ pending' = [pending EXCEPT ![h] = {}]
          /\ txn' = txn \cup {h} \/ txn' = txn \ {h}
      BY <2>5, <2>h, <2>s DEF BeginTransaction, Commit, Calls, GetConn
    <3>2. \A k \in Handles : pending'[k] = IF k = h THEN {} ELSE pending[k]
      BY <1>t, <3>1
    <3> HIDE DEF h
    <3> QED BY <3>1, <3>2 DEF ServerInv
  <2>6. CASE CommitFails(o)
    BY <2>6, <2>h, <1>e, <1>q DEF CommitFails, CommitLost, LinkState, Calls, GetConn
  <2>7. CASE CommandFails(o)
    BY <2>7, <1>q DEF CommandFails
  <2> QED BY <1>7, <2>1, <2>2, <2>3, <2>4, <2>5, <2>6, <2>7 DEF Call
<1>8. CASE UNCHANGED vars
  BY <1>8, <1>q DEF vars
<1> QED BY <1>1, <1>2, <1>3, <1>5, <1>6, <1>7, <1>8 DEF Next

(* The end of connections hs, of which the script hears, or not.           *)
LEMMA FateEnds ==
  ASSUME TypeOK, ServerInv, FateInv, NEW hs, NEW fate \in {"dropped", "unknown"},
         NEW next \in {"none", "broken"},
         Handles' = Handles, UNCHANGED db,
         \A h \in Handles : link'[h] = "open" => link[h] = "open",
         \A h \in Handles \ hs : link'[h] \in {"open", "unread"} => link[h] \in {"open", "unread"},
         ServerEnds(hs), Conclude(hs, fate, next)
  PROVE  FateInv'
<1>1. /\ txn' = txn \ hs
      /\ \A h \in Handles : pending'[h] = IF h \in hs THEN {} ELSE pending[h]
      /\ pending \in [Handles -> SUBSET Stmts]
  BY ServerEndsEffect DEF TypeOK
<1>2. /\ Stmts' = Stmts
      /\ \A s \in Stmts :
           /\ stmts'[s].made = stmts[s].made
           /\ stmts[s].made \in hs /\ stmts[s].fate = "pending" => stmts'[s].fate = fate
           /\ ~(stmts[s].made \in hs /\ stmts[s].fate = "pending")
                => stmts'[s].fate = stmts[s].fate
      /\ \A h \in Handles : belief'[h] = IF h \in hs THEN next ELSE belief[h]
  BY ConcludeEffect DEF Fate
<1>3. \A s \in Stmts : stmts[s].made \in Handles
  BY Sizes DEF Stmt
<1>4. Aware'
  BY <1>1, <1>2 DEF FateInv, Aware
<1>5. PendingOwn'
  <2>1. ASSUME NEW h \in Handles, NEW s \in pending'[h]
        PROVE  /\ stmts'[s].made = h
               /\ s \notin db
               /\ stmts'[s].fate \in {"pending", "unknown"}
    <3>1. h \notin hs /\ s \in pending[h] /\ s \in Stmts
      BY <1>1, <2>1
    <3>2. stmts[s].made = h /\ s \notin db /\ stmts[s].fate \in {"pending", "unknown"}
      BY <3>1 DEF FateInv, PendingOwn
    <3> QED BY <1>2, <3>1, <3>2
  <2> QED BY <2>1 DEF PendingOwn
<1>6. PendingKept'
  BY <1>1, <1>2, <1>3 DEF FateInv, PendingKept
<1>7. Told'
  BY <1>2 DEF FateInv, Told, PendingKept
<1> QED BY <1>4, <1>5, <1>6, <1>7 DEF FateInv

(* A statement is executed on the connection h of the object o.            *)
LEMMA FateExecutes ==
  ASSUME TypeOK, ServerInv, FateInv, NEW o \in objects, NEW h \in Handles,
         o.made = h, link[h] = "open", Executes(o, h, FateOf(h)),
         Handles' = Handles, UNCHANGED <<txn, belief>>,
         \A k \in Handles : k # h => link'[k] = link[k],
         link'[h] \in {"open", "unread"}
  PROVE  FateInv'
<1> DEFINE n == Len(stmts) + 1
<1>1. FateOf(h) \in Fate /\ pending \in [Handles -> SUBSET Stmts]
  BY DEF TypeOK, FateOf, Fate
<1>2. /\ n \notin Stmts /\ Stmts' = Stmts \cup {n}
      /\ \A s \in Stmts : stmts'[s] = stmts[s]
      /\ stmts'[n] = [request |-> requests, made |-> o.made, fate |-> FateOf(h)]
  BY <1>1, ExecutesEffect
<1>3. stmts'[n].made = h /\ stmts'[n].fate = FateOf(h)
  BY <1>2
<1>4. /\ h \in txn => /\ pending' = [pending EXCEPT ![h] = @ \cup {n}]
                      /\ db' = db
      /\ h \notin txn => db' = db \cup {n} /\ pending' = pending
  BY DEF Executes
<1>5. /\ belief[h] = "open" => h \in txn /\ FateOf(h) = "pending"
      /\ belief[h] = "none" => h \notin txn /\ FateOf(h) = "promised"
      /\ belief[h] = "broken" => FateOf(h) = "unknown"
      /\ belief[h] \in {"open", "none", "broken"}
  BY DEF FateInv, Aware, FateOf, TypeOK
<1>6. n \notin db /\ (\A s \in Stmts : stmts[s].made \in Handles)
      /\ \A k \in Handles : pending[k] \subseteq Stmts
  BY <1>1, <1>2, Sizes DEF TypeOK, Stmt
<1> HIDE DEF n
<1>7. Aware'
  BY DEF FateInv, Aware
<1>8. PendingOwn'
  <2>1. ASSUME NEW k \in Handles, NEW s \in pending'[k]
        PROVE  stmts'[s].made = k /\ s \notin db' /\ stmts'[s].fate \in {"pending", "unknown"}
    <3>1. CASE s \in pending[k]
      <4>1. s \in Stmts /\ s # n
        BY <1>2, <1>6, <3>1
      <4> QED BY <1>2, <1>4, <3>1, <4>1 DEF FateInv, PendingOwn
    <3>2. CASE s \notin pending[k]
      <4>1. k = h /\ s = n /\ h \in txn /\ db' = db
        BY <1>1, <1>4, <2>1, <3>2
      <4> QED BY <1>3, <1>5, <1>6, <4>1
    <3> QED BY <3>1, <3>2
  <2> QED BY <2>1 DEF PendingOwn
<1>9. PendingKept'
  <2>1. ASSUME NEW s \in Stmts', stmts'[s].fate = "pending"
        PROVE  /\ s \notin db'
               /\ link'[stmts'[s].made] \in {"open", "unread"} => s \in pending'[stmts'[s].made]
    <3>1. CASE s = n
      BY <1>1, <1>3, <1>4, <1>5, <1>6, <2>1, <3>1
    <3>2. CASE s # n
      <4>1. /\ s \in Stmts /\ stmts'[s] = stmts[s] /\ stmts[s].made \in Handles
            /\ s \notin db
            /\ link[stmts[s].made] \in {"open", "unread"} => s \in pending[stmts[s].made]
        BY <1>2, <1>6, <2>1, <3>2 DEF FateInv, PendingKept
      <4>2. \A k \in Handles : pending[k] \subseteq pending'[k]
        BY <1>1, <1>4
      <4>3. s \notin db'
        BY <1>4, <3>2, <4>1
      <4> QED BY <4>1, <4>2, <4>3
    <3> QED BY <3>1, <3>2
  <2> QED BY <2>1 DEF PendingKept
<1>10. Told'
  <2>1. ASSUME NEW s \in Stmts'
        PROVE  /\ stmts'[s].fate = "promised" => s \in db'
               /\ stmts'[s].fate = "dropped" => s \notin db'
    <3>1. CASE s = n
      BY <1>3, <1>4, <1>5, <3>1
    <3>2. CASE s # n
      BY <1>2, <1>4, <2>1, <3>2 DEF FateInv, Told
    <3> QED BY <3>1, <3>2
  <2> QED BY <2>1 DEF Told
<1> QED BY <1>7, <1>8, <1>9, <1>10 DEF FateInv

(* The server commits what is kept apart on h, and the object hears of it. *)
LEMMA FateCommits ==
  ASSUME TypeOK, ServerInv, FateInv, NEW h \in Handles, link[h] \in {"open", "unread"},
         NEW next \in {"open", "none"}, Conclude({h}, "promised", next),
         Handles' = Handles, UNCHANGED link,
         db' = db \cup pending[h],
         pending' = [pending EXCEPT ![h] = {}],
         next = "open" => txn' = txn \cup {h},
         next = "none" => txn' = txn \ {h}
  PROVE  FateInv'
<1>1. \A k \in Handles : pending'[k] = IF k = h THEN {} ELSE pending[k]
  BY DEF TypeOK
<1>2. /\ Stmts' = Stmts
      /\ \A s \in Stmts :
           /\ stmts'[s].made = stmts[s].made
           /\ stmts[s].made = h /\ stmts[s].fate = "pending" => stmts'[s].fate = "promised"
           /\ ~(stmts[s].made = h /\ stmts[s].fate = "pending")
                => stmts'[s].fate = stmts[s].fate
      /\ \A k \in Handles : belief'[k] = IF k = h THEN next ELSE belief[k]
  BY ConcludeEffect DEF Fate
<1>3. /\ \A s \in Stmts : stmts[s].made \in Handles
      /\ \A k \in Handles : pending[k] \subseteq Stmts
  BY Sizes DEF Stmt, TypeOK
<1>4. \A s \in pending[h] : stmts[s].made = h /\ stmts[s].fate \in {"pending", "unknown"}
  BY DEF FateInv, PendingOwn
<1>5. Aware'
  BY <1>2 DEF FateInv, Aware
<1>6. PendingOwn'
  <2>1. ASSUME NEW k \in Handles, NEW s \in pending'[k]
        PROVE  stmts'[s].made = k /\ s \notin db' /\ stmts'[s].fate \in {"pending", "unknown"}
    <3>1. k # h /\ s \in pending[k] /\ s \in Stmts
      BY <1>1, <1>3, <2>1
    <3>2. stmts[s].made = k /\ s \notin db /\ stmts[s].fate \in {"pending", "unknown"}
      BY <3>1 DEF FateInv, PendingOwn
    <3>3. s \notin pending[h]
      BY <1>4, <3>1, <3>2
    <3> QED BY <1>2, <3>1, <3>2, <3>3
  <2> QED BY <2>1 DEF PendingOwn
<1>7. PendingKept'
  <2>1. ASSUME NEW s \in Stmts, stmts'[s].fate = "pending"
        PROVE  /\ s \notin db'
               /\ link[stmts'[s].made] \in {"open", "unread"} => s \in pending'[stmts'[s].made]
    <3>1. stmts[s].made # h /\ stmts[s].fate = "pending" /\ stmts'[s].made = stmts[s].made
      BY <1>2, <2>1
    <3>2. /\ s \notin db
          /\ link[stmts[s].made] \in {"open", "unread"} => s \in pending[stmts[s].made]
      BY <3>1 DEF FateInv, PendingKept
    <3>3. s \notin pending[h]
      BY <1>4, <3>1
    <3> QED BY <1>1, <1>3, <3>1, <3>2, <3>3
  <2> QED BY <1>2, <2>1 DEF PendingKept
<1>8. Told'
  <2>1. ASSUME NEW s \in Stmts
        PROVE  /\ stmts'[s].fate = "promised" => s \in db'
               /\ stmts'[s].fate = "dropped" => s \notin db'
    <3>1. CASE stmts[s].made = h /\ stmts[s].fate = "pending"
      BY <1>2, <3>1 DEF FateInv, PendingKept
    <3>2. CASE ~(stmts[s].made = h /\ stmts[s].fate = "pending")
      BY <1>2, <1>4, <3>2 DEF FateInv, Told
    <3> QED BY <3>1, <3>2
  <2> QED BY <1>2, <2>1 DEF Told
<1> QED BY <1>5, <1>6, <1>7, <1>8 DEF FateInv

(* h is lost with what it kept apart, or after the server has committed    *)
(* it, and the object hears of a failure.                                  *)
LEMMA FateFails ==
  ASSUME TypeOK, ServerInv, FateInv, NEW h \in Handles, link[h] = "open",
         Conclude({h}, "unknown", "broken"), ServerEnds({h}),
         link' = [link EXCEPT ![h] = "lost"],
         db' \in {db, db \cup pending[h]}
  PROVE  FateInv'
<1>1. /\ Handles' = Handles /\ link'[h] = "lost"
      /\ \A k \in Handles : k # h => link'[k] = link[k]
  BY LinkChanges DEF LinkState
<1>2. /\ Stmts' = Stmts
      /\ \A s \in Stmts :
           /\ stmts'[s].made = stmts[s].made
           /\ stmts[s].made = h /\ stmts[s].fate = "pending" => stmts'[s].fate = "unknown"
           /\ ~(stmts[s].made = h /\ stmts[s].fate = "pending")
                => stmts'[s].fate = stmts[s].fate
      /\ \A k \in Handles : belief'[k] = IF k = h THEN "broken" ELSE belief[k]
  BY ConcludeEffect DEF Fate
<1>3. /\ \A s \in Stmts : stmts[s].made \in Handles
      /\ \A k \in Handles : pending[k] \subseteq Stmts
  BY Sizes DEF Stmt, TypeOK
<1>4. \A s \in pending[h] : stmts[s].made = h /\ stmts[s].fate \in {"pending", "unknown"}
  BY DEF FateInv, PendingOwn
<1>5. /\ txn' = txn \ {h}
      /\ \A k \in Handles : pending'[k] = IF k = h THEN {} ELSE pending[k]
  BY ServerEndsEffect
<1>6. Aware'
  BY <1>1, <1>2, <1>5 DEF FateInv, Aware
<1>7. PendingOwn'
  <2>1. ASSUME NEW k \in Handles, NEW s \in pending'[k]
        PROVE  stmts'[s].made = k /\ s \notin db' /\ stmts'[s].fate \in {"pending", "unknown"}
    <3>1. k # h /\ s \in pending[k] /\ s \in Stmts
      BY <1>3, <1>5, <2>1
    <3>2. stmts[s].made = k /\ s \notin db /\ stmts[s].fate \in {"pending", "unknown"}
      BY <3>1 DEF FateInv, PendingOwn
    <3>3. s \notin pending[h]
      BY <1>4, <3>1, <3>2
    <3> QED BY <1>2, <3>1, <3>2, <3>3
  <2> QED BY <1>1, <2>1 DEF PendingOwn
<1>8. PendingKept'
  <2>1. ASSUME NEW s \in Stmts, stmts'[s].fate = "pending"
        PROVE  /\ s \notin db'
               /\ link'[stmts'[s].made] \in {"open", "unread"} => s \in pending'[stmts'[s].made]
    <3>1. /\ stmts[s].made # h /\ stmts[s].fate = "pending" /\ stmts'[s].made = stmts[s].made
          /\ stmts[s].made \in Handles
      BY <1>2, <1>3, <2>1
    <3>2. /\ s \notin db
          /\ link[stmts[s].made] \in {"open", "unread"} => s \in pending[stmts[s].made]
      BY <3>1 DEF FateInv, PendingKept
    <3>3. s \notin pending[h]
      BY <1>4, <3>1
    <3> QED BY <1>1, <1>5, <3>1, <3>2, <3>3
  <2> QED BY <1>2, <2>1 DEF PendingKept
<1>9. Told'
  BY <1>2, <1>4 DEF FateInv, Told
<1> QED BY <1>6, <1>7, <1>8, <1>9 DEF FateInv

(* A statement of which the script does not hear: h is lost.               *)
LEMMA FateLost ==
  ASSUME TypeOK, ServerInv, FateInv, NEW o \in objects, NEW h \in Handles, StatementLost(o),
         h = g_conns[o.id]
  PROVE  FateInv'
<1> DEFINE n == Len(stmts) + 1
           e == [request |-> requests, made |-> o.made, fate |-> "unknown"]
<1>1. /\ Handles' = Handles /\ link'[h] = "lost"
      /\ \A k \in Handles : k # h => link'[k] = link[k]
  BY LinkChanges DEF LinkState, StatementLost, GetConn
<1>2. e \in Stmt
  BY ObjectReaches DEF Stmt, Fate, TypeOK
<1>3. /\ n \notin Stmts /\ Stmts' = Stmts \cup {n}
      /\ \A s \in Stmts : stmts'[s] = stmts[s]
      /\ stmts'[n] = e
  <2>1. stmts' = Append(stmts, e)
    BY DEF StatementLost
  <2> QED BY <1>2, <2>1, StatementAdded
<1>4. stmts'[n].fate = "unknown"
  BY <1>3
<1>5. /\ txn' = txn \ {h} /\ belief' = belief
      /\ \A k \in Handles : pending'[k] = IF k = h THEN {} ELSE pending[k]
      /\ db' \in {db, db \cup {n}}
  BY ServerEndsEffect DEF StatementLost, GetConn
<1>6. /\ \A s \in Stmts : stmts[s].made \in Handles
      /\ \A k \in Handles : pending[k] \subseteq Stmts
  BY Sizes DEF Stmt, TypeOK
<1> HIDE DEF n, e
<1>7. Aware'
  BY <1>1, <1>5 DEF FateInv, Aware
<1>8. PendingOwn'
  <2>1. ASSUME NEW k \in Handles, NEW s \in pending'[k]
        PROVE  stmts'[s].made = k /\ s \notin db' /\ stmts'[s].fate \in {"pending", "unknown"}
    <3>1. s \in pending[k] /\ s \in Stmts /\ s # n
      BY <1>3, <1>5, <1>6, <2>1
    <3> QED BY <1>3, <1>5, <3>1 DEF FateInv, PendingOwn
  <2> QED BY <1>1, <2>1 DEF PendingOwn
<1>9. PendingKept'
  <2>1. ASSUME NEW s \in Stmts', stmts'[s].fate = "pending"
        PROVE  /\ s \notin db'
               /\ link'[stmts'[s].made] \in {"open", "unread"} => s \in pending'[stmts'[s].made]
    <3>1. s # n /\ s \in Stmts /\ stmts'[s] = stmts[s] /\ stmts[s].made \in Handles
      BY <1>3, <1>4, <1>6, <2>1
    <3>2. /\ s \notin db
          /\ link[stmts[s].made] \in {"open", "unread"} => s \in pending[stmts[s].made]
      BY <2>1, <3>1 DEF FateInv, PendingKept
    <3> QED BY <1>1, <1>5, <3>1, <3>2
  <2> QED BY <2>1 DEF PendingKept
<1>10. Told'
  BY <1>3, <1>4, <1>5 DEF FateInv, Told
<1> QED BY <1>7, <1>8, <1>9, <1>10 DEF FateInv

LEMMA FateStep ==
  TypeOK /\ TableInv /\ TransInv /\ [Next]_vars => (~strayed' => FateInv')
<1> SUFFICES ASSUME TypeOK, TableInv, TransInv, [Next]_vars, ~strayed' PROVE FateInv'
  OBVIOUS
<1> USE DEF processVars, serverVars, history
<1>i. ServerInv /\ (~strayed => FateInv)
  BY DEF TransInv
<1>t. /\ pending \in [Handles -> SUBSET Stmts]
      /\ \A s \in Stmts : stmts[s].made \in Handles
      /\ \A o \in objects : o.id \in Slot /\ o.made \in Handles
  BY Sizes DEF TypeOK, Stmt
<1>q. FateInv /\ UNCHANGED <<link, txn, pending, db, stmts, belief>> => FateInv'
  BY DEF FateInv, Aware, PendingOwn, PendingKept, Told, Handles, Stmts
<1>1. CASE Begin
  BY <1>1, <1>i, <1>q DEF Begin
<1>2. CASE End
  <2>1. /\ FateInv /\ UNCHANGED db
        /\ link' = [h \in Handles |-> IF h \in InTable THEN "closed" ELSE link[h]]
        /\ Conclude(Handles, "dropped", "none")
        /\ ServerEnds(InTable)
    BY <1>2, <1>i DEF End
  <2>2. /\ Handles' = Handles
        /\ \A h \in Handles : link'[h] = IF h \in InTable THEN "closed" ELSE link[h]
    BY <2>1, LinksClose
  <2>3. \A h \in Handles \ InTable : link[h] = "closed"
    BY Sizes DEF TableInv, AllHeld, InTable, NULL
  <2>4. ServerEnds(Handles)
    <3>1. \A h \in Handles \ InTable : h \notin txn /\ pending[h] = {}
      BY <1>i, <2>3 DEF ServerInv
    <3>2. txn' = txn \ Handles
      BY <2>1, <3>1 DEF ServerEnds, TypeOK
    <3>3. pending' = [h \in Handles |-> IF h \in Handles THEN {} ELSE pending[h]]
      BY <2>1, <3>1 DEF ServerEnds
    <3> QED BY <3>2, <3>3 DEF ServerEnds
  <2> QED BY <1>i, <2>1, <2>2, <2>4, FateEnds
<1>3. CASE Crash
  <2>1. /\ FateInv /\ UNCHANGED db
        /\ link' = [h \in Handles |-> IF h \in Handles THEN "closed" ELSE link[h]]
        /\ Conclude(Handles, "dropped", "none")
        /\ ServerEnds(Handles)
    BY <1>3, <1>i DEF Crash
  <2>2. Handles' = Handles /\ \A h \in Handles : link'[h] = "closed"
    BY <2>1, LinksClose
  <2> QED BY <1>i, <2>1, <2>2, FateEnds
<1>4. ASSUME NEW state \in LinkState, NewHandle(state), UNCHANGED <<db, stmts, strayed>>
      PROVE  FateInv'
  <2>1. /\ Handles' = Handles \cup {Len(link) + 1} /\ Len(link) + 1 \notin Handles
        /\ txn' = txn /\ txn \subseteq Handles
        /\ pending'[Len(link) + 1] = {} /\ belief'[Len(link) + 1] = "none"
        /\ \A h \in Handles :
             link'[h] = link[h] /\ pending'[h] = pending[h] /\ belief'[h] = belief[h]
    BY <1>4, NewHandleEffect DEF NewHandle, TypeOK
  <2>2. FateInv /\ Stmts' = Stmts
    BY <1>4, <1>i DEF Stmts
  <2> QED BY <1>4, <1>t, <2>1, <2>2 DEF FateInv, Aware, PendingOwn, PendingKept, Told
<1>5. CASE Connect \/ ConnectFails
  BY <1>4, <1>5 DEF Connect, ConnectFails, LinkState
<1>6. ASSUME NEW h \in Handles, ServerGone(h) PROVE FateInv'
  <2>1. /\ FateInv /\ ServerEnds({h}) /\ UNCHANGED <<db, stmts, belief>>
        /\ Handles' = Handles /\ link'[h] = "lost" /\ Stmts' = Stmts
        /\ \A k \in Handles : k # h => link'[k] = link[k]
    BY <1>6, <1>i, LinkChanges DEF ServerGone, LinkState, Stmts
  <2>2. /\ txn' = txn \ {h}
        /\ \A k \in Handles : pending'[k] = IF k = h THEN {} ELSE pending[k]
    BY <2>1, ServerEndsEffect
  <2> QED BY <1>t, <2>1, <2>2 DEF FateInv, Aware, PendingOwn, PendingKept, Told
<1>7. ASSUME NEW o \in objects, Call(o) PROVE FateInv'
  <2> DEFINE h == g_conns[o.id]
  <2>1. Uses(o) /\ h # NULL
    BY <1>7 DEF Call, Close, Exec, Query, StatementLost, StatementDeadlocks, BeginTransaction,
                Commit, CommitFails, CommitLost, Rollback, CommandFails, Calls, GetConn
  <2>2. /\ ~strayed /\ h = o.made /\ h \in Handles /\ FateInv
        /\ UNCHANGED link => Handles' = Handles
    BY <1>i, <1>t, <2>1 DEF Uses, Handles
  <2>3. CASE Close(o)
    <3>1. /\ ServerEnds({h}) /\ Conclude({h}, "dropped", "none") /\ UNCHANGED db
          /\ Handles' = Handles /\ link'[h] = "closed"
          /\ \A k \in Handles : k # h => link'[k] = link[k]
      BY <2>2, <2>3, LinkChanges DEF Close, LinkState
    <3> QED BY <1>i, <2>2, <3>1, FateEnds
  <2>4. CASE Exec(o) \/ Query(o)
    <3>1. /\ link[h] = "open" /\ Executes(o, h, FateOf(h)) /\ UNCHANGED <<txn, belief>>
      BY <2>2, <2>4 DEF Exec, Query, GetConn
    <3>2. /\ Handles' = Handles
          /\ \A k \in Handles : k # h => link'[k] = link[k]
          /\ link'[h] \in {"open", "unread"}
      <4>1. ASSUME NEW state \in {"open", "unread"}, link' = [link EXCEPT ![h] = state]
            PROVE  /\ Handles' = Handles
                   /\ \A k \in Handles : k # h => link'[k] = link[k]
                   /\ link'[h] \in {"open", "unread"}
        BY <2>2, <4>1, LinkChanges DEF LinkState
      <4> QED BY <2>2, <2>4, <3>1, <4>1 DEF Exec, Query, GetConn
    <3> HIDE DEF h
    <3> QED BY <1>i, <2>2, <3>1, <3>2, FateExecutes
  <2>5. CASE StatementLost(o)
    BY <1>i, <2>2, <2>5, FateLost
  <2>6. CASE StatementDeadlocks(o)
    <3>1. /\ ServerEnds({h}) /\ Conclude({h}, "unknown", "broken") /\ UNCHANGED <<db, link>>
      BY <2>2, <2>6 DEF StatementDeadlocks, GetConn
    <3> QED BY <1>i, <2>2, <3>1, FateEnds
  <2>7. CASE BeginTransaction(o)
    BY <1>i, <2>2, <2>7, FateCommits DEF BeginTransaction, GetConn
  <2>8. CASE Commit(o)
    BY <1>i, <2>2, <2>8, FateCommits DEF Commit, GetConn
  <2>u. ASSUME UNCHANGED <<link, serverVars>>, Conclude({h}, "unknown", "broken"),
               link[h] # "open"
        PROVE  FateInv'
    <3>1. /\ Stmts' = Stmts
          /\ \A s \in Stmts :
               /\ stmts'[s].made = stmts[s].made
               /\ stmts[s].made = h /\ stmts[s].fate = "pending" => stmts'[s].fate = "unknown"
               /\ ~(stmts[s].made = h /\ stmts[s].fate = "pending")
                    => stmts'[s].fate = stmts[s].fate
          /\ \A k \in Handles : belief'[k] = IF k = h THEN "broken" ELSE belief[k]
      BY <2>u, ConcludeEffect DEF Fate
    <3> HIDE DEF h
    <3>2. Aware' /\ PendingKept' /\ Told'
      BY <2>2, <2>u, <3>1 DEF FateInv, Aware, PendingKept, Told
    <3>3. PendingOwn'
      <4>1. ASSUME NEW k \in Handles, NEW s \in pending[k]
            PROVE  stmts'[s].made = k /\ s \notin db /\ stmts'[s].fate \in {"pending", "unknown"}
        <5>1. s \in Stmts
          BY <1>t
        <5>2. stmts[s].made = k /\ s \notin db /\ stmts[s].fate \in {"pending", "unknown"}
          BY <2>2 DEF FateInv, PendingOwn
        <5> QED BY <3>1, <5>1, <5>2
      <4> QED BY <2>2, <2>u, <4>1 DEF PendingOwn
    <3> QED BY <3>2, <3>3 DEF FateInv
  <2>9. CASE CommitFails(o)
    BY <1>i, <2>2, <2>9, <2>u, FateFails DEF CommitFails, CommitLost, GetConn
  <2>10. CASE Rollback(o)
    <3>1. /\ ServerEnds({h}) /\ Conclude({h}, "dropped", "none") /\ UNCHANGED <<db, link>>
      BY <2>2, <2>10 DEF Rollback, GetConn
    <3> QED BY <1>i, <2>2, <3>1, FateEnds
  <2>11. CASE CommandFails(o)
    BY <2>2, <2>11, <2>u DEF CommandFails, GetConn
  <2> QED BY <1>7, <2>3, <2>4, <2>5, <2>6, <2>7, <2>8, <2>9, <2>10, <2>11 DEF Call
<1>8. CASE UNCHANGED vars
  BY <1>8, <1>i, <1>q DEF vars
<1> QED BY <1>1, <1>2, <1>3, <1>5, <1>6, <1>7, <1>8 DEF Next

LEMMA TransInit == Init => TransInv
<1> SUFFICES ASSUME Init PROVE TransInv
  OBVIOUS
<1>1. Handles = {} /\ Stmts = {}
  BY EmptySeq, LenProperties DEF Init, Handles, Stmts
<1> QED BY <1>1 DEF TransInv, ServerInv, FateInv, Aware, PendingOwn, PendingKept, Told

(* Of a script that keeps off the objects it has closed: what it was told  *)
(* is committed is in the database, and what was rolled back or given up   *)
(* is not, whichever call, connection, server or process fails.            *)
THEOREM TransactionsCorrect == Spec => []TransactionsWhole
<1>1. TypeOK /\ TableInv /\ TransInv /\ [Next]_vars => TransInv'
  BY ServerStep, FateStep DEF TransInv
<1>2. TransInv => TransactionsWhole
  BY DEF TransInv, FateInv, Told, TransactionsWhole
<1> QED BY <1>1, <1>2, TypeInit, TypeStep, TableInit, TableStep, TransInit, PTL DEF Spec
=============================================================================
