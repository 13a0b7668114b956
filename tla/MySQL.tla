------------------------------- MODULE MySQL --------------------------------
(***************************************************************************)
(* The mysql extension in a worker process that serves one request after   *)
(* another.  A script holds connection objects, which are numbers of slots *)
(* in a table of the process; the table, and the counters kept beside it,  *)
(* outlive the script.                                                     *)
(*                                                                         *)
(* A connection (a MYSQL handle) is numbered in the order of mysql_init; a *)
(* statement that changes the database in the order of execution, and its  *)
(* number stands for what it has written and for both its counters.        *)
(*                                                                         *)
(* The server is external: it keeps what an open transaction has written   *)
(* apart until it is committed, and drops it when the connection ends.     *)
(*                                                                         *)
(* An operator named X_how is X with a plausible mistake, kept beside it   *)
(* for the properties to be tested against; no specification uses it.      *)
(***************************************************************************)
EXTENDS Naturals, Sequences, FiniteSets

CONSTANTS
  MAX_CONNS,    \* slots in the table
  MaxRequests,  \* bound: requests in a behaviour
  MaxHandles,   \* bound: connections tried in a behaviour
  MaxStmts      \* bound: statements in a behaviour

ASSUME ConstantsAssumption ==
  /\ MAX_CONNS \in Nat
  /\ MaxRequests \in Nat
  /\ MaxHandles \in Nat
  /\ MaxStmts \in Nat

VARIABLES
  phase,     \* "idle", or "script" between init and shutdown
  g_conns,   \* g_conns[i]: the handle in slot i, or NULL
  g_last,    \* g_last[i]: the statement of both counters of slot i, or 0
  objects,   \* the connection objects of the script: the _id of each and its handle
  link,      \* link[h]: "open", "unread" (a result is waiting), "lost" or "closed"
  txn,       \* server: the connections with an open transaction
  pending,   \* server: pending[h]: what the transaction has written
  db,        \* server: what is committed
  requests,  \* history: requests begun
  stmts,     \* history: the request, the object's handle and the fate of each statement
  belief,    \* history: belief[h]: what the script was told of the transaction
  strayed    \* history: a script has used an object whose slot was taken over

processVars == <<phase, g_conns, g_last, objects>>
serverVars == <<txn, pending, db>>
history == <<requests, stmts, belief, strayed>>
vars == <<processVars, link, serverVars, history>>

Slot == 0..(MAX_CONNS - 1)
NULL == 0

Handles == DOMAIN link
Stmts == DOMAIN stmts

Init ==
  /\ phase = "idle"
  /\ g_conns = [i \in Slot |-> NULL]
  /\ g_last = [i \in Slot |-> 0]
  /\ objects = {}
  /\ link = <<>>
  /\ txn = {}
  /\ pending = <<>>
  /\ db = {}
  /\ requests = 0
  /\ stmts = <<>>
  /\ belief = <<>>
  /\ strayed = FALSE

-----------------------------------------------------------------------------
(* History: what the script may conclude of the statements it has made in  *)
(* the transaction of handle h, which is over for it.                      *)
Conclude(hs, fate, next) ==
  /\ stmts' = [s \in Stmts |->
                 IF stmts[s].made \in hs /\ stmts[s].fate = "pending"
                 THEN [stmts[s] EXCEPT !.fate = fate] ELSE stmts[s]]
  /\ belief' = [h \in Handles |-> IF h \in hs THEN next ELSE belief[h]]

(* The server ends the connections hs and what was not committed on them.  *)
ServerEnds(hs) ==
  /\ txn' = txn \ hs
  /\ pending' = [h \in Handles |-> IF h \in hs THEN {} ELSE pending[h]]

Uses(o) == strayed' = (strayed \/ g_conns[o.id] # o.made)

-----------------------------------------------------------------------------
(* The life of the extension in a process.  mysql_ext_init, in a context   *)
(* of its own for each request.                                            *)
Begin_counting ==
  /\ phase = "idle"
  /\ requests < MaxRequests
  /\ requests' = requests + 1
  /\ g_conns' = [i \in Slot |-> NULL]
  /\ objects' = {}
  /\ phase' = "script"
  /\ UNCHANGED <<g_last, link, serverVars, stmts, belief, strayed>>

Begin ==
  /\ phase = "idle"
  /\ requests < MaxRequests
  /\ requests' = requests + 1
  /\ g_conns' = [i \in Slot |-> NULL]
  /\ g_last' = [i \in Slot |-> 0]
  /\ objects' = {}
  /\ phase' = "script"
  /\ UNCHANGED <<link, serverVars, stmts, belief, strayed>>

InTable == {g_conns[i] : i \in Slot} \ {NULL}

(* mysql_ext_shutdown, however the script has ended.                       *)
End_forgets ==
  /\ phase = "script"
  /\ g_conns' = [i \in Slot |-> NULL]
  /\ objects' = {}
  /\ phase' = "idle"
  /\ UNCHANGED <<g_last, link, serverVars, history>>

End ==
  /\ phase = "script"
  /\ link' = [h \in Handles |-> IF h \in InTable THEN "closed" ELSE link[h]]
  /\ ServerEnds(InTable)
  /\ Conclude(Handles, "dropped", "none")
  /\ g_conns' = [i \in Slot |-> NULL]
  /\ objects' = {}
  /\ phase' = "idle"
  /\ UNCHANGED <<g_last, db, requests, strayed>>

(* The process dies, and with it all its sockets; another takes its place. *)
Crash ==
  /\ phase = "script"
  /\ link' = [h \in Handles |-> "closed"]
  /\ ServerEnds(Handles)
  /\ Conclude(Handles, "dropped", "none")
  /\ g_conns' = [i \in Slot |-> NULL]
  /\ g_last' = [i \in Slot |-> 0]
  /\ objects' = {}
  /\ phase' = "idle"
  /\ UNCHANGED <<db, requests, strayed>>

(* The server goes away, or drops a connection that was silent too long.   *)
ServerGone(h) ==
  /\ link[h] \in {"open", "unread"}
  /\ link' = [link EXCEPT ![h] = "lost"]
  /\ ServerEnds({h})
  /\ UNCHANGED <<processVars, db, history>>

-----------------------------------------------------------------------------
(* find_conn_slot: the first slot that is free, if there is one.           *)
FindConnSlot_off == {i \in Slot : \A j \in Slot : j < i => g_conns[j] # NULL}

FindConnSlot == {i \in Slot : g_conns[i] = NULL /\ \A j \in Slot : j < i => g_conns[j] # NULL}

(* A handle that mysql_init has made.                                      *)
NewHandle(state) ==
  /\ Len(link) < MaxHandles
  /\ link' = Append(link, state)
  /\ pending' = Append(pending, {})
  /\ belief' = Append(belief, "none")
  /\ UNCHANGED txn

(* connect as one step: the arguments are converted between the search for *)
(* the slot and its use, and it is left out that a function of the script  *)
(* that such a conversion runs may connect, too.                           *)
Connect ==
  /\ phase = "script"
  /\ NewHandle("open")
  /\ \E slot \in FindConnSlot :
       /\ g_conns' = [g_conns EXCEPT ![slot] = Len(link) + 1]
       /\ objects' = objects \cup {[id |-> slot, made |-> Len(link) + 1]}
  /\ UNCHANGED <<phase, g_last, db, requests, stmts, strayed>>

(* mysql_real_connect fails: the handle is closed, no slot is taken.       *)
ConnectFails ==
  /\ phase = "script"
  /\ FindConnSlot # {}
  /\ NewHandle("closed")
  /\ UNCHANGED <<processVars, db, requests, stmts, strayed>>

(* conn.close through o closes what its slot holds now.                    *)
Close(o) ==
  /\ phase = "script"
  /\ g_conns[o.id] # NULL
  /\ Uses(o)
  /\ link' = [link EXCEPT ![g_conns[o.id]] = "closed"]
  /\ ServerEnds({g_conns[o.id]})
  /\ Conclude({g_conns[o.id]}, "dropped", "none")
  /\ g_conns' = [g_conns EXCEPT ![o.id] = NULL]
  /\ UNCHANGED <<phase, g_last, objects, db, requests>>

-----------------------------------------------------------------------------
(* get_conn: every method but close throws when the slot is empty.         *)
GetConn(o) == g_conns[o.id]

Calls(o) ==
  /\ phase = "script"
  /\ GetConn(o) # NULL
  /\ Uses(o)

FateOf(h) == CASE belief[h] = "none" -> "promised"
               [] belief[h] = "open" -> "pending"
               [] belief[h] = "broken" -> "unknown"

(* The server executes a statement on h for the object o.                  *)
Executes(o, h, fate) ==
  /\ Len(stmts) < MaxStmts
  /\ stmts' = Append(stmts, [request |-> requests, made |-> o.made, fate |-> fate])
  /\ IF h \in txn
     THEN /\ pending' = [pending EXCEPT ![h] = @ \cup {Len(stmts) + 1}]
          /\ db' = db
     ELSE /\ db' = db \cup {Len(stmts) + 1}
          /\ pending' = pending

(* conn.exec: the counters of the slot.  The result of a statement without *)
(* parameters is not read: when there is one, the connection takes no more *)
(* commands.                                                               *)
Exec(o) ==
  /\ Calls(o)
  /\ link[GetConn(o)] = "open"
  /\ Executes(o, GetConn(o), FateOf(o.made))
  /\ g_last' = [g_last EXCEPT ![o.id] = Len(stmts) + 1]
  /\ \E state \in {"open", "unread"} : link' = [link EXCEPT ![GetConn(o)] = state]
  /\ UNCHANGED <<phase, g_conns, objects, txn, requests, belief>>

(* conn.query and conn.queryOne read every result and count nothing.       *)
Query(o) ==
  /\ Calls(o)
  /\ link[GetConn(o)] = "open"
  /\ Executes(o, GetConn(o), FateOf(o.made))
  /\ UNCHANGED <<processVars, link, txn, requests, belief>>

(* exec or query throws because the answer of the server does not arrive.  *)
StatementLost(o) ==
  /\ Calls(o)
  /\ link[GetConn(o)] = "open"
  /\ LET h == GetConn(o)
     IN  /\ Len(stmts) < MaxStmts
         /\ stmts' = Append(stmts, [request |-> requests, made |-> o.made, fate |-> "unknown"])
         /\ db' = IF h \in txn THEN db ELSE db \cup {Len(stmts) + 1}
         /\ link' = [link EXCEPT ![h] = "lost"]
         /\ ServerEnds({h})
  /\ UNCHANGED <<processVars, requests, belief>>

(* exec or query throws because of a deadlock: the server has undone the   *)
(* whole transaction, and what follows is no longer part of one.           *)
StatementDeadlocks(o) ==
  /\ Calls(o)
  /\ link[GetConn(o)] = "open"
  /\ GetConn(o) \in txn
  /\ ServerEnds({GetConn(o)})
  /\ Conclude({o.made}, "unknown", "broken")
  /\ UNCHANGED <<processVars, link, db, requests>>

-----------------------------------------------------------------------------
(* Transactions.  START TRANSACTION commits the one that is open.          *)
BeginTransaction(o) ==
  /\ Calls(o)
  /\ LET h == GetConn(o)
     IN  /\ link[h] = "open"
         /\ txn' = txn \cup {h}
         /\ db' = db \cup pending[h]
         /\ pending' = [pending EXCEPT ![h] = {}]
  /\ Conclude({o.made}, "promised", "open")
  /\ UNCHANGED <<processVars, link, requests>>

Commit(o) ==
  /\ Calls(o)
  /\ LET h == GetConn(o)
     IN  /\ link[h] = "open"
         /\ txn' = txn \ {h}
         /\ db' = db \cup pending[h]
         /\ pending' = [pending EXCEPT ![h] = {}]
  /\ Conclude({o.made}, "promised", "none")
  /\ UNCHANGED <<processVars, link, requests>>

(* commit throws: the connection was lost before, or takes no command, or  *)
(* is lost now, before the server has committed or after it.               *)
CommitLost(o, fate) ==
  /\ Calls(o)
  /\ LET h == GetConn(o)
     IN  \/ /\ link[h] # "open"
            /\ UNCHANGED <<link, serverVars>>
         \/ /\ link[h] = "open"
            /\ link' = [link EXCEPT ![h] = "lost"]
            /\ db' \in {db, db \cup pending[h]}
            /\ ServerEnds({h})
  /\ Conclude({o.made}, fate, "broken")
  /\ UNCHANGED <<processVars, requests>>

CommitFails_unnoticed(o) == CommitLost(o, "promised")

CommitFails(o) == CommitLost(o, "unknown")

Rollback(o) ==
  /\ Calls(o)
  /\ link[GetConn(o)] = "open"
  /\ ServerEnds({GetConn(o)})
  /\ Conclude({o.made}, "dropped", "none")
  /\ UNCHANGED <<processVars, link, db, requests>>

(* begin or rollback throws: the connection takes no command.              *)
CommandFails(o) ==
  /\ Calls(o)
  /\ link[GetConn(o)] # "open"
  /\ Conclude({o.made}, "unknown", "broken")
  /\ UNCHANGED <<processVars, link, serverVars, requests>>

-----------------------------------------------------------------------------
Call(o) ==
  \/ Close(o)
  \/ Exec(o) \/ Query(o) \/ StatementLost(o) \/ StatementDeadlocks(o)
  \/ BeginTransaction(o) \/ Commit(o) \/ CommitFails(o) \/ Rollback(o) \/ CommandFails(o)

Next ==
  \/ Begin \/ End \/ Crash
  \/ Connect \/ ConnectFails
  \/ \E h \in Handles : ServerGone(h)
  \/ \E o \in objects : Call(o)

Spec == Init /\ [][Next]_vars

-----------------------------------------------------------------------------
TypeOK ==
  /\ phase \in {"idle", "script"}
  /\ g_conns \in [Slot -> {NULL} \cup Handles]
  /\ g_last \in [Slot -> {0} \cup Stmts]
  /\ objects \subseteq [id : Slot, made : Handles]
  /\ link \in Seq({"open", "unread", "lost", "closed"})
  /\ txn \subseteq Handles
  /\ pending \in [Handles -> SUBSET Stmts]
  /\ db \subseteq Stmts
  /\ requests \in Nat
  /\ stmts \in Seq([request : Nat, made : Handles,
                    fate : {"pending", "promised", "dropped", "unknown"}])
  /\ belief \in [Handles -> {"none", "open", "broken"}]
  /\ strayed \in BOOLEAN

(* Until it is closed, a connection object reaches the connection it was   *)
(* made for: no other call of connect, no failure and no call on an object *)
(* of the same slot that went before gives its slot away (the _id of       *)
(* get_conn and the first free slot of find_conn_slot).                    *)
LiveObjectsOwn == \A o \in objects : link[o.made] # "closed" => g_conns[o.id] = o.made

(* When no script runs, every connection that was ever tried is closed:    *)
(* a worker that serves for months holds none (mysql_close in shutdown, in *)
(* close and where mysql_real_connect fails).                              *)
NoConnectionLeft == phase = "idle" => \A h \in Handles : link[h] = "closed"

(* As long as scripts leave objects alone that they have closed: what a    *)
(* script was told is committed is in the database, and what it has rolled *)
(* back, or not committed when it or its connection ended, is not, through *)
(* lost connections, deadlocks, crashes and reused slots (js_mysql_begin,  *)
(* js_mysql_commit, js_mysql_rollback, mysql_ext_shutdown).                *)
TransactionsWhole ==
  ~strayed =>
    \A s \in Stmts : /\ stmts[s].fate = "promised" => s \in db
                     /\ stmts[s].fate = "dropped" => s \notin db

(* lastInsertId and changes of an open connection never tell a script of a *)
(* statement that another request has executed (g_last_insert_id and       *)
(* g_last_affected survive connect and close, and are cleared by init).    *)
CountersOwnRequest ==
  phase = "script" =>
    \A i \in Slot : g_last[i] # 0 => stmts[g_last[i]].request = requests
=============================================================================
