---------------------------- MODULE ListenQueue -----------------------------
(***************************************************************************)
(* The kernel's queue of a listening socket, which both servers accept     *)
(* from, and the connections made to it.                                   *)
(***************************************************************************)
EXTENDS Naturals, Sequences, FiniteSets

CONSTANTS
  Conn,      \* bound: the connections made in a behaviour
  Held,      \* connections whose client never lets their request end
  Backlog    \* length of the queue

VARIABLES
  conn,      \* conn[c]: "new", "queued", or what has become of c
  queue      \* the connections nobody has accepted, first come first served

queueVars == <<conn, queue>>

(* A client connects; when the queue is full it has to try again.          *)
Arrive(c) ==
  /\ conn[c] = "new"
  /\ Len(queue) < Backlog
  /\ conn' = [conn EXCEPT ![c] = "queued"]
  /\ queue' = Append(queue, c)

(* accept returns the first connection.                                    *)
Take(state) ==
  /\ queue # <<>>
  /\ queue' = Tail(queue)
  /\ conn' = [conn EXCEPT ![Head(queue)] = state]

(* No process has the socket any more: what is queued on it is reset.      *)
Drop(state) ==
  /\ queue' = <<>>
  /\ conn' = [c \in Conn |-> IF conn[c] = "queued" THEN state ELSE conn[c]]

(* The queue holds exactly the queued connections, each once: no           *)
(* connection is given to two processes, none is forgotten.                *)
QueueExact ==
  /\ \A c \in Conn : conn[c] = "queued" <=> \E n \in DOMAIN queue : queue[n] = c
  /\ \A m, n \in DOMAIN queue : queue[m] = queue[n] => m = n
=============================================================================
