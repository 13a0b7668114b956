------------------------------ MODULE Session -------------------------------
(***************************************************************************)
(* The session extension: scripts of several processes start, change and   *)
(* destroy sessions that are kept in one file each, with no lock.  A set   *)
(* rewrites the file from the copy that start has read; fopen empties it   *)
(* (or creates it) before the text is written, and a file that is unlinked *)
(* lives on for those who have it open.                                    *)
(*                                                                         *)
(* Every set adds a key of its own, a stamp, so that an object is the set  *)
(* of its stamps.  Its JSON text is a sequence of cells, longer for larger *)
(* objects, and nothing but a whole text parses.                           *)
(*                                                                         *)
(* An operator named X_how is X with a plausible mistake, kept beside it   *)
(* for the properties to be tested against; no specification uses it.      *)
(***************************************************************************)
EXTENDS Naturals, Sequences, FiniteSets

CONSTANTS
  Proc,         \* the processes that run scripts
  Id,           \* bound: session ids
  None,         \* no id
  MaxRequests,  \* bound: requests in a behaviour
  MaxSets,      \* bound: calls of session.set in a behaviour
  FailMay       \* TRUE: a process may die, and a save, a read or an unlink fail

ASSUME ConstantsAssumption ==
  /\ IsFiniteSet(Proc)
  /\ IsFiniteSet(Id)
  /\ None \notin Id
  /\ MaxRequests \in Nat
  /\ MaxSets \in Nat
  /\ FailMay \in BOOLEAN

VARIABLES
  pc,         \* pc[p]: "idle", "script", or the library call p is about to make
  cookie,     \* the id in the request's cookie, or None
  started,    \* g_session_started
  id,         \* g_session_id and with it g_session_file, or None
  data,       \* g_session_data
  fd,         \* the file p has open: its number, or 0
  len,        \* the size that p has found
  dir,        \* dir[i]: the file of session i, or 0
  disk,       \* the text in each file that was created
  requests,   \* history: requests begun
  owner,      \* history: the session of each stamp
  used,       \* history: ids that have been issued or sent as a cookie
  mine,       \* history: mine[p]: what p has set in this request and not destroyed
  kept,       \* history: kept[i]: what has been saved in i and not destroyed
  ended,      \* history: what was saved in sessions when they were destroyed
  buried,     \* history: buried[p]: ended, when p called start
  disturbed   \* history: sessions with overlapping requests, or of which a write
              \* was cut, or a read or an unlink failed

procVars == <<pc, cookie, started, id, data>>
fileVars == <<fd, len>>
diskVars == <<dir, disk>>
history == <<requests, owner, used, mine, kept, ended, buried, disturbed>>
vars == <<procVars, fileVars, diskVars, history>>

Stamps == DOMAIN owner

Text(o) == [k \in 1..(Cardinality(o) + 1) |-> <<o, k>>]

(* JS_ParseJSON, and the empty object when it fails.                       *)
Parse(s) == IF s # <<>> /\ s = Text(s[1][1]) THEN s[1][1] ELSE {}

Lesser(m, n) == IF m < n THEN m ELSE n

Init ==
  /\ pc = [p \in Proc |-> "idle"]
  /\ cookie = [p \in Proc |-> None]
  /\ started = [p \in Proc |-> FALSE]
  /\ id = [p \in Proc |-> None]
  /\ data = [p \in Proc |-> {}]
  /\ fd = [p \in Proc |-> 0]
  /\ len = [p \in Proc |-> 0]
  /\ dir = [i \in Id |-> 0]
  /\ disk = <<>>
  /\ requests = 0
  /\ owner = <<>>
  /\ used = {}
  /\ mine = [p \in Proc |-> {}]
  /\ kept = [i \in Id |-> {}]
  /\ ended = {}
  /\ buried = [p \in Proc |-> {}]
  /\ disturbed = {}

-----------------------------------------------------------------------------
(* The life of the extension in a process.  session_init before a script   *)
(* and session_shutdown after it both forget the session.                  *)

Closed_keeps(p) ==
  /\ mine' = [mine EXCEPT ![p] = {}]
  /\ UNCHANGED <<started, data>>

Closed(p) ==
  /\ started' = [started EXCEPT ![p] = FALSE]
  /\ data' = [data EXCEPT ![p] = {}]
  /\ mine' = [mine EXCEPT ![p] = {}]

(* A request with a cookie that names a session, of this run or an earlier *)
(* one, or without.                                                        *)
Begin(p) ==
  /\ pc[p] = "idle"
  /\ requests < MaxRequests
  /\ requests' = requests + 1
  /\ \E i \in Id \cup {None} :
       /\ cookie' = [cookie EXCEPT ![p] = i]
       /\ used' = used \cup ({i} \ {None})
  /\ Closed(p)
  /\ id' = [id EXCEPT ![p] = None]
  /\ pc' = [pc EXCEPT ![p] = "script"]
  /\ UNCHANGED <<fileVars, diskVars, owner, kept, ended, buried, disturbed>>

End(p) ==
  /\ pc[p] = "script"
  /\ Closed(p)
  /\ pc' = [pc EXCEPT ![p] = "idle"]
  /\ UNCHANGED <<cookie, id, fileVars, diskVars, requests, owner, used, kept, ended, buried,
                 disturbed>>

(* The process dies and another takes its place; a file it had emptied     *)
(* stays empty.                                                            *)
Crash(p) ==
  /\ FailMay
  /\ pc[p] # "idle"
  /\ Closed(p)
  /\ id' = [id EXCEPT ![p] = None]
  /\ pc' = [pc EXCEPT ![p] = "idle"]
  /\ fd' = [fd EXCEPT ![p] = 0]
  /\ disturbed' = IF pc[p] = "write" THEN disturbed \cup {id[p]} ELSE disturbed
  /\ UNCHANGED <<cookie, len, diskVars, requests, owner, used, kept, ended, buried>>

-----------------------------------------------------------------------------
(* session.start                                                           *)

(* The session with id i becomes the current one of p.                     *)
Enter(p, i) ==
  /\ id' = [id EXCEPT ![p] = i]
  /\ used' = used \cup {i}
  /\ buried' = [buried EXCEPT ![p] = ended]
  /\ disturbed' = IF \E q \in Proc \ {p} : pc[q] # "idle" /\ id[q] = i
                  THEN disturbed \cup {i} ELSE disturbed

(* get_cookie_value, and an id of the full length in it.                   *)
NamesSession(p) == cookie[p] # None

Started(p, o) ==
  /\ data' = [data EXCEPT ![p] = o]
  /\ started' = [started EXCEPT ![p] = TRUE]
  /\ pc' = [pc EXCEPT ![p] = "script"]

(* No cookie: a random id that no session has had, and an empty object.    *)
StartNew(p) ==
  /\ pc[p] = "script" /\ ~started[p]
  /\ ~NamesSession(p)
  /\ \E i \in Id \ used : Enter(p, i)
  /\ Started(p, {})
  /\ UNCHANGED <<cookie, fileVars, diskVars, requests, owner, mine, kept, ended>>

StartKnown_again(p) ==
  /\ pc[p] = "script"
  /\ NamesSession(p)
  /\ Enter(p, cookie[p])
  /\ pc' = [pc EXCEPT ![p] = "open"]
  /\ UNCHANGED <<cookie, started, data, fileVars, diskVars, requests, owner, mine, kept, ended>>

StartKnown(p) ==
  /\ pc[p] = "script" /\ ~started[p]
  /\ NamesSession(p)
  /\ Enter(p, cookie[p])
  /\ pc' = [pc EXCEPT ![p] = "open"]
  /\ UNCHANGED <<cookie, started, data, fileVars, diskVars, requests, owner, mine, kept, ended>>

(* read_file_contents: fopen, then the size, then as many bytes.           *)
OpenToRead(p) ==
  /\ pc[p] = "open"
  /\ IF dir[id[p]] = 0
     THEN /\ Started(p, {})
          /\ UNCHANGED fd
     ELSE /\ fd' = [fd EXCEPT ![p] = dir[id[p]]]
          /\ pc' = [pc EXCEPT ![p] = "size"]
          /\ UNCHANGED <<data, started>>
  /\ UNCHANGED <<cookie, id, len, diskVars, history>>

FindSize(p) ==
  /\ pc[p] = "size"
  /\ len' = [len EXCEPT ![p] = Len(disk[fd[p]])]
  /\ pc' = [pc EXCEPT ![p] = "read"]
  /\ UNCHANGED <<cookie, started, id, data, fd, diskVars, history>>

ReadFile(p) ==
  /\ pc[p] = "read"
  /\ LET text == disk[fd[p]]
     IN  Started(p, Parse(SubSeq(text, 1, Lesser(len[p], Len(text)))))
  /\ fd' = [fd EXCEPT ![p] = 0]
  /\ UNCHANGED <<cookie, id, len, diskVars, history>>

(* fopen fails, or fread stops short and what it has read is no JSON: the  *)
(* session starts empty, as if it were new.                                *)
ReadFails(p) ==
  /\ FailMay
  /\ \/ pc[p] = "open" /\ dir[id[p]] # 0
     \/ pc[p] = "read"
  /\ Started(p, {})
  /\ fd' = [fd EXCEPT ![p] = 0]
  /\ disturbed' = disturbed \cup {id[p]}
  /\ UNCHANGED <<cookie, id, len, diskVars, requests, owner, used, mine, kept, ended, buried>>

-----------------------------------------------------------------------------
(* session.set: the copy, then write_file_contents, unless the copy has no *)
(* JSON text.  Whatever fails, set returns as if it had saved.             *)

Set(p) ==
  /\ pc[p] = "script" /\ started[p]
  /\ Len(owner) < MaxSets
  /\ owner' = Append(owner, id[p])
  /\ data' = [data EXCEPT ![p] = @ \cup {Len(owner) + 1}]
  /\ mine' = [mine EXCEPT ![p] = @ \cup {Len(owner) + 1}]
  /\ \/ pc' = [pc EXCEPT ![p] = "truncate"]
     \/ FailMay /\ UNCHANGED pc
  /\ UNCHANGED <<cookie, started, id, fileVars, diskVars, requests, used, kept, ended, buried,
                 disturbed>>

OpenToWrite(p) ==
  /\ pc[p] = "truncate"
  /\ IF dir[id[p]] = 0
     THEN /\ disk' = Append(disk, <<>>)
          /\ dir' = [dir EXCEPT ![id[p]] = Len(disk) + 1]
     ELSE /\ disk' = [disk EXCEPT ![dir[id[p]]] = <<>>]
          /\ UNCHANGED dir
  /\ fd' = [fd EXCEPT ![p] = dir'[id[p]]]
  /\ pc' = [pc EXCEPT ![p] = "write"]
  /\ UNCHANGED <<cookie, started, id, data, len, history>>

OpenFails(p) ==
  /\ FailMay
  /\ pc[p] = "truncate"
  /\ pc' = [pc EXCEPT ![p] = "script"]
  /\ UNCHANGED <<cookie, started, id, data, fileVars, diskVars, history>>

(* The text goes to the start of the file, over what others have written.  *)
Over(text, old) == text \o SubSeq(old, Len(text) + 1, Len(old))

WriteFile_one_key(p) ==
  /\ pc[p] = "write"
  /\ disk' = [disk EXCEPT ![fd[p]] = Over(Text({Len(owner)}), @)]
  /\ kept' = [kept EXCEPT ![id[p]] = @ \cup mine[p]]
  /\ fd' = [fd EXCEPT ![p] = 0]
  /\ pc' = [pc EXCEPT ![p] = "script"]
  /\ UNCHANGED <<cookie, started, id, data, len, dir, requests, owner, used, mine, ended, buried,
                 disturbed>>

WriteFile(p) ==
  /\ pc[p] = "write"
  /\ disk' = [disk EXCEPT ![fd[p]] = Over(Text(data[p]), @)]
  /\ kept' = [kept EXCEPT ![id[p]] = @ \cup mine[p]]
  /\ fd' = [fd EXCEPT ![p] = 0]
  /\ pc' = [pc EXCEPT ![p] = "script"]
  /\ UNCHANGED <<cookie, started, id, data, len, dir, requests, owner, used, mine, ended, buried,
                 disturbed>>

(* The disk is full: a part of the text is written, or nothing, and fputs  *)
(* and fclose are not asked.                                               *)
WriteCut(p) ==
  /\ FailMay
  /\ pc[p] = "write"
  /\ \E k \in 0..Cardinality(data[p]) :
       disk' = [disk EXCEPT ![fd[p]] = Over(SubSeq(Text(data[p]), 1, k), @)]
  /\ disturbed' = disturbed \cup {id[p]}
  /\ fd' = [fd EXCEPT ![p] = 0]
  /\ pc' = [pc EXCEPT ![p] = "script"]
  /\ UNCHANGED <<cookie, started, id, data, len, dir, requests, owner, used, mine, kept, ended,
                 buried>>

-----------------------------------------------------------------------------
(* session.destroy: the file is unlinked, which may fail and is not asked  *)
(* either, and the copy emptied.                                           *)
Destroy(p) ==
  /\ pc[p] = "script" /\ started[p]
  /\ \/ dir' = [dir EXCEPT ![id[p]] = 0] /\ UNCHANGED disturbed
     \/ FailMay /\ UNCHANGED dir /\ disturbed' = disturbed \cup {id[p]}
  /\ data' = [data EXCEPT ![p] = {}]
  /\ started' = [started EXCEPT ![p] = FALSE]
  /\ mine' = [mine EXCEPT ![p] = {}]
  /\ kept' = [kept EXCEPT ![id[p]] = {}]
  /\ ended' = ended \cup kept[id[p]]
  /\ UNCHANGED <<pc, cookie, id, fileVars, disk, requests, owner, used, buried>>

Next ==
  \E p \in Proc :
    \/ Begin(p) \/ End(p) \/ Crash(p)
    \/ StartNew(p) \/ StartKnown(p) \/ OpenToRead(p) \/ FindSize(p) \/ ReadFile(p)
    \/ ReadFails(p)
    \/ Set(p) \/ OpenToWrite(p) \/ OpenFails(p) \/ WriteFile(p) \/ WriteCut(p)
    \/ Destroy(p)

Spec == Init /\ [][Next]_vars

-----------------------------------------------------------------------------
(* Properties.                                                             *)

(* Every variable keeps its type, and a file is open only in the calls     *)
(* that use it.                                                            *)
TypeOK ==
  /\ pc \in [Proc -> {"idle", "script", "open", "size", "read", "truncate", "write"}]
  /\ cookie \in [Proc -> Id \cup {None}]
  /\ started \in [Proc -> BOOLEAN]
  /\ id \in [Proc -> Id \cup {None}]
  /\ data \in [Proc -> SUBSET Stamps]
  /\ fd \in [Proc -> 0..Len(disk)]
  /\ \A p \in Proc : fd[p] # 0 <=> pc[p] \in {"size", "read", "write"}
  /\ len \in [Proc -> Nat]
  /\ dir \in [Id -> 0..Len(disk)]
  /\ disk \in Seq(Seq((SUBSET Stamps) \X Nat))
  /\ requests \in 0..MaxRequests
  /\ owner \in Seq(Id) /\ Len(owner) <= MaxSets
  /\ used \subseteq Id
  /\ mine \in [Proc -> SUBSET Stamps]
  /\ kept \in [Id -> SUBSET Stamps]
  /\ ended \subseteq Stamps
  /\ buried \in [Proc -> SUBSET Stamps]
  /\ disturbed \subseteq Id

(* A script has the session of its own request, never one that the process *)
(* had before, and in it only what was set in that session, however the    *)
(* files were written over each other.                                     *)
SessionIsOwn ==
  \A p \in Proc :
    started[p] =>
      /\ cookie[p] # None => id[p] = cookie[p]
      /\ \A n \in data[p] : owner[n] = id[p]

(* What a script has set it goes on seeing until it destroys the session,  *)
(* whatever other processes do to the file.                                *)
OwnWritesSeen == \A p \in Proc : started[p] => mine[p] \subseteq data[p]

(* As long as the requests of a session come one after the other, a script *)
(* finds in it what was saved before it and not destroyed, and what it has *)
(* set itself, and nothing else.  Saved is what a set, or a later set of   *)
(* the same script, got into the file: a set whose object has no JSON text *)
(* or whose fopen fails returns as if it had saved, but adds nothing, and  *)
(* what was saved before it stays.  Excepted from then on are sessions of  *)
(* which a process died in the middle of a write, a write was cut short,   *)
(* or a read or an unlink failed: they lose what was saved, or keep what   *)
(* was destroyed, and no call tells the script.                            *)
SerialSessionKept ==
  \A p \in Proc :
    (started[p] /\ pc[p] = "script" /\ id[p] \notin disturbed) =>
      data[p] = kept[id[p]] \cup mine[p]
=============================================================================
