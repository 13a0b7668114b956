--------------------------- MODULE Session_proofs ---------------------------
(***************************************************************************)
(* The safety properties of Session, for any processes and session ids.    *)
(***************************************************************************)
EXTENDS Session, FiniteSetTheorems, SequenceTheorems, TLAPS

Cell == (SUBSET Stamps) \X Nat

(* What a process has while it is in a call, and between calls.            *)
ProcInv == \A p \in Proc :
  /\ pc[p] = "idle" => ~started[p]
  /\ started[p] => id[p] \in Id /\ (cookie[p] # None => id[p] = cookie[p])
  /\ ~started[p] => data[p] = {} /\ mine[p] = {}
  /\ mine[p] \subseteq data[p]
  /\ pc[p] \in {"open", "size", "read"} =>
       ~started[p] /\ cookie[p] # None /\ id[p] = cookie[p]
  /\ pc[p] \in {"truncate", "write"} => started[p]

-----------------------------------------------------------------------------
(* Texts.                                                                  *)

LEMMA StampsFinite ==
  ASSUME TypeOK, NEW o \in SUBSET Stamps
  PROVE  IsFiniteSet(o) /\ Cardinality(o) \in Nat
<1>1. Stamps = 1..Len(owner) /\ Len(owner) \in Nat
  BY DEF Stamps
<1>2. IsFiniteSet(Stamps)
  BY <1>1, FS_Interval
<1> QED BY <1>2, FS_Subset, FS_CardinalityType

(* The text of an object is cells of that object, at least one.            *)
LEMMA TextProperties ==
  ASSUME TypeOK, NEW o \in SUBSET Stamps
  PROVE  /\ Text(o) \in Seq(Cell)
         /\ Len(Text(o)) \in Nat \ {0}
         /\ \A k \in 1..Len(Text(o)) : Text(o)[k] = <<o, k>>
<1> DEFINE n == Cardinality(o) + 1
<1>1. n \in Nat \ {0}
  BY StampsFinite
<1>2. Text(o) = [k \in 1..n |-> <<o, k>>]
  BY DEF Text
<1> HIDE DEF n
<1>3. Text(o) \in [1..n -> Cell]
  BY <1>1, <1>2 DEF Cell
<1>4. Text(o) \in Seq(Cell) /\ Len(Text(o)) = n
  BY <1>1, <1>3
<1> QED BY <1>1, <1>2, <1>4

(* What is parsed is nothing, or the object of the first cell.             *)
LEMMA ParseProperties ==
  ASSUME TypeOK, NEW s \in Seq(Cell)
  PROVE  /\ Parse(s) \in SUBSET Stamps
         /\ Parse(s) = {} \/ (1 \in 1..Len(s) /\ Parse(s) = s[1][1])
         /\ \A o \in SUBSET Stamps : s = Text(o) => Parse(s) = o
<1>1. CASE s = <<>>
  <2>1. \A o \in SUBSET Stamps : s # Text(o)
    BY <1>1, TextProperties
  <2> QED BY <1>1, <2>1 DEF Parse
<1>2. CASE s # <<>>
  <2>1. 1 \in 1..Len(s) /\ s[1] \in Cell
    BY <1>2, EmptySeq, ElementOfSeq
  <2>2. s[1][1] \in SUBSET Stamps
    BY <2>1 DEF Cell
  <2>3. \A o \in SUBSET Stamps : s = Text(o) => s[1][1] = o
    BY <2>1, TextProperties
  <2> QED BY <1>2, <2>1, <2>2, <2>3 DEF Parse
<1> QED BY <1>1, <1>2

(* What was read of a file.                                                *)
LEMMA ReadProperties ==
  ASSUME NEW s \in Seq(Cell), NEW m \in Nat
  PROVE  LET r == SubSeq(s, 1, Lesser(m, Len(s)))
         IN  /\ r \in Seq(Cell)
             /\ \A k \in 1..Len(r) : k \in 1..Len(s) /\ r[k] = s[k]
             /\ m = Len(s) => r = s
<1> DEFINE e == Lesser(m, Len(s))
           r == SubSeq(s, 1, e)
<1>1. e \in Nat /\ e <= Len(s) /\ (m = Len(s) => e = Len(s))
  BY DEF Lesser
<1> HIDE DEF e
<1>2. \A k \in 1..e : s[k] \in Cell
  BY <1>1, ElementOfSeq
<1>3. /\ r \in Seq(Cell)
      /\ Len(r) = e
      /\ \A k \in 1..e : r[k] = s[k]
  BY <1>1, <1>2, SubSeqProperties
<1>4. m = Len(s) => r = s
  BY <1>1, <1>3, SeqEqual
<1> QED BY <1>1, <1>3, <1>4 DEF e

(* What is in a file after a write.                                        *)
LEMMA OverProperties ==
  ASSUME NEW t \in Seq(Cell), NEW s \in Seq(Cell)
  PROVE  /\ Over(t, s) \in Seq(Cell)
         /\ \A k \in 1..Len(Over(t, s)) :
              \/ k \in 1..Len(t) /\ Over(t, s)[k] = t[k]
              \/ k \in 1..Len(s) /\ Over(t, s)[k] = s[k]
         /\ s = <<>> => Over(t, s) = t
<1> DEFINE r == SubSeq(s, Len(t) + 1, Len(s))
<1>1. Len(s) \in Nat /\ Len(t) \in Nat
  OBVIOUS
<1>2. \A k \in (Len(t) + 1)..Len(s) : s[k] \in Cell
  BY <1>1, ElementOfSeq
<1>3. /\ r \in Seq(Cell)
      /\ Len(r) = IF Len(t) + 1 <= Len(s) THEN Len(s) - Len(t) ELSE 0
      /\ \A k \in 1..(Len(s) - Len(t)) : r[k] = s[Len(t) + k]
  BY <1>1, <1>2, SubSeqProperties
<1> HIDE DEF r
<1>4. /\ t \o r \in Seq(Cell)
      /\ Len(t \o r) = Len(t) + Len(r)
      /\ \A k \in 1..(Len(t) + Len(r)) :
           (t \o r)[k] = IF k <= Len(t) THEN t[k] ELSE r[k - Len(t)]
  BY <1>3, ConcatProperties
<1>5. Over(t, s) = t \o r
  BY DEF Over, r
<1>6. ASSUME s = <<>> PROVE Over(t, s) = t
  <2>1. Len(r) = 0
    BY <1>1, <1>3, <1>6
  <2> QED BY <1>3, <1>4, <1>5, <2>1, SeqEqual
<1>7. ASSUME NEW k \in 1..Len(Over(t, s))
      PROVE  \/ k \in 1..Len(t) /\ Over(t, s)[k] = t[k]
             \/ k \in 1..Len(s) /\ Over(t, s)[k] = s[k]
  <2>1. CASE k <= Len(t)
    BY <1>1, <1>4, <1>5, <1>7, <2>1
  <2>2. CASE ~(k <= Len(t))
    <3>1. k - Len(t) \in 1..(Len(s) - Len(t)) /\ k \in 1..Len(s)
      BY <1>1, <1>3, <1>4, <1>5, <1>7, <2>2
    <3>2. Over(t, s)[k] = r[k - Len(t)]
      BY <1>1, <1>3, <1>4, <1>5, <1>7, <2>2
    <3>3. r[k - Len(t)] = s[Len(t) + (k - Len(t))]
      BY <1>3, <3>1
    <3> QED BY <1>1, <3>1, <3>2, <3>3
  <2> QED BY <2>1, <2>2
<1> QED BY <1>4, <1>5, <1>6, <1>7

(* What a write that is cut short puts into the file.                      *)
LEMMA CutProperties ==
  ASSUME NEW t \in Seq(Cell), NEW k \in 0..Len(t)
  PROVE  /\ SubSeq(t, 1, k) \in Seq(Cell)
         /\ \A n \in 1..Len(SubSeq(t, 1, k)) : n \in 1..Len(t) /\ SubSeq(t, 1, k)[n] = t[n]
<1>1. k \in Nat /\ k <= Len(t) /\ Lesser(k, Len(t)) = k
  BY DEF Lesser
<1> QED BY <1>1, ReadProperties

LEMMA TextCut ==
  ASSUME TypeOK, NEW o \in SUBSET Stamps, NEW k \in 0..Cardinality(o)
  PROVE  /\ SubSeq(Text(o), 1, k) \in Seq(Cell)
         /\ \A n \in 1..Len(SubSeq(Text(o), 1, k)) : SubSeq(Text(o), 1, k)[n][1] = o
<1>1. Cardinality(o) \in Nat
  BY StampsFinite
<1>2. Len(Text(o)) = Cardinality(o) + 1
  BY <1>1 DEF Text
<1>3. Text(o) \in Seq(Cell) /\ \A n \in 1..Len(Text(o)) : Text(o)[n] = <<o, n>>
  BY TextProperties
<1>4. k \in 0..Len(Text(o))
  BY <1>1, <1>2
<1> QED BY <1>3, <1>4, CutProperties

-----------------------------------------------------------------------------
(* Types.  The stamps grow with every set, and nothing else changes.       *)

LEMMA SetTypes ==
  ASSUME TypeOK, NEW p \in Proc, id[p] \in Id, owner' = Append(owner, id[p])
  PROVE  /\ owner' \in Seq(Id)
         /\ Len(owner') = Len(owner) + 1
         /\ Stamps' = Stamps \cup {Len(owner) + 1}
         /\ \A n \in Stamps : owner'[n] = owner[n]
         /\ owner'[Len(owner) + 1] = id[p]
         /\ disk \in Seq(Seq((SUBSET Stamps') \X Nat))
<1>1. /\ owner' \in Seq(Id)
      /\ Len(owner') = Len(owner) + 1
      /\ \A n \in 1..Len(owner) : owner'[n] = owner[n]
      /\ owner'[Len(owner) + 1] = id[p]
      /\ Stamps = 1..Len(owner)
      /\ Len(owner) \in Nat
  BY AppendProperties DEF TypeOK, Stamps
<1>2. Stamps' = 1..(Len(owner) + 1)
  BY <1>1 DEF Stamps
<1>3. Stamps' = Stamps \cup {Len(owner) + 1}
  BY <1>1, <1>2
<1>4. Cell \subseteq Cell'
  BY <1>3 DEF Cell
<1>5. Seq(Cell) \subseteq Seq(Cell')
  BY <1>4, SeqMonotonic
<1>6. Seq(Seq(Cell)) \subseteq Seq(Seq(Cell'))
  BY <1>5, SeqMonotonic
<1>7. disk \in Seq(Seq(Cell'))
  BY <1>6 DEF TypeOK, Cell
<1> QED BY <1>1, <1>3, <1>7 DEF Cell

(* Every step keeps the types.                                             *)
LEMMA TypeStep == TypeOK /\ ProcInv /\ [Next]_vars => TypeOK'
<1> SUFFICES ASSUME TypeOK, ProcInv, [Next]_vars PROVE TypeOK'
  OBVIOUS
<1> USE ConstantsAssumption DEF procVars, fileVars, diskVars, history
<1>1. ASSUME NEW p \in Proc, Begin(p) PROVE TypeOK'
  BY <1>1 DEF Begin, Closed, TypeOK, Stamps
<1>2. ASSUME NEW p \in Proc, End(p) PROVE TypeOK'
  BY <1>2 DEF End, Closed, TypeOK, Stamps
<1>3. ASSUME NEW p \in Proc, Crash(p) PROVE TypeOK'
  BY <1>3 DEF Crash, Closed, TypeOK, Stamps, ProcInv
<1>4. ASSUME NEW p \in Proc, StartNew(p) PROVE TypeOK'
  BY <1>4 DEF StartNew, Enter, Started, TypeOK, Stamps
<1>5. ASSUME NEW p \in Proc, StartKnown(p) PROVE TypeOK'
  BY <1>5 DEF StartKnown, Enter, NamesSession, TypeOK, Stamps
<1>6. ASSUME NEW p \in Proc, OpenToRead(p) PROVE TypeOK'
  <2>1. id[p] \in Id
    BY <1>6 DEF OpenToRead, ProcInv, TypeOK
  <2>2. CASE dir[id[p]] = 0
    BY <1>6, <2>2 DEF OpenToRead, Started, TypeOK, Stamps
  <2>3. CASE dir[id[p]] # 0
    <3>1. /\ fd' = [fd EXCEPT ![p] = dir[id[p]]]
          /\ pc' = [pc EXCEPT ![p] = "size"]
          /\ UNCHANGED <<cookie, started, id, data, len, diskVars, history>>
      BY <1>6, <2>3 DEF OpenToRead
    <3>2. dir[id[p]] \in 0..Len(disk)
      BY <2>1 DEF TypeOK
    <3>3. fd' \in [Proc -> 0..Len(disk)] /\ fd'[p] # 0
      BY <2>3, <3>1, <3>2 DEF TypeOK
    <3>4. \A q \in Proc : fd'[q] # 0 <=> pc'[q] \in {"size", "read", "write"}
      BY <3>1, <3>3 DEF TypeOK
    <3> QED BY <3>1, <3>3, <3>4 DEF TypeOK, Stamps
  <2> QED BY <2>2, <2>3
<1>7. ASSUME NEW p \in Proc, FindSize(p) PROVE TypeOK'
  <2>1. Len(disk[fd[p]]) \in Nat
    BY <1>7 DEF FindSize
  <2> QED BY <1>7, <2>1 DEF FindSize, TypeOK, Stamps
<1>8. ASSUME NEW p \in Proc, ReadFile(p) PROVE TypeOK'
  <2> DEFINE s == disk[fd[p]]
  <2>1. s \in Seq(Cell) /\ len[p] \in Nat
    BY <1>8 DEF ReadFile, TypeOK, Cell
  <2>2. Parse(SubSeq(s, 1, Lesser(len[p], Len(s)))) \in SUBSET Stamps
    BY <2>1, ReadProperties, ParseProperties
  <2> QED BY <1>8, <2>2 DEF ReadFile, Started, TypeOK, Stamps
<1>9. ASSUME NEW p \in Proc, Set(p) PROVE TypeOK'
  <2>1. id[p] \in Id
    BY <1>9 DEF Set, ProcInv
  <2>2. /\ owner' \in Seq(Id)
        /\ Len(owner') = Len(owner) + 1
        /\ Stamps' = Stamps \cup {Len(owner) + 1}
        /\ disk \in Seq(Seq((SUBSET Stamps') \X Nat))
    BY <1>9, <2>1, SetTypes DEF Set
  <2>3. Len(owner') <= MaxSets
    BY <1>9, <2>2 DEF Set
  <2> QED BY <1>9, <2>2, <2>3 DEF Set, TypeOK
<1>10. ASSUME NEW p \in Proc, OpenToWrite(p) PROVE TypeOK'
  <2>1. id[p] \in Id
    BY <1>10 DEF OpenToWrite, ProcInv
  <2>2. /\ disk' \in Seq(Seq(Cell))
        /\ Len(disk) <= Len(disk')
        /\ dir' \in [Id -> 0..Len(disk')]
        /\ dir'[id[p]] \in 1..Len(disk')
    <3>1. disk \in Seq(Seq(Cell)) /\ dir \in [Id -> 0..Len(disk)] /\ Len(disk) \in Nat
      BY DEF TypeOK, Cell
    <3>2. CASE dir[id[p]] = 0
      <4>1. disk' = Append(disk, <<>>) /\ dir' = [dir EXCEPT ![id[p]] = Len(disk) + 1]
        BY <1>10, <3>2 DEF OpenToWrite
      <4>2. disk' \in Seq(Seq(Cell)) /\ Len(disk') = Len(disk) + 1
        BY <3>1, <4>1, AppendProperties
      <4> QED BY <2>1, <3>1, <4>1, <4>2
    <3>3. CASE dir[id[p]] # 0
      <4>1. disk' = [disk EXCEPT ![dir[id[p]]] = <<>>] /\ dir' = dir
        BY <1>10, <3>3 DEF OpenToWrite
      <4>2. dir[id[p]] \in 1..Len(disk)
        BY <2>1, <3>1, <3>3
      <4>3. disk' \in Seq(Seq(Cell)) /\ Len(disk') = Len(disk)
        BY <3>1, <4>1, <4>2, ExceptSeq
      <4> QED BY <3>1, <4>1, <4>2, <4>3
    <3> QED BY <3>2, <3>3
  <2>3. /\ fd' = [fd EXCEPT ![p] = dir'[id[p]]]
        /\ pc' = [pc EXCEPT ![p] = "write"]
        /\ UNCHANGED <<cookie, started, id, data, len, requests, owner, used, mine, kept, ended,
                       buried, disturbed>>
    BY <1>10 DEF OpenToWrite
  <2>4. /\ fd' \in [Proc -> 0..Len(disk')]
        /\ \A q \in Proc : fd'[q] # 0 <=> pc'[q] \in {"size", "read", "write"}
    <3>1. fd \in [Proc -> 0..Len(disk)] /\ Len(disk) \in Nat /\ Len(disk') \in Nat
      BY <2>2 DEF TypeOK
    <3>2. fd \in [Proc -> 0..Len(disk')]
      BY <2>2, <3>1
    <3>3. fd' \in [Proc -> 0..Len(disk')] /\ fd'[p] # 0
      BY <2>2, <2>3, <3>1, <3>2
    <3> QED BY <2>3, <3>1, <3>3 DEF TypeOK
  <2> QED BY <2>2, <2>3, <2>4 DEF TypeOK, Stamps, Cell
<1>11. ASSUME NEW p \in Proc, WriteFile(p) PROVE TypeOK'
  <2>1. id[p] \in Id /\ fd[p] \in 1..Len(disk)
    BY <1>11 DEF WriteFile, ProcInv, TypeOK
  <2>2. Over(Text(data[p]), disk[fd[p]]) \in Seq(Cell)
    <3>1. data[p] \in SUBSET Stamps /\ disk[fd[p]] \in Seq(Cell)
      BY <2>1, ElementOfSeq DEF TypeOK, Cell
    <3> QED BY <3>1, TextProperties, OverProperties
  <2> QED BY <1>11, <2>1, <2>2 DEF WriteFile, TypeOK, Stamps, Cell
<1>12. ASSUME NEW p \in Proc, Destroy(p) PROVE TypeOK'
  BY <1>12 DEF Destroy, ProcInv, TypeOK, Stamps
<1>14. ASSUME NEW p \in Proc, ReadFails(p) PROVE TypeOK'
  <2>1. id[p] \in Id
    BY <1>14 DEF ReadFails, ProcInv, TypeOK
  <2> QED BY <1>14, <2>1 DEF ReadFails, Started, TypeOK, Stamps
<1>15. ASSUME NEW p \in Proc, OpenFails(p) PROVE TypeOK'
  BY <1>15 DEF OpenFails, TypeOK, Stamps
<1>16. ASSUME NEW p \in Proc, WriteCut(p) PROVE TypeOK'
  <2> PICK k \in 0..Cardinality(data[p]) :
        disk' = [disk EXCEPT ![fd[p]] = Over(SubSeq(Text(data[p]), 1, k), @)]
    BY <1>16 DEF WriteCut
  <2>1. id[p] \in Id /\ fd[p] \in 1..Len(disk)
    BY <1>16 DEF WriteCut, ProcInv, TypeOK
  <2>2. Over(SubSeq(Text(data[p]), 1, k), disk[fd[p]]) \in Seq(Cell)
    <3>1. data[p] \in SUBSET Stamps /\ disk[fd[p]] \in Seq(Cell)
      BY <2>1, ElementOfSeq DEF TypeOK, Cell
    <3>2. SubSeq(Text(data[p]), 1, k) \in Seq(Cell)
      BY <3>1, TextCut
    <3> QED BY <3>1, <3>2, OverProperties
  <2> QED BY <1>16, <2>1, <2>2 DEF WriteCut, TypeOK, Stamps, Cell
<1>13. CASE UNCHANGED vars
  BY <1>13 DEF vars, TypeOK, Stamps
<1> QED BY <1>1, <1>2, <1>3, <1>4, <1>5, <1>6, <1>7, <1>8, <1>9, <1>10, <1>11, <1>12, <1>13,
        <1>14, <1>15, <1>16 DEF Next

(* Every step keeps what a process has in its calls.                       *)
LEMMA ProcStep == TypeOK /\ ProcInv /\ [Next]_vars => ProcInv'
<1> SUFFICES ASSUME TypeOK, ProcInv, [Next]_vars PROVE ProcInv'
  OBVIOUS
<1> USE ConstantsAssumption DEF procVars, fileVars, diskVars, history
<1>1. ASSUME NEW p \in Proc, Begin(p) PROVE ProcInv'
  BY <1>1 DEF Begin, Closed, ProcInv
<1>2. ASSUME NEW p \in Proc, End(p) PROVE ProcInv'
  BY <1>2 DEF End, Closed, TypeOK, ProcInv
<1>3. ASSUME NEW p \in Proc, Crash(p) PROVE ProcInv'
  BY <1>3 DEF Crash, Closed, TypeOK, ProcInv
<1>4. ASSUME NEW p \in Proc, StartNew(p) PROVE ProcInv'
  BY <1>4 DEF StartNew, Enter, NamesSession, Started, TypeOK, ProcInv
<1>5. ASSUME NEW p \in Proc, StartKnown(p) PROVE ProcInv'
  BY <1>5 DEF StartKnown, Enter, NamesSession, TypeOK, ProcInv
<1>6. ASSUME NEW p \in Proc, OpenToRead(p) PROVE ProcInv'
  <2>1. CASE dir[id[p]] = 0
    BY <1>6, <2>1 DEF OpenToRead, Started, TypeOK, ProcInv
  <2>2. CASE dir[id[p]] # 0
    BY <1>6, <2>2 DEF OpenToRead, TypeOK, ProcInv
  <2> QED BY <2>1, <2>2
<1>7. ASSUME NEW p \in Proc, FindSize(p) PROVE ProcInv'
  BY <1>7 DEF FindSize, ProcInv
<1>8. ASSUME NEW p \in Proc, ReadFile(p) PROVE ProcInv'
  BY <1>8 DEF ReadFile, Started, TypeOK, ProcInv
<1>9. ASSUME NEW p \in Proc, Set(p) PROVE ProcInv'
  BY <1>9 DEF Set, TypeOK, ProcInv
<1>10. ASSUME NEW p \in Proc, OpenToWrite(p) PROVE ProcInv'
  BY <1>10 DEF OpenToWrite, ProcInv
<1>11. ASSUME NEW p \in Proc, WriteFile(p) PROVE ProcInv'
  BY <1>11 DEF WriteFile, ProcInv
<1>12. ASSUME NEW p \in Proc, Destroy(p) PROVE ProcInv'
  BY <1>12 DEF Destroy, TypeOK, ProcInv
<1>14. ASSUME NEW p \in Proc, ReadFails(p) PROVE ProcInv'
  BY <1>14 DEF ReadFails, Started, TypeOK, ProcInv
<1>15. ASSUME NEW p \in Proc, OpenFails(p) PROVE ProcInv'
  BY <1>15 DEF OpenFails, ProcInv
<1>16. ASSUME NEW p \in Proc, WriteCut(p) PROVE ProcInv'
  BY <1>16 DEF WriteCut, ProcInv
<1>13. CASE UNCHANGED vars
  BY <1>13 DEF vars, ProcInv
<1> QED BY <1>1, <1>2, <1>3, <1>4, <1>5, <1>6, <1>7, <1>8, <1>9, <1>10, <1>11, <1>12, <1>13,
        <1>14, <1>15, <1>16 DEF Next

LEMMA Initial == Init => TypeOK /\ ProcInv
<1> SUFFICES ASSUME Init PROVE TypeOK /\ ProcInv
  OBVIOUS
<1> USE ConstantsAssumption DEF Init
<1>1. /\ owner \in Seq(Id) /\ Len(owner) = 0
      /\ disk \in Seq(Seq((SUBSET Stamps) \X Nat)) /\ Len(disk) = 0
  BY EmptySeq
<1> QED BY <1>1 DEF TypeOK, ProcInv

(* Every variable keeps its type.                                          *)
THEOREM TypeCorrect == Spec => []TypeOK
<1>1. Init => TypeOK /\ ProcInv
  BY Initial
<1>2. TypeOK /\ ProcInv /\ [Next]_vars => (TypeOK /\ ProcInv)'
  BY TypeStep, ProcStep
<1> QED BY <1>1, <1>2, PTL DEF Spec

(* What a script has set it goes on seeing until it destroys the session,  *)
(* whatever other processes do to its file.                                *)
THEOREM WritesCorrect == Spec => []OwnWritesSeen
<1>1. Init => TypeOK /\ ProcInv
  BY Initial
<1>2. TypeOK /\ ProcInv /\ [Next]_vars => (TypeOK /\ ProcInv)'
  BY TypeStep, ProcStep
<1>3. ProcInv => OwnWritesSeen
  BY DEF ProcInv, OwnWritesSeen
<1> QED BY <1>1, <1>2, <1>3, PTL DEF Spec

-----------------------------------------------------------------------------
(* Whose the files are.  A file is created for one session; whoever has it *)
(* open, linked or not, has that session, and so all that is in it was set *)
(* there.                                                                  *)

Owned(home) ==
  /\ \A i \in Id : dir[i] # 0 => home[dir[i]] = i
  /\ \A p \in Proc : fd[p] # 0 => home[fd[p]] = id[p]
  /\ \A f \in 1..Len(disk) : \A k \in 1..Len(disk[f]) :
       \A n \in disk[f][k][1] : owner[n] = home[f]

OwnInv ==
  /\ \E home \in [1..Len(disk) -> Id] : Owned(home)
  /\ \A p \in Proc : \A n \in data[p] : owner[n] = id[p]

(* A write, whole or cut short, of an object that is the session's own.    *)
LEMMA OwnWrite ==
  ASSUME TypeOK, OwnInv, NEW p \in Proc, pc[p] = "write",
         NEW t \in Seq(Cell), \A n \in 1..Len(t) : t[n][1] = data[p],
         disk' = [disk EXCEPT ![fd[p]] = Over(t, @)],
         fd' = [fd EXCEPT ![p] = 0], UNCHANGED <<id, data, dir, owner>>
  PROVE  \E h \in [1..Len(disk') -> Id] : Owned(h)'
<1> PICK home \in [1..Len(disk) -> Id] : Owned(home)
  BY DEF OwnInv
<1> DEFINE s == disk[fd[p]]
<1>1. fd[p] \in 1..Len(disk) /\ home[fd[p]] = id[p] /\ disk \in Seq(Seq(Cell))
  BY DEF TypeOK, Owned, Cell
<1>2. s \in Seq(Cell)
  BY <1>1, ElementOfSeq
<1>3. /\ Over(t, s) \in Seq(Cell)
      /\ \A k \in 1..Len(Over(t, s)) :
           \/ k \in 1..Len(t) /\ Over(t, s)[k] = t[k]
           \/ k \in 1..Len(s) /\ Over(t, s)[k] = s[k]
  BY <1>2, OverProperties
<1>4. \A k \in 1..Len(Over(t, s)) : \A n \in Over(t, s)[k][1] : owner[n] = home[fd[p]]
  <2> SUFFICES ASSUME NEW k \in 1..Len(Over(t, s))
               PROVE  \A n \in Over(t, s)[k][1] : owner[n] = home[fd[p]]
    OBVIOUS
  <2>1. CASE k \in 1..Len(t) /\ Over(t, s)[k] = t[k]
    <3>1. Over(t, s)[k][1] = data[p]
      BY <2>1
    <3>2. \A n \in data[p] : owner[n] = id[p]
      BY DEF OwnInv
    <3> QED BY <1>1, <3>1, <3>2
  <2>2. CASE k \in 1..Len(s) /\ Over(t, s)[k] = s[k]
    BY <1>1, <2>2 DEF Owned
  <2> QED BY <1>3, <2>1, <2>2
<1>5. /\ Len(disk') = Len(disk)
      /\ \A f \in 1..Len(disk) : disk'[f] = IF f = fd[p] THEN Over(t, s) ELSE disk[f]
  BY <1>1, <1>3, ExceptSeq
<1>6. \A f \in 1..Len(disk') : \A k \in 1..Len(disk'[f]) :
        \A n \in disk'[f][k][1] : owner'[n] = home[f]
  BY <1>4, <1>5 DEF Owned
<1>7. Owned(home)'
  BY <1>6 DEF Owned
<1> QED BY <1>5, <1>7

LEMMA OwnStep == TypeOK /\ ProcInv /\ OwnInv /\ [Next]_vars => OwnInv'
<1> SUFFICES ASSUME TypeOK, ProcInv, OwnInv, [Next]_vars PROVE OwnInv'
  OBVIOUS
<1> PICK home \in [1..Len(disk) -> Id] : Owned(home)
  BY DEF OwnInv
<1> USE ConstantsAssumption DEF procVars, fileVars, diskVars, history
<1>0. ASSUME NEW p \in Proc, NEW i, fd[p] = 0, id' = [id EXCEPT ![p] = i],
             UNCHANGED <<dir, disk, fd, owner>>
      PROVE  Owned(home)'
  BY <1>0 DEF Owned
<1>1. ASSUME NEW p \in Proc, Begin(p) PROVE OwnInv'
  <2>1. fd[p] = 0 /\ disk' = disk
    BY <1>1 DEF Begin, TypeOK
  <2>2. Owned(home)'
    BY <1>0, <1>1, <2>1 DEF Begin
  <2> QED BY <1>1, <2>1, <2>2 DEF Begin, Closed, OwnInv, TypeOK
<1>2. ASSUME NEW p \in Proc, End(p) PROVE OwnInv'
  <2>1. Owned(home)' /\ disk' = disk
    BY <1>2 DEF End, Owned
  <2> QED BY <1>2, <2>1 DEF End, Closed, OwnInv
<1>3. ASSUME NEW p \in Proc, Crash(p) PROVE OwnInv'
  <2>1. Owned(home)' /\ disk' = disk
    BY <1>3 DEF Crash, Owned, TypeOK
  <2> QED BY <1>3, <2>1 DEF Crash, Closed, OwnInv, TypeOK
<1>4. ASSUME NEW p \in Proc, StartNew(p) PROVE OwnInv'
  <2>1. fd[p] = 0 /\ disk' = disk
    BY <1>4 DEF StartNew, TypeOK
  <2>2. Owned(home)'
    BY <1>0, <1>4, <2>1 DEF StartNew, Enter
  <2> QED BY <1>4, <2>1, <2>2 DEF StartNew, Enter, Started, OwnInv, TypeOK
<1>5. ASSUME NEW p \in Proc, StartKnown(p) PROVE OwnInv'
  <2>1. fd[p] = 0 /\ disk' = disk
    BY <1>5 DEF StartKnown, TypeOK
  <2>2. Owned(home)'
    BY <1>0, <1>5, <2>1 DEF StartKnown, Enter
  <2> QED BY <1>5, <2>1, <2>2 DEF StartKnown, Enter, OwnInv, ProcInv
<1>6. ASSUME NEW p \in Proc, OpenToRead(p) PROVE OwnInv'
  <2>1. id[p] \in Id
    BY <1>6 DEF OpenToRead, ProcInv, TypeOK
  <2>2. CASE dir[id[p]] = 0
    <3>1. Owned(home)' /\ disk' = disk
      BY <1>6, <2>2 DEF OpenToRead, Owned
    <3> QED BY <1>6, <2>2, <3>1 DEF OpenToRead, Started, OwnInv, TypeOK
  <2>3. CASE dir[id[p]] # 0
    <3>1. Owned(home)' /\ disk' = disk
      BY <1>6, <2>1, <2>3 DEF OpenToRead, Owned, TypeOK
    <3> QED BY <1>6, <2>3, <3>1 DEF OpenToRead, OwnInv
  <2> QED BY <2>2, <2>3
<1>7. ASSUME NEW p \in Proc, FindSize(p) PROVE OwnInv'
  <2>1. Owned(home)' /\ disk' = disk
    BY <1>7 DEF FindSize, Owned
  <2> QED BY <1>7, <2>1 DEF FindSize, OwnInv
<1>8. ASSUME NEW p \in Proc, ReadFile(p) PROVE OwnInv'
  <2> DEFINE s == disk[fd[p]]
             o == Parse(SubSeq(s, 1, Lesser(len[p], Len(s))))
  <2>1. Owned(home)' /\ disk' = disk
    BY <1>8 DEF ReadFile, Owned
  <2>2. fd[p] \in 1..Len(disk) /\ home[fd[p]] = id[p]
    BY <1>8 DEF ReadFile, TypeOK, Owned
  <2>3. s \in Seq(Cell) /\ len[p] \in Nat
    BY <2>2, ElementOfSeq DEF TypeOK, Cell
  <2>4. o = {} \/ (1 \in 1..Len(s) /\ o = s[1][1])
    <3> DEFINE r == SubSeq(s, 1, Lesser(len[p], Len(s)))
    <3>1. r \in Seq(Cell) /\ \A k \in 1..Len(r) : k \in 1..Len(s) /\ r[k] = s[k]
      BY <2>3, ReadProperties
    <3> HIDE DEF r
    <3>2. Parse(r) = {} \/ (1 \in 1..Len(r) /\ Parse(r) = r[1][1])
      BY <3>1, ParseProperties
    <3> QED BY <3>1, <3>2 DEF r
  <2>5. \A n \in o : owner[n] = id[p]
    BY <2>2, <2>4 DEF Owned
  <2>6. data' = [data EXCEPT ![p] = o] /\ owner' = owner /\ id' = id
    BY <1>8 DEF ReadFile, Started
  <2> QED BY <2>1, <2>5, <2>6 DEF OwnInv
<1>9. ASSUME NEW p \in Proc, Set(p) PROVE OwnInv'
  <2>1. id[p] \in Id
    BY <1>9 DEF Set, ProcInv
  <2>2. /\ \A n \in Stamps : owner'[n] = owner[n]
        /\ owner'[Len(owner) + 1] = id[p]
    BY <1>9, <2>1, SetTypes DEF Set
  <2>3. \A f \in 1..Len(disk) : \A k \in 1..Len(disk[f]) : disk[f][k][1] \in SUBSET Stamps
    <3> SUFFICES ASSUME NEW f \in 1..Len(disk), NEW k \in 1..Len(disk[f])
                 PROVE  disk[f][k][1] \in SUBSET Stamps
      OBVIOUS
    <3>1. disk[f] \in Seq(Cell)
      BY ElementOfSeq DEF TypeOK, Cell
    <3>2. disk[f][k] \in Cell
      BY <3>1, ElementOfSeq
    <3> QED BY <3>2 DEF Cell
  <2>4. UNCHANGED <<dir, disk, fd, id>>
    BY <1>9 DEF Set
  <2>5. Owned(home)' /\ disk' = disk
    BY <2>2, <2>3, <2>4 DEF Owned
  <2>6. data' = [data EXCEPT ![p] = @ \cup {Len(owner) + 1}]
    BY <1>9 DEF Set
  <2>7. \A q \in Proc : data[q] \in SUBSET Stamps
    BY DEF TypeOK
  <2>8. \A q \in Proc : \A n \in data'[q] : owner'[n] = id'[q]
    BY <2>2, <2>4, <2>6, <2>7 DEF OwnInv
  <2> QED BY <2>5, <2>8 DEF OwnInv
<1>10. ASSUME NEW p \in Proc, OpenToWrite(p) PROVE OwnInv'
  <2>1. id[p] \in Id /\ Len(disk) \in Nat /\ disk \in Seq(Seq(Cell))
    BY <1>10 DEF OpenToWrite, ProcInv, TypeOK, Cell
  <2>2. /\ fd' = [fd EXCEPT ![p] = dir'[id[p]]]
        /\ UNCHANGED <<id, data, owner>>
    BY <1>10 DEF OpenToWrite
  <2>3. \E h \in [1..Len(disk') -> Id] : Owned(h)'
    <3>1. CASE dir[id[p]] = 0
      <4> DEFINE h == [f \in 1..Len(disk') |-> IF f = Len(disk') THEN id[p] ELSE home[f]]
      <4>1. disk' = Append(disk, <<>>) /\ dir' = [dir EXCEPT ![id[p]] = Len(disk) + 1]
        BY <1>10, <3>1 DEF OpenToWrite
      <4>2. /\ Len(disk') = Len(disk) + 1
            /\ \A f \in 1..Len(disk) : disk'[f] = disk[f]
            /\ disk'[Len(disk) + 1] = <<>>
        BY <2>1, <4>1, AppendProperties
      <4>3. h \in [1..Len(disk') -> Id] /\ h[Len(disk) + 1] = id[p]
        BY <2>1, <4>2
      <4>4. \A f \in 1..Len(disk) : h[f] = home[f]
        BY <2>1, <4>2
      <4> HIDE DEF h
      <4>5. \A i \in Id : dir'[i] # 0 => h[dir'[i]] = i
        BY <2>1, <4>1, <4>3, <4>4 DEF Owned, TypeOK
      <4>6. \A q \in Proc : fd'[q] # 0 => h[fd'[q]] = id'[q]
        BY <2>1, <2>2, <4>1, <4>3, <4>4 DEF Owned, TypeOK
      <4>7. \A f \in 1..Len(disk') : \A k \in 1..Len(disk'[f]) :
              \A n \in disk'[f][k][1] : owner'[n] = h[f]
        <5> SUFFICES ASSUME NEW f \in 1..Len(disk'), NEW k \in 1..Len(disk'[f]),
                            NEW n \in disk'[f][k][1]
                     PROVE  owner'[n] = h[f]
          OBVIOUS
        <5>1. f \in 1..Len(disk)
          BY <2>1, <4>2
        <5> QED BY <2>2, <4>2, <4>4, <5>1 DEF Owned
      <4> QED BY <4>3, <4>5, <4>6, <4>7 DEF Owned
    <3>2. CASE dir[id[p]] # 0
      <4>1. disk' = [disk EXCEPT ![dir[id[p]]] = <<>>] /\ dir' = dir
        BY <1>10, <3>2 DEF OpenToWrite
      <4>2. dir[id[p]] \in 1..Len(disk)
        BY <2>1, <3>2 DEF TypeOK
      <4>3. /\ Len(disk') = Len(disk)
            /\ \A f \in 1..Len(disk) : disk'[f] = IF f = dir[id[p]] THEN <<>> ELSE disk[f]
        BY <2>1, <4>1, <4>2, ExceptSeq
      <4>4. \A q \in Proc : fd'[q] # 0 => home[fd'[q]] = id'[q]
        BY <2>1, <2>2, <3>2, <4>1 DEF Owned
      <4>5. \A f \in 1..Len(disk') : \A k \in 1..Len(disk'[f]) :
              \A n \in disk'[f][k][1] : owner'[n] = home[f]
        BY <2>2, <4>3 DEF Owned
      <4> QED BY <4>1, <4>3, <4>4, <4>5 DEF Owned
    <3> QED BY <3>1, <3>2
  <2> QED BY <2>2, <2>3 DEF OwnInv
<1>11. ASSUME NEW p \in Proc, WriteFile(p) PROVE OwnInv'
  <2> DEFINE t == Text(data[p])
  <2>1. data[p] \in SUBSET Stamps
    BY DEF TypeOK
  <2>2. t \in Seq(Cell) /\ \A n \in 1..Len(t) : t[n][1] = data[p]
    BY <2>1, TextProperties
  <2>3. disk' = [disk EXCEPT ![fd[p]] = Over(t, @)]
    BY <1>11 DEF WriteFile
  <2> HIDE DEF t
  <2>4. \E h \in [1..Len(disk') -> Id] : Owned(h)'
    BY <1>11, <2>2, <2>3, OwnWrite DEF WriteFile
  <2> QED BY <1>11, <2>4 DEF WriteFile, OwnInv
<1>14. ASSUME NEW p \in Proc, ReadFails(p) PROVE OwnInv'
  <2>1. Owned(home)' /\ disk' = disk
    BY <1>14 DEF ReadFails, Owned, TypeOK
  <2> QED BY <1>14, <2>1 DEF ReadFails, Started, OwnInv, TypeOK
<1>15. ASSUME NEW p \in Proc, OpenFails(p) PROVE OwnInv'
  <2>1. Owned(home)' /\ disk' = disk
    BY <1>15 DEF OpenFails, Owned
  <2> QED BY <1>15, <2>1 DEF OpenFails, OwnInv
<1>16. ASSUME NEW p \in Proc, WriteCut(p) PROVE OwnInv'
  <2> PICK k \in 0..Cardinality(data[p]) :
        disk' = [disk EXCEPT ![fd[p]] = Over(SubSeq(Text(data[p]), 1, k), @)]
    BY <1>16 DEF WriteCut
  <2> DEFINE t == SubSeq(Text(data[p]), 1, k)
  <2>1. data[p] \in SUBSET Stamps
    BY DEF TypeOK
  <2>2. t \in Seq(Cell) /\ \A n \in 1..Len(t) : t[n][1] = data[p]
    BY <2>1, TextCut
  <2>3. disk' = [disk EXCEPT ![fd[p]] = Over(t, @)]
    OBVIOUS
  <2> HIDE DEF t
  <2>4. \E h \in [1..Len(disk') -> Id] : Owned(h)'
    BY <1>16, <2>2, <2>3, OwnWrite DEF WriteCut
  <2> QED BY <1>16, <2>4 DEF WriteCut, OwnInv
<1>12. ASSUME NEW p \in Proc, Destroy(p) PROVE OwnInv'
  <2>1. id[p] \in Id
    BY <1>12 DEF Destroy, ProcInv
  <2>3. /\ \A i \in Id : dir'[i] \in {0, dir[i]}
        /\ UNCHANGED <<id, fd, disk, owner>>
    BY <1>12, <2>1 DEF Destroy, TypeOK
  <2>2. Owned(home)' /\ disk' = disk
    BY <2>3 DEF Owned
  <2> QED BY <1>12, <2>2 DEF Destroy, OwnInv
<1>13. CASE UNCHANGED vars
  <2>1. Owned(home)' /\ disk' = disk
    BY <1>13 DEF vars, Owned
  <2> QED BY <1>13, <2>1 DEF vars, OwnInv
<1> QED BY <1>1, <1>2, <1>3, <1>4, <1>5, <1>6, <1>7, <1>8, <1>9, <1>10, <1>11, <1>12, <1>13,
        <1>14, <1>15, <1>16 DEF Next

LEMMA OwnInitial == Init => OwnInv
<1> SUFFICES ASSUME Init PROVE OwnInv
  OBVIOUS
<1>1. [x \in 1..0 |-> None] \in [1..0 -> Id]
  OBVIOUS
<1>2. Owned([x \in 1..0 |-> None]) /\ Len(disk) = 0
  BY DEF Init, Owned
<1> QED BY <1>1, <1>2 DEF Init, OwnInv

(* A script has the session of its own request and in it only what was set *)
(* in that session.                                                        *)
THEOREM SessionsCorrect == Spec => []SessionIsOwn
<1>1. Init => TypeOK /\ ProcInv /\ OwnInv
  BY Initial, OwnInitial
<1>2. TypeOK /\ ProcInv /\ OwnInv /\ [Next]_vars => (TypeOK /\ ProcInv /\ OwnInv)'
  BY TypeStep, ProcStep, OwnStep
<1>3. ProcInv /\ OwnInv => SessionIsOwn
  BY DEF ProcInv, OwnInv, SessionIsOwn
<1> QED BY <1>1, <1>2, <1>3, PTL DEF Spec

-----------------------------------------------------------------------------
(* A session whose requests come one after the other: one process at most  *)
(* has it, and but for the moment between emptying the file and writing it *)
(* the file is the text of what was saved.                                 *)

Calls(p, i) ==
  /\ pc[p] \in {"size", "read", "write"} => fd[p] = dir[i]
  /\ pc[p] = "read" => len[p] = Len(disk[dir[i]])
  /\ pc[p] = "write" => disk[dir[i]] = <<>>
  /\ pc[p] = "script" /\ started[p] => data[p] = kept[i] \cup mine[p]
  /\ pc[p] \in {"truncate", "write"} => data[p] = kept[i] \cup mine[p]

Serial(i) ==
  /\ \A p, q \in Proc :
       pc[p] # "idle" /\ pc[q] # "idle" /\ id[p] = i /\ id[q] = i => p = q
  /\ dir[i] = 0 => kept[i] = {}
  /\ \/ dir[i] = 0
     \/ disk[dir[i]] = Text(kept[i])
     \/ \E p \in Proc : id[p] = i /\ pc[p] = "write"
  /\ \A p \in Proc : id[p] = i => Calls(p, i)

SerialInv ==
  /\ \A i \in Id \ used : kept[i] = {} /\ dir[i] = 0
  /\ \A p \in Proc : id[p] # None => id[p] \in used
  /\ \A i \in Id \ disturbed : Serial(i)

(* No two sessions have the same file.                                     *)
LEMMA FilesDistinct ==
  ASSUME OwnInv, TypeOK
  PROVE  /\ \A i, j \in Id : dir[i] = dir[j] /\ dir[i] # 0 => i = j
         /\ \A p \in Proc, i \in Id : fd[p] = dir[i] /\ fd[p] # 0 => id[p] = i
<1> PICK home \in [1..Len(disk) -> Id] : Owned(home)
  BY DEF OwnInv
<1> QED BY DEF Owned

(* A step of a process that has another session, or leaves this one.       *)
LEMMA SerialFrame ==
  ASSUME NEW i \in Id, NEW p \in Proc, TypeOK, Serial(i),
         pc'[p] = "idle" \/ id'[p] # i,
         pc[p] = "write" => id[p] # i,
         \A q \in Proc \ {p} :
           /\ pc'[q] = pc[q] /\ id'[q] = id[q] /\ started'[q] = started[q]
           /\ data'[q] = data[q] /\ mine'[q] = mine[q] /\ fd'[q] = fd[q] /\ len'[q] = len[q],
         dir'[i] = dir[i], kept'[i] = kept[i],
         dir[i] # 0 => disk'[dir[i]] = disk[dir[i]]
  PROVE  Serial(i)'
<1>1. \A q \in Proc \ {p} : id[q] = i => Calls(q, i)'
  BY DEF Serial, Calls, TypeOK
<1>2. id'[p] = i => Calls(p, i)'
  BY DEF Calls
<1>3. \A q, r \in Proc :
        pc'[q] # "idle" /\ pc'[r] # "idle" /\ id'[q] = i /\ id'[r] = i => q = r
  BY DEF Serial
<1>4. /\ dir'[i] = 0 => kept'[i] = {}
      /\ \/ dir'[i] = 0
         \/ disk'[dir'[i]] = Text(kept'[i])
         \/ \E q \in Proc : id'[q] = i /\ pc'[q] = "write"
  BY DEF Serial
<1> QED BY <1>1, <1>2, <1>3, <1>4 DEF Serial

(* A step of the one process that has the session.                         *)
LEMMA SerialTurn ==
  ASSUME NEW i \in Id, NEW p \in Proc,
         id'[p] = i, Calls(p, i)',
         \A q \in Proc \ {p} :
           pc'[q] = pc[q] /\ id'[q] = id[q] /\ (id[q] = i => pc[q] = "idle"),
         dir'[i] = 0 => kept'[i] = {},
         dir'[i] # 0 /\ pc'[p] # "write" => disk'[dir'[i]] = Text(kept'[i])
  PROVE  Serial(i)'
<1>1. \A q \in Proc \ {p} : id'[q] = i => Calls(q, i)'
  BY DEF Calls
<1> QED BY <1>1 DEF Serial

(* The process that has an undisturbed session has it alone.               *)
LEMMA Alone ==
  ASSUME NEW i \in Id, NEW p \in Proc, Serial(i), id[p] = i, pc[p] # "idle"
  PROVE  /\ \A q \in Proc \ {p} : id[q] = i => pc[q] = "idle"
         /\ dir[i] # 0 /\ pc[p] # "write" => disk[dir[i]] = Text(kept[i])
         /\ Calls(p, i)
BY DEF Serial

LEMMA SerialStep ==
  TypeOK /\ ProcInv /\ OwnInv /\ SerialInv /\ [Next]_vars =>
    \A i \in Id \ disturbed' : Serial(i)'
<1> SUFFICES ASSUME TypeOK, ProcInv, OwnInv, SerialInv, [Next]_vars, NEW i \in Id \ disturbed'
             PROVE  Serial(i)'
  OBVIOUS
<1> USE ConstantsAssumption DEF procVars, fileVars, diskVars, history
<1>0. i \in Id \ disturbed => Serial(i)
  BY DEF SerialInv
<1>1. ASSUME NEW p \in Proc, Begin(p) PROVE Serial(i)'
  <2>1. Serial(i) /\ id'[p] # i
    BY <1>0, <1>1 DEF Begin, TypeOK
  <2> QED BY <1>1, <2>1, SerialFrame DEF Begin, Closed, TypeOK
<1>2. ASSUME NEW p \in Proc, End(p) PROVE Serial(i)'
  <2>1. Serial(i) /\ pc'[p] = "idle"
    BY <1>0, <1>2 DEF End, TypeOK
  <2> QED BY <1>2, <2>1, SerialFrame DEF End, Closed, TypeOK
<1>3. ASSUME NEW p \in Proc, Crash(p) PROVE Serial(i)'
  <2>1. Serial(i) /\ pc'[p] = "idle" /\ (pc[p] = "write" => id[p] # i)
    BY <1>0, <1>3 DEF Crash, TypeOK
  <2> QED BY <1>3, <2>1, SerialFrame DEF Crash, Closed, TypeOK
<1>4. ASSUME NEW p \in Proc, StartNew(p) PROVE Serial(i)'
  <2> PICK j \in Id \ used : Enter(p, j)
    BY <1>4 DEF StartNew
  <2>1. Serial(i)
    BY <1>0 DEF Enter
  <2>2. /\ pc[p] = "script" /\ id' = [id EXCEPT ![p] = j]
        /\ data' = [data EXCEPT ![p] = {}] /\ started' = [started EXCEPT ![p] = TRUE]
        /\ pc' = [pc EXCEPT ![p] = "script"]
        /\ UNCHANGED <<fd, len, dir, disk, mine, kept>>
    BY <1>4 DEF StartNew, Started, Enter
  <2>3. CASE i = j
    <3>1. kept[i] = {} /\ dir[i] = 0 /\ \A q \in Proc : id[q] # i
      BY <2>3 DEF SerialInv
    <3>2. mine[p] = {}
      BY <1>4 DEF StartNew, ProcInv
    <3>3. id'[p] = i /\ Calls(p, i)'
      BY <2>2, <2>3, <3>1, <3>2 DEF Calls, TypeOK
    <3> QED BY <2>2, <3>1, <3>3, SerialTurn DEF TypeOK
  <2>4. CASE i # j
    BY <2>1, <2>2, <2>4, SerialFrame DEF TypeOK
  <2> QED BY <2>3, <2>4
<1>5. ASSUME NEW p \in Proc, StartKnown(p) PROVE Serial(i)'
  <2>1. Serial(i)
    BY <1>0, <1>5 DEF StartKnown, Enter
  <2>2. /\ pc[p] = "script" /\ id' = [id EXCEPT ![p] = cookie[p]]
        /\ pc' = [pc EXCEPT ![p] = "open"]
        /\ UNCHANGED <<data, started, fd, len, dir, disk, mine, kept>>
    BY <1>5 DEF StartKnown, Enter
  <2>3. CASE i = cookie[p]
    <3>1. \A q \in Proc \ {p} : id[q] = i => pc[q] = "idle"
      BY <1>5, <2>3 DEF StartKnown, Enter
    <3>2. dir[i] # 0 => disk[dir[i]] = Text(kept[i])
      BY <2>1, <2>2, <3>1 DEF Serial
    <3>3. id'[p] = i /\ Calls(p, i)'
      BY <2>2, <2>3 DEF Calls, TypeOK
    <3>4. dir[i] = 0 => kept[i] = {}
      BY <2>1 DEF Serial
    <3> QED BY <2>2, <3>1, <3>2, <3>3, <3>4, SerialTurn DEF TypeOK
  <2>4. CASE i # cookie[p]
    BY <2>1, <2>2, <2>4, SerialFrame DEF TypeOK
  <2> QED BY <2>3, <2>4
<1>6. ASSUME NEW p \in Proc, OpenToRead(p) PROVE Serial(i)'
  <2>1. Serial(i) /\ pc[p] = "open" /\ UNCHANGED <<id, len, dir, disk, mine, kept>>
    BY <1>0, <1>6 DEF OpenToRead
  <2>2. \A q \in Proc \ {p} :
          /\ pc'[q] = pc[q] /\ started'[q] = started[q] /\ data'[q] = data[q]
          /\ fd'[q] = fd[q]
    BY <1>6 DEF OpenToRead, Started, TypeOK
  <2>3. CASE id[p] = i
    <3>1. /\ \A q \in Proc \ {p} : id[q] = i => pc[q] = "idle"
          /\ dir[i] # 0 => disk[dir[i]] = Text(kept[i])
      BY <2>1, <2>3, Alone
    <3>2. Calls(p, i)'
      <4>1. CASE dir[i] = 0
        <5>1. pc'[p] = "script" /\ data'[p] = {} /\ kept'[i] = {} /\ mine'[p] = {}
          BY <1>6, <2>1, <2>3, <4>1 DEF OpenToRead, Started, Serial, TypeOK, ProcInv
        <5> QED BY <5>1 DEF Calls
      <4>2. CASE dir[i] # 0
        <5>1. pc'[p] = "size" /\ fd'[p] = dir'[i]
          BY <1>6, <2>1, <2>3, <4>2 DEF OpenToRead, TypeOK
        <5> QED BY <5>1 DEF Calls
      <4> QED BY <4>1, <4>2
    <3>3. dir[i] = 0 => kept[i] = {}
      BY <2>1 DEF Serial
    <3> QED BY <2>1, <2>2, <2>3, <3>1, <3>2, <3>3, SerialTurn
  <2>4. CASE id[p] # i
    BY <2>1, <2>2, <2>4, SerialFrame
  <2> QED BY <2>3, <2>4
<1>7. ASSUME NEW p \in Proc, FindSize(p) PROVE Serial(i)'
  <2>1. /\ Serial(i) /\ pc[p] = "size"
        /\ pc' = [pc EXCEPT ![p] = "read"]
        /\ len' = [len EXCEPT ![p] = Len(disk[fd[p]])]
        /\ UNCHANGED <<started, id, data, fd, dir, disk, mine, kept>>
    BY <1>0, <1>7 DEF FindSize
  <2>2. CASE id[p] = i
    <3>1. /\ \A q \in Proc \ {p} : id[q] = i => pc[q] = "idle"
          /\ dir[i] # 0 => disk[dir[i]] = Text(kept[i])
          /\ fd[p] = dir[i]
      BY <2>1, <2>2, Alone DEF Calls
    <3>2. Calls(p, i)'
      BY <2>1, <3>1 DEF Calls, TypeOK
    <3>3. dir[i] = 0 => kept[i] = {}
      BY <2>1 DEF Serial
    <3> QED BY <2>1, <2>2, <3>1, <3>2, <3>3, SerialTurn DEF TypeOK
  <2>3. CASE id[p] # i
    BY <2>1, <2>3, SerialFrame DEF TypeOK
  <2> QED BY <2>2, <2>3
<1>8. ASSUME NEW p \in Proc, ReadFile(p) PROVE Serial(i)'
  <2> DEFINE s == disk[fd[p]]
             o == Parse(SubSeq(s, 1, Lesser(len[p], Len(s))))
  <2>1. /\ Serial(i) /\ pc[p] = "read"
        /\ pc' = [pc EXCEPT ![p] = "script"]
        /\ data' = [data EXCEPT ![p] = o]
        /\ started' = [started EXCEPT ![p] = TRUE]
        /\ fd' = [fd EXCEPT ![p] = 0]
        /\ UNCHANGED <<id, len, dir, disk, mine, kept>>
    BY <1>0, <1>8 DEF ReadFile, Started
  <2>2. CASE id[p] = i
    <3>1. /\ \A q \in Proc \ {p} : id[q] = i => pc[q] = "idle"
          /\ dir[i] # 0 => disk[dir[i]] = Text(kept[i])
          /\ fd[p] = dir[i] /\ len[p] = Len(disk[dir[i]])
      BY <2>1, <2>2, Alone DEF Calls
    <3>2. fd[p] \in 1..Len(disk) /\ disk \in Seq(Seq(Cell)) /\ kept[i] \in SUBSET Stamps
      BY <2>1 DEF TypeOK, Cell
    <3>3. s = Text(kept[i]) /\ s \in Seq(Cell) /\ len[p] \in Nat /\ len[p] = Len(s)
      BY <3>1, <3>2, ElementOfSeq DEF TypeOK
    <3>4. SubSeq(s, 1, Lesser(len[p], Len(s))) = s
      BY <3>3, ReadProperties
    <3>5. o = kept[i]
      <4> HIDE DEF s
      <4>1. \A x \in SUBSET Stamps : s = Text(x) => Parse(s) = x
        BY <3>3, ParseProperties
      <4>2. Parse(s) = kept[i]
        BY <3>2, <3>3, <4>1
      <4>3. o = Parse(s)
        BY <3>4
      <4> QED BY <4>2, <4>3
    <3> HIDE DEF o
    <3>8. mine[p] = {}
      BY <2>1 DEF ProcInv
    <3>6. Calls(p, i)'
      BY <2>1, <3>5, <3>8 DEF Calls, TypeOK
    <3>7. dir[i] = 0 => kept[i] = {}
      BY <2>1 DEF Serial
    <3> QED BY <2>1, <2>2, <3>1, <3>6, <3>7, SerialTurn DEF TypeOK
  <2>3. CASE id[p] # i
    <3> HIDE DEF o
    <3> QED BY <2>1, <2>3, SerialFrame DEF TypeOK
  <2> QED BY <2>2, <2>3
<1>9. ASSUME NEW p \in Proc, Set(p) PROVE Serial(i)'
  <2> DEFINE n == Len(owner) + 1
  <2>1. /\ Serial(i) /\ pc[p] = "script" /\ started[p]
        /\ pc' = [pc EXCEPT ![p] = "truncate"] \/ pc' = pc
        /\ data' = [data EXCEPT ![p] = @ \cup {n}]
        /\ mine' = [mine EXCEPT ![p] = @ \cup {n}]
        /\ UNCHANGED <<started, id, fd, len, dir, disk, kept>>
    BY <1>0, <1>9 DEF Set
  <2> HIDE DEF n
  <2>2. CASE id[p] = i
    <3>1. /\ \A q \in Proc \ {p} : id[q] = i => pc[q] = "idle"
          /\ dir[i] # 0 => disk[dir[i]] = Text(kept[i])
          /\ data[p] = kept[i] \cup mine[p]
      BY <2>1, <2>2, Alone DEF Calls
    <3>2. pc'[p] \in {"truncate", "script"} /\ data'[p] = kept'[i] \cup mine'[p]
      BY <2>1, <3>1 DEF TypeOK
    <3>3. Calls(p, i)'
      BY <3>2 DEF Calls
    <3>4. dir[i] = 0 => kept[i] = {}
      BY <2>1 DEF Serial
    <3>5. \A q \in Proc \ {p} : pc'[q] = pc[q]
      BY <2>1 DEF TypeOK
    <3> QED BY <2>1, <2>2, <3>1, <3>2, <3>3, <3>4, <3>5, SerialTurn
  <2>3. CASE id[p] # i
    <3>1. \A q \in Proc \ {p} : pc'[q] = pc[q]
      BY <2>1 DEF TypeOK
    <3> QED BY <2>1, <2>3, <3>1, SerialFrame DEF TypeOK
  <2> QED BY <2>2, <2>3
<1>10. ASSUME NEW p \in Proc, OpenToWrite(p) PROVE Serial(i)'
  <2>1. /\ Serial(i) /\ pc[p] = "truncate"
        /\ pc' = [pc EXCEPT ![p] = "write"]
        /\ fd' = [fd EXCEPT ![p] = dir'[id[p]]]
        /\ UNCHANGED <<started, id, data, len, mine, kept>>
    BY <1>0, <1>10 DEF OpenToWrite
  <2>2. id[p] \in Id /\ Len(disk) \in Nat /\ disk \in Seq(Seq(Cell))
    BY <2>1 DEF ProcInv, TypeOK, Cell
  <2>3. /\ disk'[dir'[id[p]]] = <<>> /\ dir'[id[p]] # 0
        /\ \A j \in Id \ {id[p]} :
             dir'[j] = dir[j] /\ (dir[j] # 0 => disk'[dir[j]] = disk[dir[j]])
    <3>1. CASE dir[id[p]] = 0
      <4>1. disk' = Append(disk, <<>>) /\ dir' = [dir EXCEPT ![id[p]] = Len(disk) + 1]
        BY <1>10, <3>1 DEF OpenToWrite
      <4>2. /\ \A f \in 1..Len(disk) : disk'[f] = disk[f]
            /\ disk'[Len(disk) + 1] = <<>>
        BY <2>2, <4>1, AppendProperties
      <4> QED BY <2>2, <4>1, <4>2 DEF TypeOK
    <3>2. CASE dir[id[p]] # 0
      <4>1. disk' = [disk EXCEPT ![dir[id[p]]] = <<>>] /\ dir' = dir
        BY <1>10, <3>2 DEF OpenToWrite
      <4>2. dir[id[p]] \in 1..Len(disk) /\ \A j \in Id : dir[j] \in 0..Len(disk)
        BY <2>2, <3>2 DEF TypeOK
      <4>3. \A f \in 1..Len(disk) : disk'[f] = IF f = dir[id[p]] THEN <<>> ELSE disk[f]
        BY <2>2, <4>1, <4>2, ExceptSeq
      <4> QED BY <2>2, <3>2, <4>1, <4>2, <4>3, FilesDistinct
    <3> QED BY <3>1, <3>2
  <2>4. CASE id[p] = i
    <3>1. /\ \A q \in Proc \ {p} : id[q] = i => pc[q] = "idle"
          /\ data[p] = kept[i] \cup mine[p]
      BY <2>1, <2>4, Alone DEF Calls
    <3>2. pc'[p] = "write" /\ fd'[p] = dir'[i] /\ disk'[dir'[i]] = <<>>
      BY <2>1, <2>3, <2>4 DEF TypeOK
    <3>3. Calls(p, i)'
      BY <2>1, <3>1, <3>2 DEF Calls
    <3> QED BY <2>1, <2>3, <2>4, <3>1, <3>2, <3>3, SerialTurn DEF TypeOK
  <2>5. CASE id[p] # i
    BY <2>1, <2>2, <2>3, <2>5, SerialFrame DEF TypeOK
  <2> QED BY <2>4, <2>5
<1>11. ASSUME NEW p \in Proc, WriteFile(p) PROVE Serial(i)'
  <2> DEFINE t == Text(data[p])
             s == disk[fd[p]]
  <2>1. /\ Serial(i) /\ pc[p] = "write"
        /\ pc' = [pc EXCEPT ![p] = "script"]
        /\ disk' = [disk EXCEPT ![fd[p]] = Over(t, s)]
        /\ fd' = [fd EXCEPT ![p] = 0]
        /\ kept' = [kept EXCEPT ![id[p]] = @ \cup mine[p]]
        /\ UNCHANGED <<started, id, data, len, dir, mine>>
    BY <1>0, <1>11 DEF WriteFile
  <2>2. /\ fd[p] \in 1..Len(disk) /\ disk \in Seq(Seq(Cell)) /\ data[p] \in SUBSET Stamps
        /\ id[p] \in Id
    BY <2>1 DEF ProcInv, TypeOK, Cell
  <2>3. s \in Seq(Cell) /\ t \in Seq(Cell)
    BY <2>2, ElementOfSeq, TextProperties
  <2> HIDE DEF t
  <2>4. Over(t, s) \in Seq(Cell) /\ (s = <<>> => Over(t, s) = t)
    BY <2>3, OverProperties
  <2>5. \A f \in 1..Len(disk) : disk'[f] = IF f = fd[p] THEN Over(t, s) ELSE disk[f]
    BY <2>1, <2>2, <2>4, ExceptSeq
  <2>6. CASE id[p] = i
    <3>1. /\ \A q \in Proc \ {p} : id[q] = i => pc[q] = "idle"
          /\ data[p] = kept[i] \cup mine[p]
          /\ fd[p] = dir[i] /\ s = <<>>
      BY <2>1, <2>6, Alone DEF Calls
    <3>2. kept'[i] = data[p] /\ disk'[dir'[i]] = Text(data[p])
      BY <2>1, <2>2, <2>4, <2>5, <2>6, <3>1 DEF TypeOK, t
    <3>4. mine[p] \subseteq data[p]
      BY DEF ProcInv
    <3>3. Calls(p, i)'
      BY <2>1, <3>2, <3>4 DEF Calls, TypeOK
    <3> QED BY <2>1, <2>2, <2>6, <3>1, <3>2, <3>3, SerialTurn DEF TypeOK
  <2>7. CASE id[p] # i
    <3>1. dir[i] # 0 => dir[i] \in 1..Len(disk) /\ fd[p] # dir[i]
      BY <2>2, <2>7, FilesDistinct DEF TypeOK
    <3>2. /\ dir[i] # 0 => disk'[dir[i]] = disk[dir[i]]
          /\ kept'[i] = kept[i]
      BY <2>1, <2>2, <2>5, <2>7, <3>1 DEF TypeOK
    <3> QED BY <2>1, <2>7, <3>2, SerialFrame DEF TypeOK
  <2> QED BY <2>6, <2>7
<1>14. ASSUME NEW p \in Proc, ReadFails(p) PROVE Serial(i)'
  <2>1. /\ Serial(i) /\ id[p] # i /\ pc[p] \in {"open", "read"}
        /\ pc' = [pc EXCEPT ![p] = "script"]
        /\ data' = [data EXCEPT ![p] = {}]
        /\ started' = [started EXCEPT ![p] = TRUE]
        /\ fd' = [fd EXCEPT ![p] = 0]
        /\ UNCHANGED <<id, len, dir, disk, mine, kept>>
    BY <1>0, <1>14 DEF ReadFails, Started
  <2> QED BY <2>1, SerialFrame DEF TypeOK
<1>15. ASSUME NEW p \in Proc, OpenFails(p) PROVE Serial(i)'
  <2>1. /\ Serial(i) /\ pc[p] = "truncate"
        /\ pc' = [pc EXCEPT ![p] = "script"]
        /\ UNCHANGED <<started, id, data, fd, len, dir, disk, mine, kept>>
    BY <1>0, <1>15 DEF OpenFails
  <2>2. CASE id[p] = i
    <3>1. /\ \A q \in Proc \ {p} : id[q] = i => pc[q] = "idle"
          /\ dir[i] # 0 => disk[dir[i]] = Text(kept[i])
          /\ data[p] = kept[i] \cup mine[p]
      BY <2>1, <2>2, Alone DEF Calls
    <3>2. Calls(p, i)'
      BY <2>1, <3>1 DEF Calls, TypeOK
    <3>3. dir[i] = 0 => kept[i] = {}
      BY <2>1 DEF Serial
    <3> QED BY <2>1, <2>2, <3>1, <3>2, <3>3, SerialTurn DEF TypeOK
  <2>3. CASE id[p] # i
    BY <2>1, <2>3, SerialFrame DEF TypeOK
  <2> QED BY <2>2, <2>3
<1>16. ASSUME NEW p \in Proc, WriteCut(p) PROVE Serial(i)'
  <2> PICK k \in 0..Cardinality(data[p]) :
        disk' = [disk EXCEPT ![fd[p]] = Over(SubSeq(Text(data[p]), 1, k), @)]
    BY <1>16 DEF WriteCut
  <2> DEFINE new == Over(SubSeq(Text(data[p]), 1, k), disk[fd[p]])
  <2>1. /\ Serial(i) /\ id[p] # i /\ pc[p] = "write"
        /\ pc' = [pc EXCEPT ![p] = "script"]
        /\ fd' = [fd EXCEPT ![p] = 0]
        /\ disk' = [disk EXCEPT ![fd[p]] = new]
        /\ UNCHANGED <<started, id, data, len, dir, mine, kept>>
    BY <1>0, <1>16 DEF WriteCut
  <2>2. /\ fd[p] \in 1..Len(disk) /\ disk \in Seq(Seq(Cell)) /\ data[p] \in SUBSET Stamps
        /\ id[p] \in Id
    BY <2>1 DEF ProcInv, TypeOK, Cell
  <2>3. new \in Seq(Cell)
    <3>1. disk[fd[p]] \in Seq(Cell) /\ SubSeq(Text(data[p]), 1, k) \in Seq(Cell)
      BY <2>2, ElementOfSeq, TextCut
    <3> QED BY <3>1, OverProperties
  <2> HIDE DEF new
  <2>4. \A f \in 1..Len(disk) : disk'[f] = IF f = fd[p] THEN new ELSE disk[f]
    BY <2>1, <2>2, <2>3, ExceptSeq
  <2>5. dir[i] # 0 => dir[i] \in 1..Len(disk) /\ fd[p] # dir[i]
    BY <2>1, <2>2, FilesDistinct DEF TypeOK
  <2>6. dir[i] # 0 => disk'[dir[i]] = disk[dir[i]]
    BY <2>4, <2>5
  <2> QED BY <2>1, <2>6, SerialFrame DEF TypeOK
<1>12. ASSUME NEW p \in Proc, Destroy(p) PROVE Serial(i)'
  <2>1. /\ Serial(i) /\ pc[p] = "script" /\ started[p] /\ id[p] \in Id
        /\ dir' = [dir EXCEPT ![id[p]] = 0] \/ (dir' = dir /\ id[p] # i)
        /\ kept' = [kept EXCEPT ![id[p]] = {}]
        /\ data' = [data EXCEPT ![p] = {}]
        /\ started' = [started EXCEPT ![p] = FALSE]
        /\ mine' = [mine EXCEPT ![p] = {}]
        /\ UNCHANGED <<pc, id, fd, len, disk>>
    BY <1>0, <1>12 DEF Destroy, ProcInv
  <2>2. CASE id[p] = i
    <3>1. \A q \in Proc \ {p} : id[q] = i => pc[q] = "idle"
      BY <2>1, <2>2, Alone
    <3>2. Calls(p, i)' /\ dir'[i] = 0 /\ kept'[i] = {}
      BY <2>1, <2>2 DEF Calls, TypeOK
    <3> QED BY <2>1, <2>2, <3>1, <3>2, SerialTurn
  <2>3. CASE id[p] # i
    BY <2>1, <2>3, SerialFrame DEF TypeOK
  <2> QED BY <2>2, <2>3
<1>13. CASE UNCHANGED vars
  <2>1. UNCHANGED <<pc, id, started, data, mine, fd, len, dir, disk, kept, disturbed>>
    BY <1>13 DEF vars
  <2> QED BY <1>0, <2>1 DEF Serial, Calls
<1> QED BY <1>1, <1>2, <1>3, <1>4, <1>5, <1>6, <1>7, <1>8, <1>9, <1>10, <1>11, <1>12, <1>13,
        <1>14, <1>15, <1>16 DEF Next

(* Ids that no request has had have neither a file nor anything kept.      *)
LEMMA UsedStep ==
  TypeOK /\ ProcInv /\ SerialInv /\ [Next]_vars =>
    /\ \A i \in Id \ used' : kept'[i] = {} /\ dir'[i] = 0
    /\ \A p \in Proc : id'[p] # None => id'[p] \in used'
<1> SUFFICES ASSUME TypeOK, ProcInv, SerialInv, [Next]_vars
             PROVE  /\ \A i \in Id \ used' : kept'[i] = {} /\ dir'[i] = 0
                    /\ \A p \in Proc : id'[p] # None => id'[p] \in used'
  OBVIOUS
<1> USE ConstantsAssumption DEF procVars, fileVars, diskVars, history
<1> DEFINE Fresh == /\ \A i \in Id \ used : kept[i] = {} /\ dir[i] = 0
                    /\ \A p \in Proc : id[p] # None => id[p] \in used
<1>0. Fresh
  BY DEF SerialInv
<1>1. ASSUME NEW p \in Proc,
             Begin(p) \/ End(p) \/ Crash(p) \/ StartNew(p) \/ StartKnown(p) \/ OpenToRead(p)
               \/ FindSize(p) \/ ReadFile(p) \/ Set(p)
               \/ ReadFails(p) \/ OpenFails(p) \/ WriteCut(p)
      PROVE  Fresh'
  <2>1. UNCHANGED <<kept, dir>> /\ used \subseteq used'
    BY <1>1 DEF Begin, End, Crash, StartNew, StartKnown, OpenToRead, FindSize, ReadFile, Set, Enter,
               ReadFails, OpenFails, WriteCut
  <2>2. \/ id' = id
        \/ \E i \in used' \cup {None} : id' = [id EXCEPT ![p] = i]
    BY <1>1 DEF Begin, End, Crash, StartNew, StartKnown, OpenToRead, FindSize, ReadFile, Set, Enter,
               ReadFails, OpenFails, WriteCut
  <2> QED BY <1>0, <2>1, <2>2 DEF TypeOK
<1>2. ASSUME NEW p \in Proc, OpenToWrite(p) PROVE Fresh'
  <2>1. id[p] \in used /\ id[p] \in Id
    BY <1>0, <1>2 DEF OpenToWrite, ProcInv
  <2>2. \A i \in Id \ {id[p]} : dir'[i] = dir[i]
    BY <1>2, <2>1 DEF OpenToWrite, TypeOK
  <2>3. UNCHANGED <<kept, used, id>>
    BY <1>2 DEF OpenToWrite
  <2> QED BY <1>0, <2>1, <2>2, <2>3
<1>3. ASSUME NEW p \in Proc, WriteFile(p) PROVE Fresh'
  <2>1. id[p] \in used /\ id[p] \in Id
    BY <1>0, <1>3 DEF WriteFile, ProcInv
  <2> QED BY <1>0, <1>3, <2>1 DEF WriteFile
<1>4. ASSUME NEW p \in Proc, Destroy(p) PROVE Fresh'
  <2>1. id[p] \in Id
    BY <1>4 DEF Destroy, ProcInv
  <2>2. /\ \A i \in Id : dir'[i] \in {0, dir[i]} /\ kept'[i] \in {{}, kept[i]}
        /\ UNCHANGED <<id, used>>
    BY <1>4, <2>1 DEF Destroy, TypeOK
  <2> QED BY <1>0, <2>2
<1>5. CASE UNCHANGED vars
  BY <1>0, <1>5 DEF vars
<1> QED BY <1>1, <1>2, <1>3, <1>4, <1>5 DEF Next

(* As long as the requests of a session come one after the other and no    *)
(* write is cut short and no read or unlink fails, a script finds what was *)
(* saved before it and not destroyed, and what it has set itself, even if  *)
(* other calls of set, whose text could not be made or whose file could    *)
(* not be opened, have saved nothing.                                      *)
THEOREM SerialCorrect == Spec => []SerialSessionKept
<1> DEFINE IInv == TypeOK /\ ProcInv /\ OwnInv /\ SerialInv
<1>1. Init => IInv
  <2>1. Init => SerialInv
    BY DEF Init, SerialInv, Serial, Calls
  <2> QED BY <2>1, Initial, OwnInitial
<1>2. IInv /\ [Next]_vars => IInv'
  <2> SUFFICES ASSUME IInv, [Next]_vars PROVE IInv'
    OBVIOUS
  <2>1. SerialInv'
    BY SerialStep, UsedStep DEF SerialInv
  <2> QED BY <2>1, TypeStep, ProcStep, OwnStep
<1>3. IInv => SerialSessionKept
  <2> SUFFICES ASSUME IInv, NEW p \in Proc, started[p], pc[p] = "script", id[p] \notin disturbed
               PROVE  data[p] = kept[id[p]] \cup mine[p]
    BY DEF SerialSessionKept
  <2>1. id[p] \in Id
    BY DEF ProcInv
  <2> QED BY <2>1 DEF SerialInv, Serial, Calls
<1> QED BY <1>1, <1>2, <1>3, PTL DEF Spec
=============================================================================
