------------------------------- MODULE Parts --------------------------------
(***************************************************************************)
(* A browser writes the parts of a multipart body, with a boundary that is *)
(* in none of them: said[i] is the ith part, and text the body.            *)
(***************************************************************************)
EXTENDS RequestText, Texts, FiniteSets

CONSTANT Memory   \* what the memory of the body may have held before

PartText(part) ==
  Boundary \o <<"CR", "LF", part.header, "CR", "LF", "CR", "LF">> \o part.data \o <<"CR", "LF">>

PartsOf(parts) == FlattenSeq([i \in 1..Len(parts) |-> PartText(parts[i])]) \o Boundary \o <<"-", "-">>

WritePart(header) ==
  /\ kind = "multipart"
  /\ said' = Append(said, [header |-> header, data |-> <<>>])
  /\ text' = PartsOf(said')
  /\ UNCHANGED kind

WriteData(c) ==
  /\ kind = "multipart" /\ said # <<>>
  /\ said' = [said EXCEPT ![Len(said)].data = Append(@, c)]
  /\ LET data == said'[Len(said)].data
     IN Find(data, 1, Len(data) + 1, Boundary) = 0
  /\ text' = PartsOf(said')
  /\ UNCHANGED kind

PartsInit ==
  /\ kind = "multipart"
  /\ text = <<>>
  /\ said = <<>>

PartsNext ==
  \/ \E header \in DOMAIN Headers : WritePart(header)
  \/ \E c \in Char : WriteData(c)

PartsSpec == PartsInit /\ [][PartsNext]_<<kind, text, said>>

-----------------------------------------------------------------------------
(* Of a body of which the first k bytes arrive, the parts that are whole   *)
(* become fields and files with exactly the bytes that were written, line  *)
(* ends and dashes included, or, beyond the limit, an error; they come     *)
(* first, and in their order.  When all of the body arrives there are no   *)
(* others.  Of a body cut short nothing is said of others: the search goes *)
(* on to the end the body was said to have, over what the memory held      *)
(* before, and may find parts there (the multipart parser of               *)
(* build_request_object).                                                  *)
MultipartParsed == kind = "multipart" =>
  \A k \in 0..Len(text), before \in Memory :
    LET whole == Cardinality({i \in 1..Len(said) : Len(PartsOf(SubSeq(said, 1, i))) - 2 <= k})
        stored == Multipart(BodyRead(text, k, before))
    IN /\ Len(stored) >= whole
       /\ \A i \in 1..whole : stored[i] = Stored(Headers[said[i].header], said[i].data)
       /\ k = Len(text) => Len(stored) = whole
=============================================================================
