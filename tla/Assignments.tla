---------------------------- MODULE Assignments -----------------------------
(***************************************************************************)
(* A browser writes a query string, a form or a cookie header, one         *)
(* assignment after the other: text is what it has written, and said what  *)
(* it means by it.                                                         *)
(***************************************************************************)
EXTENDS RequestText, Texts

(* There is an escape for what would be taken for something else, and a +  *)
(* for a space.  An assignment that has not got its = yet has eq FALSE.    *)
Plain == Char \ DOMAIN Escapes

Further(pair, c) == IF pair.eq THEN [pair EXCEPT !.value = Append(@, c)]
                                ELSE [pair EXCEPT !.name = Append(@, c)]

WriteChar(c, as) ==
  /\ kind \in {"query", "cookies"}
  /\ said # <<>>
  /\ kind = "cookies" /\ ~said[Len(said)].eq => as = <<c>>
  /\ text' = text \o as
  /\ said' = [said EXCEPT ![Len(said)] = Further(@, c)]
  /\ UNCHANGED kind

WriteEquals ==
  /\ kind \in {"query", "cookies"}
  /\ said # <<>> /\ ~said[Len(said)].eq
  /\ text' = Append(text, "=")
  /\ said' = [said EXCEPT ![Len(said)].eq = TRUE]
  /\ UNCHANGED kind

NextPair ==
  /\ kind \in {"query", "cookies"}
  /\ text' = IF said = <<>> THEN <<>>
             ELSE IF kind = "query" THEN Append(text, "&") ELSE text \o <<";", " ">>
  /\ said' = Append(said, [name |-> <<>>, eq |-> FALSE, value |-> <<>>])
  /\ UNCHANGED kind

AssignmentsInit ==
  /\ kind \in {"query", "cookies"}
  /\ text = <<>>
  /\ said = <<>>

AssignmentsNext ==
  \/ \E c \in Plain : WriteChar(c, <<c>>)
  \/ \E c \in DOMAIN Escapes : WriteChar(c, <<"%">> \o Escapes[c])
  \/ WriteChar(" ", <<"+">>)
  \/ WriteEquals
  \/ NextPair

AssignmentsSpec == AssignmentsInit /\ [][AssignmentsNext]_<<kind, text, said>>

-----------------------------------------------------------------------------
(* What pairs of a kind mean: in a cookie header, nothing without an =;    *)
(* elsewhere, nothing without an = or a name.  A text ends at a NUL.       *)
Means(pair, what) == pair.eq \/ (what = "query" /\ pair.name # <<>>)

Meaning(pair) == [name |-> CString(pair.name), value |-> CString(pair.value)]

Meant(pairs, what) ==
  LET meant[i \in 0..Len(pairs)] == IF i = 0 THEN <<>>
                                    ELSE IF ~Means(pairs[i], what) THEN meant[i - 1]
                                    ELSE Append(meant[i - 1], Meaning(pairs[i]))
  IN meant[Len(pairs)]

(* A query string, form or cookie header says what its writer meant, with  *)
(* every character that is escaped, escapes that look like escapes, and    *)
(* separators between nothing.  The names of cookies are taken as they     *)
(* are, and what has no = is no cookie (url_decode, parse_query_string,    *)
(* build_request_object).                                                  *)
AssignmentsParsed == kind \in {"query", "cookies"} =>
  (IF kind = "query" THEN Query(text) ELSE Cookies(text)) = Meant(said, kind)
=============================================================================
