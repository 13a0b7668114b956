----------------------------- MODULE RequestText ----------------------------
(***************************************************************************)
(* The texts of a request that build_request_object takes apart: query     *)
(* strings and forms, cookies, and multipart bodies.                       *)
(*                                                                         *)
(* A text is a sequence of characters from a small alphabet; a character   *)
(* that needs a name has one ("NUL", "CR", "LF"), and the header lines of  *)
(* a multipart part are one character, which stands for what is read from  *)
(* them.  An object is a sequence of assignments to its properties.        *)
(*                                                                         *)
(* An operator named X_how is X with a plausible mistake, kept beside it   *)
(* for the properties to be tested against; nothing else uses it.          *)
(***************************************************************************)
EXTENDS Naturals, Sequences, SequencesExt

CONSTANTS
  MaxUpload,   \* upload_max_filesize
  Char         \* characters, and what is one character: names of headers, paths, statuses

-----------------------------------------------------------------------------
(* url_decode: the characters that two hexadecimal digits stand for.       *)
HexDigits == {"0", "2", "3", "5", "6", "B", "D"}

Escapes ==
  [c \in {"NUL", "%", "&", "=", "+", ";", " "} |->
     CASE c = "NUL" -> <<"0", "0">>
       [] c = "%"   -> <<"2", "5">>
       [] c = "&"   -> <<"2", "6">>
       [] c = "="   -> <<"3", "D">>
       [] c = "+"   -> <<"2", "B">>
       [] c = ";"   -> <<"3", "B">>
       [] c = " "   -> <<"2", "0">>]

Escaped(digits) ==
  IF \E c \in DOMAIN Escapes : Escapes[c] = digits
  THEN CHOOSE c \in DOMAIN Escapes : Escapes[c] = digits ELSE "?"

(* One character or escape more.                                          *)
Decoded(s, at) ==
  IF at.next > Len(s) THEN at
  ELSE IF s[at.next] = "+" THEN [next |-> at.next + 1, to |-> Append(at.to, " ")]
  ELSE IF /\ s[at.next] = "%" /\ at.next + 2 <= Len(s)
          /\ s[at.next + 1] \in HexDigits /\ s[at.next + 2] \in HexDigits
       THEN [next |-> at.next + 3,
             to |-> Append(at.to, Escaped(<<s[at.next + 1], s[at.next + 2]>>))]
  ELSE [next |-> at.next + 1, to |-> Append(at.to, s[at.next])]

UrlDecode(s) ==
  LET loop[i \in 0..Len(s)] == IF i = 0 THEN [next |-> 1, to |-> <<>>] ELSE Decoded(s, loop[i - 1])
  IN loop[Len(s)].to

(* What is read of a text as a C string.                                   *)
CString(s) == IF Contains(s, "NUL") THEN SubSeq(s, 1, SelectInSeq(s, LAMBDA c : c = "NUL") - 1)
                                    ELSE s

(* strtok: the stretches without a separator that are not empty.           *)
Ended(read) == IF read.last = <<>> THEN read.tokens ELSE Append(read.tokens, read.last)

NextChar(read, c, separator) ==
  IF c = separator THEN [tokens |-> Ended(read), last |-> <<>>]
  ELSE [read EXCEPT !.last = Append(@, c)]

Split(s, separator) ==
  LET read[i \in 0..Len(s)] == IF i = 0 THEN [tokens |-> <<>>, last |-> <<>>]
                               ELSE NextChar(read[i - 1], s[i], separator)
  IN read[Len(s)]

Tokens(s, separator) == Ended(Split(s, separator))

(* Where the first = is; 0 when there is none.                             *)
Equals(pair) == SelectInSeq(pair, LAMBDA c : c = "=")

NameOf(pair) == IF Equals(pair) = 0 THEN pair ELSE SubSeq(pair, 1, Equals(pair) - 1)
ValueOf(pair) == IF Equals(pair) = 0 THEN <<>> ELSE SubSeq(pair, Equals(pair) + 1, Len(pair))

(* parse_query_string                                                      *)
Query_decoded_first(qs) ==
  LET pairs == Tokens(UrlDecode(qs), "&")
  IN [i \in 1..Len(pairs) |-> [name |-> CString(NameOf(pairs[i])),
                               value |-> CString(ValueOf(pairs[i]))]]

Pair(pair) == [name |-> CString(UrlDecode(NameOf(pair))),
               value |-> CString(UrlDecode(ValueOf(pair)))]

Query(qs) ==
  LET pairs == Tokens(qs, "&")
  IN [i \in 1..Len(pairs) |-> Pair(pairs[i])]

(* The cookies: names are not decoded, and a pair without = is left out.   *)
SkipSpaces(s) ==
  LET others == {i \in 1..Len(s) : s[i] # " "}
  IN IF others = {} THEN <<>> ELSE SubSeq(s, Min(others), Len(s))

Cookie(pair) == [name |-> NameOf(SkipSpaces(pair)), value |-> CString(UrlDecode(ValueOf(pair)))]

CookiesOf(pairs) ==
  LET kept[i \in 0..Len(pairs)] == IF i = 0 THEN <<>>
                                   ELSE IF Equals(pairs[i]) = 0 THEN kept[i - 1]
                                   ELSE Append(kept[i - 1], Cookie(pairs[i]))
  IN kept[Len(pairs)]

Cookies(header) == CookiesOf(Tokens(header, ";"))

-----------------------------------------------------------------------------
(* The parts of a multipart body.                                          *)
Boundary == <<"-", "-", "B">>

(* What is read from the header lines.                                     *)
Headers == [field |-> [name |-> "f", file |-> FALSE], upload |-> [name |-> "u", file |-> TRUE]]

(* memmem between two positions, the second excluded; 0 when not found.    *)
Find(s, from, to, pattern) ==
  LET found == {i \in from..(to - Len(pattern)) : SubSeq(s, i, i + Len(pattern) - 1) = pattern}
  IN IF found = {} THEN 0 ELSE CHOOSE i \in found : \A j \in found : i <= j

(* One position on, or back but not before a limit, over a character.      *)
Over(s, i, c) == IF i <= Len(s) /\ s[i] = c THEN i + 1 ELSE i

Back_all(s, i, c, limit) ==
  Max({j \in limit..i : j = limit \/ s[j - 1] \notin {"CR", "LF"}})

Back(s, i, c, limit) == IF i > limit /\ s[i - 1] = c THEN i - 1 ELSE i

(* What a part becomes: a field, a file, or an error.                      *)
Stored(header, data) ==
  [name |-> header.name,
   as |-> IF ~header.file THEN "field" ELSE IF Len(data) > MaxUpload THEN "error" ELSE "file",
   data |-> IF header.file /\ Len(data) > MaxUpload THEN <<>> ELSE data]

(* The lines of a part, between two positions, that name a field.          *)
Lines(s, from, to) ==
  {i \in from..(to - 1) : s[i] \in DOMAIN Headers
                         /\ (i = from \/ (s[i - 2] = "CR" /\ s[i - 1] = "LF"))}

(* The last such line names it, and any of them makes it a file.           *)
Header(s, lines) ==
  [name |-> Headers[s[Max(lines)]].name, file |-> \E i \in lines : Headers[s[i]].file]

(* What is read from a position on: one part more, if it has a name.       *)
NextPart(s, at) ==
  LET found == Find(s, at.pos, Len(s) + 1, Boundary)
      after == found + Len(Boundary)
      start == Over(s, Over(s, after, "CR"), "LF")
      next == Find(s, start, Len(s) + 1, Boundary)
      end == Back(s, Back(s, next, "LF", start), "CR", start)
      blank == Find(s, start, end, <<"CR", "LF", "CR", "LF">>)
      lines == Lines(s, start, blank)
  IN IF found = 0 \/ (after < Len(s) /\ s[after] = "-" /\ s[after + 1] = "-") \/ next = 0 THEN at
     ELSE [pos |-> next,
           parts |-> IF blank = 0 \/ lines = {} THEN at.parts
                     ELSE Append(at.parts, Stored(Header(s, lines), SubSeq(s, blank + 4, end - 1)))]

(* The memory a body is read to, as long as the body was said to be: what  *)
(* comes before the connection ends, a NUL, and what was there before.     *)
BodyRead(body, k, before) ==
  SubSeq(body, 1, k) \o
    [i \in 1..(Len(body) - k) |->
       IF i > 1 /\ k + i \in DOMAIN before THEN before[k + i] ELSE "NUL"]

(* A part takes a boundary at least, so that as many steps are enough.     *)
Multipart(body) ==
  LET last == Len(body) \div Len(Boundary)
      loop[i \in 0..last] == IF i = 0 THEN [pos |-> 1, parts |-> <<>>] ELSE NextPart(body, loop[i - 1])
  IN loop[last].parts
=============================================================================
