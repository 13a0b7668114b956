------------------------------- MODULE Params -------------------------------
(***************************************************************************)
(* The CGI variables of a request, written by a web server one after the   *)
(* other into the bytes of its PARAMS records, and read by NameValue:      *)
(* said[i] is the ith variable, and where it ends in the text.             *)
(***************************************************************************)
EXTENDS NameValue, FiniteSets, Texts

(* A length takes four bytes if it must or the web server likes; it has to *)
(* leave the high bit of the first one free.                               *)
Shifted(n) == n \div Base

Encodings(length) ==
  LET high == Shifted(Shifted(Shifted(length)))
  IN (IF high < Half
      THEN {<<Half + high, Shifted(Shifted(length)) % Base, Shifted(length) % Base, length % Base>>}
      ELSE {})
     \cup (IF length < Half THEN {<<length>>} ELSE {})

WritePair(name, value) ==
  /\ kind = "params"
  /\ \E n \in Encodings(Len(name)), v \in Encodings(Len(value)) :
       text' = text \o n \o v \o name \o value
  /\ said' = Append(said, [pair |-> <<name, value>>, end |-> Len(text')])
  /\ UNCHANGED kind

ParamsInit ==
  /\ kind = "params"
  /\ text = <<>>
  /\ said = <<>>

ParamsNext == \E name, value \in Seq(Byte) : WritePair(name, value)

ParamsSpec == ParamsInit /\ [][ParamsNext]_<<kind, text, said>>

(* The variables that end in the first k bytes, as many as there is room   *)
(* for, are read from them as they were written, in whatever form their    *)
(* lengths are, and nothing is made of what comes after                    *)
(* (fcgi_decode_name_value).                                               *)
PairsDecoded == kind = "params" =>
  \A k \in 0..Len(text) :
    LET whole == Cardinality({i \in 1..Len(said) : said[i].end <= k})
        room == MaxParams \div 2
    IN Decode(SubSeq(text, 1, k)) =
         [i \in 1..(IF whole < room THEN whole ELSE room) |-> said[i].pair]
=============================================================================
