------------------------------ MODULE NameValue -----------------------------
(***************************************************************************)
(* fcgi_decode_name_value: the CGI variables of a FastCGI request, from    *)
(* the bytes of its PARAMS records.                                        *)
(*                                                                         *)
(* A length below Half takes one byte; any length may take four, the first *)
(* with its high bit set.  In the program Half is 128, and a byte has      *)
(* 2 * Half values.  A name or value is the sequence of its bytes.         *)
(*                                                                         *)
(* An operator named X_how is X with a plausible mistake, kept beside it   *)
(* for the properties to be tested against; nothing else uses it.          *)
(***************************************************************************)
EXTENDS Naturals, Sequences

CONSTANTS
  Half,       \* the values of a byte without its high bit
  MaxParams   \* the entries of the array of names and values

ASSUME NameValueAssumption ==
  /\ Half \in Nat \ {0}
  /\ MaxParams \in Nat \ {0}

Base == 2 * Half

Byte == 0..(Base - 1)

Nothing == [ok |-> FALSE, size |-> 0, next |-> 0]

(* The length at a position, and the position after it.                    *)
Length_short(buf, pos) ==
  IF pos > Len(buf) THEN Nothing
  ELSE IF buf[pos] < Half THEN [ok |-> TRUE, size |-> buf[pos], next |-> pos + 1]
  ELSE IF pos + 2 > Len(buf) THEN Nothing
  ELSE [ok |-> TRUE, next |-> pos + 4,
        size |-> (buf[pos] - Half) * Base + buf[pos + 1]]

Length(buf, pos) ==
  IF pos > Len(buf) THEN Nothing
  ELSE IF buf[pos] < Half THEN [ok |-> TRUE, size |-> buf[pos], next |-> pos + 1]
  ELSE IF pos + 3 > Len(buf) THEN Nothing
  ELSE [ok |-> TRUE, next |-> pos + 4,
        size |-> (((buf[pos] - Half) * Base + buf[pos + 1]) * Base + buf[pos + 2]) * Base
                 + buf[pos + 3]]

(* What is read from a position on: one pair more, unless it does not end  *)
(* in the buffer or finds no place in the array; then nothing changes, and *)
(* nobody is told.                                                         *)
Start == [pos |-> 1, params |-> <<>>]

Iterate(buf, at) ==
  LET name == Length(buf, at.pos)
      value == Length(buf, name.next)
      first == value.next
      last == first + name.size + value.size - 1
  IN IF /\ 2 * Len(at.params) < MaxParams - 1
        /\ name.ok /\ value.ok
        /\ last <= Len(buf)
     THEN [pos |-> last + 1,
           params |-> Append(at.params, <<SubSeq(buf, first, first + name.size - 1),
                                          SubSeq(buf, first + name.size, last)>>)]
     ELSE at

(* A pair takes a byte at least, so that as many iterations are enough.    *)
Loop(buf) ==
  LET loop[i \in 0..Len(buf)] == IF i = 0 THEN Start ELSE Iterate(buf, loop[i - 1])
  IN loop

Decode(buf) == Loop(buf)[Len(buf)].params
=============================================================================
