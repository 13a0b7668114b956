------------------------------- MODULE MCText -------------------------------
(***************************************************************************)
(* The text the program reads, against what was meant by who wrote it.  A  *)
(* web server, a browser or an administrator writes a text, one item after *)
(* the other; said is what it says so far.  A script likewise makes its    *)
(* response, one call after the other.                                     *)
(***************************************************************************)
EXTENDS Params, Assignments, Parts, Start, Page

CONSTANTS
  Lengths,    \* the lengths of names and values of CGI variables
  MaxPairs,   \* bound: CGI variables
  MaxText,    \* bound: characters of a query string or cookie header
  MaxData,    \* bound: characters in the parts of a body
  MaxItems,   \* bound: words and lines the program is started with
  MaxCalls    \* bound: calls of a script that make its response

Numbers == ("few" :> 2) @@ ("none" :> 0) @@ ("many" :> 99)
IniFiles == "--ini=custom" :> "custom"

(* Zeros, or another body at the same place, or a little before it.        *)
OtherBody ==
  PartsOf(<<[header |-> "upload", data |-> <<"B">>], [header |-> "field", data |-> <<"CR">>],
            [header |-> "upload", data |-> <<"LF">>]>>)
Memories == {<<>>} \cup {SubSeq(OtherBody, i, Len(OtherBody)) : i \in {1, 10}}

vars == <<kind, text, said>>

Init ==
  /\ kind \in {"params", "query", "cookies", "multipart", "start", "page"}
  /\ text = IF kind = "page" THEN Fresh ELSE <<>>
  /\ said = IF kind = "start" THEN [options |-> <<>>, script |-> <<>>, lines |-> [f \in Files |-> <<>>]]
                              ELSE <<>>

-----------------------------------------------------------------------------
Items == Len(said.options) + Len(said.script)
         + Len(said.lines["system"]) + Len(said.lines["local"]) + Len(said.lines["custom"])

Next ==
  \/ kind = "params" /\ Len(said) < MaxPairs
     /\ \E n, v \in Lengths : WritePair([i \in 1..n |-> Base - 1], [i \in 1..v |-> 0])
  \/ /\ kind \in {"query", "cookies"} /\ Len(text) < MaxText
     /\ \/ \E c \in {"2", "5"} : WriteChar(c, <<c>>)
        \/ /\ Len(text) + 3 <= MaxText
           /\ \E c \in DOMAIN Escapes : WriteChar(c, <<"%">> \o Escapes[c])
        \/ WriteChar(" ", <<"+">>)
        \/ WriteEquals
        \/ NextPair
  \/ kind = "multipart" /\ Len(said) < 2 /\ \E header \in DOMAIN Headers : WritePart(header)
  \/ /\ kind = "multipart"
     /\ Len(FlattenSeq([i \in 1..Len(said) |-> said[i].data])) < MaxData
     /\ \E c \in {"-", "B", "CR", "LF"} : WriteData(c)
  \/ /\ kind = "start" /\ Items < MaxItems
     /\ \/ \E words \in {<<"--ini=custom">>, <<"--serve", "8080">>, <<"--fastcgi", "9001">>,
                         <<"--router", "8080">>}
                        \cup {<<"--workers", n>> : n \in DOMAIN Numbers} : WriteOption(words)
        \/ \E word \in {"script", "--serve"} : WriteScript(word)
        \/ \E file \in Files, key \in Key, value \in Value : WriteLine(file, key, value)
  \/ /\ kind = "page" /\ Len(said) < MaxCalls
     /\ \/ \E name \in {"Content-Type", "content-type", "X-Name", "Status"},
              value \in {<<>>, <<"2">>, [i \in 1..LineRoom |-> "5"]} : CallSetHeader(name, value)
        \/ \E status \in {"204", "404"} : CallSetStatus(status)
        \/ \E path \in {"", "/a"}, attributes \in {{}, {"Secure", "SameSite"}} :
             CallSetCookie(<<"2">>, [path |-> path, attributes |-> attributes])
        \/ CallThrow
        \/ \E str \in {<<"2">>, CRLF \o CRLF, <<"2", "NUL", "5">>,
                         [i \in 1..(2 * BodySpace + 1) |-> "5"]} : CallPrint(str)

Spec == Init /\ [][Next]_vars
=============================================================================
