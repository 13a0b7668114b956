-------------------------------- MODULE Page --------------------------------
(***************************************************************************)
(* A script makes its response, one call after the other: said[i] is the   *)
(* ith call, and text the response.                                        *)
(***************************************************************************)
EXTENDS Response, Texts

ASSUME PageAssumption ==
  {"CR", "LF", ":", "/", "200", "Path", "Set-Cookie"} \cup ToSet(Attributes) \subseteq Char

Call(made, response) ==
  /\ kind = "page"
  /\ \A i \in 1..Len(said) : said[i].call # "throw"
  /\ said' = Append(said, made)
  /\ text' = response
  /\ UNCHANGED kind

CallSetHeader(name, value) ==
  Call([call |-> "header", line |-> <<name, ":">> \o CString(value)], SetHeader(text, name, value))

CallSetStatus(status) == Call([call |-> "status", status |-> status], SetStatus(text, status))

CallSetCookie(value, options) ==
  Call([call |-> "cookie", value |-> value, options |-> options], SetCookie(text, value, options))

CallPrint(str) == Call([call |-> "print", data |-> CString(str)], PrintText(text, str))

CallThrow == Call([call |-> "throw"], text)

PageInit ==
  /\ kind = "page"
  /\ text = Fresh
  /\ said = <<>>

PageNext ==
  \/ \E name \in Char, value \in Seq(Char) : CallSetHeader(name, value)
  \/ \E status \in Char : CallSetStatus(status)
  \/ \E value \in Seq(Char), path \in Char \cup {""}, attributes \in SUBSET Char :
       CallSetCookie(value, [path |-> path, attributes |-> attributes])
  \/ \E str \in Seq(Char) : CallPrint(str)
  \/ CallThrow

(* A script of which no header, status or cookie breaks its line.          *)
Inline == Char \ {"CR", "LF"}

NeatNext ==
  \/ \E name \in Inline \ {"NUL"}, value \in Seq(Inline) : CallSetHeader(name, value)
  \/ \E status \in Inline \ {"NUL"} : CallSetStatus(status)
  \/ \E value \in Seq(Inline), path \in (Inline \ {"NUL"}) \cup {""}, attributes \in SUBSET Char :
       CallSetCookie(value, [path |-> path, attributes |-> attributes])
  \/ \E str \in Seq(Char) : CallPrint(str)
  \/ CallThrow

PageSpec == PageInit /\ [][PageNext]_<<kind, text, said>>

NeatSpec == PageInit /\ [][NeatNext]_<<kind, text, said>>

-----------------------------------------------------------------------------
(* What a call adds to the headers and to the body.                        *)
HeaderOf(made) ==
  CASE made.call = "header" -> Held(made.line, LineRoom - 1) \o CRLF
    [] made.call = "cookie" -> CookieLine(made.value, made.options) \o CRLF
    [] OTHER -> <<>>

BodyOf(made) == IF made.call = "print" THEN made.data ELSE <<>>

(* The buffers hold, one after the other and nothing else, the lines and   *)
(* the texts that the calls add, of whatever length, with room for the NUL *)
(* that ends them (response_append_header, response_append_body).          *)
BuffersHold == kind = "page" =>
  /\ Len(text.headers) < text.headers_cap
  /\ Len(text.body) < text.body_cap
  /\ text.headers = FlattenSeq([i \in 1..Len(said) |-> HeaderOf(said[i])])
  /\ text.body = FlattenSeq([i \in 1..Len(said) |-> BodyOf(said[i])])

(* What a call asks of the head: a status, and a header or cookie that is  *)
(* not taken for the status.                                               *)
StatusOf(made) == IF made.call = "status" THEN <<made.status>> ELSE <<>>

AskedBy(made) ==
  IF made.call = "cookie" \/ (made.call = "header" /\ made.line[1] # "Status") THEN <<made>>
  ELSE <<>>

(* A line is what was asked for.  The attributes of a cookie have no order *)
(* that matters, but each is there once.                                   *)
CookieStart(made) ==
  <<"Set-Cookie", ":">> \o CString(made.value)
  \o <<"Path", IF made.options.path = "" THEN "/" ELSE made.options.path>>

Same(line, made) ==
  IF made.call = "header" THEN line = Held(made.line, LineRoom - 1)
  ELSE LET rest == SubSeq(line, Len(CookieStart(made)) + 1, Len(line))
       IN /\ line = CookieStart(made) \o rest
          /\ ToSet(rest) = made.options.attributes \cap ToSet(Attributes)
          /\ IsInjective(rest)

(* The client of a script that ends gets the status it set last, the       *)
(* headers and cookies it set, in their order and after those it did not   *)
(* have to set, and the length and all of what it printed, none of which   *)
(* is taken for a header; the client of one that throws gets an error page *)
(* and nothing else (js_response_set_header, js_print, response_output,    *)
(* output_error, handle_request).                                          *)
AnsweredAsMade == kind = "page" =>
  LET printed == FlattenSeq([i \in 1..Len(said) |-> BodyOf(said[i])])
      asked == FlattenSeq([i \in 1..Len(said) |-> AskedBy(said[i])])
      statuses == <<"200">> \o FlattenSeq([i \in 1..Len(said) |-> StatusOf(said[i])])
      typed == \E i \in 1..Len(said) :
                 said[i].call = "header" /\ said[i].line[1] \in {"Content-Type", "content-type"}
      thrown == \E i \in 1..Len(said) : said[i].call = "throw"
      html == <<"Content-Type", ":", "text/html">>
      length == <<"Content-Length", ":", ToString(Len(printed))>>
      first == IF typed THEN <<length>> ELSE <<html, length>>
      error == IF thrown THEN <<"message">> ELSE <<>>
      Gets(display_errors) == Answer(OutputOf(text, error, FALSE, display_errors))
      answer == Gets(FALSE)
  IN IF thrown
     THEN /\ Gets(TRUE) = [answer EXCEPT !.body = error]
          /\ answer = [status |-> "500", headers |-> <<html>>,
                        body |-> <<"Internal Server Error">>]
     ELSE /\ answer.status = Last(statuses)
          /\ answer.body = printed
          /\ Len(answer.headers) = Len(first) + Len(asked)
          /\ SubSeq(answer.headers, 1, Len(first)) = first
          /\ \A i \in 1..Len(asked) : Same(answer.headers[Len(first) + i], asked[i])
          /\ OutputOf(text, error, TRUE, FALSE) = printed
=============================================================================
