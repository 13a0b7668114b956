------------------------------ MODULE Response ------------------------------
(***************************************************************************)
(* The response buffer: what a script sets and prints (jscgi_response), as *)
(* it is written to stdout when the script has ended (response_output) or  *)
(* failed (output_error), and as the development server gives it to its    *)
(* client (the end of handle_request).                                     *)
(*                                                                         *)
(* A text is a sequence of characters, as in RequestText.  The name of a   *)
(* header, ": ", a number and an attribute of a cookie are one character   *)
(* each.  The line of a cookie is taken to have room in its buffer.        *)
(*                                                                         *)
(* An operator named X_how is X with a plausible mistake, kept beside it   *)
(* for the properties to be tested against; nothing else uses it.          *)
(***************************************************************************)
EXTENDS Naturals, Sequences, SequencesExt, TLC, RequestText

CONSTANTS
  HeaderSpace,   \* the size of the buffer for headers, at first
  BodySpace,     \* the size of the buffer for the body, at first
  LineRoom       \* the size of the buffer for one header line, its NUL included

ASSUME ResponseAssumption ==
  /\ HeaderSpace \in Nat \ {0}
  /\ BodySpace \in Nat \ {0}
  /\ LineRoom \in Nat \ {0, 1}

CRLF == <<"CR", "LF">>

(* response_init                                                           *)
Fresh ==
  [headers |-> <<>>, headers_cap |-> HeaderSpace,
   body |-> <<>>, body_cap |-> BodySpace,
   status |-> "200", content_type_set |-> FALSE]

(* A buffer is doubled until there is room; each time it grows.            *)
Doubled(cap, needed) == IF needed > cap THEN 2 * cap ELSE cap

Grown_once(cap, needed) == Doubled(cap, needed)

Grown(cap, needed) ==
  LET grown[i \in 0..needed] == IF i = 0 THEN cap ELSE Doubled(grown[i - 1], needed)
  IN grown[needed]

(* What a buffer can be relied on to hold of what is written to it.        *)
Held(chars, cap) == SubSeq(chars, 1, IF Len(chars) < cap THEN Len(chars) ELSE cap)

(* response_append_header                                                  *)
AppendHeader_no_NUL(response, header) ==
  LET cap == Grown(response.headers_cap, Len(response.headers) + Len(header) + 2)
  IN [response EXCEPT !.headers_cap = cap, !.headers = Held(@ \o header \o CRLF, cap)]

AppendHeader(response, header) ==
  LET cap == Grown(response.headers_cap, Len(response.headers) + Len(header) + 3)
  IN [response EXCEPT !.headers_cap = cap, !.headers = Held(@ \o header \o CRLF, cap)]

(* js_response_set_header: case does not matter, and a long line is cut.   *)
ContentType == {"Content-Type", "content-type"}

SetHeader(response, name, value) ==
  LET line == <<name, ":">> \o CString(value)
  IN [AppendHeader(response, Held(line, LineRoom - 1))
        EXCEPT !.content_type_set = @ \/ name \in ContentType]

(* js_response_set_status                                                  *)
SetStatus(response, status) == [response EXCEPT !.status = status]

(* js_response_set_cookie: attributes come in an order of their own.       *)
Attributes == <<"Max-Age", "HttpOnly", "Secure", "SameSite">>

CookieLine(value, options) ==
  LET Attribute(i) == IF Attributes[i] \in options.attributes THEN <<Attributes[i]>> ELSE <<>>
  IN <<"Set-Cookie", ":">> \o CString(value)
     \o <<"Path", IF options.path = "" THEN "/" ELSE options.path>>
     \o Attribute(1) \o Attribute(2) \o Attribute(3) \o Attribute(4)

SetCookie(response, value, options) == AppendHeader(response, CookieLine(value, options))

(* response_append_body                                                    *)
AppendBody(response, data) ==
  LET cap == Grown(response.body_cap, Len(response.body) + Len(data) + 1)
  IN [response EXCEPT !.body_cap = cap, !.body = Held(@ \o data, cap)]

(* js_print: what is printed ends at a NUL.                                *)
PrintText(response, str) == AppendBody(response, CString(str))

(* response_output                                                         *)
Output(response, cli) ==
  IF cli THEN response.body
  ELSE <<"Status", ":", response.status>> \o CRLF
       \o (IF response.content_type_set THEN <<>>
           ELSE <<"Content-Type", ":", "text/html">> \o CRLF)
       \o <<"Content-Length", ":", ToString(Len(response.body))>> \o CRLF
       \o response.headers \o CRLF
       \o response.body

(* output_error, to a terminal as well                                     *)
ErrorPage(message, display_errors) ==
  <<"Status", ":", "500">> \o CRLF \o <<"Content-Type", ":", "text/html">> \o CRLF \o CRLF
  \o (IF display_errors THEN message ELSE <<"Internal Server Error">>)

(* What execute_script writes when the script has ended or thrown an error *)
(* (<<>>: it has not).                                                     *)
OutputOf(response, error, cli, display_errors) ==
  IF error = <<>> THEN Output(response, cli) ELSE ErrorPage(error, display_errors)

-----------------------------------------------------------------------------
(* The lines of a head, but for those of the status: one line more.        *)
NextLine(output, end, hdr) ==
  LET eol == Find(output, hdr.pos, Len(output) + 1, CRLF)
      line == SubSeq(output, hdr.pos, eol - 1)
  IN IF hdr.pos >= end THEN hdr
     ELSE [pos |-> eol + Len(CRLF),
           lines |-> IF line[1] = "Status" THEN hdr.lines ELSE Append(hdr.lines, line)]

HeaderLines(output, end) ==
  LET loop[i \in 0..end] == IF i = 0 THEN [pos |-> 1, lines |-> <<>>]
                            ELSE NextLine(output, end, loop[i - 1])
  IN loop[end].lines

(* What the client of the development server gets of an output: the status *)
(* is the first one in the head.                                           *)
Answer(output) ==
  LET end == Find(output, 1, Len(output) + 1, CRLF \o CRLF)
      at == Find(output, 1, end, <<"Status", ":">>)
  IN IF end = 0 THEN [status |-> "500", headers |-> <<<<"Content-Type", ":", "text/html">>>>,
                      body |-> <<"Malformed CGI response">>]
     ELSE [status |-> IF at # 0 THEN output[at + 2] ELSE "200",
           headers |-> HeaderLines(output, end),
           body |-> SubSeq(output, end + 4, Len(output))]
=============================================================================
