-------------------------- MODULE MCFcgiConnection --------------------------
(***************************************************************************)
(* FcgiConnection for TLC, and what the documentation says of uploads.     *)
(***************************************************************************)
EXTENDS FcgiConnection

(* README.md:476-477 and js-cgi.ini:15-16 admit uploads up to 2 MiB: a     *)
(* request with a body up to MaxBody, sent completely, is answered, or     *)
(* lost with its connection (the body is written to a pipe at 1487).       *)
UploadSettled ==
  (cur > 0 /\ req.body > 0 /\ sent = Total /\ fate[cur] = "pending")
    ~> (cur > 0 /\ fate[cur] # "pending")
=============================================================================
