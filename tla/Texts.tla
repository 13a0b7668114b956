------------------------------- MODULE Texts --------------------------------
(***************************************************************************)
(* What the program reads, or makes, next to what was meant by it.         *)
(***************************************************************************)
VARIABLES
  kind,   \* what is written
  text,   \* the bytes, characters or words, or the response
  said    \* what they mean
=============================================================================
