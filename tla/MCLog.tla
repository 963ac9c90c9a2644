------------------------------- MODULE MCLog --------------------------------
(* LogSized on a small instance. *)
EXTENDS LogSized
=============================================================================
