-------------------------- MODULE MCBufferedStream --------------------------
(* A small stream and a smaller buffer. *)
EXTENDS BufferedStream

MCText == <<"x", "CR", "LF", "LF", "x", "CR">>

=============================================================================
