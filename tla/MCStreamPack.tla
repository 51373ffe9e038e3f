----------------------------- MODULE MCStreamPack -----------------------------
(* An instance of StreamPack for TLC: the values are in the .cfg file.     *)
EXTENDS StreamPack

=============================================================================
