---------------------------- MODULE MCVideoProxy ----------------------------
(* Instances of the video proxy. *)
EXTENDS VideoProxy

CONSTANT c1

MCLocals == {c1}

=============================================================================
