----------------------------- MODULE MCPipeProxy -----------------------------
(* Two messages one way, and a part of one the other. *)
EXTENDS PipeProxy

MCStreams == [s \in Sides |-> IF s = "Local" THEN <<1, 0, 2, 0>> ELSE <<3>>]

=============================================================================
