------------------------------ MODULE MCParsers ------------------------------
(* The two parsers side by side: a behaviour is one of the messages that a   *)
(* peer sends or of the index and its queries; the other part stays where it *)
(* began.                                                                    *)
EXTENDS MCHttpStream, MCLunrIndex

VARIABLE part   \* constant: "messages" or "queries"

mcvars == <<part, httpVars, vars>>

\* Nothing is read from the peer, whose messages are the same in all such behaviours.
HttpRests ==
  /\ HttpInit
  /\ reading = "request" /\ messages = <<Message(0, Length(0), <<>>)>>

MCInit ==
  \/ part = "messages" /\ HttpInit /\ Init
  \/ part = "queries" /\ Init /\ HttpRests

\* There are no more calls.
CallsDone == pc = "idle" /\ Len(returned) = MaxCalls /\ UNCHANGED httpVars

MCNext ==
  /\ part' = part
  /\ \/ part = "messages" /\ (HttpNext \/ CallsDone) /\ UNCHANGED vars
     \/ part = "queries" /\ Next /\ UNCHANGED httpVars

MCSpec == MCInit /\ [][MCNext]_mcvars

=============================================================================
