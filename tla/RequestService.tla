--------------------------- MODULE RequestService ---------------------------
(***************************************************************************)
(* What MHttpClient promises its callers, without connections, channels or *)
(* tasks: every call asks, its question is settled at most once, and the   *)
(* call either asks again (after an I/O failure) or returns what it was    *)
(* settled with.  A response it returns is its own, or one the server sent *)
(* unasked.  StreamPack implements this specification.                     *)
(***************************************************************************)
CONSTANTS Requests, None

VARIABLES caller, reply

vars == <<caller, reply>>

NoReply == [kind |-> "none", of |-> None]

\* The outcomes a call of r may be settled with.
Outcomes(r) ==
  {[kind |-> "response", of |-> of] : of \in {r, None}}
    \cup {[kind |-> k, of |-> None] : k \in {"io", "cancel", "proto", "connect"}}

Init ==
  /\ caller = [r \in Requests |-> "offering"]
  /\ reply = [r \in Requests |-> NoReply]

Ask(r) ==
  /\ caller[r] = "offering"
  /\ caller' = [caller EXCEPT ![r] = "waiting"]
  /\ UNCHANGED reply

Settle(r) ==
  /\ caller[r] = "waiting"
  /\ reply[r] = NoReply
  /\ \E v \in Outcomes(r) : reply' = [reply EXCEPT ![r] = v]
  /\ UNCHANGED caller

AskAgain(r) ==
  /\ caller[r] = "waiting"
  /\ reply[r].kind = "io"
  /\ caller' = [caller EXCEPT ![r] = "offering"]
  /\ reply' = [reply EXCEPT ![r] = NoReply]

Return(r) ==
  /\ caller[r] = "waiting"
  /\ reply[r] # NoReply
  /\ reply[r].kind # "io"
  /\ caller' = [caller EXCEPT ![r] = "done"]
  /\ UNCHANGED reply

Next == \E r \in Requests : Ask(r) \/ Settle(r) \/ AskAgain(r) \/ Return(r)

Spec == Init /\ [][Next]_vars

=============================================================================
