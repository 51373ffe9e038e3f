----------------------------- MODULE AddressRing -----------------------------
(***************************************************************************)
(* ConnectHelper.CreateIp: the addresses of a remote host in a queue that  *)
(* every connection turns by one before it takes them all.  The queue is   *)
(* safe for threads; the turn, three operations of it, is not atomic.      *)
(***************************************************************************)
EXTENDS Naturals, Sequences, FiniteSets, SequencesExt

CONSTANTS
  Addresses,  \* what Dns.GetHostAddresses gave, in order and without repetition
  Clients     \* whose connections ask for addresses, each once

NoAddress == "none"

ASSUME AddressRingAssumption ==
  /\ Addresses \in Seq(STRING) \ {<<>>}
  /\ IsInjective(Addresses)
  /\ NoAddress \notin ToSet(Addresses)

VARIABLES
  queue,  \* the queue
  turn,   \* per client: "before", "dequeued", "turned" or "done"
  ip,     \* per client: the address it took out and has not put back, or NoAddress
  ips     \* per client: what ToArray gave it

ring == <<queue, turn, ip, ips>>

RingInit ==
  /\ queue = Addresses
  /\ turn = [c \in Clients |-> "before"]
  /\ ip = [c \in Clients |-> NoAddress]
  /\ ips = [c \in Clients |-> <<>>]

\* TryDequeue: nothing, when other calls hold every address.
TryDequeue(c) ==
  /\ turn[c] = "before"
  /\ turn' = [turn EXCEPT ![c] = "dequeued"]
  /\ \/ /\ queue = <<>>
        /\ UNCHANGED <<queue, ip>>
     \/ /\ queue # <<>>
        /\ ip' = [ip EXCEPT ![c] = Head(queue)]
        /\ queue' = Tail(queue)
  /\ UNCHANGED ips

\* Mutant of Enqueue: the address is not put back.
EnqueueNothing(c) ==
  /\ turn[c] = "dequeued"
  /\ turn' = [turn EXCEPT ![c] = "turned"]
  /\ ip' = [ip EXCEPT ![c] = NoAddress]
  /\ UNCHANGED <<queue, ips>>

\* The address, if there was one, goes to the queue's end.
Enqueue(c) ==
  /\ turn[c] = "dequeued"
  /\ turn' = [turn EXCEPT ![c] = "turned"]
  /\ queue' = IF ip[c] = NoAddress THEN queue ELSE Append(queue, ip[c])
  /\ ip' = [ip EXCEPT ![c] = NoAddress]
  /\ UNCHANGED ips

\* What the queue holds at this moment, for Socket.ConnectAsync to try in order.
ToArray(c) ==
  /\ turn[c] = "turned"
  /\ turn' = [turn EXCEPT ![c] = "done"]
  /\ ips' = [ips EXCEPT ![c] = queue]
  /\ UNCHANGED <<queue, ip>>

Turn(c) == TryDequeue(c) \/ Enqueue(c) \/ ToArray(c)

-----------------------------------------------------------------------------
(* Properties.                                                             *)

Holders == {c \in Clients : ip[c] # NoAddress}

\* However the calls' steps interleave no address is lost and none is doubled: each
\* is in the queue once or in the hands of one call.
AddressesKept ==
  /\ IsInjective(queue)
  /\ \A c, d \in Holders : c # d => ip[c] # ip[d]
  /\ \A c \in Holders : ip[c] \notin ToSet(queue)
  /\ ToSet(queue) \cup {ip[c] : c \in Holders} = ToSet(Addresses)

=============================================================================
