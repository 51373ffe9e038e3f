--------------------------- MODULE MCStreamExtended ---------------------------
(* The parts of Stream-Extended side by side: a behaviour is one of a reader  *)
(* (six bytes, with ends of lines), of a hello peeked at or written, or of    *)
(* the pool with three streams of two sizes; the other parts stay where they  *)
(* began.                                                                     *)
EXTENDS MCAlpnAdder, CopyStream, BufferPool

VARIABLE part   \* constant: "reader", "hello" or "pool"

mcvars == <<part, vars, avars, poolVars>>

MCText == <<"x", "CR", "LF", "LF", "x", "CR">>

\* The parts that stay where they are, each in one of its initial states.
ReaderRests == CopyInit /\ ~through

HelloRests ==
  /\ AlpnInit /\ ~adding
  /\ side = "client" /\ bufferSize = 50 /\ hello = NotTls("other", "client", 0, 0, 20)

PoolRests == PoolInit /\ \A s \in Streams : size[s] = 1

MCInit ==
  \/ part = "reader" /\ CopyInit /\ HelloRests /\ PoolRests
  \/ part = "hello" /\ AlpnInit /\ ReaderRests /\ PoolRests
  \/ part = "pool" /\ PoolInit /\ ReaderRests /\ HelloRests

\* Arrays are alike before they are made, and streams, which have every size, before
\* they are created, so that the order of their numbers loses nothing.
InOrderMade ==
  /\ \A b \in Buffers : length'[b] # 0 => \A c \in 1..b - 1 : length'[c] # 0
  /\ \A s \in Streams : state'[s] # "new" => \A t \in 1..s - 1 : state'[t] # "new"

\* Nothing is left to do: no stream is open, no operation runs, the stack is empty,
\* and there are no more streams to create or no more arrays for one.
PoolDone ==
  /\ buffers = <<>>
  /\ \A s \in Streams : state[s] # "open" /\ borrowed[s] = None
  /\ (\A s \in Streams : state[s] = "disposed") \/ (\A b \in Buffers : length[b] # 0)

MCPoolNext ==
  \/ PoolNext /\ InOrderMade
  \/ PoolDone /\ UNCHANGED poolVars

MCNext ==
  /\ part' = part
  /\ \/ part = "reader" /\ CopyNext /\ UNCHANGED <<avars, poolVars>>
     \/ part = "hello" /\ AlpnNext /\ UNCHANGED <<vars, poolVars>>
     \/ part = "pool" /\ MCPoolNext /\ UNCHANGED <<vars, avars>>

MCSpec == MCInit /\ [][MCNext]_mcvars /\ CopyFairness

=============================================================================
