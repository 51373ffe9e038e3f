------------------------------ MODULE BufferPool ------------------------------
(***************************************************************************)
(* Stream-Extended's DefaultBufferPool, a stack of byte arrays, and those  *)
(* that share it: a CustomBufferedStream or CopyStream holds an array from *)
(* its constructor to its disposal, ReadLineAsync and CopyToAsync borrow   *)
(* one while they run.  The stack is safe for threads, so that each call   *)
(* of it is a step of its own.                                             *)
(***************************************************************************)
EXTENDS Naturals, Sequences, SequencesExt

CONSTANTS
  Streams,   \* the streams that share the pool
  Sizes,     \* the buffer sizes that they ask for
  Buffers    \* identities of arrays, as many as are ever made

ASSUME BufferPoolAssumption == Sizes \subseteq Nat \ {0}

None == 0
ASSUME NoneAssumption == None \notin Buffers

VARIABLES
  buffers,   \* the pool's stack, its top last
  length,    \* per array: its length, 0 when it was not made yet
  state,     \* per stream: "new", "open" or "disposed"
  size,      \* per stream: its BufferSize
  held,      \* per stream: streamBuffer (CopyStream: buffer), or None
  borrowed   \* per stream: the array of an operation under way, or None

poolVars == <<buffers, length, state, size, held, borrowed>>

PoolInit ==
  /\ buffers = <<>>
  /\ length = [b \in Buffers |-> 0]
  /\ state = [s \in Streams |-> "new"]
  /\ size \in [Streams -> Sizes]
  /\ held = [s \in Streams |-> None]
  /\ borrowed = [s \in Streams |-> None]

MakeBuffer(n, b) == length[b] = 0 /\ length' = [length EXCEPT ![b] = n]

\* Mutant of GetBuffer: the array is not taken off the stack.
GetBufferPeeks(n, b) ==
  IF buffers # <<>> /\ length[Last(buffers)] = n
  THEN b = Last(buffers) /\ UNCHANGED <<buffers, length>>
  ELSE MakeBuffer(n, b) /\ UNCHANGED buffers

\* Mutant of GetBuffer: whatever is on the stack will do.
GetBufferAnyLength(n, b) ==
  IF buffers # <<>>
  THEN b = Last(buffers) /\ buffers' = Front(buffers) /\ UNCHANGED length
  ELSE MakeBuffer(n, b) /\ UNCHANGED buffers

\* GetBuffer(n) returns b: the top of the stack, if it has the length, or a new
\* array; a top of another length is taken off and dropped.
GetBuffer(n, b) ==
  IF buffers # <<>> /\ length[Last(buffers)] = n
  THEN b = Last(buffers) /\ buffers' = Front(buffers) /\ UNCHANGED length
  ELSE MakeBuffer(n, b) /\ buffers' = IF buffers = <<>> THEN <<>> ELSE Front(buffers)

\* ReturnBuffer, which ignores a null.
ReturnBuffer(b) == buffers' = IF b = None THEN buffers ELSE Append(buffers, b)

\* The constructors.
Create(s, b) ==
  /\ state[s] = "new"
  /\ GetBuffer(size[s], b)
  /\ state' = [state EXCEPT ![s] = "open"]
  /\ held' = [held EXCEPT ![s] = b]
  /\ UNCHANGED <<size, borrowed>>

\* ReadLineAsync or CopyToAsync begins ...
Borrow(s, b) ==
  /\ state[s] = "open"
  /\ borrowed[s] = None
  /\ GetBuffer(size[s], b)
  /\ borrowed' = [borrowed EXCEPT ![s] = b]
  /\ UNCHANGED <<state, size, held>>

\* ... and ends, well or with an exception, before or after the disposal: a line
\* that has outgrown the array gives back the array and not its replacement.
GiveBack(s) ==
  /\ borrowed[s] # None
  /\ ReturnBuffer(borrowed[s])
  /\ borrowed' = [borrowed EXCEPT ![s] = None]
  /\ UNCHANGED <<length, state, size, held>>

\* Dispose, called any number of times.
DisposeStream(s) ==
  /\ state[s] = "open"
  /\ state' = [state EXCEPT ![s] = "disposed"]
  /\ held' = [held EXCEPT ![s] = None]
  /\ ReturnBuffer(held[s])
  /\ UNCHANGED <<length, size, borrowed>>

\* The pool's own Dispose; streams may live on and give back to it.
Clear ==
  /\ buffers # <<>>
  /\ buffers' = <<>>
  /\ UNCHANGED <<length, state, size, held, borrowed>>

PoolNext ==
  \/ Clear
  \/ \E s \in Streams :
       \/ GiveBack(s) \/ DisposeStream(s)
       \/ \E b \in Buffers : Create(s, b) \/ Borrow(s, b)

PoolSpec == PoolInit /\ [][PoolNext]_poolVars

-----------------------------------------------------------------------------
(* Properties.                                                             *)

TypeOK ==
  /\ buffers \in Seq(Buffers)
  /\ length \in [Buffers -> Sizes \cup {0}]
  /\ state \in [Streams -> {"new", "open", "disposed"}]
  /\ size \in [Streams -> Sizes]
  /\ held \in [Streams -> Buffers \cup {None}]
  /\ borrowed \in [Streams -> Buffers \cup {None}]

\* No array is in two hands, nor in a hand and in the pool, nor in the pool twice:
\* the bytes of one stream never come to lie in the buffer of another, whatever
\* operations begin and end between two disposals.
NoSharing ==
  /\ IsInjective(buffers)
  /\ \A s, t \in Streams :
       /\ held[s] # None => held[s] # borrowed[t] /\ held[s] \notin ToSet(buffers)
       /\ borrowed[s] # None => borrowed[s] \notin ToSet(buffers)
       /\ s # t /\ held[s] # None => held[s] # held[t]
       /\ s # t /\ borrowed[s] # None => borrowed[s] # borrowed[t]

\* Every array in use has the length its stream takes it to have, though streams of
\* other sizes put theirs on the same stack.
RightLength ==
  \A s \in Streams : \A b \in {held[s], borrowed[s]} \ {None} : length[b] = size[s]

=============================================================================
