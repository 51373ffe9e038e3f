-------------------------------- MODULE Vector --------------------------------
(***************************************************************************)
(* lunr.Vector: a sparse vector, kept as a flat array of indices and       *)
(* values in increasing order of the indices.  An insert or upsert finds   *)
(* its place by bisection; an action is the start of the search, one round *)
(* of its loop, or the change of the array at the place found.             *)
(*                                                                         *)
(* A pair of neighbours of the array is a record here; a position of the   *)
(* code is twice the position of its pair.                                 *)
(***************************************************************************)
EXTENDS Integers, Sequences

CONSTANT
  Vectors   \* the vectors in use, one of which is changed at a time

VARIABLES
  elements,    \* the array of each vector
  searching,   \* "no", "insert", "upsert"; "duplicate index" when insert threw
  vec,         \* the vector that is changed,
  insertIdx,   \* the index that is looked for in it,
  val,         \* and the value that comes with it
  sliceStart, sliceEnd,  \* what is left to search
  pivotPoint             \* where the search looks next

vector == <<elements, searching, vec, insertIdx, val, sliceStart, sliceEnd, pivotPoint>>

Pairs == [index : Nat, val : Nat]

VectorTypeOK ==
  /\ elements \in [Vectors -> Seq(Pairs)]
  /\ searching \in {"no", "insert", "upsert", "duplicate index"}
  /\ vec \in Vectors
  /\ insertIdx \in Nat
  /\ val \in Nat
  /\ sliceStart \in Nat
  /\ sliceEnd \in Nat
  /\ pivotPoint \in Nat

VectorInit ==
  /\ elements = [v \in Vectors |-> <<>>]
  /\ searching = "no"
  /\ vec \in Vectors
  /\ insertIdx = 0
  /\ val = 0
  /\ sliceStart = 0
  /\ sliceEnd = 0
  /\ pivotPoint = 0

-----------------------------------------------------------------------------
\* The search begins in the middle of the whole vector.
PositionForIndex(kind, v, i, x) ==
  /\ searching = "no"
  /\ searching' = kind
  /\ vec' = v
  /\ insertIdx' = i
  /\ val' = x
  /\ sliceStart' = 0
  /\ sliceEnd' = Len(elements[v])
  /\ pivotPoint' = Len(elements[v]) \div 2
  /\ UNCHANGED elements

Insert(v, i, x) == PositionForIndex("insert", v, i, x)
Upsert(v, i, x) == PositionForIndex("upsert", v, i, x)

InSearch == searching \in {"insert", "upsert"}

\* The pairs are counted from 0 by the code, from 1 by the sequence.
PivotIndex == elements[vec][pivotPoint + 1].index

\* The loop goes on while more than one pair is left and the pivot is not it.
Looking == sliceEnd - sliceStart > 1 /\ PivotIndex # insertIdx

\* One round of the loop.
Probe ==
  /\ InSearch
  /\ Looking
  /\ sliceStart' = IF PivotIndex < insertIdx THEN pivotPoint ELSE sliceStart
  /\ sliceEnd' = IF PivotIndex > insertIdx THEN pivotPoint ELSE sliceEnd
  /\ pivotPoint' = sliceStart' + (sliceEnd' - sliceStart') \div 2
  /\ UNCHANGED <<elements, searching, vec, insertIdx, val>>

\* Mutant of Position: the place is never behind the pivot.
PositionBefore == IF elements[vec] = <<>> THEN 0 ELSE pivotPoint

\* What positionForIndex returns once its loop is over: the pivot's place, or
\* the one behind it.
Position ==
  IF elements[vec] = <<>> THEN 0
  ELSE IF PivotIndex < insertIdx THEN pivotPoint + 1 ELSE pivotPoint

\* Array.splice: `e` comes to stand behind the first `p` pairs.
Splice(s, p, e) == SubSeq(s, 1, p) \o <<e>> \o SubSeq(s, p + 1, Len(s))

\* Is there a pair with the index at the place found?
Hit == Position < Len(elements[vec]) /\ elements[vec][Position + 1].index = insertIdx

\* upsert adds the weights of an index that is there; insert throws.
Combine ==
  IF searching = "insert" THEN
    /\ searching' = "duplicate index"
    /\ UNCHANGED elements
  ELSE
    /\ searching' = "no"
    /\ elements' = [elements EXCEPT ![vec][Position + 1].val = @ + val]

Place ==
  /\ InSearch
  /\ ~Looking
  /\ \/ /\ Hit
        /\ Combine
     \/ /\ ~Hit
        /\ searching' = "no"
        /\ elements' = [elements EXCEPT ![vec] =
                          Splice(@, Position, [index |-> insertIdx, val |-> val])]
  /\ insertIdx' = 0 /\ val' = 0
  /\ sliceStart' = 0 /\ sliceEnd' = 0 /\ pivotPoint' = 0
  /\ UNCHANGED vec

-----------------------------------------------------------------------------
\* The merge of two vectors that dot makes: the products of the values of the
\* indices that both have.
Dot(a, b) ==
  LET d[i \in 1..Len(a) + 1, j \in 1..Len(b) + 1] ==
        IF i > Len(a) \/ j > Len(b) THEN 0
        ELSE IF a[i].index < b[j].index THEN d[i + 1, j]
        ELSE IF a[i].index > b[j].index THEN d[i, j + 1]
        ELSE a[i].val * b[j].val + d[i + 1, j + 1]
  IN d[1, 1]

-----------------------------------------------------------------------------
\* The indices of a vector increase: dot, which walks two vectors side by side,
\* misses no common index, and no index stands twice.
Increasing(s) == \A i, j \in 1..Len(s) : i < j => s[i].index < s[j].index

VectorSorted == \A v \in Vectors : Increasing(elements[v])

\* The bisection keeps the index that it looks for between its bounds: what is
\* before them is smaller, what is behind them is greater.
SearchBounded ==
  InSearch => LET s == elements[vec] IN
    /\ sliceStart <= sliceEnd /\ sliceEnd <= Len(s)
    /\ s # <<>> => sliceStart < sliceEnd
    /\ pivotPoint = sliceStart + (sliceEnd - sliceStart) \div 2
    /\ sliceStart > 0 => s[sliceStart + 1].index < insertIdx
    /\ sliceEnd < Len(s) => insertIdx < s[sliceEnd + 1].index

=============================================================================
