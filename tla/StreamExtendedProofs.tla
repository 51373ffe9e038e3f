------------------------ MODULE StreamExtendedProofs ------------------------
(***************************************************************************)
(* Stream-Extended.  A CustomBufferedStream of any size, and the           *)
(* CopyStream over it, repeat and move no byte, lose none but those of an  *)
(* unfinished line, and answer peeks and lines right, for every text,      *)
(* every mix of operations and every cut of the text into reads.           *)
(* The pool that its buffers come from gives each to one stream at a time. *)
(* For hellos of every length, however their bytes come, the peek reports  *)
(* no other hello than the one sent, and a hello that gets an extension    *)
(* from the ALPN adders stays one hello.                                   *)
(***************************************************************************)
EXTENDS CopyStream, BufferPool, AlpnAdder, WellFoundedInduction, SequenceTheorems,
        FiniteSetTheorems, TLAPS

-----------------------------------------------------------------------------
(* Runs: the bytes that follow the first `a` of the base stream.           *)

Run(s, a) == s \in Seq(Nat) /\ \A i \in 1..Len(s) : s[i] = a + i

LEMMA RunConcat ==
  ASSUME NEW a \in Nat, NEW s, NEW t, Run(s, a), Run(t, a + Len(s))
  PROVE  Run(s \o t, a) /\ Len(s \o t) = Len(s) + Len(t)
<1>1. s \in Seq(Nat) /\ t \in Seq(Nat) /\ Len(s) \in Nat /\ Len(t) \in Nat
  BY DEF Run
<1>2. /\ s \o t \in Seq(Nat) /\ Len(s \o t) = Len(s) + Len(t)
      /\ \A i \in 1..Len(s) + Len(t) :
           (s \o t)[i] = IF i <= Len(s) THEN s[i] ELSE t[i - Len(s)]
  BY <1>1, ConcatProperties
<1>3. ASSUME NEW i \in 1..Len(s) + Len(t)
      PROVE  (s \o t)[i] = a + i
  <2>1. CASE i <= Len(s)
    BY <1>1, <1>2, <2>1 DEF Run
  <2>2. CASE ~(i <= Len(s))
    <3>1. i - Len(s) \in 1..Len(t) /\ (a + Len(s)) + (i - Len(s)) = a + i
      BY <1>1, <2>2
    <3> QED BY <1>2, <2>2, <3>1 DEF Run
  <2> QED BY <2>1, <2>2
<1> QED BY <1>2, <1>3 DEF Run

LEMMA RunSub ==
  ASSUME NEW a \in Nat, NEW s, Run(s, a), NEW m \in Nat, NEW n \in Nat, m <= n, n <= Len(s)
  PROVE  Run(SubSeq(s, m + 1, n), a + m) /\ Len(SubSeq(s, m + 1, n)) = n - m
<1>1. s \in Seq(Nat) /\ Len(s) \in Nat
  BY DEF Run
<1>2. \A i \in m + 1..n : s[i] \in Nat /\ s[i] = a + i
  BY <1>1 DEF Run
<1>3. /\ SubSeq(s, m + 1, n) \in Seq(Nat)
      /\ Len(SubSeq(s, m + 1, n)) = IF m + 1 <= n THEN n - (m + 1) + 1 ELSE 0
      /\ \A i \in 1..n - (m + 1) + 1 : SubSeq(s, m + 1, n)[i] = s[(m + 1) + i - 1]
  BY <1>2, SubSeqProperties
<1>4. Len(SubSeq(s, m + 1, n)) = n - m /\ n - (m + 1) + 1 = n - m
  BY <1>3
<1>5. \A i \in 1..n - m : (m + 1) + i - 1 \in m + 1..n /\ a + ((m + 1) + i - 1) = (a + m) + i
  OBVIOUS
<1> QED BY <1>2, <1>3, <1>4, <1>5 DEF Run

LEMMA RunFront ==
  ASSUME NEW a \in Nat, NEW s, Run(s, a), NEW n \in Nat, n <= Len(s)
  PROVE  Run(SubSeq(s, 1, n), a) /\ Len(SubSeq(s, 1, n)) = n
<1> DEFINE m == 0
<1>1. m \in Nat /\ m <= n
  OBVIOUS
<1>2. m + 1 = 1 /\ a + m = a /\ n - m = n
  OBVIOUS
<1> HIDE DEF m
<1>3. Run(SubSeq(s, m + 1, n), a + m) /\ Len(SubSeq(s, m + 1, n)) = n - m
  BY <1>1, RunSub
<1> QED BY <1>2, <1>3

LEMMA RunEqual ==
  ASSUME NEW a, NEW s, NEW t, Run(s, a), Run(t, a), Len(s) = Len(t)
  PROVE  s = t
BY SeqEqual DEF Run

LEMMA RunEmpty ==
  ASSUME NEW a
  PROVE  Run(<<>>, a) /\ Len(<<>>) = 0
BY DEF Run

-----------------------------------------------------------------------------
(* The window.                                                             *)

\* A buffer whose place pos begins len bytes, those that follow the first `a`.
Holds(buf, pos, len, a) ==
  /\ buf \in [0..Size - 1 -> Nat]
  /\ pos \in Nat /\ len \in Nat /\ pos + len <= Size
  /\ \A i \in 1..len : buf[pos + i - 1] = a + i

LEMMA RunSlice ==
  ASSUME NEW buf, NEW pos, NEW len, NEW a \in Nat, Holds(buf, pos, len, a), NEW n \in 0..len
  PROVE  Run(Slice(buf, pos, n), a) /\ Len(Slice(buf, pos, n)) = n
<1>1. n \in Nat /\ len \in Nat /\ n <= len
  BY DEF Holds
<1>2. \A i \in 1..n : i \in 1..len /\ a + i \in Nat
  BY <1>1
<1>3. \A i \in 1..n : buf[pos + i - 1] = a + i
  BY <1>2 DEF Holds
<1> QED BY <1>1, <1>2, <1>3 DEF Slice, Run

\* The types, and that a suspended operation left the window at the front.
BufferTypeOK ==
  /\ sent \in 0..Total
  /\ taken \in 0..sent
  /\ closed \in BOOLEAN
  /\ op.n \in Nat
  /\ op # Idle => bufferPos = 0

Buffered ==
  /\ Run(used, 0)
  /\ Holds(streamBuffer, bufferPos, bufferLength, Len(used))
  /\ Len(used) + bufferLength = taken

\* A line of which the bytes from n + 1 on were taken has not ended yet.
LineGoesOn(o, g) ==
  o.name = "line" => o.n <= Len(g) /\ \A i \in o.n + 1..Len(g) : Text[i] # "LF"

IInv == BufferTypeOK /\ Buffered /\ LineGoesOn(op, used) /\ LostRight /\ AnswersRight

\* Buffered is InOrder, with the types.
LEMMA BufferedInOrder ==
  Buffered /\ LostRight => InOrder
<1> SUFFICES ASSUME Buffered, LostRight PROVE InOrder
  OBVIOUS
<1>1. \A i \in 1..Len(used) : 0 + i = i
  BY DEF Buffered, Run
<1> QED BY <1>1 DEF InOrder, Buffered, Run, Holds

-----------------------------------------------------------------------------
(* What an operation does when it goes on, on a window that holds the next *)
(* bytes (buf, pos, len): those that are buffered, and those that came.    *)

Given(o, buf, pos, len) ==
  /\ o.n \in Nat
  /\ Run(used, 0)
  /\ Holds(buf, pos, len, Len(used))
  /\ LineGoesOn(o, used)
  /\ taken' = Len(used) + len
  /\ taken' <= Total
  /\ LostRight
  /\ lost' = lost
  /\ o.name = "line" => \A i \in lost : i <= o.n

\* Where it leaves the stream.
Left(o) ==
  /\ Buffered'
  /\ Len(used) <= Len(used')
  /\ op' \in {o, Idle}
  /\ op' # Idle => bufferPos' = 0
  /\ LineGoesOn(op', used')
  /\ LostRight'
  /\ AnswersRight'

LEMMA OpTypes ==
  /\ Idle.n \in Nat
  /\ Idle.name = "none"
  /\ NoAnswer.op.name = "none"
<1>1. Idle = [name |-> "none", n |-> 0, m |-> 0]
  BY DEF Idle, Op
<1>2. NoAnswer.op = Idle
  BY DEF NoAnswer, Answer
<1> QED BY <1>1, <1>2

\* What a line lost before stays lost, and is not of the operation.
LEMMA LostStays ==
  ASSUME NEW o, NEW buf, NEW pos, NEW len, Given(o, buf, pos, len),
         Run(used', 0), Len(used) <= Len(used'),
         op' \in {o, Idle}, answer'.op \in {o, Idle}
  PROVE  LostRight'
<1>1. Len(used) \in Nat /\ Len(used') \in Nat
  BY DEF Given, Run
<1> SUFFICES ASSUME NEW i \in lost
             PROVE  /\ i \in 1..Len(used') /\ Text[i] # "LF"
                    /\ op'.name = "line" => i <= op'.n
                    /\ answer'.op.name = "line" /\ answer'.kind # "throws" => i <= answer'.op.n
  BY DEF Given, LostRight
<1>2. i \in 1..Len(used) /\ Text[i] # "LF" /\ (o.name = "line" => i <= o.n)
  BY DEF Given, LostRight
<1> QED BY <1>1, <1>2, OpTypes

\* Bytes 1..n of the window are taken.
LEMMA TakeBytes ==
  ASSUME NEW o, NEW buf, NEW pos, NEW len, Given(o, buf, pos, len), NEW n \in 0..len,
         used' = used \o Slice(buf, pos, n)
  PROVE  /\ Run(used', 0) /\ Len(used') = Len(used) + n
         /\ Holds(buf, pos + n, len - n, Len(used'))
<1> DEFINE g == used \o Slice(buf, pos, n)
<1>1. Len(used) \in Nat
  BY DEF Given, Run
<1>2. Run(g, 0) /\ Len(g) = Len(used) + n
  <2>1. Run(Slice(buf, pos, n), Len(used)) /\ Len(Slice(buf, pos, n)) = n
    BY <1>1, RunSlice DEF Given
  <2>2. Run(Slice(buf, pos, n), 0 + Len(used))
    <3>1. 0 + Len(used) = Len(used)
      BY <1>1
    <3> QED BY <2>1, <3>1
  <2>3. Run(used, 0) /\ 0 \in Nat
    BY DEF Given
  <2> QED BY <2>1, <2>2, <2>3, RunConcat
<1> HIDE DEF g
<1>3. ASSUME NEW i \in 1..len - n
      PROVE  buf[(pos + n) + i - 1] = Len(g) + i
  <2>1. /\ n + i \in 1..len
        /\ (pos + n) + i - 1 = pos + (n + i) - 1
        /\ Len(g) + i = Len(used) + (n + i)
    BY <1>1, <1>2 DEF Given, Holds
  <2> QED BY <2>1 DEF Given, Holds
<1>4. used' = g
  BY DEF g
<1>5. Holds(buf, pos + n, len - n, Len(g))
  <2>1. pos + n \in Nat /\ len - n \in Nat /\ (pos + n) + (len - n) <= Size
    BY BufferedStreamAssumption DEF Given, Holds
  <2> QED BY <1>3, <2>1 DEF Given, Holds
<1> QED BY <1>2, <1>4, <1>5

\* An operation that is neither a line nor a peek is answered by its bytes.
LEMMA OthersRight ==
  ASSUME answer'.op.name \notin {"peek", "line"}
  PROVE  AnswersRight'
BY DEF AnswersRight, PeekRight, LineRight

LEMMA SettleRight ==
  ASSUME NEW o, NEW kind, NEW bytes, Settle(o, kind, bytes), o.name \notin {"peek", "line"}
  PROVE  op' = Idle /\ answer'.op = o /\ LineGoesOn(op', used') /\ AnswersRight'
<1>1. op' = Idle /\ answer'.op = o
  BY DEF Settle, Answer
<1> QED BY <1>1, OthersRight, OpTypes DEF LineGoesOn

LEMMA AwaitRight ==
  ASSUME NEW o, Await(o)
  PROVE  op' = o /\ answer'.op = Idle /\ AnswersRight'
<1>1. op' = o /\ answer' = NoAnswer
  BY DEF Await
<1>2. answer'.op = Idle
  BY <1>1 DEF NoAnswer, Answer
<1> QED BY <1>1, <1>2, OthersRight, OpTypes

LEMMA EndReadLeaves ==
  ASSUME NEW o, NEW buf, NEW pos, NEW len, Given(o, buf, pos, len), o.name = "read",
         EndRead(o, buf, pos, len)
  PROVE  Left(o)
<1> DEFINE n == IF len < o.n THEN len ELSE o.n
<1>1. n \in 0..len /\ Len(used) \in Nat
  BY DEF Given, Holds, Run
<1>2. Deliver(buf, pos, len, n) /\ Settle(o, "bytes", Slice(buf, pos, n))
  BY DEF EndRead
<1> HIDE DEF n
<1>3. Run(used', 0) /\ Len(used') = Len(used) + n /\ Holds(buf, pos + n, len - n, Len(used'))
  <2>1. used' = used \o Slice(buf, pos, n)
    BY <1>2 DEF Deliver
  <2> QED BY <1>1, <2>1, TakeBytes
<1>4. Buffered'
  BY <1>1, <1>2, <1>3 DEF Buffered, Deliver, Given, Holds
<1>5. LostRight'
  BY <1>1, <1>2, <1>3, SettleRight, LostStays
<1> QED BY <1>1, <1>2, <1>3, <1>4, <1>5, SettleRight DEF Left

LEMMA KeepLeaves ==
  ASSUME NEW o, NEW buf, NEW pos, NEW len, Given(o, buf, pos, len), Keep(buf, pos, len)
  PROVE  Buffered' /\ Len(used) <= Len(used')
<1>1. Len(used) \in Nat
  BY DEF Given, Run
<1> QED BY <1>1 DEF Given, Keep, Buffered

LEMMA EndPeekByteLeaves ==
  ASSUME NEW o, NEW buf, NEW pos, NEW len, Given(o, buf, pos, len), o.name = "peek",
         EndPeekByte(o, buf, pos, len)
  PROVE  Left(o)
<1>1. Buffered' /\ Len(used) <= Len(used')
  BY KeepLeaves DEF EndPeekByte
<1>2. op' = Idle /\ answer'.op = o
  BY DEF EndPeekByte, Settle, Answer
<1>3. LineGoesOn(op', used')
  BY <1>2, OpTypes DEF LineGoesOn
<1>4. PeekRight'
  <2>1. Len(used) \in Nat /\ len \in Nat /\ o.n \in Nat /\ used' = used
        /\ taken' = Len(used) + len
    BY DEF Given, Run, Holds, EndPeekByte, Keep
  <2>2. CASE answer'.kind = "throws"
    BY <2>2 DEF PeekRight
  <2>3. CASE answer'.kind = "none" /\ len <= o.n
    BY <1>2, <2>1, <2>3 DEF PeekRight
  <2>4. CASE answer'.kind = "bytes" /\ o.n < len /\ answer'.bytes = <<buf[pos + o.n]>>
    <3>1. o.n + 1 \in 1..len /\ pos + (o.n + 1) - 1 = pos + o.n
      BY <2>1, <2>4 DEF Given, Holds
    <3>2. buf[pos + o.n] = Len(used) + (o.n + 1)
      BY <3>1 DEF Given, Holds
    <3>3. Len(used) + (o.n + 1) = Len(used) + o.n + 1
      BY <2>1
    <3> QED BY <1>2, <2>1, <2>4, <3>2, <3>3 DEF PeekRight
  <2> QED BY <2>2, <2>3, <2>4 DEF EndPeekByte, Settle, Answer
<1>5. LineRight'
  BY <1>2 DEF LineRight
<1>6. LostRight'
  BY <1>1, <1>2, LostStays DEF Buffered
<1> QED BY <1>1, <1>2, <1>3, <1>4, <1>5, <1>6 DEF Left, AnswersRight

LEMMA EndPeekBytesLeaves ==
  ASSUME NEW o, NEW buf, NEW pos, NEW len, Given(o, buf, pos, len),
         o.name \in {"peekbytes", "fill"},
         Keep(buf, pos, len), NEW kind, NEW bytes, Settle(o, kind, bytes)
  PROVE  Left(o)
<1>1. Buffered' /\ Len(used) <= Len(used')
  BY KeepLeaves
<1>2. LostRight'
  BY <1>1, SettleRight, LostStays DEF Buffered
<1> QED BY <1>1, <1>2, SettleRight DEF Left

LEMMA GoOnCopyLeaves ==
  ASSUME NEW o, NEW buf, NEW pos, NEW len, Given(o, buf, pos, len), o.name = "copyto",
         NEW more \in BOOLEAN, GoOnCopy(o, buf, pos, len, more)
  PROVE  Left(o)
<1>1. /\ streamBuffer' = buf /\ bufferLength' = 0
      /\ bufferPos' = (IF more THEN 0 ELSE pos + len)
      /\ used' = used \o Slice(buf, pos, len)
  BY DEF GoOnCopy
<1>2. len \in 0..len /\ len - len = 0 /\ Len(used) \in Nat /\ len \in Nat /\ pos \in Nat
      /\ Size \in Nat /\ pos + len <= Size
  BY BufferedStreamAssumption DEF Given, Holds, Run
<1>3. Run(used', 0) /\ Len(used') = Len(used) + len
  BY <1>1, <1>2, TakeBytes
<1>4. Holds(buf, bufferPos', 0, Len(used'))
  BY <1>1, <1>2 DEF Given, Holds
<1>5. Buffered'
  BY <1>1, <1>2, <1>3, <1>4 DEF Buffered, Given
<1>6. /\ op' \in {o, Idle} /\ answer'.op \in {o, Idle}
      /\ (op' # Idle => bufferPos' = 0) /\ AnswersRight'
  BY <1>1, SettleRight, AwaitRight DEF GoOnCopy
<1>7. LineGoesOn(op', used')
  BY <1>6, OpTypes DEF LineGoesOn
<1>8. LostRight'
  BY <1>2, <1>3, <1>6, LostStays
<1> QED BY <1>2, <1>3, <1>5, <1>6, <1>7, <1>8 DEF Left

-----------------------------------------------------------------------------
(* Lines.                                                                  *)

\* The text of a line that follows the first `a` bytes: without its end.
LEMMA LineOfRun ==
  ASSUME NEW a \in Nat, NEW line, Run(line, a), line # <<>>,
         a + Len(line) <= Total, Text[a + Len(line)] = "LF"
  PROVE  /\ Run(LineOf(line), a)
         /\ Len(LineOf(line)) <= Len(line)
         /\ \A i \in a + 1 + Len(LineOf(line))..a + Len(line) : Text[i] \in {"CR", "LF"}
<1> DEFINE n == Len(line)
<1>1. n \in Nat \ {0}
  BY EmptySeq DEF Run
<1>2. CASE n > 1 /\ Text[line[n - 1]] = "CR"
  <2>1. LineOf(line) = SubSeq(line, 1, n - 2)
    BY <1>2 DEF LineOf
  <2>2. n - 2 \in Nat /\ n - 2 <= n
    BY <1>1, <1>2
  <2>3. Run(LineOf(line), a) /\ Len(LineOf(line)) = n - 2
    BY <2>1, <2>2, RunFront
  <2>4. Text[a + (n - 1)] = "CR"
    <3>1. n - 1 \in 1..Len(line)
      BY <1>1, <1>2
    <3> QED BY <1>2, <3>1 DEF Run
  <2>5. \A i \in a + 1 + (n - 2)..a + n : i = a + (n - 1) \/ i = a + n
    BY <1>1, <1>2
  <2>6. Len(LineOf(line)) = n - 2 /\ n - 2 <= n
    BY <2>2, <2>3
  <2>7. \A i \in a + 1 + Len(LineOf(line))..a + n : Text[i] \in {"CR", "LF"}
    BY <2>4, <2>5, <2>6
  <2> QED BY <2>3, <2>6, <2>7
<1>3. CASE ~(n > 1 /\ Text[line[n - 1]] = "CR")
  <2>1. LineOf(line) = SubSeq(line, 1, n - 1)
    BY <1>3 DEF LineOf
  <2>2. n - 1 \in Nat /\ n - 1 <= n
    BY <1>1
  <2>3. Run(LineOf(line), a) /\ Len(LineOf(line)) = n - 1
    BY <2>1, <2>2, RunFront
  <2>4. \A i \in a + 1 + (n - 1)..a + n : i = a + n
    BY <1>1
  <2>5. Len(LineOf(line)) = n - 1 /\ n - 1 <= n
    BY <2>2, <2>3
  <2>6. \A i \in a + 1 + Len(LineOf(line))..a + n : Text[i] \in {"CR", "LF"}
    BY <2>4, <2>5
  <2> QED BY <2>3, <2>5, <2>6
<1> QED BY <1>2, <1>3

\* A run that is read as LineRight says it.
LEMMA RunIsList ==
  ASSUME NEW a \in Nat, NEW s, Run(s, a)
  PROVE  s = [i \in 1..Len(s) |-> (a + 1) + i - 1]
<1>1. Len(s) \in Nat /\ s \in Seq(Nat) /\ \A i \in 1..Len(s) : s[i] = (a + 1) + i - 1
  BY DEF Run
<1>2. s = [i \in 1..Len(s) |-> s[i]]
  BY <1>1
<1> QED BY <1>1, <1>2

\* The window has no line end in its first n bytes.
LEMMA NoEndYet ==
  ASSUME NEW o, NEW buf, NEW pos, NEW len, Given(o, buf, pos, len), o.name = "line",
         NEW n \in 0..len, \A i \in LineEnds(buf, pos, len) : n < i
  PROVE  \A i \in o.n + 1..Len(used) + n : Text[i] # "LF"
<1> SUFFICES ASSUME NEW i \in o.n + 1..Len(used) + n
             PROVE  Text[i] # "LF"
  OBVIOUS
<1>1. Len(used) \in Nat /\ o.n \in Nat /\ len \in Nat /\ n \in Nat /\ n <= len
  BY DEF Given, Holds, Run
<1>2. CASE i <= Len(used)
  BY <1>1, <1>2 DEF Given, LineGoesOn
<1>3. CASE ~(i <= Len(used))
  <2>1. i - Len(used) \in 1..len /\ i - Len(used) <= n /\ Len(used) + (i - Len(used)) = i
    BY <1>1, <1>3
  <2>2. buf[pos + (i - Len(used)) - 1] = i
    BY <2>1 DEF Given, Holds
  <2>3. i # Junk
    BY <1>1, <1>3 DEF Junk
  <2>4. i - Len(used) \notin LineEnds(buf, pos, len)
    BY <1>1, <2>1
  <2> QED BY <2>1, <2>2, <2>3, <2>4 DEF LineEnds, Char
<1> QED BY <1>2, <1>3

LEMMA LineEndLeaves ==
  ASSUME NEW o, NEW buf, NEW pos, NEW len, Given(o, buf, pos, len), o.name = "line",
         NEW n \in LineEnds(buf, pos, len), \A i \in LineEnds(buf, pos, len) : n <= i,
         Deliver(buf, pos, len, n),
         Settle(o, "bytes", LineOf(SubSeq(used', o.n + 1, Len(used'))))
  PROVE  Left(o)
<1> DEFINE line == SubSeq(used', o.n + 1, Len(used'))
<1>1. /\ n \in 1..len /\ n \in 0..len /\ n - 1 \in 0..len /\ n \in Nat
      /\ Len(used) \in Nat /\ o.n \in Nat /\ o.n <= Len(used) /\ len \in Nat
  BY DEF Given, Holds, Run, LineEnds, LineGoesOn
<1>2. Run(used', 0) /\ Len(used') = Len(used) + n /\ Holds(buf, pos + n, len - n, Len(used'))
  <2>1. used' = used \o Slice(buf, pos, n)
    BY DEF Deliver
  <2> QED BY <1>1, <2>1, TakeBytes
<1>3. Buffered'
  BY <1>1, <1>2 DEF Buffered, Deliver, Given, Holds
<1>4. Run(line, o.n) /\ Len(line) = Len(used') - o.n
  <2>1. o.n \in Nat /\ Len(used') \in Nat /\ o.n <= Len(used') /\ 0 + o.n = o.n /\ 0 \in Nat
    BY <1>1, <1>2
  <2>2. Run(line, 0 + o.n) /\ Len(line) = Len(used') - o.n
    BY <1>2, <2>1, RunSub
  <2> QED BY <2>1, <2>2
<1> HIDE DEF line
<1>5. Text[Len(used')] = "LF"
  <2>1. buf[pos + n - 1] = Len(used) + n
    BY <1>1 DEF Given, Holds
  <2>2. Len(used) + n # Junk
    BY <1>1 DEF Junk
  <2> QED BY <1>2, <2>1, <2>2 DEF LineEnds, Char
<1>6. \A i \in o.n + 1..Len(used') - 1 : Text[i] # "LF"
  <2>1. \A i \in LineEnds(buf, pos, len) : n - 1 < i
    BY <1>1 DEF LineEnds
  <2>2. \A i \in o.n + 1..Len(used) + (n - 1) : Text[i] # "LF"
    BY <1>1, <2>1, NoEndYet
  <2>3. Len(used) + (n - 1) = Len(used') - 1
    BY <1>1, <1>2
  <2> QED BY <2>2, <2>3
<1>7. /\ Run(LineOf(line), o.n)
      /\ \A i \in o.n + 1 + Len(LineOf(line))..Len(used') : Text[i] \in {"CR", "LF"}
  <2>1. o.n + Len(line) = Len(used') /\ Len(line) # 0 /\ Len(used') <= Total
    <3>1. o.n + Len(line) = Len(used') /\ Len(line) # 0
      BY <1>1, <1>2, <1>4
    <3>2. Len(used) + len <= Total /\ Total \in Nat
      BY BufferedStreamAssumption DEF Given, Total
    <3> QED BY <1>1, <1>2, <3>1, <3>2
  <2>2. line # <<>>
    BY <2>1
  <2> QED BY <1>1, <1>4, <1>5, <2>1, <2>2, LineOfRun
<1>8. op' = Idle /\ answer' = Answer(o, "bytes", LineOf(line))
  BY DEF Settle, line
<1>9. answer'.op = o /\ answer'.kind = "bytes" /\ answer'.bytes = LineOf(line)
  BY <1>8 DEF Answer
<1>10. LineRight'
  <2>1. LineOf(line) = [i \in 1..Len(LineOf(line)) |-> (o.n + 1) + i - 1]
    BY <1>1, <1>7, RunIsList
  <2>2. used' # <<>>
    BY <1>1, <1>2
  <2> QED BY <1>5, <1>6, <1>7, <1>9, <2>1, <2>2 DEF LineRight
<1>11. PeekRight'
  BY <1>9 DEF PeekRight
<1>12. LineGoesOn(op', used')
  BY <1>8, OpTypes DEF LineGoesOn
<1>13. LostRight'
  BY <1>1, <1>2, <1>8, <1>9, LostStays
<1> QED BY <1>1, <1>2, <1>3, <1>8, <1>10, <1>11, <1>12, <1>13 DEF Left, AnswersRight

LEMMA LineStopsLeaves ==
  ASSUME NEW o, NEW buf, NEW pos, NEW len, Given(o, buf, pos, len), o.name = "line",
         NEW more \in BOOLEAN, ~more => closed',
         GoOnLine(o, buf, pos, len, more), LineEnds(buf, pos, len) = {}
  PROVE  Left(o)
<1>1. /\ streamBuffer' = buf /\ bufferLength' = 0
      /\ bufferPos' = (IF more THEN 0 ELSE pos + len)
      /\ used' = used \o Slice(buf, pos, len)
      /\ \/ more /\ Await(o)
         \/ /\ ~more
            /\ Settle(o, IF Len(used') = o.n THEN "none" ELSE "bytes",
                      SubSeq(used', o.n + 1, Len(used')))
  BY DEF GoOnLine
<1>2. /\ len \in 0..len /\ Len(used) \in Nat /\ len \in Nat /\ pos \in Nat
      /\ Size \in Nat /\ pos + len <= Size /\ o.n \in Nat /\ o.n <= Len(used)
  BY BufferedStreamAssumption DEF Given, Holds, Run, LineGoesOn
<1>3. Run(used', 0) /\ Len(used') = Len(used) + len
  BY <1>1, <1>2, TakeBytes
<1>4. Holds(buf, bufferPos', 0, Len(used'))
  BY <1>1, <1>2 DEF Given, Holds
<1>5. Buffered'
  BY <1>1, <1>2, <1>3, <1>4 DEF Buffered, Given
<1>6. \A i \in o.n + 1..Len(used') : Text[i] # "LF"
  BY <1>2, <1>3, NoEndYet
<1>7. o.n <= Len(used') /\ Len(used') \in Nat /\ Len(used) <= Len(used')
  BY <1>2, <1>3
<1>8. CASE more /\ Await(o)
  <2>1. op' = o /\ answer'.op = Idle /\ AnswersRight' /\ bufferPos' = 0
    BY <1>1, <1>8, AwaitRight
  <2>2. LineGoesOn(op', used')
    BY <1>6, <1>7, <2>1 DEF LineGoesOn
  <2>3. LostRight'
    BY <1>3, <1>7, <2>1, LostStays
  <2> QED BY <1>5, <1>7, <2>1, <2>2, <2>3 DEF Left
<1>9. CASE ~more
  <2> DEFINE rest == SubSeq(used', o.n + 1, Len(used'))
  <2>1. /\ op' = Idle /\ answer'.op = o /\ answer'.bytes = rest
        /\ answer'.kind = IF Len(used') = o.n THEN "none" ELSE "bytes"
    <3>1. Settle(o, IF Len(used') = o.n THEN "none" ELSE "bytes", rest)
      BY <1>1, <1>9
    <3> QED BY <3>1 DEF Settle, Answer
  <2>2. Run(rest, o.n) /\ Len(rest) = Len(used') - o.n
    <3>1. 0 + o.n = o.n /\ 0 \in Nat
      BY <1>2
    <3>2. Run(rest, 0 + o.n) /\ Len(rest) = Len(used') - o.n
      BY <1>2, <1>3, <1>7, <3>1, RunSub
    <3> QED BY <3>1, <3>2
  <2> HIDE DEF rest
  <2>3. rest = [i \in 1..Len(rest) |-> (o.n + 1) + i - 1]
    BY <1>2, <2>2, RunIsList
  <2>4. closed' /\ Len(used') = taken'
    BY <1>3, <1>9 DEF Given
  <2>5. \A i \in o.n + 1 + Len(rest)..Len(used') : FALSE
    BY <1>2, <1>7, <2>2
  <2>6. \A i \in o.n + 1..Len(used') - 1 : Text[i] # "LF"
    BY <1>2, <1>6, <1>7
  <2>7. answer'.kind = "none" => Len(used') < o.n + 1
    BY <1>2, <1>7, <2>1
  <2>8. LineRight'
    BY <2>1, <2>3, <2>4, <2>5, <2>6, <2>7 DEF LineRight
  <2>9. PeekRight'
    BY <2>1 DEF PeekRight
  <2>10. LineGoesOn(op', used')
    BY <2>1, OpTypes DEF LineGoesOn
  <2>11. LostRight'
    BY <1>3, <1>7, <2>1, LostStays
  <2> QED BY <1>5, <1>7, <2>1, <2>8, <2>9, <2>10, <2>11 DEF Left, AnswersRight
<1> QED BY <1>1, <1>8, <1>9

-----------------------------------------------------------------------------
(* The steps of the stream.                                                *)

LEMMA EndLeaves ==
  ASSUME NEW o, NEW buf, NEW pos, NEW len, Given(o, buf, pos, len), End(o, buf, pos, len)
  PROVE  Left(o)
<1>1. CASE o.name = "read" /\ EndRead(o, buf, pos, len)
  BY <1>1, EndReadLeaves
<1>2. CASE o.name = "peek" /\ EndPeekByte(o, buf, pos, len)
  BY <1>2, EndPeekByteLeaves
<1>3. CASE o.name = "peekbytes" /\ EndPeekBytes(o, buf, pos, len)
  <2>1. Keep(buf, pos, len) /\ \E kind, bytes : Settle(o, kind, bytes)
    BY <1>3 DEF EndPeekBytes
  <2> QED BY <1>3, <2>1, EndPeekBytesLeaves
<1>4. CASE o.name = "fill" /\ EndFill(o, buf, pos, len)
  <2>1. Keep(buf, pos, len) /\ \E kind, bytes : Settle(o, kind, bytes)
    BY <1>4 DEF EndFill
  <2> QED BY <1>4, <2>1, EndPeekBytesLeaves
<1> QED BY <1>1, <1>2, <1>3, <1>4 DEF End

LEMMA GoOnLineLeaves ==
  ASSUME NEW o, NEW buf, NEW pos, NEW len, Given(o, buf, pos, len), o.name = "line",
         NEW more \in BOOLEAN, ~more => closed', GoOnLine(o, buf, pos, len, more)
  PROVE  Left(o)
<1>1. CASE LineEnds(buf, pos, len) = {}
  BY <1>1, LineStopsLeaves
<1>2. CASE LineEnds(buf, pos, len) # {}
  <2>1. PICK n \in LineEnds(buf, pos, len) :
          /\ \A i \in LineEnds(buf, pos, len) : n <= i
          /\ Deliver(buf, pos, len, n)
          /\ Settle(o, "bytes", LineOf(SubSeq(used', o.n + 1, Len(used'))))
    BY <1>2 DEF GoOnLine
  <2> QED BY <2>1, LineEndLeaves
<1> QED BY <1>1, <1>2

LEMMA GoOnLeaves ==
  ASSUME NEW o, NEW buf, NEW pos, NEW len, Given(o, buf, pos, len),
         NEW more \in BOOLEAN, ~more => closed', GoOn(o, buf, pos, len, more)
  PROVE  Left(o)
BY EndLeaves, GoOnLineLeaves, GoOnCopyLeaves DEF GoOn

\* An operation that begins, with a window as it is.
LEMMA GivenNow ==
  ASSUME IInv, taken' = taken, lost' = lost, NEW o, o.n \in Nat, LineGoesOn(o, used),
         o.name = "line" => \A i \in lost : i <= o.n
  PROVE  Given(o, streamBuffer, bufferPos, bufferLength)
<1>1. taken <= Total /\ Len(used) + bufferLength = taken
  BY BufferedStreamAssumption DEF IInv, BufferTypeOK, Buffered, Total
<1> QED BY <1>1 DEF IInv, Buffered, Given

\* What is left of the stream is what the invariant asks.
LEMMA LeftKeeps ==
  ASSUME IInv, NEW o, o.n \in Nat, Left(o),
         sent' \in 0..Total, taken' \in 0..sent', closed' \in BOOLEAN
  PROVE  IInv' /\ Len(used) <= Len(used')
<1>1. op'.n \in Nat
  BY OpTypes DEF Left
<1>2. (op # Idle => bufferPos = 0)'
  BY DEF Left, Idle, Op
<1> QED BY <1>1, <1>2 DEF Left, IInv, BufferTypeOK

LEMMA FillBufferKeeps ==
  ASSUME IInv, NEW o, o.n \in Nat, o.name # "line", FillBuffer(o),
         UNCHANGED <<base, taken, closed, lost>>
  PROVE  IInv' /\ Len(used) <= Len(used')
<1>1. /\ bufferPos' = 0 /\ bufferLength' = bufferLength /\ used' = used
      /\ streamBuffer' = [i \in 0..Size - 1 |-> IF i < bufferLength
                            THEN streamBuffer[bufferPos + i] ELSE streamBuffer[i]]
  BY DEF FillBuffer
<1>2. /\ Len(used) \in Nat /\ bufferLength \in Nat /\ bufferPos \in Nat
      /\ bufferPos + bufferLength <= Size /\ Size \in Nat
  BY BufferedStreamAssumption DEF IInv, Buffered, Holds, Run
<1>3. \A i \in 0..Size - 1 : i < bufferLength => bufferPos + i \in 0..Size - 1
  BY <1>2
<1>4. streamBuffer' \in [0..Size - 1 -> Nat]
  BY <1>1, <1>3 DEF IInv, Buffered, Holds
<1>5. ASSUME NEW i \in 1..bufferLength
      PROVE  streamBuffer'[0 + i - 1] = Len(used) + i
  <2>1. 0 + i - 1 \in 0..Size - 1 /\ 0 + i - 1 < bufferLength
        /\ bufferPos + (0 + i - 1) = bufferPos + i - 1
    BY <1>2
  <2>2. streamBuffer'[0 + i - 1] = streamBuffer[bufferPos + (0 + i - 1)]
    BY <1>1, <2>1
  <2> QED BY <2>1, <2>2 DEF IInv, Buffered, Holds
<1>6. Holds(streamBuffer', 0, bufferLength, Len(used))
  BY <1>2, <1>4, <1>5 DEF Holds
<1>7. Buffered'
  BY <1>1, <1>6 DEF IInv, Buffered
<1>8. op' = o /\ answer'.op = Idle /\ AnswersRight'
  BY AwaitRight DEF FillBuffer
<1>10. LostRight'
  BY <1>1, <1>8, OpTypes DEF LostRight, IInv
<1>9. Left(o)
  BY <1>1, <1>2, <1>7, <1>8, <1>10 DEF Left, LineGoesOn
<1> QED BY <1>9, LeftKeeps DEF IInv, BufferTypeOK, base

LEMMA BeginKeeps ==
  ASSUME IInv, NEW o, o.n \in Nat, o.name # "line", NEW needs \in BOOLEAN, Begin(o, needs)
  PROVE  IInv' /\ Len(used) <= Len(used')
<1>1. UNCHANGED <<base, taken, closed, disposed, lost>>
  BY DEF Begin
<1>2. CASE FillBuffer(o)
  BY <1>1, <1>2, FillBufferKeeps
<1>3. CASE End(o, streamBuffer, bufferPos, bufferLength)
  <2>1. Left(o)
    BY <1>1, <1>3, GivenNow, EndLeaves DEF LineGoesOn
  <2> QED BY <1>1, <2>1, LeftKeeps DEF IInv, BufferTypeOK, base
<1> QED BY <1>2, <1>3 DEF Begin

\* The window with k bytes more.
LEMMA ResumeKeeps ==
  ASSUME IInv, NEW k \in 1..Size, Resume(k)
  PROVE  IInv' /\ Len(used) <= Len(used')
<1> DEFINE buf == [i \in 0..Size - 1 |->
                     IF i \in bufferLength..bufferLength + k - 1
                       THEN taken + 1 + i - bufferLength ELSE streamBuffer[i]]
<1>1. /\ op # Idle /\ k <= sent - taken /\ k <= Size - bufferLength
      /\ taken' = taken + k
      /\ GoOn(op, buf, bufferPos, bufferLength + k, TRUE)
      /\ UNCHANGED <<base, closed, lost>>
  BY DEF Resume
<1>2. /\ bufferPos = 0 /\ Len(used) + bufferLength = taken
      /\ Len(used) \in Nat /\ bufferLength \in Nat /\ Size \in Nat /\ taken \in Nat
      /\ sent \in Nat /\ Total \in Nat /\ sent <= Total
  BY <1>1, BufferedStreamAssumption DEF IInv, BufferTypeOK, Buffered, Holds, Run, Total
<1>3. buf \in [0..Size - 1 -> Nat]
  <2>1. \A i \in 0..Size - 1 : i \in bufferLength..bufferLength + k - 1 =>
          taken + 1 + i - bufferLength \in Nat
    BY <1>2
  <2> QED BY <2>1 DEF IInv, Buffered, Holds
<1>4. ASSUME NEW i \in 1..bufferLength + k
      PROVE  buf[0 + i - 1] = Len(used) + i
  <2>1. 0 + i - 1 \in 0..Size - 1
    BY <1>1, <1>2
  <2>2. CASE i <= bufferLength
    <3>1. i \in 1..bufferLength /\ 0 + i - 1 \notin bufferLength..bufferLength + k - 1
      BY <1>2, <2>2
    <3>2. buf[0 + i - 1] = streamBuffer[0 + i - 1]
      BY <2>1, <3>1
    <3> QED BY <1>2, <3>1, <3>2 DEF IInv, Buffered, Holds
  <2>3. CASE ~(i <= bufferLength)
    <3>1. 0 + i - 1 \in bufferLength..bufferLength + k - 1
      BY <1>2, <2>3
    <3>2. buf[0 + i - 1] = taken + 1 + (0 + i - 1) - bufferLength
      BY <2>1, <3>1
    <3> QED BY <1>2, <3>2
  <2> QED BY <2>2, <2>3
<1> HIDE DEF buf
<1>5. Holds(buf, bufferPos, bufferLength + k, Len(used))
  BY <1>1, <1>2, <1>3, <1>4 DEF Holds
<1>6. taken' = Len(used) + (bufferLength + k) /\ taken' <= Total
  BY <1>1, <1>2
<1>7. Given(op, buf, bufferPos, bufferLength + k)
  <2>1. op.name = "line" => \A i \in lost : i <= op.n
    BY DEF IInv, LostRight
  <2> QED BY <1>1, <1>5, <1>6, <2>1 DEF Given, IInv, BufferTypeOK, Buffered
<1>8. Left(op)
  BY <1>1, <1>7, GoOnLeaves
<1>9. sent' \in 0..Total /\ taken' \in 0..sent' /\ closed' \in BOOLEAN
  BY <1>1, <1>2 DEF IInv, BufferTypeOK, base
<1> QED BY <1>8, <1>9, LeftKeeps DEF IInv, BufferTypeOK

\* A step that leaves the bytes and the window alone.
LEMMA WindowStays ==
  ASSUME IInv, UNCHANGED <<taken, window, used>>, sent' \in 0..Total, sent <= sent',
         closed' \in BOOLEAN, op' \in {op, Idle}, LostRight', AnswersRight'
  PROVE  IInv' /\ Len(used) <= Len(used')
<1>1. Buffered'
  BY DEF IInv, Buffered, window
<1>2. LineGoesOn(op', used')
  BY OpTypes DEF LineGoesOn, IInv
<1>3. BufferTypeOK'
  BY OpTypes DEF IInv, BufferTypeOK, window, Idle, Op
<1>4. Len(used) \in Nat
  BY DEF IInv, Buffered, Run
<1> QED BY <1>1, <1>2, <1>3, <1>4 DEF IInv

LEMMA OperationKeeps ==
  ASSUME IInv, Operation
  PROVE  IInv' /\ Len(used) <= Len(used')
<1>0. /\ \A name, n, m : Op(name, n, m).name = name /\ Op(name, n, m).n = n
      /\ Len(used) \in Nat /\ sent \in 0..Total /\ taken \in 0..sent /\ closed \in BOOLEAN
  BY DEF Op, IInv, BufferTypeOK, Buffered, Run
<1>1. ASSUME NEW n \in Counts, Read(n)
      PROVE  IInv' /\ Len(used) <= Len(used')
  <2> DEFINE o == Op("read", n, 0)
             needs == (bufferLength = 0)
  <2>1. o.n = n /\ o.n \in Nat /\ o.name = "read"
    BY <1>0, BufferedStreamAssumption
  <2>2. needs \in BOOLEAN /\ Begin(o, needs)
    BY <1>1 DEF Read
  <2> HIDE DEF o, needs
  <2> QED BY <2>1, <2>2, BeginKeeps
<1>2. ASSUME NEW i \in 0..Size, PeekByteAsync(i)
      PROVE  IInv' /\ Len(used) <= Len(used')
  <2> DEFINE o == Op("peek", i, 0)
             needs == (bufferLength <= i)
  <2>1. o.n = i /\ o.n \in Nat /\ o.name = "peek"
    BY <1>0
  <2>2. needs \in BOOLEAN /\ Begin(o, needs)
    BY <1>2 DEF PeekByteAsync
  <2> HIDE DEF o, needs
  <2> QED BY <2>1, <2>2, BeginKeeps
<1>3. ASSUME NEW i \in 0..1, NEW m \in 1..Size, PeekBytesAsync(i, m)
      PROVE  IInv' /\ Len(used) <= Len(used')
  <2> DEFINE o == Op("peekbytes", i, m)
             needs == (bufferLength <= i)
  <2>1. o.n = i /\ o.n \in Nat /\ o.name = "peekbytes"
    BY <1>0
  <2>2. needs \in BOOLEAN /\ Begin(o, needs)
    BY <1>3 DEF PeekBytesAsync
  <2> HIDE DEF o, needs
  <2> QED BY <2>1, <2>2, BeginKeeps
<1>4. CASE FillBufferAsync
  <2> DEFINE o == Op("fill", 0, 0)
             needs == TRUE
  <2>1. o.n = 0 /\ o.n \in Nat /\ o.name = "fill"
    BY <1>0
  <2>2. needs \in BOOLEAN /\ Begin(o, needs)
    BY <1>4 DEF FillBufferAsync
  <2> HIDE DEF o, needs
  <2> QED BY <2>1, <2>2, BeginKeeps
<1>5. CASE ReadLineAsync
  <2> DEFINE o == Op("line", Len(used), 0)
             more == ~closed
  <2>1. o.n = Len(used) /\ o.name = "line"
    BY <1>0
  <2>2. LineGoesOn(o, used) /\ \A i \in lost : i <= o.n
    BY <1>0, <2>1 DEF LineGoesOn, IInv, LostRight
  <2>3. /\ GoOnLine(o, streamBuffer, bufferPos, bufferLength, more)
        /\ more \in BOOLEAN /\ (~more => closed')
        /\ UNCHANGED <<base, taken, closed, lost>>
    BY <1>5 DEF ReadLineAsync
  <2> HIDE DEF o, more
  <2>4. Left(o)
    BY <1>0, <2>1, <2>2, <2>3, GivenNow, GoOnLineLeaves
  <2> QED BY <1>0, <2>1, <2>3, <2>4, LeftKeeps DEF base
<1>6. CASE CopyToAsync
  <2> DEFINE o == Op("copyto", 0, 0)
             more == ~closed
  <2>1. o.n = 0 /\ o.name = "copyto"
    BY <1>0
  <2>2. LineGoesOn(o, used)
    BY <2>1 DEF LineGoesOn
  <2>3. /\ GoOnCopy(o, streamBuffer, bufferPos, bufferLength, more)
        /\ more \in BOOLEAN
        /\ UNCHANGED <<base, taken, closed, lost>>
    BY <1>6 DEF CopyToAsync
  <2> HIDE DEF o, more
  <2>4. Left(o)
    BY <1>0, <2>1, <2>2, <2>3, GivenNow, GoOnCopyLeaves
  <2> QED BY <1>0, <2>1, <2>3, <2>4, LeftKeeps DEF base
<1>7. CASE ReadByteFromBuffer
  <2> DEFINE o == Op("read", 1, 0)
  <2>1. o.n = 1 /\ o.name = "read"
    BY <1>0
  <2>2. LineGoesOn(o, used)
    BY <2>1 DEF LineGoesOn
  <2>3. /\ EndRead(o, streamBuffer, bufferPos, bufferLength)
        /\ UNCHANGED <<base, taken, closed, lost>>
    BY <1>7 DEF ReadByteFromBuffer
  <2> HIDE DEF o
  <2>4. Left(o)
    BY <1>0, <2>1, <2>2, <2>3, GivenNow, EndReadLeaves
  <2> QED BY <1>0, <2>1, <2>3, <2>4, LeftKeeps DEF base
<1>8. CASE FillBufferFull
  <2> DEFINE o == Op("fill", 0, 0)
  <2>1. o.n = 0 /\ o.name = "fill"
    BY <1>0
  <2>2. LineGoesOn(o, used)
    BY <2>1 DEF LineGoesOn
  <2>3. EndFill(o, streamBuffer, bufferPos, bufferLength) /\ UNCHANGED <<base, taken, lost>>
        /\ closed' = TRUE
    BY <1>8 DEF FillBufferFull
  <2> HIDE DEF o
  <2>4. End(o, streamBuffer, bufferPos, bufferLength)
    BY <2>1, <2>3 DEF End
  <2>5. Left(o)
    BY <1>0, <2>1, <2>2, <2>3, <2>4, GivenNow, EndLeaves
  <2> QED BY <1>0, <2>1, <2>3, <2>5, LeftKeeps DEF base
<1>9. CASE Dispose
  <2>1. AnswersRight'
    BY <1>9, OpTypes, OthersRight DEF Dispose
  <2>2. LostRight'
    BY <1>9, OpTypes DEF Dispose, IInv, LostRight
  <2> QED BY <1>0, <1>9, <2>1, <2>2, WindowStays DEF Dispose, base
<1>10. CASE ReadDisposed
  <2>1. answer'.op.name = "read"
    BY <1>10 DEF ReadDisposed, Answer, Op
  <2>2. AnswersRight'
    BY <2>1, OthersRight
  <2>3. LostRight'
    BY <1>10, <2>1 DEF ReadDisposed, IInv, LostRight
  <2> QED BY <1>0, <1>10, <2>2, <2>3, WindowStays DEF ReadDisposed, base
<1> QED
  BY <1>1, <1>2, <1>3, <1>4, <1>5, <1>6, <1>7, <1>8, <1>9, <1>10 DEF Operation

LEMMA CompletionKeeps ==
  ASSUME IInv, Completion
  PROVE  IInv' /\ Len(used) <= Len(used')
<1>0. sent \in 0..Total /\ taken \in 0..sent /\ closed \in BOOLEAN /\ op.n \in Nat
  BY DEF IInv, BufferTypeOK
<1>1. ASSUME NEW k \in 1..Size, Resume(k)
      PROVE  IInv' /\ Len(used) <= Len(used')
  BY <1>1, ResumeKeeps
<1>2. CASE ResumeEnd
  <2>1. GoOn(op, streamBuffer, bufferPos, bufferLength, FALSE)
        /\ UNCHANGED <<base, taken, lost>> /\ closed' = TRUE
    BY <1>2 DEF ResumeEnd
  <2>2. Given(op, streamBuffer, bufferPos, bufferLength)
    BY <1>0, <2>1, GivenNow DEF IInv, LostRight
  <2>3. Left(op)
    BY <2>1, <2>2, GoOnLeaves
  <2> QED BY <1>0, <2>1, <2>3, LeftKeeps DEF base
<1>3. CASE ResumeFail
  <2>1. answer'.kind = "throws" /\ op' = Idle
    BY <1>3 DEF ResumeFail, Settle, Answer
  <2>2. AnswersRight'
    BY <2>1 DEF AnswersRight, PeekRight, LineRight
  <2>3. LostRight'
    <3>1. op'.name # "line" /\ used' = used /\ lost' = lost \cup InArray
      BY <1>3, <2>1, OpTypes DEF ResumeFail
    <3>2. ASSUME NEW i \in InArray
          PROVE  i \in 1..Len(used) /\ Text[i] # "LF"
      <4>1. op.name = "line" /\ i \in op.n + 1..Len(used)
        BY <3>2 DEF InArray
      <4>2. op.n \in Nat /\ Len(used) \in Nat
        BY <1>0 DEF IInv, Buffered, Run
      <4> QED BY <4>1, <4>2 DEF IInv, LineGoesOn
    <3> QED BY <2>1, <3>1, <3>2 DEF IInv, LostRight
  <2> QED BY <1>0, <1>3, <2>1, <2>2, <2>3, WindowStays DEF ResumeFail, base
<1> QED BY <1>1, <1>2, <1>3 DEF Completion

LEMMA ArriveKeeps ==
  ASSUME IInv, Arrive
  PROVE  IInv' /\ Len(used) <= Len(used')
<1>1. AnswersRight'
  BY DEF IInv, AnswersRight, PeekRight, LineRight, Arrive
<1>2. sent' \in 0..Total /\ sent <= sent' /\ closed' \in BOOLEAN /\ op' = op
  BY BufferedStreamAssumption DEF IInv, BufferTypeOK, Arrive, Total
<1>3. LostRight'
  BY DEF IInv, LostRight, Arrive
<1> QED BY <1>1, <1>2, <1>3, WindowStays DEF Arrive

LEMMA BufferInitially ==
  Init => IInv
<1> SUFFICES ASSUME Init PROVE IInv
  OBVIOUS
<1>1. BufferTypeOK
  <2>1. sent = 0 /\ taken = 0 /\ closed = FALSE /\ op = Idle /\ bufferPos = 0
    BY DEF Init
  <2>2. 0 \in 0..Total /\ 0 \in 0..0
    BY BufferedStreamAssumption DEF Total
  <2> QED BY <2>1, <2>2, OpTypes DEF BufferTypeOK
<1>2. Holds(streamBuffer, 0, 0, 0)
  BY BufferedStreamAssumption DEF Init, Holds, Junk
<1>3. Buffered
  BY <1>2, RunEmpty DEF Init, Buffered
<1>4. LineGoesOn(op, used)
  BY OpTypes DEF Init, LineGoesOn
<1>5. AnswersRight
  BY OpTypes DEF Init, AnswersRight, PeekRight, LineRight
<1>6. LostRight
  BY DEF Init, LostRight
<1> QED BY <1>1, <1>3, <1>4, <1>5, <1>6 DEF IInv

LEMMA BufferStep ==
  IInv /\ [Next]_bvars => IInv' /\ Len(used) <= Len(used')
<1> SUFFICES ASSUME IInv, [Next]_bvars PROVE IInv' /\ Len(used) <= Len(used')
  OBVIOUS
<1>1. CASE UNCHANGED bvars
  <2>1. AnswersRight' /\ UNCHANGED <<base, taken, window, used, closed, op>>
    BY <1>1 DEF IInv, AnswersRight, PeekRight, LineRight, bvars
  <2>2. sent' \in 0..Total /\ sent <= sent' /\ closed' \in BOOLEAN
    BY <2>1 DEF IInv, BufferTypeOK, base
  <2>3. LostRight'
    BY <1>1 DEF IInv, LostRight, bvars
  <2> QED BY <2>1, <2>2, <2>3, WindowStays
<1> QED BY <1>1, ArriveKeeps, OperationKeeps, CompletionKeeps DEF Next

\* A CustomBufferedStream of any size, under any operations in any order, with any
\* cut of the peer's bytes into reads and with reads failing on the way: what operations
\* took and then the window is what was read, in order and once, and what a failed
\* read loses of it is the unfinished line that waited for it.
THEOREM AlwaysInOrder == Spec => []InOrder
<1>1. IInv => InOrder
  BY BufferedInOrder DEF IInv
<1>2. IInv /\ [Next]_bvars => IInv'
  BY BufferStep
<1> QED BY BufferInitially, <1>1, <1>2, PTL DEF Spec

\* Whatever is buffered, PeekByteAsync answers with the byte a read would give at that
\* distance, and ReadLineAsync with the next line, however they were cut.
THEOREM AnswersAlwaysRight == Spec => []AnswersRight
<1>1. IInv => AnswersRight
  BY DEF IInv
<1>2. IInv /\ [Next]_bvars => IInv'
  BY BufferStep
<1> QED BY BufferInitially, <1>1, <1>2, PTL DEF Spec

-----------------------------------------------------------------------------
(* The copy stream.                                                        *)

\* What the writer has is a part of what was read from its start on, and, as long as
\* the copy goes on, what is buffered is the rest of it.
CopyInv ==
  /\ Run(dest, 0)
  /\ Len(dest) <= Len(used)
  /\ through /\ fault = "none" =>
       /\ Run(copyBuffer, Len(dest))
       /\ Len(dest) + Len(copyBuffer) = Len(used)
       /\ ReadBytes = Len(used)

LEMMA CopyInvFaithful ==
  ASSUME IInv, CopyInv
  PROVE  CopyFaithful
<1>1. Run(used, 0) /\ Run(dest, 0) /\ Len(dest) \in Nat /\ 0 \in Nat
  BY DEF IInv, Buffered, CopyInv, Run
<1>2. dest = SubSeq(used, 1, Len(dest))
  <2>1. Run(SubSeq(used, 1, Len(dest)), 0) /\ Len(SubSeq(used, 1, Len(dest))) = Len(dest)
    BY <1>1, RunFront DEF CopyInv
  <2> QED BY <1>1, <2>1, RunEqual
<1>3. ASSUME through, fault = "none"
      PROVE  dest \o copyBuffer = used /\ ReadBytes = Len(used)
  <2>1. Run(copyBuffer, 0 + Len(dest)) /\ Len(dest) + Len(copyBuffer) = Len(used)
    <3>1. 0 + Len(dest) = Len(dest)
      BY <1>1
    <3> QED BY <1>3, <3>1 DEF CopyInv
  <2>2. Run(dest \o copyBuffer, 0) /\ Len(dest \o copyBuffer) = Len(used)
    BY <1>1, <2>1, RunConcat
  <2> QED BY <1>1, <1>3, <2>2, RunEqual DEF CopyInv
<1> QED BY <1>2, <1>3 DEF CopyFaithful

\* Writing to the end of what was read.
LEMMA WriteKeeps ==
  ASSUME CopyInv, fault = "none", NEW bytes, Run(bytes, Len(dest)),
         Len(dest) + Len(bytes) = Len(used'), Write(bytes), ReadBytes' = Len(used')
  PROVE  CopyInv'
<1>1. Len(dest) \in Nat /\ Len(bytes) \in Nat /\ Run(dest, 0) /\ 0 \in Nat
  BY DEF CopyInv, Run
<1>2. CASE dest' = dest \o bytes /\ copyBuffer' = <<>> /\ fault' = fault
  <2>1. Run(bytes, 0 + Len(dest))
    <3>1. 0 + Len(dest) = Len(dest)
      BY <1>1
    <3> QED BY <3>1
  <2>2. Run(dest \o bytes, 0) /\ Len(dest \o bytes) = Len(dest) + Len(bytes)
    BY <1>1, <2>1, RunConcat
  <2>3. Run(dest', 0) /\ Len(dest') = Len(used') /\ Len(used') \in Nat
    BY <1>1, <1>2, <2>2
  <2>4. Run(copyBuffer', Len(dest')) /\ Len(copyBuffer') = 0
    BY <1>2, RunEmpty
  <2> QED BY <2>3, <2>4 DEF CopyInv
<1>3. CASE dest' = dest /\ fault' = "writer"
  BY <1>1, <1>3 DEF CopyInv
<1> QED BY <1>2, <1>3 DEF Write

\* The bytes of a step follow those before it.
LEMMA NewBytes ==
  ASSUME IInv, IInv', Len(used) <= Len(used')
  PROVE  LET new == SubSeq(used', Len(used) + 1, Len(used')) IN
           Run(new, Len(used)) /\ Len(new) = Len(used') - Len(used)
<1>1. Len(used) \in Nat /\ Len(used') \in Nat /\ Run(used', 0) /\ 0 \in Nat
  BY DEF IInv, Buffered, Run
<1>2. 0 + Len(used) = Len(used)
  BY <1>1
<1>3. /\ Run(SubSeq(used', Len(used) + 1, Len(used')), 0 + Len(used))
      /\ Len(SubSeq(used', Len(used) + 1, Len(used'))) = Len(used') - Len(used)
  BY <1>1, RunSub
<1> QED BY <1>2, <1>3

LEMMA CopyReadKeeps ==
  ASSUME IInv, IInv', CopyInv, Len(used) <= Len(used'), through, fault = "none",
         through' = through, CopyRead
  PROVE  CopyInv'
<1> DEFINE new == SubSeq(used', Len(used) + 1, Len(used'))
<1>1. Run(new, Len(used)) /\ Len(new) = Len(used') - Len(used)
  BY NewBytes
<1>2. /\ Len(used) \in Nat /\ Len(used') \in Nat /\ Len(dest) \in Nat /\ Len(copyBuffer) \in Nat
      /\ Len(new) \in Nat
      /\ Run(dest, 0) /\ Run(copyBuffer, Len(dest))
      /\ Len(dest) + Len(copyBuffer) = Len(used) /\ ReadBytes = Len(used)
  BY <1>1 DEF IInv, Buffered, CopyInv, Run
<1>3. Run(copyBuffer \o new, Len(dest))
      /\ Len(copyBuffer \o new) = Len(copyBuffer) + Len(new)
  <2>1. Run(new, Len(dest) + Len(copyBuffer))
    BY <1>1, <1>2
  <2> HIDE DEF new
  <2> QED BY <1>2, <2>1, RunConcat
<1>4. Run(dest \o copyBuffer, 0) /\ Len(dest \o copyBuffer) = Len(used)
  <2>1. Run(copyBuffer, 0 + Len(dest)) /\ 0 \in Nat
    <3>1. 0 + Len(dest) = Len(dest)
      BY <1>2
    <3> QED BY <1>2, <3>1
  <2> QED BY <1>2, <2>1, RunConcat
<1>5. CASE new = <<>> /\ UNCHANGED copy
  <2>1. Len(new) = 0
    BY <1>5, RunEmpty
  <2>2. Len(used') = Len(used)
    <3> HIDE DEF new
    <3> QED BY <1>1, <1>2, <2>1
  <2> QED BY <1>5, <2>2 DEF CopyInv, copy
<1>6. CASE ReadBytes' = ReadBytes + Len(new) /\ Write(copyBuffer \o new)
  <2>1. Len(dest) + Len(copyBuffer \o new) = Len(used') /\ ReadBytes' = Len(used')
    BY <1>1, <1>2, <1>3, <1>6
  <2> HIDE DEF new
  <2> QED BY <1>3, <1>6, <2>1, WriteKeeps
<1>7. CASE /\ ReadBytes' = ReadBytes + Len(new)
           /\ dest' = dest \o copyBuffer \o new /\ copyBuffer' = <<>> /\ fault' = fault
  <2>1. Run(new, 0 + Len(dest \o copyBuffer)) /\ 0 \in Nat
    <3>1. 0 + Len(dest \o copyBuffer) = Len(used)
      BY <1>2, <1>4
    <3> QED BY <1>1, <3>1
  <2> HIDE DEF new
  <2>2. Run(dest', 0) /\ Len(dest') = Len(used')
    <3>1. Run((dest \o copyBuffer) \o new, 0)
          /\ Len((dest \o copyBuffer) \o new) = Len(dest \o copyBuffer) + Len(new)
      BY <1>4, <2>1, RunConcat
    <3> QED BY <1>1, <1>2, <1>4, <1>7, <3>1
  <2>3. Run(copyBuffer', Len(dest')) /\ Len(copyBuffer') = 0 /\ ReadBytes' = Len(used')
    BY <1>1, <1>2, <1>7, RunEmpty
  <2> QED BY <1>2, <2>2, <2>3 DEF CopyInv
<1>8. CASE dest' = dest \o copyBuffer /\ fault' # "none"
  <2>1. Run(dest', 0) /\ Len(dest') <= Len(used')
    BY <1>2, <1>4, <1>8
  <2> QED BY <1>8, <2>1 DEF CopyInv
<1>9. CASE dest' = dest /\ fault' = "writer"
  <2>1. Len(dest) <= Len(used')
    BY <1>2
  <2> QED BY <1>2, <1>9, <2>1 DEF CopyInv
<1> QED BY <1>5, <1>6, <1>7, <1>8, <1>9 DEF CopyRead, copy

\* A byte taken from the buffer is one more.
LEMMA ByteTaken ==
  ASSUME IInv, ReadByteFromBuffer
  PROVE  Len(used') = Len(used) + 1
<1> DEFINE o == Op("read", 1, 0)
<1>1. o.n = 1 /\ o.n \in Nat /\ o.name = "read"
  BY DEF Op
<1>2. EndRead(o, streamBuffer, bufferPos, bufferLength) /\ taken' = taken
      /\ lost' = lost /\ bufferLength > 0
  BY DEF ReadByteFromBuffer
<1> HIDE DEF o
<1>3. Given(o, streamBuffer, bufferPos, bufferLength)
  BY <1>1, <1>2, GivenNow DEF LineGoesOn
<1>4. bufferLength \in Nat /\ 1 \in 0..bufferLength
  BY <1>2 DEF IInv, Buffered, Holds
<1>5. (IF bufferLength < o.n THEN bufferLength ELSE o.n) = 1
  BY <1>1, <1>2, <1>4
<1>6. used' = used \o Slice(streamBuffer, bufferPos, 1)
  BY <1>2, <1>5 DEF EndRead, Deliver
<1> QED BY <1>3, <1>4, <1>6, TakeBytes

LEMMA CopyOperationKeeps ==
  ASSUME IInv, IInv', CopyInv, Len(used) <= Len(used'), through, fault = "none",
         through' = through, CopyOperation
  PROVE  CopyInv'
<1>1. /\ Len(used) \in Nat /\ Len(dest) \in Nat /\ Len(copyBuffer) \in Nat
      /\ Run(copyBuffer, Len(dest))
      /\ Len(dest) + Len(copyBuffer) = Len(used) /\ ReadBytes = Len(used)
  BY DEF IInv, Buffered, CopyInv, Run
<1>2. ASSUME NEW n \in Counts, CopyReadAsync(n)
      PROVE  CopyInv'
  BY <1>2, CopyReadKeeps DEF CopyReadAsync
<1>3. ASSUME NEW i \in 0..Size, CopyPeekByteAsync(i)
      PROVE  CopyInv'
  <2>1. used' = used /\ UNCHANGED copy
    BY <1>3 DEF CopyPeekByteAsync, PeekByteAsync, Begin, FillBuffer, End, EndPeekByte, Keep, Op
  <2> QED BY <2>1 DEF CopyInv, copy
<1>4. CASE CopyReadByteFromBuffer
  <2> DEFINE new == SubSeq(used', Len(used) + 1, Len(used'))
  <2>1. Len(used') = Len(used) + 1
    BY <1>4, ByteTaken DEF CopyReadByteFromBuffer
  <2>2. Run(new, Len(used)) /\ Len(new) = 1
    BY <1>1, <2>1, NewBytes
  <2>3. Run(copyBuffer \o new, Len(dest)) /\ Len(copyBuffer \o new) = Len(copyBuffer) + 1
    <3> HIDE DEF new
    <3>1. Run(new, Len(dest) + Len(copyBuffer))
      BY <1>1, <2>2
    <3>2. Run(copyBuffer \o new, Len(dest))
          /\ Len(copyBuffer \o new) = Len(copyBuffer) + Len(new)
      BY <1>1, <3>1, RunConcat
    <3> QED BY <2>2, <3>2
  <2>4. CASE copyBuffer' = copyBuffer \o new /\ ReadBytes' = ReadBytes + 1 /\ dest' = dest
    BY <1>1, <2>1, <2>3, <2>4 DEF CopyInv
  <2>5. CASE fault' = "overflow" /\ dest' = dest
    BY <1>1, <2>1, <2>5 DEF CopyInv
  <2> QED BY <1>4, <2>4, <2>5 DEF CopyReadByteFromBuffer
<1>5. CASE CopyFillBufferAsync
  <2>1. Write(copyBuffer) /\ ReadBytes' = ReadBytes
    BY <1>5 DEF CopyFillBufferAsync
  <2>2. used' = used
    BY <1>5 DEF CopyFillBufferAsync, FillBufferAsync, Begin, FillBuffer, End, EndFill, Keep, Op,
                bvars
  <2> QED BY <1>1, <2>1, <2>2, WriteKeeps
<1>6. CASE CopyReadLineAsync
  BY <1>6 DEF CopyReadLineAsync, CopyInv, copy
<1>7. CASE Flush
  <2>1. Write(copyBuffer) /\ ReadBytes' = ReadBytes /\ used' = used
    BY <1>7 DEF Flush, bvars
  <2> QED BY <1>1, <2>1, WriteKeeps
<1> QED BY <1>2, <1>3, <1>4, <1>5, <1>6, <1>7 DEF CopyOperation

\* A line of the copy stream throws, and takes nothing.
LEMMA CopyReadLineKeeps ==
  ASSUME IInv, CopyReadLineAsync
  PROVE  IInv' /\ Len(used) <= Len(used')
<1>1. answer'.kind = "throws" /\ answer'.op.name = "line" /\ op' = Idle
  BY DEF CopyReadLineAsync, Settle, Answer, Op
<1>2. AnswersRight'
  BY <1>1 DEF AnswersRight, PeekRight, LineRight
<1>5. LostRight'
  BY <1>1, OpTypes DEF CopyReadLineAsync, IInv, LostRight
<1>3. UNCHANGED <<base, taken, window, closed, used>>
  BY DEF CopyReadLineAsync
<1>4. sent' \in 0..Total /\ sent <= sent' /\ closed' \in BOOLEAN
  BY <1>3 DEF IInv, BufferTypeOK, base
<1> QED BY <1>1, <1>2, <1>3, <1>4, <1>5, WindowStays

\* To the reader, each step of the copy is one of its own, or such a line.
LEMMA CopyIsStep ==
  [CopyNext]_vars => [Next]_bvars \/ (CopyReadLineAsync /\ UNCHANGED closed)
BY DEF CopyNext, vars, Next, Operation, CopyOperation, CopyCompletion, CopyReadAsync,
       CopyPeekByteAsync, CopyReadByteFromBuffer, CopyFillBufferAsync, CopyReadLineAsync, Flush

LEMMA CopyStep ==
  IInv /\ CopyInv /\ [CopyNext]_vars => IInv' /\ CopyInv'
<1> SUFFICES ASSUME IInv, CopyInv, [CopyNext]_vars PROVE IInv' /\ CopyInv'
  OBVIOUS
<1>1. IInv' /\ Len(used) <= Len(used')
  BY CopyIsStep, BufferStep, CopyReadLineKeeps
<1>2. CASE ~through /\ UNCHANGED copy
  <2>1. Len(used) \in Nat /\ Len(used') \in Nat /\ Len(dest) \in Nat
    BY <1>1 DEF IInv, Buffered, CopyInv, Run
  <2> QED BY <1>1, <1>2, <2>1 DEF CopyInv, copy
<1>3. CASE UNCHANGED vars
  BY <1>1, <1>3 DEF CopyInv, vars, bvars, copy
<1>4. CASE Arrive /\ UNCHANGED copy
  BY <1>1, <1>4 DEF CopyInv, Arrive, copy
<1>5. CASE through /\ through' = through /\ fault = "none" /\ CopyOperation
  <2>1. CopyInv'
    BY <1>1, <1>5, CopyOperationKeeps
  <2> QED BY <1>1, <2>1
<1>6. CASE through /\ through' = through /\ fault = "none" /\ CopyCompletion
  <2>1. CopyInv'
    BY <1>1, <1>6, CopyReadKeeps DEF CopyCompletion
  <2> QED BY <1>1, <2>1
<1> QED BY <1>2, <1>3, <1>4, <1>5, <1>6 DEF CopyNext

LEMMA CopyInitially ==
  CopyInit => IInv /\ CopyInv
<1> SUFFICES ASSUME CopyInit PROVE IInv /\ CopyInv
  OBVIOUS
<1>1. IInv /\ used = <<>>
  BY BufferInitially DEF CopyInit, Init
<1>2. CopyInv
  BY <1>1, RunEmpty DEF CopyInit, CopyInv
<1> QED BY <1>1, <1>2

\* For buffers of any size before and behind it, any mix of reads, single bytes, peeks,
\* fills and flushes and a writer that fails at any time: the writer has taken, in
\* order and once, what was read through the CopyStream but for what is buffered.
THEOREM CopyAlwaysFaithful == CopySpec => []CopyFaithful
<1>1. IInv /\ CopyInv => CopyFaithful
  BY CopyInvFaithful
<1> QED BY CopyInitially, CopyStep, <1>1, PTL DEF CopySpec

\* A CopyStream changes nothing for its reader: read through it as well as by itself,
\* the reader gives the bytes in order and once, and peeks and lines are right.
THEOREM CopyKeepsStream == CopySpec => [](InOrder /\ AnswersRight)
<1>1. IInv => InOrder /\ AnswersRight
  BY BufferedInOrder DEF IInv
<1> QED BY CopyInitially, CopyStep, <1>1, PTL DEF CopySpec

\* Nothing but the end of the base stream, Dispose and a FillBuffer of a full buffer
\* closes the stream: no failed, cancelled or refused operation does.
THEOREM ClosesOnlyAtEnd == Spec => ClosesAtEnd
<1>1. [Next]_bvars =>
        [~closed /\ closed' => disposed' \/ (ended /\ taken = sent) \/ FillBufferFull]_bvars
  <2> SUFFICES ASSUME [Next]_bvars, ~closed, closed', ~FillBufferFull
               PROVE  disposed' \/ (ended /\ taken = sent)
    OBVIOUS
  <2>1. closed' # closed
    OBVIOUS
  <2> QED
    BY <2>1 DEF Next, bvars, Arrive, Operation, Completion, Read, PeekByteAsync, PeekBytesAsync,
                FillBufferAsync, Begin, ReadLineAsync, CopyToAsync, ReadByteFromBuffer, Dispose,
                ReadDisposed, Resume, ResumeEnd, ResumeFail
<1> QED BY <1>1, PTL DEF Spec, ClosesAtEnd

-----------------------------------------------------------------------------
(* The buffer pool, for any streams, sizes and arrays.  Its inductive        *)
(* invariant adds to the properties that only arrays that were made are in   *)
(* the pool: a new array is then one that nobody has.                        *)

Made == \A b \in ToSet(buffers) : length[b] # 0

PoolInv == TypeOK /\ NoSharing /\ RightLength /\ Made

-----------------------------------------------------------------------------
(* Sequences without repetition.                                           *)

\* Taking the last element off a sequence without repetition: it is gone.
LEMMA PoolFrontFacts ==
  ASSUME NEW S, NEW q \in Seq(S), q # <<>>, IsInjective(q)
  PROVE  /\ Last(q) \in ToSet(q)
         /\ Last(q) \in S
         /\ Front(q) \in Seq(S)
         /\ IsInjective(Front(q))
         /\ ToSet(Front(q)) \subseteq ToSet(q)
         /\ Last(q) \notin ToSet(Front(q))
<1>1. Len(q) \in Nat \ {0} /\ DOMAIN q = 1..Len(q)
  OBVIOUS
<1>2. Last(q) = q[Len(q)]
  BY DEF Last
<1>3. /\ Front(q) \in Seq(S)
      /\ Len(Front(q)) = Len(q) - 1
      /\ DOMAIN Front(q) = 1..Len(q) - 1
      /\ \A i \in 1..Len(q) - 1 : Front(q)[i] = q[i]
  BY <1>1 DEF Front
<1>4. Last(q) \in ToSet(q) /\ Last(q) \in S
  BY <1>1, <1>2 DEF ToSet
<1>5. IsInjective(Front(q))
  BY <1>1, <1>3 DEF IsInjective
<1>6. ToSet(Front(q)) \subseteq ToSet(q)
  BY <1>1, <1>3 DEF ToSet
<1>7. Last(q) \notin ToSet(Front(q))
  BY <1>1, <1>2, <1>3 DEF ToSet, IsInjective
<1> QED
  BY <1>3, <1>4, <1>5, <1>6, <1>7

\* Putting an element on a sequence that does not have it.
LEMMA PoolAppendFacts ==
  ASSUME NEW S, NEW q \in Seq(S), NEW b \in S, IsInjective(q), b \notin ToSet(q)
  PROVE  /\ Append(q, b) \in Seq(S)
         /\ IsInjective(Append(q, b))
         /\ ToSet(Append(q, b)) = ToSet(q) \cup {b}
<1> DEFINE r == Append(q, b)
<1>1. /\ Len(q) \in Nat /\ DOMAIN q = 1..Len(q)
      /\ r \in Seq(S) /\ Len(r) = Len(q) + 1 /\ DOMAIN r = 1..Len(q) + 1
      /\ \A i \in 1..Len(q) : r[i] = q[i]
      /\ r[Len(q) + 1] = b
  OBVIOUS
<1> HIDE DEF r
<1>2. IsInjective(r)
  BY <1>1 DEF IsInjective, ToSet
<1>3. ToSet(r) = ToSet(q) \cup {b}
  BY <1>1 DEF ToSet
<1> QED
  BY <1>1, <1>2, <1>3 DEF r

-----------------------------------------------------------------------------
(* The pool's two operations.                                              *)

\* The array that GetBuffer returns was in nobody's hands, is not in the pool any
\* more and has the length asked for; the other arrays stay as they were.
LEMMA GetBufferFacts ==
  ASSUME PoolInv, NEW n \in Sizes, NEW b \in Buffers, GetBuffer(n, b)
  PROVE  /\ buffers' \in Seq(Buffers)
         /\ IsInjective(buffers')
         /\ ToSet(buffers') \subseteq ToSet(buffers)
         /\ b \notin ToSet(buffers')
         /\ length' \in [Buffers -> Sizes \cup {0}]
         /\ length'[b] = n
         /\ \A a \in Buffers : length[a] # 0 => length'[a] = length[a]
         /\ \A s \in Streams : held[s] # b /\ borrowed[s] # b
<1> USE BufferPoolAssumption, NoneAssumption DEF None
<1>1. TypeOK /\ IsInjective(buffers) /\ Made
  BY DEF PoolInv, NoSharing
<1>2. b # None /\ n # 0
  OBVIOUS
<1>3. \A s \in Streams : /\ held[s] # None => length[held[s]] # 0
                         /\ borrowed[s] # None => length[borrowed[s]] # 0
  BY DEF PoolInv, TypeOK, RightLength
<1>4. CASE buffers # <<>> /\ length[Last(buffers)] = n
  <2>1. b = Last(buffers) /\ buffers' = Front(buffers) /\ length' = length
    BY <1>4 DEF GetBuffer
  <2>2. \A s \in Streams : held[s] # b /\ borrowed[s] # b
    BY <1>1, <1>2, <1>4, <2>1, PoolFrontFacts DEF PoolInv, TypeOK, NoSharing
  <2> QED
    BY <1>1, <1>4, <2>1, <2>2, PoolFrontFacts DEF TypeOK
<1>5. CASE ~(buffers # <<>> /\ length[Last(buffers)] = n)
  <2>1. /\ length[b] = 0 /\ length' = [length EXCEPT ![b] = n]
        /\ buffers' = IF buffers = <<>> THEN <<>> ELSE Front(buffers)
    BY <1>5 DEF GetBuffer, MakeBuffer
  <2>2. b \notin ToSet(buffers)
    BY <1>1, <2>1 DEF Made
  <2>3. \A s \in Streams : held[s] # b /\ borrowed[s] # b
    BY <1>2, <1>3, <2>1
  <2>4. /\ length' \in [Buffers -> Sizes \cup {0}]
        /\ length'[b] = n
        /\ \A a \in Buffers : length[a] # 0 => length'[a] = length[a]
    BY <1>1, <2>1 DEF TypeOK
  <2>5. CASE buffers = <<>>
    BY <1>1, <2>1, <2>2, <2>3, <2>4, <2>5 DEF TypeOK
  <2>6. CASE buffers # <<>>
    BY <1>1, <2>1, <2>2, <2>3, <2>4, <2>6, PoolFrontFacts DEF TypeOK
  <2> QED
    BY <2>5, <2>6
<1> QED
  BY <1>4, <1>5

-----------------------------------------------------------------------------
(* The inductive invariant.                                                *)

LEMMA PoolInitially == PoolInit => PoolInv
<1> SUFFICES ASSUME PoolInit PROVE PoolInv
  OBVIOUS
<1>1. ToSet(buffers) = {} /\ IsInjective(buffers)
  BY DEF PoolInit, ToSet, IsInjective
<1>2. TypeOK
  BY DEF PoolInit, TypeOK
<1>3. NoSharing /\ RightLength
  BY <1>1 DEF PoolInit, NoSharing, RightLength
<1> QED
  BY <1>1, <1>2, <1>3 DEF PoolInv, Made

LEMMA CreateStep ==
  ASSUME PoolInv, NEW s \in Streams, NEW b \in Buffers, Create(s, b)
  PROVE  PoolInv'
<1> USE BufferPoolAssumption, NoneAssumption DEF None
<1>1. size[s] \in Sizes /\ GetBuffer(size[s], b)
  BY DEF PoolInv, TypeOK, Create
<1>2. /\ state' = [state EXCEPT ![s] = "open"]
      /\ held' = [held EXCEPT ![s] = b]
      /\ size' = size /\ borrowed' = borrowed
  BY DEF Create
<1>g. /\ buffers' \in Seq(Buffers)
      /\ IsInjective(buffers')
      /\ ToSet(buffers') \subseteq ToSet(buffers)
      /\ b \notin ToSet(buffers')
      /\ length' \in [Buffers -> Sizes \cup {0}]
      /\ length'[b] = size[s]
      /\ \A a \in Buffers : length[a] # 0 => length'[a] = length[a]
      /\ \A t \in Streams : held[t] # b /\ borrowed[t] # b
  BY <1>1, GetBufferFacts
<1>h. \A t \in Streams : \A a \in {held[t], borrowed[t]} \ {None} :
        a \in Buffers /\ length[a] = size[t] /\ size[t] # 0
  BY DEF PoolInv, TypeOK, RightLength
<1>i. b \in Buffers /\ b # None /\ ToSet(buffers) \subseteq Buffers
  BY DEF PoolInv, TypeOK, ToSet
<1>3. TypeOK'
  BY <1>2, <1>g DEF PoolInv, TypeOK
<1>4. NoSharing'
  BY <1>2, <1>g, <1>h, <1>i DEF PoolInv, TypeOK, NoSharing
<1>5. RightLength'
  BY <1>2, <1>g, <1>h, <1>i DEF PoolInv, TypeOK, RightLength
<1>6. Made'
  BY <1>g, <1>i DEF PoolInv, Made
<1> QED
  BY <1>3, <1>4, <1>5, <1>6 DEF PoolInv

LEMMA BorrowStep ==
  ASSUME PoolInv, NEW s \in Streams, NEW b \in Buffers, Borrow(s, b)
  PROVE  PoolInv'
<1> USE BufferPoolAssumption, NoneAssumption DEF None
<1>1. size[s] \in Sizes /\ GetBuffer(size[s], b)
  BY DEF PoolInv, TypeOK, Borrow
<1>2. /\ borrowed' = [borrowed EXCEPT ![s] = b]
      /\ size' = size /\ held' = held /\ state' = state
  BY DEF Borrow
<1>g. /\ buffers' \in Seq(Buffers)
      /\ IsInjective(buffers')
      /\ ToSet(buffers') \subseteq ToSet(buffers)
      /\ b \notin ToSet(buffers')
      /\ length' \in [Buffers -> Sizes \cup {0}]
      /\ length'[b] = size[s]
      /\ \A a \in Buffers : length[a] # 0 => length'[a] = length[a]
      /\ \A t \in Streams : held[t] # b /\ borrowed[t] # b
  BY <1>1, GetBufferFacts
<1>h. \A t \in Streams : \A a \in {held[t], borrowed[t]} \ {None} :
        a \in Buffers /\ length[a] = size[t] /\ size[t] # 0
  BY DEF PoolInv, TypeOK, RightLength
<1>i. b \in Buffers /\ b # None /\ ToSet(buffers) \subseteq Buffers
  BY DEF PoolInv, TypeOK, ToSet
<1>3. TypeOK'
  BY <1>2, <1>g DEF PoolInv, TypeOK
<1>4. NoSharing'
  BY <1>2, <1>g, <1>h, <1>i DEF PoolInv, TypeOK, NoSharing
<1>5. RightLength'
  BY <1>2, <1>g, <1>h, <1>i DEF PoolInv, TypeOK, RightLength
<1>6. Made'
  BY <1>g, <1>i DEF PoolInv, Made
<1> QED
  BY <1>3, <1>4, <1>5, <1>6 DEF PoolInv

LEMMA GiveBackStep ==
  ASSUME PoolInv, NEW s \in Streams, GiveBack(s)
  PROVE  PoolInv'
<1> USE BufferPoolAssumption, NoneAssumption DEF None
<1> DEFINE b == borrowed[s]
<1>1. b \in Buffers /\ b \notin ToSet(buffers) /\ length[b] # 0
  BY DEF GiveBack, PoolInv, TypeOK, NoSharing, RightLength
<1>2. /\ buffers' = Append(buffers, b)
      /\ borrowed' = [borrowed EXCEPT ![s] = None]
      /\ length' = length /\ size' = size /\ held' = held /\ state' = state
  BY DEF GiveBack, ReturnBuffer
<1>3. buffers' \in Seq(Buffers) /\ IsInjective(buffers') /\ ToSet(buffers') = ToSet(buffers) \cup {b}
  BY <1>1, <1>2, PoolAppendFacts DEF PoolInv, TypeOK, NoSharing
<1>4. TypeOK'
  BY <1>2, <1>3 DEF PoolInv, TypeOK
<1>5. NoSharing'
  BY <1>1, <1>2, <1>3 DEF PoolInv, TypeOK, NoSharing
<1>6. RightLength'
  BY <1>2 DEF PoolInv, TypeOK, RightLength
<1>7. Made'
  BY <1>1, <1>2, <1>3 DEF PoolInv, Made
<1> QED
  BY <1>4, <1>5, <1>6, <1>7 DEF PoolInv

LEMMA DisposeStep ==
  ASSUME PoolInv, NEW s \in Streams, DisposeStream(s)
  PROVE  PoolInv'
<1> USE BufferPoolAssumption, NoneAssumption DEF None
<1> DEFINE b == held[s]
<1>1. /\ state' = [state EXCEPT ![s] = "disposed"]
      /\ held' = [held EXCEPT ![s] = None]
      /\ buffers' = IF b = None THEN buffers ELSE Append(buffers, b)
      /\ length' = length /\ size' = size /\ borrowed' = borrowed
  BY DEF DisposeStream, ReturnBuffer
<1>2. CASE b = None
  <2>1. held' = held /\ buffers' = buffers
    BY <1>1, <1>2 DEF PoolInv, TypeOK
  <2> QED
    BY <1>1, <2>1 DEF PoolInv, TypeOK, NoSharing, RightLength, Made
<1>3. CASE b # None
  <2>1. b \in Buffers /\ b \notin ToSet(buffers) /\ length[b] # 0
    BY <1>3 DEF PoolInv, TypeOK, NoSharing, RightLength
  <2>2. /\ buffers' \in Seq(Buffers) /\ IsInjective(buffers')
        /\ ToSet(buffers') = ToSet(buffers) \cup {b}
    BY <1>1, <1>3, <2>1, PoolAppendFacts DEF PoolInv, TypeOK, NoSharing
  <2>3. TypeOK'
    BY <1>1, <2>2 DEF PoolInv, TypeOK
  <2>4. NoSharing'
    BY <1>1, <2>1, <2>2 DEF PoolInv, TypeOK, NoSharing
  <2>5. RightLength'
    BY <1>1 DEF PoolInv, TypeOK, RightLength
  <2>6. Made'
    BY <1>1, <2>1, <2>2 DEF PoolInv, Made
  <2> QED
    BY <2>3, <2>4, <2>5, <2>6 DEF PoolInv
<1> QED
  BY <1>2, <1>3

LEMMA ClearStep ==
  ASSUME PoolInv, Clear
  PROVE  PoolInv'
<1>1. /\ buffers' = <<>> /\ length' = length /\ state' = state
      /\ size' = size /\ held' = held /\ borrowed' = borrowed
  BY DEF Clear
<1>2. ToSet(buffers') = {} /\ IsInjective(buffers') /\ buffers' \in Seq(Buffers)
  BY <1>1 DEF ToSet, IsInjective
<1> QED
  BY <1>1, <1>2 DEF PoolInv, TypeOK, NoSharing, RightLength, Made

LEMMA PoolStep == PoolInv /\ [PoolNext]_poolVars => PoolInv'
<1> SUFFICES ASSUME PoolInv, [PoolNext]_poolVars PROVE PoolInv'
  OBVIOUS
<1>1. CASE Clear
  BY <1>1, ClearStep
<1>2. ASSUME NEW s \in Streams, GiveBack(s) PROVE PoolInv'
  BY <1>2, GiveBackStep
<1>3. ASSUME NEW s \in Streams, DisposeStream(s) PROVE PoolInv'
  BY <1>3, DisposeStep
<1>4. ASSUME NEW s \in Streams, NEW b \in Buffers, Create(s, b) PROVE PoolInv'
  BY <1>4, CreateStep
<1>5. ASSUME NEW s \in Streams, NEW b \in Buffers, Borrow(s, b) PROVE PoolInv'
  BY <1>5, BorrowStep
<1>6. CASE UNCHANGED poolVars
  BY <1>6 DEF poolVars, PoolInv, TypeOK, NoSharing, RightLength, Made, ToSet, IsInjective
<1> QED
  BY <1>1, <1>2, <1>3, <1>4, <1>5, <1>6 DEF PoolNext

LEMMA PoolInvHolds == PoolSpec => []PoolInv
  BY PoolInitially, PoolStep, PTL DEF PoolSpec

-----------------------------------------------------------------------------
(* The properties.                                                         *)

\* No array of the pool is ever in two hands, for any number of streams, sizes and
\* operations: buffers are given back once and taken off the stack when they are used.
THEOREM NoSharingCorrect == PoolSpec => []NoSharing
<1>1. PoolInv => NoSharing
  BY DEF PoolInv
<1> QED
  BY <1>1, PoolInvHolds, PTL

\* Streams of different sizes that share the pool always work on arrays of their own
\* size.
THEOREM RightLengthCorrect == PoolSpec => []RightLength
<1>1. PoolInv => RightLength
  BY DEF PoolInv
<1> QED
  BY <1>1, PoolInvHolds, PTL


-----------------------------------------------------------------------------
(* Sums.  FoldLeft is a recursive function on the sets of positions of a     *)
(* sequence; that there is one that satisfies its equation is shown for one  *)
(* position after the other.                                                 *)

LEMMA LeastOf ==
  ASSUME NEW I \in SUBSET Nat, I # {}
  PROVE  \E m \in I : \A i \in I : m <= i
  <1>1. PICK m \in I : \A i \in I : ~ (<<i, m>> \in OpToRel(<, Nat))
    BY NatLessThanWellFounded, WFMin
  <1>2. ASSUME NEW i \in I, i < m PROVE FALSE
    <2>1. <<i, m>> \in Nat \X Nat /\ <<i, m>>[1] < <<i, m>>[2]
      BY <1>2
    <2> QED
      BY <1>1, <2>1 DEF OpToRel
  <1> QED
    BY <1>2

\* Induction, for a set of numbers.
LEMMA Reaches ==
  ASSUME NEW I \in SUBSET Nat, 0 \in I, \A n \in I : n + 1 \in I
  PROVE  I = Nat
  <1> SUFFICES ASSUME I # Nat PROVE FALSE
    OBVIOUS
  <1>1. Nat \ I # {} /\ Nat \ I \in SUBSET Nat
    OBVIOUS
  <1>2. PICK m \in Nat \ I : \A i \in Nat \ I : m <= i
    BY <1>1, LeastOf
  <1>3. m - 1 \in Nat /\ m - 1 < m
    BY <1>2
  <1>4. m - 1 \in I
    BY <1>2, <1>3
  <1>5. (m - 1) + 1 \in I
    BY <1>4
  <1> QED
    BY <1>2, <1>5

LEMMA MaxOf ==
  ASSUME NEW n \in Nat, NEW T \in SUBSET (1..n), T # {}
  PROVE  Max(T) \in T /\ \A i \in T : Max(T) >= i
  <1> DEFINE I == {k \in Nat : k <= n => \A U \in SUBSET (1..k) :
                                 U # {} => \E m \in U : \A i \in U : m >= i}
  <1>1. 0 \in I
    <2>1. 1..0 = {}
      OBVIOUS
    <2> QED
      BY <2>1
  <1>2. ASSUME NEW k \in I PROVE k + 1 \in I
    <2> SUFFICES ASSUME k + 1 <= n, NEW U \in SUBSET (1..k + 1), U # {}
                 PROVE  \E m \in U : \A i \in U : m >= i
      OBVIOUS
    <2>1. CASE k + 1 \in U
      <3>1. \A i \in U : k + 1 >= i
        OBVIOUS
      <3> QED
        BY <2>1, <3>1
    <2>2. CASE k + 1 \notin U
      <3>1. U \in SUBSET (1..k)
        BY <2>2
      <3> QED
        BY <3>1
    <2> QED
      BY <2>1, <2>2
  <1>3. I = Nat
    <2> HIDE DEF I
    <2>1. I \in SUBSET Nat
      BY DEF I
    <2> QED
      BY <1>1, <1>2, <2>1, Reaches
  <1>4. \E m \in T : \A i \in T : m >= i
    BY <1>3
  <1> QED
    BY <1>4 DEF Max

LEMMA MaxIs ==
  ASSUME NEW n \in Nat, NEW T \in SUBSET (1..n + 1), n + 1 \in T
  PROVE  Max(T) = n + 1
  <1>1. n + 1 \in Nat /\ T # {}
    OBVIOUS
  <1>2. Max(T) \in T /\ Max(T) >= n + 1
    <2> DEFINE m == n + 1
    <2>1. m \in Nat /\ T \in SUBSET (1..m)
      BY <1>1
    <2> HIDE DEF m
    <2>2. Max(T) \in T /\ \A i \in T : Max(T) >= i
      BY <1>1, <2>1, MaxOf
    <2> QED
      BY <2>2
  <1>3. Max(T) \in 1..n + 1
    BY <1>2
  <1> QED
    BY <1>2, <1>3

Sums(h, s, n) ==
  h = [T \in SUBSET (1..n) |-> IF T = {} THEN 0 ELSE h[T \ {Max(T)}] + s[Max(T)]]

LEMMA SumDef ==
  ASSUME NEW s \in Seq(Nat)
  PROVE  Sum(s) = (CHOOSE h : Sums(h, s, Len(s)))[1..Len(s)]
  <1>1. DOMAIN s = 1..Len(s)
    OBVIOUS
  <1> QED BY <1>1, Zenon DEF Sum, FoldLeft, MapThenFoldSet, Sums

LEMMA SumsNext ==
  ASSUME NEW s, NEW n \in Nat, NEW h, Sums(h, s, n)
  PROVE  \E g : Sums(g, s, n + 1)
  <1> DEFINE g == [T \in SUBSET (1..n + 1) |->
                     IF n + 1 \in T THEN h[T \ {n + 1}] + s[n + 1] ELSE h[T]]
  <1>1. ASSUME NEW T \in SUBSET (1..n + 1)
        PROVE  g[T] = IF T = {} THEN 0 ELSE g[T \ {Max(T)}] + s[Max(T)]
    <2>1. CASE T = {}
      <3>1. T \in SUBSET (1..n) /\ g[T] = h[T]
        BY <2>1
      <3> QED
        BY <2>1, <3>1 DEF Sums
    <2>2. CASE n + 1 \in T
      <3>1. T \ {n + 1} \in SUBSET (1..n + 1) /\ n + 1 \notin T \ {n + 1}
        OBVIOUS
      <3>2. g[T \ {n + 1}] = h[T \ {n + 1}]
        BY <3>1
      <3> QED
        BY <2>2, <3>2, MaxIs
    <2>3. CASE T # {} /\ n + 1 \notin T
      <3>1. T \in SUBSET (1..n)
        BY <2>3
      <3>2. Max(T) \in T
        BY <2>3, <3>1, MaxOf
      <3>3. T \ {Max(T)} \in SUBSET (1..n) /\ T \ {Max(T)} \in SUBSET (1..n + 1)
            /\ n + 1 \notin T \ {Max(T)}
        BY <2>3, <3>1
      <3>4. g[T] = h[T] /\ g[T \ {Max(T)}] = h[T \ {Max(T)}]
        BY <2>3, <3>3
      <3>5. h[T] = h[T \ {Max(T)}] + s[Max(T)]
        BY <2>3, <3>1 DEF Sums
      <3> QED
        BY <2>3, <3>4, <3>5
    <2> QED
      BY <2>1, <2>2, <2>3
  <1> HIDE DEF g
  <1>2. g = [T \in SUBSET (1..n + 1) |-> g[T]]
    BY DEF g
  <1>3. Sums(g, s, n + 1)
    BY <1>1, <1>2, Zenon DEF Sums
  <1> QED
    BY <1>3

LEMMA SumsThere ==
  ASSUME NEW s, NEW n \in Nat
  PROVE  \E h : Sums(h, s, n)
  <1> DEFINE I == {k \in Nat : \E h : Sums(h, s, k)}
  <1>1. 0 \in I
    <2> DEFINE h == [T \in SUBSET (1..0) |-> 0]
    <2>1. Sums(h, s, 0)
      <3>1. 1..0 = {}
        OBVIOUS
      <3>2. \A T \in SUBSET (1..0) : T = {}
        BY <3>1
      <3> QED
        BY <3>2 DEF Sums
    <2> QED
      BY <2>1
  <1>2. ASSUME NEW k \in I PROVE k + 1 \in I
    BY SumsNext
  <1> HIDE DEF I
  <1>3. I = Nat
    <2>1. I \in SUBSET Nat
      BY DEF I
    <2> QED
      BY <1>1, <1>2, <2>1, Reaches
  <1> QED
    BY <1>3 DEF I

LEMMA SumNat ==
  ASSUME NEW s \in Seq(Nat)
  PROVE  Sum(s) \in Nat
  <1> DEFINE h == CHOOSE h : Sums(h, s, Len(s))
             I == {k \in Nat : k <= Len(s) => \A T \in SUBSET (1..k) : h[T] \in Nat}
  <1>0. Len(s) \in Nat
    OBVIOUS
  <1>1. Sums(h, s, Len(s))
    BY <1>0, SumsThere
  <1> HIDE DEF h
  <1>2. 0 \in I
    BY <1>0, <1>1 DEF Sums
  <1>3. ASSUME NEW k \in I PROVE k + 1 \in I
    <2>0. k \in Nat /\ k + 1 \in Nat
      OBVIOUS
    <2> SUFFICES ASSUME k + 1 <= Len(s), NEW T \in SUBSET (1..k + 1)
                 PROVE  h[T] \in Nat
      BY <2>0, Zenon
    <2>1. T \in SUBSET (1..Len(s))
      BY <1>0, <2>0
    <2>2. CASE T = {}
      BY <1>1, <2>1, <2>2 DEF Sums
    <2>3. CASE T # {}
      <3>1. Max(T) \in T /\ \A i \in T : Max(T) >= i
        BY <1>0, <2>1, <2>3, MaxOf
      <3>2. T \ {Max(T)} \in SUBSET (1..k)
        <4>1. ASSUME NEW i \in T \ {Max(T)} PROVE i \in 1..k
          <5>1. i \in 1..k + 1 /\ Max(T) \in 1..k + 1 /\ Max(T) >= i /\ i # Max(T)
            BY <3>1
          <5> QED
            BY <2>0, <5>1
        <4> QED
          BY <4>1
      <3>3. h[T \ {Max(T)}] \in Nat
        BY <3>2
      <3>4. s[Max(T)] \in Nat
        <4>1. Max(T) \in 1..Len(s)
          BY <2>1, <3>1
        <4> QED
          BY <4>1
      <3>5. h[T] = h[T \ {Max(T)}] + s[Max(T)]
        BY <1>1, <2>1, <2>3 DEF Sums
      <3> QED
        BY <3>3, <3>4, <3>5
    <2> QED
      BY <2>2, <2>3
  <1> HIDE DEF I
  <1>4. I = Nat
    <2>1. I \in SUBSET Nat
      BY DEF I
    <2> QED
      BY <1>2, <1>3, <2>1, Reaches
  <1>5. h[1..Len(s)] \in Nat
    BY <1>0, <1>4 DEF I
  <1> QED
    BY <1>5, SumDef DEF h

LEMMA SumEmpty == Sum(<<>>) = 0
  <1> DEFINE h == CHOOSE h : Sums(h, <<>>, 0)
  <1>1. Sums(h, <<>>, 0)
    BY SumsThere
  <1>2. h[1..0] = 0
    <2>1. 1..0 = {}
      OBVIOUS
    <2> HIDE DEF h
    <2> QED
      BY <1>1, <2>1 DEF Sums
  <1>3. <<>> \in Seq(Nat) /\ Len(<<>>) = 0
    OBVIOUS
  <1>4. Sum(<<>>) = h[1..0]
    BY <1>3, SumDef
  <1> QED
    BY <1>2, <1>4

-----------------------------------------------------------------------------
(* The inductive invariant.  A step of the parse starts where the wire format *)
(* puts the field it reads.                                                    *)

Results ==
  {"none", "null", "info", "peek exceeds buffer", "index out of buffer", "null reference"}

PeekTypeOK ==
  /\ side \in {"client", "server"}
  /\ hello \in Hellos
  /\ bufferSize \in Nat
  /\ have \in Nat
  /\ peerEnded \in BOOLEAN
  /\ filled \in BOOLEAN
  /\ step \in 0..6
  /\ Position \in Nat
  /\ result \in Results

\* Where the extensions of a TLS hello start, or an SSL 2 hello ends.
BodyEnd == IF hello.form = "tls" THEN ExtensionsStart(hello) ELSE HelloEnd(hello)

\* Where a step starts.
Start(k) ==
  CASE k <= 1 -> 1
    [] k > 1 /\ k > Len(Steps) -> BodyEnd + IF k = Len(Steps) + 2 THEN 2 ELSE 0
    [] k = 2 /\ k <= Len(Steps) ->
         IF hello.form = "tls" THEN 44 ELSE IF side = "client" THEN 11 ELSE 5
    [] k = 3 /\ k <= Len(Steps) -> 44 + hello.sid + 2
    [] k = 4 /\ k <= Len(Steps) -> 44 + hello.sid + 2 + hello.ciphers + 1

\* A parse that runs has found nothing yet, is where its step starts, and has
\* passed the checks of the steps before.
AtStep ==
  Running =>
    /\ Extensions = {}
    /\ step <= Len(Steps) + 2
    /\ step >= 1 => hello.form # "other"
    /\ step >= 2 => hello.by = side
    /\ step >= 4 => ~NoCompressions
    /\ step > Len(Steps) => HasExtensions(ExtensionsStart(hello))
    /\ Position = Start(step)

\* A report without extensions that looked for them came upon something.
PlaceRight ==
  result = "info" /\ Extensions = {} /\ hello.form = "tls" =>
    \/ Position = ExtensionsStart(hello)
    \/ HasExtensions(ExtensionsStart(hello))

PeekIInv == PeekTypeOK /\ AtStep /\ PlaceRight /\ HelloRight

\* A write is of a handshake, the peek before it has not begun, and the peek in it
\* has all its bytes.
WriteRight ==
  /\ adding \in BOOLEAN
  /\ out \in Seq([total : Int, record : Int, handshake : Int, block : Int, at : Int, added : Int])
  /\ adding => hello \in HandshakeHellos /\ bufferSize = WireLength(hello)
  /\ adding /\ ~called => Running /\ step = 0 /\ have = 0
  /\ writing => adding /\ called /\ side = "server" /\ have = WireLength(hello)

HelloInv == PeekIInv /\ WriteRight /\ HelloStaysOne

-----------------------------------------------------------------------------
(* Hellos and the steps over them.                                           *)

LEMMA BlockFacts ==
  ASSUME NEW exts \in Seq(Nat)
  PROVE  /\ BlockLength(exts) \in Nat
         /\ exts = <<>> => BlockLength(exts) = 0
         /\ exts # <<>> => BlockLength(exts) >= 4
  <1>1. Sum(exts) \in Nat /\ Len(exts) \in Nat
    BY SumNat
  <1>2. CASE exts = <<>>
    BY <1>1, <1>2, SumEmpty DEF BlockLength
  <1>3. CASE exts # <<>>
    <2>1. Len(exts) >= 1
      BY <1>3, EmptySeq
    <2> QED
      BY <1>1, <1>3, <2>1 DEF BlockLength
  <1> QED
    BY <1>2, <1>3

\* The loop reads all extensions of a block.
LEMMA ReadsAll ==
  ASSUME NEW exts \in Seq(Nat)
  PROVE  ReadExtensions(exts) = exts
  <1> DEFINE P(n) == BytesLeft(exts, n) <= 3 /\ \A m \in 0..n - 1 : BytesLeft(exts, m) > 3
  <1>0. Len(exts) \in Nat /\ Len(exts) \in 0..Len(exts)
    OBVIOUS
  <1>1. ASSUME NEW m \in 0..Len(exts)
        PROVE  /\ SubSeq(exts, m + 1, Len(exts)) \in Seq(Nat)
               /\ Len(SubSeq(exts, m + 1, Len(exts))) = Len(exts) - m
    <2>1. m \in Nat /\ m <= Len(exts) /\ m + 1 \in 1..Len(exts) + 1
          /\ Len(exts) \in m + 1 - 1..Len(exts)
      BY <1>0
    <2> QED
      BY <1>0, <2>1, SubSeqProperties
  <1>2. BytesLeft(exts, Len(exts)) = 0
    <2> DEFINE s == SubSeq(exts, Len(exts) + 1, Len(exts))
    <2>1. s \in Seq(Nat) /\ Len(s) = 0
      BY <1>0, <1>1
    <2> HIDE DEF s
    <2>2. BlockLength(s) = 0
      BY <2>1, BlockFacts, EmptySeq
    <2> QED
      BY <2>2 DEF BytesLeft, s
  <1>3. ASSUME NEW m \in 0..Len(exts) - 1 PROVE BytesLeft(exts, m) >= 4 /\ BytesLeft(exts, m) \in Nat
    <2>1. m \in 0..Len(exts) /\ Len(exts) - m # 0
      BY <1>0
    <2>2. SubSeq(exts, m + 1, Len(exts)) # <<>>
      BY <1>1, <2>1
    <2> QED
      BY <1>1, <2>1, <2>2, BlockFacts DEF BytesLeft
  <1>4. P(Len(exts))
    BY <1>0, <1>2, <1>3
  <1>5. ASSUME NEW n \in 0..Len(exts), P(n) PROVE n = Len(exts)
    <2>1. n \notin 0..Len(exts) - 1
      BY <1>3, <1>5
    <2> QED
      BY <1>0, <2>1
  <1>6. (CHOOSE n \in 0..Len(exts) : P(n)) = Len(exts)
    <2> HIDE DEF P
    <2> QED
      BY <1>0, <1>4, <1>5
  <1>7. ReadExtensions(exts) = SubSeq(exts, 1, Len(exts))
    BY <1>6 DEF ReadExtensions
  <1> QED
    BY <1>7, SubSeqFull

LEMMA HelloFacts ==
  ASSUME NEW h \in Hellos
  PROVE  /\ h.sid \in Nat /\ h.ciphers \in Nat /\ h.comp \in Nat /\ h.random \in Nat
         /\ h.rest \in Nat /\ h.minor \in Nat /\ h.exts \in Seq(Nat) /\ h.block \in BOOLEAN
         /\ h.form \in {"tls", "ssl2", "other"} /\ h.by \in {"client", "server"}
         /\ h.block => h.form = "tls"
         /\ BlockLength(h.exts) \in Nat
         /\ ExtensionsStart(h) \in Nat /\ ExtensionsStart(h) >= 44
         /\ HelloEnd(h) \in Nat /\ WireLength(h) \in Nat /\ WireLength(h) = HelloEnd(h) + h.rest
         /\ RecordLength(h) + 5 = WireLength(h)
         /\ h.form = "tls" /\ h.block =>
              HelloEnd(h) = ExtensionsStart(h) + 2 + BlockLength(h.exts)
         /\ h.form = "tls" /\ ~h.block => HelloEnd(h) = ExtensionsStart(h)
         /\ h.form = "tls" => HelloEnd(h) >= 44
         /\ h.form = "ssl2" /\ h.by = "client" =>
              HelloEnd(h) = 11 + h.ciphers + h.sid + h.random
         /\ h.form = "ssl2" /\ h.by = "server" => HelloEnd(h) = 40
  <1>1. h \in Hello /\ WellFormed(h)
    BY HelloPeekAssumption
  <1>2. /\ h.sid \in Nat /\ h.ciphers \in Nat /\ h.comp \in Nat /\ h.random \in Nat
        /\ h.rest \in Nat /\ h.minor \in Nat /\ h.exts \in Seq(Nat) /\ h.block \in BOOLEAN
        /\ h.form \in {"tls", "ssl2", "other"} /\ h.by \in {"client", "server"}
        /\ h.block => h.form = "tls"
    BY <1>1 DEF Hello, WellFormed
  <1>3. BlockLength(h.exts) \in Nat
    BY <1>2, BlockFacts
  <1>4. ExtensionsStart(h) \in Nat /\ ExtensionsStart(h) >= 44
    <2>1. ExtensionsStart(h) = IF h.by = "client" THEN 44 + h.sid + 2 + h.ciphers + 1 + h.comp
                                                  ELSE 44 + h.sid + 2 + 1
      BY DEF ExtensionsStart
    <2>2. CASE h.by = "client"
      BY <1>2, <2>1, <2>2
    <2>3. CASE h.by = "server"
      BY <1>2, <2>1, <2>3
    <2> QED
      BY <1>2, <2>2, <2>3
  <1>5. /\ h.form = "tls" /\ h.block =>
              HelloEnd(h) = ExtensionsStart(h) + 2 + BlockLength(h.exts)
        /\ h.form = "tls" /\ ~h.block => HelloEnd(h) = ExtensionsStart(h)
        /\ h.form = "ssl2" /\ h.by = "client" =>
              HelloEnd(h) = 11 + h.ciphers + h.sid + h.random
        /\ h.form = "ssl2" /\ h.by = "server" => HelloEnd(h) = 40
        /\ h.form = "other" => HelloEnd(h) = h.random
    BY <1>2, <1>3, <1>4 DEF HelloEnd
  <1>6. HelloEnd(h) \in Nat /\ (h.form = "tls" => HelloEnd(h) >= 44)
    <2>1. CASE h.form = "tls"
      BY <1>2, <1>3, <1>4, <1>5, <2>1
    <2>2. CASE h.form = "ssl2"
      BY <1>2, <1>5, <2>2
    <2>3. CASE h.form = "other"
      BY <1>2, <1>5, <2>3
    <2> QED
      BY <1>2, <2>1, <2>2, <2>3
  <1>7. WireLength(h) \in Nat /\ WireLength(h) = HelloEnd(h) + h.rest /\ RecordLength(h) + 5 = WireLength(h)
    BY <1>2, <1>6 DEF WireLength, RecordLength
  <1> QED
    BY <1>2, <1>3, <1>4, <1>5, <1>6, <1>7

LEMMA StepsLength == Len(Steps) \in {2, 4}
  <1>1. ASSUME NEW h PROVE Len(PeekClientHello(h)) \in {2, 4} /\ Len(PeekServerHello(h)) = 2
    BY DEF PeekClientHello, PeekServerHello
  <1> QED
    BY <1>1 DEF Steps

\* The steps of a hello of the side asked for lie behind each other and in it.
LEMMA StepsFit ==
  ASSUME side \in {"client", "server"}, hello \in Hellos, hello.form # "other"
  PROVE  /\ Len(Steps) \in {2, 4}
         /\ \A k \in 1..Len(Steps) :
              /\ Steps[k].need \in Nat /\ Steps[k].take \in Nat
              /\ Steps[k].take <= Steps[k].need
         /\ BodyEnd \in Nat /\ BodyEnd <= HelloEnd(hello)
         /\ hello.by = side =>
              \A k \in 1..Len(Steps) :
                /\ Start(k) \in Nat
                /\ Start(k) + Steps[k].take = Start(k + 1)
                /\ Start(k) + Steps[k].need <= BodyEnd
  <1> USE DEF Step
  <1>h. /\ hello.sid \in Nat /\ hello.ciphers \in Nat /\ hello.comp \in Nat
        /\ hello.random \in Nat
        /\ hello.form \in {"tls", "ssl2"} /\ hello.by \in {"client", "server"}
    BY HelloFacts
  <1>b. BodyEnd \in Nat /\ BodyEnd <= HelloEnd(hello)
    BY HelloFacts DEF BodyEnd
  <1>1. CASE side = "client" /\ hello.form = "tls"
    <2>1. Steps = <<Step(43, 43), Step(hello.sid + 2, hello.sid + 2),
                    Step(hello.ciphers + 1, hello.ciphers + 1), Step(hello.comp, hello.comp)>>
      BY <1>1 DEF Steps, PeekClientHello
    <2>2. Len(Steps) = 4
      BY <2>1
    <2>3. Start(1) = 1 /\ Start(2) = 44 /\ Start(3) = 44 + hello.sid + 2
          /\ Start(4) = 44 + hello.sid + 2 + hello.ciphers + 1 /\ Start(5) = BodyEnd
      BY <1>1, <1>b, <2>2 DEF Start
    <2>4. hello.by = side => BodyEnd = 44 + hello.sid + 2 + hello.ciphers + 1 + hello.comp
      BY <1>1, <1>h DEF BodyEnd, ExtensionsStart
    <2>5. \A k \in 1..Len(Steps) : k = 1 \/ k = 2 \/ k = 3 \/ k = 4
      BY <2>2
    <2> QED
      BY <1>h, <1>b, <2>1, <2>2, <2>3, <2>4, <2>5
  <1>2. CASE side = "client" /\ hello.form = "ssl2"
    <2>1. Steps = <<Step(10, 10), Step(hello.ciphers + hello.sid + hello.random,
                                       hello.ciphers + hello.sid + hello.random)>>
      BY <1>2 DEF Steps, PeekClientHello
    <2>2. Len(Steps) = 2
      BY <2>1
    <2>3. Start(1) = 1 /\ Start(2) = 11 /\ Start(3) = BodyEnd
      BY <1>2, <1>b, <2>2 DEF Start
    <2>4. hello.by = side => BodyEnd = 11 + hello.ciphers + hello.sid + hello.random
      BY <1>2, HelloFacts DEF BodyEnd
    <2>5. \A k \in 1..Len(Steps) : k = 1 \/ k = 2
      BY <2>2
    <2> QED
      BY <1>h, <1>b, <2>1, <2>2, <2>3, <2>4, <2>5
  <1>3. CASE side = "server" /\ hello.form = "tls"
    <2>1. Steps = <<Step(43, 43), Step(hello.sid + 2 + 1, hello.sid + 2 + 1)>>
      BY <1>3 DEF Steps, PeekServerHello
    <2>2. Len(Steps) = 2
      BY <2>1
    <2>3. Start(1) = 1 /\ Start(2) = 44 /\ Start(3) = BodyEnd
      BY <1>3, <1>b, <2>2 DEF Start
    <2>4. hello.by = side => BodyEnd = 44 + hello.sid + 2 + 1
      BY <1>3, <1>h DEF BodyEnd, ExtensionsStart
    <2>5. \A k \in 1..Len(Steps) : k = 1 \/ k = 2
      BY <2>2
    <2> QED
      BY <1>h, <1>b, <2>1, <2>2, <2>3, <2>4, <2>5
  <1>4. CASE side = "server" /\ hello.form = "ssl2"
    <2>1. Steps = <<Step(39, 4), Step(35, 35)>>
      BY <1>4 DEF Steps, PeekServerHello
    <2>2. Len(Steps) = 2
      BY <2>1
    <2>3. Start(1) = 1 /\ Start(2) = 5 /\ Start(3) = BodyEnd
      BY <1>4, <1>b, <2>2 DEF Start
    <2>4. hello.by = side => BodyEnd = 40
      BY <1>4, HelloFacts DEF BodyEnd
    <2>5. \A k \in 1..Len(Steps) : k = 1 \/ k = 2
      BY <2>2
    <2> QED
      BY <1>h, <1>b, <2>1, <2>2, <2>3, <2>4, <2>5
  <1> QED
    BY <1>h, <1>1, <1>2, <1>3, <1>4

LEMMA StartAfter ==
  ASSUME Len(Steps) \in {2, 4}, BodyEnd \in Nat
  PROVE  Start(Len(Steps) + 1) = BodyEnd /\ Start(Len(Steps) + 2) = BodyEnd + 2
  <1>1. CASE Len(Steps) = 2
    <2>1. Start(3) = BodyEnd /\ Start(4) = BodyEnd + 2
      BY <1>1 DEF Start
    <2> QED
      BY <1>1, <2>1
  <1>2. CASE Len(Steps) = 4
    <2>1. Start(5) = BodyEnd /\ Start(6) = BodyEnd + 2
      BY <1>2 DEF Start
    <2> QED
      BY <1>2, <2>1
  <1> QED
    BY <1>1, <1>2

-----------------------------------------------------------------------------
(* The peek.                                                                 *)

\* In a hello of the side asked for, no step asks for a byte behind the hello.
LEMMA InReach ==
  ASSUME PeekTypeOK, AtStep, Running, ~MessageBehind \/ step <= Len(Steps), hello.by = side,
         hello.form # "other"
  PROVE  Index \in Int /\ Index < HelloEnd(hello)
  <1>1. /\ hello \in Hellos /\ side \in {"client", "server"} /\ step \in 0..6
        /\ step <= Len(Steps) + 2 /\ Position = Start(step)
    BY DEF PeekTypeOK, AtStep
  <1>2. /\ Len(Steps) \in {2, 4} /\ BodyEnd \in Nat /\ BodyEnd <= HelloEnd(hello)
        /\ \A k \in 1..Len(Steps) : /\ Start(k) \in Nat /\ Steps[k].need \in Nat
                                    /\ Start(k) + Steps[k].need <= BodyEnd
    BY <1>1, StepsFit
  <1>3. HelloEnd(hello) \in Nat /\ HelloEnd(hello) >= 1
    BY <1>1, HelloFacts
  <1>4. CASE step = 0
    BY <1>3, <1>4 DEF Index
  <1>5. CASE step \in 1..Len(Steps)
    <2>1. Need = Steps[step].need
      BY <1>2, <1>5 DEF Need
    <2>2. Index = Position + Need - 1
      BY <1>5 DEF Index
    <2> QED
      BY <1>1, <1>2, <1>3, <1>5, <2>1, <2>2
  <1>6. CASE step > Len(Steps)
    <2>1. HasExtensions(ExtensionsStart(hello))
      BY <1>6 DEF AtStep
    <2>m. ~MessageBehind
      BY <1>1, <1>2, <1>6
    <2>2. /\ hello.form = "tls" /\ hello.block
          /\ HelloEnd(hello) = ExtensionsStart(hello) + 2 + BlockLength(hello.exts)
          /\ BlockLength(hello.exts) \in Nat /\ ExtensionsStart(hello) \in Nat
      BY <1>1, <2>1, <2>m, HelloFacts DEF HasExtensions, MessageBehind
    <2>3. BodyEnd = ExtensionsStart(hello)
      BY <2>2 DEF BodyEnd
    <2>4. Index = Position + Need - 1
      BY <1>2, <1>6 DEF Index
    <2>5. CASE step = Len(Steps) + 1
      <3>1. Need = 2
        BY <1>2, <2>5 DEF Need
      <3>2. Start(step) = BodyEnd
        BY <1>2, <2>5, StartAfter
      <3> QED
        BY <1>1, <2>2, <2>3, <2>4, <3>1, <3>2
    <2>6. CASE step = Len(Steps) + 2
      <3>1. Need = BlockLength(hello.exts)
        BY <1>2, <2>2, <2>6 DEF Need, ExtensionsLength
      <3>2. Start(step) = BodyEnd + 2
        BY <1>2, <2>6, StartAfter
      <3> QED
        BY <1>1, <2>2, <2>3, <2>4, <3>1, <3>2
    <2> QED
      BY <1>1, <1>2, <1>6, <2>5, <2>6
  <1> QED
    BY <1>1, <1>2, <1>4, <1>5, <1>6

LEMMA PeekByteAsyncStep ==
  ASSUME PeekIInv, PeekFills PROVE PeekIInv'
  <1>1. PeekTypeOK'
    <2>1. have' \in Nat
      <3>1. ASSUME NEW k \in 1..WireLength(hello), have' = have + k PROVE have' \in Nat
        BY <3>1, HelloFacts DEF PeekIInv, PeekTypeOK
      <3> QED
        BY <3>1 DEF PeekIInv, PeekTypeOK, PeekFills
    <2> QED
      BY <2>1 DEF PeekIInv, PeekTypeOK, PeekFills
  <1>2. Running /\ Running'
    BY DEF PeekFills, Running
  <1>3. AtStep'
    BY DEF PeekFills, PeekIInv, AtStep, Running, NoCompressions, HasExtensions, Start, Steps, BodyEnd
  <1>4. PlaceRight' /\ HelloRight'
    BY <1>2 DEF Running, PlaceRight, HelloRight, NeverPastBuffer, InfoRight, NullRight, WholeHelloSeen
  <1> QED
    BY <1>1, <1>3, <1>4 DEF PeekIInv

LEMMA PeerEndsStep ==
  ASSUME PeekIInv, PeerEnds PROVE PeekIInv'
  <1>1. PeekTypeOK'
    BY DEF PeekIInv, PeekTypeOK, PeerEnds
  <1>2. AtStep'
    BY DEF PeerEnds, PeekIInv, AtStep, Running, NoCompressions, HasExtensions, Start, Steps, BodyEnd
  <1>3. PlaceRight' /\ HelloRight'
    BY DEF PeerEnds, PeekIInv, PlaceRight, HelloRight, MessageBehind, NeverPastBuffer, InfoRight,
           NullRight, WholeHelloSeen, WholeHello, NoCompressions, HasExtensions, Running
  <1> QED
    BY <1>1, <1>2, <1>3 DEF PeekIInv

\* The peek stops with null or an exception.
LEMMA FinishStep ==
  ASSUME PeekIInv, NEW r \in Results \ {"none", "info", "index out of buffer"},
         Finish(r), UNCHANGED Extensions,
         MessageBehind \/ ~(WholeHello /\ bufferSize >= HelloEnd(hello)),
         r = "null" => ~WholeHello
  PROVE  PeekIInv'
  <1>1. PeekTypeOK'
    BY DEF PeekIInv, PeekTypeOK, Finish
  <1>2. /\ result' \notin {"none", "info", "index out of buffer"}
        /\ (MessageBehind \/ ~(WholeHello /\ bufferSize >= HelloEnd(hello)))'
        /\ result' = "null" => ~WholeHello'
    BY DEF Finish, MessageBehind, WholeHello, NoCompressions
  <1>3. (PlaceRight /\ HelloRight /\ AtStep)'
    BY <1>2 DEF Running, PlaceRight, HelloRight, NeverPastBuffer, InfoRight, NullRight,
                WholeHelloSeen, AtStep
  <1> QED
    BY <1>1, <1>3 DEF PeekIInv

LEMMA IndexThrowsStep ==
  ASSUME PeekIInv, IndexThrows PROVE PeekIInv'
  <1>1. ASSUME ~MessageBehind, WholeHello, bufferSize >= HelloEnd(hello) PROVE FALSE
    <2>1. Index \in Int /\ Index < HelloEnd(hello)
      BY <1>1, InReach DEF PeekIInv, IndexThrows, WholeHello
    <2>2. bufferSize <= Index /\ bufferSize \in Nat /\ HelloEnd(hello) \in Nat
      BY HelloFacts DEF PeekIInv, PeekTypeOK, IndexThrows
    <2> QED
      BY <1>1, <2>1, <2>2
  <1>2. Finish("peek exceeds buffer") /\ UNCHANGED Extensions
    BY DEF IndexThrows
  <1> QED
    BY <1>1, <1>2, FinishStep DEF Results

LEMMA NotEnoughStep ==
  ASSUME PeekIInv, NotEnough PROVE PeekIInv'
  <1>0. /\ hello \in Hellos /\ side \in {"client", "server"} /\ step \in 0..6 /\ have \in Nat
        /\ step <= Len(Steps) + 2 /\ Position = Start(step) /\ Running
        /\ Extensions = {} /\ (step >= 1 => hello.form # "other")
        /\ (step >= 2 => hello.by = side)
        /\ (step > Len(Steps) => HasExtensions(ExtensionsStart(hello)))
    BY DEF PeekIInv, PeekTypeOK, AtStep, NotEnough
  <1>1. ASSUME ~MessageBehind \/ step <= Len(Steps), WholeHello PROVE FALSE
    <2>1. Index \in Int /\ Index < HelloEnd(hello)
      BY <1>1, InReach DEF PeekIInv, NotEnough, WholeHello
    <2>2. have <= Index /\ have >= HelloEnd(hello) /\ HelloEnd(hello) \in Nat
      BY <1>0, <1>1, HelloFacts DEF NotEnough, Lacking, WholeHello
    <2> QED
      BY <1>0, <2>1, <2>2
  <1>2. CASE step <= Len(Steps)
    <2>1. Finish("null") /\ UNCHANGED Extensions
      <3>1. ~(step > Len(Steps))
        BY <1>0, <1>2
      <3> QED
        BY <3>1 DEF NotEnough
    <2>2. ~WholeHello
      BY <1>1, <1>2
    <2> QED
      BY <2>1, <2>2, FinishStep DEF Results
  <1>3. CASE step > Len(Steps)
    <2>1. Finish("info") /\ UNCHANGED Extensions
      BY <1>3 DEF NotEnough
    <2>2. HasExtensions(ExtensionsStart(hello)) /\ hello.form = "tls"
      BY <1>0, <1>3 DEF HasExtensions
    <2>3. Len(Steps) \in {2, 4}
      BY <1>0, <2>2, StepsFit
    <2>4. hello.by = side
      BY <1>0, <1>3, <2>3
    <2>5. Position \in {ExtensionsStart(hello), ExtensionsStart(hello) + 2}
      <3>1. BodyEnd = ExtensionsStart(hello) /\ BodyEnd \in Nat
        BY <1>0, <2>2, HelloFacts DEF BodyEnd
      <3>2. CASE step = Len(Steps) + 1
        BY <1>0, <2>3, <3>1, <3>2, StartAfter
      <3>3. CASE step = Len(Steps) + 2
        BY <1>0, <2>3, <3>1, <3>3, StartAfter
      <3> QED
        BY <1>0, <1>3, <2>3, <3>2, <3>3
    <2>6. PeekTypeOK'
      BY <2>1 DEF PeekIInv, PeekTypeOK, Finish, Results
    <2>7. AtStep'
      BY <2>1 DEF AtStep, Finish, Running
    <2>8. PlaceRight'
      BY <2>1, <2>2 DEF PlaceRight, Finish, HasExtensions
    <2>9. HelloRight'
      <3>1. ASSUME ~MessageBehind PROVE (NeverPastBuffer /\ WholeHelloSeen)'
        <4>1. ~WholeHello'
          BY <1>1, <2>1, <3>1 DEF Finish, WholeHello, NoCompressions
        <4> QED
          BY <2>1, <4>1 DEF NeverPastBuffer, WholeHelloSeen, Finish
      <3>2. InfoRight' /\ NullRight'
        BY <1>0, <2>1, <2>2, <2>4, <2>5 DEF InfoRight, NullRight, Finish
      <3>3. MessageBehind' = MessageBehind
        BY <2>1 DEF Finish, MessageBehind
      <3> QED
        BY <3>1, <3>2, <3>3 DEF HelloRight
    <2> QED
      BY <2>6, <2>7, <2>8, <2>9 DEF PeekIInv
  <1>4. Len(Steps) \in {2, 4}
    BY StepsLength
  <1> QED
    BY <1>0, <1>2, <1>3, <1>4

LEMMA NotHelloStep ==
  ASSUME PeekIInv, NotHello PROVE PeekIInv'
  <1>1. ~WholeHello /\ Finish("null") /\ UNCHANGED Extensions
    BY DEF NotHello, WholeHello
  <1> QED
    BY <1>1, FinishStep DEF Results

LEMMA WrongHelloStep ==
  ASSUME PeekIInv, WrongHello PROVE PeekIInv'
  <1>1. ~WholeHello /\ Finish("null") /\ UNCHANGED Extensions
    BY DEF WrongHello, Wrong, WholeHello
  <1> QED
    BY <1>1, FinishStep DEF Results

\* A step that leaves the parse running leaves it with nothing to be wrong about.
LEMMA RunsOn ==
  ASSUME result' = "none" PROVE PlaceRight' /\ HelloRight'
  BY DEF Running, PlaceRight, HelloRight, NeverPastBuffer, InfoRight, NullRight, WholeHelloSeen

LEMMA FirstByteStep ==
  ASSUME PeekIInv, FirstByte PROVE PeekIInv'
  <1>1. PeekTypeOK'
    <2>1. step' = 1 /\ filled' \in BOOLEAN
      BY DEF FirstByte
    <2>2. step' \in 0..6
      BY <2>1
    <2> QED
      BY <2>1, <2>2 DEF PeekIInv, PeekTypeOK, FirstByte
  <1>2. Running /\ result' = "none" /\ step = 0 /\ step' = 1 /\ hello.form # "other"
        /\ UNCHANGED <<side, hello, Position, Extensions>>
    BY DEF FirstByte, Enough, Running
  <1>3. /\ hello \in Hellos /\ side \in {"client", "server"} /\ Extensions = {}
        /\ Position = Start(0)
    BY <1>2 DEF PeekIInv, PeekTypeOK, AtStep
  <1>4. Len(Steps) \in {2, 4}
    BY <1>2, <1>3, StepsFit
  <1>5. Steps' = Steps
    BY <1>2 DEF Steps
  <1>6. Start(step)' = Start(0)
    BY <1>2 DEF Start
  <1>7. AtStep'
    BY <1>2, <1>3, <1>4, <1>5, <1>6 DEF AtStep
  <1>8. PlaceRight' /\ HelloRight'
    BY <1>2, RunsOn
  <1> QED
    BY <1>1, <1>7, <1>8 DEF PeekIInv

\* What holds where a step that has its bytes is taken.
LEMMA AtEnough ==
  ASSUME PeekIInv, Enough, step >= 1
  PROVE  /\ hello \in Hellos /\ side \in {"client", "server"} /\ step \in 1..6
         /\ have \in Nat /\ Extensions = {} /\ hello.form # "other" /\ Position = Start(step)
         /\ Position \in Nat /\ result = "none"
         /\ step >= 2 => hello.by = side
         /\ step >= 4 => ~NoCompressions
         /\ step > Len(Steps) => HasExtensions(ExtensionsStart(hello))
         /\ Len(Steps) \in {2, 4} /\ step <= Len(Steps) + 2
         /\ Need \in Nat => Position + Need <= have
  <1>1. /\ hello \in Hellos /\ side \in {"client", "server"} /\ step \in 1..6
        /\ have \in Nat /\ Extensions = {} /\ hello.form # "other" /\ Position = Start(step)
        /\ Position \in Nat /\ result = "none"
        /\ step >= 2 => hello.by = side
        /\ step >= 4 => ~NoCompressions
        /\ step > Len(Steps) => HasExtensions(ExtensionsStart(hello))
        /\ step <= Len(Steps) + 2
    BY DEF PeekIInv, PeekTypeOK, AtStep, Enough, Running
  <1>2. Len(Steps) \in {2, 4}
    BY <1>1, StepsFit
  <1>3. ASSUME Need \in Nat PROVE Position + Need <= have
    <2>1. Index = Position + Need - 1 /\ ~(have <= Index)
      BY <1>1 DEF Index, Enough, Lacking
    <2> QED
      BY <1>1, <1>3, <2>1
  <1> QED
    BY <1>1, <1>2, <1>3

LEMMA FieldsStep ==
  ASSUME PeekIInv, Fields PROVE PeekIInv'
  <1>0. Enough /\ step \in 1..Len(Steps) /\ ~Wrong /\ step >= 1
    <2>1. step \in 1..Len(Steps)
      BY DEF Fields
    <2>2. step >= 1
      BY <2>1, StepsLength
    <2> QED
      BY <2>1, <2>2 DEF Fields
  <1>1. /\ hello \in Hellos /\ side \in {"client", "server"} /\ step \in 1..6
        /\ have \in Nat /\ Extensions = {} /\ hello.form # "other" /\ Position = Start(step)
        /\ Position \in Nat /\ result = "none"
        /\ step >= 2 => hello.by = side
        /\ step >= 4 => ~NoCompressions
        /\ step > Len(Steps) => HasExtensions(ExtensionsStart(hello))
        /\ Len(Steps) \in {2, 4} /\ step <= Len(Steps) + 2
        /\ Need \in Nat => Position + Need <= have
    BY <1>0, AtEnough
  <1>2. hello.by = side /\ (step >= 3 => ~NoCompressions)
    BY <1>0, <1>1 DEF Wrong
  <1>3. /\ Steps[step].need \in Nat /\ Steps[step].take \in Nat
        /\ Steps[step].take <= Steps[step].need
        /\ Start(step) + Steps[step].take = Start(step + 1)
        /\ BodyEnd \in Nat /\ BodyEnd <= HelloEnd(hello)
    BY <1>0, <1>1, <1>2, StepsFit
  <1>4. Need = Steps[step].need
    BY <1>0, <1>1 DEF Need
  <1>5. ~(Position + Steps[step].take > have)
    BY <1>1, <1>3, <1>4
  <1>6. /\ Position' = Position + Steps[step].take /\ step' = step + 1
        /\ result' = IF step = Len(Steps) /\ ~HasExtensions(Position') THEN "info" ELSE result
        /\ filled' = FALSE
        /\ UNCHANGED <<side, hello, bufferSize, have, peerEnded, Extensions>>
    BY <1>5 DEF Fields
  <1>p. Position' = Start(step + 1) /\ Position' \in Nat
    BY <1>1, <1>3, <1>6
  <1>7. PeekTypeOK'
    <2>1. step' \in 0..6
      <3>1. step \in Nat /\ step <= 4 /\ step' = step + 1
        BY <1>0, <1>1, <1>6
      <3> QED
        BY <3>1
    <2>2. result' \in Results
      BY <1>1, <1>6 DEF Results
    <2> QED
      BY <1>6, <1>p, <2>1, <2>2 DEF PeekIInv, PeekTypeOK
  <1>8. Steps' = Steps
    BY <1>6 DEF Steps
  <1>9. ASSUME step = Len(Steps)
        PROVE  Position' = BodyEnd
    BY <1>1, <1>3, <1>p, <1>9, StartAfter
  <1>10. ASSUME step = Len(Steps), HasExtensions(Position')
         PROVE  HasExtensions(ExtensionsStart(hello))
    BY <1>9, <1>10 DEF HasExtensions, BodyEnd
  <1>11. CASE result' = "none"
    <2>1. Start(step)' = Start(step + 1)
      BY <1>6, <1>8 DEF Start, BodyEnd
    <2>2. step' > Len(Steps) => HasExtensions(ExtensionsStart(hello))
      BY <1>0, <1>1, <1>6, <1>10, <1>11
    <2>3. step' <= Len(Steps) + 2 /\ step' >= 1 /\ (step' >= 4 => step >= 3)
      BY <1>0, <1>1, <1>6
    <2>4. AtStep'
      BY <1>1, <1>2, <1>6, <1>p, <1>8, <2>1, <2>2, <2>3 DEF AtStep, HasExtensions, NoCompressions
    <2>5. PlaceRight' /\ HelloRight'
      BY <1>11, RunsOn
    <2> QED
      BY <1>7, <2>4, <2>5 DEF PeekIInv
  <1>12. CASE result' # "none"
    <2>1. result' = "info" /\ step = Len(Steps) /\ ~HasExtensions(BodyEnd) /\ Position' = BodyEnd
      BY <1>1, <1>6, <1>9, <1>12
    <2>2. AtStep'
      BY <2>1 DEF AtStep, Running
    <2>3. hello.form = "tls" => Position' = ExtensionsStart(hello)
      BY <2>1 DEF BodyEnd
    <2>4. PlaceRight'
      BY <1>6, <2>3 DEF PlaceRight
    <2>5. NeverPastBuffer' /\ NullRight'
      BY <2>1 DEF NeverPastBuffer, NullRight
    <2>6. InfoRight'
      <3>1. hello.form = "ssl2" => Position' = HelloEnd(hello)
        BY <2>1 DEF BodyEnd
      <3> QED
        BY <1>1, <1>2, <1>6, <2>3, <3>1 DEF InfoRight
    <2>7. WholeHelloSeen'
      <3>1. ~(hello.block /\ hello.minor >= 1)
        <4>1. SUFFICES ASSUME hello.block, hello.minor >= 1 PROVE FALSE
          OBVIOUS
        <4>2. /\ hello.form = "tls" /\ ExtensionsStart(hello) \in Nat
              /\ HelloEnd(hello) = ExtensionsStart(hello) + 2 + BlockLength(hello.exts)
              /\ BlockLength(hello.exts) \in Nat /\ hello.rest \in Nat
              /\ RecordLength(hello) + 5 = WireLength(hello)
              /\ WireLength(hello) = HelloEnd(hello) + hello.rest
          BY <1>1, <4>1, HelloFacts
        <4> QED
          BY <2>1, <4>1, <4>2 DEF HasExtensions, BodyEnd
      <3>2. Extensions' = {}
        BY <1>1, <1>6
      <3> QED
        BY <1>6, <2>1, <3>1, <3>2 DEF WholeHelloSeen
    <2> QED
      BY <1>7, <2>2, <2>4, <2>5, <2>6, <2>7 DEF PeekIInv, HelloRight
  <1> QED
    BY <1>11, <1>12

LEMMA BlockHeadStep ==
  ASSUME PeekIInv, BlockHead PROVE PeekIInv'
  <1>0. Enough /\ step = Len(Steps) + 1 /\ step >= 1
    <2>1. step = Len(Steps) + 1
      BY DEF BlockHead
    <2>2. step >= 1
      BY <2>1, StepsLength
    <2> QED
      BY <2>1, <2>2 DEF BlockHead
  <1>1. /\ hello \in Hellos /\ side \in {"client", "server"} /\ step \in 1..6
        /\ Extensions = {} /\ hello.form # "other" /\ Position = Start(step)
        /\ Position \in Nat /\ result = "none"
        /\ step >= 2 => hello.by = side
        /\ step >= 4 => ~NoCompressions
        /\ step > Len(Steps) => HasExtensions(ExtensionsStart(hello))
        /\ Len(Steps) \in {2, 4}
    BY <1>0, AtEnough
  <1>2. /\ Position' = Position + 2 /\ step' = step + 1
        /\ UNCHANGED <<side, hello, bufferSize, have, peerEnded, Extensions, result>> /\ filled' = FALSE
    BY DEF BlockHead
  <1>3. PeekTypeOK'
    <2>1. step \in {3, 5}
      <3>1. CASE Len(Steps) = 2
        BY <1>0, <3>1
      <3>2. CASE Len(Steps) = 4
        BY <1>0, <3>2
      <3> QED
        BY <1>1, <3>1, <3>2
    <2>2. step' \in 0..6 /\ Position' \in Nat
      BY <1>1, <1>2, <2>1
    <2> QED
      BY <1>2, <2>2 DEF PeekIInv, PeekTypeOK
  <1>4. Steps' = Steps /\ BodyEnd' = BodyEnd /\ BodyEnd \in Nat
    BY <1>1, <1>2, StepsFit DEF Steps, BodyEnd
  <1>5. Start(step)' = Start(Len(Steps) + 2)
    <2>1. step' = Len(Steps) + 2
      BY <1>0, <1>1, <1>2
    <2> QED
      BY <1>2, <1>4, <2>1 DEF Start
  <1>6. Position' = Start(step)'
    BY <1>0, <1>1, <1>2, <1>4, <1>5, StartAfter
  <1>7. AtStep'
    <2>1. /\ step' <= Len(Steps) + 2 /\ step' >= 1 /\ step > Len(Steps) /\ step >= 2
          /\ step >= 4 \/ Len(Steps) = 2
      <3>1. CASE Len(Steps) = 2
        BY <1>0, <1>2, <3>1
      <3>2. CASE Len(Steps) = 4
        BY <1>0, <1>2, <3>2
      <3> QED
        BY <1>1, <3>1, <3>2
    <2>2. Len(Steps) = 2 => ~NoCompressions
      BY <1>1, <2>1 DEF Steps, PeekClientHello, NoCompressions
    <2> QED
      BY <1>1, <1>2, <1>4, <1>6, <2>1, <2>2 DEF AtStep, HasExtensions, NoCompressions
  <1>8. PlaceRight' /\ HelloRight'
    BY <1>1, <1>2, RunsOn
  <1> QED
    BY <1>3, <1>7, <1>8 DEF PeekIInv

LEMMA BlockStep ==
  ASSUME PeekIInv, Block PROVE PeekIInv'
  <1>0. Enough /\ step = Len(Steps) + 2 /\ step >= 1 /\ hello.block
    <2>1. step = Len(Steps) + 2
      BY DEF Block
    <2>2. step >= 1
      BY <2>1, StepsLength
    <2> QED
      BY <2>1, <2>2 DEF Block
  <1>1. /\ hello \in Hellos /\ Position = Start(step) /\ hello.form # "other"
        /\ side \in {"client", "server"}
        /\ Position \in Nat /\ Len(Steps) \in {2, 4}
        /\ step >= 2 => hello.by = side
        /\ step > Len(Steps) => HasExtensions(ExtensionsStart(hello))
    BY <1>0, AtEnough
  <1>2. /\ hello.exts \in Seq(Nat) /\ hello.form = "tls" /\ BlockLength(hello.exts) \in Nat
        /\ HelloEnd(hello) = ExtensionsStart(hello) + 2 + BlockLength(hello.exts)
        /\ ExtensionsStart(hello) \in Nat
    BY <1>0, <1>1, HelloFacts
  <1>3. ReadExtensions(hello.exts) = hello.exts
    BY <1>2, ReadsAll
  <1>4. Position = ExtensionsStart(hello) + 2
    <2>1. BodyEnd = ExtensionsStart(hello)
      BY <1>2 DEF BodyEnd
    <2> QED
      BY <1>0, <1>1, <1>2, <2>1, StartAfter
  <1>5. /\ Extensions' = {hello.exts} /\ Position' = HelloEnd(hello) /\ result' = "info"
        /\ UNCHANGED <<side, hello, bufferSize, have, peerEnded, filled, step>>
    BY <1>2, <1>3, <1>4 DEF Block
  <1>6. PeekTypeOK'
    <2>1. Position' \in Nat
      BY <1>2, <1>5
    <2> QED
      BY <1>5, <2>1 DEF PeekIInv, PeekTypeOK, Results
  <1>7. AtStep' /\ PlaceRight'
    BY <1>5 DEF AtStep, PlaceRight, Running
  <1>8. hello.by = side /\ hello.minor >= 1
    BY <1>0, <1>1 DEF HasExtensions
  <1>9. NeverPastBuffer' /\ InfoRight' /\ NullRight' /\ WholeHelloSeen'
    BY <1>0, <1>2, <1>5, <1>8 DEF NeverPastBuffer, InfoRight, NullRight, WholeHelloSeen
  <1> QED
    BY <1>6, <1>7, <1>9 DEF PeekIInv, HelloRight

LEMMA MisreadStep ==
  ASSUME PeekIInv, Misread PROVE PeekIInv'
  <1>0. Enough /\ step = Len(Steps) + 2 /\ step >= 1 /\ ~hello.block
    <2>1. step = Len(Steps) + 2
      BY DEF Misread
    <2>2. step >= 1
      BY <2>1, StepsLength
    <2> QED
      BY <2>1, <2>2 DEF Misread
  <1>1. /\ hello \in Hellos /\ Len(Steps) \in {2, 4} /\ have \in Nat /\ Position \in Nat
        /\ step > Len(Steps) => HasExtensions(ExtensionsStart(hello))
        /\ step >= 2 => hello.by = side
        /\ Extensions = {}
    BY <1>0, AtEnough
  <1>2. HasExtensions(ExtensionsStart(hello)) /\ hello.by = side
    BY <1>0, <1>1
  <1>3. MessageBehind
    <2>1. /\ HelloEnd(hello) = ExtensionsStart(hello) /\ ExtensionsStart(hello) \in Nat
          /\ RecordLength(hello) + 5 = HelloEnd(hello) + hello.rest /\ hello.rest \in Nat
      BY <1>0, <1>1, <1>2, HelloFacts DEF HasExtensions
    <2> QED
      BY <1>0, <1>2, <2>1 DEF HasExtensions, MessageBehind
  <1>4. /\ UNCHANGED <<side, hello, bufferSize, have, peerEnded, filled, step>>
        /\ Position' \in Nat
        /\ result' \in {"info", "index out of buffer"}
        /\ result' = "info" => Extensions' # {}
    <2>1. CASE Finish("index out of buffer") /\ UNCHANGED Extensions
      BY <1>1, <2>1 DEF Finish
    <2>2. CASE /\ \E n \in RestWord - 3..have - Position : Position' = Position + n
               /\ Extensions' = {<<>>}
               /\ result' = "info"
               /\ UNCHANGED <<side, hello, bufferSize, have, peerEnded, filled, step>>
      <3>1. PICK n \in RestWord - 3..have - Position : Position' = Position + n
        BY <2>2
      <3>2. n \in Int /\ n >= 0
        BY <1>1, <3>1, HelloPeekAssumption
      <3> QED
        BY <1>1, <2>2, <3>1, <3>2
    <2> QED
      BY <2>1, <2>2 DEF Misread
  <1>5. PeekTypeOK'
    BY <1>4 DEF PeekIInv, PeekTypeOK, Results
  <1>6. AtStep' /\ PlaceRight'
    BY <1>4 DEF AtStep, PlaceRight, Running
  <1>7. HelloRight'
    BY <1>2, <1>3, <1>4 DEF HelloRight, InfoRight, NullRight, MessageBehind
  <1> QED
    BY <1>5, <1>6, <1>7 DEF PeekIInv

LEMMA ParseStep ==
  ASSUME PeekIInv, Parse PROVE PeekIInv'
  BY NotHelloStep, FirstByteStep, WrongHelloStep, FieldsStep, BlockHeadStep, BlockStep,
     MisreadStep DEF Parse

-----------------------------------------------------------------------------
(* The adder.                                                                *)

Entries ==
  [total : Int, record : Int, handshake : Int, block : Int, at : Int, added : Int]

\* An entry that is right of the hello at hand.
EntryRight(w) ==
  w # AsIs /\ ~MessageBehind =>
    /\ w.total = 5 + w.record
    /\ w.total = 9 + w.handshake + hello.rest
    /\ w.at + w.added = 9 + w.handshake
    /\ ExtensionsStart(hello) + 2 + w.block = 9 + w.handshake

LEMMA Appended ==
  ASSUME out \in Seq(Entries), NEW w \in Entries, out' = Append(out, w), hello' = hello,
         HelloStaysOne, EntryRight(w)
  PROVE  out' \in Seq(Entries) /\ HelloStaysOne'
  <1>1. out' \in Seq(Entries) /\ Len(out') = Len(out) + 1 /\ Len(out) \in Nat
    OBVIOUS
  <1>2. ASSUME NEW i \in 1..Len(out') PROVE out'[i] = w \/ (i \in 1..Len(out) /\ out'[i] = out[i])
    BY <1>1
  <1>3. \A i \in 1..Len(out) : EntryRight(out[i])
    BY DEF HelloStaysOne, EntryRight
  <1>4. \A i \in 1..Len(out') : EntryRight(out'[i])
    BY <1>2, <1>3
  <1>5. MessageBehind' <=> MessageBehind
    BY DEF MessageBehind
  <1> QED
    BY <1>1, <1>4, <1>5 DEF HelloStaysOne, EntryRight

\* What the peek does to the rest: nothing, but that it may buffer more.
LEMMA PeekFrame ==
  ASSUME PeekFills \/ IndexThrows \/ NotEnough \/ Parse
  PROVE  UNCHANGED <<side, hello, bufferSize>> /\ (have' = have \/ PeekFills)
  BY DEF PeekFills, IndexThrows, NotEnough, Parse, NotHello, FirstByte, WrongHello, Fields,
         BlockHead, Block, Misread, Finish

LEMMA PeekStep ==
  ASSUME PeekIInv, PeekFills \/ IndexThrows \/ NotEnough \/ Parse
  PROVE  PeekIInv'
  BY PeekByteAsyncStep, IndexThrowsStep, NotEnoughStep, ParseStep

\* Nothing of a peek depends on whether the peer has stopped.
LEMMA PeekStays ==
  ASSUME PeekIInv, peerEnded' \in BOOLEAN,
         UNCHANGED <<side, hello, bufferSize, have, filled, step, Position, Extensions, result>>
  PROVE  PeekIInv'
  <1>1. PeekTypeOK'
    BY DEF PeekIInv, PeekTypeOK
  <1>2. AtStep' /\ PlaceRight'
    BY DEF PeekIInv, AtStep, PlaceRight, NoCompressions, HasExtensions, Running, Start, Steps, BodyEnd
  <1>3. (MessageBehind' <=> MessageBehind) /\ (WholeHello' <=> WholeHello)
    BY DEF MessageBehind, WholeHello, NoCompressions
  <1>4. HelloRight'
    BY <1>3 DEF PeekIInv, HelloRight, NeverPastBuffer, InfoRight, NullRight, WholeHelloSeen, Running
  <1> QED
    BY <1>1, <1>2, <1>4 DEF PeekIInv

\* A step that leaves all as it is but whether the peer has stopped.
LEMMA StaysRight ==
  ASSUME HelloInv, peerEnded' \in BOOLEAN,
         UNCHANGED <<side, hello, bufferSize, have, filled, step, Position, Extensions, result>>,
         UNCHANGED <<adding, called, writing, writes, out>>
  PROVE  HelloInv'
  <1>1. PeekIInv'
    BY PeekStays DEF HelloInv
  <1>2. WriteRight' /\ HelloStaysOne'
    BY DEF HelloInv, WriteRight, HelloStaysOne, MessageBehind, Running
  <1> QED
    BY <1>1, <1>2 DEF HelloInv

LEMMA PeekInitRight ==
  ASSUME NEW p \in {"client", "server"}, NEW h \in Hellos, NEW s \in Nat, PeekInit(p, h, s)
  PROVE  PeekIInv
  <1>1. PeekTypeOK
    <2>1. have \in Nat /\ step \in 0..6 /\ Position \in Nat
      BY DEF PeekInit
    <2>2. peerEnded \in BOOLEAN /\ filled \in BOOLEAN
      BY DEF PeekInit
    <2> QED
      BY <2>1, <2>2 DEF PeekInit, PeekTypeOK, Results
  <1>2. AtStep
    <2>1. step = 0 /\ Position = 1 /\ Extensions = {} /\ Len(Steps) \in {2, 4}
      BY StepsLength DEF PeekInit
    <2>2. Position = Start(step)
      BY <2>1 DEF Start
    <2> QED
      BY <2>1, <2>2 DEF AtStep
  <1>3. PlaceRight /\ HelloRight
    BY DEF PeekInit, Running, PlaceRight, HelloRight, NeverPastBuffer, InfoRight, NullRight,
           WholeHelloSeen
  <1> QED
    BY <1>1, <1>2, <1>3 DEF PeekIInv

LEMMA InitRight ==
  ASSUME AlpnInit PROVE HelloInv
  <1>1. PeekIInv
    <2>1. ASSUME NEW p \in {"client", "server"}, NEW h \in HandshakeHellos, PeekInit(p, h, WireLength(h))
          PROVE  PeekIInv
      <3>1. h \in Hellos /\ WireLength(h) \in Nat
        BY HelloFacts DEF HandshakeHellos
      <3> QED
        BY <2>1, <3>1, PeekInitRight
    <2>2. ASSUME NEW p \in {"client", "server"}, NEW h \in Hellos, NEW s \in BufferSizes, PeekInit(p, h, s)
          PROVE  PeekIInv
      BY <2>2, HelloPeekAssumption, PeekInitRight
    <2> QED
      BY <2>1, <2>2 DEF AlpnInit, HelloInit
  <1>2. WriteRight
    <2>1. adding => hello \in HandshakeHellos /\ bufferSize = WireLength(hello)
                    /\ Running /\ step = 0 /\ have = 0
      BY DEF AlpnInit, PeekInit, Running
    <2>2. adding \in BOOLEAN
      BY DEF AlpnInit
    <2>3. out \in Seq(Entries)
      BY DEF AlpnInit
    <2>4. ~writing
      BY DEF AlpnInit
    <2> QED
      BY <2>1, <2>2, <2>3, <2>4 DEF WriteRight, Entries
  <1>3. HelloStaysOne
    BY DEF AlpnInit, HelloStaysOne
  <1> QED
    BY <1>1, <1>2, <1>3 DEF HelloInv

LEMMA FirstWriteStep ==
  ASSUME HelloInv, adding, FirstWrite PROVE HelloInv'
  <1>1. /\ Running /\ step = 0 /\ have = 0 /\ hello \in HandshakeHellos /\ bufferSize = WireLength(hello)
        /\ hello \in Hellos /\ PeekIInv
        /\ UNCHANGED <<side, hello, bufferSize, peerEnded, filled, step, Position, Extensions, adding, out>>
        /\ called' = TRUE
    BY DEF HelloInv, WriteRight, PeekIInv, PeekTypeOK, FirstWrite
  <1>2. HelloStaysOne' /\ out' \in Seq(Entries)
    BY <1>1 DEF HelloInv, WriteRight, HelloStaysOne, MessageBehind, Entries
  <1>3. CASE PoolAssigned
    <2>1. side = "server" /\ writing' = TRUE /\ have' = WireLength(hello) /\ result' = result
      BY <1>3 DEF PoolAssigned, FirstWrite
    <2>2. PeekTypeOK'
      BY <1>1, <2>1, HelloFacts DEF PeekIInv, PeekTypeOK
    <2>3. AtStep'
      BY <1>1, <2>1 DEF PeekIInv, AtStep, Running, NoCompressions, HasExtensions, Start, Steps,
                        BodyEnd
    <2>4. PlaceRight' /\ HelloRight'
      BY <1>1, <2>1, RunsOn DEF Running
    <2>5. WriteRight'
      BY <1>1, <1>2, <2>1 DEF HelloInv, WriteRight, Entries
    <2> QED
      BY <1>2, <2>2, <2>3, <2>4, <2>5 DEF HelloInv, PeekIInv
  <1>4. CASE ~PoolAssigned
    <2>1. result' = "null reference" /\ UNCHANGED <<have, writing>>
      BY <1>4 DEF FirstWrite
    <2>2. PeekTypeOK'
      BY <1>1, <2>1 DEF PeekIInv, PeekTypeOK, Results
    <2>3. ~WholeHello'
      <3>1. HelloEnd(hello) >= 44 /\ HelloEnd(hello) \in Nat
        BY <1>1, HelloFacts DEF HandshakeHellos
      <3>2. ~(0 >= HelloEnd(hello))
        BY <3>1
      <3> QED
        BY <1>1, <2>1, <3>2 DEF WholeHello
    <2>4. AtStep' /\ PlaceRight' /\ HelloRight'
      BY <2>1, <2>3 DEF Running, AtStep, PlaceRight, HelloRight, NeverPastBuffer, InfoRight,
                        NullRight, WholeHelloSeen
    <2>5. WriteRight'
      BY <1>1, <1>2, <2>1 DEF HelloInv, WriteRight, Entries
    <2> QED
      BY <1>2, <2>2, <2>4, <2>5 DEF HelloInv, PeekIInv
  <1> QED
    BY <1>3, <1>4

LEMMA PeekWriteStep ==
  ASSUME HelloInv, Peek PROVE HelloInv'
  <1>1. PeekIInv'
    BY PeekStep DEF HelloInv, Peek
  <1>2. UNCHANGED <<side, hello, bufferSize, adding, called, writing, writes, out>>
        /\ writing /\ (have' = have \/ PeekFills)
    BY PeekFrame DEF Peek, adder
  <1>3. adding /\ called /\ hello \in Hellos /\ have = WireLength(hello) /\ have \in Nat
    BY <1>2 DEF HelloInv, PeekIInv, PeekTypeOK, WriteRight, Running
  <1>4. have' = have
    <2>1. ASSUME NEW k \in 1..WireLength(hello), have + k <= WireLength(hello) PROVE FALSE
      BY <1>3, <2>1, HelloFacts
    <2> QED
      BY <1>2, <2>1 DEF PeekFills
  <1>5. WriteRight'
    BY <1>2, <1>3, <1>4 DEF HelloInv, WriteRight
  <1>6. HelloStaysOne'
    BY <1>2 DEF HelloInv, HelloStaysOne, MessageBehind
  <1> QED
    BY <1>1, <1>5, <1>6 DEF HelloInv

LEMMA WriteHelloStep ==
  ASSUME HelloInv, WriteHello PROVE HelloInv'
  <1>0. /\ UNCHANGED <<side, hello, bufferSize, have, peerEnded, filled, step, Position, Extensions, result,
                       adding, called, writes>>
        /\ writing /\ writing' = FALSE /\ ~Running
    BY DEF WriteHello, pvars
  <1>1. /\ adding /\ side = "server" /\ have = WireLength(hello) /\ bufferSize = WireLength(hello)
        /\ hello \in HandshakeHellos /\ hello \in Hellos /\ out \in Seq(Entries) /\ called
        /\ Position \in Nat
    BY <1>0 DEF HelloInv, PeekIInv, PeekTypeOK, WriteRight, Entries
  <1>2. /\ hello.form = "tls" /\ (hello.block => hello.minor >= 1)
        /\ hello.rest \in Nat /\ BlockLength(hello.exts) \in Nat /\ hello.minor \in Nat
        /\ ExtensionsStart(hello) \in Nat /\ HelloEnd(hello) \in Nat /\ WireLength(hello) \in Nat
        /\ WireLength(hello) = HelloEnd(hello) + hello.rest
        /\ RecordLength(hello) + 5 = WireLength(hello) /\ RecordLength(hello) = WireLength(hello) - 5
        /\ hello.block => HelloEnd(hello) = ExtensionsStart(hello) + 2 + BlockLength(hello.exts)
        /\ ~hello.block => HelloEnd(hello) = ExtensionsStart(hello)
    BY <1>1, HelloFacts DEF HandshakeHellos, RecordLength
  <1>3. PeekIInv'
    <2>1. peerEnded' \in BOOLEAN
      BY <1>0 DEF HelloInv, PeekIInv, PeekTypeOK
    <2> QED
      BY <1>0, <2>1, PeekStays DEF HelloInv
  <1>4. AlpnLength = 9
    BY <1>1 DEF AlpnLength
  <1>5. out' \in Seq(Entries) /\ HelloStaysOne'
    <2>1. CASE result = "info"
      <3> DEFINE w == Written(WireLength(hello) + NewByteCount,
                              RecordLength(hello) + NewByteCount,
                              HelloEnd(hello) - 9 + NewByteCount,
                              IF Extensions = {} THEN AlpnLength
                                ELSE BlockLength(hello.exts) + NewByteCount,
                              IF Extensions = {} THEN Position + 2 ELSE Position,
                              AlpnLength)
      <3>1. out' = Append(out, w)
        BY <2>1 DEF WriteHello
      <3>2. NewByteCount = IF Extensions = {} THEN 11 ELSE 9
        BY <1>4 DEF NewByteCount
      <3>3. /\ w.total = WireLength(hello) + NewByteCount
            /\ w.record = WireLength(hello) - 5 + NewByteCount
            /\ w.handshake = HelloEnd(hello) - 9 + NewByteCount
            /\ w.block = IF Extensions = {} THEN 9 ELSE BlockLength(hello.exts) + NewByteCount
            /\ w.at = IF Extensions = {} THEN Position + 2 ELSE Position
            /\ w.added = 9
        BY <1>2, <1>4 DEF Written
      <3>4. w \in Entries
        <4>1. NewByteCount \in Int
          BY <3>2
        <4>2. /\ w.total \in Int /\ w.record \in Int /\ w.handshake \in Int /\ w.block \in Int
              /\ w.at \in Int /\ w.added \in Int
          <5> HIDE DEF w
          <5>1. w.total \in Int /\ w.record \in Int /\ w.handshake \in Int /\ w.added \in Int
            BY <1>2, <3>3, <4>1
          <5>2. w.at \in Int
            BY <1>1, <3>3
          <5>3. w.block \in Int
            BY <1>2, <3>3, <4>1
          <5> QED
            BY <5>1, <5>2, <5>3
        <4>3. w = [total |-> w.total, record |-> w.record, handshake |-> w.handshake,
                   block |-> w.block, at |-> w.at, added |-> w.added]
          BY DEF Written
        <4> HIDE DEF w
        <4> QED
          BY <4>2, <4>3 DEF Entries
      <3>5. EntryRight(w)
        <4>1. SUFFICES ASSUME ~MessageBehind
                       PROVE  /\ w.total = 5 + w.record
                              /\ w.total = 9 + w.handshake + hello.rest
                              /\ w.at + w.added = 9 + w.handshake
                              /\ ExtensionsStart(hello) + 2 + w.block = 9 + w.handshake
          BY DEF EntryRight
        <4>2. InfoRight /\ WholeHelloSeen /\ PlaceRight
          BY <4>1 DEF HelloInv, PeekIInv, HelloRight
        <4>3. hello.by = side /\ (Extensions # {} => Position = HelloEnd(hello))
          BY <2>1, <4>1, <4>2 DEF InfoRight
        <4>4. WholeHello /\ bufferSize >= HelloEnd(hello)
          BY <1>1, <1>2, <4>3 DEF WholeHello, NoCompressions
        <4>5. hello.block <=> Extensions # {}
          BY <1>0, <1>2, <4>2, <4>4 DEF WholeHelloSeen
        <4>6. CASE Extensions = {}
          <5>1. Position = ExtensionsStart(hello)
            BY <1>2, <2>1, <4>1, <4>2, <4>5, <4>6 DEF PlaceRight, HasExtensions, MessageBehind
          <5> HIDE DEF w
          <5> QED
            BY <1>2, <3>2, <3>3, <4>5, <4>6, <5>1
        <4>7. CASE Extensions # {}
          <5> HIDE DEF w
          <5> QED
            BY <1>2, <3>2, <3>3, <4>3, <4>5, <4>7
        <4> QED
          BY <4>6, <4>7
      <3> HIDE DEF w
      <3>6. HelloStaysOne
        BY DEF HelloInv
      <3> QED
        BY <1>0, <1>1, <3>1, <3>4, <3>5, <3>6, Appended
    <2>2. CASE result = "null"
      <3>1. out' = Append(out, AsIs)
        BY <2>2 DEF WriteHello
      <3>2. AsIs \in Entries /\ EntryRight(AsIs)
        BY DEF AsIs, Entries, EntryRight
      <3> QED
        BY <1>0, <1>1, <3>1, <3>2, Appended DEF HelloInv
    <2>3. CASE result # "info" /\ result # "null"
      <3>1. out' = out
        BY <2>3 DEF WriteHello
      <3> QED
        BY <1>0, <1>1, <3>1 DEF HelloInv, HelloStaysOne, MessageBehind
    <2> QED
      BY <2>1, <2>2, <2>3
  <1>6. WriteRight'
    BY <1>0, <1>1, <1>5 DEF WriteRight, Entries, HelloInv
  <1> QED
    BY <1>3, <1>5, <1>6 DEF HelloInv

LEMMA LaterWriteStep ==
  ASSUME HelloInv, LaterWrite PROVE HelloInv'
  <1>0. /\ UNCHANGED <<side, hello, bufferSize, have, peerEnded, filled, step, Position, Extensions, result,
                       adding, called, writing>>
        /\ called /\ ~writing /\ out' = Append(out, AsIs) /\ out \in Seq(Entries)
    BY DEF LaterWrite, pvars, HelloInv, WriteRight, Entries
  <1>1. PeekIInv'
    <2>1. peerEnded' \in BOOLEAN
      BY <1>0 DEF HelloInv, PeekIInv, PeekTypeOK
    <2> QED
      BY <1>0, <2>1, PeekStays DEF HelloInv
  <1>2. AsIs \in Entries /\ EntryRight(AsIs)
    BY DEF AsIs, Entries, EntryRight
  <1>3. out' \in Seq(Entries) /\ HelloStaysOne'
    BY <1>0, <1>2, Appended DEF HelloInv
  <1>4. WriteRight'
    BY <1>0, <1>3 DEF HelloInv, WriteRight, Entries
  <1> QED
    BY <1>1, <1>3, <1>4 DEF HelloInv

LEMMA PeekAloneStep ==
  ASSUME HelloInv, ~adding, HelloNext, UNCHANGED <<adding, adder>> PROVE HelloInv'
  <1>0. UNCHANGED <<adding, called, writing, writes, out>> /\ ~writing
    BY DEF adder, HelloInv, WriteRight
  <1>1. CASE PeekFills \/ IndexThrows \/ NotEnough \/ Parse
    <2>1. PeekIInv'
      BY <1>1, PeekStep DEF HelloInv
    <2>2. hello' = hello
      BY <1>1, PeekFrame
    <2>3. WriteRight'
      BY <1>0 DEF HelloInv, WriteRight
    <2>4. MessageBehind' = MessageBehind
      BY <2>2 DEF MessageBehind
    <2>5. HelloStaysOne
      BY DEF HelloInv
    <2>6. HelloStaysOne'
      BY <1>0, <2>2, <2>4, <2>5 DEF HelloStaysOne, ExtensionsStart, AsIs
    <2> QED
      BY <2>1, <2>3, <2>6 DEF HelloInv
  <1>2. CASE PeerEnds
    BY <1>0, <1>2, StaysRight DEF PeerEnds
  <1>3. CASE Done
    <2>1. peerEnded' \in BOOLEAN
      BY <1>3 DEF Done, pvars, HelloInv, PeekIInv, PeekTypeOK
    <2> QED
      BY <1>0, <1>3, <2>1, StaysRight DEF Done, pvars
  <1> QED
    BY <1>1, <1>2, <1>3 DEF HelloNext

LEMMA NextRight ==
  ASSUME HelloInv, [AlpnNext]_avars PROVE HelloInv'
  <1>1. CASE adding /\ (FirstWrite \/ Peek \/ WriteHello \/ LaterWrite)
    BY <1>1, FirstWriteStep, PeekWriteStep, WriteHelloStep, LaterWriteStep
  <1>2. CASE UNCHANGED avars
    <2>1. peerEnded' \in BOOLEAN
      BY <1>2 DEF avars, pvars, HelloInv, PeekIInv, PeekTypeOK
    <2> QED
      BY <1>2, <2>1, StaysRight DEF avars, pvars, adder
  <1>3. CASE ~adding /\ HelloNext /\ UNCHANGED <<adding, adder>>
    BY <1>3, PeekAloneStep
  <1> QED
    BY <1>1, <1>2, <1>3 DEF AlpnNext, AlpnDone

THEOREM InvariantHolds == AlpnSpec => []HelloInv
  <1>1. AlpnInit => HelloInv
    BY InitRight
  <1>2. HelloInv /\ [AlpnNext]_avars => HelloInv'
    BY NextRight
  <1> QED
    BY <1>1, <1>2, PTL DEF AlpnSpec

\* A peek at a hello whose lengths agree, of any lengths, in any reads and with a
\* buffer of any size: what is reported is a hello of the side asked for, null is
\* never for one that is all there, and, unless a message is behind a hello without
\* extensions, no byte is read before it is there and one that is all there is
\* reported with its extensions.  A hello that comes in pieces may be answered with
\* null (SslTools.PeekClientHello and PeekServerHello).
THEOREM PeekAlwaysRight == AlpnSpec => []HelloRight
  <1>1. HelloInv => HelloRight
    BY DEF HelloInv, PeekIInv
  <1> QED
    BY <1>1, InvariantHolds, PTL

\* A hello the ALPN adder writes is one again, its three lengths agreeing with its
\* bytes and the extension at its end; a hello without extensions has to end its
\* record for that (ServerHelloAlpnAdderStream.Write).
THEOREM HelloAlwaysOne == AlpnSpec => []HelloStaysOne
  <1>1. HelloInv => HelloStaysOne
    BY DEF HelloInv
  <1> QED
    BY <1>1, InvariantHolds, PTL
=============================================================================
