---------------------------- MODULE BufferedStream ----------------------------
(***************************************************************************)
(* StreamExtended.Network.CustomBufferedStream: a read buffer over a base  *)
(* stream, with reads, peeks and lines.  One operation runs at a time, as  *)
(* for every Stream; an operation that needs bytes suspends in the base    *)
(* stream's read, and bytes, the end, an error or a cancellation resume it.*)
(* Byte i of the base stream is the number i; what it says, Text[i].       *)
(***************************************************************************)
EXTENDS Naturals, Sequences, FiniteSets

CONSTANTS
  Size,        \* BufferSize, the length of streamBuffer
  Text,        \* what the peer sends: "x" (any text), "CR" or "LF" per byte
  Counts,      \* the counts a caller may ask of Read
  MaxFailures  \* bound on cancelled or failed base reads

ASSUME BufferedStreamAssumption ==
  /\ Size \in Nat \ {0}
  /\ Text \in Seq({"x", "CR", "LF"})
  /\ Counts \subseteq Nat \ {0}
  /\ MaxFailures \in Nat

VARIABLES
  sent, ended,   \* bytes at the base stream, and whether it ends there
  taken,         \* bytes read from the base stream
  streamBuffer, bufferPos, bufferLength, closed, disposed,
  op,            \* the operation in progress
  answer,        \* what the last operation returned
  used,          \* the bytes operations took out of the window so far, in order
  failures,
  lost           \* those of them that went with the array of a failed line

base == <<sent, ended>>
window == <<streamBuffer, bufferPos, bufferLength>>
bvars == <<base, taken, window, closed, disposed, op, answer, used, failures,
           lost>>

Total == Len(Text)
Junk == 0

\* Operations.  n is the count of a read, the index of a peek, or the first
\* byte of a line; m the size of PeekBytesAsync.
Op(name, n, m) == [name |-> name, n |-> n, m |-> m]
Idle == Op("none", 0, 0)

\* Answers: bytes is what was returned, of which operation.
Answer(o, kind, bytes) == [op |-> o, kind |-> kind, bytes |-> bytes]
NoAnswer == Answer(Idle, "none", <<>>)

\* The n bytes of a buffer from place p on.
Slice(buf, p, n) == [i \in 1..n |-> buf[p + i - 1]]

-----------------------------------------------------------------------------
Init ==
  /\ sent = 0
  /\ ended = FALSE
  /\ taken = 0
  /\ streamBuffer = [i \in 0..Size - 1 |-> Junk]
  /\ bufferPos = 0
  /\ bufferLength = 0
  /\ closed = FALSE
  /\ disposed = FALSE
  /\ op = Idle
  /\ answer = NoAnswer
  /\ used = <<>>
  /\ failures = 0
  /\ lost = {}

\* Bytes reach this side; the peer ends the stream.
Arrive ==
  /\ ~ended
  /\ \/ /\ sent < Total
        /\ sent' = sent + 1
        /\ ended' = ended
     \/ /\ ended' = TRUE
        /\ sent' = sent
  /\ UNCHANGED <<taken, window, closed, disposed, op, answer, used, failures, lost>>

-----------------------------------------------------------------------------
(* What an operation does to the window (buf, pos, len) when it goes on.   *)

Keep(buf, pos, len) ==
  /\ streamBuffer' = buf
  /\ bufferPos' = pos
  /\ bufferLength' = len
  /\ used' = used

\* Mutant of Deliver: bufferPos stays.
DeliverInPlace(buf, pos, len, n) ==
  /\ streamBuffer' = buf
  /\ bufferPos' = pos
  /\ bufferLength' = len - n
  /\ used' = used \o Slice(buf, pos, n)

\* n bytes go to the caller.
Deliver(buf, pos, len, n) ==
  /\ streamBuffer' = buf
  /\ bufferPos' = pos + n
  /\ bufferLength' = len - n
  /\ used' = used \o Slice(buf, pos, n)

Settle(o, kind, bytes) ==
  /\ op' = Idle
  /\ answer' = Answer(o, kind, bytes)

Await(o) ==
  /\ op' = o
  /\ answer' = NoAnswer

\* Read and ReadAsync (and ReadByte, a read of one byte): at most n bytes.
EndRead(o, buf, pos, len) ==
  LET n == IF len < o.n THEN len ELSE o.n IN
    /\ Deliver(buf, pos, len, n)
    /\ Settle(o, "bytes", Slice(buf, pos, n))

\* PeekByteAsync, after filling at most once.
EndPeekByte(o, buf, pos, len) ==
  /\ Keep(buf, pos, len)
  /\ \/ /\ Size <= o.n
        /\ Settle(o, "throws", <<>>)
     \/ /\ len <= o.n /\ o.n < Size
        /\ Settle(o, "none", <<>>)
     \/ /\ o.n < len
        /\ Settle(o, "bytes", <<buf[pos + o.n]>>)

\* PeekBytesAsync, after filling at most once: Array.Copy from place `index`.
EndPeekBytes(o, buf, pos, len) ==
  /\ Keep(buf, pos, len)
  /\ \/ /\ Size <= o.n + o.m
        /\ Settle(o, "throws", <<>>)
     \/ /\ len <= o.n + o.m /\ o.n + o.m < Size
        /\ Settle(o, "none", <<>>)
     \/ /\ o.n + o.m < len
        /\ Settle(o, "bytes", Slice(buf, o.n, o.m))

\* FillBuffer's result is not used.
EndFill(o, buf, pos, len) == Keep(buf, pos, len) /\ Settle(o, "done", <<>>)

End(o, buf, pos, len) ==
  \/ o.name = "read" /\ EndRead(o, buf, pos, len)
  \/ o.name = "peek" /\ EndPeekByte(o, buf, pos, len)
  \/ o.name = "peekbytes" /\ EndPeekBytes(o, buf, pos, len)
  \/ o.name = "fill" /\ EndFill(o, buf, pos, len)

Char(b) == IF b = Junk THEN "x" ELSE Text[b]

\* Mutant of LineEnds: the last line end of the window is taken.
LastLineEnd(buf, pos, len) ==
  {i \in 1..len : /\ Char(buf[pos + i - 1]) = "LF"
                   /\ \A j \in i + 1..len : Char(buf[pos + j - 1]) # "LF"}

\* Lengths, counted from the window's start, of the lines that end in it.
LineEnds(buf, pos, len) == {i \in 1..len : Char(buf[pos + i - 1]) = "LF"}

\* The text of a line without its LF, or CR and LF.
LineOf(line) ==
  LET n == Len(line) IN
    IF n > 1 /\ Text[line[n - 1]] = "CR" THEN SubSeq(line, 1, n - 2)
                                         ELSE SubSeq(line, 1, n - 1)

\* ReadLineInternalAsync moves bytes up to a line feed into an array of its own,
\* filling when the window has none left; without more bytes to come it returns
\* what the array has, or null.
GoOnLine(o, buf, pos, len, more) ==
  LET ends == LineEnds(buf, pos, len) IN
    \/ \E n \in ends :
         /\ \A i \in ends : n <= i
         /\ Deliver(buf, pos, len, n)
         /\ Settle(o, "bytes", LineOf(SubSeq(used', o.n + 1, Len(used'))))
    \/ /\ ends = {}
       /\ streamBuffer' = buf
       /\ bufferPos' = IF more THEN 0 ELSE pos + len
       /\ bufferLength' = 0
       /\ used' = used \o Slice(buf, pos, len)
       /\ \/ more /\ Await(o)
          \/ /\ ~more
             /\ Settle(o, IF Len(used') = o.n THEN "none" ELSE "bytes",
                       SubSeq(used', o.n + 1, Len(used')))

\* CopyToAsync hands over the window, then reads on until a read returns zero.
GoOnCopy(o, buf, pos, len, more) ==
  /\ streamBuffer' = buf
  /\ bufferPos' = IF more THEN 0 ELSE pos + len
  /\ bufferLength' = 0
  /\ used' = used \o Slice(buf, pos, len)
  /\ \/ more /\ Await(o)
     \/ ~more /\ Settle(o, "done", <<>>)

GoOn(o, buf, pos, len, more) ==
  \/ o.name \notin {"line", "copyto"} /\ End(o, buf, pos, len)
  \/ o.name = "line" /\ GoOnLine(o, buf, pos, len, more)
  \/ o.name = "copyto" /\ GoOnCopy(o, buf, pos, len, more)

-----------------------------------------------------------------------------
(* Starting an operation.                                                  *)

Ready == op = Idle /\ ~disposed

\* FillBuffer, FillBufferAsync: what is left moves to the front, and the base
\* stream is asked for bytes behind it; not once closed, and not when full.
FillBuffer(o) ==
  /\ ~closed
  /\ bufferLength < Size
  /\ streamBuffer' = [i \in 0..Size - 1 |-> IF i < bufferLength
                         THEN streamBuffer[bufferPos + i] ELSE streamBuffer[i]]
  /\ bufferPos' = 0
  /\ Await(o)
  /\ UNCHANGED <<bufferLength, used>>

\* An operation that fills at most once, if it `needs` bytes.
Begin(o, needs) ==
  /\ Ready
  /\ \/ needs /\ FillBuffer(o)
     \/ /\ ~needs \/ closed \/ bufferLength = Size
        /\ End(o, streamBuffer, bufferPos, bufferLength)
  /\ UNCHANGED <<base, taken, closed, disposed, failures, lost>>

Read(n) == Begin(Op("read", n, 0), bufferLength = 0)
PeekByteAsync(index) == Begin(Op("peek", index, 0), bufferLength <= index)
PeekBytesAsync(index, size) ==
  Begin(Op("peekbytes", index, size), bufferLength <= index)
FillBufferAsync == Begin(Op("fill", 0, 0), TRUE)

ReadLineAsync ==
  /\ Ready
  /\ GoOnLine(Op("line", Len(used), 0), streamBuffer, bufferPos, bufferLength,
              ~closed)
  /\ UNCHANGED <<base, taken, closed, disposed, failures, lost>>

CopyToAsync ==
  /\ Ready
  /\ GoOnCopy(Op("copyto", 0, 0), streamBuffer, bufferPos, bufferLength, ~closed)
  /\ UNCHANGED <<base, taken, closed, disposed, failures, lost>>

\* ReadByteFromBuffer.
ReadByteFromBuffer ==
  /\ Ready
  /\ bufferLength > 0
  /\ EndRead(Op("read", 1, 0), streamBuffer, bufferPos, bufferLength)
  /\ UNCHANGED <<base, taken, closed, disposed, failures, lost>>

\* The synchronous FillBuffer on a full buffer: a read of no bytes returns zero,
\* which it takes for the end.
FillBufferFull ==
  /\ Ready
  /\ ~closed
  /\ bufferLength = Size
  /\ closed' = TRUE
  /\ EndFill(Op("fill", 0, 0), streamBuffer, bufferPos, bufferLength)
  /\ UNCHANGED <<base, taken, disposed, failures, lost>>

Dispose ==
  /\ Ready
  /\ disposed' = TRUE
  /\ closed' = TRUE
  /\ answer' = NoAnswer
  /\ UNCHANGED <<base, taken, window, op, used, failures, lost>>

\* A read of the disposed stream returns zero if nothing was buffered, and
\* throws otherwise, its buffer being null.
ReadDisposed ==
  /\ disposed
  /\ answer' = Answer(Op("read", 1, 0),
                      IF bufferLength = 0 THEN "bytes" ELSE "throws", <<>>)
  /\ UNCHANGED <<base, taken, window, closed, disposed, op, used, failures, lost>>

-----------------------------------------------------------------------------
(* The base stream's read completes.                                       *)

\* With k bytes, which go behind the window.
Resume(k) ==
  /\ op # Idle
  /\ k <= sent - taken
  /\ k <= Size - bufferLength
  /\ taken' = taken + k
  /\ LET buf == [i \in 0..Size - 1 |->
                   IF i \in bufferLength..bufferLength + k - 1
                     THEN taken + 1 + i - bufferLength ELSE streamBuffer[i]]
     IN GoOn(op, buf, bufferPos, bufferLength + k, TRUE)
  /\ UNCHANGED <<base, closed, disposed, failures, lost>>

\* Mutant of ResumeEnd: a loop that fills again goes on.
ResumeEndIgnored ==
  /\ op # Idle
  /\ ended
  /\ taken = sent
  /\ closed' = TRUE
  /\ GoOn(op, streamBuffer, bufferPos, bufferLength, TRUE)
  /\ UNCHANGED <<base, taken, disposed, failures, lost>>

\* With none: the end of the stream.
ResumeEnd ==
  /\ op # Idle
  /\ ended
  /\ taken = sent
  /\ closed' = TRUE
  /\ GoOn(op, streamBuffer, bufferPos, bufferLength, FALSE)
  /\ UNCHANGED <<base, taken, disposed, failures, lost>>

\* Mutant of ResumeFail: a failed read closes the stream.
ResumeFailClose ==
  /\ op # Idle
  /\ failures < MaxFailures
  /\ failures' = failures + 1
  /\ closed' = TRUE
  /\ Settle(op, "throws", <<>>)
  /\ lost' = lost
  /\ UNCHANGED <<base, taken, window, disposed, used>>

\* The bytes in the array of a line in progress.
InArray == IF op.name = "line" THEN op.n + 1..Len(used) ELSE {}

\* With an exception: the token is cancelled, or the connection fails.  What a
\* line has in its array goes with it.
ResumeFail ==
  /\ op # Idle
  /\ failures < MaxFailures
  /\ failures' = failures + 1
  /\ Settle(op, "throws", <<>>)
  /\ lost' = lost \cup InArray
  /\ UNCHANGED <<base, taken, window, closed, disposed, used>>

-----------------------------------------------------------------------------
Operation ==
  \/ \E n \in Counts : Read(n)
  \/ \E i \in 0..Size : PeekByteAsync(i)
  \/ \E i \in 0..1, m \in 1..Size : PeekBytesAsync(i, m)
  \/ FillBufferAsync \/ ReadLineAsync \/ CopyToAsync \/ ReadByteFromBuffer
  \/ FillBufferFull \/ Dispose \/ ReadDisposed

Completion == (\E k \in 1..Size : Resume(k)) \/ ResumeEnd \/ ResumeFail

Next == Arrive \/ Operation \/ Completion

Spec == Init /\ [][Next]_bvars

-----------------------------------------------------------------------------
(* Properties.                                                             *)

\* A line whose read failed keeps none of its bytes: they were all taken before it,
\* up to no line end, and no line that is returned, or goes on, is of them.
LostRight ==
  \A i \in lost :
    /\ i \in 1..Len(used) /\ Text[i] # "LF"
    /\ op.name = "line" => i <= op.n
    /\ answer.op.name = "line" /\ answer.kind # "throws" => i <= answer.op.n

\* No operation, in any order and with any split of the stream into reads, repeats
\* or reorders a byte: what operations took, followed by the window, is what was
\* read.  Of that a cancelled or failing read loses the unfinished line that waits
\* for it, whose bytes ReadLineInternalAsync has moved to an array of its own (line
\* 547), and nothing else: another operation gives up before it takes anything.
InOrder ==
  /\ \A i \in 1..Len(used) : used[i] = i
  /\ Len(used) + bufferLength = taken
  /\ \A i \in 1..bufferLength :
       streamBuffer[bufferPos + i - 1] = Len(used) + i
  /\ LostRight

\* A peeked byte is the one a read would return at that distance; none is
\* reported missing while it is in the buffer.
PeekRight ==
  answer.op.name = "peek" =>
    /\ answer.kind = "bytes" => answer.bytes = <<Len(used) + answer.op.n + 1>>
    /\ answer.kind = "none" => taken <= Len(used) + answer.op.n

\* ReadLineAsync returns the bytes not taken yet up to the next line feed without it
\* (and a carriage return before it), or the rest of the stream, or null at its end,
\* however the line was cut into reads.
LineRight ==
  LET first == answer.op.n + 1 IN
    answer.op.name = "line" /\ answer.kind # "throws" =>
      /\ \A i \in first..Len(used) - 1 : Text[i] # "LF"
      /\ answer.kind = "none" => Len(used) < first
      /\ \/ closed /\ Len(used) = taken
         \/ used # <<>> /\ Text[Len(used)] = "LF"
      /\ answer.bytes = [i \in 1..Len(answer.bytes) |-> first + i - 1]
      /\ {Text[i] : i \in first + Len(answer.bytes)..Len(used)} \subseteq {"CR", "LF"}

\* Peeks and lines are answered right.
AnswersRight == PeekRight /\ LineRight

\* The documentation of Read: zero means that the end of the stream has been
\* reached.
ZeroMeansEnd ==
  answer.op.name = "read" /\ answer.kind = "bytes" /\ answer.bytes = <<>> =>
    disposed \/ (ended /\ Len(used) = sent)

\* Reads that fail, are cancelled or find the buffer full, and operations that give
\* up, leave the stream open: only its end or its disposal closes it, and, apart from
\* them, the FillBuffer of a full buffer.
ClosesAtEnd ==
  [][~closed /\ closed' => disposed' \/ (ended /\ taken = sent) \/ FillBufferFull]_bvars

=============================================================================
