------------------------------ MODULE CopyStream ------------------------------
(***************************************************************************)
(* StreamExtended.Network.CopyStream: a reader over a CustomBufferedStream *)
(* that sends what is read through it to a writer.  Bytes taken one by one *)
(* collect in a buffer, which FillBufferAsync, ReadAsync and Flush empty;  *)
(* peeks go straight to the reader.  A behaviour is one of the reader       *)
(* itself, or one of the reader behind a copy stream.                      *)
(***************************************************************************)
EXTENDS BufferedStream

CONSTANT CopySize   \* BufferSize of the copy stream

ASSUME CopyStreamAssumption == CopySize \in Nat \ {0}

VARIABLES
  through,      \* constant: whether there is a copy stream
  copyBuffer,   \* bytes read and not yet written
  dest,         \* bytes the writer has taken
  ReadBytes,    \* the counter of that name
  fault         \* the exception that ended the copy: "none", "writer", "overflow"

copy == <<through, copyBuffer, dest, ReadBytes, fault>>
vars == <<bvars, copy>>

CopyInit ==
  /\ Init
  /\ through \in BOOLEAN
  /\ copyBuffer = <<>>
  /\ dest = <<>>
  /\ ReadBytes = 0
  /\ fault = "none"

-----------------------------------------------------------------------------
\* Flush, FlushAsync with `bytes` in the buffer: the writer takes them all and
\* the buffer is empty, or it throws and the buffer stays as it is.
Write(bytes) ==
  \/ /\ dest' = dest \o bytes
     /\ copyBuffer' = <<>>
     /\ fault' = fault
  \/ /\ bytes # <<>>
     /\ dest' = dest
     /\ copyBuffer' = bytes
     /\ fault' = "writer"

Flush ==
  /\ Ready
  /\ Write(copyBuffer)
  /\ UNCHANGED <<bvars, through, ReadBytes>>

\* Mutant of CopyRead: bytes taken one by one before it are not flushed first.
CopyReadUnordered ==
  LET new == SubSeq(used', Len(used) + 1, Len(used')) IN
    /\ ReadBytes' = ReadBytes + Len(new)
    /\ \/ new = <<>> /\ UNCHANGED <<copyBuffer, dest, fault>>
       \/ new # <<>> /\ Write(new \o copyBuffer)

\* What Read and ReadAsync do with a result of the reader: flush first if it
\* does not fit behind what is buffered, then copy, then flush.
CopyRead ==
  LET new == SubSeq(used', Len(used) + 1, Len(used')) IN
    \/ /\ new = <<>>
       /\ UNCHANGED copy
    \/ /\ new # <<>>
       /\ Len(copyBuffer) + Len(new) <= CopySize
       /\ ReadBytes' = ReadBytes + Len(new)
       /\ Write(copyBuffer \o new)
    \/ /\ new # <<>>
       /\ Len(copyBuffer) + Len(new) > CopySize
       /\ \/ /\ Len(new) <= CopySize
             /\ ReadBytes' = ReadBytes + Len(new)
             /\ \/ /\ dest' = dest \o copyBuffer \o new
                   /\ copyBuffer' = <<>>
                   /\ fault' = fault
                \/ /\ dest' = dest \o copyBuffer
                   /\ copyBuffer' = new
                   /\ fault' = "writer"
          \/ /\ Len(new) > CopySize
             /\ dest' = dest \o copyBuffer
             /\ copyBuffer' = <<>>
             /\ fault' = "overflow"
             /\ ReadBytes' = ReadBytes
          \/ /\ copyBuffer # <<>>
             /\ fault' = "writer"
             /\ UNCHANGED <<copyBuffer, dest, ReadBytes>>

CopyReadAsync(n) == Read(n) /\ CopyRead

\* The next byte goes to the caller and to the end of the buffer.
CopyReadByteFromBuffer ==
  /\ ReadByteFromBuffer
  /\ dest' = dest
  /\ \/ /\ Len(copyBuffer) < CopySize
        /\ copyBuffer' = copyBuffer \o SubSeq(used', Len(used) + 1, Len(used'))
        /\ ReadBytes' = ReadBytes + 1
        /\ fault' = fault
     \/ /\ Len(copyBuffer) = CopySize
        /\ fault' = "overflow"
        /\ UNCHANGED <<copyBuffer, ReadBytes>>

\* Flush, then let the reader fill; it does not if the writer throws.
CopyFillBufferAsync ==
  /\ Ready
  /\ Write(copyBuffer)
  /\ ReadBytes' = ReadBytes
  /\ IF fault' = "none" THEN FillBufferAsync ELSE UNCHANGED bvars

CopyPeekByteAsync(index) == PeekByteAsync(index) /\ UNCHANGED copy

\* ReadLineInternalAsync asks `bufferPool`, which the constructor never sets, for
\* a buffer.
CopyReadLineAsync ==
  /\ Ready
  /\ Settle(Op("line", Len(used), 0), "throws", <<>>)
  /\ UNCHANGED <<base, taken, window, closed, disposed, used, failures, lost,
                 copy>>

\* The reader's suspended operation completes.
CopyCompletion == Completion /\ CopyRead

CopyOperation ==
  \/ \E n \in Counts : CopyReadAsync(n)
  \/ \E i \in 0..Size : CopyPeekByteAsync(i)
  \/ CopyReadByteFromBuffer \/ CopyFillBufferAsync \/ CopyReadLineAsync \/ Flush

\* An exception of the writer or of the buffer ends the copy.
CopyNext ==
  \/ Arrive /\ UNCHANGED copy
  \/ ~through /\ (Operation \/ Completion) /\ UNCHANGED copy
  \/ /\ through /\ UNCHANGED through
     /\ \/ fault = "none" /\ (CopyOperation \/ CopyCompletion)
        \/ fault # "none" /\ UNCHANGED vars

Resumes == (\E k \in 1..Size : Resume(k)) \/ ResumeEnd

\* A pending read completes once there are bytes or the stream has ended.
CopyFairness ==
  /\ WF_vars(~through /\ Resumes /\ UNCHANGED copy)
  /\ WF_vars(through /\ fault = "none" /\ Resumes /\ CopyRead /\ UNCHANGED through)

CopySpec == CopyInit /\ [][CopyNext]_vars /\ CopyFairness

-----------------------------------------------------------------------------
(* Properties.                                                             *)

\* What the writer has taken followed by what is buffered is what was read through
\* the copy stream, in order and once, whatever mix of single bytes, reads, peeks
\* and flushes the caller uses; only a failed writer or an overrun ends that.
CopyFaithful ==
  /\ through /\ fault = "none" => dest \o copyBuffer = used /\ ReadBytes = Len(used)
  /\ dest = SubSeq(used, 1, Len(dest))

\* After the peer has ended the stream no operation stays suspended, but that of a
\* copy that was ended by its writer.
OperationsEnd == ended ~> (op = Idle \/ fault # "none")

=============================================================================
