----------------------------- MODULE HttpStream -----------------------------
(***************************************************************************)
(* MHttpStream of LeiKaiFeng.Http: a fixed buffer filled from a socket in  *)
(* pieces of any size, and the resumable parser functions MHttpResponse,   *)
(* MHttpRequest and MHttpContent hand to MHttpStream.ReadAsync.            *)
(*                                                                         *)
(* A message is a header block that ends in CR LF CR LF, then a body.  The *)
(* first line and the fields are abstracted to filler bytes and one byte   *)
(* that says how the body is framed.  The sender's bytes are `input`; how  *)
(* the network cuts them into reads is chosen by Receive.                  *)
(***************************************************************************)
EXTENDS Naturals, Sequences

CONSTANTS
  Size,           \* length of m_buffer
  MaxContentSize, \* maxContentSize of ReadAsync
  Messages,       \* per kind of reading, messages a peer may send, see Encode
  MaxMessages,    \* bound on the messages of one input
  MaxCalls        \* bound on the calls of ReadAsync

ASSUME HttpStreamAssumption ==
  /\ Size \in Nat \ {0}
  /\ MaxContentSize \in Nat

VARIABLES
  reading,       \* whose ReadAsync is called: "response" or "request"
  messages,      \* what the peer sends: messages, and their bytes
  input,
  received,      \* bytes of input taken from the socket
  consumed,      \* bytes of input the parser has used
  m_buffer, m_read_offset, m_used_offset,
  pc,            \* idle, use (isHaveResult), move, read
  func,          \* the parser function and its captured counters
  content,       \* captured byte array or MemoryStream, with its Position
  position,
  returned       \* outcomes of the calls of ReadAsync so far

source == <<reading, messages, input>>
buffer == <<m_buffer, m_read_offset, m_used_offset>>
parsing == <<func, content, position>>
httpVars == <<source, received, consumed, buffer, pc, parsing, returned>>

-----------------------------------------------------------------------------
(* Bytes.  Framing bytes stand for what the header fields say.             *)
CR == 13
LF == 10
Filler == 32
Digit(n) == 48 + n          \* a chunk length of one hexadecimal digit
Chunked == 200              \* Transfer-Encoding: chunked
NoLength == 201             \* neither a coding nor a length
OtherMethod == 202          \* a request other than GET and CONNECT
Length(n) == 210 + n        \* Content-Length: n, or a plain GET for n = 0
IsLength(b) == b >= Length(0)

OneMark == <<CR, LF>>
TowMark == <<CR, LF, CR, LF>>

\* The first i sequences of g, one behind the other.
Joined(g) ==
  LET joined[i \in 0..Len(g)] == IF i = 0 THEN <<>> ELSE joined[i - 1] \o g[i]
  IN joined

\* A message is [filler, framing, body]; body is the data of a message with a
\* length, or the chunks of a chunked one, a chunk being [size, data]: a size
\* outside 0..9 is one the parser cannot read.
EncodeChunk(k) == <<Digit(k.size)>> \o OneMark \o k.data \o OneMark
ChunkCodes(m) == Joined([i \in 1..Len(m.body) |-> EncodeChunk(m.body[i])])
Encode(m) ==
  [i \in 1..m.filler |-> Filler] \o <<m.framing>> \o TowMark \o
    (IF m.framing # Chunked THEN m.body ELSE ChunkCodes(m)[Len(m.body)])
MessageCodes(ms) == Joined([i \in 1..Len(ms) |-> Encode(ms[i])])
EncodeAll(ms) == MessageCodes(ms)[Len(ms)]

Readings == {"response", "request"}

IsMessage(m) ==
  /\ m.filler \in Nat
  /\ m.framing \in Nat /\ m.framing >= Chunked
  /\ m.framing # Chunked => m.body \in Seq(Nat)
  /\ m.framing = Chunked => m.body \in Seq([size : Nat, data : Seq(Nat)])

ASSUME MessagesAssumption ==
  \A r \in Readings : \A m \in Messages[r] : IsMessage(m)

\* A message's fields agree with its body, but for what the parser refuses: a
\* content has its length, a chunk that has a size has that many bytes, and the
\* last one none.  Where a message ends says only such a message.
Agrees(m) ==
  /\ IsLength(m.framing) => Len(m.body) = m.framing - Length(0)
  /\ m.framing = Chunked =>
       /\ m.body # <<>>
       /\ \A i \in 1..Len(m.body) :
            /\ m.body[i].size \in 0..9 => Len(m.body[i].data) = m.body[i].size
            /\ m.body[i].size = 0 <=> i = Len(m.body)

ASSUME AgreementAssumption ==
  \A r \in Readings : \A m \in Messages[r] : Agrees(m)

\* What a peer may send.
Inputs(r) == UNION {[1..n -> Messages[r]] : n \in 1..MaxMessages}

-----------------------------------------------------------------------------
CanReadSize == Size - m_read_offset
CanUsedSize == m_read_offset - m_used_offset

\* The ReadParameter: Count bytes of m_buffer from Offset on.
Window == [i \in 1..CanUsedSize |-> m_buffer[m_used_offset + i - 1]]
Taken(n) == SubSeq(Window, 1, n)

\* IsFindMark: Span.IndexOf, as the number of bytes before the first mark.
Marks(mark) ==
  {i \in 0..CanUsedSize - Len(mark) : SubSeq(Window, i + 1, i + Len(mark)) = mark}
IsFindMark(mark) == Marks(mark) # {}
\* The index of the first mark, as a set: empty (-1 in the code) when there is none.
MarkIndex(mark) == {i \in Marks(mark) : \A j \in Marks(mark) : i <= j}

\* ParseLine, ParseResponseStatus and the headers' lookups: the framing of a
\* header block of n bytes before its mark.  Bytes without a line end in front of
\* it run into its first line; a further line that is no field is an error (0).
Framing(n) ==
  IF n = 0 \/ \E i \in 1..n : Window[i] \in {CR, LF} THEN 0
  ELSE IF Window[n] >= Chunked THEN Window[n] ELSE 0

Func(s, left, size) == [state |-> s, left |-> left, size |-> size]

-----------------------------------------------------------------------------
HttpInit ==
  /\ reading \in Readings
  /\ messages \in Inputs(reading)
  /\ input = EncodeAll(messages)
  /\ received = 0
  /\ consumed = 0
  /\ m_buffer = [i \in 0..Size - 1 |-> 0]
  /\ m_read_offset = 0
  /\ m_used_offset = 0
  /\ pc = "idle"
  /\ func = Func("header", 0, 0)
  /\ content = <<>>
  /\ position = 0
  /\ returned = <<>>

\* MHttpResponse.ReadAsync or MHttpRequest.ReadAsync, on whatever the stream
\* holds, also after an earlier call has thrown.
ReadAsync ==
  /\ pc = "idle"
  /\ Len(returned) < MaxCalls
  /\ pc' = "use"
  /\ func' = Func("header", 0, 0)
  /\ content' = <<>>
  /\ position' = 0
  /\ UNCHANGED <<source, received, consumed, buffer, returned>>

\* Used_NotResult and Used_Result: the bytes are used.
Use(n) ==
  /\ m_used_offset' = m_used_offset + n
  /\ consumed' = consumed + n
  /\ UNCHANGED <<source, received, m_buffer, m_read_offset>>

End(kind, bytes) ==
  /\ returned' = Append(returned, [kind |-> kind, content |-> bytes])
  /\ pc' = "idle"

\* Mutant of Throw: the buffer is cleared on an error.
ThrowAndClear(kind) ==
  /\ End(kind, <<>>)
  /\ m_used_offset' = m_read_offset
  /\ consumed' = received
  /\ UNCHANGED <<source, received, m_buffer, m_read_offset, parsing>>

\* An exception of the function leaves ReadAsync with nothing used.
Throw(kind) ==
  /\ End(kind, <<>>)
  /\ UNCHANGED <<source, received, consumed, buffer, parsing>>

\* ReadHttpHeaders, and the function of the body its callback chooses; a
\* request's header is a result, a response's is not.
UseHeaders ==
  /\ pc = "use"
  /\ func.state = "header"
  /\ \E n \in MarkIndex(TowMark) : LET f == Framing(n)
                                       used == n + Len(TowMark) IN
     \/ /\ reading = "response"
        /\ \/ f = Chunked /\ func' = Func("chunklength", 0, 0)
           \/ /\ IsLength(f)
              /\ f - Length(0) <= MaxContentSize
              /\ func' = Func("bytes", f - Length(0), f - Length(0))
        /\ Use(used)
        /\ UNCHANGED <<pc, content, position, returned>>
     \/ /\ reading = "response"
        /\ ~(f = Chunked \/ (IsLength(f) /\ f - Length(0) <= MaxContentSize))
        /\ Throw("refused")
     \/ /\ reading = "request"
        /\ f = Length(0)
        /\ Use(used)
        /\ End("message", <<>>)
        /\ UNCHANGED parsing
     \/ /\ reading = "request"
        /\ f # Length(0)
        /\ Throw("refused")

\* ReadByteArrayAsync's function: takes what there is, up to the length.
UseByteArray ==
  /\ pc = "use"
  /\ CanUsedSize > 0
  /\ func.state = "bytes"
  /\ LET n == IF CanUsedSize > func.left THEN func.left ELSE CanUsedSize IN
     /\ Use(n)
     /\ content' = content \o Taken(n)
     /\ func' = [func EXCEPT !.left = @ - n]
     /\ IF func.left - n <= 0
          THEN End("message", content')
          ELSE UNCHANGED <<pc, returned>>
  /\ UNCHANGED position

\* readChunkedLength.
UseChunkLength ==
  /\ pc = "use"
  /\ func.state = "chunklength"
  /\ \E n \in MarkIndex(OneMark) :
     LET size == Window[1] - Digit(0)
         isSize == n = 1 /\ Window[1] \in Digit(0)..Digit(9) IN
     \/ /\ isSize
        /\ position + size <= MaxContentSize
        /\ func' = Func("chunk", size + Len(OneMark), size)
        /\ Use(n + Len(OneMark))
        /\ UNCHANGED <<pc, content, position, returned>>
     \/ /\ ~(isSize /\ position + size <= MaxContentSize)
        /\ Throw("broken")

\* MemoryStream.Write at Position p.
Overwrite(s, p, bytes) ==
  SubSeq(s, 1, p) \o bytes \o SubSeq(s, p + Len(bytes) + 1, Len(s))

\* Mutant of UseChunk: Position stays behind the end mark.
UseChunkKeepMark ==
  /\ pc = "use"
  /\ CanUsedSize > 0
  /\ func.state = "chunk"
  /\ LET n == IF CanUsedSize > func.left THEN func.left ELSE CanUsedSize
         left == func.left - n IN
     /\ Use(n)
     /\ content' = Overwrite(content, position, Taken(n))
     /\ position' = position + n
     /\ IF left > 0
          THEN func' = [func EXCEPT !.left = left] /\ UNCHANGED <<pc, returned>>
          ELSE IF func.size = 0
          THEN End("message", content') /\ UNCHANGED func
          ELSE func' = Func("chunklength", 0, 0) /\ UNCHANGED <<pc, returned>>

\* createReadChunkedFunc's function: the data and its end mark go into the
\* MemoryStream; Position goes back over the mark, and the next chunk overwrites
\* it.  After the last chunk nothing does, and Length still counts it.
UseChunk ==
  /\ pc = "use"
  /\ CanUsedSize > 0
  /\ func.state = "chunk"
  /\ LET n == IF CanUsedSize > func.left THEN func.left ELSE CanUsedSize
         left == func.left - n IN
     /\ Use(n)
     /\ content' = Overwrite(content, position, Taken(n))
     /\ IF left > 0
          THEN /\ func' = [func EXCEPT !.left = left]
               /\ position' = position + n
               /\ UNCHANGED <<pc, returned>>
          ELSE IF func.size = 0
          THEN /\ position' = 0
               /\ End("message", content')
               /\ UNCHANGED func
          ELSE /\ position' = position + n - Len(OneMark)
               /\ func' = Func("chunklength", 0, 0)
               /\ UNCHANGED <<pc, returned>>

\* Mutant of NotResult: the socket is read although there is more to use.
NotResultAlways ==
  /\ pc = "use"
  /\ pc' = "move"
  /\ UNCHANGED <<source, received, consumed, buffer, parsing, returned>>

\* isHaveResult returns false: nothing to use, or NotUsed_NotResult.
NotResult ==
  /\ pc = "use"
  /\ \/ CanUsedSize = 0
     \/ func.state = "header" /\ ~IsFindMark(TowMark)
     \/ func.state = "chunklength" /\ ~IsFindMark(OneMark)
  /\ pc' = "move"
  /\ UNCHANGED <<source, received, consumed, buffer, parsing, returned>>

\* Mutant of Move: a full buffer is no error.
MoveUnguarded ==
  /\ pc = "move"
  /\ m_buffer' = [i \in 0..Size - 1 |->
       IF i < CanUsedSize THEN m_buffer[m_used_offset + i] ELSE m_buffer[i]]
  /\ m_read_offset' = CanUsedSize
  /\ m_used_offset' = 0
  /\ pc' = "read"
  /\ UNCHANGED <<source, received, consumed, parsing, returned>>

\* Move: shift what is not used to the front; a full buffer cannot grow.
Move ==
  /\ pc = "move"
  /\ CanUsedSize # Size
  /\ m_buffer' = [i \in 0..Size - 1 |->
       IF i < CanUsedSize THEN m_buffer[m_used_offset + i] ELSE m_buffer[i]]
  /\ m_read_offset' = CanUsedSize
  /\ m_used_offset' = 0
  /\ pc' = "read"
  /\ UNCHANGED <<source, received, consumed, parsing, returned>>

MoveOverflow ==
  /\ pc = "move"
  /\ CanUsedSize = Size
  /\ Throw("overflow")

\* s_streamWarp.Read returns n bytes.
Receive(n) ==
  /\ pc = "read"
  /\ received + n <= Len(input)
  /\ m_buffer' = [i \in 0..Size - 1 |->
       IF m_read_offset <= i /\ i < m_read_offset + n
         THEN input[received + i - m_read_offset + 1] ELSE m_buffer[i]]
  /\ m_read_offset' = m_read_offset + n
  /\ received' = received + n
  /\ pc' = "use"
  /\ UNCHANGED <<source, consumed, m_used_offset, parsing, returned>>

\* The peer has closed: zero bytes, an IOException.
ReceiveEnd ==
  /\ pc = "read"
  /\ received = Len(input)
  /\ Throw("io")

HttpNext ==
  \/ ReadAsync
  \/ UseHeaders \/ UseByteArray \/ UseChunkLength \/ UseChunk \/ NotResult
  \/ Move \/ MoveOverflow
  \/ \E n \in 1..CanReadSize : Receive(n)
  \/ ReceiveEnd

HttpSpec == HttpInit /\ [][HttpNext]_httpVars

-----------------------------------------------------------------------------
(* Properties.                                                             *)

TypeOK ==
  /\ input \in Seq(Nat)
  /\ received \in 0..Len(input)
  /\ consumed \in 0..Len(input)
  /\ m_buffer \in [0..Size - 1 -> Nat]
  /\ m_read_offset \in 0..Size
  /\ m_used_offset \in 0..Size
  /\ pc \in {"idle", "use", "move", "read"}
  /\ func \in [state : {"header", "bytes", "chunklength", "chunk"},
               left : Nat, size : Nat]

\* The comment on the class (lines 101-104): the buffer is used bytes, then
\* received ones, then room.  The received ones are exactly the part of the
\* sender's bytes between `consumed` and `received`, in order, through every
\* shift and every cut of the input.
WindowOK ==
  /\ m_used_offset <= m_read_offset
  /\ m_read_offset <= Size
  /\ received = consumed + CanUsedSize
  /\ \A i \in 0..CanUsedSize - 1 :
       m_buffer[m_used_offset + i] = input[consumed + i + 1]

\* A socket read is asked for room of at least one byte: Memory of length zero
\* would return 0 at once and be taken for the end of the stream.
RoomToRead == pc = "read" => CanReadSize > 0

\* What the messages say on their own, whatever the cuts: where message k ends,
\* what ReadAsync has to make of a message, and the content it delivers (that of
\* a chunked message with the end mark of its last chunk, see UseChunk).
MessageEnd(k) == Len(MessageCodes(messages)[k])

ChunkData(m) == Joined([i \in 1..Len(m.body) |-> m.body[i].data])

BadChunk(m) ==
  \E i \in 1..Len(m.body) :
    m.body[i].size \notin 0..9 \/ Len(ChunkData(m)[i]) > MaxContentSize

Outcome(m) ==
  IF m.filler + 1 + Len(TowMark) > Size THEN "overflow"
  ELSE IF reading = "request"
    THEN IF m.framing = Length(0) THEN "message" ELSE "refused"
  ELSE IF m.framing = Chunked
    THEN IF BadChunk(m) THEN "broken" ELSE "message"
  ELSE IF IsLength(m.framing) /\ m.framing - Length(0) <= MaxContentSize
    THEN "message" ELSE "refused"

Content(m) == IF m.framing = Chunked THEN ChunkData(m)[Len(m.body)] \o OneMark ELSE m.body

Waiting(m) == reading = "response" /\ m.framing = Length(0)

AllMessages(n) == \A i \in 1..n : returned[i].kind = "message"

\* Neither the cuts nor what else is in the buffer decide what a call returns:
\* the k-th call on a stream returns the content of the k-th message and leaves
\* the stream at its end, up to the first message that has to be refused, and
\* that one is refused for its own reason.  Only a content of length zero may be
\* answered by the end of the stream instead (see NoReadPastMessage).
CallsFollowMessages ==
  \A k \in 1..Len(returned) : AllMessages(k - 1) =>
    IF k > Len(messages) THEN returned[k].kind = "io"
    ELSE \/ /\ returned[k].kind = Outcome(messages[k])
            /\ returned[k].kind = "message" =>
                 /\ returned[k].content = Content(messages[k])
                 /\ pc = "idle" /\ k = Len(returned) => consumed = MessageEnd(k)
         \/ /\ returned[k].kind = "io"
            /\ Waiting(messages[k])
            /\ k = Len(messages)

\* A header refused before it was used, or too long for the buffer, stays at the
\* head of the stream: every later call on the stream ends the same way.
RefusalStays ==
  \A i \in 1..Len(returned) : \A j \in i..Len(returned) :
    returned[i].kind \in {"refused", "overflow"} =>
      returned[j].kind = returned[i].kind

\* A call does not go back to the socket once it has all of its message; except
\* for a content of length zero.
ReadsPastMessage(k) ==
  pc = "read" /\ AllMessages(k - 1) /\ received >= MessageEnd(k)

NoReadPastMessage ==
  LET k == Len(returned) + 1 IN
  k <= Len(messages) /\ ~Waiting(messages[k]) => ~ReadsPastMessage(k)

=============================================================================
