-------------------------- MODULE StreamPackProofs --------------------------
(***************************************************************************)
(* For any number of calls, connections, permits and faults, and channels  *)
(* of any capacity: types, the accounting of the pool's permits, that      *)
(* pipelining keeps responses and requests together, and that the pool     *)
(* loses and doubles no call, and so implements the service its callers    *)
(* see.                                                                    *)
(***************************************************************************)
EXTENDS StreamPack, SequenceTheorems, FiniteSetTheorems, TLAPS

\* Facts on the sequences of the model, stated once.
LEMMA SurvivorsType ==
  ASSUME NEW S, NEW s \in Seq(S), NEW t \in Survivors(s)
  PROVE  t \in Seq(S)
<1>1. PICK n \in 0..Len(s) : t = SubSeq(s, 1, n)
  BY DEF Survivors
<1>2. Len(s) \in Nat /\ \A i \in 1..Len(s) : s[i] \in S
  BY LenProperties, ElementOfSeq
<1>3. 1 \in Int /\ n \in Int /\ \A i \in 1..n : s[i] \in S
  BY <1>2
<1> QED
  BY <1>1, <1>3, SubSeqProperties

LEMMA ReplyTypes ==
  /\ NoReply \in Replies
  /\ \A of \in Requests \cup {None} : Response(of) \in Replies
  /\ \A k \in Errors : Failure(k) \in Replies
BY DEF Replies

LEMMA SendType ==
  ASSUME reply \in [Requests -> Replies], NEW r, NEW v \in Replies, Send(r, v)
  PROVE  reply' \in [Requests -> Replies]
BY DEF Send

LEMMA FrameType ==
  ASSUME NEW of \in Requests \cup {None}, NEW k \in Kinds
  PROVE  Frame(of, k) \in Frames
BY DEF Frame, Frames

LEMMA QueueHeadTail ==
  ASSUME NEW S, NEW s \in Seq(S), s # <<>>
  PROVE  Head(s) \in S /\ Tail(s) \in Seq(S)
BY HeadTailProperties

\* Whatever the reader makes of its pack, no type is broken.
LEMMA ReaderSendType ==
  ASSUME TypeOK, NEW c \in Conns, NEW v \in Replies,
         ReaderSend(c, v), inbox' \in [Conns -> Seq(Frames)]
  PROVE  TypeOK'
<1>1. reply' \in [Requests -> Replies]
  BY SendType DEF TypeOK, ReaderSend
<1> QED
  BY <1>1 DEF TypeOK, ReaderSend, dispatcher, writer

\* A failed read is one of the two errors that ReadResponseAsync tells apart.
LEMMA ReadErrorsType == ASSUME NEW c PROVE ReadErrors(c) \subseteq {"cancel", "io"} \cap Errors
BY DEF ReadErrors, Errors

LEMMA InitType == Init => TypeOK
BY StreamPackAssumption, ReplyTypes, EmptySeq DEF Init, TypeOK

LEMMA CallerType == ASSUME TypeOK, NEW r \in Requests, Caller(r) PROVE TypeOK'
<1>1. CASE Offer(r)
  <2>1. queue' \in Seq(Requests)
    BY <1>1, AppendProperties DEF Offer, TypeOK
  <2> QED
    BY <1>1, <2>1 DEF Offer, TypeOK, dispatcher, stream, writer, reader
<1>2. CASE Retry(r)
  BY <1>2, ReplyTypes DEF Retry, TypeOK, dispatcher, stream, writer, reader
<1>3. CASE Return(r)
  BY <1>3 DEF Return, TypeOK, dispatcher, stream, writer, reader
<1>4. CASE Cancel(r)
  BY <1>4 DEF Cancel, TypeOK, dispatcher, stream, writer, reader
<1> QED
  BY <1>1, <1>2, <1>3, <1>4 DEF Caller

LEMMA DispatcherType == ASSUME TypeOK, Dispatcher PROVE TypeOK'
<1>1. CASE AddTaskWait
  BY <1>1 DEF AddTaskWait, TypeOK, callers, stream, writer, reader
<1>2. ASSUME NEW c \in Conns, AddTaskSpawn(c) PROVE TypeOK'
  BY <1>2 DEF AddTaskSpawn, TypeOK, callers, stream, writer, reader
<1> QED
  BY <1>1, <1>2 DEF Dispatcher

LEMMA ConnectionType ==
  ASSUME TypeOK, Hands, NEW c \in Conns, Connection(c) PROVE TypeOK'
<1>1. CASE ConnectOk(c)
  BY <1>1 DEF ConnectOk, TypeOK, callers, dispatcher
<1>2. CASE ConnectFail(c)
  BY <1>2 DEF ConnectFail, TypeOK, callers, dispatcher, stream, writer, reader
<1>3. CASE FailOne(c)
  <2>1. queue' \in Seq(Requests)
    BY <1>3, QueueHeadTail DEF FailOne, TypeOK
  <2>2. Failure(cerr[c]) \in Replies
    BY <1>3, ReplyTypes DEF TypeOK, Hands, FailOne, Errors
  <2>3. reply' \in [Requests -> Replies]
    BY <1>3, <2>2, SendType DEF FailOne, TypeOK
  <2> QED
    BY <1>3, <2>1, <2>3 DEF FailOne, TypeOK, dispatcher, stream, writer, reader
<1>4. CASE CloseStream(c)
  BY <1>4, EmptySeq DEF CloseStream, TypeOK, callers
<1> QED
  BY <1>1, <1>2, <1>3, <1>4 DEF Connection

LEMMA WriterType ==
  ASSUME TypeOK, Hands, NEW c \in Conns, Writer(c) PROVE TypeOK'
<1>1. CASE WriterTake(c)
  <2>1. queue' \in Seq(Requests) /\ Head(queue) \in Requests
    BY <1>1, QueueHeadTail DEF WriterTake, TypeOK
  <2> QED
    BY <1>1, <2>1 DEF WriterTake, TypeOK, callers, dispatcher, stream, reader
<1>2. CASE WriterIdle(c)
  BY <1>2 DEF WriterIdle, TypeOK, callers, dispatcher, stream, reader
<1>3. CASE Write(c)
  <2>1. whand[c] \in Requests
    BY <1>3 DEF Write, TypeOK, Hands
  <2> QED
    BY <1>3, <2>1, AppendProperties DEF Write, TypeOK, callers, dispatcher, reader
<1>4. CASE WriteFail(c)
  <2>1. reply' \in [Requests -> Replies]
    BY <1>4, SendType, ReplyTypes DEF WriteFail, TypeOK, Errors
  <2> QED
    BY <1>4, <2>1 DEF WriteFail, TypeOK, dispatcher, stream, reader
<1>5. CASE WriterPush(c)
  <2>1. whand[c] \in Requests
    BY <1>5 DEF WriterPush, TypeOK, Hands
  <2> QED
    BY <1>5, <2>1, AppendProperties
    DEF WriterPush, TypeOK, callers, dispatcher, stream, reader
<1> QED
  BY <1>1, <1>2, <1>3, <1>4, <1>5 DEF Writer

LEMMA ReaderType ==
  ASSUME TypeOK, NEW c \in Conns, Reader(c) \/ Cencel(c) PROVE TypeOK'
<1> USE DEF TypeOK
<1>1. CASE ReaderTake(c)
  <2>1. Head(pending[c]) \in Requests /\ Tail(pending[c]) \in Seq(Requests)
    BY <1>1, QueueHeadTail DEF ReaderTake
  <2>2. \A s \in Survivors(inbox[c]) : s \in Seq(Frames)
    BY SurvivorsType
  <2>3. inbox' \in [Conns -> Seq(Frames)]
    <3>1. CASE inbox' = inbox
      BY <3>1
    <3>2. CASE \E s \in Survivors(inbox[c]) : inbox' = [inbox EXCEPT ![c] = s]
      BY <2>2, <3>2
    <3> QED
      BY <1>1, <3>1, <3>2 DEF ReaderTake
  <2>4. sock' \in [Conns -> {"none", "open", "cut", "aborted", "broken"}]
    BY <1>1 DEF ReaderTake, stream
  <2> QED
    BY <1>1, <2>1, <2>3, <2>4 DEF ReaderTake, callers, dispatcher, writer
<1>2. CASE Cencel(c)
  <2>1. inbox' \in [Conns -> Seq(Frames)]
    BY <1>2, SurvivorsType DEF Cencel
  <2> QED
    BY <1>2, <2>1 DEF Cencel, callers, dispatcher, writer, reader
<1>3. CASE ReadResponse(c)
  <2>1. inbox[c] # <<>>
    BY <1>3 DEF ReadResponse, Readable
  <2>2. Head(inbox[c]) \in Frames /\ Tail(inbox[c]) \in Seq(Frames)
    BY <2>1, QueueHeadTail
  <2>3. Response(Head(inbox[c]).of) \in Replies
    BY <2>2, ReplyTypes DEF Frames
  <2>4. inbox' \in [Conns -> Seq(Frames)]
    BY <1>3, <2>2 DEF ReadResponse
  <2> QED
    BY <1>3, <2>3, <2>4, ReaderSendType DEF ReadResponse
<1>4. CASE ReadRefused(c)
  <2>1. inbox[c] # <<>>
    BY <1>4 DEF ReadRefused, Readable
  <2>2. Head(inbox[c]) \in Frames /\ Tail(inbox[c]) \in Seq(Frames)
    BY <2>1, QueueHeadTail
  <2>3. Frame(Head(inbox[c]).of, "stuck") \in Frames
    BY <2>2, FrameType DEF Frames, Kinds
  <2>4. ASSUME NEW rest \in {<<>>, <<Frame(Head(inbox[c]).of, "stuck")>>}
        PROVE  rest \o Tail(inbox[c]) \in Seq(Frames)
    <3>1. CASE rest = <<>>
      BY <2>2, <3>1, ConcatEmptySeq
    <3>2. CASE rest = <<Frame(Head(inbox[c]).of, "stuck")>>
      <4>1. rest \in Seq(Frames)
        BY <2>3, <3>2
      <4> QED
        BY <2>2, <4>1, ConcatProperties
    <3> QED
      BY <3>1, <3>2
  <2>5. inbox' \in [Conns -> Seq(Frames)]
    BY <1>4, <2>4 DEF ReadRefused
  <2>6. Failure("proto") \in Replies
    BY ReplyTypes DEF Errors
  <2> QED
    BY <1>4, <2>5, <2>6, ReaderSendType DEF ReadRefused
<1>5. CASE ReadFail(c)
  <2>1. inbox' \in [Conns -> Seq(Frames)]
    BY <1>5, EmptySeq DEF ReadFail
  <2>2. PICK e \in ReadErrors(c) : ReaderSend(c, Failure(e))
    BY <1>5 DEF ReadFail
  <2>3. Failure(e) \in Replies
    BY ReplyTypes, ReadErrorsType
  <2> QED
    BY <2>1, <2>2, <2>3, ReaderSendType
<1>6. CASE ReaderExit(c)
  BY <1>6 DEF ReaderExit, callers, dispatcher, stream, writer
<1> QED
  BY <1>1, <1>2, <1>3, <1>4, <1>5, <1>6 DEF Reader

LEMMA ServerType ==
  ASSUME TypeOK, NEW c \in Conns, Server(c) PROVE TypeOK'
<1> USE DEF TypeOK
<1>1. CASE Answer(c)
  <2>1. Head(wire[c]) \in Requests /\ Tail(wire[c]) \in Seq(Requests)
    BY <1>1, QueueHeadTail DEF Answer
  <2>2. \A k \in Kinds : Append(inbox[c], Frame(Head(wire[c]), k)) \in Seq(Frames)
    BY <2>1, FrameType, AppendProperties
  <2>3. inbox' \in [Conns -> Seq(Frames)] /\ faults' \in Nat
    BY <1>1, <2>2 DEF Answer
  <2> QED
    BY <1>1, <2>1, <2>3 DEF Answer, callers, dispatcher, writer, reader
<1>2. CASE Unsolicited(c)
  <2>1. \A k \in Kinds : Append(inbox[c], Frame(None, k)) \in Seq(Frames)
    BY FrameType, AppendProperties
  <2>2. inbox' \in [Conns -> Seq(Frames)]
    BY <1>2, <2>1 DEF Unsolicited, Kinds
  <2> QED
    BY <1>2, <2>2 DEF Unsolicited, callers, dispatcher, writer, reader
<1>3. CASE PeerClose(c)
  <2>1. inbox' \in [Conns -> Seq(Frames)]
    BY <1>3, SurvivorsType DEF PeerClose
  <2> QED
    BY <1>3, <2>1 DEF PeerClose, callers, dispatcher, writer, reader
<1> QED
  BY <1>1, <1>2, <1>3 DEF Server

LEMMA StutterType == ASSUME TypeOK, UNCHANGED vars PROVE TypeOK'
BY DEF TypeOK, vars, callers, dispatcher, stream, writer, reader

LEMMA NextType == ASSUME TypeOK, Hands, [Next]_vars PROVE TypeOK'
BY CallerType, DispatcherType, ConnectionType, WriterType, ReaderType,
   ServerType, StutterType
DEF Next, Finished

-----------------------------------------------------------------------------
(* Hands: what a loop holds at each of its positions.                      *)

LEMMA InitHands == Init => Hands
BY DEF Init, Hands

LEMMA ReaderSendHands ==
  ASSUME TypeOK, Hands, NEW c \in Conns, NEW v, ReaderSend(c, v), rpc[c] = "read",
         \A d \in Conns \ {c} : inbox'[d] = inbox[d]
  PROVE  Hands'
BY DEF TypeOK, Hands, ReaderSend, writer

LEMMA NextHands == ASSUME TypeOK, Hands, [Next]_vars PROVE Hands'
<1> USE DEF TypeOK, Hands
<1>1. ASSUME NEW r \in Requests, Caller(r) PROVE Hands'
  BY <1>1
  DEF Caller, Offer, Retry, Return, Cancel, stream, writer, reader
<1>2. CASE AddTaskWait
  BY <1>2 DEF AddTaskWait, stream, writer, reader
<1>3. ASSUME NEW c \in Conns, AddTaskSpawn(c) PROVE Hands'
  BY <1>3 DEF AddTaskSpawn, stream, writer, reader
<1>4. ASSUME NEW c \in Conns, Connection(c) PROVE Hands'
  <2>1. CASE ConnectOk(c)
    BY <2>1 DEF ConnectOk
  <2>2. CASE ConnectFail(c)
    BY <2>2 DEF ConnectFail, stream, writer, reader
  <2>3. CASE FailOne(c)
    BY <2>3 DEF FailOne, stream, writer, reader
  <2>4. CASE CloseStream(c)
    BY <2>4 DEF CloseStream
  <2> QED
    BY <1>4, <2>1, <2>2, <2>3, <2>4 DEF Connection
<1>5. ASSUME NEW c \in Conns, Writer(c) PROVE Hands'
  <2>1. CASE WriterTake(c)
    <3>1. Head(queue) \in Requests
      BY <2>1, QueueHeadTail DEF WriterTake
    <3> QED
      BY <2>1, <3>1, StreamPackAssumption DEF WriterTake, stream, reader
  <2>2. CASE WriterIdle(c)
    BY <2>2 DEF WriterIdle, stream, reader
  <2>3. CASE Write(c)
    BY <2>3 DEF Write, reader
  <2>4. CASE WriteFail(c)
    BY <2>4 DEF WriteFail, stream, reader
  <2>5. CASE WriterPush(c)
    BY <2>5 DEF WriterPush, stream, reader
  <2> QED
    BY <1>5, <2>1, <2>2, <2>3, <2>4, <2>5 DEF Writer
<1>6. ASSUME NEW c \in Conns, Reader(c) \/ Cencel(c) PROVE Hands'
  <2>1. CASE ReaderTake(c)
    <3>1. Head(pending[c]) \in Requests
      BY <2>1, QueueHeadTail DEF ReaderTake
    <3>2. \A d \in Conns \ {c} : inbox'[d] = inbox[d]
      BY <2>1 DEF ReaderTake, stream
    <3> QED
      BY <2>1, <3>1, <3>2, StreamPackAssumption DEF ReaderTake, writer
  <2>2. CASE Cencel(c)
    BY <2>2 DEF Cencel, writer, reader
  <2>3. CASE ReadResponse(c)
    BY <2>3, ReaderSendHands DEF ReadResponse
  <2>4. CASE ReadRefused(c)
    BY <2>4, ReaderSendHands DEF ReadRefused
  <2>5. CASE ReadFail(c)
    BY <2>5, ReaderSendHands DEF ReadFail
  <2>6. CASE ReaderExit(c)
    BY <2>6 DEF ReaderExit, stream, writer
  <2> QED
    BY <1>6, <2>1, <2>2, <2>3, <2>4, <2>5, <2>6 DEF Reader
<1>7. ASSUME NEW c \in Conns, Server(c) PROVE Hands'
  <2>1. CASE Answer(c)
    BY <2>1 DEF Answer, writer, reader
  <2>2. CASE Unsolicited(c)
    BY <2>2 DEF Unsolicited, writer, reader
  <2>3. CASE PeerClose(c)
    BY <2>3 DEF PeerClose, writer, reader
  <2> QED
    BY <1>7, <2>1, <2>2, <2>3 DEF Server
<1>8. CASE UNCHANGED vars
  BY <1>8 DEF vars, stream, writer, reader
<1> QED
  BY <1>1, <1>2, <1>3, <1>4, <1>5, <1>6, <1>7, <1>8 DEF Next, Dispatcher, Finished

-----------------------------------------------------------------------------
(* The permits.                                                            *)

LEMMA LiveFinite == IsFiniteSet(Live) /\ Cardinality(Live) \in Nat
BY StreamPackAssumption, FS_Subset, FS_CardinalityType DEF Live

\* A step that neither starts nor ends a task.
LEMMA SameLive ==
  ASSUME PoolBound, slim' = slim, \A c \in Conns : task[c] = "idle" <=> task'[c] = "idle"
  PROVE  PoolBound'
<1>1. Live' = Live
  BY DEF Live
<1> QED
  BY <1>1 DEF PoolBound

LEMMA InitPool == Init => PoolBound
<1> SUFFICES ASSUME Init PROVE PoolBound
  OBVIOUS
<1>1. Live = {}
  BY DEF Init, Live
<1> QED
  BY <1>1, FS_EmptySet, StreamPackAssumption DEF Init, PoolBound

LEMMA NextPool == ASSUME TypeOK, Hands, PoolBound, [Next]_vars PROVE PoolBound'
<1>1. CASE \E c \in Conns : AddTaskSpawn(c)
  <2>1. PICK c \in Conns : AddTaskSpawn(c)
    BY <1>1
  <2>2. c \notin Live /\ Live' = Live \cup {c}
    BY <2>1 DEF AddTaskSpawn, Live, TypeOK
  <2>3. Cardinality(Live') = Cardinality(Live) + 1
    BY <2>2, LiveFinite, FS_AddElement
  <2> QED
    BY <2>1, <2>3, LiveFinite, StreamPackAssumption DEF AddTaskSpawn, PoolBound, TypeOK
<1>2. CASE \E c \in Conns : CloseStream(c)
  <2>1. PICK c \in Conns : CloseStream(c)
    BY <1>2
  <2>2. c \in Live /\ Live' = Live \ {c}
    BY <2>1 DEF CloseStream, Live, TypeOK
  <2>3. Cardinality(Live') = Cardinality(Live) - 1
    BY <2>2, LiveFinite, FS_RemoveElement
  <2> QED
    BY <2>1, <2>3, LiveFinite, StreamPackAssumption DEF CloseStream, PoolBound, TypeOK
<1>3. ASSUME NEW r \in Requests, Caller(r) PROVE PoolBound'
  BY <1>3, SameLive DEF Caller, Offer, Retry, Return, Cancel, dispatcher
<1>4. CASE AddTaskWait
  BY <1>4, SameLive DEF AddTaskWait
<1>5. ASSUME NEW c \in Conns, ConnectOk(c) \/ ConnectFail(c) \/ FailOne(c)
      PROVE  PoolBound'
  <2>1. slim' = slim /\ \A d \in Conns : task[d] = "idle" <=> task'[d] = "idle"
    BY <1>5 DEF ConnectOk, ConnectFail, FailOne, dispatcher, TypeOK
  <2> QED
    BY <2>1, SameLive
<1>6. ASSUME NEW c \in Conns, Writer(c) PROVE PoolBound'
  BY <1>6, SameLive
  DEF Writer, WriterTake, WriterIdle, Write, WriteFail, WriterPush, dispatcher
<1>7. ASSUME NEW c \in Conns, Reader(c) \/ Cencel(c) PROVE PoolBound'
  BY <1>7, SameLive
  DEF Reader, ReaderTake, Cencel, ReadResponse, ReadRefused, ReadFail, ReaderExit,
      ReaderSend, dispatcher
<1>8. ASSUME NEW c \in Conns, Server(c) PROVE PoolBound'
  BY <1>8, SameLive DEF Server, Answer, Unsolicited, PeerClose, dispatcher
<1>9. CASE UNCHANGED vars
  BY <1>9, SameLive DEF vars, dispatcher
<1> QED
  BY <1>1, <1>2, <1>3, <1>4, <1>5, <1>6, <1>7, <1>8, <1>9
  DEF Next, Dispatcher, Connection, Finished

-----------------------------------------------------------------------------
IInv == TypeOK /\ Hands /\ PoolBound

LEMMA InitIInv == Init => IInv
BY InitType, InitHands, InitPool DEF IInv

LEMMA NextIInv == IInv /\ [Next]_vars => IInv'
BY NextType, NextHands, NextPool DEF IInv

\* Every variable keeps its type: in particular slim is never released below
\* zero, and only packs travel through the channels.
THEOREM TypeCorrect == Spec => []TypeOK
<1>1. IInv => TypeOK
  BY DEF IInv
<1> QED
  BY <1>1, InitIInv, NextIInv, PTL DEF Spec

\* However many calls, tasks and faults there are, permits and running
\* connection tasks add up to MaxStreamPoolCount.
THEOREM PoolCorrect == Spec => []PoolBound
<1>1. IInv => PoolBound
  BY DEF IInv
<1> QED
  BY <1>1, InitIInv, NextIInv, PTL DEF Spec

-----------------------------------------------------------------------------
(* Alignment of plain sequences under the things that happen to them.      *)

\* Boxes hold frames, out and w requests.
LEMMA AlignedWrite ==
  ASSUME NEW box \in Seq(Frames), NEW out \in Seq(Requests), NEW w \in Seq(Requests),
         NEW o \in BOOLEAN, NEW r \in Requests, Aligned(box, out, w, o)
  PROVE  Aligned(box, Append(out, r), Append(w, r), o)
<1>1. /\ Len(box) \in Nat /\ Len(out) \in Nat /\ Len(w) \in Nat
      /\ Len(Append(out, r)) = Len(out) + 1 /\ Len(Append(w, r)) = Len(w) + 1
      /\ \A i \in 1..Len(out) : Append(out, r)[i] = out[i]
      /\ \A i \in 1..Len(w) : Append(w, r)[i] = w[i]
      /\ Append(out, r)[Len(out) + 1] = r /\ Append(w, r)[Len(w) + 1] = r
  BY LenProperties, AppendProperties
<1>2. \A i \in 1..Len(box) :
        box[i].of = None
          \/ (i <= Len(Append(out, r)) /\ box[i].of = Append(out, r)[i])
  BY <1>1 DEF Aligned
<1>3. ASSUME o
      PROVE  /\ Len(Append(out, r)) = Len(box) + Len(Append(w, r))
             /\ \A i \in 1..Len(box) : box[i].of = Append(out, r)[i]
             /\ \A i \in 1..Len(Append(w, r)) :
                  Append(w, r)[i] = Append(out, r)[Len(box) + i]
  <2>1. /\ Len(out) = Len(box) + Len(w)
        /\ \A i \in 1..Len(box) : box[i].of = out[i]
        /\ \A i \in 1..Len(w) : w[i] = out[Len(box) + i]
    BY <1>3 DEF Aligned
  <2>2. \A i \in 1..Len(box) : box[i].of = Append(out, r)[i]
    BY <1>1, <2>1
  <2>3. ASSUME NEW i \in 1..Len(Append(w, r))
        PROVE  Append(w, r)[i] = Append(out, r)[Len(box) + i]
    <3>1. CASE i = Len(w) + 1
      BY <1>1, <2>1, <3>1
    <3>2. CASE i \in 1..Len(w)
      <4>1. Append(w, r)[i] = out[Len(box) + i]
        BY <1>1, <2>1, <3>2
      <4>2. Len(box) + i \in 1..Len(out)
        BY <1>1, <2>1, <3>2
      <4> QED
        BY <1>1, <4>1, <4>2
    <3>3. i \in 1..(Len(w) + 1)
      BY <1>1
    <3>4. i = Len(w) + 1 \/ i \in 1..Len(w)
      BY ONLY <1>1, <3>3
    <3> QED
      BY ONLY <3>1, <3>2, <3>4
  <2> QED
    BY <1>1, <2>1, <2>2, <2>3
<1> QED
  BY <1>2, <1>3 DEF Aligned

LEMMA AlignedRead ==
  ASSUME NEW box \in Seq(Frames), NEW out \in Seq(Requests), NEW w \in Seq(Requests),
         NEW o \in BOOLEAN, Aligned(box, out, w, o), box # <<>>, out # <<>>
  PROVE  /\ Aligned(Tail(box), Tail(out), w, o)
         /\ Head(box).of \in {None, Head(out)}
<1>1. /\ Len(box) \in Nat \ {0} /\ Len(out) \in Nat \ {0} /\ Len(w) \in Nat
      /\ Len(Tail(box)) = Len(box) - 1 /\ Len(Tail(out)) = Len(out) - 1
      /\ \A i \in 1..Len(box) - 1 : Tail(box)[i] = box[i + 1]
      /\ \A i \in 1..Len(out) - 1 : Tail(out)[i] = out[i + 1]
      /\ Head(box) = box[1] /\ Head(out) = out[1]
  BY LenProperties, EmptySeq, HeadTailProperties
<1>2. ASSUME NEW i \in 1..Len(Tail(box))
      PROVE  /\ i + 1 \in 1..Len(box) /\ Tail(box)[i] = box[i + 1]
             /\ i <= Len(Tail(out)) <=> i + 1 <= Len(out)
             /\ i <= Len(Tail(out)) => Tail(out)[i] = out[i + 1]
  BY <1>1
<1>3. \A i \in 1..Len(Tail(box)) :
        \/ Tail(box)[i].of = None
        \/ i <= Len(Tail(out)) /\ Tail(box)[i].of = Tail(out)[i]
  BY <1>2 DEF Aligned
<1>4. ASSUME o
      PROVE  /\ Len(Tail(out)) = Len(Tail(box)) + Len(w)
             /\ \A i \in 1..Len(Tail(box)) : Tail(box)[i].of = Tail(out)[i]
             /\ \A i \in 1..Len(w) : w[i] = Tail(out)[Len(Tail(box)) + i]
  <2>1. Len(out) = Len(box) + Len(w)
    BY <1>4 DEF Aligned
  <2>2. \A i \in 1..Len(Tail(box)) : Tail(box)[i].of = Tail(out)[i]
    BY <1>1, <1>2, <1>4, <2>1 DEF Aligned
  <2>3. ASSUME NEW i \in 1..Len(w)
        PROVE  w[i] = Tail(out)[Len(Tail(box)) + i]
    <3>1. Len(Tail(box)) + i \in 1..Len(out) - 1
      BY <1>1, <2>1
    <3>2. Tail(out)[Len(Tail(box)) + i] = out[(Len(Tail(box)) + i) + 1]
      BY <1>1, <3>1
    <3>3. (Len(Tail(box)) + i) + 1 = Len(box) + i
      BY <1>1
    <3> QED
      BY <1>4, <3>2, <3>3 DEF Aligned
  <2> QED
    BY <1>1, <2>1, <2>2, <2>3
<1>5. Head(box).of \in {None, Head(out)}
  <2>1. 1 \in 1..Len(box)
    BY <1>1
  <2>2. box[1].of = None \/ (1 <= Len(out) /\ box[1].of = out[1])
    BY <2>1 DEF Aligned
  <2> QED
    BY <1>1, <2>2
<1> QED
  BY <1>3, <1>4, <1>5 DEF Aligned

LEMMA AlignedAnswer ==
  ASSUME NEW box \in Seq(Frames), NEW out \in Seq(Requests), NEW w \in Seq(Requests),
         NEW k \in Kinds, Aligned(box, out, w, TRUE), w # <<>>
  PROVE  Aligned(Append(box, Frame(Head(w), k)), out, Tail(w), TRUE)
<1>1. Head(w) \in Requests /\ Frame(Head(w), k) \in Frames
  BY QueueHeadTail, FrameType
<1>2. /\ Len(box) \in Nat /\ Len(out) \in Nat /\ Len(w) \in Nat \ {0}
      /\ Len(Tail(w)) = Len(w) - 1 /\ \A i \in 1..Len(w) - 1 : Tail(w)[i] = w[i + 1]
      /\ Head(w) = w[1]
  BY LenProperties, EmptySeq, HeadTailProperties
<1>3. /\ Len(Append(box, Frame(Head(w), k))) = Len(box) + 1
      /\ \A i \in 1..Len(box) : Append(box, Frame(Head(w), k))[i] = box[i]
      /\ Append(box, Frame(Head(w), k))[Len(box) + 1] = Frame(Head(w), k)
  BY <1>1, AppendProperties
<1>4. Frame(Head(w), k).of = Head(w)
  BY DEF Frame
<1> DEFINE box2 == Append(box, Frame(Head(w), k))
<1>5. /\ Len(out) = Len(box) + Len(w)
      /\ \A i \in 1..Len(box) : box[i].of = out[i]
      /\ \A i \in 1..Len(w) : w[i] = out[Len(box) + i]
  BY DEF Aligned
<1>6. Len(out) = Len(box2) + Len(Tail(w))
  BY <1>2, <1>3, <1>5
<1>7. ASSUME NEW i \in 1..Len(box2)
      PROVE  i <= Len(out) /\ box2[i].of = out[i]
  <2>1. CASE i <= Len(box)
    BY <1>2, <1>3, <1>5, <2>1
  <2>2. CASE i = Len(box) + 1
    BY <1>2, <1>3, <1>4, <1>5, <2>2
  <2> QED
    BY <1>2, <1>3, <2>1, <2>2
<1>8. ASSUME NEW i \in 1..Len(Tail(w))
      PROVE  Tail(w)[i] = out[Len(box2) + i]
  <2>1. i + 1 \in 1..Len(w) /\ Len(box) + (i + 1) = Len(box2) + i
    BY <1>2, <1>3
  <2> QED
    BY <1>2, <1>5, <2>1
<1> HIDE DEF box2
<1>9. Aligned(box2, out, Tail(w), TRUE)
  BY <1>6, <1>7, <1>8 DEF Aligned
<1> QED
  BY <1>9 DEF box2

LEMMA AlignedLoss ==
  ASSUME NEW box \in Seq(Frames), NEW out \in Seq(Requests), NEW w \in Seq(Requests),
         NEW o \in BOOLEAN, Aligned(box, out, w, o), NEW s \in Survivors(box)
  PROVE  Aligned(s, out, w, FALSE)
<1>1. PICK n \in 0..Len(box) : s = SubSeq(box, 1, n)
  BY DEF Survivors
<1>2. /\ Len(box) \in Nat /\ \A i \in 1..Len(box) : box[i] \in Frames
  BY LenProperties, ElementOfSeq
<1>3. 1 \in Int /\ n \in Int /\ \A i \in 1..n : box[i] \in Frames
  BY <1>2
<1>4. Len(s) = n /\ \A i \in 1..n : s[i] = box[i]
  BY <1>1, <1>2, <1>3, SubSeqProperties
<1> QED
  BY <1>2, <1>4 DEF Aligned

LEMMA AlignedStray ==
  ASSUME NEW box \in Seq(Frames), NEW out \in Seq(Requests), NEW w \in Seq(Requests),
         NEW o \in BOOLEAN, Aligned(box, out, w, o), NEW k \in Kinds
  PROVE  Aligned(Append(box, Frame(None, k)), out, w, FALSE)
<1>1. /\ Len(box) \in Nat
      /\ Len(Append(box, Frame(None, k))) = Len(box) + 1
      /\ \A i \in 1..Len(box) : Append(box, Frame(None, k))[i] = box[i]
      /\ Append(box, Frame(None, k))[Len(box) + 1] = Frame(None, k)
  BY FrameType, LenProperties, AppendProperties
<1>2. Frame(None, k).of = None
  BY DEF Frame
<1> QED
  BY <1>1, <1>2 DEF Aligned

-----------------------------------------------------------------------------
(* The packs between the two loops.                                        *)

LEMMA Regroup ==
  ASSUME NEW S, NEW s \in Seq(S), NEW t \in Seq(S), NEW u \in Seq(S)
  PROVE  s \o t \o u = s \o (t \o u)
BY ConcatAssociative

LEMMA PartTypes ==
  ASSUME TypeOK, Hands, NEW c \in Conns
  PROVE  /\ Reading(c) \in Seq(Requests) /\ Pushing(c) \in Seq(Requests)
         /\ pending[c] \in Seq(Requests)
<1>1. \A r \in Requests : <<r>> \in Seq(Requests)
  OBVIOUS
<1>2. rhand[c] # None => rhand[c] \in Requests
  BY DEF TypeOK
<1>3. wpc[c] = "push" => whand[c] \in Requests
  BY DEF TypeOK, Hands
<1> QED
  BY <1>1, <1>2, <1>3, EmptySeq DEF TypeOK, Reading, Pushing

LEMMA OutType ==
  ASSUME TypeOK, Hands, NEW c \in Conns
  PROVE  Outstanding(c) \in Seq(Requests)
BY PartTypes, ConcatProperties DEF Outstanding

\* The reader's pack is the oldest one.
LEMMA OutReading ==
  ASSUME TypeOK, Hands, NEW c \in Conns, rhand[c] # None
  PROVE  /\ Outstanding(c) # <<>>
         /\ Head(Outstanding(c)) = rhand[c]
         /\ Tail(Outstanding(c)) = pending[c] \o Pushing(c)
<1> DEFINE rest == pending[c] \o Pushing(c)
<1>1. rhand[c] \in Requests /\ Reading(c) = <<rhand[c]>>
  BY DEF TypeOK, Reading
<1>2. rest \in Seq(Requests)
  BY PartTypes, ConcatProperties
<1>3. Outstanding(c) = <<rhand[c]>> \o rest
  <2>1. Reading(c) \o pending[c] \o Pushing(c) = Reading(c) \o (pending[c] \o Pushing(c))
    <3>1. /\ Reading(c) \in Seq(Requests) /\ Pushing(c) \in Seq(Requests)
          /\ pending[c] \in Seq(Requests)
      BY PartTypes
    <3>2. \A s, t, u \in Seq(Requests) : s \o t \o u = s \o (t \o u)
      BY Regroup
    <3> QED
      BY <3>1, <3>2
  <2> QED
    BY <1>1, <2>1 DEF Outstanding
<1> HIDE DEF rest
<1>4. /\ <<rhand[c]>> \o rest # <<>> /\ Head(<<rhand[c]>> \o rest) = rhand[c]
      /\ Tail(<<rhand[c]>> \o rest) = rest
  BY <1>1, <1>2
<1> QED
  BY <1>3, <1>4 DEF rest

\* Nothing this connection's loops hold has changed.
LEMMA OutSame ==
  ASSUME NEW c \in Conns, rhand'[c] = rhand[c], pending'[c] = pending[c],
         wpc'[c] = "push" <=> wpc[c] = "push",
         wpc[c] = "push" => whand'[c] = whand[c]
  PROVE  Outstanding(c)' = Outstanding(c)
BY DEF Outstanding, Reading, Pushing

LEMMA OutWrite ==
  ASSUME TypeOK, Hands, NEW c \in Conns, Write(c)
  PROVE  Outstanding(c)' = Append(Outstanding(c), whand[c]) /\ whand[c] \in Requests
<1>1. whand[c] \in Requests
  BY DEF TypeOK, Hands, Write
<1>2. Pushing(c) = <<>> /\ Pushing(c)' = <<whand[c]>> /\ Reading(c)' = Reading(c)
      /\ pending'[c] = pending[c]
  BY DEF Write, Pushing, Reading, TypeOK, reader
<1>3. Reading(c) \o pending[c] \in Seq(Requests)
  BY PartTypes, ConcatProperties
<1>4. Outstanding(c) = Reading(c) \o pending[c]
  BY <1>2, <1>3, ConcatEmptySeq DEF Outstanding
<1>5. Outstanding(c)' = (Reading(c) \o pending[c]) \o <<whand[c]>>
  BY <1>2 DEF Outstanding
<1> QED
  BY <1>1, <1>3, <1>4, <1>5, AppendIsConcat

LEMMA OutPush ==
  ASSUME TypeOK, Hands, NEW c \in Conns, WriterPush(c)
  PROVE  Outstanding(c)' = Outstanding(c)
<1>1. whand[c] \in Requests
  BY DEF TypeOK, Hands, WriterPush
<1>2. Pushing(c) = <<whand[c]>> /\ Pushing(c)' = <<>> /\ Reading(c)' = Reading(c)
      /\ pending'[c] = Append(pending[c], whand[c])
  BY DEF WriterPush, Pushing, Reading, TypeOK, reader
<1>3. pending'[c] = pending[c] \o Pushing(c)
  BY <1>1, <1>2, PartTypes, AppendIsConcat
<1>4. Outstanding(c) = Reading(c) \o (pending[c] \o Pushing(c))
  <2>1. Reading(c) \o pending[c] \o Pushing(c) = Reading(c) \o (pending[c] \o Pushing(c))
    <3>1. /\ Reading(c) \in Seq(Requests) /\ Pushing(c) \in Seq(Requests)
          /\ pending[c] \in Seq(Requests)
      BY PartTypes
    <3>2. \A s, t, u \in Seq(Requests) : s \o t \o u = s \o (t \o u)
      BY Regroup
    <3> QED
      BY <3>1, <3>2
  <2> QED
    BY <2>1 DEF Outstanding
<1>5. Reading(c) \o (pending[c] \o Pushing(c)) \in Seq(Requests)
  BY PartTypes, ConcatProperties
<1> QED
  BY <1>2, <1>3, <1>4, <1>5, ConcatEmptySeq DEF Outstanding

LEMMA OutTake ==
  ASSUME TypeOK, Hands, NEW c \in Conns, ReaderTake(c)
  PROVE  Outstanding(c)' = Outstanding(c)
<1>1. /\ Reading(c) = <<>> /\ pending[c] # <<>> /\ pending'[c] = Tail(pending[c])
      /\ rhand'[c] = Head(pending[c]) /\ Pushing(c)' = Pushing(c)
  BY DEF ReaderTake, Reading, Pushing, TypeOK, Hands, writer
<1>2. pending[c] \in Seq(Requests) /\ Head(pending[c]) \in Requests
      /\ Tail(pending[c]) \in Seq(Requests)
  BY <1>1, PartTypes, QueueHeadTail
<1>3. Reading(c)' = <<Head(pending[c])>>
  BY <1>1, <1>2, StreamPackAssumption DEF Reading
<1>4. pending[c] = <<Head(pending[c])>> \o Tail(pending[c])
  BY <1>1, <1>2
<1>5. Reading(c) \o pending[c] = pending[c]
  BY <1>1, <1>2, ConcatEmptySeq
<1> QED
  BY <1>1, <1>3, <1>4, <1>5 DEF Outstanding

\* The reader settles its pack.
LEMMA OutSettle ==
  ASSUME TypeOK, Hands, NEW c \in Conns, rhand[c] # None, rhand'[c] = None,
         pending'[c] = pending[c], wpc'[c] = wpc[c], whand'[c] = whand[c]
  PROVE  Outstanding(c)' = Tail(Outstanding(c))
<1>1. Reading(c)' = <<>> /\ Pushing(c)' = Pushing(c)
  BY DEF Reading, Pushing
<1>2. Outstanding(c)' = pending[c] \o Pushing(c)
  BY <1>1, PartTypes, ConcatEmptySeq DEF Outstanding
<1> QED
  BY <1>2, OutReading

-----------------------------------------------------------------------------
(* InStep, one connection at a time.                                       *)

\* A step of another connection, of a caller or of the dispatcher.
LEMMA StepElsewhere ==
  ASSUME NEW d \in Conns, InStepAt(d), inbox'[d] = inbox[d], wire'[d] = wire[d],
         sock'[d] = sock[d], Outstanding(d)' = Outstanding(d)
  PROVE  InStepAt(d)'
BY DEF InStepAt, Poisoned

\* Without packs, requests and frames everything is in step.
LEMMA NothingAligned ==
  /\ <<>> \o <<>> \o <<>> = <<>>
  /\ \A o : Aligned(<<>>, <<>>, <<>>, o)
<1>1. <<>> \in Seq(Requests)
  BY EmptySeq
<1>2. <<>> \o <<>> = <<>>
  BY <1>1, ConcatEmptySeq
<1> QED
  BY <1>2, EmptySeq DEF Aligned

\* The socket closes and loses what was not read.
LEMMA StepLoss ==
  ASSUME TypeOK, Hands, NEW d \in Conns, InStepAt(d),
         inbox'[d] \in Survivors(inbox[d]), sock'[d] # "open",
         wire'[d] = wire[d], Outstanding(d)' = Outstanding(d)
  PROVE  InStepAt(d)'
<1> DEFINE box == inbox[d]
           out == Outstanding(d)
<1>1. box \in Seq(Frames) /\ out \in Seq(Requests) /\ wire[d] \in Seq(Requests)
  BY OutType DEF TypeOK
<1>2. (sock[d] = "open") \in BOOLEAN
  OBVIOUS
<1>3. CASE Aligned(box, out, wire[d], sock[d] = "open")
  <2>1. Aligned(inbox'[d], out, wire[d], FALSE)
    BY <1>1, <1>2, <1>3, AlignedLoss
  <2> QED
    BY <2>1 DEF InStepAt
<1>4. CASE Poisoned(d)
  <2>1. PICK n \in 0..Len(box) : inbox'[d] = SubSeq(box, 1, n)
    BY DEF Survivors
  <2>2. CASE n = 0
    <3>1. inbox'[d] = <<>>
      BY <1>1, <2>1, <2>2, SubSeqEmpty, LenProperties
    <3>2. Aligned(<<>>, out, wire[d], FALSE)
      BY EmptySeq DEF Aligned
    <3> QED
      BY <3>1, <3>2 DEF InStepAt
  <2>3. CASE n # 0
    <3>1. Len(box) \in Nat /\ 1 \in 1..Len(box) /\ n \in 1..Len(box)
      BY <1>1, <2>1, <2>3, LenProperties
    <3>2. Head(inbox'[d]) = box[1] /\ inbox'[d] # <<>>
      <4>1. \A i \in 1..n : box[i] \in Frames
        BY <1>1, <3>1, ElementOfSeq
      <4>2. inbox'[d] \in Seq(Frames) /\ Len(inbox'[d]) = n /\ inbox'[d][1] = box[1]
        BY <2>1, <3>1, <4>1, SubSeqProperties
      <4> QED
        BY <3>1, <4>2, EmptySeq
    <3>3. Head(box) = box[1]
      BY <1>1
    <3> QED
      BY <1>4, <3>2, <3>3 DEF Poisoned, InStepAt
  <2> QED
    BY <2>2, <2>3
<1> QED
  BY <1>3, <1>4 DEF InStepAt

\* The reader takes a frame the parser accepts or consumes, and settles its pack.
LEMMA StepRead ==
  ASSUME TypeOK, Hands, NEW d \in Conns, InStepAt(d), ~Poisoned(d),
         inbox[d] # <<>>, rhand[d] # None, rhand'[d] = None,
         inbox'[d] = Tail(inbox[d]), wire'[d] = wire[d],
         (sock'[d] = "open") <=> (sock[d] = "open"),
         pending'[d] = pending[d], wpc'[d] = wpc[d], whand'[d] = whand[d]
  PROVE  InStepAt(d)' /\ Head(inbox[d]).of \in {None, rhand[d]}
<1>1. /\ inbox[d] \in Seq(Frames) /\ Outstanding(d) \in Seq(Requests)
      /\ wire[d] \in Seq(Requests) /\ (sock[d] = "open") \in BOOLEAN
  BY OutType DEF TypeOK
<1>2. Aligned(inbox[d], Outstanding(d), wire[d], sock[d] = "open")
  BY DEF InStepAt
<1>3. /\ Outstanding(d) # <<>> /\ Head(Outstanding(d)) = rhand[d]
      /\ Outstanding(d)' = Tail(Outstanding(d))
  BY OutReading, OutSettle
<1>4. /\ Aligned(Tail(inbox[d]), Tail(Outstanding(d)), wire[d], sock[d] = "open")
      /\ Head(inbox[d]).of \in {None, Head(Outstanding(d))}
  BY <1>1, <1>2, <1>3, AlignedRead
<1>5. Aligned(Tail(inbox[d]), Tail(Outstanding(d)), wire[d], sock'[d] = "open")
  BY <1>4 DEF Aligned
<1> QED
  BY <1>3, <1>4, <1>5 DEF InStepAt

LEMMA ReaderSendStep ==
  ASSUME TypeOK, Hands, NEW c \in Conns, NEW v, ReaderSend(c, v), rpc[c] = "read"
  PROVE  /\ rhand[c] # None /\ rhand'[c] = None
         /\ pending' = pending /\ wpc' = wpc /\ whand' = whand /\ wire' = wire
         /\ (sock'[c] = "open") <=> (sock[c] = "open")
         /\ \A d \in Conns \ {c} : rhand'[d] = rhand[d] /\ sock'[d] = sock[d]
BY DEF ReaderSend, TypeOK, Hands, writer

\* What a step of one connection leaves of another.
LEMMA OtherConn ==
  ASSUME TypeOK, Hands, NEW c \in Conns, NEW d \in Conns \ {c}, InStepAt(d),
         Connection(c) \/ Writer(c) \/ Reader(c) \/ Cencel(c) \/ Server(c)
  PROVE  InStepAt(d)'
<1> DEFINE Kept == /\ rhand'[d] = rhand[d] /\ pending'[d] = pending[d]
                   /\ wpc'[d] = wpc[d] /\ whand'[d] = whand[d]
                   /\ inbox'[d] = inbox[d] /\ wire'[d] = wire[d] /\ sock'[d] = sock[d]
<1>1. CASE Connection(c)
  <2>1. Kept
    BY <1>1
    DEF Connection, ConnectOk, ConnectFail, FailOne, CloseStream, TypeOK, stream,
        writer, reader
  <2> QED
    BY <2>1, OutSame, StepElsewhere
<1>2. CASE Writer(c)
  <2>1. Kept
    BY <1>2
    DEF Writer, WriterTake, WriterIdle, Write, WriteFail, WriterPush, TypeOK,
        stream, reader
  <2> QED
    BY <2>1, OutSame, StepElsewhere
<1>3. CASE ReaderTake(c) \/ Cencel(c) \/ ReaderExit(c)
  <2>1. Kept
    BY <1>3 DEF ReaderTake, Cencel, ReaderExit, TypeOK, stream, writer, reader
  <2> QED
    BY <2>1, OutSame, StepElsewhere
<1>4. CASE ReadResponse(c) \/ ReadRefused(c) \/ ReadFail(c)
  <2>1. inbox'[d] = inbox[d]
    BY <1>4 DEF ReadResponse, ReadRefused, ReadFail, TypeOK
  <2>2. PICK v : ReaderSend(c, v)
    BY <1>4 DEF ReadResponse, ReadRefused, ReadFail
  <2>3. rpc[c] = "read"
    BY <1>4 DEF ReadResponse, ReadRefused, ReadFail
  <2>4. Kept
    BY <2>1, <2>2, <2>3, ReaderSendStep
  <2> QED
    BY <2>4, OutSame, StepElsewhere
<1>5. CASE Server(c)
  <2>1. Kept
    BY <1>5 DEF Server, Answer, Unsolicited, PeerClose, TypeOK, writer, reader
  <2> QED
    BY <2>1, OutSame, StepElsewhere
<1> QED
  BY <1>1, <1>2, <1>3, <1>4, <1>5 DEF Reader

LEMMA ConnectionStep ==
  ASSUME TypeOK, Hands, NEW c \in Conns, InStepAt(c), Connection(c)
  PROVE  InStepAt(c)'
<1>1. CASE ConnectOk(c)
  <2>1. /\ rhand'[c] = None /\ wpc'[c] # "push" /\ pending'[c] = <<>>
        /\ wire'[c] = <<>> /\ inbox'[c] = <<>>
    BY <1>1 DEF ConnectOk, TypeOK, Hands
  <2>2. Outstanding(c)' = <<>> \o <<>> \o <<>>
    BY <2>1 DEF Outstanding, Reading, Pushing
  <2> QED
    BY <2>1, <2>2, NothingAligned DEF InStepAt
<1>2. CASE ConnectFail(c) \/ FailOne(c)
  BY <1>2, OutSame, StepElsewhere DEF ConnectFail, FailOne, stream, writer, reader
<1>3. CASE CloseStream(c)
  <2>1. /\ rhand'[c] = None /\ wpc'[c] # "push" /\ pending'[c] = <<>>
        /\ wire'[c] = <<>> /\ inbox'[c] = <<>>
    BY <1>3 DEF CloseStream, TypeOK, Hands
  <2>2. Outstanding(c)' = <<>> \o <<>> \o <<>>
    BY <2>1 DEF Outstanding, Reading, Pushing
  <2> QED
    BY <2>1, <2>2, NothingAligned DEF InStepAt
<1> QED
  BY <1>1, <1>2, <1>3 DEF Connection

LEMMA WriterStep ==
  ASSUME TypeOK, Hands, NEW c \in Conns, InStepAt(c), Writer(c)
  PROVE  InStepAt(c)'
<1>1. CASE WriterTake(c) \/ WriterIdle(c) \/ WriteFail(c)
  <2>1. /\ wpc[c] # "push" /\ wpc'[c] # "push"
        /\ inbox' = inbox /\ wire' = wire /\ sock' = sock
        /\ rhand' = rhand /\ pending' = pending
    BY <1>1 DEF WriterTake, WriterIdle, WriteFail, TypeOK, stream, reader
  <2> QED
    BY <2>1, OutSame, StepElsewhere
<1>2. CASE Write(c)
  <2>1. /\ inbox' = inbox /\ sock' = sock /\ wire'[c] = Append(wire[c], whand[c])
    BY <1>2 DEF Write, TypeOK
  <2>2. /\ inbox[c] \in Seq(Frames) /\ Outstanding(c) \in Seq(Requests)
        /\ wire[c] \in Seq(Requests) /\ (sock[c] = "open") \in BOOLEAN
    BY OutType DEF TypeOK
  <2>3. Outstanding(c)' = Append(Outstanding(c), whand[c]) /\ whand[c] \in Requests
    BY <1>2, OutWrite
  <2>4. CASE Aligned(inbox[c], Outstanding(c), wire[c], sock[c] = "open")
    <3>1. Aligned(inbox[c], Append(Outstanding(c), whand[c]),
                  Append(wire[c], whand[c]), sock[c] = "open")
      BY <2>2, <2>3, <2>4, AlignedWrite
    <3> QED
      BY <2>1, <2>3, <3>1 DEF InStepAt
  <2>5. CASE Poisoned(c)
    BY <2>1, <2>5 DEF Poisoned, InStepAt
  <2> QED
    BY <2>4, <2>5 DEF InStepAt
<1>3. CASE WriterPush(c)
  <2>1. inbox' = inbox /\ wire' = wire /\ sock' = sock
    BY <1>3 DEF WriterPush, stream
  <2> QED
    BY <1>3, <2>1, OutPush, StepElsewhere
<1> QED
  BY <1>1, <1>2, <1>3 DEF Writer

LEMMA ReaderStep ==
  ASSUME TypeOK, Hands, NEW c \in Conns, InStepAt(c), Reader(c) \/ Cencel(c)
  PROVE  InStepAt(c)'
<1>1. CASE ReaderTake(c)
  <2>1. Outstanding(c)' = Outstanding(c) /\ wire' = wire
    BY <1>1, OutTake DEF ReaderTake
  <2>2. CASE Head(pending[c]) \in cancelled
    <3>1. inbox'[c] \in Survivors(inbox[c]) /\ sock'[c] # "open"
      BY <1>1, <2>2 DEF ReaderTake, TypeOK
    <3> QED
      BY <2>1, <3>1, StepLoss
  <2>3. CASE Head(pending[c]) \notin cancelled
    BY <1>1, <2>1, <2>3, StepElsewhere DEF ReaderTake
  <2> QED
    BY <2>2, <2>3
<1>2. CASE Cencel(c)
  <2>1. /\ inbox'[c] \in Survivors(inbox[c]) /\ sock'[c] # "open" /\ wire' = wire
        /\ rhand' = rhand /\ pending' = pending /\ wpc' = wpc /\ whand' = whand
    BY <1>2 DEF Cencel, TypeOK, writer, reader
  <2> QED
    BY <2>1, OutSame, StepLoss
<1>3. CASE ReadResponse(c)
  <2>1. PICK v : ReaderSend(c, v)
    BY <1>3 DEF ReadResponse
  <2>2. /\ inbox[c] # <<>> /\ inbox'[c] = Tail(inbox[c]) /\ ~Poisoned(c)
        /\ rpc[c] = "read"
    BY <1>3 DEF ReadResponse, Readable, Poisoned, TypeOK
  <2> QED
    BY <2>1, <2>2, ReaderSendStep, StepRead
<1>4. CASE ReadRefused(c)
  <2>1. PICK v : ReaderSend(c, v)
    BY <1>4 DEF ReadRefused
  <2>2. inbox[c] # <<>> /\ rpc[c] = "read" /\ inbox[c] \in Seq(Frames)
    BY <1>4 DEF ReadRefused, Readable, TypeOK
  <2>3. CASE Head(inbox[c]).kind = "stuck"
    <3>1. inbox' = inbox
      BY <1>4, <2>3 DEF ReadRefused
    <3> QED
      BY <2>2, <2>3, <3>1 DEF Poisoned, InStepAt
  <2>4. CASE Head(inbox[c]).kind = "torn"
    <3>1. PICK rest \in {<<>>, <<Frame(Head(inbox[c]).of, "stuck")>>} :
            inbox' = [inbox EXCEPT ![c] = rest \o Tail(@)]
      BY <1>4, <2>4 DEF ReadRefused
    <3>2. Head(inbox[c]) \in Frames /\ Tail(inbox[c]) \in Seq(Frames)
      BY <2>2, QueueHeadTail
    <3>3. inbox'[c] = rest \o Tail(inbox[c])
      BY <3>1 DEF TypeOK
    <3>4. CASE rest = <<>>
      <4>1. inbox'[c] = Tail(inbox[c])
        BY <3>2, <3>3, <3>4, ConcatEmptySeq
      <4>2. ~Poisoned(c)
        BY <2>4 DEF Poisoned
      <4> QED
        BY <2>1, <2>2, <4>1, <4>2, ReaderSendStep, StepRead
    <3>5. CASE rest = <<Frame(Head(inbox[c]).of, "stuck")>>
      <4> DEFINE f == Frame(Head(inbox[c]).of, "stuck")
      <4>1. f \in Frames /\ f.kind = "stuck"
        BY <3>2 DEF Frame, Frames, Kinds
      <4> HIDE DEF f
      <4>2. <<f>> \o Tail(inbox[c]) # <<>> /\ Head(<<f>> \o Tail(inbox[c])) = f
        BY <3>2, <4>1
      <4>3. inbox'[c] = <<f>> \o Tail(inbox[c])
        BY <3>3, <3>5 DEF f
      <4> QED
        BY <4>1, <4>2, <4>3 DEF Poisoned, InStepAt
    <3> QED
      BY <3>1, <3>4, <3>5
  <2> QED
    BY <1>4, <2>3, <2>4 DEF ReadRefused
<1>5. CASE ReadFail(c)
  <2>1. PICK v : ReaderSend(c, v)
    BY <1>5 DEF ReadFail
  <2>2. inbox'[c] = <<>> /\ sock[c] # "open" /\ rpc[c] = "read"
    BY <1>5 DEF ReadFail, TypeOK
  <2>3. sock'[c] # "open"
    BY <2>1, <2>2, ReaderSendStep
  <2>4. Aligned(<<>>, Outstanding(c)', wire'[c], sock'[c] = "open")
    BY <2>3, EmptySeq DEF Aligned
  <2> QED
    BY <2>2, <2>4 DEF InStepAt
<1>6. CASE ReaderExit(c)
  BY <1>6, OutSame, StepElsewhere DEF ReaderExit, stream, writer
<1> QED
  BY <1>1, <1>2, <1>3, <1>4, <1>5, <1>6 DEF Reader

LEMMA ServerStep ==
  ASSUME TypeOK, Hands, NEW c \in Conns, InStepAt(c), Server(c)
  PROVE  InStepAt(c)'
<1>1. /\ inbox[c] \in Seq(Frames) /\ Outstanding(c) \in Seq(Requests)
      /\ wire[c] \in Seq(Requests)
  BY OutType DEF TypeOK
<1>2. CASE Answer(c)
  <2>1. PICK k \in Kinds :
          inbox' = [inbox EXCEPT ![c] = Append(@, Frame(Head(wire[c]), k))]
    BY <1>2 DEF Answer
  <2>2. /\ sock' = sock /\ sock[c] = "open" /\ wire[c] # <<>>
        /\ wire'[c] = Tail(wire[c]) /\ Outstanding(c)' = Outstanding(c)
    BY <1>2, OutSame DEF Answer, TypeOK, writer, reader
  <2>3. inbox'[c] = Append(inbox[c], Frame(Head(wire[c]), k))
    BY <2>1 DEF TypeOK
  <2>4. CASE Poisoned(c)
    <3>1. Frame(Head(wire[c]), k) \in Frames
      BY <1>1, <2>2, QueueHeadTail, FrameType
    <3>2. inbox'[c] # <<>> /\ Head(inbox'[c]) = Head(inbox[c])
      BY <1>1, <2>3, <2>4, <3>1 DEF Poisoned
    <3> QED
      BY <2>4, <3>2 DEF Poisoned, InStepAt
  <2>5. CASE Aligned(inbox[c], Outstanding(c), wire[c], TRUE)
    <3>1. Aligned(inbox'[c], Outstanding(c), Tail(wire[c]), TRUE)
      BY <1>1, <2>2, <2>3, <2>5, AlignedAnswer
    <3> QED
      BY <2>2, <3>1 DEF InStepAt
  <2> QED
    BY <2>2, <2>4, <2>5 DEF InStepAt
<1>3. CASE Unsolicited(c)
  <2>1. PICK k \in Kinds :
          inbox' = [inbox EXCEPT ![c] = Append(@, Frame(None, k))]
    BY <1>3 DEF Unsolicited, Kinds
  <2>2. /\ sock[c] = "open" /\ sock'[c] # "open" /\ wire' = wire
        /\ Outstanding(c)' = Outstanding(c)
    BY <1>3, OutSame DEF Unsolicited, TypeOK, writer, reader
  <2>3. inbox'[c] = Append(inbox[c], Frame(None, k))
    BY <2>1 DEF TypeOK
  <2>4. CASE Poisoned(c)
    <3>1. inbox'[c] # <<>> /\ Head(inbox'[c]) = Head(inbox[c])
      BY <1>1, <2>3, <2>4, FrameType DEF Poisoned
    <3> QED
      BY <2>4, <3>1 DEF Poisoned, InStepAt
  <2>5. CASE Aligned(inbox[c], Outstanding(c), wire[c], TRUE)
    <3>1. Aligned(inbox'[c], Outstanding(c), wire[c], FALSE)
      BY <1>1, <2>3, <2>5, AlignedStray
    <3> QED
      BY <2>2, <3>1 DEF InStepAt
  <2> QED
    BY <2>2, <2>4, <2>5 DEF InStepAt
<1>4. CASE PeerClose(c)
  <2>1. /\ inbox'[c] \in Survivors(inbox[c]) /\ sock'[c] # "open" /\ wire' = wire
        /\ Outstanding(c)' = Outstanding(c)
    BY <1>4, OutSame DEF PeerClose, TypeOK, writer, reader
  <2> QED
    BY <2>1, StepLoss
<1> QED
  BY <1>2, <1>3, <1>4 DEF Server

LEMMA NextInStep == ASSUME TypeOK, Hands, InStep, [Next]_vars PROVE InStep'
<1> SUFFICES ASSUME NEW d \in Conns PROVE InStepAt(d)'
  BY DEF InStep
<1>1. InStepAt(d)
  BY DEF InStep
<1>2. CASE /\ inbox' = inbox /\ wire' = wire /\ sock' = sock /\ rhand' = rhand
           /\ pending' = pending /\ wpc' = wpc /\ whand' = whand
  BY <1>1, <1>2, OutSame, StepElsewhere
<1>3. CASE (\E r \in Requests : Caller(r)) \/ Dispatcher \/ UNCHANGED vars
  BY <1>2, <1>3
  DEF Caller, Offer, Retry, Return, Cancel, Dispatcher, AddTaskWait, AddTaskSpawn,
      vars, stream, writer, reader
<1>4. ASSUME NEW c \in Conns,
             Connection(c) \/ Writer(c) \/ Reader(c) \/ Cencel(c) \/ Server(c)
      PROVE  InStepAt(d)'
  <2>1. CASE c = d
    BY <1>1, <1>4, <2>1, ConnectionStep, WriterStep, ReaderStep, ServerStep
  <2>2. CASE c # d
    BY <1>1, <1>4, <2>2, OtherConn
  <2> QED
    BY <2>1, <2>2
<1> QED
  BY <1>3, <1>4 DEF Next, Finished

LEMMA InitInStep == Init => InStep
<1> SUFFICES ASSUME Init, NEW c \in Conns PROVE InStepAt(c)
  BY DEF InStep
<1>1. /\ rhand[c] = None /\ wpc[c] # "push" /\ pending[c] = <<>>
      /\ wire[c] = <<>> /\ inbox[c] = <<>>
  BY DEF Init
<1>2. Outstanding(c) = <<>> \o <<>> \o <<>>
  BY <1>1 DEF Outstanding, Reading, Pushing
<1> QED
  BY <1>1, <1>2, NothingAligned DEF InStepAt

-----------------------------------------------------------------------------
(* The replies.                                                            *)

\* Only ReadResponse stores a response, and then that of the reader's own pack.
LEMMA NextOwn ==
  ASSUME TypeOK, Hands, InStep, OwnResponse, [Next]_vars PROVE OwnResponse'
<1>1. ASSUME NEW r \in Requests, NEW v, Send(r, v),
             v.kind = "response" => v.of \in {r, None}
      PROVE  OwnResponse'
  BY <1>1 DEF Send, OwnResponse, TypeOK
<1>2. CASE reply' = reply
  BY <1>2 DEF OwnResponse
<1>3. ASSUME NEW r \in Requests, Caller(r) PROVE OwnResponse'
  <2>1. CASE Retry(r)
    <3>1. reply' = [reply EXCEPT ![r] = NoReply] /\ NoReply.kind # "response"
      BY <2>1 DEF Retry, NoReply
    <3>2. reply \in [Requests -> Replies]
      BY DEF TypeOK
    <3>3. \A q \in Requests : reply'[q] = NoReply \/ reply'[q] = reply[q]
      BY <3>1, <3>2
    <3> QED
      BY <3>1, <3>3 DEF OwnResponse
  <2> QED
    BY <1>2, <1>3, <2>1 DEF Caller, Offer, Return, Cancel
<1>4. CASE Dispatcher \/ UNCHANGED vars
  BY <1>2, <1>4 DEF Dispatcher, AddTaskWait, AddTaskSpawn, vars, callers
<1>5. ASSUME NEW c \in Conns, Connection(c) PROVE OwnResponse'
  <2>1. CASE FailOne(c)
    <3>1. Head(queue) \in Requests
      BY <2>1, QueueHeadTail DEF FailOne, TypeOK
    <3>2. Failure(cerr[c]).kind # "response"
      BY DEF Failure, TypeOK
    <3> QED
      BY <1>1, <2>1, <3>1, <3>2 DEF FailOne
  <2> QED
    BY <1>2, <1>5, <2>1 DEF Connection, ConnectOk, ConnectFail, CloseStream, callers
<1>6. ASSUME NEW c \in Conns, Writer(c) PROVE OwnResponse'
  <2>1. CASE WriteFail(c)
    <3>1. whand[c] \in Requests /\ Failure("io").kind # "response"
      BY <2>1 DEF WriteFail, TypeOK, Hands, Failure
    <3> QED
      BY <1>1, <2>1, <3>1 DEF WriteFail
  <2> QED
    BY <1>2, <1>6, <2>1 DEF Writer, WriterTake, WriterIdle, Write, WriterPush, callers
<1>7. ASSUME NEW c \in Conns, Reader(c) \/ Cencel(c) PROVE OwnResponse'
  <2>1. rpc[c] = "read" => rhand[c] \in Requests
    BY DEF TypeOK, Hands
  <2>2. CASE ReadResponse(c)
    <3>1. /\ inbox[c] # <<>> /\ inbox'[c] = Tail(inbox[c]) /\ ~Poisoned(c)
          /\ rpc[c] = "read" /\ InStepAt(c)
      BY <2>2 DEF ReadResponse, Readable, Poisoned, TypeOK, InStep
    <3>2. ReaderSend(c, Response(Head(inbox[c]).of))
      BY <2>2 DEF ReadResponse
    <3>3. Head(inbox[c]).of \in {None, rhand[c]}
      BY <3>1, <3>2, ReaderSendStep, StepRead
    <3>4. Response(Head(inbox[c]).of).of \in {rhand[c], None}
      BY <3>3 DEF Response
    <3> QED
      BY <1>1, <2>1, <3>1, <3>2, <3>4 DEF ReaderSend
  <2>3. CASE ReadRefused(c) \/ ReadFail(c)
    <3>1. PICK k \in {"proto", "cancel", "io"} : ReaderSend(c, Failure(k))
      BY <2>3, ReadErrorsType DEF ReadRefused, ReadFail
    <3>2. Failure(k).kind # "response" /\ rhand[c] \in Requests
      BY <2>1, <2>3 DEF Failure, ReadRefused, ReadFail
    <3> QED
      BY <1>1, <3>1, <3>2 DEF ReaderSend
  <2> QED
    BY <1>2, <1>7, <2>2, <2>3 DEF Reader, ReaderTake, ReaderExit, Cencel, callers
<1>8. ASSUME NEW c \in Conns, Server(c) PROVE OwnResponse'
  BY <1>2, <1>8 DEF Server, Answer, Unsolicited, PeerClose, callers
<1> QED
  BY <1>3, <1>4, <1>5, <1>6, <1>7, <1>8 DEF Next, Finished

-----------------------------------------------------------------------------
OInv == IInv /\ InStep /\ OwnResponse

LEMMA InitOInv == Init => OInv
BY InitIInv, InitInStep DEF OInv, Init, OwnResponse, NoReply

LEMMA NextOInv == OInv /\ [Next]_vars => OInv'
BY NextIInv, NextInStep, NextOwn DEF OInv, IInv

\* Requests and responses stay in step on every connection whose parser is not
\* stopped for good, however deep the pipeline and whatever is aborted or lost.
THEOREM InStepCorrect == Spec => []InStep
<1>1. OInv => InStep
  BY DEF OInv
<1> QED
  BY <1>1, InitOInv, NextOInv, PTL DEF Spec

\* No caller is ever given the response to another caller's request.
THEOREM OwnResponseCorrect == Spec => []OwnResponse
<1>1. OInv => OwnResponse
  BY DEF OInv
<1> QED
  BY <1>1, InitOInv, NextOInv, PTL DEF Spec


-----------------------------------------------------------------------------
(* Where the packs are, as sets.                                           *)

InWriter(c) == {whand[c]} \ {None}
InReader(c) == {rhand[c]} \ {None}
InPending(c) == Range(pending[c])
InTask(c) == InWriter(c) \cup InReader(c) \cup InPending(c)

\* Calls that wait for an outcome.
Unsettled == {r \in Requests : caller[r] = "waiting" /\ reply[r] = NoReply}

\* A task has each of its packs in one place and once.
OnceInTask(c) ==
  /\ IsInjective(pending[c])
  /\ InWriter(c) \cap InReader(c) = {}
  /\ InWriter(c) \cap InPending(c) = {}
  /\ InReader(c) \cap InPending(c) = {}

\* The queue and the tasks share no pack, and have the unsettled calls' packs among
\* them.
Shared ==
  /\ IsInjective(queue)
  /\ \A c \in Conns : Range(queue) \cap InTask(c) = {}
  /\ \A c, d \in Conns : c # d => InTask(c) \cap InTask(d) = {}
  /\ Range(queue) \cup UNION {InTask(c) : c \in Conns} = Unsettled

\* A reader that has left has seen its writer leave and its channel empty, so that a
\* task which closes its stream has no pack.
ReaderLast == \A c \in Conns : rpc[c] = "done" => wpc[c] = "done" /\ pending[c] = <<>>

\* A call that has not offered its pack has no outcome yet.
NotAsked == \A r \in Requests : caller[r] = "offering" => reply[r] = NoReply

Conserved == Shared /\ (\A c \in Conns : OnceInTask(c)) /\ ReaderLast /\ NotAsked

-----------------------------------------------------------------------------
(* Channels.                                                               *)

\* A pack taken from a channel that has it once is no longer there.
LEMMA ChannelTake ==
  ASSUME NEW S, NEW s \in Seq(S), s # <<>>, IsInjective(s)
  PROVE  /\ Tail(s) \in Seq(S)
         /\ IsInjective(Tail(s))
         /\ Head(s) \in Range(s)
         /\ Range(Tail(s)) = Range(s) \ {Head(s)}
<1> DEFINE t == Tail(s)
<1>1. /\ Len(s) \in Nat \ {0}
      /\ DOMAIN s = 1..Len(s)
      /\ Head(s) = s[1]
  OBVIOUS
<1>2. /\ t \in Seq(S)
      /\ DOMAIN t = 1..Len(s) - 1
      /\ \A i \in 1..Len(s) - 1 : t[i] = s[i + 1]
  OBVIOUS
<1> HIDE DEF t
<1>3. IsInjective(t)
  <2>1. SUFFICES ASSUME NEW i \in 1..Len(s) - 1, NEW j \in 1..Len(s) - 1, t[i] = t[j]
                 PROVE  i = j
    BY <1>2 DEF IsInjective
  <2>2. i + 1 \in DOMAIN s /\ j + 1 \in DOMAIN s /\ s[i + 1] = s[j + 1]
    BY <1>1, <1>2, <2>1
  <2>3. i + 1 = j + 1
    BY <2>2 DEF IsInjective
  <2> QED BY <1>1, <2>3
<1>4. Range(t) \subseteq Range(s) \ {Head(s)}
  BY <1>1, <1>2 DEF IsInjective, Range
<1>5. ASSUME NEW i \in 1..Len(s), s[i] # s[1]
      PROVE  s[i] \in Range(t)
  <2>1. i - 1 \in 1..Len(s) - 1 /\ t[i - 1] = s[i]
    BY <1>1, <1>2, <1>5
  <2> QED BY <1>2, <2>1 DEF Range
<1>6. Range(s) \ {Head(s)} \subseteq Range(t)
  BY <1>1, <1>5 DEF Range
<1>7. Range(t) = Range(s) \ {Head(s)}
  BY <1>4, <1>6
<1>8. Head(s) \in Range(s)
  BY <1>1 DEF Range
<1> QED BY <1>2, <1>3, <1>7, <1>8 DEF t

\* A pack that was not in a channel is there once after it was put there.
LEMMA ChannelPut ==
  ASSUME NEW S, NEW s \in Seq(S), NEW e \in S, e \notin Range(s), IsInjective(s)
  PROVE  /\ Append(s, e) \in Seq(S)
         /\ IsInjective(Append(s, e))
         /\ Range(Append(s, e)) = Range(s) \cup {e}
<1> DEFINE t == Append(s, e)
<1>1. Len(s) \in Nat /\ DOMAIN s = 1..Len(s)
  OBVIOUS
<1>2. /\ t \in Seq(S)
      /\ DOMAIN t = 1..Len(s) + 1
      /\ t[Len(s) + 1] = e
      /\ \A i \in 1..Len(s) : t[i] = s[i]
  OBVIOUS
<1> HIDE DEF t
<1>3. \A i \in 1..Len(s) + 1 : i \in 1..Len(s) \/ i = Len(s) + 1
  BY <1>1
<1>4. \A i \in 1..Len(s) : s[i] # e
  BY <1>1 DEF Range
<1>5. IsInjective(t)
  BY <1>1, <1>2, <1>3, <1>4 DEF IsInjective
<1>6. Range(t) = Range(s) \cup {e}
  <2>1. Range(t) \subseteq Range(s) \cup {e}
    BY <1>1, <1>2, <1>3 DEF Range
  <2>2. Len(s) + 1 \in DOMAIN t /\ \A i \in DOMAIN s : i \in DOMAIN t
    BY <1>1, <1>2
  <2>3. Range(s) \subseteq Range(t) /\ e \in Range(t)
    BY <1>1, <1>2, <2>2 DEF Range
  <2> QED BY <2>1, <2>3
<1> QED BY <1>2, <1>5, <1>6 DEF t


-----------------------------------------------------------------------------
(* From the sets to PackConservation.                                      *)

LEMMA NoPlace ==
  ASSUME NEW r \in Requests, r \notin Range(queue), \A c \in Conns : r \notin InTask(c)
  PROVE  Places(r) = {}
<1>1. {j \in DOMAIN queue : queue[j] = r} = {}
  BY DEF Range
<1>2. {d \in Conns : whand[d] = r} = {} /\ {d \in Conns : rhand[d] = r} = {}
  BY StreamPackAssumption DEF InTask, InWriter, InReader
<1>3. \A c \in Conns : {j \in DOMAIN pending[c] : pending[c][j] = r} = {}
  BY DEF InTask, InPending, Range
<1>4. UNION {{<<"pending", c, i>> : i \in {j \in DOMAIN pending[c] : pending[c][j] = r}}
              : c \in Conns} = {}
  BY <1>3
<1> QED BY <1>1, <1>2, <1>4 DEF Places

LEMMA OnePlace ==
  ASSUME Shared, \A c \in Conns : OnceInTask(c), NEW r \in Unsettled
  PROVE  \E p : Places(r) = {p}
<1>0. r \in Requests /\ r # None
  BY StreamPackAssumption DEF Unsettled
<1> DEFINE Q == {<<"queue", None, i>> : i \in {j \in DOMAIN queue : queue[j] = r}}
           W == {<<"writer", c, 0>> : c \in {d \in Conns : whand[d] = r}}
           R == {<<"reader", c, 0>> : c \in {d \in Conns : rhand[d] = r}}
           P == UNION {{<<"pending", c, i>> : i \in {j \in DOMAIN pending[c] :
                                                       pending[c][j] = r}} : c \in Conns}
<1>1. Places(r) = Q \cup W \cup R \cup P
  BY DEF Places
<1>2. CASE r \in Range(queue)
  <2>1. PICK k \in DOMAIN queue : queue[k] = r
    BY <1>2 DEF Range
  <2>2. {j \in DOMAIN queue : queue[j] = r} = {k}
    BY <2>1 DEF Shared, IsInjective
  <2>3. \A c \in Conns : r \notin InTask(c)
    BY <1>2 DEF Shared
  <2>4. Q = {<<"queue", None, k>>}
    BY <2>2
  <2>5. W = {} /\ R = {}
    BY <1>0, <2>3 DEF InTask, InWriter, InReader
  <2>6. P = {}
    <3>1. \A c \in Conns : {j \in DOMAIN pending[c] : pending[c][j] = r} = {}
      BY <2>3 DEF InTask, InPending, Range
    <3> QED BY <3>1
  <2> QED BY <1>1, <2>4, <2>5, <2>6
<1>3. CASE r \notin Range(queue)
  <2>1. PICK c \in Conns : r \in InTask(c)
    BY <1>3 DEF Shared
  <2>2. \A d \in Conns : d # c => r \notin InTask(d)
    BY <2>1 DEF Shared
  <2>3. Q = {}
    BY <1>3 DEF Range
  <2>4. /\ {d \in Conns : whand[d] = r} = IF whand[c] = r THEN {c} ELSE {}
        /\ {d \in Conns : rhand[d] = r} = IF rhand[c] = r THEN {c} ELSE {}
    BY <1>0, <2>2 DEF InTask, InWriter, InReader
  <2>5. \A d \in Conns : d # c => {j \in DOMAIN pending[d] : pending[d][j] = r} = {}
    BY <2>2 DEF InTask, InPending, Range
  <2>6. P = {<<"pending", c, i>> : i \in {j \in DOMAIN pending[c] : pending[c][j] = r}}
    BY <2>5
  <2>7. CASE r \in InPending(c)
    <3>1. PICK k \in DOMAIN pending[c] : pending[c][k] = r
      BY <2>7 DEF InPending, Range
    <3>2. {j \in DOMAIN pending[c] : pending[c][j] = r} = {k}
      BY <3>1 DEF OnceInTask, IsInjective
    <3>3. P = {<<"pending", c, k>>}
      BY <2>6, <3>2
    <3>4. whand[c] # r /\ rhand[c] # r
      BY <1>0, <2>7 DEF OnceInTask, InWriter, InReader
    <3>5. W = {} /\ R = {}
      BY <2>4, <3>4
    <3> QED BY <1>1, <2>3, <3>3, <3>5
  <2>8. CASE r \notin InPending(c)
    <3>1. {j \in DOMAIN pending[c] : pending[c][j] = r} = {}
      BY <2>8 DEF InPending, Range
    <3>2. P = {}
      BY <2>6, <3>1
    <3>3. CASE whand[c] = r
      <4>1. rhand[c] # r
        BY <1>0, <3>3 DEF OnceInTask, InWriter, InReader
      <4>2. W = {<<"writer", c, 0>>} /\ R = {}
        BY <2>4, <3>3, <4>1
      <4> QED BY <1>1, <2>3, <3>2, <4>2
    <3>4. CASE whand[c] # r
      <4>1. rhand[c] = r
        BY <1>0, <2>1, <2>8, <3>4 DEF InTask, InWriter, InReader
      <4>2. W = {} /\ R = {<<"reader", c, 0>>}
        BY <2>4, <3>4, <4>1
      <4> QED BY <1>1, <2>3, <3>2, <4>2
    <3> QED BY <3>3, <3>4
  <2> QED BY <2>7, <2>8
<1> QED BY <1>2, <1>3

LEMMA ConservedCounts ==
  Conserved => PackConservation
<1> SUFFICES ASSUME Conserved, NEW r \in Requests
             PROVE  Cardinality(Places(r)) =
                      IF caller[r] = "waiting" /\ reply[r] = NoReply THEN 1 ELSE 0
  BY DEF PackConservation
<1>1. CASE r \in Unsettled
  <2>1. \E p : Places(r) = {p}
    BY <1>1, OnePlace DEF Conserved
  <2>2. Cardinality(Places(r)) = 1
    BY <2>1, FS_Singleton
  <2> QED BY <1>1, <2>2 DEF Unsettled
<1>2. CASE r \notin Unsettled
  <2>1. r \notin Range(queue) /\ \A c \in Conns : r \notin InTask(c)
    BY <1>2 DEF Conserved, Shared
  <2>2. Cardinality(Places(r)) = 0
    BY <2>1, NoPlace, FS_EmptySet
  <2> QED BY <1>2, <2>2 DEF Unsettled
<1> QED BY <1>1, <1>2

-----------------------------------------------------------------------------
(* Steps.                                                                  *)

packs == <<queue, whand, rhand, pending>>

\* Packs and outcomes stay where they are.
LEMMA SamePacks ==
  ASSUME Conserved, UNCHANGED <<callers, packs>>, ReaderLast'
  PROVE  Conserved'
<1>1. /\ caller' = caller /\ reply' = reply /\ queue' = queue
      /\ whand' = whand /\ rhand' = rhand /\ pending' = pending
  BY DEF callers, packs
<1>2. Unsettled' = Unsettled /\ \A c : InTask(c)' = InTask(c)
  BY <1>1 DEF Unsettled, InTask, InWriter, InReader, InPending
<1>3. Shared'
  BY <1>1, <1>2 DEF Conserved, Shared
<1>4. \A c \in Conns : OnceInTask(c)'
  BY <1>1 DEF Conserved, OnceInTask, InWriter, InReader, InPending
<1> QED BY <1>1, <1>3, <1>4 DEF Conserved, NotAsked

\* A step of one task, which moves packs between the queue and its own places and
\* settles those of X.
LEMMA SharedStep ==
  ASSUME Shared, NEW c \in Conns, NEW X, X \subseteq Range(queue) \cup InTask(c),
         \A d \in Conns \ {c} : InTask(d)' = InTask(d),
         IsInjective(queue'), Range(queue') \cap InTask(c)' = {},
         Range(queue') \cup InTask(c)' = (Range(queue) \cup InTask(c)) \ X,
         Unsettled' = Unsettled \ X
  PROVE  Shared'
<1> DEFINE M == Range(queue) \cup InTask(c)
           N == Range(queue') \cup InTask(c)'
<1>1. N = M \ X /\ X \subseteq M
  OBVIOUS
<1>2. \A d \in Conns \ {c} : M \cap InTask(d) = {}
  BY DEF Shared
<1>3. M \cup UNION {InTask(d) : d \in Conns \ {c}} = Unsettled
  BY DEF Shared
<1>4. \A d \in Conns : Range(queue') \cap InTask(d)' = {}
  BY <1>1, <1>2
<1>5. \A d, e \in Conns : d # e => InTask(d)' \cap InTask(e)' = {}
  <2> SUFFICES ASSUME NEW d \in Conns, NEW e \in Conns, d # e
               PROVE  InTask(d)' \cap InTask(e)' = {}
    OBVIOUS
  <2>1. CASE d # c /\ e # c
    BY <2>1 DEF Shared
  <2>2. CASE d = c \/ e = c
    BY <1>1, <1>2, <2>2
  <2> QED BY <2>1, <2>2
<1>6. N \cup UNION {InTask(d)' : d \in Conns \ {c}} = Unsettled'
  <2>1. UNION {InTask(d)' : d \in Conns \ {c}} = UNION {InTask(d) : d \in Conns \ {c}}
    OBVIOUS
  <2>2. X \cap UNION {InTask(d) : d \in Conns \ {c}} = {}
    BY <1>1, <1>2
  <2> HIDE DEF M, N
  <2> QED BY <1>1, <1>3, <2>1, <2>2
<1>7. Range(queue') \cup UNION {InTask(d)' : d \in Conns} = Unsettled'
  <2>1. UNION {InTask(d)' : d \in Conns}
          = InTask(c)' \cup UNION {InTask(d)' : d \in Conns \ {c}}
    OBVIOUS
  <2> QED BY <1>6, <2>1
<1> QED BY <1>4, <1>5, <1>7 DEF Shared

\* TrySetResult and TrySetException of a pack whose call waits.
LEMMA SendSettles ==
  ASSUME TypeOK, NotAsked, NEW r \in Unsettled, NEW v, v # NoReply, Send(r, v),
         caller' = caller
  PROVE  Unsettled' = Unsettled \ {r} /\ NotAsked'
<1>1. reply' = [reply EXCEPT ![r] = v] /\ r \in Requests /\ caller[r] = "waiting"
  BY DEF Send, Unsettled
<1>2. \A q \in Requests : reply'[q] = IF q = r THEN v ELSE reply[q]
  BY <1>1 DEF TypeOK
<1> QED BY <1>1, <1>2 DEF Unsettled, NotAsked

LEMMA OfferConserves ==
  ASSUME TypeOK, Conserved, NEW r \in Requests, Offer(r)
  PROVE  Conserved'
<1>1. /\ queue' = Append(queue, r)
      /\ caller[r] = "offering"
      /\ caller' = [caller EXCEPT ![r] = "waiting"]
      /\ reply' = reply
      /\ UNCHANGED <<whand, rhand, pending, wpc, rpc>>
  BY DEF Offer, writer, reader
<1>2. \A q \in Requests : caller'[q] = IF q = r THEN "waiting" ELSE caller[q]
  BY <1>1 DEF TypeOK
<1>3. Unsettled' = Unsettled \cup {r} /\ r \notin Unsettled
  BY <1>1, <1>2 DEF Conserved, NotAsked, Unsettled
<1>4. r \notin Range(queue) /\ \A c \in Conns : r \notin InTask(c)
  BY <1>3 DEF Conserved, Shared
<1>5. /\ IsInjective(queue')
      /\ Range(queue') = Range(queue) \cup {r}
  BY <1>1, <1>4, ChannelPut DEF TypeOK, Conserved, Shared
<1>6. \A c : InTask(c)' = InTask(c)
  BY <1>1 DEF InTask, InWriter, InReader, InPending
<1>7. Shared'
  BY <1>3, <1>4, <1>5, <1>6 DEF Conserved, Shared
<1>8. \A c \in Conns : OnceInTask(c)'
  BY <1>1 DEF Conserved, OnceInTask, InWriter, InReader, InPending
<1>9. ReaderLast' /\ NotAsked'
  BY <1>1, <1>2 DEF Conserved, ReaderLast, NotAsked
<1> QED BY <1>7, <1>8, <1>9 DEF Conserved

\* Asking again, returning and cancelling move no pack.
LEMMA CallerConserves ==
  ASSUME TypeOK, Conserved, NEW r \in Requests, Caller(r)
  PROVE  Conserved'
<1>1. CASE Offer(r)
  BY <1>1, OfferConserves
<1>2. CASE Retry(r) \/ Return(r) \/ Cancel(r)
  <2>1. UNCHANGED <<packs, wpc, rpc>>
    BY <1>2 DEF Retry, Return, Cancel, packs, writer, reader
  <2>2. Unsettled' = Unsettled /\ NotAsked'
    <3>1. CASE Retry(r)
      <4>1. reply[r] # NoReply /\ caller[r] = "waiting"
        BY <3>1 DEF Retry, NoReply
      <4>2. \A q \in Requests :
              /\ caller'[q] = IF q = r THEN "offering" ELSE caller[q]
              /\ reply'[q] = IF q = r THEN NoReply ELSE reply[q]
        BY <3>1 DEF Retry, TypeOK
      <4> QED BY <4>1, <4>2 DEF Unsettled, Conserved, NotAsked
    <3>2. CASE Return(r)
      <4>1. reply[r] # NoReply
        BY <3>2 DEF Return, NoReply
      <4>2. \A q \in Requests : caller'[q] = IF q = r THEN "done" ELSE caller[q]
        BY <3>2 DEF Return, TypeOK
      <4>3. reply' = reply
        BY <3>2 DEF Return
      <4> QED BY <4>1, <4>2, <4>3 DEF Unsettled, Conserved, NotAsked
    <3>3. CASE Cancel(r)
      BY <3>3 DEF Cancel, Unsettled, Conserved, NotAsked
    <3> QED BY <1>2, <3>1, <3>2, <3>3
  <2>3. \A c : InTask(c)' = InTask(c)
    BY <2>1 DEF packs, InTask, InWriter, InReader, InPending
  <2>4. Shared'
    BY <2>1, <2>2, <2>3 DEF packs, Conserved, Shared
  <2>5. \A c \in Conns : OnceInTask(c)'
    BY <2>1 DEF packs, Conserved, OnceInTask, InWriter, InReader, InPending
  <2>6. ReaderLast'
    BY <2>1 DEF packs, Conserved, ReaderLast
  <2> QED BY <2>2, <2>4, <2>5, <2>6 DEF Conserved
<1> QED BY <1>1, <1>2 DEF Caller

\* The exception of a connect takes the oldest pack out of the queue.
LEMMA FailOneConserves ==
  ASSUME TypeOK, Hands, Conserved, NEW c \in Conns, FailOne(c)
  PROVE  Conserved'
<1> DEFINE r == Head(queue)
<1>1. /\ queue # <<>> /\ queue' = Tail(queue) /\ caller' = caller
      /\ UNCHANGED <<whand, rhand, pending, wpc, rpc>>
  BY DEF FailOne, writer, reader
<1>2. Send(r, Failure(cerr[c])) /\ Failure(cerr[c]) # NoReply
  <2>1. cerr[c] # "none"
    BY DEF Hands, FailOne
  <2> QED BY <2>1 DEF FailOne, Failure, NoReply
<1>3. /\ IsInjective(queue') /\ r \in Range(queue) /\ Range(queue') = Range(queue) \ {r}
  BY <1>1, ChannelTake DEF TypeOK, Conserved, Shared
<1>4. r \in Unsettled
  BY <1>3 DEF Conserved, Shared
<1>5. Unsettled' = Unsettled \ {r} /\ NotAsked'
  BY <1>1, <1>2, <1>4, SendSettles DEF Conserved
<1>6. \A d : InTask(d)' = InTask(d)
  BY <1>1 DEF InTask, InWriter, InReader, InPending
<1>7. r \notin InTask(c) /\ Range(queue) \cap InTask(c) = {}
  BY <1>3 DEF Conserved, Shared
<1> HIDE DEF r
<1>8. Shared'
  BY <1>3, <1>5, <1>6, <1>7, SharedStep DEF Conserved
<1>9. (\A d \in Conns : OnceInTask(d)') /\ ReaderLast'
  BY <1>1 DEF Conserved, OnceInTask, InWriter, InReader, InPending, ReaderLast
<1> QED BY <1>5, <1>8, <1>9 DEF Conserved

\* A task that closes its stream has no pack.
LEMMA CloseConserves ==
  ASSUME TypeOK, Hands, Conserved, NEW c \in Conns, CloseStream(c)
  PROVE  Conserved'
<1>1. /\ whand[c] = None /\ rhand[c] = None /\ pending[c] = <<>>
  BY DEF CloseStream, Hands, Conserved, ReaderLast
<1>2. UNCHANGED <<callers, packs>>
  <2>1. whand' = whand /\ rhand' = rhand /\ pending' = pending
    BY <1>1 DEF CloseStream, TypeOK
  <2> QED BY <2>1 DEF CloseStream, packs
<1>3. ReaderLast'
  BY DEF CloseStream, Conserved, ReaderLast, TypeOK
<1> QED BY <1>2, <1>3, SamePacks

-----------------------------------------------------------------------------
(* The writer.                                                             *)

LEMMA WriterTakeConserves ==
  ASSUME TypeOK, Hands, Conserved, NEW c \in Conns, WriterTake(c)
  PROVE  Conserved'
<1> DEFINE r == Head(queue)
<1>1. /\ queue # <<>> /\ queue' = Tail(queue)
      /\ whand[c] = None /\ rpc[c] # "done"
      /\ UNCHANGED <<caller, reply, rhand, pending, rpc>>
  BY DEF WriterTake, Hands, Conserved, ReaderLast, callers, reader
<1>2. /\ whand' = [whand EXCEPT ![c] = r] /\ wpc' = [wpc EXCEPT ![c] = "write"]
  BY DEF WriterTake
<1>3. /\ IsInjective(queue') /\ r \in Range(queue) /\ Range(queue') = Range(queue) \ {r}
  BY <1>1, ChannelTake DEF TypeOK, Conserved, Shared
<1>4. r \in Requests /\ r # None
  BY <1>1, QueueHeadTail, StreamPackAssumption DEF TypeOK
<1> HIDE DEF r
<1>5. \A d \in Conns : whand'[d] = (IF d = c THEN r ELSE whand[d])
  BY <1>2 DEF TypeOK
<1>6. InWriter(c) = {} /\ InWriter(c)' = {r}
  BY <1>1, <1>4, <1>5 DEF InWriter
<1>7. /\ \A d \in Conns \ {c} : InWriter(d)' = InWriter(d)
      /\ \A d : InReader(d)' = InReader(d) /\ InPending(d)' = InPending(d)
  BY <1>1, <1>5 DEF InWriter, InReader, InPending
<1>8. r \notin InTask(c) /\ Range(queue) \cap InTask(c) = {}
  BY <1>3 DEF Conserved, Shared
<1>9. /\ \A d \in Conns \ {c} : InTask(d)' = InTask(d)
      /\ InTask(c)' = InTask(c) \cup {r}
  BY <1>6, <1>7 DEF InTask
<1>10. Unsettled' = Unsettled
  BY <1>1 DEF Unsettled
<1>11. Range(queue') \cap InTask(c)' = {}
  BY <1>3, <1>8, <1>9
<1>12. Range(queue') \cup InTask(c)' = (Range(queue) \cup InTask(c)) \ {}
  BY <1>3, <1>9
<1>13. Shared'
  <2>1. PICK X : X = {}
    OBVIOUS
  <2>2. /\ X \subseteq Range(queue) \cup InTask(c)
        /\ Range(queue') \cup InTask(c)' = (Range(queue) \cup InTask(c)) \ X
        /\ Unsettled' = Unsettled \ X
    BY <1>10, <1>12, <2>1
  <2>3. IsInjective(queue') /\ Shared
    BY <1>3 DEF Conserved
  <2>4. \A d \in Conns \ {c} : InTask(d)' = InTask(d)
    BY <1>9
  <2> QED BY <1>11, <2>2, <2>3, <2>4, SharedStep
<1>14. ASSUME NEW d \in Conns PROVE OnceInTask(d)'
  <2>1. CASE d = c
    BY <1>1, <1>6, <1>7, <1>8, <2>1 DEF Conserved, OnceInTask, InTask
  <2>2. CASE d # c
    BY <1>1, <1>7, <2>2 DEF Conserved, OnceInTask
  <2> QED BY <2>1, <2>2
<1>15. ReaderLast' /\ NotAsked'
  BY <1>1, <1>2 DEF Conserved, ReaderLast, NotAsked, TypeOK
<1> QED BY <1>13, <1>14, <1>15 DEF Conserved

\* The pack in hand is settled with the exception of the write.
LEMMA WriteFailConserves ==
  ASSUME TypeOK, Hands, Conserved, NEW c \in Conns, WriteFail(c)
  PROVE  Conserved'
<1> DEFINE r == whand[c]
<1>1. /\ rpc[c] # "done"
      /\ UNCHANGED <<caller, queue, rhand, pending, rpc>>
  BY DEF WriteFail, Hands, Conserved, ReaderLast, reader
<1>2. /\ whand' = [whand EXCEPT ![c] = None] /\ wpc' = [wpc EXCEPT ![c] = "done"]
      /\ Send(r, Failure("io")) /\ Failure("io") # NoReply
  BY DEF WriteFail, Failure, NoReply
<1>3. InWriter(c) = {r} /\ InWriter(c)' = {}
  BY <1>2 DEF WriteFail, Hands, InWriter, TypeOK
<1>4. r \in InTask(c) /\ r \in Unsettled
  BY <1>3 DEF InTask, Conserved, Shared
<1> HIDE DEF r
<1>5. Unsettled' = Unsettled \ {r} /\ NotAsked'
  BY <1>1, <1>2, <1>4, SendSettles DEF Conserved
<1>6. /\ \A d \in Conns \ {c} : InWriter(d)' = InWriter(d)
      /\ \A d : InReader(d)' = InReader(d) /\ InPending(d)' = InPending(d)
  BY <1>1, <1>2 DEF InWriter, InReader, InPending, TypeOK
<1>7. r \notin InReader(c) /\ r \notin InPending(c)
  BY <1>3 DEF Conserved, OnceInTask
<1>8. /\ \A d \in Conns \ {c} : InTask(d)' = InTask(d)
      /\ InTask(c)' = InTask(c) \ {r}
  BY <1>3, <1>6, <1>7 DEF InTask
<1>9. Range(queue) \cap InTask(c) = {} /\ IsInjective(queue')
  BY <1>1 DEF Conserved, Shared
<1>10. /\ Range(queue') \cap InTask(c)' = {}
       /\ Range(queue') \cup InTask(c)' = (Range(queue) \cup InTask(c)) \ {r}
  BY <1>1, <1>4, <1>8, <1>9
<1>11. Shared'
  <2>1. {r} \subseteq Range(queue) \cup InTask(c) /\ Shared
    BY <1>4 DEF Conserved
  <2>2. \A d \in Conns \ {c} : InTask(d)' = InTask(d)
    BY <1>8
  <2> QED BY <1>5, <1>9, <1>10, <2>1, <2>2, SharedStep
<1>12. ASSUME NEW d \in Conns PROVE OnceInTask(d)'
  <2>1. CASE d = c
    BY <1>1, <1>3, <1>6, <2>1 DEF Conserved, OnceInTask
  <2>2. CASE d # c
    BY <1>1, <1>6, <2>2 DEF Conserved, OnceInTask
  <2> QED BY <2>1, <2>2
<1>13. ReaderLast'
  BY <1>1, <1>2 DEF Conserved, ReaderLast, TypeOK
<1> QED BY <1>5, <1>11, <1>12, <1>13 DEF Conserved

LEMMA WriterPushConserves ==
  ASSUME TypeOK, Hands, Conserved, NEW c \in Conns, WriterPush(c)
  PROVE  Conserved'
<1> DEFINE r == whand[c]
<1>1. /\ rpc[c] # "done"
      /\ UNCHANGED <<caller, reply, queue, rhand, rpc>>
  BY DEF WriterPush, Conserved, ReaderLast, callers, reader
<1>2. /\ whand' = [whand EXCEPT ![c] = None]
      /\ pending' = [pending EXCEPT ![c] = Append(pending[c], r)]
      /\ \A d \in Conns \ {c} : wpc'[d] = wpc[d]
  BY DEF WriterPush, TypeOK
<1>3. r \in Requests /\ r # None
  BY DEF WriterPush, Hands, TypeOK
<1>4. InWriter(c) = {r} /\ InWriter(c)' = {}
  BY <1>2, <1>3 DEF InWriter, TypeOK
<1>5. r \notin InReader(c) /\ r \notin InPending(c)
  BY <1>4 DEF Conserved, OnceInTask
<1> HIDE DEF r
<1>6. pending'[c] = Append(pending[c], r) /\ \A d \in Conns \ {c} : pending'[d] = pending[d]
  BY <1>2 DEF TypeOK
<1>7. IsInjective(pending'[c]) /\ InPending(c)' = InPending(c) \cup {r}
  <2>1. pending[c] \in Seq(Requests) /\ IsInjective(pending[c]) /\ r \notin Range(pending[c])
    BY <1>5 DEF TypeOK, Conserved, OnceInTask, InPending
  <2> QED BY <1>3, <1>6, <2>1, ChannelPut DEF InPending
<1>8. /\ \A d \in Conns \ {c} : InWriter(d)' = InWriter(d) /\ InPending(d)' = InPending(d)
      /\ \A d : InReader(d)' = InReader(d)
  BY <1>1, <1>2, <1>6 DEF InWriter, InReader, InPending, TypeOK
<1>9. \A d \in Conns : InTask(d)' = InTask(d)
  BY <1>4, <1>7, <1>8 DEF InTask
<1>10. Unsettled' = Unsettled
  BY <1>1 DEF Unsettled
<1>11. Shared'
  BY <1>1, <1>9, <1>10 DEF Conserved, Shared
<1>12. ASSUME NEW d \in Conns PROVE OnceInTask(d)'
  <2>1. CASE d = c
    BY <1>4, <1>5, <1>7, <1>8, <2>1 DEF Conserved, OnceInTask
  <2>2. CASE d # c
    BY <1>6, <1>8, <2>2 DEF Conserved, OnceInTask
  <2> QED BY <2>1, <2>2
<1>13. ReaderLast' /\ NotAsked'
  BY <1>1, <1>2, <1>6 DEF Conserved, ReaderLast, NotAsked
<1> QED BY <1>11, <1>12, <1>13 DEF Conserved

LEMMA WriterConserves ==
  ASSUME TypeOK, Hands, Conserved, NEW c \in Conns, Writer(c)
  PROVE  Conserved'
<1>1. CASE WriterIdle(c) \/ Write(c)
  <2>1. UNCHANGED <<callers, packs, rpc>>
    BY <1>1 DEF WriterIdle, Write, packs, reader
  <2>2. ReaderLast'
    BY <1>1, <2>1 DEF WriterIdle, Write, packs, Conserved, ReaderLast, TypeOK
  <2> QED BY <2>1, <2>2, SamePacks
<1> QED BY <1>1, WriterTakeConserves, WriteFailConserves, WriterPushConserves DEF Writer

-----------------------------------------------------------------------------
(* The reader.                                                             *)

LEMMA ReaderTakeConserves ==
  ASSUME TypeOK, Hands, Conserved, NEW c \in Conns, ReaderTake(c)
  PROVE  Conserved'
<1> DEFINE r == Head(pending[c])
<1>1. /\ pending[c] # <<>> /\ rhand[c] = None
      /\ UNCHANGED <<caller, reply, queue, whand, wpc>>
  BY DEF ReaderTake, Hands, callers, writer
<1>2. /\ rhand' = [rhand EXCEPT ![c] = r]
      /\ pending' = [pending EXCEPT ![c] = Tail(pending[c])]
      /\ rpc' = [rpc EXCEPT ![c] = "read"]
  BY DEF ReaderTake
<1>3. pending[c] \in Seq(Requests) /\ IsInjective(pending[c])
  BY DEF TypeOK, Conserved, OnceInTask
<1>4. /\ r \in Requests /\ r # None
      /\ r \in Range(pending[c])
      /\ IsInjective(Tail(pending[c]))
      /\ Range(Tail(pending[c])) = Range(pending[c]) \ {r}
  BY <1>1, <1>3, QueueHeadTail, ChannelTake, StreamPackAssumption
<1> HIDE DEF r
<1>5. /\ pending'[c] = Tail(pending[c]) /\ rhand'[c] = r
      /\ \A d \in Conns \ {c} : pending'[d] = pending[d] /\ rhand'[d] = rhand[d]
  BY <1>2 DEF TypeOK
<1>6. /\ InReader(c) = {} /\ InReader(c)' = {r}
      /\ r \in InPending(c) /\ InPending(c)' = InPending(c) \ {r}
  BY <1>1, <1>4, <1>5 DEF InReader, InPending
<1>7. /\ \A d \in Conns \ {c} : InReader(d)' = InReader(d) /\ InPending(d)' = InPending(d)
      /\ \A d : InWriter(d)' = InWriter(d)
  BY <1>1, <1>5 DEF InWriter, InReader, InPending
<1>8. \A d \in Conns : InTask(d)' = InTask(d)
  BY <1>6, <1>7 DEF InTask
<1>9. Unsettled' = Unsettled
  BY <1>1 DEF Unsettled
<1>10. Shared'
  BY <1>1, <1>8, <1>9 DEF Conserved, Shared
<1>11. ASSUME NEW d \in Conns PROVE OnceInTask(d)'
  <2>1. CASE d = c
    BY <1>4, <1>5, <1>6, <1>7, <2>1 DEF Conserved, OnceInTask
  <2>2. CASE d # c
    BY <1>5, <1>7, <2>2 DEF Conserved, OnceInTask
  <2> QED BY <2>1, <2>2
<1>12. ReaderLast' /\ NotAsked'
  BY <1>1, <1>2, <1>5 DEF Conserved, ReaderLast, NotAsked, TypeOK
<1> QED BY <1>10, <1>11, <1>12 DEF Conserved

\* The reader settles its pack, with a response or an exception.
LEMMA ReaderSendConserves ==
  ASSUME TypeOK, Hands, Conserved, NEW c \in Conns, NEW v, v # NoReply,
         rpc[c] = "read", ReaderSend(c, v)
  PROVE  Conserved'
<1> DEFINE r == rhand[c]
<1>1. UNCHANGED <<caller, queue, whand, wpc, pending>>
  BY DEF ReaderSend, writer
<1>2. /\ rhand' = [rhand EXCEPT ![c] = None]
      /\ rpc' = [rpc EXCEPT ![c] = "take"]
      /\ Send(r, v)
  BY DEF ReaderSend
<1>3. InReader(c) = {r} /\ InReader(c)' = {}
  BY <1>2 DEF Hands, InReader, TypeOK
<1>4. r \in InTask(c) /\ r \in Unsettled
  BY <1>3 DEF InTask, Conserved, Shared
<1> HIDE DEF r
<1>5. Unsettled' = Unsettled \ {r} /\ NotAsked'
  BY <1>1, <1>2, <1>4, SendSettles DEF Conserved
<1>6. /\ \A d \in Conns \ {c} : InReader(d)' = InReader(d)
      /\ \A d : InWriter(d)' = InWriter(d) /\ InPending(d)' = InPending(d)
  BY <1>1, <1>2 DEF InWriter, InReader, InPending, TypeOK
<1>7. r \notin InWriter(c) /\ r \notin InPending(c)
  BY <1>3 DEF Conserved, OnceInTask
<1>8. /\ \A d \in Conns \ {c} : InTask(d)' = InTask(d)
      /\ InTask(c)' = InTask(c) \ {r}
  BY <1>3, <1>6, <1>7 DEF InTask
<1>9. Range(queue) \cap InTask(c) = {} /\ IsInjective(queue')
  BY <1>1 DEF Conserved, Shared
<1>10. /\ Range(queue') \cap InTask(c)' = {}
       /\ Range(queue') \cup InTask(c)' = (Range(queue) \cup InTask(c)) \ {r}
  BY <1>1, <1>4, <1>8, <1>9
<1>11. Shared'
  <2>1. {r} \subseteq Range(queue) \cup InTask(c) /\ Shared
    BY <1>4 DEF Conserved
  <2>2. \A d \in Conns \ {c} : InTask(d)' = InTask(d)
    BY <1>8
  <2> QED BY <1>5, <1>9, <1>10, <2>1, <2>2, SharedStep
<1>12. ASSUME NEW d \in Conns PROVE OnceInTask(d)'
  <2>1. CASE d = c
    BY <1>1, <1>3, <1>6, <2>1 DEF Conserved, OnceInTask
  <2>2. CASE d # c
    BY <1>1, <1>6, <2>2 DEF Conserved, OnceInTask
  <2> QED BY <2>1, <2>2
<1>13. ReaderLast'
  BY <1>1, <1>2 DEF Conserved, ReaderLast, TypeOK
<1> QED BY <1>5, <1>11, <1>12, <1>13 DEF Conserved

\* What the reader sends, and when.
LEMMA ReaderSends ==
  ASSUME TypeOK, NEW c \in Conns, ReadResponse(c) \/ ReadRefused(c) \/ ReadFail(c)
  PROVE  rpc[c] = "read" /\ \E v \in Replies \ {NoReply} : ReaderSend(c, v)
<1>1. CASE ReadResponse(c)
  <2>1. Head(inbox[c]) \in Frames
    BY <1>1, QueueHeadTail DEF ReadResponse, Readable, TypeOK
  <2>2. Response(Head(inbox[c]).of) \in Replies \ {NoReply}
    BY <2>1, ReplyTypes DEF Frames, Response, NoReply
  <2> QED BY <1>1, <2>2 DEF ReadResponse
<1>2. CASE ReadRefused(c) \/ ReadFail(c)
  <2>1. \A k \in Errors : Failure(k) \in Replies \ {NoReply}
    BY ReplyTypes DEF Errors, Failure, NoReply
  <2>2. PICK k \in Errors : ReaderSend(c, Failure(k)) /\ rpc[c] = "read"
    BY <1>2, ReadErrorsType DEF ReadRefused, ReadFail, Errors
  <2> QED BY <2>1, <2>2
<1> QED BY <1>1, <1>2

LEMMA ReaderConserves ==
  ASSUME TypeOK, Hands, Conserved, NEW c \in Conns, Reader(c) \/ Cencel(c)
  PROVE  Conserved'
<1>1. CASE ReadResponse(c) \/ ReadRefused(c) \/ ReadFail(c)
  BY <1>1, ReaderSends, ReaderSendConserves
<1>2. CASE ReaderExit(c)
  <2>1. UNCHANGED <<callers, packs, wpc>>
    BY <1>2 DEF ReaderExit, packs, writer
  <2>2. ReaderLast'
    BY <1>2, <2>1 DEF ReaderExit, packs, Conserved, ReaderLast, TypeOK
  <2> QED BY <2>1, <2>2, SamePacks
<1>3. CASE Cencel(c)
  <2>1. UNCHANGED <<callers, packs, wpc, rpc>>
    BY <1>3 DEF Cencel, packs, writer, reader
  <2>2. ReaderLast'
    BY <2>1 DEF packs, Conserved, ReaderLast
  <2> QED BY <2>1, <2>2, SamePacks
<1> QED BY <1>1, <1>2, <1>3, ReaderTakeConserves DEF Reader

-----------------------------------------------------------------------------
(* Every step.                                                             *)

\* The steps that move no pack and end no loop.
LEMMA ElsewhereConserves ==
  ASSUME Conserved, UNCHANGED <<callers, packs, wpc, rpc>>
  PROVE  Conserved'
<1>1. ReaderLast'
  BY DEF packs, Conserved, ReaderLast
<1> QED BY <1>1, SamePacks

LEMMA NextConserves ==
  ASSUME TypeOK, Hands, Conserved, [Next]_vars
  PROVE  Conserved'
<1>1. ASSUME NEW c \in Conns, Connection(c)
      PROVE  Conserved'
  <2>1. CASE ConnectOk(c)
    <3>1. UNCHANGED <<callers, packs>>
      BY <2>1 DEF ConnectOk, packs
    <3>2. ReaderLast'
      BY <2>1 DEF ConnectOk, Conserved, ReaderLast, Hands, TypeOK
    <3> QED BY <3>1, <3>2, SamePacks
  <2>2. CASE ConnectFail(c)
    BY <2>2, ElsewhereConserves DEF ConnectFail, packs, writer, reader
  <2> QED BY <1>1, <2>1, <2>2, FailOneConserves, CloseConserves DEF Connection
<1>2. CASE Dispatcher
  BY <1>2, ElsewhereConserves DEF Dispatcher, AddTaskWait, AddTaskSpawn, packs, writer, reader
<1>3. ASSUME NEW c \in Conns, Server(c)
      PROVE  Conserved'
  BY <1>3, ElsewhereConserves DEF Server, Answer, Unsolicited, PeerClose, packs, writer, reader
<1>4. CASE UNCHANGED vars
  BY <1>4, ElsewhereConserves DEF vars, packs, writer, reader
<1> QED BY <1>1, <1>2, <1>3, <1>4, CallerConserves, WriterConserves, ReaderConserves
        DEF Next, Finished

LEMMA InitConserves ==
  Init => Conserved
<1> SUFFICES ASSUME Init PROVE Conserved
  OBVIOUS
<1>1. Range(<<>>) = {} /\ IsInjective(<<>>)
  BY DEF Range, IsInjective
<1>2. \A c \in Conns :
        InWriter(c) = {} /\ InReader(c) = {} /\ InPending(c) = {} /\ pending[c] = <<>>
  BY <1>1 DEF Init, InWriter, InReader, InPending
<1>3. Unsettled = {}
  BY DEF Init, Unsettled
<1>4. Shared
  BY <1>1, <1>2, <1>3 DEF Init, Shared, InTask
<1>5. \A c \in Conns : OnceInTask(c)
  BY <1>1, <1>2 DEF OnceInTask
<1> QED BY <1>4, <1>5 DEF Init, Conserved, ReaderLast, NotAsked

-----------------------------------------------------------------------------
CInv == OInv /\ Conserved

LEMMA InitCInv == Init => CInv
BY InitOInv, InitConserves DEF CInv

LEMMA NextCInv == CInv /\ [Next]_vars => CInv'
BY NextOInv, NextConserves DEF CInv, OInv, IInv

\* However many calls, connections and faults there are, a pack whose call waits is in
\* exactly one hand or channel, and a settled one in none (WriteRequestAsync,
\* ReadResponseAsync, AddTask1: no way a loop ends loses a pack).
THEOREM NoPackLost == Spec => []PackConservation
<1>1. CInv => PackConservation
  BY ConservedCounts DEF CInv
<1> QED BY <1>1, InitCInv, NextCInv, PTL DEF Spec

-----------------------------------------------------------------------------
(* The pool implements the service.                                        *)

\* A pack that is sent an outcome of its own has not been settled before.
LEMMA SettleStep ==
  ASSUME NEW r \in Unsettled, NEW v \in Replies \ {NoReply}, Send(r, v),
         v.kind = "response" => v.of \in {r, None}, caller' = caller
  PROVE  Service!Settle(r)
<1>1. caller[r] = "waiting" /\ reply[r] = NoReply /\ reply' = [reply EXCEPT ![r] = v]
  BY DEF Unsettled, Send
<1>2. v \in Service!Outcomes(r)
  <2>1. CASE \E of \in Requests \cup {None} : v = Response(of)
    <3>1. PICK of \in Requests \cup {None} : v = Response(of)
      BY <2>1
    <3>2. of \in {r, None}
      BY <3>1 DEF Response
    <3> QED BY <3>1, <3>2 DEF Service!Outcomes, Response
  <2>2. CASE \E k \in Errors : v = Failure(k)
    BY <2>2 DEF Service!Outcomes, Failure, Errors
  <2> QED BY <2>1, <2>2 DEF Replies
<1>3. reply[r] = Service!NoReply
  BY <1>1 DEF NoReply, Service!NoReply
<1> QED BY <1>1, <1>2, <1>3 DEF Service!Settle

LEMMA ServiceStep ==
  CInv /\ [Next]_vars => [Service!Next]_Service!vars
<1> SUFFICES ASSUME CInv, [Next]_vars PROVE Service!Next \/ UNCHANGED callers \/ UNCHANGED Service!vars
  BY DEF callers, Service!vars
<1>0. TypeOK /\ Hands /\ Conserved /\ OwnResponse'
  BY NextCInv DEF CInv, OInv, IInv
<1>1. ASSUME NEW r \in Requests, Caller(r)
      PROVE  Service!Next \/ UNCHANGED Service!vars
  <2>1. CASE Offer(r)
    BY <2>1 DEF Offer, Service!Next, Service!Ask
  <2>2. CASE Retry(r)
    BY <2>2 DEF Retry, NoReply, Service!Next, Service!AskAgain, Service!NoReply
  <2>3. CASE Return(r)
    <3>1. reply[r] # Service!NoReply
      BY <2>3 DEF Return, Service!NoReply
    <3> QED BY <2>3, <3>1 DEF Return, Service!Next, Service!Return
  <2>4. CASE Cancel(r)
    BY <2>4 DEF Cancel, Service!vars
  <2> QED BY <1>1, <2>1, <2>2, <2>3, <2>4 DEF Caller
<1>2. ASSUME NEW r \in Unsettled, NEW v \in Replies \ {NoReply}, Send(r, v), caller' = caller
      PROVE  Service!Next
  <2>1. r \in Requests /\ reply'[r] = v
    BY <1>0, <1>2 DEF Send, Unsettled, TypeOK
  <2>2. v.kind = "response" => v.of \in {r, None}
    BY <1>0, <2>1 DEF OwnResponse
  <2> QED BY <1>2, <2>1, <2>2, SettleStep DEF Service!Next
<1>3. \A k \in Errors : Failure(k) \in Replies \ {NoReply}
  BY ReplyTypes DEF Errors, Failure, NoReply
<1>4. ASSUME NEW c \in Conns, FailOne(c)
      PROVE  Service!Next
  <2>1. Head(queue) \in Range(queue)
    BY <1>0, <1>4, ChannelTake DEF FailOne, TypeOK, Conserved, Shared
  <2>2. Head(queue) \in Unsettled
    BY <1>0, <2>1 DEF Conserved, Shared
  <2>3. cerr[c] \in Errors
    BY <1>0, <1>4 DEF FailOne, Hands, TypeOK, Errors
  <2> QED BY <1>2, <1>3, <1>4, <2>2, <2>3 DEF FailOne
<1>5. ASSUME NEW c \in Conns, WriteFail(c)
      PROVE  Service!Next
  <2>1. whand[c] \in InTask(c)
    BY <1>0, <1>5 DEF WriteFail, Hands, InTask, InWriter
  <2>2. whand[c] \in Unsettled
    BY <1>0, <2>1 DEF Conserved, Shared
  <2>3. "io" \in Errors
    BY DEF Errors
  <2> QED BY <1>2, <1>3, <1>5, <2>2, <2>3 DEF WriteFail
<1>6. ASSUME NEW c \in Conns, ReadResponse(c) \/ ReadRefused(c) \/ ReadFail(c)
      PROVE  Service!Next
  <2>1. PICK v \in Replies \ {NoReply} : ReaderSend(c, v)
    BY <1>0, <1>6, ReaderSends
  <2>2. rpc[c] = "read"
    BY <1>0, <1>6, ReaderSends
  <2>3. rhand[c] \in InTask(c)
    BY <1>0, <2>2 DEF Hands, InTask, InReader
  <2>4. rhand[c] \in Unsettled
    BY <1>0, <2>3 DEF Conserved, Shared
  <2> QED BY <1>2, <2>1, <2>4 DEF ReaderSend
<1>7. ASSUME NEW c \in Conns, Connection(c), ~FailOne(c)
      PROVE  UNCHANGED callers
  BY <1>7 DEF Connection, ConnectOk, ConnectFail, CloseStream
<1>8. ASSUME NEW c \in Conns, Writer(c), ~WriteFail(c)
      PROVE  UNCHANGED callers
  BY <1>8 DEF Writer, WriterTake, WriterIdle, Write, WriterPush
<1>9. ASSUME NEW c \in Conns, ReaderTake(c) \/ ReaderExit(c) \/ Cencel(c) \/ Server(c)
      PROVE  UNCHANGED callers
  BY <1>9 DEF ReaderTake, ReaderExit, Cencel, Server, Answer, Unsolicited, PeerClose
<1>10. CASE Dispatcher \/ UNCHANGED vars
  BY <1>10 DEF Dispatcher, AddTaskWait, AddTaskSpawn, vars
<1> QED BY <1>1, <1>4, <1>5, <1>6, <1>7, <1>8, <1>9, <1>10 DEF Next, Finished, Reader

\* From its callers' side the pool is the service, for any number of calls, connections
\* and faults: an outcome comes once, is the call's own, and only an I/O failure makes
\* it ask again (Internal_SendAsync).
THEOREM PoolImplementsService == Spec => ServiceSpec
<1>1. Init => Service!Init
  BY DEF Init, NoReply, Service!Init, Service!NoReply
<1> QED BY <1>1, InitCInv, NextCInv, ServiceStep, PTL DEF Spec, ServiceSpec, Service!Spec

=============================================================================
