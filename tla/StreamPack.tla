----------------------------- MODULE StreamPack -----------------------------
(***************************************************************************)
(* The connection pool of LeiKaiFeng.Http: MHttpClient.Internal_SendAsync, *)
(* RequestPack and MHttpStreamPack (MHttpClient.cs), for one host.         *)
(*                                                                         *)
(* A caller puts a pack in the host's bounded channel `queue` and awaits   *)
(* the pack's task.  A dispatcher (AddTask) starts a task per connection   *)
(* (AddTask1) whenever the channel is not empty and the semaphore `slim`   *)
(* has a permit.  A connected task runs a writer, which moves packs from   *)
(* `queue` through the socket to the bounded channel `pending[c]`, and a   *)
(* reader, which takes them from there and completes each with the next    *)
(* response of the socket: requests are pipelined.  Cancelling or timing   *)
(* out a request closes the socket under both loops.                       *)
(*                                                                         *)
(* The server is the environment: it answers the requests of a connection  *)
(* in order, with whatever a response can be to this parser, may send a    *)
(* frame nobody asked for before it closes, and may close at any time.     *)
(***************************************************************************)
EXTENDS Naturals, Sequences, FiniteSets

CONSTANTS
  Requests,                      \* the calls of Internal_SendAsync
  Conns,                         \* identities for the tasks AddTask spawns
  None,                          \* no request: an empty hand, a stray frame
  MaxStreamPoolCount,            \* permits of slim, capacity of queue
  MaxStreamParallelRequestCount, \* capacity of each pending channel
  MaxStreamRequestCount,         \* packs a writer takes before it stops
  HasIdleTimeOut,                \* MaxStreamWaitTimeSpan is finite
  HasResponseTimeOut,            \* ResponseTimeOut is finite
  MaxFaults                      \* bound on what the environment may break

ASSUME StreamPackAssumption ==
  /\ IsFiniteSet(Conns)
  /\ None \notin Requests
  /\ MaxStreamPoolCount \in Nat \ {0}
  /\ MaxStreamParallelRequestCount \in Nat \ {0}
  /\ MaxStreamRequestCount \in Nat \ {0}
  /\ HasIdleTimeOut \in BOOLEAN
  /\ HasResponseTimeOut \in BOOLEAN
  /\ MaxFaults \in Nat

VARIABLES
  caller,     \* where each Internal_SendAsync stands
  reply,      \* what the pack's TaskCompletionSource holds
  cancelled,  \* requests whose CancellationToken is cancelled
  queue,      \* channel of MHttpStreamPack.Create
  dpc, slim,  \* AddTask's position and its SemaphoreSlim
  task,       \* per connection: the stage of AddTask1
  cerr,       \* exception createStream caught
  sock,       \* the socket: open, broken by the peer, closed by Cencel ("cut"
              \* while the read it interrupts may be pending, then "aborted")
  wpc, whand, wcount,  \* WriteRequestAsync: position, pack in hand, packs taken
  pending,    \* channel of AddTask2
  rpc, rhand, \* ReadResponseAsync: position, pack in hand
  wire,       \* requests written and not answered yet
  inbox,      \* frames sent by the server and not parsed yet
  faults      \* faults the environment may still inject

callers == <<caller, reply, cancelled>>
dispatcher == <<dpc, slim>>
stream == <<sock, wire, inbox>>
writer == <<wpc, whand, wcount>>
reader == <<rpc, rhand>>
vars == <<callers, queue, dispatcher, task, cerr, stream, writer, pending,
          reader, faults>>

-----------------------------------------------------------------------------
(* Data.                                                                   *)

\* What a caller's task may hold.  "io" stands for IOException and
\* ObjectDisposedException, "cancel" for OperationCanceledException, "proto"
\* for the exceptions of the parser, "connect" for a SocketException, a
\* cancelled connect or a refused certificate.
NoReply == [kind |-> "none", of |-> None]
Response(of) == [kind |-> "response", of |-> of]
Failure(k) == [kind |-> k, of |-> None]
Errors == {"io", "cancel", "proto", "connect"}
Replies == {NoReply} \cup {Response(of) : of \in Requests \cup {None}}
                     \cup {Failure(k) : k \in Errors}

\* What a response can be to MHttpResponse.ReadAsync: parsed whole ("good");
\* complete with no content byte, which the parser notices only when a later
\* byte arrives ("empty"); refused before its header is consumed, so that it
\* stays at the head of the buffer ("stuck": no length, content too long,
\* unsupported coding, bad status line); refused in the middle of its body,
\* the rest left in the buffer ("torn": bad chunk, bad gzip data).
Kinds == {"good", "empty", "stuck", "torn"}
Frame(of, k) == [of |-> of, kind |-> k]
Frames == [of : Requests \cup {None}, kind : Kinds]

\* Some of what was sent is already in m_buffer and stays readable when the
\* socket goes; the rest is lost.
Survivors(s) == {SubSeq(s, 1, n) : n \in 0..Len(s)}

Readable(c) == /\ inbox[c] # <<>>
               /\ Head(inbox[c]).kind = "empty" => Len(inbox[c]) > 1

\* RequestPack.Send: TrySetResult and TrySetException keep the first value.
Send(r, v) ==
  reply' = IF reply[r] = NoReply THEN [reply EXCEPT ![r] = v] ELSE reply

-----------------------------------------------------------------------------
Init ==
  /\ caller = [r \in Requests |-> "offering"]
  /\ reply = [r \in Requests |-> NoReply]
  /\ cancelled = {}
  /\ queue = <<>>
  /\ dpc = "wait"
  /\ slim = MaxStreamPoolCount
  /\ task = [c \in Conns |-> "idle"]
  /\ cerr = [c \in Conns |-> "none"]
  /\ sock = [c \in Conns |-> "none"]
  /\ wpc = [c \in Conns |-> "none"]
  /\ whand = [c \in Conns |-> None]
  /\ wcount = [c \in Conns |-> 0]
  /\ pending = [c \in Conns |-> <<>>]
  /\ rpc = [c \in Conns |-> "none"]
  /\ rhand = [c \in Conns |-> None]
  /\ wire = [c \in Conns |-> <<>>]
  /\ inbox = [c \in Conns |-> <<>>]
  /\ faults = MaxFaults

-----------------------------------------------------------------------------
(* Callers: Internal_SendAsync and the owner of the CancellationToken.     *)

\* writer.WriteAsync(pack): waits while the channel is full.
Offer(r) ==
  /\ caller[r] = "offering"
  /\ Len(queue) < MaxStreamPoolCount
  /\ queue' = Append(queue, r)
  /\ caller' = [caller EXCEPT ![r] = "waiting"]
  /\ UNCHANGED <<reply, cancelled, dispatcher, task, cerr, stream, writer,
                 pending, reader, faults>>

\* Mutant of Retry: a cancelled call is sent again as well.
RetryCancelled(r) ==
  /\ caller[r] = "waiting"
  /\ reply[r].kind \in {"io", "cancel"}
  /\ caller' = [caller EXCEPT ![r] = "offering"]
  /\ reply' = [reply EXCEPT ![r] = NoReply]
  /\ UNCHANGED <<cancelled, queue, dispatcher, task, cerr, stream, writer,
                 pending, reader, faults>>

\* catch IOException / ObjectDisposedException: a new pack, same request.
Retry(r) ==
  /\ caller[r] = "waiting"
  /\ reply[r].kind = "io"
  /\ caller' = [caller EXCEPT ![r] = "offering"]
  /\ reply' = [reply EXCEPT ![r] = NoReply]
  /\ UNCHANGED <<cancelled, queue, dispatcher, task, cerr, stream, writer,
                 pending, reader, faults>>

\* A response is returned, any other exception leaves as MHttpClientException.
Return(r) ==
  /\ caller[r] = "waiting"
  /\ reply[r].kind \notin {"none", "io"}
  /\ caller' = [caller EXCEPT ![r] = "done"]
  /\ UNCHANGED <<reply, cancelled, queue, dispatcher, task, cerr, stream,
                 writer, pending, reader, faults>>

\* The token is looked at by the reader only (see ReaderTake and Cencel).
Cancel(r) ==
  /\ caller[r] # "done"
  /\ r \notin cancelled
  /\ cancelled' = cancelled \cup {r}
  /\ UNCHANGED <<caller, reply, queue, dispatcher, task, cerr, stream, writer,
                 pending, reader, faults>>

-----------------------------------------------------------------------------
(* AddTask: the dispatcher.                                                *)

\* WaitToReadAsync looks at the channel, and does not take from it.
AddTaskWait ==
  /\ dpc = "wait"
  /\ queue # <<>>
  /\ dpc' = "slim"
  /\ UNCHANGED <<callers, queue, slim, task, cerr, stream, writer, pending,
                 reader, faults>>

\* slim.WaitAsync, then Task.Run(AddTask1) without looking at queue again.
AddTaskSpawn(c) ==
  /\ dpc = "slim"
  /\ slim > 0
  /\ task[c] = "idle"
  /\ slim' = slim - 1
  /\ dpc' = "wait"
  /\ task' = [task EXCEPT ![c] = "connecting"]
  /\ UNCHANGED <<callers, queue, cerr, stream, writer, pending, reader, faults>>

-----------------------------------------------------------------------------
(* AddTask1: connect, run both loops, close, release.                      *)

\* StreamCallback returns a stream: AddTask2 starts reader and writer.
ConnectOk(c) ==
  /\ task[c] = "connecting"
  /\ task' = [task EXCEPT ![c] = "open"]
  /\ cerr' = [cerr EXCEPT ![c] = "none"]
  /\ sock' = [sock EXCEPT ![c] = "open"]
  /\ wpc' = [wpc EXCEPT ![c] = "take"]
  /\ rpc' = [rpc EXCEPT ![c] = "take"]
  /\ UNCHANGED <<callers, queue, dispatcher, wire, inbox, whand, wcount,
                 pending, rhand, faults>>

\* StreamCallback throws: SocketException or the like, or an IOException of
\* the TLS handshake.
ConnectFail(c) ==
  /\ task[c] = "connecting"
  /\ faults > 0
  /\ faults' = faults - 1
  /\ task' = [task EXCEPT ![c] = "failed"]
  /\ \E e \in {"connect", "io"} : cerr' = [cerr EXCEPT ![c] = e]
  /\ UNCHANGED <<callers, queue, dispatcher, stream, writer, pending, reader>>

\* Mutant of FailOne: the task ends here, and its permit is not released.
FailOneAndEnd(c) ==
  /\ task[c] = "failed"
  /\ queue # <<>>
  /\ Send(Head(queue), Failure(cerr[c]))
  /\ queue' = Tail(queue)
  /\ task' = [task EXCEPT ![c] = "idle"]
  /\ UNCHANGED <<caller, cancelled, dispatcher, cerr, stream, writer, pending,
                 reader, faults>>

\* The exception goes to whichever pack comes next, then it connects again.
FailOne(c) ==
  /\ task[c] = "failed"
  /\ queue # <<>>
  /\ Send(Head(queue), Failure(cerr[c]))
  /\ queue' = Tail(queue)
  /\ task' = [task EXCEPT ![c] = "connecting"]
  /\ UNCHANGED <<caller, cancelled, dispatcher, cerr, stream, writer, pending,
                 reader, faults>>

\* Mutant of CloseStream: the permit is not released.
CloseStreamKeepPermit(c) ==
  /\ task[c] = "open"
  /\ wpc[c] = "done"
  /\ rpc[c] = "done"
  /\ task' = [task EXCEPT ![c] = "idle"]
  /\ sock' = [sock EXCEPT ![c] = "none"]
  /\ wpc' = [wpc EXCEPT ![c] = "none"]
  /\ rpc' = [rpc EXCEPT ![c] = "none"]
  /\ wcount' = [wcount EXCEPT ![c] = 0]
  /\ UNCHANGED <<callers, queue, dispatcher, cerr, whand, rhand, pending, wire,
                 inbox, faults>>

\* Both loops have returned: stream.Close() and slim.Release().  The task and
\* its channel are garbage, their identity is free for another spawn.
CloseStream(c) ==
  /\ task[c] = "open"
  /\ wpc[c] = "done"
  /\ rpc[c] = "done"
  /\ task' = [task EXCEPT ![c] = "idle"]
  /\ slim' = slim + 1
  /\ sock' = [sock EXCEPT ![c] = "none"]
  /\ wpc' = [wpc EXCEPT ![c] = "none"]
  /\ rpc' = [rpc EXCEPT ![c] = "none"]
  /\ wcount' = [wcount EXCEPT ![c] = 0]
  /\ whand' = [whand EXCEPT ![c] = None]
  /\ rhand' = [rhand EXCEPT ![c] = None]
  /\ pending' = [pending EXCEPT ![c] = <<>>]
  /\ wire' = [wire EXCEPT ![c] = <<>>]
  /\ inbox' = [inbox EXCEPT ![c] = <<>>]
  /\ UNCHANGED <<callers, queue, dpc, cerr, faults>>

-----------------------------------------------------------------------------
(* WriteRequestAsync.                                                      *)

\* reader.ReadAsync(cancel.Token) yields a pack.
WriterTake(c) ==
  /\ wpc[c] = "take"
  /\ queue # <<>>
  /\ queue' = Tail(queue)
  /\ whand' = [whand EXCEPT ![c] = Head(queue)]
  /\ wcount' = [wcount EXCEPT ![c] = @ + 1]
  /\ wpc' = [wpc EXCEPT ![c] = "write"]
  /\ UNCHANGED <<callers, dispatcher, task, cerr, stream, pending, reader, faults>>

\* MaxStreamWaitTimeSpan passed on an empty channel: OperationCanceledException
\* ends the loop, and TryComplete closes pending.
WriterIdle(c) ==
  /\ wpc[c] = "take"
  /\ HasIdleTimeOut
  /\ queue = <<>>
  /\ wpc' = [wpc EXCEPT ![c] = "done"]
  /\ UNCHANGED <<callers, queue, dispatcher, task, cerr, stream, whand, wcount,
                 pending, reader, faults>>

\* pack.WriteRequest(stream) succeeds; on a connection the peer has closed the
\* bytes may still fit the socket's buffer.  It has no token and no time-out:
\* with a peer that does not read it may never succeed.
Write(c) ==
  /\ wpc[c] = "write"
  /\ sock[c] \notin {"cut", "aborted"}
  /\ wire' = [wire EXCEPT ![c] = Append(@, whand[c])]
  /\ wpc' = [wpc EXCEPT ![c] = "push"]
  /\ UNCHANGED <<callers, queue, dispatcher, task, cerr, sock, inbox, whand,
                 wcount, pending, reader, faults>>

\* Mutant of WriteFail: the loop ends without completing the channel.
WriteFailNoComplete(c) ==
  /\ wpc[c] = "write"
  /\ sock[c] # "open"
  /\ Send(whand[c], Failure("io"))
  /\ whand' = [whand EXCEPT ![c] = None]
  /\ wpc' = [wpc EXCEPT ![c] = "none"]
  /\ UNCHANGED <<caller, cancelled, queue, dispatcher, task, cerr, stream,
                 wcount, pending, reader, faults>>

\* pack.WriteRequest(stream) throws: the pack gets the exception, the loop ends.
WriteFail(c) ==
  /\ wpc[c] = "write"
  /\ sock[c] # "open"
  /\ Send(whand[c], Failure("io"))
  /\ whand' = [whand EXCEPT ![c] = None]
  /\ wpc' = [wpc EXCEPT ![c] = "done"]
  /\ UNCHANGED <<caller, cancelled, queue, dispatcher, task, cerr, stream,
                 wcount, pending, reader, faults>>

\* Mutant of WriterPush: a full channel drops its oldest pack.
PushDropOldest(c) ==
  /\ wpc[c] = "push"
  /\ pending' = [pending EXCEPT ![c] =
       Append(IF Len(@) < MaxStreamParallelRequestCount THEN @ ELSE Tail(@),
              whand[c])]
  /\ whand' = [whand EXCEPT ![c] = None]
  /\ wpc' = [wpc EXCEPT ![c] =
                IF wcount[c] < MaxStreamRequestCount THEN "take" ELSE "done"]
  /\ UNCHANGED <<callers, queue, dispatcher, task, cerr, stream, wcount, reader,
                 faults>>

\* writer.WriteAsync(pack): waits while pending is full; after the last of the
\* MaxStreamRequestCount rounds the loop ends.
WriterPush(c) ==
  /\ wpc[c] = "push"
  /\ Len(pending[c]) < MaxStreamParallelRequestCount
  /\ pending' = [pending EXCEPT ![c] = Append(@, whand[c])]
  /\ whand' = [whand EXCEPT ![c] = None]
  /\ wpc' = [wpc EXCEPT ![c] =
                IF wcount[c] < MaxStreamRequestCount THEN "take" ELSE "done"]
  /\ UNCHANGED <<callers, queue, dispatcher, task, cerr, stream, wcount, reader,
                 faults>>

-----------------------------------------------------------------------------
(* ReadResponseAsync.                                                      *)

\* reader.ReadAsync yields a pack and LinkedTimeOutAndCancel registers Cencel:
\* on a token already cancelled the registration closes the socket at once.
ReaderTake(c) ==
  /\ rpc[c] = "take"
  /\ pending[c] # <<>>
  /\ pending' = [pending EXCEPT ![c] = Tail(@)]
  /\ rhand' = [rhand EXCEPT ![c] = Head(pending[c])]
  /\ rpc' = [rpc EXCEPT ![c] = "read"]
  /\ IF Head(pending[c]) \in cancelled
       THEN /\ sock' = [sock EXCEPT ![c] = "aborted"]
            /\ \E s \in Survivors(inbox[c]) : inbox' = [inbox EXCEPT ![c] = s]
       ELSE UNCHANGED <<sock, inbox>>
  /\ UNCHANGED <<callers, queue, dispatcher, task, cerr, wire, writer, faults>>

\* pack.Send(...) and the next round of the loop.
ReaderSend(c, v) ==
  /\ Send(rhand[c], v)
  /\ rhand' = [rhand EXCEPT ![c] = None]
  /\ rpc' = [rpc EXCEPT ![c] = "take"]
  /\ sock' = [sock EXCEPT ![c] = IF @ = "cut" THEN "aborted" ELSE @]
  /\ UNCHANGED <<caller, cancelled, queue, dispatcher, task, cerr, wire,
                 writer, pending, faults>>

\* Mutant of Cencel: the request is given up and the socket stays open.
CencelKeepSocket(c) ==
  /\ rpc[c] = "read"
  /\ sock[c] \notin {"cut", "aborted"}
  /\ HasResponseTimeOut \/ rhand[c] \in cancelled
  /\ inbox' = inbox
  /\ ReaderSend(c, Failure("cancel"))

\* stream.Cencel() on ResponseTimeOut or on the token of the pack being read:
\* the socket closes under the read, which may be pending.
Cencel(c) ==
  /\ rpc[c] = "read"
  /\ sock[c] \notin {"cut", "aborted"}
  /\ HasResponseTimeOut \/ rhand[c] \in cancelled
  /\ sock' = [sock EXCEPT ![c] = "cut"]
  /\ \E s \in Survivors(inbox[c]) : inbox' = [inbox EXCEPT ![c] = s]
  /\ UNCHANGED <<callers, queue, dispatcher, task, cerr, wire, writer, pending,
                 reader, faults>>

\* MHttpResponse.ReadAsync returns the frame at the head of the stream.
ReadResponse(c) ==
  /\ rpc[c] = "read"
  /\ Readable(c)
  /\ Head(inbox[c]).kind \in {"good", "empty"}
  /\ inbox' = [inbox EXCEPT ![c] = Tail(@)]
  /\ ReaderSend(c, Response(Head(inbox[c]).of))

\* The parser throws.  A stuck frame is not consumed.  What a torn frame leaves
\* runs into the next frame's first line and is read with it, or is itself
\* something the parser refuses for good.
ReadRefused(c) ==
  /\ rpc[c] = "read"
  /\ Readable(c)
  /\ LET f == Head(inbox[c]) IN
       \/ /\ f.kind = "stuck"
          /\ inbox' = inbox
       \/ /\ f.kind = "torn"
          /\ \E rest \in {<<>>, <<Frame(f.of, "stuck")>>} :
               inbox' = [inbox EXCEPT ![c] = rest \o Tail(@)]
  /\ ReaderSend(c, Failure("proto"))

\* How a read on a socket that yields no more bytes fails.  End of stream or a
\* reset is an IOException; a read begun after this side has closed the socket
\* is an ObjectDisposedException, which becomes OperationCanceledException; one
\* that was pending then is that, or an IOException (OperationAborted).
ReadErrors(c) ==
  CASE sock[c] = "cut" -> {"cancel", "io"}
    [] sock[c] = "aborted" -> {"cancel"}
    [] OTHER -> {"io"}

ReadFail(c) ==
  /\ rpc[c] = "read"
  /\ sock[c] # "open"
  /\ ~Readable(c)
  /\ inbox' = [inbox EXCEPT ![c] = <<>>]
  /\ \E e \in ReadErrors(c) : ReaderSend(c, Failure(e))

\* Mutant of ReaderExit: the reader leaves as soon as the writer has.
ReaderExitEarly(c) ==
  /\ rpc[c] = "take"
  /\ wpc[c] = "done"
  /\ rpc' = [rpc EXCEPT ![c] = "done"]
  /\ UNCHANGED <<callers, queue, dispatcher, task, cerr, stream, writer, pending,
                 rhand, faults>>

\* ChannelClosedException: the writer is done and pending is drained.
ReaderExit(c) ==
  /\ rpc[c] = "take"
  /\ wpc[c] = "done"
  /\ pending[c] = <<>>
  /\ rpc' = [rpc EXCEPT ![c] = "done"]
  /\ UNCHANGED <<callers, queue, dispatcher, task, cerr, stream, writer, pending,
                 rhand, faults>>

-----------------------------------------------------------------------------
(* The server and the network.                                             *)

\* Requests are answered in order; a response this client refuses is a fault.
Answer(c) ==
  /\ sock[c] = "open"
  /\ wire[c] # <<>>
  /\ \E k \in Kinds :
       /\ k \in {"stuck", "torn"} => faults > 0
       /\ faults' = IF k \in {"stuck", "torn"} THEN faults - 1 ELSE faults
       /\ inbox' = [inbox EXCEPT ![c] = Append(@, Frame(Head(wire[c]), k))]
  /\ wire' = [wire EXCEPT ![c] = Tail(@)]
  /\ UNCHANGED <<callers, queue, dispatcher, task, cerr, sock, writer, pending,
                 reader>>

\* A frame nobody asked for (408 on an idle connection), then the server closes.
Unsolicited(c) ==
  /\ sock[c] = "open"
  /\ faults > 0
  /\ faults' = faults - 1
  /\ \E k \in {"good", "stuck"} :
       inbox' = [inbox EXCEPT ![c] = Append(@, Frame(None, k))]
  /\ sock' = [sock EXCEPT ![c] = "broken"]
  /\ UNCHANGED <<callers, queue, dispatcher, task, cerr, wire, writer, pending,
                 reader>>

\* The peer closes or resets the connection.
PeerClose(c) ==
  /\ sock[c] = "open"
  /\ faults > 0
  /\ faults' = faults - 1
  /\ sock' = [sock EXCEPT ![c] = "broken"]
  /\ \E s \in Survivors(inbox[c]) : inbox' = [inbox EXCEPT ![c] = s]
  /\ UNCHANGED <<callers, queue, dispatcher, task, cerr, wire, writer, pending,
                 reader>>

-----------------------------------------------------------------------------
Caller(r) == Offer(r) \/ Retry(r) \/ Return(r) \/ Cancel(r)
Dispatcher == AddTaskWait \/ \E c \in Conns : AddTaskSpawn(c)
Writer(c) == WriterTake(c) \/ WriterIdle(c) \/ Write(c) \/ WriteFail(c)
               \/ WriterPush(c)
Reader(c) == ReaderTake(c) \/ ReadResponse(c) \/ ReadRefused(c) \/ ReadFail(c)
               \/ ReaderExit(c)
Connection(c) == ConnectOk(c) \/ ConnectFail(c) \/ FailOne(c) \/ CloseStream(c)
Server(c) == Answer(c) \/ Unsolicited(c) \/ PeerClose(c)

\* Nothing is left to do; no deadlock.
Finished ==
  /\ \A r \in Requests : caller[r] = "done"
  /\ UNCHANGED vars

Next ==
  \/ \E r \in Requests : Caller(r)
  \/ Dispatcher
  \/ \E c \in Conns : Connection(c) \/ Writer(c) \/ Reader(c) \/ Cencel(c)
                        \/ Server(c)
  \/ Finished

Spec == Init /\ [][Next]_vars

-----------------------------------------------------------------------------
(* Fairness.  Loops, continuations and timers run on the thread pool, so   *)
(* every enabled step of a loop is eventually taken; a connect succeeds,   *)
(* fails or times out (ConnectTimeOut); writers blocked on a full channel  *)
(* are served in arrival order, hence strong fairness of Offer.  Nothing   *)
(* is assumed of the server: a write to an open socket may never end, and  *)
(* a read ends by itself only when the bytes are there or the socket is    *)
(* gone.  Cancel is never forced.                                          *)
Fairness ==
  /\ \A r \in Requests : /\ SF_vars(Offer(r))
                          /\ WF_vars(Retry(r))
                          /\ WF_vars(Return(r))
  /\ WF_vars(Dispatcher)
  /\ \A c \in Conns : /\ WF_vars(ConnectOk(c) \/ ConnectFail(c))
                       /\ WF_vars(FailOne(c))
                       /\ WF_vars(CloseStream(c))
                       /\ WF_vars(WriterTake(c) \/ WriterIdle(c)
                                     \/ WriteFail(c) \/ WriterPush(c))
                       /\ WF_vars(Reader(c))
                       /\ WF_vars(Cencel(c))

FairSpec == Spec /\ Fairness

-----------------------------------------------------------------------------
(* Properties.                                                             *)

TypeOK ==
  /\ caller \in [Requests -> {"offering", "waiting", "done"}]
  /\ reply \in [Requests -> Replies]
  /\ cancelled \subseteq Requests
  /\ queue \in Seq(Requests)
  /\ dpc \in {"wait", "slim"}
  /\ slim \in Nat
  /\ task \in [Conns -> {"idle", "connecting", "failed", "open"}]
  /\ cerr \in [Conns -> {"none", "connect", "io"}]
  /\ sock \in [Conns -> {"none", "open", "cut", "aborted", "broken"}]
  /\ wpc \in [Conns -> {"none", "take", "write", "push", "done"}]
  /\ whand \in [Conns -> Requests \cup {None}]
  /\ wcount \in [Conns -> Nat]
  /\ pending \in [Conns -> Seq(Requests)]
  /\ rpc \in [Conns -> {"none", "take", "read", "done"}]
  /\ rhand \in [Conns -> Requests \cup {None}]
  /\ wire \in [Conns -> Seq(Requests)]
  /\ inbox \in [Conns -> Seq(Frames)]
  /\ faults \in Nat

\* A loop has a pack in hand exactly where its code has one, and a connection
\* that is not open has neither loops nor packs nor bytes.
Hands ==
  \A c \in Conns :
    /\ rpc[c] = "read" <=> rhand[c] # None
    /\ wpc[c] \in {"write", "push"} <=> whand[c] # None
    /\ task[c] = "open" <=> rpc[c] # "none"
    /\ task[c] = "open" <=> wpc[c] # "none"
    /\ task[c] = "open" <=> sock[c] # "none"
    /\ task[c] # "open" =>
         pending[c] = <<>> /\ wire[c] = <<>> /\ inbox[c] = <<>>
    /\ task[c] = "failed" => cerr[c] # "none"

Places(r) ==
  {<<"queue", None, i>> : i \in {j \in DOMAIN queue : queue[j] = r}}
    \cup {<<"writer", c, 0>> : c \in {d \in Conns : whand[d] = r}}
    \cup {<<"reader", c, 0>> : c \in {d \in Conns : rhand[d] = r}}
    \cup UNION {{<<"pending", c, i>> : i \in {j \in DOMAIN pending[c] :
                                                pending[c][j] = r}} : c \in Conns}

\* A pack whose caller still waits is in exactly one hand or channel, and a
\* settled pack in none: none is lost when a loop ends or a connection closes
\* (the comment "the reader leaves only once the tasks are drained", line 70),
\* none is completed twice, none is left behind to be sent again.
PackConservation ==
  \A r \in Requests :
    Cardinality(Places(r)) =
      IF caller[r] = "waiting" /\ reply[r] = NoReply THEN 1 ELSE 0

\* The tasks that hold a permit.
Live == {c \in Conns : task[c] # "idle"}

\* Permits of slim and running connection tasks add up to MaxStreamPoolCount:
\* never more connections to the host than that, and no permit leaks on any of
\* the ways a connection ends (AddTask1's finally).
PoolBound == slim + Cardinality(Live) = MaxStreamPoolCount

\* With pipelining the n-th response belongs to the n-th request: whatever was
\* aborted, refused or closed before, no caller is given the response to the
\* request of another one.  (A frame the server sent unasked, of = None, is
\* given to whoever reads next: the code cannot tell.)
OwnResponse ==
  \A r \in Requests : reply[r].kind = "response" => reply[r].of \in {r, None}

Reading(c) == IF rhand[c] # None THEN <<rhand[c]>> ELSE <<>>
Pushing(c) == IF wpc[c] = "push" THEN <<whand[c]>> ELSE <<>>

\* The packs between the two loops whose request is written, oldest first.
Outstanding(c) == Reading(c) \o pending[c] \o Pushing(c)

Poisoned(c) == inbox[c] # <<>> /\ Head(inbox[c]).kind = "stuck"

\* Frames `box` and unanswered requests w against the packs `out` that wait for
\* them: the i-th frame is stray or the i-th pack's, and while the socket is open
\* frames and requests are together exactly the packs.
Aligned(box, out, w, isOpen) ==
  /\ \A i \in 1..Len(box) :
       box[i].of = None \/ (i <= Len(out) /\ box[i].of = out[i])
  /\ isOpen => /\ Len(out) = Len(box) + Len(w)
               /\ \A i \in 1..Len(box) : box[i].of = out[i]
               /\ \A i \in 1..Len(w) : w[i] = out[Len(box) + i]

InStepAt(c) ==
  Poisoned(c) \/ Aligned(inbox[c], Outstanding(c), wire[c], sock[c] = "open")

\* Why OwnResponse holds: on a connection whose buffer does not begin with a
\* frame the parser refuses for good, the packs between writer and reader are in
\* step with the frames and requests between client and server.
InStep == \A c \in Conns : InStepAt(c)

\* The pool implements the service its callers see: from a caller's side a pack
\* is settled once, by the pool, with an outcome that is the caller's own.
Service == INSTANCE RequestService
ServiceSpec == Service!Spec

\* A writer waits for a peer that does not read, and no pack is with the reader
\* whose time-out could close the socket under it: pack.WriteRequest (line 132)
\* takes neither a token nor a time-out.
Stuck(c) == wpc[c] = "write" /\ sock[c] = "open" /\ Outstanding(c) = <<>>

\* With a ResponseTimeOut every call returns, whatever the server does, as long
\* as it breaks a bounded number of things: no pack is stranded in a channel, no
\* blocked writer, reader or dispatcher keeps a call from its answer.  The code
\* has two ways out of this: a write to a peer that never reads, which holds the
\* connection for ever (Stuck), and time-outs that keep surfacing as an
\* IOException, each of which sends the request again (line 320).
EveryCallReturns ==
  \A r \in Requests : \/ <>(caller[r] = "done")
                       \/ []<>(reply[r].kind = "io")
                       \/ \E c \in Conns : <>[]Stuck(c)

\* With both time-outs set, a connection does not outlive its use: in the end
\* every task has closed its stream and released its permit, except those that
\* could not connect, which wait for a pack to report it to (createStream), and
\* those whose first write never ends (Stuck).  A call that is sent again for
\* ever keeps connections in use for ever.
ConnectionsEnd ==
  \/ <>[](\A c \in Conns : task[c] \in {"idle", "failed"} \/ Stuck(c))
  \/ \E r \in Requests : []<>(reply[r].kind = "io")

=============================================================================
