------------------------------- MODULE PipeProxy -------------------------------
(***************************************************************************)
(* PipeTests.Proxy: a ProxyServer's work thread with its queue, and a      *)
(* ProxyClient that relays messages between a local and a remote socket    *)
(* through pipes whose continuations the work thread runs.  Bytes are      *)
(* numbers, 0 the delimiter; the message handler is SfsProxy's, which      *)
(* sends each message to the other side.                                   *)
(***************************************************************************)
EXTENDS Naturals, Sequences, FiniteSets, SequencesExt

CONSTANTS
  Streams,    \* what the peer at each side sends
  MaxResets,  \* bound on connections reset by a peer
  Stops       \* whether the server may be disposed

Sides == {"Local", "Remote"}
Other(s) == IF s = "Local" THEN "Remote" ELSE "Local"

ASSUME PipeProxyAssumption ==
  /\ Streams \in [Sides -> Seq(Nat)]
  /\ MaxResets \in Nat
  /\ Stops \in BOOLEAN

VARIABLES
  unread, link, \* per side: bytes on the way, and "open", "eof" or "reset"
  wire,         \* per side: bytes the peer was sent
  recv, send,   \* per side: bytes in the receive and the send pipe
  write, read, sender, \* per side: HandleRecvWrite, HandleRecvRead, HandleSend
  closed,       \* per side: PipedTcpClient.Disposed
  clientDisposed, offThread, \* ProxyClient._disposed; its dispose off the thread
  connected, disconnected,   \* published states, and by which thread
  accept,       \* the accept loop of Bind
  workQueue, adding, thread, \* the queue, whether it takes work, the work thread
  cancelled, serverDisposed, joiner \* _workCancel, _disposed, who joins

sockets == <<unread, link, wire>>
tasks == <<write, read, sender>>
client == <<closed, clientDisposed, offThread, connected, disconnected>>
stopping == <<adding, cancelled, serverDisposed, joiner>>
pvars == <<sockets, recv, send, tasks, client, accept, workQueue, thread, stopping>>

Work(do, s) == [do |-> do, side |-> s]
All(x) == [s \in Sides |-> x]

Init ==
  /\ unread = Streams
  /\ link = All("open")
  /\ wire = All(<<>>)
  /\ recv = All(<<>>)
  /\ send = All(<<>>)
  /\ write = All("off")
  /\ read = All("off")
  /\ sender = All("off")
  /\ closed = All(FALSE)
  /\ clientDisposed = FALSE
  /\ offThread = "no"
  /\ connected = 0
  /\ disconnected = 0
  /\ accept = "accepting"
  /\ workQueue = <<>>
  /\ adding = TRUE
  /\ thread = "take"
  /\ cancelled = FALSE
  /\ serverDisposed = 0
  /\ joiner = "none"

-----------------------------------------------------------------------------
(* The peers.                                                              *)

Resets == {s \in Sides : link[s] = "reset"}

PeerCloses(s) ==
  /\ accept = "done"
  /\ link[s] = "open"
  /\ link' = [link EXCEPT ![s] = "eof"]
  /\ UNCHANGED <<unread, wire, recv, send, tasks, client, accept, workQueue, thread,
                 stopping>>

PeerResets(s) ==
  /\ accept = "done"
  /\ link[s] # "reset"
  /\ Cardinality(Resets) < MaxResets
  /\ link' = [link EXCEPT ![s] = "reset"]
  /\ unread' = [unread EXCEPT ![s] = <<>>]
  /\ UNCHANGED <<wire, recv, send, tasks, client, accept, workQueue, thread, stopping>>

-----------------------------------------------------------------------------
(* ProxyServer.Schedule and ProxyClient.Dispose.                           *)

\* Adds works to the queue, which throws once CompleteAdding was called.
Schedule(works) == adding /\ workQueue' = workQueue \o works

\* Mutant of ClientDispose: _disposed is not exchanged.
ClientDisposeAgain ==
  \/ /\ Schedule(<<Work("dispose", "Local")>>)
     /\ offThread' = offThread
     /\ clientDisposed' = clientDisposed
  \/ /\ ~adding
     /\ clientDisposed' = clientDisposed
     /\ offThread' = "pending"
     /\ workQueue' = workQueue

\* Dispose off the work thread: once, through the queue, or through a task of its
\* own when the queue takes no more.
ClientDispose ==
  \/ /\ clientDisposed
     /\ UNCHANGED <<clientDisposed, offThread, workQueue>>
  \/ /\ ~clientDisposed
     /\ clientDisposed' = TRUE
     /\ \/ Schedule(<<Work("dispose", "Local")>>) /\ offThread' = offThread
        \/ ~adding /\ offThread' = "pending" /\ workQueue' = workQueue

-----------------------------------------------------------------------------
(* The threads of the pool.                                                *)

\* Bind's loop accepts the local socket, connects the remote one and schedules
\* Run; a failed connect ends the loop.
Accept ==
  /\ accept = "accepting"
  /\ accept' = "connecting"
  /\ UNCHANGED <<sockets, recv, send, tasks, client, workQueue, thread, stopping>>

Connect ==
  /\ accept = "connecting"
  /\ \/ Schedule(<<Work("run", "Local")>>) /\ accept' = "done"
     \/ ~adding /\ accept' = "dead" /\ workQueue' = workQueue
  /\ UNCHANGED <<sockets, recv, send, tasks, client, thread, stopping>>

ConnectFails ==
  /\ accept = "connecting"
  /\ accept' = "dead"
  /\ UNCHANGED <<sockets, recv, send, tasks, client, workQueue, thread, stopping>>

\* Mutant of Receive: a reader that was scheduled already is scheduled again.
ReceiveWakesAlways(s, k) ==
  /\ write[s] = "receiving"
  /\ ~closed[s]
  /\ link[s] # "reset"
  /\ k <= Len(unread[s])
  /\ k = 0 => link[s] = "eof" /\ unread[s] = <<>>
  /\ recv' = [recv EXCEPT ![s] = @ \o SubSeq(unread[s], 1, k)]
  /\ unread' = [unread EXCEPT ![s] = SubSeq(@, k + 1, Len(@))]
  /\ read' = [read EXCEPT ![s] = "queued"]
  /\ Schedule(<<Work("read", s)>>)
  /\ UNCHANGED <<link, wire, send, sender, write, client, accept, thread, stopping>>

\* HandleRecvWrite gets k bytes, none at the end of the connection, and flushes
\* them: the reader that waits for some is scheduled, and where that throws the
\* loop is left.
Receive(s, k) ==
  /\ write[s] = "receiving"
  /\ ~closed[s]
  /\ link[s] # "reset"
  /\ k <= Len(unread[s])
  /\ k = 0 => link[s] = "eof" /\ unread[s] = <<>>
  /\ recv' = [recv EXCEPT ![s] = @ \o SubSeq(unread[s], 1, k)]
  /\ unread' = [unread EXCEPT ![s] = SubSeq(@, k + 1, Len(@))]
  /\ \/ /\ k = 0 \/ read[s] # "waiting"
        /\ UNCHANGED <<read, write, workQueue>>
     \/ /\ k > 0 /\ read[s] = "waiting"
        /\ read' = [read EXCEPT ![s] = "queued"]
        /\ \/ Schedule(<<Work("read", s)>>) /\ write' = write
           \/ /\ ~adding
              /\ write' = [write EXCEPT ![s] = "leaving"]
              /\ workQueue' = workQueue
  /\ UNCHANGED <<link, wire, send, sender, client, accept, thread, stopping>>

\* ReceiveAsync throws: the connection was reset, the socket disposed, the token
\* cancelled.
ReceiveFails(s) ==
  /\ write[s] = "receiving"
  /\ link[s] = "reset" \/ closed[s] \/ cancelled
  /\ write' = [write EXCEPT ![s] = "leaving"]
  /\ UNCHANGED <<sockets, recv, send, read, sender, client, accept, workQueue, thread,
                 stopping>>

\* Mutant of LeaveWrite: the client is not disposed.
LeaveWriteQuiet(s) ==
  /\ write[s] = "leaving"
  /\ write' = [write EXCEPT ![s] = "ended"]
  /\ UNCHANGED <<sockets, recv, send, read, sender, client, accept, workQueue, thread,
                 stopping>>

\* The loop is left, and the client disposed.
LeaveWrite(s) ==
  /\ write[s] = "leaving"
  /\ write' = [write EXCEPT ![s] = "ended"]
  /\ ClientDispose
  /\ UNCHANGED <<sockets, recv, send, read, sender, closed, connected, disconnected,
                 accept, thread, stopping>>

\* HandleSend's WriteAsync has sent what the pipe held when it began; what was
\* added since is sent next, else the pipe is awaited.
Sent(s, n) ==
  /\ sender[s] = "sending"
  /\ link[s] # "reset"
  /\ ~closed[s]
  /\ n \in 1..Len(send[s])
  /\ wire' = [wire EXCEPT ![s] = @ \o SubSeq(send[s], 1, n)]
  /\ send' = [send EXCEPT ![s] = SubSeq(@, n + 1, Len(@))]
  /\ sender' = [sender EXCEPT ![s] = IF n < Len(send[s]) THEN "sending" ELSE "waiting"]
  /\ UNCHANGED <<unread, link, recv, write, read, client, accept, workQueue, thread,
                 stopping>>

SendFails(s) ==
  /\ sender[s] = "sending"
  /\ link[s] = "reset" \/ closed[s] \/ cancelled
  /\ sender' = [sender EXCEPT ![s] = "ended"]
  /\ ClientDispose
  /\ UNCHANGED <<sockets, recv, send, write, read, closed, connected, disconnected,
                 accept, thread, stopping>>

-----------------------------------------------------------------------------
(* ProxyClient.Dispose's PerformDispose: the state is published, then the  *)
(* local and the remote side are disposed: the socket is shut down, which  *)
(* may throw if it was reset, and completing the pipes schedules who waits *)
(* for them, which throws after CompleteAdding.                            *)

\* The continuations that completing side s's writers schedules.
Woken(s) ==
  (IF read[s] = "waiting" THEN <<Work("read", s)>> ELSE <<>>)
    \o (IF sender[s] = "waiting" THEN <<Work("send", s)>> ELSE <<>>)

\* The sides whose pipes it completes: all, or those up to an exception.
Disposable(D) ==
  \/ D = Sides /\ (adding \/ Woken("Local") = <<>>)
  \/ /\ D = {"Local"}
     /\ link["Remote"] = "reset" \/ (~adding /\ Woken("Local") # <<>>)
  \/ D = {} /\ link["Local"] = "reset"

Throws(D) == D # Sides \/ (~adding /\ Woken("Remote") # <<>>)

\* What it does to the sides D, with `q` in the queue and HandleSend as in
\* `senders`.
CloseSides(D, q, senders) ==
  LET wake(task, s) == IF s \in D /\ adding /\ task = "waiting" THEN "queued" ELSE task
      works(s) == IF s \in D /\ adding THEN Woken(s) ELSE <<>>
  IN
    /\ disconnected' = disconnected + 1
    /\ closed' = [s \in Sides |-> closed[s] \/ s \in D]
    /\ workQueue' = q \o works("Local") \o works("Remote")
    /\ read' = [s \in Sides |-> wake(read[s], s)]
    /\ sender' = [s \in Sides |-> wake(senders[s], s)]

\* In a task of its own: an exception is lost with the task.
DisposeOffThread ==
  /\ offThread = "pending"
  /\ offThread' = "done"
  /\ \E D \in SUBSET Sides : Disposable(D) /\ CloseSides(D, workQueue, sender)
  /\ UNCHANGED <<sockets, recv, send, write, clientDisposed, connected, accept, thread,
                 stopping>>

-----------------------------------------------------------------------------
(* The work thread.                                                        *)

\* It takes a work of this kind; what it does sees the queue without it.
Take(do, s) ==
  /\ thread = "take"
  /\ joiner # "thread"
  /\ workQueue # <<>>
  /\ Head(workQueue) = Work(do, s)

\* Run starts the three loops of both sides.
Run ==
  /\ Take("run", "Local")
  /\ connected' = connected + 1
  /\ write' = All("receiving")
  /\ read' = All("waiting")
  /\ sender' = All("waiting")
  /\ workQueue' = Tail(workQueue)
  /\ UNCHANGED <<sockets, recv, send, closed, clientDisposed, offThread, disconnected,
                 accept, thread, stopping>>

\* Mutant of Messages: a message is sent without waiting for its delimiter.
MessagesPartial(bytes) == bytes

\* The bytes of the complete messages, each with its delimiter.
Messages(bytes) ==
  SubSeq(bytes, 1, IF Contains(bytes, 0) THEN SelectLastInSeq(bytes, LAMBDA b : b = 0)
                                         ELSE 0)

\* HandleRecvRead goes on: every complete message goes to the other side's send
\* pipe, whose reader is scheduled if it waits.
ReadMessages(s) ==
  LET whole == Messages(recv[s])
      o == Other(s)
      wakes == whole # <<>> /\ sender[o] = "waiting" IN
    /\ Take("read", s)
    /\ ~closed[s]
    /\ whole # <<>> => ~closed[o]
    /\ wakes => adding
    /\ recv' = [recv EXCEPT ![s] = SubSeq(@, Len(whole) + 1, Len(@))]
    /\ send' = [send EXCEPT ![o] = @ \o whole]
    /\ sender' = IF wakes THEN [sender EXCEPT ![o] = "queued"] ELSE sender
    /\ workQueue' = Tail(workQueue) \o (IF wakes THEN <<Work("send", o)>> ELSE <<>>)
    /\ read' = [read EXCEPT ![s] = "waiting"]
    /\ UNCHANGED <<sockets, write, client, accept, thread, stopping>>

\* The other side's pipe is completed, or scheduling its reader throws: the loop
\* ends with the exception and disposes nothing.
ReadThrows(s) ==
  LET whole == Messages(recv[s])
      o == Other(s) IN
    /\ Take("read", s)
    /\ ~closed[s]
    /\ whole # <<>>
    /\ closed[o] \/ (sender[o] = "waiting" /\ ~adding)
    /\ read' = [read EXCEPT ![s] = "ended"]
    /\ sender' = IF closed[o] THEN sender ELSE [sender EXCEPT ![o] = "queued"]
    /\ send' = IF closed[o] THEN send
               ELSE [send EXCEPT ![o] = @ \o SubSeq(whole, 1, SelectInSeq(whole, LAMBDA b : b = 0))]
    /\ workQueue' = Tail(workQueue)
    /\ UNCHANGED <<sockets, recv, write, client, accept, thread, stopping>>

\* The writer is completed: the loop ends, the client being disposed already.
ReadEnds(s) ==
  /\ Take("read", s)
  /\ closed[s]
  /\ read' = [read EXCEPT ![s] = "ended"]
  /\ workQueue' = Tail(workQueue)
  /\ UNCHANGED <<sockets, recv, send, write, sender, client, accept, thread, stopping>>

\* HandleSend goes on with what the pipe holds, or ends if it is completed.
SendBegins(s) ==
  /\ Take("send", s)
  /\ sender' = [sender EXCEPT ![s] = IF closed[s] THEN "ended" ELSE "sending"]
  /\ workQueue' = Tail(workQueue)
  /\ UNCHANGED <<sockets, recv, send, write, read, client, accept, thread, stopping>>

\* WriteAsync fails at once: HandleSend disposes the client in its own task, which
\* loses an exception of that.
SendFailsAtOnce(s) ==
  /\ Take("send", s)
  /\ ~closed[s]
  /\ link[s] = "reset" \/ cancelled
  /\ \/ /\ clientDisposed
        /\ sender' = [sender EXCEPT ![s] = "ended"]
        /\ workQueue' = Tail(workQueue)
        /\ UNCHANGED <<clientDisposed, closed, disconnected, read>>
     \/ /\ ~clientDisposed
        /\ clientDisposed' = TRUE
        /\ \E D \in SUBSET Sides :
             /\ Disposable(D)
             /\ CloseSides(D, Tail(workQueue), [sender EXCEPT ![s] = "ended"])
  /\ UNCHANGED <<sockets, recv, send, write, offThread, connected, accept, thread,
                 stopping>>

\* A scheduled PerformDispose.
Dispose ==
  /\ Take("dispose", "Local")
  /\ \E D \in SUBSET Sides :
       Disposable(D) /\ ~Throws(D) /\ CloseSides(D, Tail(workQueue), sender)
  /\ UNCHANGED <<sockets, recv, send, write, clientDisposed, offThread, connected,
                 accept, thread, stopping>>

\* Its exception is the work thread's, and ends the program.
DisposeCrashes ==
  /\ Take("dispose", "Local")
  /\ \E D \in SUBSET Sides :
       Disposable(D) /\ Throws(D) /\ CloseSides(D, Tail(workQueue), sender)
  /\ thread' = "crashed"
  /\ UNCHANGED <<sockets, recv, send, write, clientDisposed, offThread, connected,
                 accept, stopping>>

\* TryTake gives up after TickSpeed, or at once when no work can come.
TakeNothing ==
  /\ thread = "take"
  /\ joiner # "thread"
  /\ workQueue = <<>>
  /\ thread' = "tick"
  /\ UNCHANGED <<sockets, recv, send, tasks, client, accept, workQueue, stopping>>

\* After OnTick the loop goes on unless cancelled.
TickDone ==
  /\ thread = "tick"
  /\ thread' = IF cancelled THEN "exited" ELSE "take"
  /\ UNCHANGED <<sockets, recv, send, tasks, client, accept, workQueue, stopping>>

-----------------------------------------------------------------------------
(* ProxyServer.Dispose.                                                    *)

\* Called by the main thread, or by a handler on the work thread: then a task of
\* its own performs it.
DisposeServer ==
  /\ Stops
  /\ serverDisposed = 0
  /\ serverDisposed' = 1
  /\ joiner' = "task"
  /\ UNCHANGED <<sockets, recv, send, tasks, client, accept, workQueue, thread, adding,
                 cancelled>>

Cancel ==
  /\ serverDisposed = 1
  /\ ~cancelled
  /\ cancelled' = TRUE
  /\ UNCHANGED <<sockets, recv, send, tasks, client, accept, workQueue, thread, adding,
                 serverDisposed, joiner>>

CompleteAdding ==
  /\ cancelled
  /\ adding
  /\ adding' = FALSE
  /\ UNCHANGED <<sockets, recv, send, tasks, client, accept, workQueue, thread,
                 cancelled, serverDisposed, joiner>>

Join ==
  /\ serverDisposed = 1
  /\ ~adding
  /\ thread = "exited"
  /\ serverDisposed' = 2
  /\ UNCHANGED <<sockets, recv, send, tasks, client, accept, workQueue, thread, adding,
                 cancelled, joiner>>

-----------------------------------------------------------------------------
Pool ==
  \/ Accept \/ Connect
  \/ \E s \in Sides :
       \/ \E k \in 0..Len(unread[s]) : Receive(s, k)
       \/ ReceiveFails(s) \/ LeaveWrite(s) \/ SendFails(s)
       \/ \E n \in 1..Len(send[s]) : Sent(s, n)
  \/ DisposeOffThread

WorkThread ==
  \/ Run \/ Dispose \/ DisposeCrashes \/ TakeNothing \/ TickDone
  \/ \E s \in Sides :
       \/ ReadMessages(s) \/ ReadThrows(s) \/ ReadEnds(s)
       \/ SendBegins(s) \/ SendFailsAtOnce(s)

Stop == DisposeServer \/ Cancel \/ CompleteAdding \/ Join

\* A crash ends everything; without the work thread little is left to do.
Next ==
  \/ /\ thread # "crashed"
     /\ \/ Pool \/ WorkThread \/ Stop \/ ConnectFails
        \/ \E s \in Sides : PeerCloses(s) \/ PeerResets(s)
  \/ thread \in {"crashed", "exited"} /\ UNCHANGED pvars

Spec == Init /\ [][Next]_pvars

\* The work thread and the thread that disposes the server run; so do the pool's
\* threads, for whatever they have to do at each side.
Fairness ==
  /\ WF_pvars(WorkThread)
  /\ WF_pvars(Cancel \/ CompleteAdding \/ Join)
  /\ WF_pvars(DisposeOffThread)
  /\ \A s \in Sides :
       /\ WF_pvars(LeaveWrite(s))
       /\ WF_pvars(link[s] = "reset" /\ ReceiveFails(s))
       /\ WF_pvars(SendFails(s) \/ \E n \in 1..Len(send[s]) : Sent(s, n))
       /\ WF_pvars(\E k \in 0..Len(unread[s]) : Receive(s, k))

FairSpec == Spec /\ Fairness

-----------------------------------------------------------------------------
(* Properties.                                                             *)

Works(do, s) == {i \in 1..Len(workQueue) : workQueue[i] = Work(do, s)}

\* A loop that waits for its pipe is continued by one work in the queue, never by
\* two and never by none, while the queue takes work and the work thread lives.
WokenOnce ==
  adding /\ thread # "crashed" =>
    \A s \in Sides :
      /\ Cardinality(Works("read", s)) = IF read[s] = "queued" THEN 1 ELSE 0
      /\ Cardinality(Works("send", s)) = IF sender[s] = "queued" THEN 1 ELSE 0

\* What a peer is sent is what the other peer said, in order and once, message by
\* message, whichever threads, resets and disposals interleave; and nothing of
\* what was said is lost while the side it came from is read.
RelayInOrder ==
  \A s \in Sides :
    LET relayed == wire[Other(s)] \o send[Other(s)] IN
      /\ IsPrefix(relayed, Streams[s])
      /\ relayed # <<>> => relayed[Len(relayed)] = 0
      /\ read[s] # "ended" /\ link[s] # "reset" =>
           relayed \o recv[s] \o unread[s] = Streams[s]

\* A client is published as disconnected at most once, after it was published as
\* connected, whichever of its six loops and whichever thread ends it.
OneDisconnect == disconnected <= connected /\ connected <= 1

\* A connection that is reset ends: the client is published as disconnected,
\* unless the work thread is gone.
Gone == thread \in {"exited", "crashed"}

ResetEnds ==
  \A s \in Sides :
    (connected = 1 /\ link[s] = "reset") ~> (disconnected = 1 \/ Gone)

\* ".Join() would cause deadlock in _workThread": a server that is being disposed
\* comes to be disposed, whoever calls it.
ServerDisposeEnds == (serverDisposed = 1) ~> (serverDisposed = 2 \/ thread = "crashed")

\* What is to be disposed comes to be: the client of a broken connection, and the
\* server, while the one takes the work thread that the other ends.
ProxyEnds == ResetEnds /\ ServerDisposeEnds

=============================================================================
