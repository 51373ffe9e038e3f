-------------------------------- MODULE Tunnel --------------------------------
(***************************************************************************)
(* The forward proxy: ForwardTunnelRequest accepts connections, reads each *)
(* one's CONNECT request on the thread pool, answers it and gives the      *)
(* connection to the action registered for its host; TunnelProxy is that   *)
(* action, two copies between the client's stream (left) and the remote    *)
(* one (right) and the closing of both after the first of them.  The remote *)
(* stream goes to the addresses of an AddressRing.                         *)
(***************************************************************************)
EXTENDS AddressRing

CONSTANTS
  Rules,     \* the hosts registered with the builder, sequences of labels
  Hosts,     \* the hosts that clients ask for
  MaxBytes,  \* bound on the bytes that both peers of a client send together
  MaxTunnels \* bound on the clients that come as far as to have a tunnel

ASSUME TunnelAssumption ==
  /\ Rules \subseteq Seq(STRING) \ {<<>>}
  /\ Hosts \subseteq Seq(STRING) \ {<<>>}
  /\ MaxBytes \in Nat
  /\ MaxTunnels \in Nat

Default == "default"   \* defaction: the connection is closed
NoHost == <<>>

Dirs == {"up", "down"}   \* left to right, right to left
Other(d) == IF d = "up" THEN "down" ELSE "up"

VARIABLES
  work,      \* the thread pool's queue: the connections whose requests are to be read
  readers,   \* per client: the tasks that were started to read its request
  phase,     \* per client: how far its handling is
  host,      \* per client: the host it asked for
  rule,      \* per client: the rule that was chosen for it
  peer,      \* per client and direction: the state of the peer that sends in it
  sent,      \* per client and direction: bytes sent so far, 1..sent
  wire,      \* per client and direction: bytes sent and not read by the copy
  copy,      \* per client and direction: the copy's state
  chunk,     \* per client and direction: the bytes the copy has read and not written
  got,       \* per client and direction: the bytes written
  closed     \* per client: the streams that the continuation of WhenAny has closed

handling == <<work, readers, phase, host, rule>>
peers == <<peer, sent>>
copying == <<copy, chunk, got>>
vars == <<handling, ring, peers, wire, copying, closed>>

Each(value) == [c \in Clients |-> value]
Both(value) == Each([d \in Dirs |-> value])

Init ==
  /\ RingInit
  /\ work = <<>>
  /\ readers = Each(0)
  /\ phase = Each("connecting")
  /\ host = Each(NoHost)
  /\ rule = Each(Default)
  /\ peer = Both("open")
  /\ sent = Both(0)
  /\ wire = Both(<<>>)
  /\ copy = Both("none")
  /\ chunk = Both(<<>>)
  /\ got = Both(<<>>)
  /\ closed = Each({})

To(c, next) == phase' = [phase EXCEPT ![c] = next]

\* The accept loop: the socket goes to the pool in a work item of its own.
Accept(c) ==
  /\ phase[c] = "connecting"
  /\ To(c, "accepted")
  /\ work' = Append(work, c)
  /\ UNCHANGED <<readers, host, rule, ring, peers, wire, copying, closed>>

\* A pool thread runs ReadConnectRequest, which starts the connection's task.
StartReading ==
  /\ work # <<>>
  /\ work' = Tail(work)
  /\ readers' = [readers EXCEPT ![Head(work)] = @ + 1]
  /\ To(Head(work), "reading")
  /\ UNCHANGED <<host, rule, ring, peers, wire, copying, closed>>

\* The request has come and 200 is on its way to the client.
ReadRequest(c, h) ==
  /\ phase[c] = "reading"
  /\ peer[c]["up"] = "open"
  /\ To(c, "answered")
  /\ host' = [host EXCEPT ![c] = h]
  /\ UNCHANGED <<work, readers, rule, ring, peers, wire, copying, closed>>

\* Mutant of CreateHostEnum: from the last label on.
HostEnumReversed(h) == [i \in 1..Len(h) |-> SubSeq(h, Len(h) + 1 - i, Len(h))]

\* The host and what follows each of its dots, in this order.
CreateHostEnum(h) == [i \in 1..Len(h) |-> SubSeq(h, i, Len(h))]

\* The first of them that is registered, or the default action.
Get(h) ==
  LET i == SelectInSeq(CreateHostEnum(h), LAMBDA s : s \in Rules)
  IN IF i = 0 THEN Default ELSE CreateHostEnum(h)[i]

\* func(uri.Host): the default action closes the client's socket.
Route(c) ==
  /\ phase[c] = "answered"
  /\ rule' = [rule EXCEPT ![c] = Get(host[c])]
  /\ To(c, IF rule'[c] = Default THEN "refused" ELSE "local")
  /\ UNCHANGED <<work, readers, host, ring, peers, wire, copying, closed>>

\* CreateLocalStream: the handshake with the client, or none.
CreateLocal(c) ==
  /\ phase[c] = "local"
  /\ peer[c]["up"] # "reset"
  /\ To(c, "remote")
  /\ UNCHANGED <<work, readers, host, rule, ring, peers, wire, copying, closed>>

\* CreateRemoteStream: the addresses ...
CreateIp(c) ==
  /\ phase[c] = "remote"
  /\ Turn(c)
  /\ UNCHANGED <<handling, peers, wire, copying, closed>>

\* ... the connection to one of them, and both copies begin.
CreateRemote(c) ==
  /\ phase[c] = "remote"
  /\ turn[c] = "done"
  /\ ips[c] # <<>>
  /\ Cardinality({b \in Clients : phase[b] = "tunnel"}) < MaxTunnels
  /\ To(c, "tunnel")
  /\ copy' = [copy EXCEPT ![c] = [d \in Dirs |-> "reading"]]
  /\ UNCHANGED <<work, readers, host, rule, ring, peers, wire, chunk, got, closed>>

\* Reading the request, sending the answer or making a stream throws: the task is
\* lost, and nothing closes the client's stream.
Fail(c) ==
  /\ phase[c] \in {"reading", "answered", "local", "remote"}
  /\ turn[c] \in {"before", "done"}
  /\ To(c, "failed")
  /\ UNCHANGED <<work, readers, host, rule, ring, peers, wire, copying, closed>>

\* A client sends after its answer, the remote side when it is connected.
Sends(c, d) ==
  phase[c] \in IF d = "up" THEN {"local", "remote", "tunnel"} ELSE {"tunnel"}

PeerSends(c, d) ==
  /\ Sends(c, d)
  /\ peer[c][d] = "open"
  /\ sent[c]["up"] + sent[c]["down"] < MaxBytes
  /\ sent' = [sent EXCEPT ![c][d] = @ + 1]
  /\ wire' = [wire EXCEPT ![c][d] = Append(@, sent'[c][d])]
  /\ UNCHANGED <<handling, ring, peer, copying, closed>>

\* A peer ends its direction, or breaks the connection, while the program still has
\* a use for it.
PeerLeaves(c, d) ==
  /\ phase[c] \notin {"connecting", "refused", "failed"}
  /\ closed[c] # {"left", "right"}
  /\ d = "down" => phase[c] = "tunnel"
  /\ peer[c][d] = "open"
  /\ \E how \in {"end", "reset"} : peer' = [peer EXCEPT ![c][d] = how]
  /\ UNCHANGED <<handling, ring, sent, wire, copying, closed>>

\* The stream a direction is read from, and the one it is written to.
Source(d) == IF d = "up" THEN "left" ELSE "right"
Sink(d) == Source(Other(d))

\* Mutant of CopyReads: the write before it is not awaited.
CopyReadsOn(c, d) ==
  /\ copy[c][d] \in {"reading", "writing"}
  /\ Source(d) \notin closed[c]
  /\ \E n \in 1..Len(wire[c][d]) :
       /\ chunk' = [chunk EXCEPT ![c][d] = SubSeq(wire[c][d], 1, n)]
       /\ wire' = [wire EXCEPT ![c][d] = SubSeq(@, n + 1, Len(@))]
  /\ copy' = [copy EXCEPT ![c][d] = "writing"]
  /\ UNCHANGED <<handling, ring, peers, got, closed>>

\* CopyToAsync: some bytes are read ...
CopyReads(c, d) ==
  /\ copy[c][d] = "reading"
  /\ Source(d) \notin closed[c]
  /\ \E n \in 1..Len(wire[c][d]) :
       /\ chunk' = [chunk EXCEPT ![c][d] = SubSeq(wire[c][d], 1, n)]
       /\ wire' = [wire EXCEPT ![c][d] = SubSeq(@, n + 1, Len(@))]
  /\ copy' = [copy EXCEPT ![c][d] = "writing"]
  /\ UNCHANGED <<handling, ring, peers, got, closed>>

\* ... and written.
CopyWrites(c, d) ==
  /\ copy[c][d] = "writing"
  /\ Sink(d) \notin closed[c]
  /\ got' = [got EXCEPT ![c][d] = @ \o chunk[c][d]]
  /\ chunk' = [chunk EXCEPT ![c][d] = <<>>]
  /\ copy' = [copy EXCEPT ![c][d] = "reading"]
  /\ UNCHANGED <<handling, ring, peers, wire, closed>>

\* A read of no bytes ends the copy.
CopyEnds(c, d) ==
  /\ copy[c][d] = "reading"
  /\ Source(d) \notin closed[c]
  /\ wire[c][d] = <<>>
  /\ peer[c][d] = "end"
  /\ copy' = [copy EXCEPT ![c][d] = "ended"]
  /\ UNCHANGED <<handling, ring, peers, wire, chunk, got, closed>>

\* A read or a write throws, on a broken connection or a closed stream; what the copy
\* has in its buffer goes with it.
CopyFails(c, d) ==
  /\ \/ /\ copy[c][d] = "reading"
        /\ peer[c][d] = "reset" \/ Source(d) \in closed[c]
     \/ /\ copy[c][d] = "writing"
        /\ peer[c][Other(d)] = "reset" \/ Sink(d) \in closed[c]
  /\ copy' = [copy EXCEPT ![c][d] = "failed"]
  /\ chunk' = [chunk EXCEPT ![c][d] = <<>>]
  /\ UNCHANGED <<handling, ring, peers, wire, got, closed>>

Over(c, d) == copy[c][d] \in {"ended", "failed"}

\* Mutant of Close: WhenAll.
CloseAfterAll(c) ==
  /\ \A d \in Dirs : Over(c, d)
  /\ \/ "left" \notin closed[c] /\ closed' = [closed EXCEPT ![c] = {"left"}]
     \/ closed[c] = {"left"} /\ closed' = [closed EXCEPT ![c] = {"left", "right"}]
  /\ UNCHANGED <<handling, ring, peers, wire, copying>>

\* WhenAny's continuation: the left stream is closed, then the right one.
Close(c) ==
  /\ \E d \in Dirs : Over(c, d)
  /\ \/ "left" \notin closed[c] /\ closed' = [closed EXCEPT ![c] = {"left"}]
     \/ closed[c] = {"left"} /\ closed' = [closed EXCEPT ![c] = {"left", "right"}]
  /\ UNCHANGED <<handling, ring, peers, wire, copying>>

Handle(c) ==
  \/ \E h \in Hosts : ReadRequest(c, h)
  \/ Route(c) \/ CreateLocal(c) \/ CreateIp(c) \/ CreateRemote(c)

CopyStep(c, d) == CopyReads(c, d) \/ CopyWrites(c, d) \/ CopyEnds(c, d) \/ CopyFails(c, d)

Next ==
  \/ StartReading
  \/ \E c \in Clients :
       \/ Accept(c) \/ Handle(c) \/ Fail(c) \/ Close(c)
       \/ \E d \in Dirs : PeerSends(c, d) \/ PeerLeaves(c, d) \/ CopyStep(c, d)

Spec == Init /\ [][Next]_vars

\* The pool runs what is ready: bytes that have come are read, a failure ends its
\* copy, the continuation runs.  A write may wait for ever, for a peer that does not
\* read.
FairSpec ==
  /\ Spec
  /\ \A c \in Clients :
       /\ WF_vars(Close(c))
       /\ \A d \in Dirs : WF_vars(CopyReads(c, d) \/ CopyEnds(c, d) \/ CopyFails(c, d))

-----------------------------------------------------------------------------
(* Properties.                                                             *)

\* Each connection's request is read by one task, however late the pool runs the
\* work item after further connections were accepted.
HandledOnce ==
  \A c \in Clients :
    /\ readers[c] = 0 => phase[c] \in {"connecting", "accepted"}
    /\ readers[c] + Cardinality({i \in 1..Len(work) : work[i] = c})
         = IF phase[c] = "connecting" THEN 0 ELSE 1

\* The action chosen is that of the longest registered name that is the host or a
\* parent domain of it, and the default one only when there is none.
LongestRule ==
  \A c \in Clients :
    LET fitting == {r \in Rules : IsSuffix(r, host[c])} IN
      phase[c] \in {"refused", "local", "remote", "tunnel"} =>
        IF fitting = {} THEN rule[c] = Default
        ELSE rule[c] \in fitting /\ \A r \in fitting : Len(r) <= Len(rule[c])

\* Every connection gets one reader and, by its request, the action that its host
\* has: none is handled twice or with another's socket.
RequestsRight == HandledOnce /\ LongestRule

\* The bytes 1..n.
Run(n) == [i \in 1..n |-> i]

\* What arrives is the beginning of what was sent, none of it twice or out of its
\* place.  Up to a failure the rest is in the copy's buffer and on the wire, and a
\* copy that ends has given all that its peer sent before it ended.  What a copy that
\* fails had not written is lost: it fails only when one of its peers has broken the
\* connection, or the other copy is over, after which the continuation (line 49)
\* closes the streams under it.
TunnelInOrder ==
  \A c \in Clients, d \in Dirs :
    /\ got[c][d] = Run(Len(got[c][d]))
    /\ copy[c][d] # "failed" => got[c][d] \o chunk[c][d] \o wire[c][d] = Run(sent[c][d])
    /\ copy[c][d] = "ended" => got[c][d] = Run(sent[c][d])
    /\ copy[c][d] = "failed" =>
         (\E e \in Dirs : peer[c][e] = "reset") \/ Over(c, Other(d))

\* After the first copy is over both streams are closed and the other copy ends too,
\* also when its peer stays silent for ever, or does not read.
TunnelCloses ==
  \A c \in Clients :
    (\E d \in Dirs : Over(c, d))
      ~> (closed[c] = {"left", "right"} /\ \A d \in Dirs : Over(c, d))

=============================================================================
