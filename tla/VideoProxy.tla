------------------------------ MODULE VideoProxy ------------------------------
(***************************************************************************)
(* PornhubProxyServer: the tunnel action that reads the requests of a local*)
(* connection one by one, fetches each page through the connection pool    *)
(* (RequestService stands for it, StreamPack implements that) and sends it *)
(* back.  A video page is asked for several times at once and the first    *)
(* page that passes CheckingVideoHtml is sent; if none passes, one more is *)
(* fetched and sent as it is.                                              *)
(***************************************************************************)
EXTENDS Naturals, Sequences, FiniteSets

CONSTANTS
  Locals,                  \* local connections
  None,                    \* no fetch: an empty source, a stray response
  MaxRefreshRequestCount,  \* fetches of a video page
  MaxRequests,             \* bound on the requests of a connection
  MaxFaults                \* bound on the fetches that fail and are retried

ASSUME VideoProxyAssumption ==
  /\ MaxRefreshRequestCount \in Nat
  /\ MaxRequests \in Nat
  /\ MaxFaults \in Nat

\* A fetch: of which connection, for which of its requests; 0 is GetOneHtmlAsync's,
\* the others are the tasks of GetSeleteHtmlAsync.
Fetches == Locals \X (1..MaxRequests) \X (0..MaxRefreshRequestCount)
Request(f) == f[2]

VARIABLES
  caller, reply,  \* the pool's callers, one per fetch
  started,        \* the fetches that were begun
  over,           \* the fetches that are over, failed ones included
  passes,         \* the fetches whose page passes CheckingVideoHtml
  phase,          \* per connection: where its handler is
  request,        \* per connection: the number of the request it handles
  video,          \* per connection: the numbers of its requests for video pages
  source,         \* per connection: the fetch that set the current source, or None
  page,           \* per connection: the fetch whose page it is sending, or None
  answers,        \* per connection: the pages sent, with the request they answer
  faults

pool == <<caller, reply>>
fetching == <<started, over, passes>>
local == <<phase, request, video, source, page, answers>>
vars == <<pool, fetching, local, faults>>

Pool == INSTANCE RequestService WITH Requests <- Fetches

Init ==
  /\ Pool!Init
  /\ started = {}
  /\ over = {}
  /\ passes = {}
  /\ phase = [c \in Locals |-> "connected"]
  /\ request = [c \in Locals |-> 0]
  /\ video = [c \in Locals |-> {}]
  /\ source = [c \in Locals |-> None]
  /\ page = [c \in Locals |-> None]
  /\ answers = [c \in Locals |-> <<>>]
  /\ faults = 0

To(c, next) == phase' = [phase EXCEPT ![c] = next]
Current(c, k) == <<c, request[c], k>>
Hedge(c) == {Current(c, k) : k \in 1..MaxRefreshRequestCount}

-----------------------------------------------------------------------------
(* GetResponseAsync: the loop around one pack of the pool.                 *)

Ask(f) == f \in started \ over /\ Pool!Ask(f) /\ UNCHANGED <<fetching, local, faults>>

\* The pool's answer, and whether its page is one that passes.
Settle(f) ==
  /\ Pool!Settle(f)
  /\ passes' \in IF reply'[f].kind = "response" THEN {passes, passes \cup {f}} ELSE {passes}
  /\ IF reply'[f].kind \in {"io", "proto"}
       THEN faults < MaxFaults /\ faults' = faults + 1
       ELSE UNCHANGED faults
  /\ UNCHANGED <<started, over, local>>

\* IOException and MHttpNotImplementedException, one of the parser's, are retried.
Retry(f) ==
  /\ f \notin over
  /\ reply[f].kind \in {"io", "proto"}
  /\ caller' = [caller EXCEPT ![f] = "offering"]
  /\ reply' = [reply EXCEPT ![f] = Pool!NoReply]
  /\ UNCHANGED <<fetching, local, faults>>

Fetched(f) == f \in started \ over /\ reply[f].kind = "response"
FetchFailed(f) == f \in started \ over /\ reply[f].kind \in {"cancel", "proto", "connect"}

-----------------------------------------------------------------------------
(* GetSeleteHtmlAsync.                                                     *)

\* Mutant of CreateOneRequest: a task whose page passes sends it itself.
CreateOneRequestSends(f) ==
  LET c == f[1] IN
    /\ Fetched(f)
    /\ Request(f) = request[c]
    /\ f # Current(c, 0)
    /\ over' = over \cup {f}
    /\ source' = [source EXCEPT ![c] = IF @ = None /\ f \in passes THEN f ELSE @]
    /\ answers' = IF f \in passes
         THEN [answers EXCEPT ![c] = Append(@, [request |-> Request(f), of |-> f])]
         ELSE answers
    /\ UNCHANGED <<pool, started, passes, phase, request, video, page, faults>>

\* createOneRequest ends: a page that passes is offered to its own request's source,
\* which the first sets; nobody looks any more at the source of an earlier request.
CreateOneRequest(f) ==
  LET c == f[1] IN
    /\ Fetched(f)
    /\ f # <<c, Request(f), 0>>
    /\ over' = over \cup {f}
    /\ source' =
         [source EXCEPT ![c] = IF @ = None /\ f \in passes \cap Hedge(c) THEN f ELSE @]
    /\ UNCHANGED <<pool, started, passes, phase, request, video, page, answers, faults>>

\* A task whose fetch fails is faulted, which WhenAll waits for like for a result.
CreateOneRequestFails(f) ==
  /\ FetchFailed(f)
  /\ f # <<f[1], Request(f), 0>>
  /\ over' = over \cup {f}
  /\ UNCHANGED <<pool, started, passes, local, faults>>

AllOver(c) == Hedge(c) \subseteq over

Send(c, f) ==
  /\ page' = [page EXCEPT ![c] = f]
  /\ To(c, "sending")
  /\ UNCHANGED <<pool, fetching, request, video, source, answers, faults>>

GetOneHtml(c) ==
  /\ started' = started \cup {Current(c, 0)}
  /\ To(c, "one")
  /\ UNCHANGED <<pool, over, passes, request, video, source, page, answers, faults>>

\* sendFirstResponse calls WhenAny(allTask, source.Task): of two that are complete
\* already it gives the first, allTask, though a page has passed; but the task that
\* has set the source may not have ended yet.
WhenAny(c) ==
  /\ phase[c] = "launched"
  /\ \/ AllOver(c) /\ GetOneHtml(c)
     \/ source[c] # None /\ Send(c, source[c])
     \/ /\ ~AllOver(c) /\ source[c] = None
        /\ To(c, "awaiting")
        /\ UNCHANGED <<pool, fetching, request, video, source, page, answers, faults>>

\* Mutant of Chosen: only the source is awaited.
ChosenSourceOnly(c) ==
  /\ phase[c] = "awaiting"
  /\ source[c] # None /\ Send(c, source[c])

\* The one that completes first is the result: a source is set before its task ends.
Chosen(c) ==
  /\ phase[c] = "awaiting"
  /\ \/ source[c] # None /\ Send(c, source[c])
     \/ source[c] = None /\ AllOver(c) /\ GetOneHtml(c)

-----------------------------------------------------------------------------
(* Conccet_Core, AdAsync and MainBodyAsync.                                *)

\* The host decides; a host of neither kind is left as it is, its stream open, and so
\* is a connection whose handshake fails.
Connect(c) ==
  /\ phase[c] = "connected"
  /\ \E next \in {"reading", "ad", "left"} : To(c, next)
  /\ UNCHANGED <<pool, fetching, request, video, source, page, answers, faults>>

\* The advertisement is replaced by one of our own, and the connection closed.
Ad(c) ==
  /\ phase[c] = "ad"
  /\ To(c, "closed")
  /\ UNCHANGED <<pool, fetching, request, video, source, page, answers, faults>>

\* The next request is read; a video page begins its fetches.
ReadRequest(c) ==
  LET next == request[c] + 1 IN
    /\ phase[c] = "reading"
    /\ request[c] < MaxRequests
    /\ request' = [request EXCEPT ![c] = next]
    /\ source' = [source EXCEPT ![c] = None]
    /\ \/ /\ video' = [video EXCEPT ![c] = @ \cup {next}]
          /\ started' = started \cup {<<c, next, k>> : k \in 1..MaxRefreshRequestCount}
          /\ To(c, "launched")
       \/ /\ started' = started \cup {<<c, next, 0>>}
          /\ To(c, "one")
          /\ UNCHANGED video
    /\ UNCHANGED <<pool, over, passes, page, answers, faults>>

\* GetOneHtmlAsync: the page is sent whatever it is.
OneFetched(c) ==
  LET f == Current(c, 0) IN
    /\ phase[c] = "one"
    /\ Fetched(f)
    /\ over' = over \cup {f}
    /\ page' = [page EXCEPT ![c] = f]
    /\ To(c, "sending")
    /\ UNCHANGED <<pool, started, passes, request, video, source, answers, faults>>

\* SendResponse is through, and the next request is read.
Sent(c) ==
  /\ phase[c] = "sending"
  /\ answers' = [answers EXCEPT ![c] =
                   Append(@, [request |-> request[c], of |-> page[c]])]
  /\ To(c, "reading")
  /\ UNCHANGED <<pool, fetching, request, video, source, page, faults>>

\* Reading a request, the fetch or the sending throws: the local stream is closed.
Close(c) ==
  /\ \/ phase[c] \in {"reading", "sending"} /\ UNCHANGED over
     \/ /\ phase[c] = "one" /\ FetchFailed(Current(c, 0))
        /\ over' = over \cup {Current(c, 0)}
  /\ To(c, "closed")
  /\ UNCHANGED <<pool, started, passes, request, video, source, page, answers, faults>>

FetchStep(f) ==
  Ask(f) \/ Settle(f) \/ Retry(f) \/ CreateOneRequest(f) \/ CreateOneRequestFails(f)

LocalStep(c) == WhenAny(c) \/ Chosen(c) \/ OneFetched(c) \/ Sent(c) \/ Close(c)

Next ==
  \/ \E f \in Fetches : FetchStep(f)
  \/ \E c \in Locals : LocalStep(c) \/ Connect(c) \/ Ad(c) \/ ReadRequest(c)

Spec == Init /\ [][Next]_vars

\* A task or a continuation that has its result goes on.  Nothing is assumed of the
\* pool, whose packs have no token (line 93) and no ResponseTimeOut (lines 284-291 leave
\* it at Never), nor of the local client, which may not read what it is sent.
FairSpec ==
  /\ Spec
  /\ \A f \in Fetches : WF_vars(Retry(f) \/ CreateOneRequest(f) \/ CreateOneRequestFails(f))
  /\ \A c \in Locals :
       WF_vars(WhenAny(c) \/ Chosen(c) \/ OneFetched(c) \/ (phase[c] = "one" /\ Close(c)))

-----------------------------------------------------------------------------
(* Properties.                                                             *)

\* A connection's answers are to its requests in their order, one to each, also
\* when several fetches of one request pass and when those of an earlier request are
\* still under way; each is a page fetched for that very request (the pool vouches
\* that it is the fetch's own, or a stray of the server's), and one that was chosen
\* among the fetches of a video page passes; the page that is fetched when none was
\* chosen need not, see VideoPagesPass.
AnswersInOrder ==
  \A c \in Locals :
    /\ Len(answers[c]) \in {request[c], request[c] - 1}
    /\ phase[c] = "reading" => Len(answers[c]) = request[c]
    /\ \A i \in 1..Len(answers[c]) :
         LET a == answers[c][i] IN
           /\ a.request = i
           /\ <<a.of[1], a.of[2]>> = <<c, i>>
           /\ a.of[3] # 0 => i \in video[c] /\ a.of \in passes

\* The comment on the class (line 24): a video page is asked for again and again and
\* only given back when the string that CheckingVideoHtml looks for is there.
VideoPagesPass ==
  \A c \in Locals : \A i \in 1..Len(answers[c]) :
    answers[c][i].request \in video[c] => answers[c][i].of \in passes

\* The handler waits for a page that the pool has not given: of the fetches of a video
\* page none has been chosen and one is not settled, or its one fetch is not.
WaitsForPool(c) ==
  \/ phase[c] = "awaiting" /\ source[c] = None
       /\ \E f \in Hedge(c) \ over : reply[f].kind = "none"
  \/ phase[c] = "one" /\ reply[Current(c, 0)].kind = "none"

\* A request that was read is answered or its connection closed, whatever its fetches
\* give and in whatever order, as long as a bounded number of them has to be retried:
\* but for a pool that keeps a fetch for ever, on which the answer still depends, and
\* for a client that does not read its answer, nothing keeps a handler waiting.
RequestEnds ==
  \A c \in Locals :
    \/ (phase[c] \in {"launched", "awaiting", "one", "sending"})
         ~> (phase[c] = "closed" \/ Len(answers[c]) = request[c])
    \/ <>[]WaitsForPool(c)
    \/ <>[](phase[c] = "sending")

=============================================================================
