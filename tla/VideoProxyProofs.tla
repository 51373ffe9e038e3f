--------------------------- MODULE VideoProxyProofs ---------------------------
(***************************************************************************)
(* The answers of the video proxy, for any number of connections, requests *)
(* and fetches.                                                            *)
(***************************************************************************)
EXTENDS VideoProxy, TLAPS

Phases == {"connected", "ad", "left", "reading", "launched", "awaiting", "one",
           "sending", "closed"}

\* An answer: the request it is to, and the fetch whose page it is.
Answers == [request : Nat, of : Fetches]

TypeOK ==
  /\ phase \in [Locals -> Phases]
  /\ request \in [Locals -> 0..MaxRequests]
  /\ video \in [Locals -> SUBSET Nat]
  /\ answers \in [Locals -> Seq(Answers)]
  /\ DOMAIN source = Locals
  /\ DOMAIN page = Locals

\* A request is answered before the next one is read.
InTurn(c) ==
  /\ phase[c] \in {"connected", "ad", "left", "reading"} => Len(answers[c]) = request[c]
  /\ phase[c] \in {"launched", "awaiting", "one", "sending"} =>
       Len(answers[c]) = request[c] - 1
  /\ Len(answers[c]) \in {request[c], request[c] - 1}

\* What is chosen among is fetches of the current request, which is for a video page.
ChosenRight(c) ==
  /\ phase[c] \in {"launched", "awaiting"} => request[c] \in video[c]
  /\ source[c] # None => source[c] \in passes \cap Hedge(c)

\* A page that is sent is the one that was asked for alone, or one that passes.
PageRight(c) ==
  phase[c] = "sending" =>
    \/ page[c] = Current(c, 0)
    \/ page[c] \in passes \cap Hedge(c) /\ request[c] \in video[c]

\* One answer of a connection.
AnswerRight(c, i) ==
  LET a == answers[c][i] IN
    /\ a.request = i
    /\ <<a.of[1], a.of[2]>> = <<c, i>>
    /\ a.of[3] # 0 => i \in video[c] /\ a.of \in passes

AnswersRight(c) == \A i \in 1..Len(answers[c]) : AnswerRight(c, i)

LocalInv(c) == InTurn(c) /\ ChosenRight(c) /\ PageRight(c) /\ AnswersRight(c)

IInv == TypeOK /\ \A c \in Locals : LocalInv(c)

-----------------------------------------------------------------------------
\* What a connection's part of the invariant says does not change with what the
\* step leaves alone, as a page that passes goes on to pass.
Same(c) ==
  /\ phase'[c] = phase[c] /\ request'[c] = request[c] /\ video'[c] = video[c]
  /\ source'[c] = source[c] /\ page'[c] = page[c] /\ answers'[c] = answers[c]

LEMMA SameKeeps ==
  ASSUME NEW c \in Locals, LocalInv(c), Same(c), passes \subseteq passes'
  PROVE  LocalInv(c)'
  <1>1. InTurn(c)'
    BY DEF LocalInv, InTurn, Same
  <1>2. ChosenRight(c)'
    BY DEF LocalInv, ChosenRight, Same, Hedge, Current
  <1>3. PageRight(c)'
    BY DEF LocalInv, PageRight, Same, Hedge, Current
  <1>4. AnswersRight(c)'
    BY DEF LocalInv, AnswersRight, AnswerRight, Same
  <1> QED
    BY <1>1, <1>2, <1>3, <1>4 DEF LocalInv

\* A fetch of the current request is one.
LEMMA CurrentFetch ==
  ASSUME NEW c \in Locals, request[c] \in 1..MaxRequests,
         NEW k \in 0..MaxRefreshRequestCount
  PROVE  Current(c, k) \in Fetches
  BY DEF Current, Fetches

LEMMA TypeInit == Init => TypeOK
  BY VideoProxyAssumption DEF Init, TypeOK, Phases

LEMMA InvInit == Init => IInv
  <1> SUFFICES ASSUME Init PROVE IInv
    OBVIOUS
  <1>1. ASSUME NEW c \in Locals PROVE LocalInv(c)
    BY DEF Init, LocalInv, InTurn, ChosenRight, PageRight, AnswersRight
  <1> QED
    BY <1>1, TypeInit DEF IInv

\* A step of a fetch leaves the answers alone; if it sets a source, it is one that
\* passes, of the current request.
LEMMA FetchSteps ==
  ASSUME IInv, NEW f \in Fetches, FetchStep(f)
  PROVE  IInv'
  <1> USE DEF IInv
  <1>1. CASE Ask(f)
    <2>1. TypeOK' /\ passes \subseteq passes' /\ \A c \in Locals : Same(c)
      BY <1>1 DEF Ask, fetching, local, Same, TypeOK
    <2> QED
      BY <2>1, SameKeeps
  <1>2. CASE Settle(f)
    <2>1. TypeOK' /\ passes \subseteq passes' /\ \A c \in Locals : Same(c)
      BY <1>2 DEF Settle, local, Same, TypeOK
    <2> QED
      BY <2>1, SameKeeps
  <1>3. CASE Retry(f)
    <2>1. TypeOK' /\ passes \subseteq passes' /\ \A c \in Locals : Same(c)
      BY <1>3 DEF Retry, fetching, local, Same, TypeOK
    <2> QED
      BY <2>1, SameKeeps
  <1>4. CASE CreateOneRequestFails(f)
    <2>1. TypeOK' /\ passes \subseteq passes' /\ \A c \in Locals : Same(c)
      BY <1>4 DEF CreateOneRequestFails, local, Same, TypeOK
    <2> QED
      BY <2>1, SameKeeps
  <1>5. CASE CreateOneRequest(f)
    <2> DEFINE c == f[1]
    <2>1. c \in Locals
      BY DEF Fetches
    <2>2. /\ TypeOK' /\ passes' = passes
          /\ \A d \in Locals \ {c} : Same(d)
      BY <1>5 DEF CreateOneRequest, Same, TypeOK
    <2>3. ASSUME NEW d \in Locals \ {c} PROVE LocalInv(d)'
      BY <2>2, SameKeeps
    <2>4. source'[c] # None => source'[c] \in passes \cap Hedge(c)
      BY <1>5, <2>1 DEF CreateOneRequest, TypeOK, LocalInv, ChosenRight
    <2>5. /\ phase' = phase /\ request' = request /\ video' = video /\ page' = page
          /\ answers' = answers /\ passes' = passes
      BY <1>5 DEF CreateOneRequest
    <2>6. LocalInv(c)'
      <3>1. InTurn(c)'
        BY <2>1, <2>5 DEF LocalInv, InTurn
      <3>2. ChosenRight(c)'
        BY <2>1, <2>4, <2>5 DEF LocalInv, ChosenRight, Hedge, Current
      <3>3. PageRight(c)'
        BY <2>1, <2>5 DEF LocalInv, PageRight, Hedge, Current
      <3>4. AnswersRight(c)'
        BY <2>1, <2>5 DEF LocalInv, AnswersRight, AnswerRight
      <3> QED
        BY <3>1, <3>2, <3>3, <3>4 DEF LocalInv
    <2> QED
      BY <2>2, <2>3, <2>6
  <1> QED
    BY <1>1, <1>2, <1>3, <1>4, <1>5 DEF FetchStep

\* What a step of connection `c` leaves alone.
Others(c) == \A d \in Locals \ {c} : Same(d)

LEMMA LocalKeeps ==
  ASSUME IInv, NEW c \in Locals, TypeOK', Others(c), passes' = passes, LocalInv(c)'
  PROVE  IInv'
  <1>1. ASSUME NEW d \in Locals \ {c} PROVE LocalInv(d)'
    BY SameKeeps DEF IInv, Others
  <1> QED
    BY <1>1 DEF IInv

\* A request that is under way counts.
LEMMA Underway ==
  ASSUME TypeOK, NEW c \in Locals, InTurn(c),
         phase[c] \in {"launched", "awaiting", "one", "sending"}
  PROVE  request[c] \in 1..MaxRequests
  <1>1. Len(answers[c]) \in Nat
    BY DEF TypeOK
  <1>2. request[c] \in 0..MaxRequests /\ Len(answers[c]) = request[c] - 1
    BY DEF TypeOK, InTurn
  <1> QED
    BY <1>1, <1>2, VideoProxyAssumption

LEMMA SendStep ==
  ASSUME IInv, NEW c \in Locals, phase[c] \in {"launched", "awaiting"},
         source[c] # None, Send(c, source[c])
  PROVE  IInv'
  <1> USE DEF IInv
  <1>1. TypeOK' /\ Others(c) /\ passes' = passes
    BY DEF Send, To, fetching, Others, Same, TypeOK, Phases
  <1>2. /\ phase'[c] = "sending" /\ page'[c] = source[c] /\ request' = request
        /\ video' = video /\ source' = source /\ answers' = answers
    BY DEF Send, To, TypeOK
  <1>3. source[c] \in passes \cap Hedge(c) /\ request[c] \in video[c]
    BY DEF LocalInv, ChosenRight
  <1>4. InTurn(c)'
    BY <1>2 DEF LocalInv, InTurn
  <1>5. ChosenRight(c)'
    BY <1>1, <1>2 DEF LocalInv, ChosenRight, Hedge, Current
  <1>6. PageRight(c)'
    BY <1>1, <1>2, <1>3 DEF PageRight, Hedge, Current
  <1>7. AnswersRight(c)'
    BY <1>1, <1>2 DEF LocalInv, AnswersRight, AnswerRight
  <1> QED
    BY <1>1, <1>4, <1>5, <1>6, <1>7, LocalKeeps DEF LocalInv

\* The handler goes to another phase of the same request, and sends nothing yet.
LEMMA PhaseStep ==
  ASSUME IInv, NEW c \in Locals, NEW next \in Phases \ {"sending"}, To(c, next),
         passes' = passes,
         UNCHANGED <<request, video, source, page, answers>>,
         \/ phase[c] = "launched" /\ next \in {"awaiting", "one"}
         \/ phase[c] = "awaiting" /\ next = "one"
         \/ phase[c] = "connected" /\ next \in {"reading", "ad", "left"}
         \/ next = "closed"
  PROVE  IInv'
  <1> USE DEF IInv
  <1>1. TypeOK' /\ Others(c)
    BY DEF To, Others, Same, TypeOK
  <1>2. phase'[c] = next
    BY DEF To, TypeOK
  <1>3. InTurn(c)'
    BY <1>2 DEF LocalInv, InTurn
  <1>4. ChosenRight(c)'
    BY <1>2 DEF LocalInv, ChosenRight, Hedge, Current
  <1>5. PageRight(c)'
    BY <1>2 DEF PageRight
  <1>6. AnswersRight(c)'
    BY DEF LocalInv, AnswersRight, AnswerRight
  <1> QED
    BY <1>1, <1>3, <1>4, <1>5, <1>6, LocalKeeps DEF LocalInv

LEMMA GetOneHtmlStep ==
  ASSUME IInv, NEW c \in Locals, phase[c] \in {"launched", "awaiting"}, GetOneHtml(c)
  PROVE  IInv'
  <1>1. /\ To(c, "one") /\ passes' = passes
        /\ UNCHANGED <<request, video, source, page, answers>>
    BY DEF GetOneHtml
  <1> QED
    BY <1>1, PhaseStep DEF Phases

LEMMA WhenAnyStep ==
  ASSUME IInv, NEW c \in Locals, WhenAny(c)
  PROVE  IInv'
  <1>1. CASE GetOneHtml(c)
    BY <1>1, GetOneHtmlStep DEF WhenAny
  <1>2. CASE source[c] # None /\ Send(c, source[c])
    BY <1>2, SendStep DEF WhenAny
  <1>3. CASE /\ To(c, "awaiting")
             /\ UNCHANGED <<pool, fetching, request, video, source, page, answers, faults>>
    BY <1>3, PhaseStep DEF WhenAny, fetching, Phases
  <1> QED
    BY <1>1, <1>2, <1>3 DEF WhenAny

LEMMA ChosenStep ==
  ASSUME IInv, NEW c \in Locals, Chosen(c)
  PROVE  IInv'
  BY SendStep, GetOneHtmlStep DEF Chosen

LEMMA OneFetchedStep ==
  ASSUME IInv, NEW c \in Locals, OneFetched(c)
  PROVE  IInv'
  <1> USE DEF IInv
  <1>1. TypeOK' /\ Others(c) /\ passes' = passes
    BY DEF OneFetched, To, Others, Same, TypeOK, Phases
  <1>2. /\ phase'[c] = "sending" /\ page'[c] = Current(c, 0) /\ request' = request
        /\ video' = video /\ source' = source /\ answers' = answers
    BY DEF OneFetched, To, TypeOK
  <1>3. InTurn(c)'
    BY <1>2 DEF LocalInv, InTurn, OneFetched
  <1>4. ChosenRight(c)'
    BY <1>1, <1>2 DEF LocalInv, ChosenRight, Hedge, Current
  <1>5. PageRight(c)'
    BY <1>1, <1>2 DEF PageRight, Current
  <1>6. AnswersRight(c)'
    BY <1>1, <1>2 DEF LocalInv, AnswersRight, AnswerRight
  <1> QED
    BY <1>1, <1>3, <1>4, <1>5, <1>6, LocalKeeps DEF LocalInv

\* The page that is sent becomes the answer to the current request.
LEMMA SentStep ==
  ASSUME IInv, NEW c \in Locals, Sent(c)
  PROVE  IInv'
  <1> USE DEF IInv
  <1> DEFINE r == request[c]
             a == [request |-> r, of |-> page[c]]
  <1>1. r \in 1..MaxRequests /\ Len(answers[c]) = r - 1 /\ answers[c] \in Seq(Answers)
    BY Underway DEF Sent, LocalInv, InTurn, TypeOK
  <1>2. PICK k \in 0..MaxRefreshRequestCount :
          /\ page[c] = Current(c, k)
          /\ k # 0 => page[c] \in passes /\ r \in video[c]
    BY VideoProxyAssumption DEF Sent, LocalInv, PageRight, Hedge
  <1>3. a \in Answers
    BY <1>1, <1>2, CurrentFetch, VideoProxyAssumption DEF Answers
  <1>4. /\ phase'[c] = "reading" /\ answers'[c] = Append(answers[c], a)
        /\ passes' = passes /\ request' = request /\ video' = video /\ source' = source
        /\ page' = page
    BY DEF Sent, To, TypeOK, fetching
  <1>5. Append(answers[c], a) \in Seq(Answers) /\ Len(answers'[c]) = r
    BY <1>1, <1>3, <1>4, VideoProxyAssumption
  <1>6. TypeOK' /\ Others(c)
    BY <1>5 DEF Sent, To, Others, Same, TypeOK, Phases
  <1>7. InTurn(c)'
    BY <1>4, <1>5 DEF InTurn
  <1>8. ChosenRight(c)'
    BY <1>4 DEF LocalInv, ChosenRight, Hedge, Current
  <1>9. PageRight(c)'
    BY <1>4 DEF PageRight
  <1>10. AnswersRight(c)'
    <2> SUFFICES ASSUME NEW i \in 1..r PROVE AnswerRight(c, i)'
      BY <1>5, <1>4 DEF AnswersRight
    <2>1. CASE i < r
      <3>1. answers'[c][i] = answers[c][i] /\ i \in 1..Len(answers[c])
        BY <1>1, <1>4, <2>1, VideoProxyAssumption
      <3>2. AnswerRight(c, i)
        BY <3>1 DEF LocalInv, AnswersRight
      <3> QED
        BY <1>4, <3>1, <3>2 DEF AnswerRight
    <2>2. CASE i = r
      <3>1. answers'[c][i] = a
        BY <1>1, <1>4, <2>2, VideoProxyAssumption
      <3>2. a.of[1] = c /\ a.of[2] = r /\ a.of[3] = k /\ a.request = r
        BY <1>2 DEF Current
      <3>3. a.of = page[c]
        OBVIOUS
      <3> QED
        BY <1>2, <1>4, <2>2, <3>1, <3>2, <3>3 DEF AnswerRight
    <2> QED
      BY <2>1, <2>2, <1>1, VideoProxyAssumption
  <1> QED
    BY <1>4, <1>6, <1>7, <1>8, <1>9, <1>10, LocalKeeps DEF LocalInv

LEMMA CloseStep ==
  ASSUME IInv, NEW c \in Locals, Close(c)
  PROVE  IInv'
  <1>1. /\ To(c, "closed") /\ passes' = passes
        /\ UNCHANGED <<request, video, source, page, answers>>
    BY DEF Close
  <1> QED
    BY <1>1, PhaseStep DEF Phases

LEMMA ConnectStep ==
  ASSUME IInv, NEW c \in Locals, Connect(c) \/ Ad(c)
  PROVE  IInv'
  <1>1. PICK next \in {"reading", "ad", "left", "closed"} :
          /\ To(c, next) /\ passes' = passes
          /\ UNCHANGED <<request, video, source, page, answers>>
          /\ phase[c] = "connected" \/ next = "closed"
    BY DEF Connect, Ad, fetching
  <1>2. next \in Phases \ {"sending"}
    BY DEF Phases
  <1> QED
    BY <1>1, <1>2, PhaseStep

\* The source is given up with the request that it was for.
LEMMA ReadRequestStep ==
  ASSUME IInv, NEW c \in Locals, ReadRequest(c)
  PROVE  IInv'
  <1> USE DEF IInv
  <1> DEFINE r == request[c]
  <1>1. r \in 0..MaxRequests /\ r < MaxRequests /\ r + 1 \in 0..MaxRequests
    BY VideoProxyAssumption DEF ReadRequest, TypeOK
  <1>2. /\ request' = [request EXCEPT ![c] = r + 1]
        /\ source' = [source EXCEPT ![c] = None]
        /\ answers' = answers /\ page' = page /\ passes' = passes
        /\ phase[c] = "reading"
    BY DEF ReadRequest
  <1>3. \/ To(c, "launched") /\ video' = [video EXCEPT ![c] = @ \cup {r + 1}]
        \/ To(c, "one") /\ video' = video
    BY DEF ReadRequest
  <1>4. TypeOK'
    <2>1. request' \in [Locals -> 0..MaxRequests] /\ DOMAIN source' = Locals
      BY <1>1, <1>2 DEF TypeOK
    <2>2. phase' \in [Locals -> Phases]
      BY <1>3 DEF TypeOK, To, Phases
    <2>3. video' \in [Locals -> SUBSET Nat]
      <3>1. r + 1 \in Nat
        BY <1>1
      <3> QED
        BY <1>3, <3>1 DEF TypeOK
    <2> QED
      BY <1>2, <2>1, <2>2, <2>3 DEF TypeOK
  <1>5. Others(c)
    BY <1>2, <1>3 DEF TypeOK, Others, Same, To
  <1>6. /\ request'[c] = r + 1 /\ source'[c] = None /\ video[c] \subseteq video'[c]
        /\ phase'[c] \in {"launched", "one"}
        /\ phase'[c] = "launched" => r + 1 \in video'[c]
    BY <1>2, <1>3 DEF TypeOK, To
  <1>7. Len(answers[c]) = r
    BY <1>2 DEF LocalInv, InTurn
  <1>8. InTurn(c)'
    BY <1>1, <1>2, <1>6, <1>7, VideoProxyAssumption DEF InTurn
  <1>9. ChosenRight(c)'
    BY <1>6 DEF ChosenRight
  <1>10. PageRight(c)'
    BY <1>6 DEF PageRight
  <1>11. AnswersRight(c)'
    BY <1>2, <1>6 DEF LocalInv, AnswersRight, AnswerRight
  <1> QED
    BY <1>2, <1>4, <1>5, <1>8, <1>9, <1>10, <1>11, LocalKeeps DEF LocalInv

LEMMA InvStep == IInv /\ [Next]_vars => IInv'
  <1> SUFFICES ASSUME IInv, [Next]_vars PROVE IInv'
    OBVIOUS
  <1>1. CASE UNCHANGED vars
    BY <1>1, SameKeeps DEF vars, fetching, local, IInv, TypeOK, Same
  <1>2. ASSUME NEW f \in Fetches, FetchStep(f) PROVE IInv'
    BY <1>2, FetchSteps
  <1>3. ASSUME NEW c \in Locals, LocalStep(c) \/ Connect(c) \/ Ad(c) \/ ReadRequest(c)
        PROVE  IInv'
    BY <1>3, WhenAnyStep, ChosenStep, OneFetchedStep, SentStep, CloseStep, ConnectStep,
       ReadRequestStep DEF LocalStep
  <1> QED
    BY <1>1, <1>2, <1>3 DEF Next

\* The types of the handler's state.
THEOREM TypeCorrect == Spec => []TypeOK
  <1>1. IInv => TypeOK
    BY DEF IInv
  <1> QED
    BY InvInit, InvStep, <1>1, PTL DEF Spec

\* However the fetches of a connection's requests race and fail, its answers are to
\* its requests in their order, one to each, each with a page fetched for it.
THEOREM AnswersAlwaysInOrder == Spec => []AnswersInOrder
  <1>1. IInv => AnswersInOrder
    BY DEF IInv, LocalInv, InTurn, AnswersRight, AnswerRight, AnswersInOrder
  <1> QED
    BY InvInit, InvStep, <1>1, PTL DEF Spec

=============================================================================
