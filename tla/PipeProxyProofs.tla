--------------------------- MODULE PipeProxyProofs ---------------------------
(***************************************************************************)
(* The pipelines proxy relays in order, wakes each loop once and publishes *)
(* the end of a client once, whatever its peers send.                      *)
(***************************************************************************)
EXTENDS PipeProxy, SequenceTheorems, FiniteSetTheorems, WellFoundedInduction, TLAPS

-----------------------------------------------------------------------------
(* How often a work is in a queue.                                         *)

WorkItems == [do : {"run", "dispose", "read", "send"}, side : Sides]

At(q, w) == {i \in 1..Len(q) : q[i] = w}
Count(q, w) == Cardinality(At(q, w))
One(b) == IF b THEN 1 ELSE 0

LEMMA CountIsNat ==
  ASSUME NEW q \in Seq(WorkItems), NEW w
  PROVE  IsFiniteSet(At(q, w)) /\ Count(q, w) \in Nat
<1>1. IsFiniteSet(1..Len(q))
  BY FS_Interval
<1>2. IsFiniteSet(At(q, w))
  BY <1>1, FS_Subset DEF At
<1> QED BY <1>2, FS_CardinalityType DEF Count

LEMMA CountConcat ==
  ASSUME NEW p \in Seq(WorkItems), NEW q \in Seq(WorkItems), NEW w
  PROVE  Count(p \o q, w) = Count(p, w) + Count(q, w)
<1> DEFINE m == Len(p)
           n == Len(q)
           r == p \o q
           f == [i \in At(q, w) |-> m + i]
           S == {i \in At(r, w) : m < i}
<1>1. /\ m \in Nat /\ n \in Nat /\ Len(r) = m + n /\ r \in Seq(WorkItems)
      /\ \A i \in 1..m : r[i] = p[i]
      /\ \A i \in 1..n : r[m + i] = q[i]
  OBVIOUS
<1> HIDE DEF m, n, r
<1>2. At(q, w) \subseteq 1..n /\ At(p, w) \subseteq 1..m /\ At(r, w) \subseteq 1..m + n
  BY <1>1 DEF At, m, n
<1>3. At(r, w) = At(p, w) \cup S /\ At(p, w) \cap S = {}
  <2>1. \A i \in 1..m + n : m < i \/ i \in 1..m
    BY <1>1
  <2>2. \A i \in 1..m : i \in 1..m + n /\ ~(m < i)
    BY <1>1
  <2>3. \A i \in 1..m : i \in At(r, w) <=> i \in At(p, w)
    BY <1>1, <2>2 DEF At, m
  <2> QED BY <1>2, <2>1, <2>2, <2>3
<1>4. f \in Bijection(At(q, w), S)
  <2>1. \A i \in At(q, w) : m + i \in S
    <3>1. \A i \in 1..n : m + i \in 1..m + n /\ m < m + i
      BY <1>1
    <3> QED BY <1>1, <1>2, <3>1 DEF At, n
  <2>2. \A i, j \in At(q, w) : m + i = m + j => i = j
    BY <1>1, <1>2
  <2>3. \A k \in S : k - m \in At(q, w) /\ m + (k - m) = k
    <3>1. \A k \in 1..m + n : m < k => k - m \in 1..n /\ m + (k - m) = k
      BY <1>1
    <3> QED BY <1>1, <1>2, <3>1 DEF At, n
  <2>4. f \in [At(q, w) -> S]
    BY <2>1
  <2>5. IsInjective(f)
    BY <2>2 DEF IsInjective
  <2>6. \A k \in S : \E i \in At(q, w) : f[i] = k
    BY <2>3
  <2> QED BY <2>4, <2>5, <2>6 DEF Bijection, Injection, Surjection
<1>5. IsFiniteSet(S) /\ Cardinality(S) = Cardinality(At(q, w))
  BY <1>4, CountIsNat, FS_Bijection DEF ExistsBijection
<1>6. Cardinality(At(p, w) \cap S) = 0
  BY <1>3, FS_EmptySet
<1>7. Cardinality(At(r, w)) = Cardinality(At(p, w)) + Cardinality(S)
  <2>1. Cardinality(At(p, w) \cup S)
          = Cardinality(At(p, w)) + Cardinality(S) - Cardinality(At(p, w) \cap S)
    BY <1>5, CountIsNat, FS_Union
  <2>2. Cardinality(At(p, w)) \in Nat /\ Cardinality(S) \in Nat
    BY <1>5, CountIsNat DEF Count
  <2>3. Cardinality(At(r, w)) = Cardinality(At(p, w) \cup S)
    BY <1>3
  <2> HIDE DEF S
  <2> QED BY <1>6, <2>1, <2>2, <2>3
<1> QED BY <1>5, <1>7 DEF Count, r

LEMMA CountSingle ==
  ASSUME NEW v \in WorkItems, NEW w
  PROVE  Count(<<>>, w) = 0 /\ Count(<<v>>, w) = One(v = w)
<1>1. At(<<>>, w) = {}
  BY DEF At
<1>2. Len(<<v>>) = 1 /\ <<v>>[1] = v /\ 1..1 = {1}
  OBVIOUS
<1>3. At(<<v>>, w) = IF v = w THEN {1} ELSE {}
  BY <1>2 DEF At
<1> QED BY <1>1, <1>3, FS_EmptySet, FS_Singleton DEF Count, One

LEMMA CountTake ==
  ASSUME NEW q \in Seq(WorkItems), q # <<>>, NEW w
  PROVE  /\ Tail(q) \in Seq(WorkItems) /\ Head(q) \in WorkItems
         /\ Count(q, w) = One(Head(q) = w) + Count(Tail(q), w)
<1>1. Head(q) \in WorkItems /\ Tail(q) \in Seq(WorkItems)
  BY HeadTailProperties
<1>2. <<Head(q)>> \in Seq(WorkItems)
  BY <1>1
<1>3. <<Head(q)>> \o Tail(q) = q
  <2>1. /\ Len(q) \in Nat \ {0} /\ Len(Tail(q)) = Len(q) - 1
        /\ \A i \in 1..Len(q) - 1 : Tail(q)[i] = q[i + 1]
        /\ Head(q) = q[1]
    OBVIOUS
  <2> DEFINE t == Tail(q)
             r == <<Head(q)>> \o t
  <2>2. /\ r \in Seq(WorkItems) /\ Len(r) = 1 + Len(t) /\ r[1] = Head(q)
        /\ \A i \in 1..Len(t) : r[1 + i] = t[i]
    BY <1>1, <1>2
  <2> HIDE DEF t
  <2>3. Len(t) = Len(q) - 1 /\ \A i \in 1..Len(q) - 1 : t[i] = q[i + 1]
    BY <2>1 DEF t
  <2> HIDE DEF r
  <2>4. Len(r) = Len(q)
    BY <2>1, <2>2, <2>3
  <2>5. \A i \in 1..Len(q) : r[i] = q[i]
    <3> SUFFICES ASSUME NEW i \in 1..Len(q) PROVE r[i] = q[i]
      OBVIOUS
    <3>1. CASE i = 1
      BY <3>1, <2>1, <2>2
    <3>2. CASE i # 1
      <4>1. i - 1 \in 1..Len(q) - 1 /\ 1 + (i - 1) = i /\ (i - 1) + 1 = i
        BY <3>2, <2>1
      <4> QED BY <4>1, <2>2, <2>3
    <3> QED BY <3>1, <3>2
  <2>6. r = q
    BY <2>2, <2>4, <2>5, SeqEqual
  <2> QED BY <2>6 DEF r, t
<1>4. Count(<<Head(q)>> \o Tail(q), w) = Count(<<Head(q)>>, w) + Count(Tail(q), w)
  BY <1>1, <1>2, CountConcat
<1>5. Count(q, w) = Count(<<Head(q)>>, w) + Count(Tail(q), w)
  BY <1>3, <1>4
<1>6. Count(<<Head(q)>>, w) = One(Head(q) = w)
  BY <1>1, CountSingle
<1> QED BY <1>1, <1>5, <1>6

-----------------------------------------------------------------------------
(* The work queue and the six loops.                                       *)

States == {"off", "receiving", "waiting", "queued", "sending", "leaving", "ended"}

Queued(do, s) == Count(workQueue, Work(do, s))

TaskTypeOK ==
  /\ workQueue \in Seq(WorkItems)
  /\ write \in [Sides -> States]
  /\ read \in [Sides -> States]
  /\ sender \in [Sides -> States]
  /\ closed \in [Sides -> BOOLEAN]
  /\ adding \in BOOLEAN
  /\ clientDisposed \in BOOLEAN
  /\ connected \in Nat
  /\ disconnected \in Nat

\* Run is in the queue or was run, after the one connection was accepted; a disposal
\* is in the queue, in a task, or was performed, after the client was disposed; and
\* nobody disposes a client whose loops were not started.
ClientInv ==
  /\ Queued("run", "Local") + connected = One(accept = "done")
  /\ Queued("dispose", "Local") + One(offThread = "pending") + disconnected
       = One(clientDisposed)
  /\ connected = 0 =>
       /\ write = All("off") /\ read = All("off") /\ sender = All("off")
       /\ \A s \in Sides : Queued("read", s) = 0 /\ Queued("send", s) = 0
       /\ ~clientDisposed

WakeInv ==
  adding /\ thread # "crashed" =>
    \A s \in Sides : /\ Queued("read", s) = One(read[s] = "queued")
                    /\ Queued("send", s) = One(sender[s] = "queued")

TaskInv == TaskTypeOK /\ ClientInv /\ WakeInv

LEMMA TaskInvMeans ==
  TaskInv => WokenOnce /\ OneDisconnect
<1> SUFFICES ASSUME TaskInv PROVE WokenOnce /\ OneDisconnect
  OBVIOUS
<1>1. WokenOnce
  BY DEF TaskInv, WakeInv, WokenOnce, Queued, Count, At, Works, One
<1>2. /\ Queued("run", "Local") \in Nat /\ Queued("dispose", "Local") \in Nat
      /\ One(offThread = "pending") \in 0..1 /\ One(clientDisposed) \in 0..1
      /\ One(accept = "done") \in 0..1 /\ (~clientDisposed => One(clientDisposed) = 0)
      /\ connected \in Nat /\ disconnected \in Nat
  BY CountIsNat DEF TaskInv, TaskTypeOK, Queued, One
<1>3. connected <= 1 /\ disconnected <= 1
  <2>1. /\ Queued("run", "Local") + connected = One(accept = "done")
        /\ Queued("dispose", "Local") + One(offThread = "pending") + disconnected
             = One(clientDisposed)
    BY DEF TaskInv, ClientInv
  <2>2. \A r, c \in Nat, x \in 0..1 : r + c = x => c <= 1
    OBVIOUS
  <2>3. \A r, o, c \in Nat, x \in 0..1 : r + o + c = x => c <= 1
    OBVIOUS
  <2>4. One(offThread = "pending") \in Nat
    BY <1>2
  <2>5. connected <= 1
    BY <1>2, <2>1, <2>2
  <2>6. disconnected <= 1
    BY <1>2, <2>1, <2>3, <2>4
  <2> QED BY <2>5, <2>6
<1>4. connected = 0 => disconnected = 0
  BY <1>2 DEF TaskInv, ClientInv
<1> QED BY <1>1, <1>2, <1>3, <1>4 DEF OneDisconnect

LEMMA WorkEqual ==
  ASSUME NEW a, NEW s, NEW b, NEW t
  PROVE  Work(a, s) = Work(b, t) <=> a = b /\ s = t
BY DEF Work

LEMMA QueuedIsNat ==
  ASSUME TaskTypeOK, NEW do, NEW s
  PROVE  Queued(do, s) \in Nat
BY CountIsNat DEF TaskTypeOK, Queued

LEMMA Scheduled ==
  ASSUME TaskTypeOK, NEW a \in {"run", "dispose", "read", "send"}, NEW t \in Sides,
         workQueue' = workQueue \o <<Work(a, t)>>
  PROVE  /\ workQueue' \in Seq(WorkItems)
         /\ \A do, s : Queued(do, s)' = Queued(do, s) + One(do = a /\ s = t)
<1>1. Work(a, t) \in WorkItems
  BY DEF Work, WorkItems
<1>2. <<Work(a, t)>> \in Seq(WorkItems) /\ workQueue \in Seq(WorkItems)
  BY <1>1 DEF TaskTypeOK
<1>3. \A w : Count(workQueue', w) = Count(workQueue, w) + One(Work(a, t) = w)
  <2> SUFFICES ASSUME NEW w
               PROVE  Count(workQueue', w) = Count(workQueue, w) + One(Work(a, t) = w)
    OBVIOUS
  <2>1. Count(workQueue', w) = Count(workQueue, w) + Count(<<Work(a, t)>>, w)
    BY <1>2, CountConcat
  <2> QED BY <1>1, <2>1, CountSingle
<1>4. workQueue' \in Seq(WorkItems)
  BY <1>2
<1>5. ASSUME NEW do, NEW s
      PROVE  Queued(do, s)' = Queued(do, s) + One(do = a /\ s = t)
  <2>1. Work(a, t) = Work(do, s) <=> do = a /\ s = t
    BY WorkEqual
  <2> QED BY <1>3, <2>1 DEF Queued, One
<1> QED BY <1>4, <1>5

LEMMA Taken ==
  ASSUME TaskTypeOK, NEW a, NEW t, Take(a, t), NEW do, NEW s
  PROVE  /\ Tail(workQueue) \in Seq(WorkItems)
         /\ Count(Tail(workQueue), Work(do, s)) \in Nat
         /\ Queued(do, s) = One(do = a /\ s = t) + Count(Tail(workQueue), Work(do, s))
<1>1. workQueue \in Seq(WorkItems) /\ workQueue # <<>> /\ Head(workQueue) = Work(a, t)
  BY DEF TaskTypeOK, Take
<1>2. /\ Tail(workQueue) \in Seq(WorkItems)
      /\ Queued(do, s) = One(Work(a, t) = Work(do, s)) + Count(Tail(workQueue), Work(do, s))
  BY <1>1, CountTake DEF Queued
<1>3. Work(a, t) = Work(do, s) <=> do = a /\ s = t
  BY WorkEqual
<1> QED BY <1>2, <1>3, CountIsNat DEF One

\* The loop of side t that such a work continues waits.
Waits(t, do) ==
  \/ do = "read" /\ read[t] = "waiting"
  \/ do = "send" /\ sender[t] = "waiting"

LEMMA WokenCount ==
  ASSUME TaskTypeOK, NEW t \in Sides
  PROVE  /\ Woken(t) \in Seq(WorkItems)
         /\ \A do, s : Count(Woken(t), Work(do, s)) = One(s = t /\ Waits(t, do))
<1> DEFINE a == IF read[t] = "waiting" THEN <<Work("read", t)>> ELSE <<>>
           b == IF sender[t] = "waiting" THEN <<Work("send", t)>> ELSE <<>>
<1>1. Work("read", t) \in WorkItems /\ Work("send", t) \in WorkItems
  BY DEF Work, WorkItems
<1>2. a \in Seq(WorkItems) /\ b \in Seq(WorkItems) /\ Woken(t) = a \o b
  BY <1>1 DEF Woken
<1>3. \A do, s : Count(a, Work(do, s)) = One(s = t /\ do = "read" /\ read[t] = "waiting")
  <2> SUFFICES ASSUME NEW do, NEW s
               PROVE  Count(a, Work(do, s)) = One(s = t /\ do = "read" /\ read[t] = "waiting")
    OBVIOUS
  <2>1. Work("read", t) = Work(do, s) <=> do = "read" /\ s = t
    BY WorkEqual
  <2>2. CASE read[t] = "waiting"
    <3>1. Count(<<Work("read", t)>>, Work(do, s)) = One(Work("read", t) = Work(do, s))
      BY <1>1, CountSingle
    <3> QED BY <2>1, <2>2, <3>1 DEF One
  <2>3. CASE read[t] # "waiting"
    BY <1>1, <2>3, CountSingle DEF One
  <2> QED BY <2>2, <2>3
<1>4. \A do, s : Count(b, Work(do, s)) = One(s = t /\ do = "send" /\ sender[t] = "waiting")
  <2> SUFFICES ASSUME NEW do, NEW s
               PROVE  Count(b, Work(do, s)) = One(s = t /\ do = "send" /\ sender[t] = "waiting")
    OBVIOUS
  <2>1. Work("send", t) = Work(do, s) <=> do = "send" /\ s = t
    BY WorkEqual
  <2>2. CASE sender[t] = "waiting"
    <3>1. Count(<<Work("send", t)>>, Work(do, s)) = One(Work("send", t) = Work(do, s))
      BY <1>1, CountSingle
    <3> QED BY <2>1, <2>2, <3>1 DEF One
  <2>3. CASE sender[t] # "waiting"
    BY <1>1, <2>3, CountSingle DEF One
  <2> QED BY <2>2, <2>3
<1> HIDE DEF a, b
<1>5. ASSUME NEW do, NEW s
      PROVE  Count(a \o b, Work(do, s)) = One(s = t /\ Waits(t, do))
  <2>1. Count(a \o b, Work(do, s)) = Count(a, Work(do, s)) + Count(b, Work(do, s))
    BY <1>2, CountConcat
  <2> QED BY <1>3, <1>4, <2>1 DEF One, Waits
<1> QED BY <1>2, <1>5

\* What a disposal puts behind the queue, and who it wakes.
LEMMA CloseSidesWakes ==
  ASSUME TaskTypeOK, NEW q \in Seq(WorkItems), NEW D \in SUBSET Sides,
         NEW senders \in [Sides -> States],
         adding => \A s \in Sides : sender[s] = "waiting" <=> senders[s] = "waiting",
         CloseSides(D, q, senders)
  PROVE  /\ workQueue' \in Seq(WorkItems)
         /\ read' \in [Sides -> States] /\ sender' \in [Sides -> States]
         /\ closed' \in [Sides -> BOOLEAN] /\ disconnected' = disconnected + 1
         /\ Queued("run", "Local")' = Count(q, Work("run", "Local"))
         /\ Queued("dispose", "Local")' = Count(q, Work("dispose", "Local"))
         /\ \A s \in Sides :
              LET wakesRead == adding /\ s \in D /\ read[s] = "waiting"
                  wakesSend == adding /\ s \in D /\ sender[s] = "waiting" IN
              /\ read'[s] = IF wakesRead THEN "queued" ELSE read[s]
              /\ sender'[s] = IF wakesSend THEN "queued" ELSE senders[s]
              /\ Queued("read", s)' = Count(q, Work("read", s)) + One(wakesRead)
              /\ Queued("send", s)' = Count(q, Work("send", s)) + One(wakesSend)
<1> DEFINE works(s) == IF s \in D /\ adding THEN Woken(s) ELSE <<>>
<1>1. workQueue' = q \o works("Local") \o works("Remote")
  BY DEF CloseSides
<1>2. "Local" \in Sides /\ "Remote" \in Sides
  BY DEF Sides
<1>3. ASSUME NEW t \in Sides
      PROVE  /\ works(t) \in Seq(WorkItems)
             /\ \A do, s : Count(works(t), Work(do, s))
                            = One(t \in D /\ adding /\ s = t /\ Waits(t, do))
  <2>1. \A w : Count(<<>>, w) = 0 /\ <<>> \in Seq(WorkItems)
    <3>1. Work("run", "Local") \in WorkItems
      BY <1>2 DEF Work, WorkItems
    <3>2. \A w : Count(<<>>, w) = 0
      BY <3>1, CountSingle
    <3> QED BY <3>2
  <2>2. CASE t \in D /\ adding
    BY <2>2, WokenCount DEF One
  <2>3. CASE ~(t \in D /\ adding)
    BY <2>1, <2>3 DEF One
  <2> QED BY <2>2, <2>3
<1>4. PICK l, r : /\ l = works("Local") /\ r = works("Remote")
                  /\ l \in Seq(WorkItems) /\ r \in Seq(WorkItems)
  BY <1>2, <1>3
<1> HIDE DEF works
<1>5. /\ workQueue' \in Seq(WorkItems)
      /\ \A w : Count(workQueue', w) = Count(q, w) + Count(l, w) + Count(r, w)
  <2>1. q \o l \in Seq(WorkItems) /\ workQueue' = (q \o l) \o r
    BY <1>1, <1>4
  <2>2. \A w : Count((q \o l) \o r, w) = Count(q \o l, w) + Count(r, w)
    BY <1>4, <2>1, CountConcat
  <2>3. \A w : Count(q \o l, w) = Count(q, w) + Count(l, w)
    BY <1>4, CountConcat
  <2> QED BY <1>4, <2>1, <2>2, <2>3
<1>6. \A w : Count(q, w) \in Nat
  BY CountIsNat
<1>7. /\ Queued("run", "Local")' = Count(q, Work("run", "Local"))
      /\ Queued("dispose", "Local")' = Count(q, Work("dispose", "Local"))
  <2>1. \A do \in {"run", "dispose"} : ~Waits("Local", do) /\ ~Waits("Remote", do)
    BY DEF Waits
  <2>2. \A do \in {"run", "dispose"} : Count(l, Work(do, "Local")) = 0
                                       /\ Count(r, Work(do, "Local")) = 0
    BY <1>2, <1>3, <1>4, <2>1 DEF One
  <2>3. \A do \in {"run", "dispose"} : Count(workQueue', Work(do, "Local")) = Count(q, Work(do, "Local"))
    BY <1>5, <1>6, <2>2
  <2> QED BY <2>3 DEF Queued
<1>8. ASSUME NEW s \in Sides
      PROVE  /\ Queued("read", s)' = Count(q, Work("read", s))
                                      + One(adding /\ s \in D /\ read[s] = "waiting")
             /\ Queued("send", s)' = Count(q, Work("send", s))
                                      + One(adding /\ s \in D /\ sender[s] = "waiting")
  <2>1. s = "Local" \/ s = "Remote"
    BY DEF Sides
  <2>2. /\ Waits(s, "read") <=> read[s] = "waiting"
        /\ Waits(s, "send") <=> sender[s] = "waiting"
    BY DEF Waits
  <2>3. ASSUME NEW do
        PROVE  Count(workQueue', Work(do, s)) = Count(q, Work(do, s))
                                               + One(s \in D /\ adding /\ Waits(s, do))
    <3>1. /\ Count(l, Work(do, s)) = One("Local" \in D /\ adding /\ s = "Local" /\ Waits("Local", do))
          /\ Count(r, Work(do, s)) = One("Remote" \in D /\ adding /\ s = "Remote" /\ Waits("Remote", do))
      BY <1>2, <1>3, <1>4
    <3>2. Count(l, Work(do, s)) + Count(r, Work(do, s)) = One(s \in D /\ adding /\ Waits(s, do))
      BY <2>1, <3>1 DEF One
    <3>3. Count(l, Work(do, s)) \in Nat /\ Count(r, Work(do, s)) \in Nat
      BY <1>4, CountIsNat
    <3> QED BY <1>5, <1>6, <3>2, <3>3
  <2> QED BY <2>2, <2>3 DEF Queued, One
<1>9. /\ read' \in [Sides -> States] /\ sender' \in [Sides -> States]
      /\ closed' \in [Sides -> BOOLEAN] /\ disconnected' = disconnected + 1
  BY DEF CloseSides, TaskTypeOK, States
<1>10. \A s \in Sides :
         /\ read'[s] = IF adding /\ s \in D /\ read[s] = "waiting" THEN "queued" ELSE read[s]
         /\ sender'[s] = IF adding /\ s \in D /\ sender[s] = "waiting" THEN "queued"
                         ELSE senders[s]
  BY DEF CloseSides
<1> QED BY <1>5, <1>7, <1>8, <1>9, <1>10

-----------------------------------------------------------------------------
(* Each step keeps it.                                                     *)

LEMMA TaskInitially ==
  Init => TaskInv
<1> SUFFICES ASSUME Init PROVE TaskInv
  OBVIOUS
<1>1. \A w : Count(<<>>, w) = 0
  <2>1. \A w : At(<<>>, w) = {}
    BY DEF At
  <2> QED BY <2>1, FS_EmptySet DEF Count
<1>2. \A do, s : Queued(do, s) = 0
  BY <1>1 DEF Init, Queued
<1>3. TaskTypeOK
  <2>1. workQueue \in Seq(WorkItems)
    BY DEF Init
  <2>2. All("off") \in [Sides -> States] /\ All(FALSE) \in [Sides -> BOOLEAN]
    BY DEF All, States
  <2> QED BY <2>1, <2>2 DEF Init, TaskTypeOK
<1>4. ClientInv
  BY <1>2 DEF Init, ClientInv, One
<1>5. WakeInv
  BY <1>2 DEF Init, WakeInv, All, One
<1> QED BY <1>3, <1>4, <1>5 DEF TaskInv

LEMMA CountsAreNats ==
  ASSUME TaskTypeOK
  PROVE  /\ \A do, s : Queued(do, s) \in Nat
         /\ \A b : One(b) \in 0..1 /\ (b => One(b) = 1) /\ (~b => One(b) = 0)
BY QueuedIsNat DEF One

LEMMA RunOnce ==
  ASSUME TaskInv, connected # 0
  PROVE  connected = 1 /\ accept = "done" /\ Queued("run", "Local") = 0
<1>1. /\ Queued("run", "Local") + connected = One(accept = "done")
      /\ Queued("run", "Local") \in Nat /\ connected \in Nat
      /\ One(accept = "done") \in 0..1 /\ (accept # "done" => One(accept = "done") = 0)
  BY CountsAreNats DEF TaskInv, TaskTypeOK, ClientInv
<1> HIDE DEF One, Queued
<1> QED BY <1>1

\* A step that schedules nothing and takes nothing.
LEMMA TasksQuiet ==
  ASSUME TaskInv,
         UNCHANGED <<workQueue, read, closed, clientDisposed, offThread, connected,
                     disconnected>>,
         write' \in [Sides -> States], sender' \in [Sides -> States],
         \A s \in Sides : sender'[s] = "queued" <=> sender[s] = "queued",
         connected = 0 => UNCHANGED <<write, sender>>,
         accept' = "done" <=> accept = "done",
         adding' \in BOOLEAN, adding' => adding,
         thread = "crashed" => thread' = "crashed"
  PROVE  TaskInv'
<1>1. TaskTypeOK'
  BY DEF TaskInv, TaskTypeOK
<1>2. \A do, s : Queued(do, s)' = Queued(do, s)
  BY DEF Queued
<1>3. ClientInv'
  BY <1>2 DEF TaskInv, ClientInv, One
<1>4. WakeInv'
  BY <1>2 DEF TaskInv, WakeInv, One
<1> QED BY <1>1, <1>3, <1>4 DEF TaskInv

LEMMA ConnectKeeps ==
  ASSUME TaskInv, Connect
  PROVE  TaskInv'
<1>1. CASE accept' = "dead" /\ workQueue' = workQueue
  BY <1>1, TasksQuiet DEF Connect, TaskInv, TaskTypeOK, tasks, client, stopping
<1>2. CASE Schedule(<<Work("run", "Local")>>) /\ accept' = "done"
  <2>1. /\ workQueue' \in Seq(WorkItems)
        /\ \A do, s : Queued(do, s)' = Queued(do, s) + One(do = "run" /\ s = "Local")
    BY <1>2, Scheduled DEF Schedule, TaskInv, Sides
  <2>2. UNCHANGED <<write, read, sender, closed, clientDisposed, offThread, connected,
                    disconnected, thread, adding>>
    BY DEF Connect, tasks, client, stopping
  <2>3. TaskTypeOK'
    BY <2>1, <2>2 DEF TaskInv, TaskTypeOK
  <2>4. /\ Queued("run", "Local")' = Queued("run", "Local") + 1
        /\ \A do, s : do # "run" => Queued(do, s)' = Queued(do, s)
    BY <2>1, QueuedIsNat DEF TaskInv, One
  <2>5. Queued("run", "Local") + connected = 0 /\ One(accept' = "done") = 1
    BY <1>2 DEF Connect, TaskInv, ClientInv, One
  <2>6. Queued("run", "Local")' + connected' = One(accept' = "done")
    <3>1. Queued("run", "Local") \in Nat /\ connected \in Nat
      BY QueuedIsNat DEF TaskInv, TaskTypeOK
    <3> QED BY <2>2, <2>4, <2>5, <3>1
  <2>7. ClientInv'
    BY <2>2, <2>4, <2>6 DEF TaskInv, ClientInv
  <2>8. WakeInv'
    BY <2>2, <2>4 DEF TaskInv, WakeInv
  <2> QED BY <2>3, <2>7, <2>8 DEF TaskInv
<1> QED BY <1>1, <1>2 DEF Connect

LEMMA ReceiveKeeps ==
  ASSUME TaskInv, NEW s \in Sides, NEW k, Receive(s, k)
  PROVE  TaskInv'
<1>1. UNCHANGED <<sender, closed, clientDisposed, offThread, connected, disconnected,
                  accept, thread, adding>>
  BY DEF Receive, client, stopping
<1>2. connected # 0
  BY DEF Receive, TaskInv, ClientInv, All
<1>3. write' \in [Sides -> States]
  BY DEF Receive, TaskInv, TaskTypeOK, States
<1>4. CASE workQueue' = workQueue /\ read' = read
  BY <1>1, <1>2, <1>3, <1>4, TasksQuiet DEF TaskInv, TaskTypeOK
<1>5. CASE /\ read[s] = "waiting" /\ read' = [read EXCEPT ![s] = "queued"]
           /\ ~adding /\ workQueue' = workQueue
  <2>1. \A do, t : Queued(do, t)' = Queued(do, t)
    BY <1>5 DEF Queued
  <2>2. TaskTypeOK'
    BY <1>1, <1>3, <1>5 DEF TaskInv, TaskTypeOK, States
  <2>3. ClientInv'
    BY <1>1, <1>2, <2>1 DEF TaskInv, ClientInv
  <2>4. WakeInv'
    BY <1>1, <1>5 DEF WakeInv
  <2> QED BY <2>2, <2>3, <2>4 DEF TaskInv
<1>6. CASE /\ read[s] = "waiting" /\ read' = [read EXCEPT ![s] = "queued"]
           /\ Schedule(<<Work("read", s)>>)
  <2>1. /\ workQueue' \in Seq(WorkItems)
        /\ \A do, t : Queued(do, t)' = Queued(do, t) + One(do = "read" /\ t = s)
    BY <1>6, Scheduled DEF Schedule, TaskInv
  <2>2. TaskTypeOK'
    BY <1>1, <1>3, <1>6, <2>1 DEF TaskInv, TaskTypeOK, States
  <2>3. /\ Queued("read", s)' = Queued("read", s) + 1
        /\ \A do, t : do # "read" \/ t # s => Queued(do, t)' = Queued(do, t)
    BY <2>1, QueuedIsNat DEF TaskInv, One
  <2>4. ClientInv'
    BY <1>1, <1>2, <2>3 DEF TaskInv, ClientInv
  <2>5. WakeInv'
    BY <1>1, <1>6, <2>3 DEF TaskInv, TaskTypeOK, WakeInv, One
  <2> QED BY <2>2, <2>4, <2>5 DEF TaskInv
<1> QED BY <1>4, <1>5, <1>6 DEF Receive

\* A loop that ends disposes the client.
LEMMA EndOfLoopKeeps ==
  ASSUME TaskInv, ClientDispose, connected # 0,
         UNCHANGED <<read, closed, connected, disconnected, accept, thread, adding>>,
         write' \in [Sides -> States], sender' \in [Sides -> States],
         \A s \in Sides : sender'[s] = "queued" <=> sender[s] = "queued"
  PROVE  TaskInv'
<1>1. CASE UNCHANGED <<clientDisposed, offThread, workQueue>>
  BY <1>1, TasksQuiet DEF TaskInv, TaskTypeOK
<1>2. CASE /\ ~clientDisposed /\ clientDisposed'
           /\ \/ Schedule(<<Work("dispose", "Local")>>) /\ offThread' = offThread
              \/ ~adding /\ offThread' = "pending" /\ workQueue' = workQueue
  <2>1. /\ Queued("dispose", "Local") = 0 /\ One(offThread = "pending") = 0 /\ disconnected = 0
        /\ offThread # "pending"
    <3>1. /\ Queued("dispose", "Local") + One(offThread = "pending") + disconnected
               = One(clientDisposed)
          /\ One(clientDisposed) = 0
      BY <1>2 DEF TaskInv, ClientInv, One
    <3>2. /\ Queued("dispose", "Local") \in Nat /\ disconnected \in Nat
          /\ One(offThread = "pending") \in Nat
          /\ (offThread = "pending" => One(offThread = "pending") = 1)
      BY QueuedIsNat DEF TaskInv, TaskTypeOK, One
    <3>3. \A x, y, z \in Nat : x + y + z = 0 => x = 0 /\ y = 0 /\ z = 0
      OBVIOUS
    <3>4. Queued("dispose", "Local") = 0 /\ One(offThread = "pending") = 0 /\ disconnected = 0
      BY <3>1, <3>2, <3>3
    <3> QED BY <3>2, <3>4
  <2>2. CASE Schedule(<<Work("dispose", "Local")>>) /\ offThread' = offThread
    <3>1. /\ workQueue' \in Seq(WorkItems)
          /\ \A do, t : Queued(do, t)' = Queued(do, t) + One(do = "dispose" /\ t = "Local")
      BY <2>2, Scheduled DEF Schedule, TaskInv, Sides
    <3>2. /\ Queued("dispose", "Local")' = 1
          /\ \A do, t : do # "dispose" => Queued(do, t)' = Queued(do, t)
      BY <2>1, <3>1, QueuedIsNat DEF TaskInv, One
    <3>3. TaskTypeOK'
      BY <1>2, <3>1 DEF TaskInv, TaskTypeOK
    <3>4. ClientInv'
      BY <1>2, <2>1, <2>2, <3>2 DEF TaskInv, ClientInv, One
    <3>5. WakeInv'
      BY <3>2 DEF TaskInv, WakeInv, One
    <3> QED BY <3>3, <3>4, <3>5 DEF TaskInv
  <2>3. CASE ~adding /\ offThread' = "pending" /\ workQueue' = workQueue
    <3>1. \A do, t : Queued(do, t)' = Queued(do, t)
      BY <2>3 DEF Queued
    <3>2. TaskTypeOK'
      BY <1>2, <2>3 DEF TaskInv, TaskTypeOK
    <3>3. ClientInv'
      BY <1>2, <2>1, <2>3, <3>1 DEF TaskInv, ClientInv, One
    <3>4. WakeInv'
      BY <2>3 DEF WakeInv
    <3> QED BY <3>2, <3>3, <3>4 DEF TaskInv
  <2> QED BY <1>2, <2>2, <2>3
<1> QED BY <1>1, <1>2 DEF ClientDispose

LEMMA RunKeeps ==
  ASSUME TaskInv, Run
  PROVE  TaskInv'
<1>1. /\ UNCHANGED <<closed, clientDisposed, offThread, disconnected, accept, thread, adding>>
      /\ workQueue' = Tail(workQueue) /\ connected' = connected + 1
      /\ write' = All("receiving") /\ read' = All("waiting") /\ sender' = All("waiting")
  BY DEF Run, stopping
<1>2. /\ workQueue' \in Seq(WorkItems)
      /\ Queued("run", "Local") = 1 + Queued("run", "Local")'
      /\ \A do, s : do # "run" => Queued(do, s)' = Queued(do, s)
      /\ Queued("run", "Local")' \in Nat
  <2>1. /\ Tail(workQueue) \in Seq(WorkItems)
        /\ \A do, s : /\ Count(Tail(workQueue), Work(do, s)) \in Nat
                      /\ Queued(do, s) = One(do = "run" /\ s = "Local")
                                           + Count(Tail(workQueue), Work(do, s))
    BY Taken DEF Run, TaskInv
  <2>2. \A do, s : Queued(do, s)' = Count(Tail(workQueue), Work(do, s))
    BY <1>1 DEF Queued
  <2> QED BY <1>1, <2>1, <2>2 DEF One
<1>3. connected = 0
  <2>1. connected # 0 => Queued("run", "Local") = 0
    BY RunOnce
  <2> QED BY <1>2, <2>1
<1>4. Queued("run", "Local") + connected = One(accept = "done")
  BY DEF TaskInv, ClientInv
<1>5. Queued("run", "Local")' + connected' = One(accept' = "done")
  BY <1>1, <1>2, <1>3, <1>4
<1>6. All("receiving") \in [Sides -> States] /\ All("waiting") \in [Sides -> States]
  BY DEF All, States
<1>7. TaskTypeOK'
  BY <1>1, <1>2, <1>3, <1>6 DEF TaskInv, TaskTypeOK
<1>8. ClientInv'
  <2>1. connected' # 0
    BY <1>1, <1>3
  <2>2. Queued("dispose", "Local")' + One(offThread' = "pending") + disconnected'
          = One(clientDisposed')
    BY <1>1, <1>2 DEF TaskInv, ClientInv
  <2> QED BY <1>5, <2>1, <2>2 DEF ClientInv
<1>9. WakeInv'
  <2>1. \A s \in Sides : read'[s] = "waiting" /\ sender'[s] = "waiting"
    BY <1>1 DEF All
  <2>2. \A s \in Sides : Queued("read", s)' = 0 /\ Queued("send", s)' = 0
    BY <1>2, <1>3 DEF TaskInv, ClientInv
  <2> QED BY <2>1, <2>2 DEF WakeInv, One
<1> QED BY <1>7, <1>8, <1>9 DEF TaskInv

\* The loop that a work continues was started and, while the queue takes work, waits
\* for that work.
LEMMA TakenLoop ==
  ASSUME TaskInv, NEW do \in {"read", "send"}, NEW s \in Sides, Take(do, s)
  PROVE  /\ connected # 0
         /\ adding => /\ do = "read" => read[s] = "queued"
                      /\ do = "send" => sender[s] = "queued"
<1>1. /\ Count(Tail(workQueue), Work(do, s)) \in Nat
      /\ Queued(do, s) = 1 + Count(Tail(workQueue), Work(do, s))
  BY Taken DEF TaskInv, One
<1>2. Queued(do, s) # 0
  BY <1>1
<1>3. connected # 0
  BY <1>2 DEF TaskInv, ClientInv
<1>4. thread # "crashed"
  BY DEF Take
<1> QED BY <1>2, <1>3, <1>4 DEF TaskInv, WakeInv, One

\* The loop that a work continues goes on, and may wake senders.
LoopGoes(do, s, wakes) ==
  /\ UNCHANGED <<write, closed, clientDisposed, offThread, connected, disconnected, accept,
                 thread, adding>>
  /\ read' \in [Sides -> States] /\ sender' \in [Sides -> States]
  /\ \/ wakes = {} /\ workQueue' = Tail(workQueue)
     \/ \E o \in Sides : wakes = {o} /\ workQueue' = Tail(workQueue) \o <<Work("send", o)>>
  /\ adding => \A t \in Sides :
       /\ read'[t] = "queued" <=> read[t] = "queued" /\ ~(do = "read" /\ t = s)
       /\ t \in wakes => sender[t] # "queued" /\ sender'[t] = "queued"
       /\ t \notin wakes =>
            (sender'[t] = "queued" <=> sender[t] = "queued" /\ ~(do = "send" /\ t = s))

LEMMA LoopKeeps ==
  ASSUME TaskInv, NEW do \in {"read", "send"}, NEW s \in Sides, Take(do, s),
         NEW wakes \in SUBSET Sides, LoopGoes(do, s, wakes)
  PROVE  TaskInv'
<1> DEFINE q == Tail(workQueue)
<1>1. /\ q \in Seq(WorkItems)
      /\ \A a, t : /\ Count(q, Work(a, t)) \in Nat
                   /\ Queued(a, t) = One(a = do /\ t = s) + Count(q, Work(a, t))
  BY Taken DEF TaskInv
<1>a. /\ UNCHANGED <<write, closed, clientDisposed, offThread, connected, disconnected, accept,
                     thread, adding>>
      /\ read' \in [Sides -> States] /\ sender' \in [Sides -> States]
      /\ \/ wakes = {} /\ workQueue' = q
         \/ \E o \in Sides : wakes = {o} /\ workQueue' = q \o <<Work("send", o)>>
  BY DEF LoopGoes
<1>b. adding => \A t \in Sides :
        /\ read'[t] = "queued" <=> read[t] = "queued" /\ ~(do = "read" /\ t = s)
        /\ t \in wakes => sender[t] # "queued" /\ sender'[t] = "queued"
        /\ t \notin wakes =>
             (sender'[t] = "queued" <=> sender[t] = "queued" /\ ~(do = "send" /\ t = s))
  BY DEF LoopGoes
<1> HIDE DEF q
<1>2. /\ workQueue' \in Seq(WorkItems)
      /\ \A a, t : Queued(a, t)' = Count(q, Work(a, t)) + One(a = "send" /\ t \in wakes)
  <2>1. CASE wakes = {} /\ workQueue' = q
    BY <1>1, <2>1 DEF Queued, One
  <2>2. ASSUME NEW o \in Sides, wakes = {o}, workQueue' = q \o <<Work("send", o)>>
        PROVE  /\ workQueue' \in Seq(WorkItems)
               /\ \A a, t : Queued(a, t)' = Count(q, Work(a, t)) + One(a = "send" /\ t \in wakes)
    <3>1. Work("send", o) \in WorkItems
      BY DEF Work, WorkItems
    <3>2. <<Work("send", o)>> \in Seq(WorkItems) /\ workQueue' \in Seq(WorkItems)
      BY <1>1, <2>2, <3>1
    <3>3. ASSUME NEW a, NEW t
          PROVE  Queued(a, t)' = Count(q, Work(a, t)) + One(a = "send" /\ t \in wakes)
      <4>1. Queued(a, t)' = Count(q, Work(a, t)) + Count(<<Work("send", o)>>, Work(a, t))
        BY <1>1, <2>2, <3>2, CountConcat DEF Queued
      <4>2. Count(<<Work("send", o)>>, Work(a, t)) = One(Work("send", o) = Work(a, t))
        BY <3>1, CountSingle
      <4>3. Work("send", o) = Work(a, t) <=> a = "send" /\ t \in wakes
        BY <2>2, WorkEqual
      <4> QED BY <4>1, <4>2, <4>3 DEF One
    <3> QED BY <3>2, <3>3
  <2> QED BY <1>a, <2>1, <2>2
<1>3. connected # 0
  BY TakenLoop
<1>4. TaskTypeOK'
  BY <1>a, <1>2 DEF TaskInv, TaskTypeOK
<1>5. \A a \in {"run", "dispose"} : Queued(a, "Local")' = Queued(a, "Local")
  BY <1>1, <1>2 DEF One
<1>6. ClientInv'
  BY <1>a, <1>3, <1>5 DEF TaskInv, ClientInv
<1>7. WakeInv'
  <2> SUFFICES ASSUME adding, thread # "crashed", NEW t \in Sides
               PROVE  /\ Queued("read", t)' = One(read'[t] = "queued")
                      /\ Queued("send", t)' = One(sender'[t] = "queued")
    BY <1>a DEF WakeInv
  <2>1. Queued("read", t) = One(read[t] = "queued") /\ Queued("send", t) = One(sender[t] = "queued")
    BY <1>a DEF TaskInv, WakeInv
  <2>2. Queued("read", t)' = One(read'[t] = "queued")
    BY <1>a, <1>b, <1>1, <1>2, <2>1 DEF One
  <2>3. Queued("send", t)' = One(sender'[t] = "queued")
    BY <1>a, <1>b, <1>1, <1>2, <2>1 DEF One
  <2> QED BY <2>2, <2>3
<1> QED BY <1>4, <1>6, <1>7 DEF TaskInv

LEMMA LoopGoesOn ==
  ASSUME TaskInv, NEW do \in {"read", "send"}, NEW s \in Sides, Take(do, s),
         UNCHANGED <<write, closed, clientDisposed, offThread, connected, disconnected, accept,
                     thread, adding>>,
         read' \in [Sides -> States], sender' \in [Sides -> States],
         workQueue' = Tail(workQueue),
         adding => \A t \in Sides :
           /\ read'[t] = "queued" <=> read[t] = "queued" /\ ~(do = "read" /\ t = s)
           /\ sender'[t] = "queued" <=> sender[t] = "queued" /\ ~(do = "send" /\ t = s)
  PROVE  TaskInv'
<1>1. LoopGoes(do, s, {})
  BY DEF LoopGoes
<1> QED BY <1>1, LoopKeeps

LEMMA LoopWakes ==
  ASSUME TaskInv, NEW s \in Sides, Take("read", s), NEW o \in Sides,
         UNCHANGED <<write, closed, clientDisposed, offThread, connected, disconnected, accept,
                     thread, adding>>,
         read' = [read EXCEPT ![s] = "waiting"],
         sender[o] = "waiting", sender' = [sender EXCEPT ![o] = "queued"],
         workQueue' = Tail(workQueue) \o <<Work("send", o)>>
  PROVE  TaskInv'
<1>1. read \in [Sides -> States] /\ sender \in [Sides -> States]
  BY DEF TaskInv, TaskTypeOK
<1>2. read' \in [Sides -> States] /\ sender' \in [Sides -> States]
  BY <1>1 DEF States
<1>3. LoopGoes("read", s, {o})
  BY <1>1, <1>2 DEF LoopGoes
<1> QED BY <1>3, LoopKeeps

LEMMA ReadSteps ==
  ASSUME TaskInv, NEW s \in Sides, ReadMessages(s) \/ ReadThrows(s) \/ ReadEnds(s)
  PROVE  TaskInv'
<1>1. /\ Take("read", s)
      /\ UNCHANGED <<write, closed, clientDisposed, offThread, connected, disconnected, accept,
                     thread, adding>>
  BY DEF ReadMessages, ReadThrows, ReadEnds, client, stopping
<1>2. /\ read \in [Sides -> States] /\ sender \in [Sides -> States]
      /\ Other(s) \in Sides /\ (adding => read[s] = "queued")
  BY <1>1, TakenLoop DEF TaskInv, TaskTypeOK, Other, Sides
<1>3. CASE ReadMessages(s)
  <2>1. read' = [read EXCEPT ![s] = "waiting"]
    BY <1>3 DEF ReadMessages
  <2>2. CASE Messages(recv[s]) # <<>> /\ sender[Other(s)] = "waiting"
    <3>1. /\ sender' = [sender EXCEPT ![Other(s)] = "queued"]
          /\ workQueue' = Tail(workQueue) \o <<Work("send", Other(s))>>
      BY <1>3, <2>2 DEF ReadMessages
    <3> QED BY <1>1, <1>2, <2>1, <2>2, <3>1, LoopWakes
  <2>3. CASE ~(Messages(recv[s]) # <<>> /\ sender[Other(s)] = "waiting")
    <3>1. sender' = sender /\ workQueue' = Tail(workQueue)
      <4>1. sender' = sender /\ workQueue' = Tail(workQueue) \o <<>>
        BY <1>3, <2>3 DEF ReadMessages
      <4>2. Tail(workQueue) \in Seq(WorkItems)
        BY <1>1, Taken DEF TaskInv
      <4> QED BY <4>1, <4>2, ConcatEmptySeq
    <3>2. read' \in [Sides -> States] /\ sender' \in [Sides -> States]
      BY <1>2, <2>1, <3>1 DEF States
    <3>3. \A t \in Sides :
            /\ read'[t] = "queued" <=> read[t] = "queued" /\ ~("read" = "read" /\ t = s)
            /\ sender'[t] = "queued" <=> sender[t] = "queued" /\ ~("read" = "send" /\ t = s)
      BY <1>2, <2>1, <3>1
    <3> QED BY <1>1, <3>1, <3>2, <3>3, LoopGoesOn
  <2> QED BY <2>2, <2>3
<1>4. CASE ReadThrows(s) \/ ReadEnds(s)
  <2>1. read' = [read EXCEPT ![s] = "ended"] /\ workQueue' = Tail(workQueue)
    BY <1>4 DEF ReadThrows, ReadEnds
  <2>2. sender' = sender \/ (~adding /\ sender' = [sender EXCEPT ![Other(s)] = "queued"])
    BY <1>4 DEF ReadThrows, ReadEnds
  <2>3. read' \in [Sides -> States] /\ sender' \in [Sides -> States]
    BY <1>2, <2>1, <2>2 DEF States
  <2>4. adding => \A t \in Sides :
          /\ read'[t] = "queued" <=> read[t] = "queued" /\ ~("read" = "read" /\ t = s)
          /\ sender'[t] = "queued" <=> sender[t] = "queued" /\ ~("read" = "send" /\ t = s)
    BY <1>2, <2>1, <2>2
  <2> QED BY <1>1, <2>1, <2>3, <2>4, LoopGoesOn
<1> QED BY <1>3, <1>4

LEMMA SendBeginsKeeps ==
  ASSUME TaskInv, NEW s \in Sides, SendBegins(s)
  PROVE  TaskInv'
<1>1. /\ Take("send", s) /\ workQueue' = Tail(workQueue)
      /\ UNCHANGED <<write, read, closed, clientDisposed, offThread, connected, disconnected,
                     accept, thread, adding>>
      /\ sender' = [sender EXCEPT ![s] = IF closed[s] THEN "ended" ELSE "sending"]
  BY DEF SendBegins, client, stopping
<1>2. /\ read \in [Sides -> States] /\ sender \in [Sides -> States]
      /\ (adding => sender[s] = "queued")
  BY <1>1, TakenLoop DEF TaskInv, TaskTypeOK
<1>3. read' \in [Sides -> States] /\ sender' \in [Sides -> States]
  BY <1>1, <1>2 DEF States
<1>4. \A t \in Sides :
        /\ read'[t] = "queued" <=> read[t] = "queued" /\ ~("send" = "read" /\ t = s)
        /\ sender'[t] = "queued" <=> sender[t] = "queued" /\ ~("send" = "send" /\ t = s)
  BY <1>1, <1>2
<1> QED BY <1>1, <1>3, <1>4, LoopGoesOn

\* A disposal is performed: by a task, by the work that was scheduled, or by the loop
\* of side s that is continued and fails at once.
LEMMA DisposalKeeps ==
  ASSUME TaskInv, NEW q \in Seq(WorkItems), NEW D \in SUBSET Sides,
         NEW senders \in [Sides -> States],
         CloseSides(D, q, senders),
         UNCHANGED <<write, connected, accept, adding>>,
         thread = "crashed" => thread' = "crashed",
         connected # 0, clientDisposed' = TRUE,
         Count(q, Work("run", "Local")) = Queued("run", "Local"),
         Count(q, Work("dispose", "Local")) + One(offThread' = "pending") + disconnected = 0,
         adding => \A s \in Sides : sender[s] = "waiting" <=> senders[s] = "waiting",
         \A s \in Sides :
           adding /\ thread # "crashed" =>
                /\ Count(q, Work("read", s)) = One(read[s] = "queued")
                /\ Count(q, Work("send", s)) = One(senders[s] = "queued")
  PROVE  TaskInv'
<1>1. /\ workQueue' \in Seq(WorkItems)
      /\ read' \in [Sides -> States] /\ sender' \in [Sides -> States]
      /\ closed' \in [Sides -> BOOLEAN] /\ disconnected' = disconnected + 1
      /\ Queued("run", "Local")' = Count(q, Work("run", "Local"))
      /\ Queued("dispose", "Local")' = Count(q, Work("dispose", "Local"))
      /\ \A s \in Sides :
           LET wakesRead == adding /\ s \in D /\ read[s] = "waiting"
               wakesSend == adding /\ s \in D /\ sender[s] = "waiting" IN
           /\ read'[s] = IF wakesRead THEN "queued" ELSE read[s]
           /\ sender'[s] = IF wakesSend THEN "queued" ELSE senders[s]
           /\ Queued("read", s)' = Count(q, Work("read", s)) + One(wakesRead)
           /\ Queued("send", s)' = Count(q, Work("send", s)) + One(wakesSend)
  BY CloseSidesWakes DEF TaskInv
<1>2. TaskTypeOK'
  BY <1>1 DEF TaskInv, TaskTypeOK
<1>3. ClientInv'
  <2>1. Queued("run", "Local")' + connected' = One(accept' = "done")
    BY <1>1 DEF TaskInv, ClientInv
  <2>2. Queued("dispose", "Local")' + One(offThread' = "pending") + disconnected' = 1
    <3>1. /\ Count(q, Work("dispose", "Local")) \in Nat /\ disconnected \in Nat
          /\ One(offThread' = "pending") \in Nat
      BY CountIsNat DEF TaskInv, TaskTypeOK, One
    <3> QED BY <1>1, <3>1
  <2>3. One(clientDisposed') = 1 /\ connected' # 0
    BY DEF One
  <2> QED BY <2>1, <2>2, <2>3 DEF ClientInv
<1>4. WakeInv'
  <2> SUFFICES ASSUME adding, thread # "crashed", NEW s \in Sides
               PROVE  /\ Queued("read", s)' = One(read'[s] = "queued")
                      /\ Queued("send", s)' = One(sender'[s] = "queued")
    BY DEF WakeInv
  <2>1. /\ Count(q, Work("read", s)) = One(read[s] = "queued")
        /\ Count(q, Work("send", s)) = One(senders[s] = "queued")
        /\ sender[s] = "waiting" <=> senders[s] = "waiting"
    OBVIOUS
  <2>2. Queued("read", s)' = One(read'[s] = "queued")
    BY <1>1, <2>1 DEF One
  <2>3. Queued("send", s)' = One(sender'[s] = "queued")
    BY <1>1, <2>1 DEF One
  <2> QED BY <2>2, <2>3
<1> QED BY <1>2, <1>3, <1>4 DEF TaskInv

\* A client that is to be disposed was connected, and is not disposed otherwise.
LEMMA DisposesOnce ==
  ASSUME TaskInv, Queued("dispose", "Local") # 0 \/ offThread = "pending"
  PROVE  /\ connected # 0 /\ clientDisposed /\ disconnected = 0
         /\ \/ Queued("dispose", "Local") = 1 /\ offThread # "pending"
            \/ Queued("dispose", "Local") = 0 /\ offThread = "pending"
<1>1. Queued("dispose", "Local") + One(offThread = "pending") + disconnected = One(clientDisposed)
  BY DEF TaskInv, ClientInv
<1>2. /\ Queued("dispose", "Local") \in Nat /\ disconnected \in Nat
      /\ One(offThread = "pending") = IF offThread = "pending" THEN 1 ELSE 0
      /\ One(clientDisposed) = IF clientDisposed THEN 1 ELSE 0
  BY QueuedIsNat DEF TaskInv, TaskTypeOK, One
<1>3. \A x, z \in Nat, y, u \in {0, 1} :
        x + y + z = u /\ (x # 0 \/ y # 0) =>
          u = 1 /\ z = 0 /\ ((x = 1 /\ y = 0) \/ (x = 0 /\ y = 1))
  OBVIOUS
<1>4. /\ clientDisposed /\ disconnected = 0
      /\ \/ Queued("dispose", "Local") = 1 /\ offThread # "pending"
         \/ Queued("dispose", "Local") = 0 /\ offThread = "pending"
  BY <1>1, <1>2, <1>3
<1>5. connected # 0
  BY <1>4 DEF TaskInv, ClientInv
<1> QED BY <1>4, <1>5

LEMMA DisposeOffThreadKeeps ==
  ASSUME TaskInv, DisposeOffThread
  PROVE  TaskInv'
<1>1. PICK D \in SUBSET Sides : CloseSides(D, workQueue, sender)
  BY DEF DisposeOffThread
<1>2. /\ UNCHANGED <<write, connected, accept, thread, adding>>
      /\ offThread = "pending" /\ offThread' = "done" /\ clientDisposed' = clientDisposed
  BY DEF DisposeOffThread, stopping
<1>3. /\ connected # 0 /\ clientDisposed' = TRUE /\ disconnected = 0
      /\ Queued("dispose", "Local") = 0
  BY <1>2, DisposesOnce DEF TaskInv, TaskTypeOK
<1>4. /\ workQueue \in Seq(WorkItems) /\ sender \in [Sides -> States]
  BY DEF TaskInv, TaskTypeOK
<1>5. Count(workQueue, Work("run", "Local")) = Queued("run", "Local")
  BY DEF Queued
<1>6. Count(workQueue, Work("dispose", "Local")) + One(offThread' = "pending") + disconnected = 0
  BY <1>2, <1>3 DEF Queued, One
<1>7. \A s \in Sides :
        adding /\ thread # "crashed" =>
             /\ Count(workQueue, Work("read", s)) = One(read[s] = "queued")
             /\ Count(workQueue, Work("send", s)) = One(sender[s] = "queued")
  BY DEF TaskInv, WakeInv, Queued
<1> QED BY <1>1, <1>2, <1>3, <1>4, <1>5, <1>6, <1>7, DisposalKeeps

LEMMA DisposeKeeps ==
  ASSUME TaskInv, Dispose \/ DisposeCrashes
  PROVE  TaskInv'
<1> DEFINE q == Tail(workQueue)
<1>1. PICK D \in SUBSET Sides : CloseSides(D, q, sender)
  BY DEF Dispose, DisposeCrashes
<1>2. /\ UNCHANGED <<write, connected, accept, adding, offThread, clientDisposed>>
      /\ Take("dispose", "Local") /\ (thread = "crashed" => thread' = "crashed")
  BY DEF Dispose, DisposeCrashes, stopping
<1>3. /\ q \in Seq(WorkItems)
      /\ \A do, s : /\ Count(q, Work(do, s)) \in Nat
                    /\ Queued(do, s) = One(do = "dispose" /\ s = "Local") + Count(q, Work(do, s))
  BY <1>2, Taken DEF TaskInv
<1> HIDE DEF q
<1>4. /\ Queued("dispose", "Local") = 1 + Count(q, Work("dispose", "Local"))
      /\ \A do, s : do # "dispose" => Queued(do, s) = Count(q, Work(do, s))
  BY <1>3 DEF One
<1>5. Queued("dispose", "Local") # 0
  BY <1>3, <1>4
<1>6. /\ connected # 0 /\ clientDisposed' = TRUE /\ disconnected = 0 /\ offThread # "pending"
      /\ Count(q, Work("dispose", "Local")) = 0
  <2>1. /\ connected # 0 /\ clientDisposed /\ disconnected = 0
        /\ Queued("dispose", "Local") = 1 /\ offThread # "pending"
    BY <1>5, DisposesOnce
  <2>2. Count(q, Work("dispose", "Local")) = 0
    BY <1>3, <1>4, <2>1
  <2> QED BY <1>2, <2>1, <2>2 DEF TaskInv, TaskTypeOK
<1>7. Count(q, Work("dispose", "Local")) + One(offThread' = "pending") + disconnected = 0
  BY <1>2, <1>6 DEF One
<1>8. sender \in [Sides -> States]
  BY DEF TaskInv, TaskTypeOK
<1>9. \A s \in Sides :
        adding /\ thread # "crashed" =>
             /\ Count(q, Work("read", s)) = One(read[s] = "queued")
             /\ Count(q, Work("send", s)) = One(sender[s] = "queued")
  BY <1>4 DEF TaskInv, WakeInv
<1>10. Count(q, Work("run", "Local")) = Queued("run", "Local")
  BY <1>4
<1> QED BY <1>1, <1>2, <1>3, <1>6, <1>7, <1>8, <1>9, <1>10, DisposalKeeps

LEMMA SendFailsAtOnceKeeps ==
  ASSUME TaskInv, NEW s \in Sides, SendFailsAtOnce(s)
  PROVE  TaskInv'
<1>1. /\ Take("send", s) /\ UNCHANGED <<write, offThread, connected, accept, thread, adding>>
  BY DEF SendFailsAtOnce, stopping
<1>2. /\ read \in [Sides -> States] /\ sender \in [Sides -> States]
      /\ connected # 0 /\ (adding => sender[s] = "queued")
  BY <1>1, TakenLoop DEF TaskInv, TaskTypeOK
<1> DEFINE senders == [sender EXCEPT ![s] = "ended"]
           q == Tail(workQueue)
<1>3. senders \in [Sides -> States]
  BY <1>2 DEF States
<1>4. CASE clientDisposed
  <2>1. /\ sender' = senders /\ workQueue' = q
        /\ UNCHANGED <<clientDisposed, closed, disconnected, read>>
    BY <1>4 DEF SendFailsAtOnce
  <2>2. \A t \in Sides :
          /\ read'[t] = "queued" <=> read[t] = "queued" /\ ~("send" = "read" /\ t = s)
          /\ sender'[t] = "queued" <=> sender[t] = "queued" /\ ~("send" = "send" /\ t = s)
    BY <1>2, <2>1
  <2>3. read' \in [Sides -> States] /\ sender' \in [Sides -> States]
    BY <1>2, <1>3, <2>1
  <2> QED BY <1>1, <2>1, <2>2, <2>3, LoopGoesOn
<1>5. CASE ~clientDisposed
  <2>1. /\ clientDisposed' = TRUE
        /\ \E D \in SUBSET Sides : CloseSides(D, q, senders)
    BY <1>5 DEF SendFailsAtOnce
  <2>2. PICK D \in SUBSET Sides : CloseSides(D, q, senders)
    BY <2>1
  <2>3. /\ q \in Seq(WorkItems)
        /\ \A do, t : /\ Count(q, Work(do, t)) \in Nat
                      /\ Queued(do, t) = One(do = "send" /\ t = s) + Count(q, Work(do, t))
    BY <1>1, Taken DEF TaskInv
  <2>4. \A t \in Sides : sender[t] # "waiting" \/ t # s \/ ~adding
    BY <1>2
  <2> HIDE DEF q
  <2>5. /\ \A do, t : do # "send" \/ t # s => Queued(do, t) = Count(q, Work(do, t))
        /\ Queued("send", s) = 1 + Count(q, Work("send", s))
    BY <2>3 DEF One
  <2>6. Count(q, Work("dispose", "Local")) + One(offThread' = "pending") + disconnected = 0
    <3>1. One(clientDisposed) = 0
      BY <1>5 DEF One
    <3>2. Queued("dispose", "Local") + One(offThread = "pending") + disconnected = 0
      BY <3>1 DEF TaskInv, ClientInv
    <3> QED BY <1>1, <2>5, <3>2
  <2>7. adding => \A t \in Sides : sender[t] = "waiting" <=> senders[t] = "waiting"
    BY <1>2
  <2>8. \A t \in Sides :
          adding /\ thread # "crashed" =>
            /\ Count(q, Work("read", t)) = One(read[t] = "queued")
            /\ Count(q, Work("send", t)) = One(senders[t] = "queued")
    <3> SUFFICES ASSUME NEW t \in Sides, adding, thread # "crashed"
                 PROVE  /\ Count(q, Work("read", t)) = One(read[t] = "queued")
                        /\ Count(q, Work("send", t)) = One(senders[t] = "queued")
      OBVIOUS
    <3>1. Queued("read", t) = One(read[t] = "queued") /\ Queued("send", t) = One(sender[t] = "queued")
      BY DEF TaskInv, WakeInv
    <3>2. CASE t = s
      <4>1. Queued("send", s) = 1 /\ senders[s] = "ended"
        BY <1>2, <3>1, <3>2 DEF One
      <4>2. Count(q, Work("send", s)) = 0
        BY <2>3, <2>5, <4>1
      <4> QED BY <2>5, <3>1, <3>2, <4>1, <4>2 DEF One
    <3>3. CASE t # s
      BY <1>2, <2>5, <3>1, <3>3
    <3> QED BY <3>2, <3>3
  <2>9. Count(q, Work("run", "Local")) = Queued("run", "Local")
    BY <2>5
  <2>10. thread = "crashed" => thread' = "crashed"
    BY <1>1
  <2> HIDE DEF senders
  <2> QED BY <1>1, <1>2, <1>3, <2>1, <2>2, <2>3, <2>6, <2>7, <2>8, <2>9, <2>10, DisposalKeeps
<1> QED BY <1>4, <1>5

-----------------------------------------------------------------------------
(* Every step keeps it.                                                    *)

LEMMA NextTaskInv ==
  TaskInv /\ [Next]_pvars => TaskInv'
<1> SUFFICES ASSUME TaskInv, [Next]_pvars PROVE TaskInv'
  OBVIOUS
<1>1. CASE UNCHANGED pvars
  BY <1>1, TasksQuiet DEF pvars, TaskInv, TaskTypeOK, tasks, client, stopping
<1>2. CASE Pool
  <2>1. CASE Accept
    BY <2>1, TasksQuiet DEF Accept, TaskInv, TaskTypeOK, tasks, client, stopping
  <2>2. ASSUME NEW s \in Sides, ReceiveFails(s) PROVE TaskInv'
    <3>1. /\ write[s] = "receiving" /\ write' = [write EXCEPT ![s] = "leaving"]
          /\ UNCHANGED <<workQueue, read, sender, closed, clientDisposed, offThread, connected,
                         disconnected, accept, thread, adding>>
      BY <2>2 DEF ReceiveFails, client, stopping
    <3>2. connected # 0
      BY <3>1 DEF TaskInv, ClientInv, All
    <3>3. write' \in [Sides -> States] /\ sender' \in [Sides -> States]
      BY <3>1 DEF TaskInv, TaskTypeOK, States
    <3> QED BY <3>1, <3>2, <3>3, TasksQuiet DEF TaskInv, TaskTypeOK
  <2>3. ASSUME NEW s \in Sides, LeaveWrite(s) PROVE TaskInv'
    <3>1. /\ write[s] = "leaving" /\ write' = [write EXCEPT ![s] = "ended"] /\ ClientDispose
          /\ UNCHANGED <<read, sender, closed, connected, disconnected, accept, thread, adding>>
      BY <2>3 DEF LeaveWrite, stopping
    <3>2. connected # 0
      BY <3>1 DEF TaskInv, ClientInv, All
    <3>3. write' \in [Sides -> States] /\ sender' \in [Sides -> States]
      BY <3>1 DEF TaskInv, TaskTypeOK, States
    <3> QED BY <3>1, <3>2, <3>3, EndOfLoopKeeps
  <2>4. ASSUME NEW s \in Sides, SendFails(s) PROVE TaskInv'
    <3>1. /\ sender[s] = "sending" /\ sender' = [sender EXCEPT ![s] = "ended"] /\ ClientDispose
          /\ UNCHANGED <<read, write, closed, connected, disconnected, accept, thread, adding>>
      BY <2>4 DEF SendFails, stopping
    <3>2. connected # 0
      BY <3>1 DEF TaskInv, ClientInv, All
    <3>3. write' \in [Sides -> States] /\ sender' \in [Sides -> States]
      BY <3>1 DEF TaskInv, TaskTypeOK, States
    <3>4. \A t \in Sides : sender'[t] = "queued" <=> sender[t] = "queued"
      BY <3>1 DEF TaskInv, TaskTypeOK
    <3> QED BY <3>1, <3>2, <3>3, <3>4, EndOfLoopKeeps
  <2>5. ASSUME NEW s \in Sides, NEW n, Sent(s, n) PROVE TaskInv'
    <3>1. /\ sender[s] = "sending"
          /\ sender' = [sender EXCEPT ![s] = IF n < Len(send[s]) THEN "sending" ELSE "waiting"]
          /\ UNCHANGED <<workQueue, read, write, closed, clientDisposed, offThread, connected,
                         disconnected, accept, thread, adding>>
      BY <2>5 DEF Sent, client, stopping
    <3>2. connected # 0
      BY <3>1 DEF TaskInv, ClientInv, All
    <3>3. write' \in [Sides -> States] /\ sender' \in [Sides -> States]
      BY <3>1 DEF TaskInv, TaskTypeOK, States
    <3>4. \A t \in Sides : sender'[t] = "queued" <=> sender[t] = "queued"
      BY <3>1 DEF TaskInv, TaskTypeOK
    <3> QED BY <3>1, <3>2, <3>3, <3>4, TasksQuiet DEF TaskInv, TaskTypeOK
  <2> QED BY <1>2, <2>1, <2>2, <2>3, <2>4, <2>5, ConnectKeeps, ReceiveKeeps,
             DisposeOffThreadKeeps DEF Pool
<1>3. CASE WorkThread
  <2>1. CASE TakeNothing
    BY <2>1, TasksQuiet DEF TakeNothing, TaskInv, TaskTypeOK, tasks, client, stopping
  <2>2. CASE TickDone
    BY <2>2, TasksQuiet DEF TickDone, TaskInv, TaskTypeOK, tasks, client, stopping
  <2> QED BY <1>3, <2>1, <2>2, RunKeeps, DisposeKeeps, ReadSteps, SendBeginsKeeps,
             SendFailsAtOnceKeeps DEF WorkThread
<1>4. CASE Stop \/ ConnectFails
  <2>1. /\ UNCHANGED <<workQueue, write, read, sender, closed, clientDisposed, offThread,
                       connected, disconnected, thread>>
        /\ (accept' = "done") <=> (accept = "done")
    BY <1>4 DEF Stop, DisposeServer, Cancel, CompleteAdding, Join, ConnectFails, tasks, client
  <2>2. adding' = adding \/ adding' = FALSE
    <3>1. CASE CompleteAdding
      BY <3>1 DEF CompleteAdding
    <3>2. CASE DisposeServer \/ Cancel \/ Join \/ ConnectFails
      BY <3>2 DEF DisposeServer, Cancel, Join, ConnectFails, stopping
    <3> QED BY <1>4, <3>1, <3>2 DEF Stop
  <2>3. adding' \in BOOLEAN /\ (adding' => adding)
    <3>1. adding \in BOOLEAN
      BY DEF TaskInv, TaskTypeOK
    <3>2. CASE adding' = adding
      BY Zenon, <3>1, <3>2
    <3>3. CASE adding' = FALSE
      BY Zenon, <3>3
    <3> QED BY <2>2, <3>2, <3>3
  <2> QED BY <2>1, <2>3, TasksQuiet DEF TaskInv, TaskTypeOK
<1>5. ASSUME NEW s \in Sides, PeerCloses(s) \/ PeerResets(s) PROVE TaskInv'
  BY <1>5, TasksQuiet
     DEF PeerCloses, PeerResets, TaskInv, TaskTypeOK, tasks, client, stopping
<1> QED BY <1>1, <1>2, <1>3, <1>4, <1>5 DEF Next

\* The loops of a client are each continued by one work, whatever is disposed, reset or
\* stopped meanwhile.
THEOREM AlwaysWokenOnce == Spec => []WokenOnce
<1>1. TaskInv => WokenOnce
  BY TaskInvMeans
<1> QED BY <1>1, TaskInitially, NextTaskInv, PTL DEF Spec

\* A client is published as disconnected once at most, and never before it is published
\* as connected.
THEOREM DisconnectsOnce == Spec => []OneDisconnect
<1>1. TaskInv => OneDisconnect
  BY TaskInvMeans
<1> QED BY <1>1, TaskInitially, NextTaskInv, PTL DEF Spec

-----------------------------------------------------------------------------
(* A reader is never continued twice, even when the queue takes no more.   *)

ReadOnce ==
  \A s \in Sides : Queued("read", s) <= One(read[s] = "queued")

LEMMA ReadOnceStep ==
  ASSUME TaskInv, TaskInv', ReadOnce,
         \A s \in Sides :
           \/ /\ Queued("read", s)' = Queued("read", s)
              /\ read[s] = "queued" => read'[s] = "queued"
           \/ Queued("read", s)' = 0
           \/ /\ Queued("read", s)' = Queued("read", s) + 1
              /\ read[s] # "queued" /\ read'[s] = "queued"
  PROVE  ReadOnce'
<1> SUFFICES ASSUME NEW s \in Sides PROVE (Queued("read", s) <= One(read[s] = "queued"))'
  BY DEF ReadOnce
<1>1. Queued("read", s) \in Nat /\ Queued("read", s) <= One(read[s] = "queued")
  BY QueuedIsNat DEF TaskInv, ReadOnce
<1>2. \/ /\ Queued("read", s)' = Queued("read", s)
         /\ read[s] = "queued" => read'[s] = "queued"
      \/ Queued("read", s)' = 0
      \/ /\ Queued("read", s)' = Queued("read", s) + 1
         /\ read[s] # "queued" /\ read'[s] = "queued"
  OBVIOUS
<1> HIDE DEF Queued
<1> QED BY <1>1, <1>2 DEF One

LEMMA OthersReadOnce ==
  ASSUME TaskInv, TaskInv', ReadOnce, UNCHANGED read,
         \/ workQueue' = workQueue
         \/ \E do \in {"run", "dispose"} : workQueue' = workQueue \o <<Work(do, "Local")>>
  PROVE  ReadOnce'
<1>1. CASE workQueue' = workQueue
  BY <1>1, ReadOnceStep DEF Queued
<1>2. ASSUME NEW do \in {"run", "dispose"}, workQueue' = workQueue \o <<Work(do, "Local")>>
      PROVE  ReadOnce'
  <2>1. \A a, t : Queued(a, t)' = Queued(a, t) + One(a = do /\ t = "Local")
    BY <1>2, Scheduled DEF TaskInv, Sides
  <2>2. \A t : Queued("read", t)' = Queued("read", t)
    BY <2>1, QueuedIsNat DEF TaskInv, One
  <2> QED BY <2>2, ReadOnceStep
<1> QED BY <1>1, <1>2

LEMMA ReceiveReadOnce ==
  ASSUME TaskInv, TaskInv', ReadOnce, NEW s \in Sides, NEW k, Receive(s, k)
  PROVE  ReadOnce'
<1>1. read \in [Sides -> States]
  BY DEF TaskInv, TaskTypeOK
<1>2. CASE workQueue' = workQueue /\ (read' = read \/ read' = [read EXCEPT ![s] = "queued"])
  <2>1. \A t : Queued("read", t)' = Queued("read", t)
    BY <1>2 DEF Queued
  <2>2. \A t \in Sides : read[t] = "queued" => read'[t] = "queued"
    BY <1>1, <1>2
  <2> QED BY <2>1, <2>2, ReadOnceStep
<1>3. CASE /\ read[s] = "waiting" /\ read' = [read EXCEPT ![s] = "queued"]
           /\ workQueue' = workQueue \o <<Work("read", s)>>
  <2>1. \A a, t : Queued(a, t)' = Queued(a, t) + One(a = "read" /\ t = s)
    BY <1>3, Scheduled DEF TaskInv
  <2>2. /\ Queued("read", s)' = Queued("read", s) + 1
        /\ \A t : t # s => Queued("read", t)' = Queued("read", t)
    BY <2>1, QueuedIsNat DEF TaskInv, One
  <2>3. \A t \in Sides : t # s => read'[t] = read[t]
    BY <1>1, <1>3
  <2>4. read[s] # "queued" /\ read'[s] = "queued"
    BY <1>1, <1>3
  <2> QED BY <2>2, <2>3, <2>4, ReadOnceStep
<1> QED BY <1>2, <1>3 DEF Receive, Schedule

\* A disposal wakes a reader that waits only.
LEMMA CloseReadOnce ==
  ASSUME TaskInv, TaskInv', ReadOnce, NEW q \in Seq(WorkItems), NEW D \in SUBSET Sides,
         NEW senders \in [Sides -> States],
         adding => \A s \in Sides : sender[s] = "waiting" <=> senders[s] = "waiting",
         CloseSides(D, q, senders),
         \A s \in Sides : Count(q, Work("read", s)) = Queued("read", s)
  PROVE  ReadOnce'
<1>1. /\ workQueue' \in Seq(WorkItems)
      /\ read' \in [Sides -> States] /\ sender' \in [Sides -> States]
      /\ closed' \in [Sides -> BOOLEAN] /\ disconnected' = disconnected + 1
      /\ Queued("run", "Local")' = Count(q, Work("run", "Local"))
      /\ Queued("dispose", "Local")' = Count(q, Work("dispose", "Local"))
      /\ \A s \in Sides :
           LET wakesRead == adding /\ s \in D /\ read[s] = "waiting"
               wakesSend == adding /\ s \in D /\ sender[s] = "waiting" IN
           /\ read'[s] = IF wakesRead THEN "queued" ELSE read[s]
           /\ sender'[s] = IF wakesSend THEN "queued" ELSE senders[s]
           /\ Queued("read", s)' = Count(q, Work("read", s)) + One(wakesRead)
           /\ Queued("send", s)' = Count(q, Work("send", s)) + One(wakesSend)
  BY CloseSidesWakes DEF TaskInv
<1>2. \A s \in Sides : Queued("read", s) \in Nat
  BY QueuedIsNat DEF TaskInv
<1>3. ASSUME NEW s \in Sides
      PROVE  \/ /\ Queued("read", s)' = Queued("read", s)
                /\ read[s] = "queued" => read'[s] = "queued"
             \/ /\ Queued("read", s)' = Queued("read", s) + 1
                /\ read[s] # "queued" /\ read'[s] = "queued"
  BY <1>1, <1>2 DEF One
<1> QED BY <1>3, ReadOnceStep

LEMMA TakeReadOnce ==
  ASSUME TaskInv, TaskInv', ReadOnce, NEW s \in Sides, ReadMessages(s) \/ ReadThrows(s) \/ ReadEnds(s)
  PROVE  ReadOnce' /\ Queued("read", s) = 1 /\ read[s] = "queued"
<1> DEFINE q == Tail(workQueue)
<1>1. Take("read", s)
  BY DEF ReadMessages, ReadThrows, ReadEnds
<1>2. /\ q \in Seq(WorkItems)
      /\ \A a, t : /\ Count(q, Work(a, t)) \in Nat
                   /\ Queued(a, t) = One(a = "read" /\ t = s) + Count(q, Work(a, t))
  BY <1>1, Taken DEF TaskInv
<1> HIDE DEF q
<1>3. \/ workQueue' = q
      \/ workQueue' = q \o <<>>
      \/ workQueue' = q \o <<Work("send", Other(s))>>
  BY DEF ReadMessages, ReadThrows, ReadEnds, q
<1>4. \A t : Queued("read", t)' = Count(q, Work("read", t))
  <2>1. CASE workQueue' = q \/ workQueue' = q \o <<>>
    BY <1>2, <2>1, ConcatEmptySeq DEF Queued
  <2>2. CASE workQueue' = q \o <<Work("send", Other(s))>>
    <3>1. Work("send", Other(s)) \in WorkItems
      BY DEF Work, WorkItems, Other, Sides
    <3>2. <<Work("send", Other(s))>> \in Seq(WorkItems)
      BY <3>1
    <3>3. ASSUME NEW t
          PROVE  Queued("read", t)' = Count(q, Work("read", t))
      <4>1. Queued("read", t)' = Count(q, Work("read", t))
                                   + Count(<<Work("send", Other(s))>>, Work("read", t))
        BY <1>2, <2>2, <3>2, CountConcat DEF Queued
      <4>2. Count(<<Work("send", Other(s))>>, Work("read", t)) = 0
        BY <3>1, CountSingle, WorkEqual DEF One
      <4> QED BY <1>2, <4>1, <4>2
    <3> QED BY <3>3
  <2> QED BY <1>3, <2>1, <2>2
<1>5. /\ Queued("read", s) = 1 + Count(q, Work("read", s))
      /\ \A t : t # s => Queued("read", t) = Count(q, Work("read", t))
  BY <1>2 DEF One
<1>6. Queued("read", s) <= One(read[s] = "queued")
  BY DEF ReadOnce
<1>7. Queued("read", s) = 1 /\ read[s] = "queued" /\ Count(q, Work("read", s)) = 0
  <2>1. Count(q, Work("read", s)) \in Nat
    BY <1>2
  <2> HIDE DEF Queued
  <2> QED BY <2>1, <1>5, <1>6 DEF One
<1>8. \A t \in Sides : t # s => read'[t] = read[t]
  BY DEF ReadMessages, ReadThrows, ReadEnds, TaskInv, TaskTypeOK
<1>9. Queued("read", s)' = 0
  BY <1>4, <1>7
<1>10. \A t \in Sides : t # s => Queued("read", t)' = Queued("read", t)
  BY <1>4, <1>5
<1>11. ReadOnce'
  BY <1>8, <1>9, <1>10, ReadOnceStep
<1> QED BY <1>7, <1>11

LEMMA DisposalReadOnce ==
  ASSUME TaskInv, TaskInv', ReadOnce,
         DisposeOffThread \/ Dispose \/ DisposeCrashes
  PROVE  ReadOnce'
<1>1. sender \in [Sides -> States] /\ workQueue \in Seq(WorkItems)
  BY DEF TaskInv, TaskTypeOK
<1>2. CASE DisposeOffThread
  <2>1. PICK D \in SUBSET Sides : CloseSides(D, workQueue, sender)
    BY <1>2 DEF DisposeOffThread
  <2>2. \A s : Count(workQueue, Work("read", s)) = Queued("read", s)
    BY DEF Queued
  <2> QED BY <1>1, <2>1, <2>2, CloseReadOnce
<1>3. CASE Dispose \/ DisposeCrashes
  <2> DEFINE q == Tail(workQueue)
  <2>1. PICK D \in SUBSET Sides : CloseSides(D, q, sender)
    BY <1>3 DEF Dispose, DisposeCrashes
  <2>2. Take("dispose", "Local")
    BY <1>3 DEF Dispose, DisposeCrashes
  <2>3. /\ q \in Seq(WorkItems)
        /\ \A s : Count(q, Work("read", s)) = Queued("read", s)
    BY <2>2, Taken DEF TaskInv, One
  <2> HIDE DEF q
  <2> QED BY <1>1, <2>1, <2>3, CloseReadOnce
<1> QED BY <1>2, <1>3

LEMMA SendReadOnce ==
  ASSUME TaskInv, TaskInv', ReadOnce, NEW s \in Sides, SendBegins(s) \/ SendFailsAtOnce(s)
  PROVE  ReadOnce'
<1> DEFINE q == Tail(workQueue)
           senders == [sender EXCEPT ![s] = "ended"]
<1>1. Take("send", s)
  BY DEF SendBegins, SendFailsAtOnce
<1>2. /\ q \in Seq(WorkItems)
      /\ \A t : Count(q, Work("read", t)) = Queued("read", t)
  BY <1>1, Taken DEF TaskInv, One
<1>3. /\ senders \in [Sides -> States]
      /\ adding => \A t \in Sides : sender[t] = "waiting" <=> senders[t] = "waiting"
  BY <1>1, TakenLoop DEF TaskInv, TaskTypeOK, States
<1>4. \/ workQueue' = q /\ read' = read
      \/ \E D \in SUBSET Sides : CloseSides(D, q, senders)
  BY DEF SendBegins, SendFailsAtOnce
<1> HIDE DEF q, senders
<1>5. CASE workQueue' = q /\ read' = read
  <2>1. \A t : Queued("read", t)' = Queued("read", t)
    BY <1>2, <1>5 DEF Queued
  <2> QED BY <1>5, <2>1, ReadOnceStep
<1>6. ASSUME NEW D \in SUBSET Sides, CloseSides(D, q, senders) PROVE ReadOnce'
  BY <1>2, <1>3, <1>6, CloseReadOnce
<1> QED BY <1>4, <1>5, <1>6

LEMMA RunStartsAll ==
  ASSUME TaskInv, Run
  PROVE  /\ connected = 0 /\ read = All("off")
         /\ \A s \in Sides : Count(Tail(workQueue), Work("read", s)) = 0
<1>1. \A do, s : /\ Count(Tail(workQueue), Work(do, s)) \in Nat
                 /\ Queued(do, s) = One(do = "run" /\ s = "Local")
                                      + Count(Tail(workQueue), Work(do, s))
  BY Taken DEF Run, TaskInv
<1>2. /\ Queued("run", "Local") = 1 + Count(Tail(workQueue), Work("run", "Local"))
      /\ \A s : Queued("read", s) = Count(Tail(workQueue), Work("read", s))
  BY <1>1 DEF One
<1>3. Queued("run", "Local") # 0
  BY <1>1, <1>2
<1>4. connected = 0
  BY <1>3, RunOnce
<1> QED BY <1>2, <1>4 DEF TaskInv, ClientInv

LEMMA NextReadOnce ==
  ASSUME TaskInv, TaskInv', ReadOnce, [Next]_pvars
  PROVE  ReadOnce'
<1>1. CASE UNCHANGED pvars
  BY <1>1, OthersReadOnce DEF pvars, tasks
<1>2. CASE Pool
  <2>1. CASE Accept \/ Connect
    BY <2>1, OthersReadOnce DEF Accept, Connect, Schedule, tasks
  <2>2. ASSUME NEW s \in Sides, ReceiveFails(s) \/ LeaveWrite(s) \/ SendFails(s)
        PROVE  ReadOnce'
    BY <2>2, OthersReadOnce DEF ReceiveFails, LeaveWrite, SendFails, ClientDispose, Schedule
  <2>3. ASSUME NEW s \in Sides, NEW n, Sent(s, n) PROVE ReadOnce'
    BY <2>3, OthersReadOnce DEF Sent
  <2> QED BY <1>2, <2>1, <2>2, <2>3, ReceiveReadOnce, DisposalReadOnce DEF Pool
<1>3. CASE WorkThread
  <2>1. CASE Run
    <3>1. \A s \in Sides : Queued("read", s)' = 0
      BY <2>1, RunStartsAll DEF Run, Queued
    <3> QED BY <3>1, ReadOnceStep
  <2>2. CASE TakeNothing \/ TickDone
    BY <2>2, OthersReadOnce DEF TakeNothing, TickDone, tasks
  <2> QED BY <1>3, <2>1, <2>2, TakeReadOnce, SendReadOnce, DisposalReadOnce DEF WorkThread
<1>4. CASE Stop \/ ConnectFails
  BY <1>4, OthersReadOnce
     DEF Stop, DisposeServer, Cancel, CompleteAdding, Join, ConnectFails, tasks
<1>5. ASSUME NEW s \in Sides, PeerCloses(s) \/ PeerResets(s) PROVE ReadOnce'
  BY <1>5, OthersReadOnce DEF PeerCloses, PeerResets, tasks
<1> QED BY <1>1, <1>2, <1>3, <1>4, <1>5 DEF Next

-----------------------------------------------------------------------------
(* Sequences of bytes.                                                     *)

\* Nothing, or what ends with the delimiter.
Whole(b) == b # <<>> => b[Len(b)] = 0

LEMMA CutAt ==
  ASSUME NEW b \in Seq(Nat), NEW m \in 0..Len(b)
  PROVE  /\ SubSeq(b, 1, m) \in Seq(Nat) /\ SubSeq(b, m + 1, Len(b)) \in Seq(Nat)
         /\ Len(SubSeq(b, 1, m)) = m
         /\ SubSeq(b, 1, m) \o SubSeq(b, m + 1, Len(b)) = b
         /\ m # 0 => SubSeq(b, 1, m)[m] = b[m]
<1>1. Len(b) \in Nat /\ m \in Nat /\ m <= Len(b)
  OBVIOUS
<1>2. /\ \A i \in 1..m : b[i] \in Nat
      /\ \A i \in m + 1..Len(b) : b[i] \in Nat
  BY <1>1
<1>3. /\ SubSeq(b, 1, m) \in Seq(Nat)
      /\ Len(SubSeq(b, 1, m)) = IF 1 <= m THEN m - 1 + 1 ELSE 0
      /\ \A i \in 1..m - 1 + 1 : SubSeq(b, 1, m)[i] = b[1 + i - 1]
  BY <1>1, <1>2, SubSeqProperties
<1>4. SubSeq(b, m + 1, Len(b)) \in Seq(Nat)
  BY <1>1, <1>2, SubSeqProperties
<1>5. SubSeq(b, 1, m) \o SubSeq(b, m + 1, Len(b)) = SubSeq(b, 1, Len(b))
  <2>1. 1 \in 1..Len(b) + 1 /\ m \in 1 - 1..Len(b) /\ Len(b) \in m..Len(b)
    BY <1>1
  <2> QED BY <2>1, ConcatAdjacentSubSeq
<1>6. SubSeq(b, 1, Len(b)) = b
  BY SubSeqFull
<1>7. m # 0 => SubSeq(b, 1, m)[m] = b[m]
  <2>1. m # 0 => m \in 1..m - 1 + 1 /\ 1 + m - 1 = m
    BY <1>1
  <2> QED BY <1>3, <2>1
<1>8. Len(SubSeq(b, 1, m)) = m
  <2>1. (IF 1 <= m THEN m - 1 + 1 ELSE 0) = m
    BY <1>1
  <2> QED BY <1>3, <2>1
<1>9. SubSeq(b, 1, m) \o SubSeq(b, m + 1, Len(b)) = b
  BY <1>5, <1>6
<1>10. SubSeq(b, 1, m) \in Seq(Nat)
  BY <1>3
<1> QED BY Zenon, <1>4, <1>7, <1>8, <1>9, <1>10

LEMMA BytesAssociative ==
  \A a, b, c \in Seq(Nat) : (a \o b) \o c = a \o (b \o c)
BY ConcatAssociative

\* What is taken from the front of the rest joins what was relayed.
LEMMA PassesOn ==
  ASSUME NEW relayed \in Seq(Nat), NEW a \in Seq(Nat), NEW b \in Seq(Nat), NEW more \in Seq(Nat)
  PROVE  (relayed \o a) \o (b \o more) = relayed \o ((a \o b) \o more)
<1>1. (relayed \o a) \o (b \o more) = relayed \o (a \o (b \o more))
  <2> DEFINE c == b \o more
  <2>1. c \in Seq(Nat)
    BY ConcatProperties
  <2> HIDE DEF c
  <2>2. (relayed \o a) \o c = relayed \o (a \o c)
    BY <2>1, ConcatAssociative
  <2> QED BY <2>2 DEF c
<1>2. (a \o b) \o more = a \o (b \o more)
  BY ConcatAssociative
<1> QED BY <1>1, <1>2

LEMMA WholeConcat ==
  ASSUME NEW a \in Seq(Nat), NEW b \in Seq(Nat), Whole(a), Whole(b)
  PROVE  Whole(a \o b)
<1>1. CASE b = <<>>
  BY <1>1, ConcatEmptySeq
<1>2. CASE b # <<>>
  <2>1. Len(b) \in Nat \ {0} /\ Len(a) \in Nat /\ Len(a \o b) = Len(a) + Len(b)
    BY <1>2, EmptySeq, ConcatProperties
  <2>2. \A i \in 1..Len(a) + Len(b) :
          (a \o b)[i] = IF i <= Len(a) THEN a[i] ELSE b[i - Len(a)]
    BY ConcatProperties
  <2>3. /\ Len(a) + Len(b) \in 1..Len(a) + Len(b) /\ ~(Len(a) + Len(b) <= Len(a))
        /\ (Len(a) + Len(b)) - Len(a) = Len(b)
    BY <2>1
  <2>4. (a \o b)[Len(a \o b)] = b[Len(b)]
    BY <2>1, <2>2, <2>3
  <2> QED BY <1>2, <2>4 DEF Whole
<1> QED BY <1>1, <1>2

LEMMA WholeFront ==
  ASSUME NEW b \in Seq(Nat), NEW m \in 0..Len(b), m # 0 => b[m] = 0
  PROVE  Whole(SubSeq(b, 1, m))
<1>1. CASE m = 0
  BY <1>1, SubSeqEmpty DEF Whole
<1>2. CASE m # 0
  BY <1>2, CutAt DEF Whole
<1> QED BY <1>1, <1>2

LEMMA LeastOf ==
  ASSUME NEW I \in SUBSET Nat, I # {}
  PROVE  \E m \in I : \A i \in I : m <= i
<1>1. PICK m \in I : \A i \in I : ~ (<<i, m>> \in OpToRel(<, Nat))
  BY NatLessThanWellFounded, WFMin
<1>2. ASSUME NEW i \in I, i < m
      PROVE  FALSE
  <2>1. <<i, m>> \in Nat \X Nat /\ <<i, m>>[1] < <<i, m>>[2]
    BY <1>2
  <2>2. <<i, m>> \in OpToRel(<, Nat)
    BY <2>1 DEF OpToRel
  <2> QED BY <1>1, <2>2
<1> QED BY <1>2

LEMMA MostOf ==
  ASSUME NEW n \in Nat, NEW I \in SUBSET (1..n), I # {}
  PROVE  \E m \in I : \A i \in I : m >= i
<1> DEFINE J == {n - i : i \in I}
<1>1. J \in SUBSET Nat /\ J # {}
  <2>1. \A i \in 1..n : n - i \in Nat
    OBVIOUS
  <2>2. \A j \in J : j \in Nat
    BY <2>1
  <2>3. J # {}
    <3>1. PICK i \in I : TRUE
      OBVIOUS
    <3>2. n - i \in J
      BY <3>1
    <3> QED BY <3>2
  <2> QED BY <2>2, <2>3
<1>2. PICK j \in J : \A i \in J : j <= i
  BY <1>1, LeastOf
<1>3. PICK m \in I : j = n - m
  OBVIOUS
<1>4. ASSUME NEW i \in I PROVE m >= i
  <2>1. n - m <= n - i
    BY <1>2, <1>3
  <2> QED BY <2>1
<1> QED BY <1>4

LEMMA LastDelimiter ==
  ASSUME NEW b \in Seq(Nat)
  PROVE  \E m \in 0..Len(b) : Messages(b) = SubSeq(b, 1, m) /\ (m # 0 => b[m] = 0)
<1> DEFINE I == {i \in 1..Len(b) : b[i] = 0}
<1>1. CASE ~Contains(b, 0)
  <2>1. Messages(b) = SubSeq(b, 1, 0)
    BY <1>1 DEF Messages
  <2> QED BY <2>1
<1>2. CASE Contains(b, 0)
  <2>1. I # {} /\ I \in SUBSET (1..Len(b)) /\ Len(b) \in Nat
    BY <1>2 DEF Contains
  <2>2. Max(I) \in I
    <3>1. \E m \in I : \A i \in I : m >= i
      BY <2>1, MostOf
    <3> HIDE DEF I
    <3> QED BY <3>1 DEF Max
  <2>3. SelectLastInSeq(b, LAMBDA c : c = 0) = Max(I)
    BY <2>1 DEF SelectLastInSeq
  <2>4. Messages(b) = SubSeq(b, 1, Max(I))
    BY <1>2, <2>3 DEF Messages
  <2>5. Max(I) \in 0..Len(b) /\ b[Max(I)] = 0
    BY <2>1, <2>2
  <2> QED BY <2>4, <2>5
<1> QED BY <1>1, <1>2

LEMMA FirstDelimiter ==
  ASSUME NEW b \in Seq(Nat)
  PROVE  LET m == SelectInSeq(b, LAMBDA c : c = 0) IN
           m \in 0..Len(b) /\ (m # 0 => b[m] = 0)
<1> DEFINE I == {i \in 1..Len(b) : b[i] = 0}
           m == SelectInSeq(b, LAMBDA c : c = 0)
<1>1. CASE I = {}
  BY <1>1 DEF SelectInSeq
<1>2. CASE I # {}
  <2>1. I \in SUBSET Nat /\ m = Min(I)
    BY <1>2 DEF SelectInSeq
  <2>2. \E x \in I : \A y \in I : x <= y
    BY <1>2, <2>1, LeastOf
  <2>3. Min(I) \in I
    <3> HIDE DEF I
    <3> QED BY <2>2 DEF Min
  <2> QED BY <2>1, <2>3
<1> QED BY <1>1, <1>2

-----------------------------------------------------------------------------
(* What was relayed and what is still to come.                             *)

Relayed(s) == wire[Other(s)] \o send[Other(s)]

\* Whole messages were relayed, and they begin the peer's stream; while the side is
\* read, its pipe and the bytes on the way go on where they end.
Relays(s) ==
  /\ Whole(Relayed(s))
  /\ \E rest \in Seq(Nat) : Relayed(s) \o rest = Streams[s]
  /\ read[s] # "ended" =>
       \E more \in Seq(Nat) :
         /\ Relayed(s) \o (recv[s] \o more) = Streams[s]
         /\ link[s] # "reset" => more = unread[s]

ByteTypeOK ==
  /\ unread \in [Sides -> Seq(Nat)]
  /\ wire \in [Sides -> Seq(Nat)]
  /\ recv \in [Sides -> Seq(Nat)]
  /\ send \in [Sides -> Seq(Nat)]
  /\ link \in [Sides -> {"open", "eof", "reset"}]

ByteInv == ByteTypeOK /\ \A s \in Sides : Relays(s)

LEMMA ByteInvMeans ==
  ByteInv => RelayInOrder
<1> SUFFICES ASSUME ByteInv, NEW s \in Sides
             PROVE  /\ IsPrefix(Relayed(s), Streams[s])
                    /\ Relayed(s) # <<>> => Relayed(s)[Len(Relayed(s))] = 0
                    /\ read[s] # "ended" /\ link[s] # "reset" =>
                         Relayed(s) \o recv[s] \o unread[s] = Streams[s]
  BY DEF RelayInOrder, Relayed
<1> DEFINE relayed == Relayed(s)
<1>1. /\ relayed \in Seq(Nat) /\ recv[s] \in Seq(Nat) /\ unread[s] \in Seq(Nat)
  BY ConcatProperties DEF ByteInv, ByteTypeOK, Relayed, Other, Sides
<1>2. Relays(s)
  BY DEF ByteInv
<1> HIDE DEF relayed
<1>3. IsPrefix(relayed, Streams[s])
  <2>1. PICK rest \in Seq(Nat) : relayed \o rest = Streams[s]
    BY <1>2 DEF Relays, relayed
  <2>2. Len(relayed) \in Nat /\ Len(rest) \in Nat /\ Len(Streams[s]) = Len(relayed) + Len(rest)
    <3>1. \A a, b \in Seq(Nat) : Len(a) \in Nat /\ Len(a \o b) = Len(a) + Len(b)
      BY ConcatProperties
    <3> QED BY <1>1, <2>1, <3>1
  <2>3. SubSeq(Streams[s], 1, Len(relayed)) = SubSeq(relayed, 1, Len(relayed))
    <3>1. CASE Len(relayed) = 0
      BY <3>1, SubSeqEmpty
    <3>2. CASE Len(relayed) # 0
      <4>1. 1 \in 1..Len(relayed) /\ Len(relayed) \in 1..Len(relayed)
        BY <2>2, <3>2
      <4> QED BY <1>1, <2>1, <4>1, SubSeqOfConcat1
    <3> QED BY <3>1, <3>2
  <2> QED BY <2>2, <2>3 DEF IsPrefix
<1>4. relayed # <<>> => relayed[Len(relayed)] = 0
  BY <1>2 DEF Relays, Whole, relayed
<1>5. ASSUME read[s] # "ended", link[s] # "reset"
      PROVE  (relayed \o recv[s]) \o unread[s] = Streams[s]
  <2>1. relayed \o (recv[s] \o unread[s]) = Streams[s]
    BY <1>2, <1>5 DEF Relays, relayed
  <2>2. \A a, b, c \in Seq(Nat) : (a \o b) \o c = a \o (b \o c)
    BY ConcatAssociative
  <2> QED BY <1>1, <2>1, <2>2
<1> QED BY <1>3, <1>4, <1>5 DEF relayed

LEMMA ByteInitially ==
  Init => ByteInv
<1> SUFFICES ASSUME Init PROVE ByteInv
  OBVIOUS
<1>1. <<>> \in Seq(Nat) /\ Streams \in [Sides -> Seq(Nat)]
  BY PipeProxyAssumption
<1>2. ByteTypeOK
  BY <1>1 DEF Init, All, ByteTypeOK
<1>3. ASSUME NEW s \in Sides
      PROVE  Relays(s)
  <2>1. Relayed(s) = <<>> /\ recv[s] = <<>> /\ unread[s] = Streams[s]
    <3>1. wire[Other(s)] = <<>> /\ send[Other(s)] = <<>>
      BY DEF Init, All, Other, Sides
    <3>2. Relayed(s) = <<>> \o <<>>
      BY <3>1 DEF Relayed
    <3> QED BY <1>1, <3>2, ConcatEmptySeq DEF Init, All
  <2>2. Streams[s] \in Seq(Nat) /\ <<>> \o Streams[s] = Streams[s]
    BY <1>1, ConcatEmptySeq
  <2> QED BY <2>1, <2>2 DEF Relays, Whole
<1> QED BY <1>2, <1>3 DEF ByteInv

\* A side at which nothing was received and from which nothing was relayed.
LEMMA RelaysStay ==
  ASSUME NEW s \in Sides, Relays(s), Relayed(s)' = Relayed(s), recv'[s] = recv[s],
         read'[s] # "ended" => read[s] # "ended",
         link'[s] # "reset" => link[s] # "reset" /\ unread'[s] = unread[s]
  PROVE  Relays(s)'
<1>1. Whole(Relayed(s)')
  BY DEF Relays
<1>2. \E rest \in Seq(Nat) : Relayed(s)' \o rest = Streams[s]
  BY DEF Relays
<1>3. ASSUME read'[s] # "ended"
      PROVE  \E more \in Seq(Nat) :
               /\ Relayed(s)' \o (recv'[s] \o more) = Streams[s]
               /\ link'[s] # "reset" => more = unread'[s]
  BY <1>3 DEF Relays
<1> QED BY <1>1, <1>2, <1>3 DEF Relays, Whole

\* A step that moves no byte; it may reset a connection, and continue or end a reader.
LEMMA ByteQuiet ==
  ASSUME ByteInv, UNCHANGED <<wire, send, recv>>,
         unread' \in [Sides -> Seq(Nat)],
         link' \in [Sides -> {"open", "eof", "reset"}],
         \A s \in Sides :
           /\ read'[s] # "ended" => read[s] # "ended"
           /\ link'[s] # "reset" => link[s] # "reset" /\ unread'[s] = unread[s]
  PROVE  ByteInv'
<1>1. ByteTypeOK'
  BY DEF ByteInv, ByteTypeOK
<1>2. \A s \in Sides : Relays(s)'
  <2> SUFFICES ASSUME NEW s \in Sides PROVE Relays(s)'
    OBVIOUS
  <2>1. Relayed(s)' = Relayed(s)
    BY DEF Relayed
  <2> QED BY <2>1, RelaysStay DEF ByteInv
<1> QED BY <1>1, <1>2 DEF ByteInv

LEMMA ReceiveBytes ==
  ASSUME ByteInv, NEW s \in Sides, NEW k \in Nat, Receive(s, k)
  PROVE  ByteInv'
<1> DEFINE got == SubSeq(unread[s], 1, k)
           left == SubSeq(unread[s], k + 1, Len(unread[s]))
<1>1. /\ recv' = [recv EXCEPT ![s] = @ \o got] /\ unread' = [unread EXCEPT ![s] = left]
      /\ UNCHANGED <<link, wire, send>> /\ link[s] # "reset" /\ k <= Len(unread[s])
      /\ \/ read' = read
         \/ read[s] = "waiting" /\ read' = [read EXCEPT ![s] = "queued"]
  BY DEF Receive
<1>2. got \in Seq(Nat) /\ left \in Seq(Nat) /\ got \o left = unread[s]
  <2>1. unread[s] \in Seq(Nat) /\ k \in 0..Len(unread[s])
    BY <1>1 DEF ByteInv, ByteTypeOK
  <2> QED BY <2>1, CutAt
<1> HIDE DEF got, left
<1>3. ByteTypeOK'
  <2>1. recv[s] \o got \in Seq(Nat)
    BY <1>2, ConcatProperties DEF ByteInv, ByteTypeOK
  <2> QED BY <1>1, <1>2, <2>1 DEF ByteInv, ByteTypeOK
<1>4. ASSUME NEW t \in Sides
      PROVE  Relays(t)'
  <2>1. Relayed(t)' = Relayed(t)
    BY <1>1 DEF Relayed
  <2>2. read'[t] # "ended" => read[t] # "ended"
    <3>1. CASE read' = read
      BY <3>1
    <3>2. CASE read[s] = "waiting" /\ read' = [read EXCEPT ![s] = "queued"]
      BY <3>2
    <3> QED BY <1>1, <3>1, <3>2
  <2>3. CASE t # s
    BY <1>1, <2>1, <2>2, <2>3, RelaysStay DEF ByteInv, ByteTypeOK
  <2>4. CASE t = s
    <3>1. Whole(Relayed(s)') /\ \E rest \in Seq(Nat) : Relayed(s)' \o rest = Streams[s]
      BY <2>1, <2>4 DEF ByteInv, Relays
    <3>2. ASSUME read'[s] # "ended"
          PROVE  Relayed(s)' \o (recv'[s] \o unread'[s]) = Streams[s]
      <4>1. Relayed(s) \o (recv[s] \o unread[s]) = Streams[s]
        BY <1>1, <2>2, <2>4, <3>2 DEF ByteInv, Relays
      <4>2. recv'[s] = recv[s] \o got /\ unread'[s] = left /\ recv[s] \in Seq(Nat)
        BY <1>1 DEF ByteInv, ByteTypeOK
      <4>3. (recv[s] \o got) \o left = recv[s] \o unread[s]
        <5>1. (recv[s] \o got) \o left = recv[s] \o (got \o left)
          BY Zenon, <1>2, <4>2, BytesAssociative
        <5> QED BY Zenon, <1>2, <5>1
      <4> QED BY <2>1, <2>4, <4>1, <4>2, <4>3
    <3>3. unread'[s] \in Seq(Nat)
      BY <1>3 DEF ByteTypeOK
    <3> QED BY <2>4, <3>1, <3>2, <3>3 DEF Relays, Whole
  <2> QED BY <2>3, <2>4
<1> QED BY <1>3, <1>4 DEF ByteInv

LEMMA SentBytes ==
  ASSUME ByteInv, NEW s \in Sides, NEW n, Sent(s, n)
  PROVE  ByteInv'
<1> DEFINE gone == SubSeq(send[s], 1, n)
           left == SubSeq(send[s], n + 1, Len(send[s]))
<1>1. /\ wire' = [wire EXCEPT ![s] = @ \o gone] /\ send' = [send EXCEPT ![s] = left]
      /\ UNCHANGED <<unread, link, recv, read>> /\ n \in 1..Len(send[s])
  BY DEF Sent
<1>2. gone \in Seq(Nat) /\ left \in Seq(Nat) /\ gone \o left = send[s]
  <2>1. send[s] \in Seq(Nat) /\ n \in 0..Len(send[s])
    BY <1>1 DEF ByteInv, ByteTypeOK
  <2> QED BY <2>1, CutAt
<1> HIDE DEF gone, left
<1>3. ByteTypeOK'
  <2>1. wire[s] \o gone \in Seq(Nat)
    BY <1>2, ConcatProperties DEF ByteInv, ByteTypeOK
  <2> QED BY <1>1, <1>2, <2>1 DEF ByteInv, ByteTypeOK
<1>4. ASSUME NEW t \in Sides
      PROVE  Relays(t)'
  <2>1. Relayed(t)' = Relayed(t)
    <3>1. CASE Other(t) # s
      BY <1>1, <3>1 DEF Relayed, Other, Sides, ByteInv, ByteTypeOK
    <3>2. CASE Other(t) = s
      <4>1. wire'[s] = wire[s] \o gone /\ send'[s] = left /\ wire[s] \in Seq(Nat)
        BY <1>1 DEF ByteInv, ByteTypeOK
      <4>2. (wire[s] \o gone) \o left = wire[s] \o send[s]
        <5>1. wire[s] \in Seq(Nat)
          BY DEF ByteInv, ByteTypeOK
        <5>2. (wire[s] \o gone) \o left = wire[s] \o (gone \o left)
          BY Zenon, <1>2, <5>1, BytesAssociative
        <5> QED BY Zenon, <1>2, <5>2
      <4> QED BY <3>2, <4>1, <4>2 DEF Relayed
    <3> QED BY <3>1, <3>2
  <2> QED BY <1>1, <2>1, RelaysStay DEF ByteInv
<1> QED BY <1>3, <1>4 DEF ByteInv

\* HandleRecvRead passes on `a`, which is whole, and keeps `b`, or ends.
LEMMA PassBytes ==
  ASSUME ByteInv, NEW s \in Sides, NEW a \in Seq(Nat), NEW b \in Seq(Nat),
         Whole(a), a \o b = recv[s], read[s] # "ended",
         UNCHANGED <<unread, link, wire>>,
         send' = [send EXCEPT ![Other(s)] = @ \o a],
         \/ recv' = [recv EXCEPT ![s] = b]
         \/ recv' = recv /\ read'[s] = "ended",
         \A t \in Sides : t # s => read'[t] = read[t]
  PROVE  ByteInv'
<1> DEFINE o == Other(s)
<1>1. o \in Sides /\ o # s /\ \A t \in Sides : (Other(t) = o) <=> (t = s)
  BY DEF Other, Sides
<1>2. /\ wire[o] \in Seq(Nat) /\ send[o] \in Seq(Nat) /\ send'[o] = send[o] \o a
      /\ \A t \in Sides : t # o => send'[t] = send[t]
  BY <1>1 DEF ByteInv, ByteTypeOK
<1> HIDE DEF o
<1>3. ByteTypeOK'
  <2>1. send[o] \o a \in Seq(Nat)
    BY <1>2, ConcatProperties
  <2> QED BY <1>1, <2>1 DEF ByteInv, ByteTypeOK, o
<1>4. Relayed(s) \in Seq(Nat) /\ Relayed(s)' = Relayed(s) \o a
  <2>1. (wire[o] \o send[o]) \o a = wire[o] \o (send[o] \o a)
    BY Zenon, <1>2, BytesAssociative
  <2>2. wire[o] \o send[o] \in Seq(Nat)
    BY <1>2, ConcatProperties
  <2>3. Relayed(s) = wire[o] \o send[o] /\ Relayed(s)' = wire[o] \o send'[o]
    BY DEF Relayed, o
  <2> QED BY Zenon, <1>2, <2>1, <2>2, <2>3
<1>5. PICK more \in Seq(Nat) :
        /\ Relayed(s) \o (recv[s] \o more) = Streams[s]
        /\ link[s] # "reset" => more = unread[s]
  BY DEF ByteInv, Relays
<1>6. Relayed(s)' \o (b \o more) = Streams[s] /\ b \o more \in Seq(Nat)
  <2>1. (Relayed(s) \o a) \o (b \o more) = Relayed(s) \o ((a \o b) \o more)
    BY <1>4, PassesOn
  <2>2. b \o more \in Seq(Nat)
    BY ConcatProperties
  <2> QED BY <1>4, <1>5, <2>1, <2>2
<1>7. Relays(s)'
  <2>1. Whole(Relayed(s)')
    <3>1. Whole(Relayed(s) \o a)
      BY <1>4, WholeConcat DEF ByteInv, Relays
    <3> QED BY <1>4, <3>1
  <2>2. read'[s] # "ended" => recv'[s] = b
    BY DEF ByteInv, ByteTypeOK
  <2>3. read'[s] # "ended" =>
          \E m \in Seq(Nat) : /\ Relayed(s)' \o (recv'[s] \o m) = Streams[s]
                              /\ link'[s] # "reset" => m = unread'[s]
    BY <1>5, <1>6, <2>2
  <2> QED BY <1>6, <2>1, <2>3 DEF Relays, Whole
<1>8. ASSUME NEW t \in Sides, t # s
      PROVE  Relays(t)'
  <2>1. Relayed(t)' = Relayed(t)
    <3>1. Other(t) \in Sides /\ Other(t) # o
      BY <1>1, <1>8 DEF Other, Sides
    <3> QED BY <1>2, <3>1 DEF Relayed
  <2>2. recv'[t] = recv[t] /\ read'[t] = read[t]
    BY <1>8 DEF ByteInv, ByteTypeOK
  <2> QED BY <2>1, <2>2, RelaysStay DEF ByteInv
<1> QED BY <1>3, <1>7, <1>8 DEF ByteInv

LEMMA ReadBytes ==
  ASSUME TaskInv, TaskInv', ReadOnce, ByteInv, NEW s \in Sides,
         ReadMessages(s) \/ ReadThrows(s) \/ ReadEnds(s)
  PROVE  ByteInv'
<1>1. read[s] # "ended" /\ recv[s] \in Seq(Nat) /\ read \in [Sides -> States]
  BY TakeReadOnce DEF ByteInv, ByteTypeOK, TaskInv, TaskTypeOK
<1>2. UNCHANGED <<unread, link, wire>> /\ \A t \in Sides : t # s => read'[t] = read[t]
  BY <1>1 DEF ReadMessages, ReadThrows, ReadEnds, sockets
<1>3. Other(s) \in Sides /\ send[Other(s)] \in Seq(Nat)
  BY DEF Other, Sides, ByteInv, ByteTypeOK
<1> DEFINE whole == Messages(recv[s])
<1>4. PICK m \in 0..Len(recv[s]) : whole = SubSeq(recv[s], 1, m) /\ (m # 0 => recv[s][m] = 0)
  BY <1>1, LastDelimiter
<1> DEFINE left == SubSeq(recv[s], m + 1, Len(recv[s]))
<1>5. /\ whole \in Seq(Nat) /\ left \in Seq(Nat) /\ Len(whole) = m /\ whole \o left = recv[s]
      /\ Whole(whole)
  BY <1>1, <1>4, CutAt, WholeFront
<1>6. CASE ReadMessages(s)
  <2>1. /\ recv' = [recv EXCEPT ![s] = SubSeq(@, Len(whole) + 1, Len(@))]
        /\ send' = [send EXCEPT ![Other(s)] = @ \o whole]
    BY <1>6 DEF ReadMessages
  <2>2. recv' = [recv EXCEPT ![s] = left]
    BY <1>5, <2>1
  <2> HIDE DEF whole, left
  <2> QED BY <1>1, <1>2, <1>5, <2>1, <2>2, PassBytes
<1>7. CASE ReadEnds(s) \/ (ReadThrows(s) /\ closed[Other(s)])
  <2>1. UNCHANGED <<recv, send>> /\ read' = [read EXCEPT ![s] = "ended"]
    BY <1>7 DEF ReadEnds, ReadThrows
  <2>2. \A t \in Sides : read'[t] # "ended" => read[t] # "ended"
    BY <1>1, <2>1
  <2> QED BY <1>2, <2>1, <2>2, ByteQuiet DEF ByteInv, ByteTypeOK
<1>8. CASE ReadThrows(s) /\ ~closed[Other(s)]
  <2> DEFINE n == SelectInSeq(whole, LAMBDA b : b = 0)
             first == SubSeq(whole, 1, n)
             after == SubSeq(whole, n + 1, Len(whole))
  <2>1. /\ recv' = recv /\ read' = [read EXCEPT ![s] = "ended"]
        /\ send' = [send EXCEPT ![Other(s)] = @ \o first]
    BY <1>8 DEF ReadThrows
  <2>2. n \in 0..Len(whole) /\ (n # 0 => whole[n] = 0)
    BY <1>5, FirstDelimiter
  <2> HIDE DEF n, whole, left
  <2>3. first \in Seq(Nat) /\ after \in Seq(Nat) /\ first \o after = whole /\ Whole(first)
    BY <1>5, <2>2, CutAt, WholeFront
  <2> HIDE DEF first, after
  <2>4. after \o left \in Seq(Nat) /\ first \o (after \o left) = recv[s]
    <3>1. (first \o after) \o left = first \o (after \o left)
      BY Zenon, <1>5, <2>3, BytesAssociative
    <3>2. after \o left \in Seq(Nat)
      BY <1>5, <2>3, ConcatProperties
    <3> QED BY Zenon, <1>5, <2>3, <3>1, <3>2
  <2>5. read'[s] = "ended"
    BY <1>1, <2>1
  <2> QED BY <1>1, <1>2, <2>1, <2>3, <2>4, <2>5, PassBytes
<1> QED BY <1>6, <1>7, <1>8

LEMMA RunBytes ==
  ASSUME TaskInv, ByteInv, Run
  PROVE  ByteInv'
<1>1. read = All("off")
  BY RunStartsAll
<1>2. \A s \in Sides : read[s] # "ended"
  BY <1>1 DEF All
<1> QED BY <1>2, ByteQuiet DEF Run, sockets, ByteInv, ByteTypeOK

\* A disposal wakes a reader or leaves it as it is.
LEMMA CloseBytes ==
  ASSUME ByteInv, UNCHANGED <<sockets, recv, send>>,
         NEW q, NEW D, NEW senders, CloseSides(D, q, senders)
  PROVE  ByteInv'
<1>1. \A s \in Sides :
        read'[s] = IF s \in D /\ adding /\ read[s] = "waiting" THEN "queued" ELSE read[s]
  BY DEF CloseSides
<1>2. \A s \in Sides : read'[s] # "ended" => read[s] # "ended"
  BY <1>1
<1> QED BY <1>2, ByteQuiet DEF sockets, ByteInv, ByteTypeOK

LEMMA NextBytes ==
  ASSUME TaskInv, TaskInv', ReadOnce, ByteInv, [Next]_pvars
  PROVE  ByteInv'
<1>1. CASE UNCHANGED <<sockets, recv, send, read>>
  BY <1>1, ByteQuiet DEF sockets, ByteInv, ByteTypeOK
<1>2. CASE UNCHANGED pvars
  BY <1>1, <1>2 DEF pvars, tasks
<1>3. CASE Pool
  <2>1. CASE Accept \/ Connect
    BY <1>1, <2>1 DEF Accept, Connect, tasks
  <2>2. ASSUME NEW s \in Sides, ReceiveFails(s) \/ LeaveWrite(s) \/ SendFails(s)
        PROVE  ByteInv'
    BY <1>1, <2>2 DEF ReceiveFails, LeaveWrite, SendFails
  <2>3. ASSUME NEW s \in Sides, NEW k \in 0..Len(unread[s]), Receive(s, k)
        PROVE  ByteInv'
    BY <2>3, ReceiveBytes
  <2>4. CASE DisposeOffThread
    BY <2>4, CloseBytes DEF DisposeOffThread
  <2> QED BY <1>3, <2>1, <2>2, <2>3, <2>4, SentBytes DEF Pool
<1>4. CASE WorkThread
  <2>1. CASE Dispose \/ DisposeCrashes
    BY <2>1, CloseBytes DEF Dispose, DisposeCrashes
  <2>2. ASSUME NEW s \in Sides, SendBegins(s)
        PROVE  ByteInv'
    BY <1>1, <2>2 DEF SendBegins
  <2>3. ASSUME NEW s \in Sides, SendFailsAtOnce(s)
        PROVE  ByteInv'
    <3>1. CASE read' = read
      BY <1>1, <2>3, <3>1 DEF SendFailsAtOnce
    <3>2. CASE \E D \in SUBSET Sides :
                 CloseSides(D, Tail(workQueue), [sender EXCEPT ![s] = "ended"])
      BY <2>3, <3>2, CloseBytes DEF SendFailsAtOnce
    <3> QED BY <2>3, <3>1, <3>2 DEF SendFailsAtOnce
  <2>4. CASE TakeNothing \/ TickDone
    BY <1>1, <2>4 DEF TakeNothing, TickDone, tasks
  <2> QED BY <1>4, <2>1, <2>2, <2>3, <2>4, ReadBytes, RunBytes DEF WorkThread
<1>5. CASE Stop \/ ConnectFails
  BY <1>1, <1>5 DEF Stop, DisposeServer, Cancel, CompleteAdding, Join, ConnectFails, tasks
<1>6. ASSUME NEW s \in Sides, PeerCloses(s) \/ PeerResets(s)
      PROVE  ByteInv'
  <2>1. UNCHANGED <<wire, send, recv, read>>
    BY <1>6 DEF PeerCloses, PeerResets, tasks
  <2>2. CASE PeerCloses(s)
    <3>1. link' = [link EXCEPT ![s] = "eof"] /\ link[s] = "open" /\ unread' = unread
      BY <2>2 DEF PeerCloses
    <3>2. /\ link' \in [Sides -> {"open", "eof", "reset"}]
          /\ \A t \in Sides : link'[t] # "reset" => link[t] # "reset" /\ unread'[t] = unread[t]
      BY <3>1 DEF ByteInv, ByteTypeOK
    <3> QED BY <2>1, <3>1, <3>2, ByteQuiet DEF ByteInv, ByteTypeOK
  <2>3. CASE PeerResets(s)
    <3>1. link' = [link EXCEPT ![s] = "reset"] /\ unread' = [unread EXCEPT ![s] = <<>>]
      BY <2>3 DEF PeerResets
    <3>2. /\ link' \in [Sides -> {"open", "eof", "reset"}]
          /\ \A t \in Sides : link'[t] # "reset" => link[t] # "reset" /\ unread'[t] = unread[t]
          /\ unread' \in [Sides -> Seq(Nat)]
      BY <3>1 DEF ByteInv, ByteTypeOK
    <3> QED BY <2>1, <3>2, ByteQuiet
  <2> QED BY <1>6, <2>2, <2>3
<1> QED BY <1>2, <1>3, <1>4, <1>5, <1>6 DEF Next

\* What a peer is sent is what the other said, in whole messages, in order and once,
\* whatever is reset, disposed or stopped meanwhile.
THEOREM AlwaysRelaysInOrder == Spec => []RelayInOrder
<1> DEFINE Inv == TaskInv /\ ReadOnce /\ ByteInv
<1>1. Init => Inv
  <2> SUFFICES ASSUME Init PROVE ReadOnce
    BY TaskInitially, ByteInitially
  <2>1. \A w : Count(<<>>, w) = 0
    <3>1. \A w : At(<<>>, w) = {}
      BY DEF At
    <3> QED BY <3>1, FS_EmptySet DEF Count
  <2> QED BY <2>1 DEF Init, ReadOnce, Queued, One
<1>2. Inv /\ [Next]_pvars => Inv'
  BY NextTaskInv, NextReadOnce, NextBytes
<1>3. Inv => RelayInOrder
  BY ByteInvMeans
<1> QED BY <1>1, <1>2, <1>3, PTL DEF Spec

=============================================================================
