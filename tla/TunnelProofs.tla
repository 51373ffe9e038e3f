---------------------------- MODULE TunnelProofs ----------------------------
(***************************************************************************)
(* The addresses of a remote host and the bytes of a tunnel, for any       *)
(* number of connections.                                                  *)
(***************************************************************************)
EXTENDS Tunnel, SequenceTheorems, FiniteSetTheorems, WellFoundedInduction, TLAPS

-----------------------------------------------------------------------------
(* The turn of the addresses.                                              *)

\* What makes AddressesKept inductive: only a call between its TryDequeue and its
\* Enqueue has an address in hand.
RingTypeOK ==
  /\ queue \in Seq(ToSet(Addresses))
  /\ turn \in [Clients -> {"before", "dequeued", "turned", "done"}]
  /\ ip \in [Clients -> ToSet(Addresses) \cup {NoAddress}]

HandsInTurn == \A c \in Clients : ip[c] # NoAddress => turn[c] = "dequeued"

RingInv == RingTypeOK /\ HandsInTurn /\ AddressesKept

\* An address taken from the queue is no longer in it.
LEMMA TailKeeps ==
  ASSUME NEW S, NEW s \in Seq(S), s # <<>>, IsInjective(s)
  PROVE  /\ Tail(s) \in Seq(S)
         /\ IsInjective(Tail(s))
         /\ Head(s) \in ToSet(s)
         /\ ToSet(Tail(s)) = ToSet(s) \ {Head(s)}
<1> DEFINE t == Tail(s)
<1>1. /\ Len(s) \in Nat \ {0}
      /\ DOMAIN s = 1..Len(s)
      /\ Head(s) = s[1]
  OBVIOUS
<1>2. /\ t \in Seq(S)
      /\ DOMAIN t = 1..Len(s) - 1
      /\ \A i \in 1..Len(s) - 1 : t[i] = s[i + 1]
  OBVIOUS
<1> HIDE DEF t
<1>3. IsInjective(t)
  <2>1. SUFFICES ASSUME NEW i \in 1..Len(s) - 1, NEW j \in 1..Len(s) - 1, t[i] = t[j]
                 PROVE  i = j
    BY <1>2 DEF IsInjective
  <2>2. i + 1 \in DOMAIN s /\ j + 1 \in DOMAIN s /\ s[i + 1] = s[j + 1]
    BY <1>1, <1>2, <2>1
  <2>3. i + 1 = j + 1
    BY <2>2 DEF IsInjective
  <2> QED BY <1>1, <2>3
<1>4. ToSet(t) \subseteq ToSet(s) \ {Head(s)}
  BY <1>1, <1>2 DEF IsInjective, ToSet
<1>5. ASSUME NEW i \in 1..Len(s), s[i] # s[1]
      PROVE  s[i] \in ToSet(t)
  <2>1. i - 1 \in 1..Len(s) - 1 /\ t[i - 1] = s[i]
    BY <1>1, <1>2, <1>5
  <2> QED BY <1>2, <2>1 DEF ToSet
<1>6. ToSet(s) \ {Head(s)} \subseteq ToSet(t)
  BY <1>1, <1>5 DEF ToSet
<1>7. ToSet(t) = ToSet(s) \ {Head(s)}
  BY <1>4, <1>6
<1>8. Head(s) \in ToSet(s)
  BY <1>1 DEF ToSet
<1> QED BY <1>2, <1>3, <1>7, <1>8 DEF t

\* An address that was not in the queue is in it once after it was put there.
LEMMA AppendKeeps ==
  ASSUME NEW S, NEW s \in Seq(S), NEW e \in S, e \notin ToSet(s), IsInjective(s)
  PROVE  /\ Append(s, e) \in Seq(S)
         /\ IsInjective(Append(s, e))
         /\ ToSet(Append(s, e)) = ToSet(s) \cup {e}
<1> DEFINE t == Append(s, e)
<1>1. Len(s) \in Nat /\ DOMAIN s = 1..Len(s)
  OBVIOUS
<1>2. /\ t \in Seq(S)
      /\ DOMAIN t = 1..Len(s) + 1
      /\ t[Len(s) + 1] = e
      /\ \A i \in 1..Len(s) : t[i] = s[i]
  OBVIOUS
<1> HIDE DEF t
<1>3. \A i \in 1..Len(s) + 1 : i \in 1..Len(s) \/ i = Len(s) + 1
  BY <1>1
<1>4. \A i \in 1..Len(s) : s[i] # e
  BY <1>1 DEF ToSet
<1>5. IsInjective(t)
  BY <1>1, <1>2, <1>3, <1>4 DEF IsInjective
<1>6. ToSet(t) = ToSet(s) \cup {e}
  <2>1. ToSet(t) \subseteq ToSet(s) \cup {e}
    BY <1>1, <1>2, <1>3 DEF ToSet
  <2>2. Len(s) + 1 \in DOMAIN t /\ \A i \in DOMAIN s : i \in DOMAIN t
    BY <1>1, <1>2
  <2>3. ToSet(s) \subseteq ToSet(t) /\ e \in ToSet(t)
    BY <1>1, <1>2, <2>2 DEF ToSet
  <2> QED BY <2>1, <2>3
<1> QED BY <1>2, <1>5, <1>6 DEF t

LEMMA RingInitially ==
  Init => RingInv
<1> SUFFICES ASSUME Init PROVE RingInv
  OBVIOUS
<1>1. Addresses \in Seq(ToSet(Addresses))
  BY AddressRingAssumption DEF ToSet
<1>2. Holders = {}
  BY DEF Init, RingInit, Holders
<1> QED BY <1>1, <1>2, AddressRingAssumption
        DEF Init, RingInit, RingInv, RingTypeOK, HandsInTurn, AddressesKept

LEMMA TryDequeueKeeps ==
  ASSUME NEW c \in Clients, RingInv, TryDequeue(c)
  PROVE  RingInv'
<1> USE DEF RingInv
<1>0. /\ ip[c] = NoAddress
      /\ turn' \in [Clients -> {"before", "dequeued", "turned", "done"}]
      /\ turn'[c] = "dequeued"
      /\ \A d \in Clients : d # c => turn'[d] = turn[d]
  BY DEF TryDequeue, RingTypeOK, HandsInTurn
<1>1. CASE queue = <<>> /\ UNCHANGED <<queue, ip>>
  BY <1>0, <1>1 DEF RingTypeOK, HandsInTurn, AddressesKept, Holders
<1>2. CASE queue # <<>> /\ ip' = [ip EXCEPT ![c] = Head(queue)] /\ queue' = Tail(queue)
  <2>1. /\ queue' \in Seq(ToSet(Addresses))
        /\ IsInjective(queue')
        /\ Head(queue) \in ToSet(queue)
        /\ ToSet(queue') = ToSet(queue) \ {Head(queue)}
    BY <1>2, TailKeeps DEF RingTypeOK, AddressesKept
  <2>2. Head(queue) \in ToSet(Addresses) /\ Head(queue) # NoAddress
    BY <2>1, AddressRingAssumption DEF AddressesKept
  <2>3. ip'[c] = Head(queue) /\ \A d \in Clients : d # c => ip'[d] = ip[d]
    BY <1>2 DEF RingTypeOK
  <2>4. Holders' = Holders \cup {c} /\ c \notin Holders
    BY <1>0, <2>2, <2>3 DEF Holders
  <2>5. RingTypeOK'
    BY <1>0, <1>2, <2>1, <2>2 DEF RingTypeOK
  <2>6. HandsInTurn'
    BY <1>0, <2>3 DEF HandsInTurn
  <2>7. \A d \in Holders : d \in Clients /\ d # c /\ ip'[d] = ip[d] /\ ip[d] # Head(queue)
    BY <2>1, <2>3, <2>4 DEF Holders, AddressesKept
  <2>8. {ip'[d] : d \in Holders'} = {ip[d] : d \in Holders} \cup {Head(queue)}
    BY <2>3, <2>4, <2>7
  <2>9. AddressesKept'
    <3>1. \A d, e \in Holders' : d # e => ip'[d] # ip'[e]
      BY <2>3, <2>4, <2>7 DEF AddressesKept
    <3>2. \A d \in Holders' : ip'[d] \notin ToSet(queue')
      BY <2>1, <2>3, <2>4, <2>7 DEF AddressesKept
    <3>3. ToSet(queue') \cup {ip'[d] : d \in Holders'} = ToSet(Addresses)
      BY <2>1, <2>8 DEF AddressesKept
    <3> QED BY <2>1, <3>1, <3>2, <3>3 DEF AddressesKept
  <2> QED BY <2>5, <2>6, <2>9
<1> QED BY <1>1, <1>2 DEF TryDequeue

LEMMA EnqueueKeeps ==
  ASSUME NEW c \in Clients, RingInv, Enqueue(c)
  PROVE  RingInv'
<1> USE DEF RingInv
<1>0. /\ turn' \in [Clients -> {"before", "dequeued", "turned", "done"}]
      /\ \A d \in Clients : d # c => turn'[d] = turn[d]
      /\ ip' \in [Clients -> ToSet(Addresses) \cup {NoAddress}]
      /\ ip'[c] = NoAddress
      /\ \A d \in Clients : d # c => ip'[d] = ip[d]
  BY DEF Enqueue, RingTypeOK
<1>1. HandsInTurn'
  BY <1>0 DEF HandsInTurn
<1>2. Holders' = Holders \ {c} /\ \A d \in Holders' : d # c /\ ip'[d] = ip[d]
  BY <1>0 DEF Holders
<1>3. CASE ip[c] = NoAddress
  <2>1. queue' = queue /\ Holders' = Holders
    BY <1>2, <1>3 DEF Enqueue, Holders
  <2> QED BY <1>0, <1>1, <1>2, <2>1 DEF RingTypeOK, AddressesKept
<1>4. CASE ip[c] # NoAddress
  <2>1. c \in Holders /\ ip[c] \in ToSet(Addresses) /\ ip[c] \notin ToSet(queue)
    BY <1>4 DEF Holders, RingTypeOK, AddressesKept
  <2>2. queue' = Append(queue, ip[c])
    BY <1>4 DEF Enqueue
  <2>3. /\ queue' \in Seq(ToSet(Addresses))
        /\ IsInjective(queue')
        /\ ToSet(queue') = ToSet(queue) \cup {ip[c]}
    BY <2>1, <2>2, AppendKeeps DEF RingTypeOK, AddressesKept
  <2>4. {ip[d] : d \in Holders} = {ip'[d] : d \in Holders'} \cup {ip[c]}
    BY <1>2, <2>1
  <2>5. AddressesKept'
    <3>1. \A d, e \in Holders' : d # e => ip'[d] # ip'[e]
      BY <1>2 DEF AddressesKept
    <3>2. \A d \in Holders' : ip'[d] \notin ToSet(queue')
      BY <1>2, <2>1, <2>3 DEF AddressesKept
    <3>3. ToSet(queue') \cup {ip'[d] : d \in Holders'} = ToSet(Addresses)
      BY <2>3, <2>4 DEF AddressesKept
    <3> QED BY <2>3, <3>1, <3>2, <3>3 DEF AddressesKept
  <2> QED BY <1>0, <1>1, <2>3, <2>5 DEF RingTypeOK
<1> QED BY <1>3, <1>4

LEMMA ToArrayKeeps ==
  ASSUME NEW c \in Clients, RingInv, ToArray(c)
  PROVE  RingInv'
<1>1. queue' = queue /\ ip' = ip /\ Holders' = Holders
  BY DEF ToArray, Holders
<1>2. turn[c] = "turned" /\ turn' = [turn EXCEPT ![c] = "done"]
  BY DEF ToArray
<1>3. RingTypeOK'
  BY <1>1, <1>2 DEF RingInv, RingTypeOK
<1>4. HandsInTurn'
  BY <1>1, <1>2 DEF RingInv, RingTypeOK, HandsInTurn
<1> QED BY <1>1, <1>3, <1>4 DEF RingInv, AddressesKept

LEMMA RingStutters ==
  ASSUME RingInv, UNCHANGED ring
  PROVE  RingInv'
BY DEF RingInv, RingTypeOK, HandsInTurn, AddressesKept, Holders, ring

LEMMA RingStep ==
  RingInv /\ [Next]_vars => RingInv'
<1> SUFFICES ASSUME RingInv, [Next]_vars PROVE RingInv'
  OBVIOUS
<1>1. CASE UNCHANGED vars
  BY <1>1, RingStutters DEF vars
<1>2. CASE StartReading
  BY <1>2, RingStutters DEF StartReading
<1>3. ASSUME NEW c \in Clients, Accept(c) \/ Handle(c) \/ Fail(c) \/ Close(c)
      PROVE  RingInv'
  <2>1. CASE CreateIp(c)
    BY <2>1, TryDequeueKeeps, EnqueueKeeps, ToArrayKeeps DEF CreateIp, Turn
  <2>2. CASE ~CreateIp(c)
    <3>1. UNCHANGED ring
      BY <1>3, <2>2 DEF Accept, Handle, ReadRequest, Route, CreateLocal, CreateRemote,
                        Fail, Close
    <3> QED BY <3>1, RingStutters
  <2> QED BY <2>1, <2>2
<1>4. ASSUME NEW c \in Clients, NEW d \in Dirs,
             PeerSends(c, d) \/ PeerLeaves(c, d) \/ CopyStep(c, d)
      PROVE  RingInv'
  <2>1. UNCHANGED ring
    BY <1>4 DEF PeerSends, PeerLeaves, CopyStep, CopyReads, CopyWrites, CopyEnds, CopyFails
  <2> QED BY <2>1, RingStutters
<1> QED BY <1>1, <1>2, <1>3, <1>4 DEF Next

\* For any number of connections, whose turns of the queue interleave in any way, no
\* address of a remote host is lost and none is doubled (ConnectHelper.CreateIp).
THEOREM AddressesAlwaysKept == Spec => []AddressesKept
<1>1. RingInv => AddressesKept
  BY DEF RingInv
<1> QED BY RingInitially, RingStep, <1>1, PTL DEF Spec

-----------------------------------------------------------------------------
(* The connections in the pool's queue.                                    *)

\* Where a connection stands in the queue.
At(s, c) == {i \in 1..Len(s) : s[i] = c}

Phases == {"connecting", "accepted", "reading", "answered", "refused", "local",
           "remote", "tunnel", "failed"}

HandTypeOK ==
  /\ work \in Seq(Clients)
  /\ readers \in [Clients -> Nat]
  /\ phase \in [Clients -> Phases]

HandInv == HandTypeOK /\ HandledOnce

LEMMA AtFinite ==
  ASSUME NEW s \in Seq(Clients), NEW c
  PROVE  IsFiniteSet(At(s, c)) /\ Cardinality(At(s, c)) \in Nat
<1>1. IsFiniteSet(1..Len(s))
  BY FS_Interval
<1>2. IsFiniteSet(At(s, c))
  BY <1>1, FS_Subset DEF At
<1> QED BY <1>2, FS_CardinalityType

LEMMA AppendCount ==
  ASSUME NEW s \in Seq(Clients), NEW c \in Clients, NEW d \in Clients
  PROVE  Cardinality(At(Append(s, c), d))
           = IF d = c THEN Cardinality(At(s, d)) + 1 ELSE Cardinality(At(s, d))
<1> DEFINE t == Append(s, c)
<1>1. /\ Len(s) \in Nat /\ Len(t) = Len(s) + 1 /\ t[Len(s) + 1] = c
      /\ \A i \in 1..Len(s) : t[i] = s[i]
  OBVIOUS
<1> HIDE DEF t
<1>2. \A i \in 1..Len(s) + 1 : i \in 1..Len(s) \/ i = Len(s) + 1
  BY <1>1
<1>3. Len(s) + 1 \notin At(s, d) /\ Len(s) + 1 \in 1..Len(s) + 1
      /\ 1..Len(s) \subseteq 1..Len(s) + 1
  BY <1>1 DEF At
<1>4. CASE d = c
  <2>1. At(t, d) = At(s, d) \cup {Len(s) + 1}
    BY <1>1, <1>2, <1>3, <1>4 DEF At
  <2> QED BY <1>3, <1>4, <2>1, AtFinite, FS_AddElement DEF t
<1>5. CASE d # c
  <2>1. At(t, d) = At(s, d)
    BY <1>1, <1>2, <1>3, <1>5 DEF At
  <2> QED BY <1>5, <2>1 DEF t
<1> QED BY <1>4, <1>5

\* The head leaves, and everyone else stays in the queue as often as before; this
\* is about queues that hold nobody twice.
LEMMA TailCount ==
  ASSUME NEW s \in Seq(Clients), s # <<>>, NEW d \in Clients, Cardinality(At(s, d)) <= 1
  PROVE  IF d = Head(s)
           THEN Cardinality(At(s, d)) = 1 /\ Cardinality(At(Tail(s), d)) = 0
           ELSE Cardinality(At(Tail(s), d)) = Cardinality(At(s, d))
<1> DEFINE t == Tail(s)
<1>1. /\ Len(s) \in Nat \ {0} /\ Head(s) = s[1]
      /\ t \in Seq(Clients) /\ Len(t) = Len(s) - 1
      /\ \A i \in 1..Len(s) - 1 : t[i] = s[i + 1]
  OBVIOUS
<1> HIDE DEF t
<1>2. \A i : i \in At(t, d) <=> i \in 1..Len(s) - 1 /\ i + 1 \in At(s, d)
  <2>1. \A i \in 1..Len(s) - 1 : i + 1 \in 1..Len(s)
    BY <1>1
  <2> QED BY <1>1, <2>1 DEF At
<1>3. \/ At(s, d) = {}
      \/ \E k : At(s, d) = {k}
  <2>1. Cardinality(At(s, d)) = 0 \/ Cardinality(At(s, d)) = 1
    BY AtFinite
  <2> QED BY <2>1, AtFinite, FS_EmptySet, FS_Singleton
<1>4. CASE At(s, d) = {}
  <2>1. d # Head(s)
    BY <1>1, <1>4 DEF At
  <2>2. At(t, d) = {}
    BY <1>2, <1>4
  <2> QED BY <1>4, <2>1, <2>2 DEF t
<1>5. ASSUME NEW k, At(s, d) = {k}
      PROVE  IF d = Head(s)
               THEN Cardinality(At(s, d)) = 1 /\ Cardinality(At(t, d)) = 0
               ELSE Cardinality(At(t, d)) = Cardinality(At(s, d))
  <2>1. k \in 1..Len(s) /\ s[k] = d
    BY <1>5 DEF At
  <2>2. Cardinality(At(s, d)) = 1
    BY <1>5, FS_Singleton
  <2>3. CASE k = 1
    <3>1. At(t, d) = {}
      BY <1>1, <1>2, <1>5, <2>3
    <3> QED BY <1>1, <2>1, <2>2, <2>3, <3>1, FS_EmptySet
  <2>4. CASE k # 1
    <3>1. d # Head(s)
      <4>1. 1 \in 1..Len(s) /\ 1 \notin At(s, d)
        BY <1>1, <1>5, <2>4
      <4> QED BY <1>1, <4>1 DEF At
    <3>2. k - 1 \in 1..Len(s) - 1 /\ (k - 1) + 1 = k
      BY <1>1, <2>1, <2>4
    <3>3. \A i \in 1..Len(s) - 1 : i + 1 = k => i = k - 1
      BY <1>1, <2>1
    <3>4. At(t, d) = {k - 1}
      BY <1>2, <1>5, <3>2, <3>3
    <3> QED BY <2>2, <3>1, <3>4, FS_Singleton
  <2> QED BY <2>3, <2>4
<1> QED BY <1>3, <1>4, <1>5 DEF t

LEMMA HandInitially ==
  Init => HandInv
<1> SUFFICES ASSUME Init PROVE HandInv
  OBVIOUS
<1>1. HandTypeOK
  BY DEF Init, Each, HandTypeOK, Phases
<1>2. ASSUME NEW c \in Clients
      PROVE  Cardinality({i \in 1..Len(work) : work[i] = c}) = 0
  <2>1. {i \in 1..Len(work) : work[i] = c} = {}
    BY DEF Init
  <2> QED BY <2>1, FS_EmptySet
<1>3. HandledOnce
  BY <1>2 DEF Init, Each, HandledOnce
<1> QED BY <1>1, <1>3 DEF HandInv

\* HandledOnce, said with At.
LEMMA HandledOnceAt ==
  HandledOnce <=>
    \A c \in Clients :
      /\ readers[c] = 0 => phase[c] \in {"connecting", "accepted"}
      /\ readers[c] + Cardinality(At(work, c)) = IF phase[c] = "connecting" THEN 0 ELSE 1
BY DEF HandledOnce, At

LEMMA HandledOnceAtNext ==
  HandledOnce' <=>
    \A c \in Clients :
      /\ readers'[c] = 0 => phase'[c] \in {"connecting", "accepted"}
      /\ readers'[c] + Cardinality(At(work', c)) = IF phase'[c] = "connecting" THEN 0 ELSE 1
BY DEF HandledOnce, At

LEMMA AcceptOnce ==
  ASSUME HandInv, NEW c \in Clients, Accept(c)
  PROVE  HandInv'
<1>1. /\ phase[c] = "connecting"
      /\ phase' = [phase EXCEPT ![c] = "accepted"]
      /\ work' = Append(work, c)
      /\ readers' = readers
  BY DEF Accept, To
<1>2. HandTypeOK'
  BY <1>1 DEF HandInv, HandTypeOK, Phases
<1>3. \A d \in Clients :
        /\ phase'[d] = IF d = c THEN "accepted" ELSE phase[d]
        /\ Cardinality(At(work', d))
             = IF d = c THEN Cardinality(At(work, d)) + 1 ELSE Cardinality(At(work, d))
        /\ Cardinality(At(work, d)) \in Nat
        /\ readers[d] \in Nat
  BY <1>1, AppendCount, AtFinite DEF HandInv, HandTypeOK
<1>4. HandledOnce'
  BY <1>1, <1>3, HandledOnceAt, HandledOnceAtNext DEF HandInv
<1> QED BY <1>2, <1>4 DEF HandInv

\* The connection at the head of the queue has been accepted and has no reader.
LEMMA HeadUnread ==
  ASSUME HandInv, work # <<>>
  PROVE  /\ Head(work) \in Clients
         /\ phase[Head(work)] = "accepted"
         /\ readers[Head(work)] = 0
         /\ Cardinality(At(work, Head(work))) = 1
<1> DEFINE c == Head(work)
<1>1. c \in Clients
  BY DEF HandInv, HandTypeOK
<1>2. readers[c] \in Nat /\ Cardinality(At(work, c)) \in Nat
  BY <1>1, AtFinite DEF HandInv, HandTypeOK
<1>3. readers[c] + Cardinality(At(work, c)) = IF phase[c] = "connecting" THEN 0 ELSE 1
  BY <1>1, HandledOnceAt DEF HandInv
<1> HIDE DEF c
<1>4. Cardinality(At(work, c)) <= 1
  BY <1>2, <1>3
<1>5. Cardinality(At(work, c)) = 1
  BY <1>1, <1>4, TailCount DEF HandInv, HandTypeOK, c
<1>6. readers[c] = 0 /\ phase[c] # "connecting"
  BY <1>2, <1>3, <1>5
<1>7. phase[c] = "accepted"
  BY <1>1, <1>6, HandledOnceAt DEF HandInv
<1> QED BY <1>1, <1>5, <1>6, <1>7 DEF c

LEMMA StartReadingOnce ==
  ASSUME HandInv, StartReading
  PROVE  HandInv'
<1> DEFINE c == Head(work)
<1>1. work # <<>> /\ work' = Tail(work)
  BY DEF StartReading
<1>2. /\ c \in Clients /\ phase[c] = "accepted" /\ readers[c] = 0
      /\ Cardinality(At(work, c)) = 1
  BY <1>1, HeadUnread
<1>3. readers' = [readers EXCEPT ![c] = readers[c] + 1]
  BY DEF StartReading
<1>4. phase' = [phase EXCEPT ![c] = "reading"]
  BY DEF StartReading, To
<1>5. HandTypeOK'
  <2>1. work' \in Seq(Clients)
    BY <1>1 DEF HandInv, HandTypeOK
  <2>2. readers' \in [Clients -> Nat]
    BY <1>2, <1>3 DEF HandInv, HandTypeOK
  <2>3. phase' \in [Clients -> Phases]
    BY <1>4 DEF HandInv, HandTypeOK, Phases
  <2> QED BY <2>1, <2>2, <2>3 DEF HandTypeOK
<1>6. ASSUME NEW d \in Clients
      PROVE  /\ readers'[d] = 0 => phase'[d] \in {"connecting", "accepted"}
             /\ readers'[d] + Cardinality(At(work', d))
                  = IF phase'[d] = "connecting" THEN 0 ELSE 1
  <2>1. /\ readers[d] \in Nat /\ Cardinality(At(work, d)) \in Nat
        /\ readers[d] + Cardinality(At(work, d)) = IF phase[d] = "connecting" THEN 0 ELSE 1
        /\ readers[d] = 0 => phase[d] \in {"connecting", "accepted"}
    BY AtFinite, HandledOnceAt DEF HandInv, HandTypeOK
  <2>2. Cardinality(At(work, d)) <= 1
    BY <2>1
  <2>3. IF d = c THEN Cardinality(At(work', d)) = 0
                 ELSE Cardinality(At(work', d)) = Cardinality(At(work, d))
    BY <1>1, <2>2, TailCount DEF HandInv, HandTypeOK
  <2>4. CASE d = c
    <3>1. readers'[d] = 1 /\ phase'[d] = "reading"
      BY <1>2, <1>3, <1>4, <2>4 DEF HandInv, HandTypeOK
    <3> QED BY <2>3, <2>4, <3>1
  <2>5. CASE d # c
    <3>1. readers'[d] = readers[d] /\ phase'[d] = phase[d]
      BY <1>3, <1>4, <2>5 DEF HandInv, HandTypeOK
    <3> QED BY <2>1, <2>3, <2>5, <3>1
  <2> QED BY <2>4, <2>5
<1>7. HandledOnce'
  BY <1>6, HandledOnceAtNext
<1> QED BY <1>5, <1>7 DEF HandInv

\* A connection that is being handled stays so.
LEMMA HandleOnce ==
  ASSUME HandInv, NEW c \in Clients, phase[c] \notin {"connecting", "accepted"},
         NEW p \in Phases \ {"connecting", "accepted"}, phase' = [phase EXCEPT ![c] = p],
         UNCHANGED <<work, readers>>
  PROVE  HandInv'
<1>1. HandTypeOK'
  BY DEF HandInv, HandTypeOK
<1>2. \A d \in Clients : phase'[d] = IF d = c THEN p ELSE phase[d]
  BY DEF HandInv, HandTypeOK
<1>3. \A d \in Clients : readers[d] = 0 => phase[d] \in {"connecting", "accepted"}
  BY HandledOnceAt DEF HandInv
<1>4. \A d \in Clients : phase'[d] = "connecting" <=> phase[d] = "connecting"
  BY <1>2
<1>5. \A d \in Clients : readers'[d] = 0 => phase'[d] \in {"connecting", "accepted"}
  BY <1>2, <1>3
<1>6. HandledOnce'
  BY <1>4, <1>5 DEF HandInv, HandledOnce
<1> QED BY <1>1, <1>6 DEF HandInv

LEMMA HandStutters ==
  ASSUME HandInv, UNCHANGED <<work, readers, phase>>
  PROVE  HandInv'
BY DEF HandInv, HandTypeOK, HandledOnce

\* The steps of a connection after its request's reading has begun.
LEMMA Handling ==
  ASSUME NEW c \in Clients, Handle(c) \/ Fail(c)
  PROVE  \/ UNCHANGED <<work, readers, phase>>
         \/ /\ phase[c] \in {"reading", "answered", "local", "remote"}
            /\ \E p \in {"answered", "refused", "local", "remote", "tunnel", "failed"} :
                 phase' = [phase EXCEPT ![c] = p]
            /\ UNCHANGED <<work, readers>>
BY DEF Handle, Fail, ReadRequest, Route, CreateLocal, CreateIp, CreateRemote, To, handling

LEMMA HandStep ==
  HandInv /\ [Next]_vars => HandInv'
<1> SUFFICES ASSUME HandInv, [Next]_vars PROVE HandInv'
  OBVIOUS
<1>1. CASE UNCHANGED vars
  BY <1>1, HandStutters DEF vars, handling
<1>2. CASE StartReading
  BY <1>2, StartReadingOnce
<1>3. ASSUME NEW c \in Clients, Accept(c)
      PROVE  HandInv'
  BY <1>3, AcceptOnce
<1>4. ASSUME NEW c \in Clients, Handle(c) \/ Fail(c)
      PROVE  HandInv'
  <2>1. CASE UNCHANGED <<work, readers, phase>>
    BY <2>1, HandStutters
  <2>2. ASSUME phase[c] \in {"reading", "answered", "local", "remote"},
               NEW p \in {"answered", "refused", "local", "remote", "tunnel", "failed"},
               phase' = [phase EXCEPT ![c] = p],
               UNCHANGED <<work, readers>>
        PROVE  HandInv'
    BY <2>2, HandleOnce DEF Phases
  <2> QED BY <1>4, <2>1, <2>2, Handling
<1>5. ASSUME NEW c \in Clients, NEW d \in Dirs,
             Close(c) \/ PeerSends(c, d) \/ PeerLeaves(c, d) \/ CopyStep(c, d)
      PROVE  HandInv'
  <2>1. UNCHANGED <<work, readers, phase>>
    BY <1>5 DEF Close, PeerSends, PeerLeaves, CopyStep, CopyReads, CopyWrites, CopyEnds,
                CopyFails, handling
  <2> QED BY <2>1, HandStutters
<1>6. Dirs # {}
  BY DEF Dirs
<1> QED BY <1>1, <1>2, <1>3, <1>4, <1>5, <1>6 DEF Next

-----------------------------------------------------------------------------
(* The rule of a host.                                                     *)

\* A set of numbers that has a member has a least one.
LEMMA MinIsLeast ==
  ASSUME NEW I \in SUBSET Nat, I # {}
  PROVE  Min(I) \in I /\ \A i \in I : Min(I) <= i
<1>1. PICK m \in I : \A i \in I : ~ (<<i, m>> \in OpToRel(<, Nat))
  BY NatLessThanWellFounded, WFMin
<1>2. \A i \in I : m <= i
  <2> SUFFICES ASSUME NEW i \in I, i < m
               PROVE  FALSE
    OBVIOUS
  <2>1. <<i, m>> \in Nat \X Nat /\ <<i, m>>[1] < <<i, m>>[2]
    OBVIOUS
  <2>2. <<i, m>> \in OpToRel(<, Nat)
    BY <2>1 DEF OpToRel
  <2> QED BY <1>1, <2>2
<1>3. \E x \in I : \A y \in I : x =< y
  BY <1>2
<1> QED BY <1>3 DEF Min

\* The ends of a host are what follows one of its dots, and itself.
LEMMA SuffixIsEnd ==
  ASSUME NEW r \in Seq(STRING), r # <<>>, NEW h \in Seq(STRING)
  PROVE  IsSuffix(r, h) <=> \E i \in 1..Len(h) : r = SubSeq(h, i, Len(h))
<1>1. Len(r) \in Nat \ {0} /\ Len(h) \in Nat
  BY EmptySeq
<1> DEFINE R == Reverse(r)
           H == Reverse(h)
<1>2. /\ R \in Seq(STRING) /\ Len(R) = Len(r)
      /\ \A j \in 1..Len(r) : R[j] = r[(Len(r) - j) + 1]
  <2>1. \A j \in 1..Len(r) : (Len(r) - j) + 1 \in 1..Len(r)
    BY <1>1
  <2>2. \A j \in 1..Len(r) : r[(Len(r) - j) + 1] \in STRING
    BY <2>1, ElementOfSeq
  <2> QED BY <1>1, <2>2 DEF Reverse
<1>3. /\ H \in Seq(STRING) /\ Len(H) = Len(h)
      /\ \A j \in 1..Len(h) : H[j] = h[(Len(h) - j) + 1]
  <2>1. \A j \in 1..Len(h) : (Len(h) - j) + 1 \in 1..Len(h)
    BY <1>1
  <2>2. \A j \in 1..Len(h) : h[(Len(h) - j) + 1] \in STRING
    BY <2>1, ElementOfSeq
  <2> QED BY <1>1, <2>2 DEF Reverse
<1> HIDE DEF R, H
<1>4. IsSuffix(r, h) <=>
        Len(r) <= Len(h) /\ \A j \in 1..Len(r) : r[(Len(r) - j) + 1] = h[(Len(h) - j) + 1]
  <2>1. CASE Len(r) <= Len(h)
    <3>1. SubSeq(R, 1, Len(R)) = R
      BY <1>2, SubSeqFull
    <3>2. /\ SubSeq(H, 1, Len(r)) \in Seq(STRING)
          /\ Len(SubSeq(H, 1, Len(r))) = Len(r)
          /\ \A j \in 1..Len(r) : SubSeq(H, 1, Len(r))[j] = H[j]
      <4>1. \A j \in 1..Len(r) : H[j] \in STRING
        BY <1>1, <1>3, <2>1, ElementOfSeq
      <4> QED BY <1>1, <4>1, SubSeqProperties
    <3>3. R = SubSeq(H, 1, Len(r)) <=> \A j \in 1..Len(r) : R[j] = H[j]
      BY <1>2, <3>2, SeqEqual
    <3>4. \A j \in 1..Len(r) : H[j] = h[(Len(h) - j) + 1]
      BY <1>1, <1>3, <2>1
    <3>5. IsPrefix(R, H) <=> R = SubSeq(H, 1, Len(r))
      BY <1>2, <1>3, <2>1, <3>1 DEF IsPrefix
    <3> QED BY <1>2, <2>1, <3>3, <3>4, <3>5 DEF IsSuffix, R, H
  <2>2. CASE ~(Len(r) <= Len(h))
    BY <1>2, <1>3, <2>2 DEF IsSuffix, IsPrefix, R, H
  <2> QED BY <2>1, <2>2
<1>5. ASSUME NEW i \in 1..Len(h)
      PROVE  /\ SubSeq(h, i, Len(h)) \in Seq(STRING)
             /\ Len(SubSeq(h, i, Len(h))) = Len(h) - i + 1
             /\ \A k \in 1..Len(h) - i + 1 : SubSeq(h, i, Len(h))[k] = h[i + k - 1]
  <2>1. \A k \in i..Len(h) : h[k] \in STRING
    BY <1>1, ElementOfSeq
  <2> QED BY <1>1, <2>1, SubSeqProperties
<1>6. ASSUME NEW i \in 1..Len(h), r = SubSeq(h, i, Len(h))
      PROVE  IsSuffix(r, h)
  <2>1. Len(r) = Len(h) - i + 1 /\ \A k \in 1..Len(r) : r[k] = h[i + k - 1]
    BY <1>5, <1>6
  <2>2. ASSUME NEW j \in 1..Len(r)
        PROVE  r[(Len(r) - j) + 1] = h[(Len(h) - j) + 1]
    <3>1. (Len(r) - j) + 1 \in 1..Len(r) /\ i + ((Len(r) - j) + 1) - 1 = (Len(h) - j) + 1
      BY <1>1, <2>1
    <3> QED BY <2>1, <3>1
  <2> QED BY <1>1, <1>4, <2>1, <2>2
<1>7. ASSUME IsSuffix(r, h)
      PROVE  \E i \in 1..Len(h) : r = SubSeq(h, i, Len(h))
  <2> DEFINE i == Len(h) - Len(r) + 1
  <2>1. i \in 1..Len(h) /\ Len(h) - i + 1 = Len(r)
    BY <1>1, <1>4, <1>7
  <2>2. ASSUME NEW k \in 1..Len(r)
        PROVE  r[k] = h[i + k - 1]
    <3>1. /\ Len(r) - k + 1 \in 1..Len(r)
          /\ (Len(r) - (Len(r) - k + 1)) + 1 = k
          /\ (Len(h) - (Len(r) - k + 1)) + 1 = i + k - 1
      BY <1>1
    <3> QED BY <1>4, <1>7, <3>1
  <2>3. r = SubSeq(h, i, Len(h))
    <3> HIDE DEF i
    <3> QED BY <1>5, <2>1, <2>2, SeqEqual
  <2> QED BY <2>1, <2>3
<1> QED BY <1>6, <1>7

\* Get gives the longest of the registered names that end the host.
LEMMA GetLongest ==
  ASSUME NEW h \in Seq(STRING)
  PROVE  LET fitting == {r \in Rules : IsSuffix(r, h)} IN
           IF fitting = {} THEN Get(h) = Default
           ELSE Get(h) \in fitting /\ \A r \in fitting : Len(r) <= Len(Get(h))
<1> DEFINE E == CreateHostEnum(h)
           I == {i \in 1..Len(E) : E[i] \in Rules}
           fitting == {r \in Rules : IsSuffix(r, h)}
<1>1. Len(h) \in Nat
  OBVIOUS
<1>2. Len(E) = Len(h) /\ \A i \in 1..Len(h) : E[i] = SubSeq(h, i, Len(h))
  BY <1>1 DEF CreateHostEnum
<1>3. ASSUME NEW i \in 1..Len(h)
      PROVE  Len(E[i]) = Len(h) - i + 1
  <2>1. \A k \in i..Len(h) : h[k] \in STRING
    BY <1>1, ElementOfSeq
  <2>2. Len(SubSeq(h, i, Len(h))) = Len(h) - i + 1
    BY <1>1, <2>1, SubSeqProperties
  <2> QED BY <1>2, <2>2
<1>4. Get(h) = IF (IF I # {} THEN Min(I) ELSE 0) = 0 THEN Default ELSE E[Min(I)]
  BY DEF Get, SelectInSeq
<1>5. ASSUME NEW r \in Rules
      PROVE  r \in fitting <=> \E i \in 1..Len(h) : r = E[i]
  <2>1. r \in Seq(STRING) /\ r # <<>>
    BY TunnelAssumption
  <2>2. IsSuffix(r, h) <=> \E i \in 1..Len(h) : r = SubSeq(h, i, Len(h))
    BY <2>1, SuffixIsEnd
  <2>3. (\E i \in 1..Len(h) : r = SubSeq(h, i, Len(h))) <=> \E i \in 1..Len(h) : r = E[i]
    BY <1>2
  <2> QED BY <2>2, <2>3
<1> HIDE DEF E
<1>6. fitting = {} <=> I = {}
  BY <1>2, <1>5
<1>7. CASE I = {}
  BY <1>4, <1>6, <1>7
<1>8. CASE I # {}
  <2>1. I \in SUBSET Nat
    BY <1>1, <1>2
  <2>2. Min(I) \in I /\ \A i \in I : Min(I) <= i
    BY <1>8, <2>1, MinIsLeast
  <2>3. Min(I) \in 1..Len(h) /\ E[Min(I)] \in Rules
    BY <1>2, <2>2
  <2>4. Get(h) = E[Min(I)]
    BY <1>4, <1>8, <2>3
  <2>5. Get(h) \in fitting
    BY <1>5, <2>3, <2>4
  <2>6. ASSUME NEW r \in fitting
        PROVE  Len(r) <= Len(Get(h))
    <3>1. PICK i \in 1..Len(h) : r = E[i]
      BY <1>5
    <3>2. i \in I /\ Min(I) <= i
      BY <1>2, <2>2, <3>1
    <3> QED BY <1>1, <1>3, <2>3, <2>4, <3>1, <3>2
  <2> QED BY <1>6, <1>8, <2>5, <2>6
<1> QED BY <1>7, <1>8

\* What makes LongestRule inductive: the rule was chosen for the host.
RuleInv ==
  /\ host \in [Clients -> Hosts \cup {NoHost}]
  /\ rule \in [Clients -> Rules \cup {Default}]
  /\ phase \in [Clients -> Phases]
  /\ \A c \in Clients :
       phase[c] \in {"refused", "local", "remote", "tunnel"} => rule[c] = Get(host[c])

LEMMA HostIsName ==
  ASSUME RuleInv, NEW c \in Clients
  PROVE  /\ host[c] \in Seq(STRING)
         /\ Get(host[c]) \in Rules \cup {Default}
<1>1. host[c] \in Seq(STRING)
  <2>1. host[c] \in Hosts \/ host[c] = <<>>
    BY DEF RuleInv, NoHost
  <2>2. <<>> \in Seq(STRING)
    BY EmptySeq
  <2> QED BY <2>1, <2>2, TunnelAssumption
<1>2. Get(host[c]) = Default \/ Get(host[c]) \in Rules
  BY <1>1, GetLongest
<1> QED BY <1>1, <1>2

LEMMA RuleInitially ==
  Init => RuleInv
BY DEF Init, Each, RuleInv, Phases

LEMMA RuleStutters ==
  ASSUME RuleInv, UNCHANGED <<phase, host, rule>>
  PROVE  RuleInv'
BY DEF RuleInv

\* A step to another phase that leaves host and rule alone.
LEMMA RuleStays ==
  ASSUME RuleInv, NEW c \in Clients, NEW p \in Phases,
         phase[c] \in {"refused", "local", "remote", "tunnel"} \/ p \notin {"refused", "local", "remote", "tunnel"},
         phase' = [phase EXCEPT ![c] = p], UNCHANGED <<host, rule>>
  PROVE  RuleInv'
<1>1. phase' \in [Clients -> Phases] /\ \A d \in Clients : phase'[d] = IF d = c THEN p ELSE phase[d]
  BY DEF RuleInv
<1> QED BY <1>1 DEF RuleInv

LEMMA RouteChooses ==
  ASSUME RuleInv, NEW c \in Clients, Route(c)
  PROVE  RuleInv'
<1>1. /\ rule' = [rule EXCEPT ![c] = Get(host[c])]
      /\ host' = host
      /\ \E p \in Phases : phase' = [phase EXCEPT ![c] = p]
  BY DEF Route, To, Phases
<1>2. rule' \in [Clients -> Rules \cup {Default}]
  BY <1>1, HostIsName DEF RuleInv
<1>3. \A d \in Clients :
        /\ rule'[d] = IF d = c THEN Get(host[c]) ELSE rule[d]
        /\ d # c => phase'[d] = phase[d]
  BY <1>1 DEF RuleInv
<1>4. phase' \in [Clients -> Phases]
  BY <1>1 DEF RuleInv
<1> QED BY <1>1, <1>2, <1>3, <1>4 DEF RuleInv

LEMMA RuleStep ==
  RuleInv /\ [Next]_vars => RuleInv'
<1> SUFFICES ASSUME RuleInv, [Next]_vars PROVE RuleInv'
  OBVIOUS
<1>1. CASE UNCHANGED vars
  BY <1>1, RuleStutters DEF vars, handling
<1>2. CASE StartReading
  <2>1. phase' = [phase EXCEPT ![Head(work)] = "reading"] /\ UNCHANGED <<host, rule>>
    BY <1>2 DEF StartReading, To
  <2>2. CASE Head(work) \in Clients
    BY <2>1, <2>2, RuleStays DEF Phases
  <2>3. CASE Head(work) \notin Clients
    <3>1. phase' = phase
      BY <2>1, <2>3 DEF RuleInv
    <3> QED BY <2>1, <3>1, RuleStutters
  <2> QED BY <2>2, <2>3
<1>3. ASSUME NEW c \in Clients, NEW h \in Hosts, ReadRequest(c, h)
      PROVE  RuleInv'
  <2>1. /\ phase' = [phase EXCEPT ![c] = "answered"]
        /\ host' = [host EXCEPT ![c] = h] /\ rule' = rule
    BY <1>3 DEF ReadRequest, To
  <2>2. \A d \in Clients :
          /\ phase'[d] = IF d = c THEN "answered" ELSE phase[d]
          /\ d # c => host'[d] = host[d]
    BY <2>1 DEF RuleInv
  <2>3. phase' \in [Clients -> Phases] /\ host' \in [Clients -> Hosts \cup {NoHost}]
    BY <2>1 DEF RuleInv, Phases
  <2> QED BY <2>1, <2>2, <2>3 DEF RuleInv
<1>4. ASSUME NEW c \in Clients, Route(c)
      PROVE  RuleInv'
  BY <1>4, RouteChooses
<1>5. ASSUME NEW c \in Clients, Accept(c) \/ CreateLocal(c) \/ CreateRemote(c) \/ Fail(c)
      PROVE  RuleInv'
  <2>1. UNCHANGED <<host, rule>>
    BY <1>5 DEF Accept, CreateLocal, CreateRemote, Fail
  <2>2. PICK p \in {"accepted", "remote", "tunnel", "failed"} :
          /\ phase' = [phase EXCEPT ![c] = p]
          /\ p \in {"remote", "tunnel"} => phase[c] \in {"local", "remote"}
    BY <1>5 DEF Accept, CreateLocal, CreateRemote, Fail, To
  <2> QED BY <2>1, <2>2, RuleStays DEF Phases
<1>6. ASSUME NEW c \in Clients, NEW d \in Dirs,
             CreateIp(c) \/ Close(c) \/ PeerSends(c, d) \/ PeerLeaves(c, d) \/ CopyStep(c, d)
      PROVE  RuleInv'
  <2>1. UNCHANGED <<phase, host, rule>>
    BY <1>6 DEF CreateIp, Close, PeerSends, PeerLeaves, CopyStep, CopyReads, CopyWrites,
                CopyEnds, CopyFails, handling
  <2> QED BY <2>1, RuleStutters
<1>7. Dirs # {}
  BY DEF Dirs
<1> QED BY <1>1, <1>2, <1>3, <1>4, <1>5, <1>6, <1>7 DEF Next, Handle

\* For any connections, registered names and hosts, a connection's request is read once,
\* and it is given to the action of the longest registered name that ends its host
\* (ForwardTunnelRequest.Builder.Get, ReadConnectRequest).
THEOREM RequestsAlwaysRight == Spec => []RequestsRight
<1>1. RuleInv => LongestRule
  <2> SUFFICES ASSUME RuleInv, NEW c \in Clients,
                      phase[c] \in {"refused", "local", "remote", "tunnel"}
               PROVE  LET fitting == {r \in Rules : IsSuffix(r, host[c])} IN
                        IF fitting = {} THEN rule[c] = Default
                        ELSE rule[c] \in fitting /\ \A r \in fitting : Len(r) <= Len(rule[c])
    BY DEF LongestRule
  <2>1. rule[c] = Get(host[c]) /\ host[c] \in Seq(STRING)
    BY HostIsName DEF RuleInv
  <2> QED BY <2>1, GetLongest
<1>2. HandInv => HandledOnce
  BY DEF HandInv
<1>3. HandInv /\ RuleInv => RequestsRight
  BY <1>1, <1>2 DEF RequestsRight
<1> QED BY HandInitially, HandStep, RuleInitially, RuleStep, <1>3, PTL DEF Spec

-----------------------------------------------------------------------------
(* The bytes of a tunnel.                                                  *)

\* The beginning of a run is a run.
LEMMA RunFront ==
  ASSUME NEW s \in Seq(Nat), NEW t \in Seq(Nat), NEW n \in Nat, s \o t = Run(n)
  PROVE  s = Run(Len(s))
<1>1. Len(s) \in Nat /\ Len(t) \in Nat
  OBVIOUS
<1>2. Len(s \o t) = Len(s) + Len(t) /\ \A i \in 1..Len(s) : (s \o t)[i] = s[i]
  BY <1>1
<1>3. Len(Run(n)) = n /\ \A i \in 1..n : Run(n)[i] = i
  BY DEF Run
<1>4. \A i \in 1..Len(s) : s[i] = i
  BY <1>1, <1>2, <1>3
<1>5. s = [i \in 1..Len(s) |-> s[i]]
  OBVIOUS
<1> QED BY <1>4, <1>5 DEF Run

LEMMA BytesAssociative ==
  \A s, t, u \in Seq(Nat) : (s \o t) \o u = s \o (t \o u)
BY ConcatAssociative

Streams == [Clients -> [Dirs -> Seq(Nat)]]
CopyStates == {"none", "reading", "writing", "ended", "failed"}

BytesTypeOK ==
  /\ phase \in [Clients -> Phases]
  /\ copy \in [Clients -> [Dirs -> CopyStates]]
  /\ sent \in [Clients -> [Dirs -> Nat]]
  /\ wire \in Streams
  /\ chunk \in Streams
  /\ got \in Streams

\* What makes TunnelInOrder inductive: bytes are in a copy's hands only between its
\* read and its write, and no copy has begun before the tunnel.
HandsInCopy ==
  \A c \in Clients, d \in Dirs :
    /\ copy[c][d] # "writing" => chunk[c][d] = <<>>
    /\ copy[c][d] # "none" => phase[c] = "tunnel"

\* Up to a failure all that was sent has arrived or is on its way.
InFlow ==
  \A c \in Clients, d \in Dirs :
    copy[c][d] # "failed" =>
      got[c][d] \o chunk[c][d] \o wire[c][d] = Run(sent[c][d])

BytesInv == BytesTypeOK /\ HandsInCopy /\ InFlow

LEMMA BytesInitially ==
  Init => BytesInv
<1> SUFFICES ASSUME Init PROVE BytesInv
  OBVIOUS
<1>1. <<>> \in Seq(Nat)
  OBVIOUS
<1>2. BytesTypeOK
  BY <1>1 DEF Init, Each, Both, BytesTypeOK, Phases, Streams, CopyStates
<1>3. HandsInCopy
  BY DEF Init, Each, Both, HandsInCopy
<1>4. <<>> \o <<>> \o <<>> = Run(0)
  BY DEF Run
<1>5. InFlow
  BY <1>4 DEF Init, Each, Both, InFlow
<1> QED BY <1>2, <1>3, <1>5 DEF BytesInv

LEMMA BytesStutter ==
  ASSUME BytesInv, UNCHANGED <<phase, copy, sent, wire, chunk, got>>
  PROVE  BytesInv'
BY DEF BytesInv, BytesTypeOK, HandsInCopy, InFlow

\* A step to another phase, of a connection that has no tunnel.
LEMMA BytesWait ==
  ASSUME BytesInv, NEW c \in Clients, phase[c] # "tunnel",
         NEW p \in Phases \ {"connecting"}, phase' = [phase EXCEPT ![c] = p],
         UNCHANGED <<copy, sent, wire, chunk, got>>
  PROVE  BytesInv'
<1>1. BytesTypeOK'
  BY DEF BytesInv, BytesTypeOK
<1>2. HandsInCopy'
  BY DEF BytesInv, BytesTypeOK, HandsInCopy
<1> QED BY <1>1, <1>2 DEF BytesInv, InFlow

LEMMA CreateRemoteInOrder ==
  ASSUME BytesInv, NEW c \in Clients, CreateRemote(c)
  PROVE  BytesInv'
<1>1. /\ phase[c] = "remote"
      /\ phase' = [phase EXCEPT ![c] = "tunnel"]
      /\ copy' = [copy EXCEPT ![c] = [d \in Dirs |-> "reading"]]
      /\ UNCHANGED <<sent, wire, chunk, got>>
  BY DEF CreateRemote, To, peers
<1>2. BytesTypeOK'
  BY <1>1 DEF BytesInv, BytesTypeOK, CopyStates, Phases
<1>3. \A d \in Dirs : copy[c][d] = "none"
  BY <1>1 DEF BytesInv, HandsInCopy
<1>4. \A b \in Clients, d \in Dirs :
        /\ b = c => copy'[b][d] = "reading" /\ phase'[b] = "tunnel"
        /\ b # c => copy'[b][d] = copy[b][d] /\ phase'[b] = phase[b]
  BY <1>1 DEF BytesInv, BytesTypeOK
<1>5. HandsInCopy'
  BY <1>1, <1>3, <1>4 DEF BytesInv, HandsInCopy
<1>6. \A b \in Clients, d \in Dirs : copy'[b][d] # "failed" => copy[b][d] # "failed"
  BY <1>3, <1>4
<1>7. InFlow
  BY DEF BytesInv
<1>8. InFlow'
  BY <1>1, <1>6, <1>7, Zenon DEF InFlow
<1> QED BY <1>2, <1>5, <1>8 DEF BytesInv

\* The next byte goes behind what is on its way.
LEMMA PeerSendsInOrder ==
  ASSUME BytesInv, NEW c \in Clients, NEW d \in Dirs, PeerSends(c, d)
  PROVE  BytesInv'
<1> DEFINE n == sent[c][d] + 1
<1>1. /\ n \in Nat
      /\ got[c][d] \in Seq(Nat) /\ chunk[c][d] \in Seq(Nat) /\ wire[c][d] \in Seq(Nat)
  BY DEF BytesInv, BytesTypeOK, Streams
<1>2. /\ sent' = [sent EXCEPT ![c][d] = n]
      /\ UNCHANGED <<phase, copy, chunk, got>>
  BY DEF PeerSends, handling, copying
<1>3. wire' = [wire EXCEPT ![c][d] = Append(wire[c][d], n)]
  <2>1. sent'[c][d] = n
    BY <1>2 DEF BytesInv, BytesTypeOK
  <2> QED BY <2>1 DEF PeerSends
<1> HIDE DEF n
<1>4. Append(wire[c][d], n) \in Seq(Nat)
  BY <1>1
<1>5. BytesTypeOK'
  BY <1>1, <1>2, <1>3, <1>4 DEF BytesInv, BytesTypeOK, Streams
<1>6. HandsInCopy'
  BY <1>2 DEF BytesInv, HandsInCopy
<1>7. ASSUME copy[c][d] # "failed"
      PROVE  got[c][d] \o chunk[c][d] \o Append(wire[c][d], n) = Run(n)
  <2> DEFINE a == got[c][d] \o chunk[c][d]
             b == Run(sent[c][d])
  <2>1. a \in Seq(Nat)
    BY <1>1
  <2>2. a \o wire[c][d] = b
    BY <1>7 DEF BytesInv, InFlow
  <2> HIDE DEF a
  <2>3. a \o Append(wire[c][d], n) = Append(a \o wire[c][d], n)
    BY <1>1, <2>1
  <2>4. Append(b, n) = Run(n)
    <3>1. sent[c][d] \in Nat
      BY DEF BytesInv, BytesTypeOK
    <3>2. b \in Seq(Nat) /\ Len(b) = sent[c][d]
      BY <3>1 DEF Run
    <3> QED BY <3>1, <3>2 DEF n, Run
  <2> QED BY <2>2, <2>3, <2>4 DEF a
<1>8. InFlow'
  <2> SUFFICES ASSUME NEW b \in Clients, NEW e \in Dirs, copy[b][e] # "failed"
               PROVE  got'[b][e] \o chunk'[b][e] \o wire'[b][e] = Run(sent'[b][e])
    BY <1>2 DEF InFlow
  <2>1. CASE b = c /\ e = d
    <3>1. sent'[b][e] = n /\ wire'[b][e] = Append(wire[c][d], n)
      BY <1>2, <1>3, <2>1 DEF BytesInv, BytesTypeOK, Streams
    <3> QED BY <1>2, <1>7, <2>1, <3>1
  <2>2. CASE b # c \/ e # d
    <3>1. sent'[b][e] = sent[b][e] /\ wire'[b][e] = wire[b][e]
      BY <1>2, <1>3, <2>2 DEF BytesInv, BytesTypeOK, Streams
    <3> QED BY <1>2, <3>1 DEF BytesInv, InFlow
  <2> QED BY <2>1, <2>2
<1> QED BY <1>5, <1>6, <1>8 DEF BytesInv

\* What is read is the beginning of what was on the wire.
LEMMA CopyReadsInOrder ==
  ASSUME BytesInv, NEW c \in Clients, NEW d \in Dirs, CopyReads(c, d)
  PROVE  BytesInv'
<1> DEFINE w == wire[c][d]
<1>1. PICK n \in 1..Len(w) :
        /\ chunk' = [chunk EXCEPT ![c][d] = SubSeq(w, 1, n)]
        /\ wire' = [wire EXCEPT ![c][d] = SubSeq(@, n + 1, Len(@))]
  BY DEF CopyReads
<1> DEFINE front == SubSeq(w, 1, n)
           rear == SubSeq(w, n + 1, Len(w))
<1>2. /\ copy[c][d] = "reading"
      /\ copy' = [copy EXCEPT ![c][d] = "writing"]
      /\ UNCHANGED <<phase, sent, got>>
  BY DEF CopyReads, handling, peers
<1>3. /\ got[c][d] \in Seq(Nat) /\ w \in Seq(Nat) /\ chunk[c][d] = <<>>
  BY <1>2 DEF BytesInv, BytesTypeOK, Streams, HandsInCopy
<1>4. wire' = [wire EXCEPT ![c][d] = rear]
  BY <1>1
<1>5. /\ front \in Seq(Nat) /\ rear \in Seq(Nat)
      /\ front \o rear = w
  <2>1. Len(w) \in Nat
    BY <1>3
  <2>2. front \in Seq(Nat) /\ rear \in Seq(Nat)
    BY <1>3, <2>1
  <2>3. /\ 1 \in 1..Len(w) + 1 /\ n \in 1 - 1..Len(w) /\ Len(w) \in n..Len(w)
    BY <2>1
  <2>4. SubSeq(w, 1, n) \o SubSeq(w, n + 1, Len(w)) = SubSeq(w, 1, Len(w))
    BY <1>3, <2>3, ConcatAdjacentSubSeq
  <2>5. SubSeq(w, 1, Len(w)) = w
    BY <1>3, SubSeqFull
  <2> QED BY <2>2, <2>4, <2>5
<1>6. chunk' = [chunk EXCEPT ![c][d] = front]
  BY <1>1
<1> HIDE DEF w, front, rear
<1>7. BytesTypeOK'
  BY <1>2, <1>4, <1>5, <1>6 DEF BytesInv, BytesTypeOK, Streams, CopyStates
<1>8. \A b \in Clients, e \in Dirs :
        IF b = c /\ e = d
          THEN /\ copy'[b][e] = "writing" /\ chunk'[b][e] = front /\ wire'[b][e] = rear
          ELSE /\ copy'[b][e] = copy[b][e] /\ chunk'[b][e] = chunk[b][e]
               /\ wire'[b][e] = wire[b][e]
  BY <1>2, <1>4, <1>6 DEF BytesInv, BytesTypeOK, Streams
<1>9. HandsInCopy'
  BY <1>2, <1>8 DEF BytesInv, HandsInCopy
<1>10. got[c][d] \o front \o rear = got[c][d] \o chunk[c][d] \o w
  <2>1. got[c][d] \o front \o rear = got[c][d] \o (front \o rear)
    BY <1>3, <1>5, BytesAssociative
  <2>2. got[c][d] \o <<>> = got[c][d]
    BY <1>3, ConcatEmptySeq
  <2> QED BY <1>3, <1>5, <2>1, <2>2
<1>11. InFlow'
  <2> SUFFICES ASSUME NEW b \in Clients, NEW e \in Dirs, copy'[b][e] # "failed"
               PROVE  /\ got[b][e] \o chunk'[b][e] \o wire'[b][e]
                           = got[b][e] \o chunk[b][e] \o wire[b][e]
                      /\ copy[b][e] # "failed"
    BY <1>2 DEF BytesInv, InFlow
  <2>1. CASE b = c /\ e = d
    BY <1>2, <1>8, <1>10, <2>1 DEF w
  <2>2. CASE ~(b = c /\ e = d)
    BY <1>8, <2>2
  <2> QED BY <2>1, <2>2
<1> QED BY <1>7, <1>9, <1>11 DEF BytesInv

\* What was read is written behind what was written before.
LEMMA CopyWritesInOrder ==
  ASSUME BytesInv, NEW c \in Clients, NEW d \in Dirs, CopyWrites(c, d)
  PROVE  BytesInv'
<1>1. /\ copy[c][d] = "writing"
      /\ chunk' = [chunk EXCEPT ![c][d] = <<>>]
      /\ copy' = [copy EXCEPT ![c][d] = "reading"]
      /\ UNCHANGED <<phase, sent, wire>>
  BY DEF CopyWrites, handling, peers
<1> DEFINE g == got[c][d] \o chunk[c][d]
<1>2. g \in Seq(Nat) /\ <<>> \in Seq(Nat)
  BY DEF BytesInv, BytesTypeOK, Streams
<1>3. got' = [got EXCEPT ![c][d] = g]
  BY DEF CopyWrites
<1>4. g \o <<>> = g
  BY <1>2, ConcatEmptySeq
<1>5. g \o wire[c][d] = Run(sent[c][d])
  BY <1>1 DEF BytesInv, InFlow
<1> HIDE DEF g
<1>6. BytesTypeOK'
  BY <1>1, <1>2, <1>3 DEF BytesInv, BytesTypeOK, Streams, CopyStates
<1>7. \A b \in Clients, e \in Dirs :
        IF b = c /\ e = d
          THEN /\ copy'[b][e] = "reading" /\ chunk'[b][e] = <<>> /\ got'[b][e] = g
          ELSE /\ copy'[b][e] = copy[b][e] /\ chunk'[b][e] = chunk[b][e]
               /\ got'[b][e] = got[b][e]
  BY <1>1, <1>3 DEF BytesInv, BytesTypeOK, Streams
<1>8. HandsInCopy'
  BY <1>1, <1>7 DEF BytesInv, HandsInCopy
<1>9. InFlow'
  <2> SUFFICES ASSUME NEW b \in Clients, NEW e \in Dirs, copy'[b][e] # "failed"
               PROVE  /\ got'[b][e] \o chunk'[b][e] \o wire[b][e]
                           = got[b][e] \o chunk[b][e] \o wire[b][e]
                      /\ copy[b][e] # "failed"
    BY <1>1 DEF BytesInv, InFlow
  <2>1. CASE b = c /\ e = d
    BY <1>1, <1>4, <1>7, <2>1 DEF g
  <2>2. CASE ~(b = c /\ e = d)
    BY <1>7, <2>2
  <2> QED BY <2>1, <2>2
<1> QED BY <1>6, <1>8, <1>9 DEF BytesInv

\* A copy that ends has no bytes in its buffer, and one that fails has them no more.
LEMMA CopyOverInOrder ==
  ASSUME BytesInv, NEW c \in Clients, NEW d \in Dirs, CopyEnds(c, d) \/ CopyFails(c, d)
  PROVE  BytesInv'
<1>1. PICK s \in {"ended", "failed"} : copy' = [copy EXCEPT ![c][d] = s]
  BY DEF CopyEnds, CopyFails
<1>2. copy[c][d] \in {"reading", "writing"} /\ UNCHANGED <<phase, sent, wire, got>>
  BY DEF CopyEnds, CopyFails, handling, peers
<1>3. \A b \in Clients, e \in Dirs :
        copy'[b][e] = IF b = c /\ e = d THEN s ELSE copy[b][e]
  BY <1>1 DEF BytesInv, BytesTypeOK
<1>4. chunk' = [chunk EXCEPT ![c][d] = <<>>]
  <2>1. CASE CopyFails(c, d)
    BY <2>1 DEF CopyFails
  <2>2. CASE CopyEnds(c, d)
    <3>1. chunk[c][d] = <<>> /\ chunk' = chunk
      BY <2>2 DEF CopyEnds, BytesInv, HandsInCopy
    <3> QED BY <3>1 DEF BytesInv, BytesTypeOK, Streams
  <2> QED BY <2>1, <2>2
<1>5. \A b \in Clients, e \in Dirs :
        chunk'[b][e] = IF b = c /\ e = d THEN <<>> ELSE chunk[b][e]
  BY <1>4 DEF BytesInv, BytesTypeOK, Streams
<1>6. BytesTypeOK'
  <2>1. <<>> \in Seq(Nat)
    OBVIOUS
  <2> QED BY <1>1, <1>2, <1>4, <2>1 DEF BytesInv, BytesTypeOK, CopyStates, Streams
<1>7. HandsInCopy'
  BY <1>2, <1>3, <1>5 DEF BytesInv, HandsInCopy
<1>8. s = "ended" => CopyEnds(c, d)
  <2>1. CASE CopyEnds(c, d)
    BY <2>1
  <2>2. CASE CopyFails(c, d)
    BY <1>1, <1>3, <2>2 DEF CopyFails, BytesInv, BytesTypeOK
  <2> QED BY <2>1, <2>2
<1>9. s = "ended" => chunk[c][d] = <<>> /\ copy[c][d] # "failed"
  BY <1>8 DEF CopyEnds, BytesInv, HandsInCopy
<1>10. \A b \in Clients, e \in Dirs :
         copy'[b][e] # "failed" => copy[b][e] # "failed" /\ chunk'[b][e] = chunk[b][e]
  <2> SUFFICES ASSUME NEW b \in Clients, NEW e \in Dirs, copy'[b][e] # "failed"
               PROVE  copy[b][e] # "failed" /\ chunk'[b][e] = chunk[b][e]
    OBVIOUS
  <2>1. CASE b = c /\ e = d
    BY <1>1, <1>3, <1>5, <1>9, <2>1
  <2>2. CASE ~(b = c /\ e = d)
    BY <1>3, <1>5, <2>2
  <2> QED BY <2>1, <2>2
<1>11. InFlow
  BY DEF BytesInv
<1>12. InFlow'
  BY <1>2, <1>10, <1>11, Zenon DEF InFlow
<1> QED BY <1>6, <1>7, <1>12 DEF BytesInv

LEMMA BytesStep ==
  HandInv /\ BytesInv /\ [Next]_vars => BytesInv'
<1> SUFFICES ASSUME HandInv, BytesInv, [Next]_vars PROVE BytesInv'
  OBVIOUS
<1>1. CASE UNCHANGED vars
  BY <1>1, BytesStutter DEF vars, handling, peers, copying
<1>2. CASE StartReading
  <2>1. /\ Head(work) \in Clients /\ phase[Head(work)] = "accepted"
        /\ phase' = [phase EXCEPT ![Head(work)] = "reading"]
    BY <1>2, HeadUnread DEF StartReading, To
  <2>2. UNCHANGED <<copy, sent, wire, chunk, got>>
    BY <1>2 DEF StartReading, peers, copying
  <2> QED BY <2>1, <2>2, BytesWait DEF Phases
<1>3. ASSUME NEW c \in Clients, CreateRemote(c)
      PROVE  BytesInv'
  BY <1>3, CreateRemoteInOrder
<1>4. ASSUME NEW c \in Clients, NEW q \in {"connecting", "reading", "answered", "local", "remote"},
             phase[c] = q,
             NEW p \in Phases \ {"connecting", "tunnel"},
             phase' = [phase EXCEPT ![c] = p],
             UNCHANGED <<copy, sent, wire, chunk, got>>
      PROVE  BytesInv'
  BY <1>4, BytesWait
<1>5. ASSUME NEW c \in Clients, Accept(c)
      PROVE  BytesInv'
  BY <1>4, <1>5 DEF Accept, To, peers, copying, Phases
<1>6. ASSUME NEW c \in Clients, NEW h \in Hosts, ReadRequest(c, h)
      PROVE  BytesInv'
  BY <1>4, <1>6 DEF ReadRequest, To, peers, copying, Phases
<1>7. ASSUME NEW c \in Clients, Route(c)
      PROVE  BytesInv'
  BY <1>4, <1>7 DEF Route, To, peers, copying, Phases
<1>8. ASSUME NEW c \in Clients, CreateLocal(c)
      PROVE  BytesInv'
  BY <1>4, <1>8 DEF CreateLocal, To, peers, copying, Phases
<1>9. ASSUME NEW c \in Clients, Fail(c)
      PROVE  BytesInv'
  BY <1>4, <1>9 DEF Fail, To, peers, copying, Phases
<1>10. ASSUME NEW c \in Clients, CreateIp(c) \/ Close(c)
       PROVE  BytesInv'
  BY <1>10, BytesStutter DEF CreateIp, Close, handling, peers, copying
<1>11. ASSUME NEW c \in Clients, NEW d \in Dirs, PeerLeaves(c, d)
       PROVE  BytesInv'
  BY <1>11, BytesStutter DEF PeerLeaves, handling, copying
<1>12. ASSUME NEW c \in Clients, NEW d \in Dirs, PeerSends(c, d) \/ CopyStep(c, d)
       PROVE  BytesInv'
  BY <1>12, PeerSendsInOrder, CopyReadsInOrder, CopyWritesInOrder, CopyOverInOrder
     DEF CopyStep
<1> QED BY <1>1, <1>2, <1>3, <1>5, <1>6, <1>7, <1>8, <1>9, <1>10, <1>11, <1>12
        DEF Next, Handle

-----------------------------------------------------------------------------
(* The ends of the copies.                                                 *)

EndTypeOK ==
  /\ peer \in [Clients -> [Dirs -> {"open", "end", "reset"}]]
  /\ closed \in [Clients -> SUBSET {"left", "right"}]

GotRun == \A c \in Clients, d \in Dirs : got[c][d] = Run(Len(got[c][d]))

\* A copy that has ended left nothing on the wire, and its peer sends no more.
EndedAll ==
  \A c \in Clients, d \in Dirs :
    copy[c][d] = "ended" => wire[c][d] = <<>> /\ peer[c][d] = "end"

FailedWhy ==
  \A c \in Clients, d \in Dirs :
    copy[c][d] = "failed" => (\E e \in Dirs : peer[c][e] = "reset") \/ Over(c, Other(d))

\* The streams of a client are closed after a copy is over.
ClosedWhy == \A c \in Clients : closed[c] # {} => \E d \in Dirs : Over(c, d)

EndInv == EndTypeOK /\ GotRun /\ EndedAll /\ FailedWhy /\ ClosedWhy

LEMMA EndInitially ==
  ASSUME Init PROVE EndInv
<1>1. EndTypeOK
  BY DEF Init, Each, Both, EndTypeOK
<1>2. <<>> = Run(Len(<<>>))
  BY DEF Run
<1>3. GotRun
  BY <1>2 DEF Init, Each, Both, GotRun
<1>4. EndedAll /\ FailedWhy /\ ClosedWhy
  BY DEF Init, Each, Both, EndedAll, FailedWhy, ClosedWhy
<1> QED BY <1>1, <1>3, <1>4 DEF EndInv

LEMMA EndStutter ==
  ASSUME EndInv, UNCHANGED <<peer, wire, copy, got, closed>>
  PROVE  EndInv'
<1>1. \A c, d : Over(c, d)' <=> Over(c, d)
  BY DEF Over
<1>2. FailedWhy' /\ ClosedWhy'
  BY <1>1 DEF EndInv, FailedWhy, ClosedWhy
<1> QED BY <1>2 DEF EndInv, EndTypeOK, GotRun, EndedAll

\* A step of one copy that was not over: what was said of its client held for other
\* reasons than its end.
LEMMA OneCopy ==
  ASSUME BytesInv, EndInv, NEW c \in Clients, NEW d \in Dirs, NEW s \in CopyStates,
         copy[c][d] \in {"reading", "writing"}, copy' = [copy EXCEPT ![c][d] = s],
         UNCHANGED <<peer, closed>>,
         s = "failed" => (\E e \in Dirs : peer[c][e] = "reset") \/ Over(c, Other(d)),
         s = "ended" => wire'[c][d] = <<>> /\ peer[c][d] = "end",
         \A b \in Clients, e \in Dirs : b # c \/ e # d => wire'[b][e] = wire[b][e],
         GotRun'
  PROVE  EndInv'
<1>1. \A b \in Clients, e \in Dirs :
        copy'[b][e] = IF b = c /\ e = d THEN s ELSE copy[b][e]
  BY DEF BytesInv, BytesTypeOK
<1>2. EndTypeOK'
  BY DEF EndInv, EndTypeOK
<1>3. EndedAll'
  BY <1>1 DEF EndInv, EndedAll
<1>4. \A b \in Clients, e \in Dirs : Over(b, e) => Over(b, e)'
  BY <1>1 DEF Over
<1>5. \A e \in Dirs : Other(e) \in Dirs
  BY DEF Other, Dirs
<1>6. FailedWhy'
  <2> SUFFICES ASSUME NEW b \in Clients, NEW e \in Dirs, copy'[b][e] = "failed"
               PROVE  (\E i \in Dirs : peer[b][i] = "reset") \/ Over(b, Other(e))'
    BY DEF FailedWhy
  <2>1. (\E i \in Dirs : peer[b][i] = "reset") \/ Over(b, Other(e))
    BY <1>1 DEF EndInv, FailedWhy
  <2> QED BY <1>4, <1>5, <2>1
<1>7. ClosedWhy'
  BY <1>4 DEF EndInv, ClosedWhy
<1> QED BY <1>2, <1>3, <1>6, <1>7 DEF EndInv

LEMMA CreateRemoteEnds ==
  ASSUME BytesInv, EndInv, NEW c \in Clients, CreateRemote(c)
  PROVE  EndInv'
<1>1. /\ phase[c] = "remote" /\ copy' = [copy EXCEPT ![c] = [d \in Dirs |-> "reading"]]
      /\ UNCHANGED <<peer, wire, got, closed>>
  BY DEF CreateRemote, peers
<1>2. \A d \in Dirs : copy[c][d] = "none"
  BY <1>1 DEF BytesInv, HandsInCopy
<1>3. \A b \in Clients, d \in Dirs :
        copy'[b][d] = IF b = c THEN "reading" ELSE copy[b][d]
  BY <1>1 DEF BytesInv, BytesTypeOK
<1>4. \A b \in Clients, d \in Dirs : Over(b, d)' <=> Over(b, d)
  BY <1>2, <1>3 DEF Over
<1>5. \A d \in Dirs : Other(d) \in Dirs
  BY DEF Other, Dirs
<1>6. EndTypeOK' /\ GotRun'
  BY <1>1 DEF EndInv, EndTypeOK, GotRun
<1>7. EndedAll'
  BY <1>1, <1>3 DEF EndInv, EndedAll
<1>8. FailedWhy'
  BY <1>1, <1>3, <1>4, <1>5 DEF EndInv, FailedWhy
<1>9. ClosedWhy'
  BY <1>1, <1>4 DEF EndInv, ClosedWhy
<1> QED BY <1>6, <1>7, <1>8, <1>9 DEF EndInv

LEMMA PeerSendsEnds ==
  ASSUME BytesInv, EndInv, NEW c \in Clients, NEW d \in Dirs, PeerSends(c, d)
  PROVE  EndInv'
<1>1. /\ peer[c][d] = "open" /\ UNCHANGED <<peer, copy, got, closed>>
      /\ wire' = [wire EXCEPT ![c][d] = Append(@, sent'[c][d])]
  BY DEF PeerSends, copying
<1>2. \A b \in Clients, e \in Dirs : b # c \/ e # d => wire'[b][e] = wire[b][e]
  BY <1>1 DEF BytesInv, BytesTypeOK, Streams
<1>3. EndedAll'
  BY <1>1, <1>2 DEF EndInv, EndedAll
<1>4. \A b, e : Over(b, e)' <=> Over(b, e)
  BY <1>1 DEF Over
<1>5. FailedWhy' /\ ClosedWhy'
  BY <1>1, <1>4 DEF EndInv, FailedWhy, ClosedWhy
<1> QED BY <1>1, <1>3, <1>5 DEF EndInv, EndTypeOK, GotRun

LEMMA PeerLeavesEnds ==
  ASSUME EndInv, NEW c \in Clients, NEW d \in Dirs, PeerLeaves(c, d)
  PROVE  EndInv'
<1>1. PICK how \in {"end", "reset"} : peer' = [peer EXCEPT ![c][d] = how]
  BY DEF PeerLeaves
<1>2. peer[c][d] = "open" /\ UNCHANGED <<wire, copy, got, closed>>
  BY DEF PeerLeaves, copying
<1>3. \A b \in Clients, e \in Dirs :
        peer'[b][e] = IF b = c /\ e = d THEN how ELSE peer[b][e]
  BY <1>1 DEF EndInv, EndTypeOK
<1>4. EndTypeOK'
  BY <1>1, <1>2 DEF EndInv, EndTypeOK
<1>5. EndedAll'
  BY <1>2, <1>3 DEF EndInv, EndedAll
<1>6. \A b, e : Over(b, e)' <=> Over(b, e)
  BY <1>2 DEF Over
<1>7. \A b \in Clients, e \in Dirs : peer[b][e] = "reset" => peer'[b][e] = "reset"
  BY <1>2, <1>3
<1>8. FailedWhy' /\ ClosedWhy'
  BY <1>2, <1>6, <1>7 DEF EndInv, FailedWhy, ClosedWhy
<1> QED BY <1>2, <1>4, <1>5, <1>8 DEF EndInv, GotRun

LEMMA CopyEndsWell ==
  ASSUME BytesInv, EndInv, NEW c \in Clients, NEW d \in Dirs, CopyStep(c, d)
  PROVE  EndInv'
<1>1. CASE CopyReads(c, d)
  <2>1. PICK n \in 1..Len(wire[c][d]) :
          wire' = [wire EXCEPT ![c][d] = SubSeq(@, n + 1, Len(@))]
    BY <1>1 DEF CopyReads
  <2>2. \A b \in Clients, e \in Dirs : b # c \/ e # d => wire'[b][e] = wire[b][e]
    BY <2>1 DEF BytesInv, BytesTypeOK, Streams
  <2>3. /\ copy[c][d] = "reading" /\ copy' = [copy EXCEPT ![c][d] = "writing"]
        /\ UNCHANGED <<peer, closed, got>>
    BY <1>1 DEF CopyReads, peers
  <2>4. GotRun'
    BY <2>3 DEF EndInv, GotRun
  <2> QED BY <2>2, <2>3, <2>4, OneCopy DEF CopyStates
<1>2. CASE CopyWrites(c, d)
  <2>1. /\ copy[c][d] = "writing" /\ copy' = [copy EXCEPT ![c][d] = "reading"]
        /\ got' = [got EXCEPT ![c][d] = @ \o chunk[c][d]]
        /\ UNCHANGED <<peer, closed, wire>>
    BY <1>2 DEF CopyWrites, peers
  <2> DEFINE g == got[c][d] \o chunk[c][d]
  <2>f. g \o wire[c][d] = Run(sent[c][d])
    BY <2>1 DEF BytesInv, InFlow
  <2>s. got[c][d] \in Seq(Nat) /\ chunk[c][d] \in Seq(Nat)
        /\ wire[c][d] \in Seq(Nat) /\ sent[c][d] \in Nat
    BY DEF BytesInv, BytesTypeOK, Streams
  <2>2. g \in Seq(Nat) /\ wire[c][d] \in Seq(Nat) /\ sent[c][d] \in Nat
        /\ g \o wire[c][d] = Run(sent[c][d])
    BY <2>f, <2>s
  <2>3. \A b \in Clients, e \in Dirs :
          got'[b][e] = IF b = c /\ e = d THEN g ELSE got[b][e]
    BY <2>1 DEF BytesInv, BytesTypeOK, Streams
  <2> HIDE DEF g
  <2>4. g = Run(Len(g))
    BY <2>2, RunFront
  <2>5. GotRun'
    BY <2>3, <2>4 DEF EndInv, GotRun
  <2> QED BY <2>1, <2>5, OneCopy DEF CopyStates
<1>3. CASE CopyEnds(c, d)
  <2>1. /\ copy[c][d] = "reading" /\ copy' = [copy EXCEPT ![c][d] = "ended"]
        /\ wire[c][d] = <<>> /\ peer[c][d] = "end"
        /\ UNCHANGED <<peer, closed, wire, got>>
    BY <1>3 DEF CopyEnds, peers
  <2>2. GotRun'
    BY <2>1 DEF EndInv, GotRun
  <2> QED BY <2>1, <2>2, OneCopy DEF CopyStates
<1>4. CASE CopyFails(c, d)
  <2>1. /\ copy[c][d] \in {"reading", "writing"} /\ copy' = [copy EXCEPT ![c][d] = "failed"]
        /\ UNCHANGED <<peer, closed, wire, got>>
        /\ peer[c][d] = "reset" \/ peer[c][Other(d)] = "reset" \/ closed[c] # {}
    BY <1>4 DEF CopyFails, peers
  <2>2. Other(d) \in Dirs /\ \A e \in Dirs : e = d \/ e = Other(d)
    BY DEF Other, Dirs
  <2>3. ~Over(c, d)
    BY <2>1 DEF Over
  <2>4. (\E e \in Dirs : peer[c][e] = "reset") \/ Over(c, Other(d))
    BY <2>1, <2>2, <2>3 DEF EndInv, ClosedWhy
  <2>5. GotRun'
    BY <2>1 DEF EndInv, GotRun
  <2> QED BY <2>1, <2>4, <2>5, OneCopy DEF CopyStates
<1> QED BY <1>1, <1>2, <1>3, <1>4 DEF CopyStep

LEMMA CloseEnds ==
  ASSUME EndInv, NEW c \in Clients, Close(c)
  PROVE  EndInv'
<1>1. PICK s \in SUBSET {"left", "right"} : closed' = [closed EXCEPT ![c] = s]
  BY DEF Close
<1>2. (\E d \in Dirs : Over(c, d)) /\ UNCHANGED <<peer, wire, copy, got>>
  BY DEF Close, peers, copying
<1>3. \A b, e : Over(b, e)' <=> Over(b, e)
  BY <1>2 DEF Over
<1>4. EndTypeOK'
  BY <1>1, <1>2 DEF EndInv, EndTypeOK
<1>5. ClosedWhy'
  BY <1>1, <1>2, <1>3 DEF EndInv, EndTypeOK, ClosedWhy
<1>6. FailedWhy'
  BY <1>2, <1>3 DEF EndInv, FailedWhy
<1> QED BY <1>2, <1>4, <1>5, <1>6 DEF EndInv, GotRun, EndedAll

LEMMA EndStep ==
  BytesInv /\ EndInv /\ [Next]_vars => EndInv'
<1> SUFFICES ASSUME BytesInv, EndInv, [Next]_vars PROVE EndInv'
  OBVIOUS
<1>1. CASE UNCHANGED vars \/ StartReading
  BY <1>1, EndStutter DEF vars, StartReading, peers, copying
<1>2. ASSUME NEW c \in Clients,
             Accept(c) \/ (\E h \in Hosts : ReadRequest(c, h)) \/ Route(c) \/ CreateLocal(c)
               \/ CreateIp(c) \/ Fail(c)
      PROVE  EndInv'
  <2>1. UNCHANGED <<peer, wire, copy, got, closed>>
    BY <1>2 DEF Accept, ReadRequest, Route, CreateLocal, CreateIp, Fail, peers, copying
  <2> QED BY <2>1, EndStutter
<1>3. ASSUME NEW c \in Clients, CreateRemote(c) \/ Close(c)
      PROVE  EndInv'
  BY <1>3, CreateRemoteEnds, CloseEnds
<1>4. ASSUME NEW c \in Clients, NEW d \in Dirs,
             PeerSends(c, d) \/ PeerLeaves(c, d) \/ CopyStep(c, d)
      PROVE  EndInv'
  BY <1>4, PeerSendsEnds, PeerLeavesEnds, CopyEndsWell
<1> QED BY <1>1, <1>2, <1>3, <1>4 DEF Next, Handle

\* For any number of connections and of bytes, what arrives is the beginning of what
\* was sent, all of it when a copy ends, and a copy that fails, losing what it had not
\* written, does so after a reset or the end of the other copy
\* (TunnelProxy.Create_Core).
THEOREM TunnelAlwaysInOrder == Spec => []TunnelInOrder
<1>1. BytesInv /\ EndInv => TunnelInOrder
  <2> SUFFICES ASSUME BytesInv, EndInv, NEW c \in Clients, NEW d \in Dirs
               PROVE  /\ got[c][d] = Run(Len(got[c][d]))
                      /\ copy[c][d] # "failed" =>
                           got[c][d] \o chunk[c][d] \o wire[c][d] = Run(sent[c][d])
                      /\ copy[c][d] = "ended" => got[c][d] = Run(sent[c][d])
                      /\ copy[c][d] = "failed" =>
                           (\E e \in Dirs : peer[c][e] = "reset") \/ Over(c, Other(d))
    BY DEF TunnelInOrder
  <2>1. got[c][d] = Run(Len(got[c][d]))
    BY DEF EndInv, GotRun
  <2>2. copy[c][d] # "failed" => got[c][d] \o chunk[c][d] \o wire[c][d] = Run(sent[c][d])
    BY DEF BytesInv, InFlow
  <2>3. ASSUME copy[c][d] = "ended" PROVE got[c][d] = Run(sent[c][d])
    <3>1. chunk[c][d] = <<>> /\ wire[c][d] = <<>>
      BY <2>3 DEF BytesInv, HandsInCopy, EndInv, EndedAll
    <3>2. got[c][d] \in Seq(Nat)
      BY DEF BytesInv, BytesTypeOK, Streams
    <3>3. got[c][d] \o <<>> \o <<>> = got[c][d]
      BY <3>2, ConcatEmptySeq
    <3> QED BY <2>2, <2>3, <3>1, <3>3
  <2>4. copy[c][d] = "failed" => (\E e \in Dirs : peer[c][e] = "reset") \/ Over(c, Other(d))
    BY DEF EndInv, FailedWhy
  <2> QED BY <2>1, <2>2, <2>3, <2>4
<1> QED BY HandInitially, HandStep, BytesInitially, BytesStep, EndInitially, EndStep, <1>1,
           PTL DEF Spec

=============================================================================
