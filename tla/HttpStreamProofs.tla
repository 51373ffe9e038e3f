-------------------------- MODULE HttpStreamProofs --------------------------
(***************************************************************************)
(* For buffers of every size, messages of every content and inputs cut in  *)
(* every way: the window of m_buffer holds exactly the bytes received and  *)
(* not used yet, the socket is never read into an empty room, and the      *)
(* calls of ReadAsync return the messages that were sent, one after the    *)
(* other, without asking for more than they need.                          *)
(***************************************************************************)
EXTENDS HttpStream, SequenceTheorems, WellFoundedInduction, TLAPS

-----------------------------------------------------------------------------
(* The bytes of a message, and of messages one behind the other.           *)

LEMMA LeastOf ==
  ASSUME NEW I \in SUBSET Nat, I # {}
  PROVE  \E m \in I : \A i \in I : m <= i
  <1>1. PICK m \in I : \A i \in I : ~ (<<i, m>> \in OpToRel(<, Nat))
    BY NatLessThanWellFounded, WFMin
  <1>2. ASSUME NEW i \in I, i < m PROVE FALSE
    <2>1. <<i, m>> \in Nat \X Nat /\ <<i, m>>[1] < <<i, m>>[2]
      BY <1>2
    <2> QED
      BY <1>1, <2>1 DEF OpToRel
  <1> QED
    BY <1>2

\* Induction, for a set of numbers.
LEMMA Reaches ==
  ASSUME NEW I \in SUBSET Nat, 0 \in I, \A n \in I : n + 1 \in I
  PROVE  I = Nat
  <1> SUFFICES ASSUME I # Nat PROVE FALSE
    OBVIOUS
  <1>1. Nat \ I # {} /\ Nat \ I \in SUBSET Nat
    OBVIOUS
  <1>2. PICK m \in Nat \ I : \A i \in Nat \ I : m <= i
    BY <1>1, LeastOf
  <1>3. m - 1 \in Nat /\ m - 1 < m
    BY <1>2
  <1>4. m - 1 \in I
    BY <1>2, <1>3
  <1>5. (m - 1) + 1 \in I
    BY <1>4
  <1> QED
    BY <1>2, <1>5


-----------------------------------------------------------------------------
\* What EncodeAll, Encode and ChunkData are built with: the pieces of g, one
\* behind the other.
Joins(f, g, n) ==
  f = [i \in 0..n |-> IF i = 0 THEN <<>> ELSE f[i - 1] \o g[i]]

LEMMA JoinThere ==
  ASSUME NEW g, NEW n \in Nat
  PROVE  \E f : Joins(f, g, n)
<1> DEFINE I == {k \in Nat : \E f : Joins(f, g, k)}
<1>1. 0 \in I
  <2> DEFINE f == [i \in 0..0 |-> <<>>]
  <2>1. Joins(f, g, 0)
    BY DEF Joins
  <2> QED BY <2>1
<1>2. ASSUME NEW k \in I PROVE k + 1 \in I
  <2>0. k \in Nat
    OBVIOUS
  <2>1. PICK f : Joins(f, g, k)
    OBVIOUS
  <2> DEFINE b == [i \in 0..k + 1 |-> IF i = k + 1 THEN f[k] \o g[k + 1] ELSE f[i]]
  <2>2. ASSUME NEW i \in 0..k + 1
        PROVE  b[i] = IF i = 0 THEN <<>> ELSE b[i - 1] \o g[i]
    <3>1. CASE i = 0
      <4>1. i \in 0..k /\ i # k + 1
        BY <2>0, <3>1
      <4> QED BY <2>1, <3>1, <4>1 DEF Joins
    <3>2. CASE i \in 1..k
      <4>1. i # 0 /\ i \in 0..k /\ i # k + 1 /\ i - 1 \in 0..k + 1 /\ i - 1 # k + 1
        BY <2>0, <3>2
      <4>2. b[i] = f[i] /\ b[i - 1] = f[i - 1]
        BY <4>1
      <4>3. f[i] = f[i - 1] \o g[i]
        BY <2>1, <4>1 DEF Joins
      <4> HIDE DEF b
      <4> QED BY <4>1, <4>2, <4>3
    <3>3. CASE i = k + 1
      <4>1. i # 0 /\ i - 1 = k /\ k \in 0..k + 1 /\ k # k + 1
        BY <2>0, <3>3
      <4>2. b[i - 1] = f[k]
        BY <4>1
      <4>3. b[i] = f[k] \o g[k + 1]
        BY <3>3
      <4> HIDE DEF b
      <4> QED BY <3>3, <4>1, <4>2, <4>3
    <3> QED BY <2>0, <3>1, <3>2, <3>3
  <2>3. b = [i \in 0..k + 1 |-> b[i]]
    OBVIOUS
  <2> HIDE DEF b
  <2>4. Joins(b, g, k + 1)
    BY <2>2, <2>3, Zenon DEF Joins
  <2> QED BY <2>4
<1> HIDE DEF I
<1>3. I = Nat
  <2>1. I \in SUBSET Nat
    BY DEF I
  <2> QED BY <1>1, <1>2, <2>1, Reaches
<1> QED BY <1>3 DEF I

LEMMA JoinEquation ==
  ASSUME NEW g, NEW n \in Nat, NEW f, Joins(f, g, n)
  PROVE  /\ f[0] = <<>>
         /\ \A i \in 1..n : f[i] = f[i - 1] \o g[i]
<1>1. 0 \in 0..n /\ \A i \in 1..n : i \in 0..n /\ i # 0
  OBVIOUS
<1>2. f[0] = <<>>
  BY <1>1 DEF Joins
<1>3. ASSUME NEW i \in 1..n PROVE f[i] = f[i - 1] \o g[i]
  BY <1>1 DEF Joins
<1> QED BY <1>2, <1>3

Behind(r, s, t) ==
  /\ r \in Seq(Nat)
  /\ Len(s) \in Nat /\ Len(t) \in Nat
  /\ Len(r) = Len(s) + Len(t)
  /\ \A p \in 1..Len(s) : r[p] = s[p]
  /\ \A p \in 1..Len(t) : r[Len(s) + p] = t[p]

LEMMA TwoPieces ==
  ASSUME NEW s \in Seq(Nat), NEW t \in Seq(Nat), NEW r, r = s \o t
  PROVE  Behind(r, s, t)
<1>1. Len(s) \in Nat /\ Len(t) \in Nat
  OBVIOUS
<1>2. ASSUME NEW p \in 1..Len(t) PROVE r[Len(s) + p] = t[p]
  <2>1. Len(s) + p \in 1..Len(s) + Len(t) /\ ~(Len(s) + p <= Len(s)) /\ (Len(s) + p) - Len(s) = p
    BY <1>1
  <2> QED BY <2>1, <1>1
<1> QED BY <1>1, <1>2 DEF Behind

LEMMA JoinSeq ==
  ASSUME NEW n \in Nat, NEW g, \A i \in 1..n : g[i] \in Seq(Nat), NEW f, Joins(f, g, n)
  PROVE  \A i \in 0..n : f[i] \in Seq(Nat)
<1> DEFINE I == {k \in Nat : k <= n => f[k] \in Seq(Nat)}
<1>0. \A i \in 1..n : f[i] = f[i - 1] \o g[i]
  BY JoinEquation, Zenon
<1>1. 0 \in I
  <2>1. f[0] = <<>>
    BY JoinEquation, Zenon
  <2>2. <<>> \in Seq(Nat)
    OBVIOUS
  <2> QED BY <2>1, <2>2
<1>2. ASSUME NEW k \in I PROVE k + 1 \in I
  <2> SUFFICES ASSUME k + 1 <= n PROVE f[k + 1] \in Seq(Nat)
    OBVIOUS
  <2>1. k \in Nat /\ k + 1 \in 1..n /\ (k + 1) - 1 = k /\ k <= n
    OBVIOUS
  <2>2. f[k + 1] = f[k] \o g[k + 1]
    <3> HIDE DEF I
    <3> QED BY <1>0, <2>1
  <2>3. f[k] \in Seq(Nat) /\ g[k + 1] \in Seq(Nat)
    BY <2>1
  <2> HIDE DEF I
  <2> QED BY <2>2, <2>3
<1> HIDE DEF I
<1>3. I = Nat
  <2>1. I \in SUBSET Nat
    BY DEF I
  <2> QED BY <1>1, <1>2, <2>1, Reaches
<1> QED BY <1>3 DEF I

\* Each piece stands behind those before it, and they come to no more than all.
LEMMA JoinFacts ==
  ASSUME NEW n \in Nat, NEW g, \A i \in 1..n : g[i] \in Seq(Nat), NEW f, Joins(f, g, n)
  PROVE  \A k \in 0..n : \A i \in 0..k :
           /\ Len(f[i]) <= Len(f[k])
           /\ \A p \in 1..Len(f[i]) : f[k][p] = f[i][p]
<1> DEFINE Before(i, k) == /\ Len(f[i]) <= Len(f[k])
                           /\ \A p \in 1..Len(f[i]) : f[k][p] = f[i][p]
           I == {k \in Nat : k <= n => \A i \in 0..k : Before(i, k)}
<1>0. \A i \in 0..n : f[i] \in Seq(Nat) /\ Len(f[i]) \in Nat
  <2>1. \A s \in Seq(Nat) : Len(s) \in Nat
    OBVIOUS
  <2> QED BY <2>1, JoinSeq
<1>9. \A i \in 1..n : f[i] = f[i - 1] \o g[i]
  BY JoinEquation, Zenon
<1>1. 0 \in I
  <2>1. \A i \in 0..0 : i = 0
    OBVIOUS
  <2> QED BY <1>0, <2>1
<1>2. ASSUME NEW k \in I PROVE k + 1 \in I
  <2> SUFFICES ASSUME k + 1 <= n, NEW i \in 0..k + 1 PROVE Before(i, k + 1)
    OBVIOUS
  <2>1. k \in Nat /\ k + 1 \in 1..n /\ k + 1 \in 0..n /\ (k + 1) - 1 = k /\ k <= n /\ k \in 0..n
    OBVIOUS
  <2>2. f[k + 1] = f[k] \o g[k + 1]
    <3> HIDE DEF I
    <3> QED BY <1>9, <2>1
  <2>3. CASE i = k + 1
    BY <1>0, <2>1, <2>3
  <2>4. CASE i \in 0..k
    <3>1. Before(i, k) /\ i \in 0..n
      BY <2>1, <2>4
    <3>2. f[k] \in Seq(Nat) /\ g[k + 1] \in Seq(Nat) /\ Len(g[k + 1]) \in Nat
          /\ Len(f[k]) \in Nat /\ Len(f[i]) \in Nat
      BY <1>0, <2>1, <3>1
    <3>9. Behind(f[k + 1], f[k], g[k + 1])
      <4> HIDE DEF I, Before
      <4> QED BY <2>2, <3>2, TwoPieces
    <3>3. /\ Len(f[k + 1]) = Len(f[k]) + Len(g[k + 1])
          /\ \A p \in 1..Len(f[k]) : f[k + 1][p] = f[k][p]
      <4> HIDE DEF I, Before
      <4> QED BY <3>9 DEF Behind
    <3>4. \A p \in 1..Len(f[i]) : p \in 1..Len(f[k])
      BY <3>1, <3>2
    <3>5. Len(f[i]) <= Len(f[k + 1])
      <4>1. Len(f[i]) <= Len(f[k])
        BY <3>1
      <4>2. Len(f[k + 1]) = Len(f[k]) + Len(g[k + 1])
        BY <3>3
      <4> DEFINE a == Len(f[i])  b == Len(f[k])  c == Len(f[k + 1])  d == Len(g[k + 1])
      <4>3. a \in Nat /\ b \in Nat /\ d \in Nat /\ a <= b /\ c = b + d
        BY <3>2, <4>1, <4>2
      <4>4. a <= c
        <5> HIDE DEF a, b, c, d, I, Before
        <5> QED BY <4>3
      <4> QED BY <4>4
    <3>6. ASSUME NEW p \in 1..Len(f[i]) PROVE f[k + 1][p] = f[i][p]
      BY <3>1, <3>3, <3>4
    <3> QED BY <3>5, <3>6
  <2> QED BY <2>1, <2>3, <2>4
<1> HIDE DEF I, Before
<1>3. I = Nat
  <2>1. I \in SUBSET Nat
    BY DEF I
  <2> QED BY <1>1, <1>2, <2>1, Reaches
<1> QED BY <1>3 DEF I, Before

PieceThere(f, g, n, k) ==
  /\ Len(f[k]) <= Len(f[n])
  /\ \A p \in 1..Len(g[k]) : f[n][Len(f[k - 1]) + p] = g[k][p]

LEMMA JoinPiece ==
  ASSUME NEW n \in Nat, NEW g, \A i \in 1..n : g[i] \in Seq(Nat), NEW f, Joins(f, g, n),
         NEW k \in 1..n
  PROVE  PieceThere(f, g, n, k)
<1>0. k - 1 \in 0..n /\ k \in 0..n /\ n \in 0..n /\ k \in 1..n
  OBVIOUS
<1>1. /\ f[k - 1] \in Seq(Nat) /\ f[k] \in Seq(Nat) /\ f[n] \in Seq(Nat)
      /\ g[k] \in Seq(Nat)
  BY <1>0, JoinSeq
<1>2. f[k] = f[k - 1] \o g[k]
  <2>1. \A i \in 1..n : f[i] = f[i - 1] \o g[i]
    BY JoinEquation, Zenon
  <2> QED BY <1>0, <2>1
<1>3. /\ Len(f[k - 1]) \in Nat /\ Len(f[k]) \in Nat /\ Len(f[n]) \in Nat /\ Len(g[k]) \in Nat
      /\ Len(f[k]) = Len(f[k - 1]) + Len(g[k])
      /\ \A p \in 1..Len(g[k]) : f[k][Len(f[k - 1]) + p] = g[k][p]
  <2>9. Behind(f[k], f[k - 1], g[k])
    BY <1>1, <1>2, TwoPieces
  <2>1. /\ Len(f[k - 1]) \in Nat /\ Len(g[k]) \in Nat
        /\ Len(f[k]) = Len(f[k - 1]) + Len(g[k])
        /\ \A p \in 1..Len(g[k]) : f[k][Len(f[k - 1]) + p] = g[k][p]
    BY <2>9 DEF Behind
  <2>2. \A s \in Seq(Nat) : Len(s) \in Nat
    OBVIOUS
  <2> QED BY <1>1, <2>1, <2>2
<1>4. /\ Len(f[k]) <= Len(f[n])
      /\ \A p \in 1..Len(f[k]) : f[n][p] = f[k][p]
  BY <1>0, JoinFacts
<1>5. \A p \in 1..Len(g[k]) : Len(f[k - 1]) + p \in 1..Len(f[k])
  <2> DEFINE a == Len(f[k - 1])  b == Len(f[k])  c == Len(g[k])
  <2>1. a \in Nat /\ c \in Nat /\ b = a + c
    BY <1>3
  <2>2. \A p \in 1..c : a + p \in 1..b
    <3> HIDE DEF a, b, c
    <3> QED BY <2>1
  <2> QED BY <2>2
<1> QED BY <1>1, <1>3, <1>4, <1>5 DEF PieceThere

JoinedIs(f, g) ==
  f = [i \in 0..Len(g) |-> IF i = 0 THEN <<>> ELSE f[i - 1] \o g[i]]

LEMMA JoinedJoins ==
  ASSUME NEW g, Len(g) \in Nat
  PROVE  Joins(Joined(g), g, Len(g))
<1>1. Joined(g) = CHOOSE f : JoinedIs(f, g)
  BY Zenon DEF Joined, JoinedIs
<1>2. \A f : JoinedIs(f, g) <=> Joins(f, g, Len(g))
  BY Zenon DEF JoinedIs, Joins
<1>3. \E f : JoinedIs(f, g)
  BY <1>2, JoinThere
<1>4. JoinedIs(Joined(g), g)
  BY <1>1, <1>3, Zenon
<1> QED BY <1>2, <1>4

\* One behind the other, for pieces given by an operator on 1..n.
LEMMA PieceFacts ==
  ASSUME NEW n \in Nat, NEW g \in [1..n -> Seq(Nat)], NEW f, f = Joined(g)
  PROVE  /\ \A k \in 0..n : f[k] \in Seq(Nat) /\ Len(f[k]) \in Nat
         /\ f[0] = <<>> /\ Len(f[0]) = 0
         /\ \A k \in 0..n - 1 : Behind(f[k + 1], f[k], g[k + 1])
         /\ \A k \in 0..n - 1 :
              /\ Len(f[k + 1]) <= Len(f[n])
              /\ \A p \in 1..Len(g[k + 1]) : f[n][Len(f[k]) + p] = g[k + 1][p]
<1>1. Len(g) = n /\ \A i \in 1..n : g[i] \in Seq(Nat)
  OBVIOUS
<1>2. Joins(f, g, n)
  <2>1. Len(g) \in Nat
    BY <1>1
  <2>2. Joins(Joined(g), g, Len(g))
    BY <2>1, JoinedJoins
  <2> QED BY <1>1, <2>2
<1>3. \A k \in 0..n : f[k] \in Seq(Nat) /\ Len(f[k]) \in Nat
  <2>1. \A s \in Seq(Nat) : Len(s) \in Nat
    OBVIOUS
  <2> QED BY <1>1, <1>2, <2>1, JoinSeq
<1>4. f[0] = <<>> /\ \A i \in 1..n : f[i] = f[i - 1] \o g[i]
  BY <1>2, JoinEquation, Zenon
<1>5. ASSUME NEW k \in 0..n - 1
      PROVE  /\ Behind(f[k + 1], f[k], g[k + 1])
             /\ Len(f[k + 1]) <= Len(f[n])
             /\ \A p \in 1..Len(g[k + 1]) : f[n][Len(f[k]) + p] = g[k + 1][p]
  <2>1. k + 1 \in 1..n /\ (k + 1) - 1 = k /\ k \in 0..n
    OBVIOUS
  <2>2. f[k + 1] = f[k] \o g[k + 1]
    BY <1>4, <2>1
  <2>3. f[k] \in Seq(Nat) /\ g[k + 1] \in Seq(Nat)
    BY <1>1, <1>3, <2>1
  <2>4. Behind(f[k + 1], f[k], g[k + 1])
    BY <2>2, <2>3, TwoPieces
  <2>5. /\ Len(f[k + 1]) <= Len(f[n])
        /\ \A p \in 1..Len(g[k + 1]) : f[n][Len(f[(k + 1) - 1]) + p] = g[k + 1][p]
    <3>1. PieceThere(f, g, n, k + 1)
      BY <1>1, <1>2, <2>1, JoinPiece
    <3> QED BY <3>1 DEF PieceThere
  <2> QED BY <2>1, <2>4, <2>5
<1>6. Len(f[0]) = 0
  BY <1>4
<1> QED BY <1>3, <1>4, <1>5, <1>6

-----------------------------------------------------------------------------
IsChunk(c) == c.size \in Nat /\ c.data \in Seq(Nat)

\* The bytes of a chunk behind its length: the data and the mark.
Piece(c) == c.data \o OneMark

LEMMA PieceIs ==
  ASSUME NEW c, IsChunk(c)
  PROVE  /\ Behind(Piece(c), c.data, OneMark)
         /\ Len(OneMark) = 2 /\ OneMark \in Seq(Nat) /\ OneMark[1] = CR /\ OneMark[2] = LF
         /\ Len(c.data) \in Nat
<1>1. OneMark \in Seq(Nat) /\ Len(OneMark) = 2 /\ OneMark[1] = CR /\ OneMark[2] = LF
  BY DEF OneMark, CR, LF
<1>2. Behind(Piece(c), c.data, OneMark)
  BY <1>1, TwoPieces DEF Piece, IsChunk
<1> QED BY <1>1, <1>2 DEF IsChunk

LEMMA ChunkBytes ==
  ASSUME NEW c, IsChunk(c), NEW e, e = EncodeChunk(c)
  PROVE  /\ e \in Seq(Nat)
         /\ Len(c.data) \in Nat /\ Len(Piece(c)) = Len(c.data) + 2 /\ Len(e) = Len(c.data) + 5
         /\ e[1] = Digit(c.size) /\ e[2] = CR /\ e[3] = LF
         /\ \A q \in 1..Len(c.data) + 2 : e[3 + q] = Piece(c)[q]
<1> DEFINE a == <<Digit(c.size)>>
           b == a \o OneMark
           d == b \o c.data
<1>1. a \in Seq(Nat) /\ Len(a) = 1 /\ a[1] = Digit(c.size)
  BY DEF IsChunk, Digit
<1>2. OneMark \in Seq(Nat) /\ Len(OneMark) = 2 /\ OneMark[1] = CR /\ OneMark[2] = LF
      /\ c.data \in Seq(Nat) /\ Len(c.data) \in Nat /\ Behind(Piece(c), c.data, OneMark)
  BY PieceIs DEF IsChunk
<1> HIDE DEF a
<1>3. Behind(b, a, OneMark)
  BY <1>1, <1>2, TwoPieces
<1> HIDE DEF b
<1>4. Behind(d, b, c.data)
  <2>1. b \in Seq(Nat)
    BY <1>3 DEF Behind
  <2> QED BY <1>2, <2>1, TwoPieces
<1>5. e = d \o OneMark
  BY DEF EncodeChunk, a, b, d
<1> HIDE DEF d
<1>6. Behind(e, d, OneMark)
  <2>1. d \in Seq(Nat)
    BY <1>4 DEF Behind
  <2> QED BY <1>2, <1>5, <2>1, TwoPieces
<1> DEFINE n == Len(c.data)
<1>7. Len(b) = 3 /\ Len(d) = n + 3 /\ Len(e) = n + 5 /\ Len(Piece(c)) = n + 2 /\ n \in Nat
  BY <1>1, <1>2, <1>3, <1>4, <1>6 DEF Behind
<1>8. b[1] = Digit(c.size) /\ b[2] = CR /\ b[3] = LF
  <2>1. b[1] = a[1]
    BY <1>1, <1>3 DEF Behind
  <2>2. 1 \in 1..Len(OneMark) /\ 2 \in 1..Len(OneMark)
    BY <1>2
  <2>3. b[Len(a) + 1] = OneMark[1] /\ b[Len(a) + 2] = OneMark[2]
    BY <2>2, <1>3 DEF Behind
  <2> QED BY <2>1, <2>3, <1>1, <1>2
<1>9. \A p \in 1..3 : d[p] = b[p] /\ e[p] = d[p]
  <2> HIDE DEF n
  <2>1. \A p \in 1..3 : p \in 1..Len(b) /\ p \in 1..Len(d)
    BY <1>7
  <2>2. /\ \A p \in 1..Len(b) : d[p] = b[p]
        /\ \A p \in 1..Len(d) : e[p] = d[p]
    BY <1>4, <1>6 DEF Behind
  <2> QED BY <2>1, <2>2
<1>10. ASSUME NEW q \in 1..n + 2 PROVE e[3 + q] = Piece(c)[q]
  <2> HIDE DEF n
  <2>1. CASE q \in 1..n
    <3>1. 3 + q \in 1..Len(d) /\ q \in 1..Len(c.data)
      BY <1>7, <2>1 DEF n
    <3>2. e[3 + q] = d[3 + q]
      BY <1>6, <3>1 DEF Behind
    <3>3. d[Len(b) + q] = c.data[q]
      BY <1>4, <3>1 DEF Behind
    <3>4. Piece(c)[q] = c.data[q]
      BY <1>2, <3>1 DEF Behind
    <3> QED BY <1>7, <3>2, <3>3, <3>4
  <2>2. CASE q \in n + 1..n + 2
    <3> DEFINE r == q - n
    <3>1. r \in 1..2 /\ q = n + r /\ 3 + q = Len(d) + r /\ r \in 1..Len(OneMark)
      BY <1>2, <1>7, <2>2
    <3> HIDE DEF r
    <3>2. e[Len(d) + r] = OneMark[r]
      BY <1>6, <3>1 DEF Behind
    <3>3. Piece(c)[Len(c.data) + r] = OneMark[r]
      BY <1>2, <3>1 DEF Behind
    <3> QED BY <3>1, <3>2, <3>3 DEF n
  <2> QED BY <1>7, <2>1, <2>2
<1>11. e \in Seq(Nat)
  BY <1>6 DEF Behind
<1>12. e[1] = Digit(c.size) /\ e[2] = CR /\ e[3] = LF
  <2>1. 1 \in 1..3 /\ 2 \in 1..3 /\ 3 \in 1..3
    OBVIOUS
  <2> QED BY <2>1, <1>8, <1>9
<1> QED BY <1>7, <1>10, <1>11, <1>12

\* The bytes of a message behind its header.
BodyCode(m) == IF m.framing # Chunked THEN m.body ELSE ChunkCodes(m)[Len(m.body)]

HeaderBytes(e, m) ==
  /\ \A p \in 1..m.filler : e[p] = Filler
  /\ e[m.filler + 1] = m.framing
  /\ e[m.filler + 2] = CR /\ e[m.filler + 3] = LF
  /\ e[m.filler + 4] = CR /\ e[m.filler + 5] = LF

LEMMA EncodeBytes ==
  ASSUME NEW m, m.filler \in Nat, m.framing \in Nat, BodyCode(m) \in Seq(Nat),
         NEW e, e = Encode(m)
  PROVE  /\ e \in Seq(Nat) /\ Len(BodyCode(m)) \in Nat
         /\ Len(e) = m.filler + 5 + Len(BodyCode(m))
         /\ HeaderBytes(e, m)
         /\ \A q \in 1..Len(BodyCode(m)) : e[m.filler + 5 + q] = BodyCode(m)[q]
<1> DEFINE n == m.filler
           body == BodyCode(m)
           a == [i \in 1..m.filler |-> Filler]
           b == a \o <<m.framing>>
           d == b \o TowMark
<1>1. a \in Seq(Nat) /\ Len(a) = n /\ \A p \in 1..n : a[p] = Filler
  BY DEF Filler
<1>2. <<m.framing>> \in Seq(Nat) /\ Len(<<m.framing>>) = 1 /\ <<m.framing>>[1] = m.framing
  OBVIOUS
<1>3. /\ TowMark \in Seq(Nat) /\ Len(TowMark) = 4
      /\ TowMark[1] = CR /\ TowMark[2] = LF /\ TowMark[3] = CR /\ TowMark[4] = LF
  BY DEF TowMark, CR, LF
<1>4. body \in Seq(Nat)
  OBVIOUS
<1>5. e = d \o body
  BY Zenon DEF Encode, BodyCode, a, b, d, body
<1> HIDE DEF a, body
<1>6. Behind(b, a, <<m.framing>>)
  BY <1>1, <1>2, TwoPieces
<1> HIDE DEF b
<1>7. Behind(d, b, TowMark)
  <2>1. b \in Seq(Nat)
    BY <1>6 DEF Behind
  <2> QED BY <1>3, <2>1, TwoPieces
<1> HIDE DEF d
<1>8. Behind(e, d, body)
  <2>1. d \in Seq(Nat)
    BY <1>7 DEF Behind
  <2> QED BY <1>4, <1>5, <2>1, TwoPieces
<1>9. /\ Len(b) = n + 1 /\ Len(d) = n + 5 /\ Len(e) = n + 5 + Len(body)
      /\ Len(body) \in Nat /\ n \in Nat
  <2>1. Len(b) = Len(a) + Len(<<m.framing>>)
    BY <1>6 DEF Behind
  <2>2. Len(d) = Len(b) + Len(TowMark)
    BY <1>7 DEF Behind
  <2>3. Len(e) = Len(d) + Len(body) /\ Len(body) \in Nat
    BY <1>8 DEF Behind
  <2>4. n \in Nat
    OBVIOUS
  <2> HIDE DEF n
  <2>5. Len(b) = n + 1
    BY <1>1, <1>2, <2>1
  <2>6. Len(d) = n + 5
    BY <1>3, <2>2, <2>4, <2>5
  <2>7. Len(e) = n + 5 + Len(body)
    BY <2>3, <2>6
  <2> QED BY <2>3, <2>4, <2>5, <2>6, <2>7
<1> HIDE DEF n
<1>10. \A p \in 1..n : e[p] = Filler
  <2> SUFFICES ASSUME NEW p \in 1..n PROVE e[p] = Filler
    OBVIOUS
  <2>1. p \in 1..Len(a) /\ p \in 1..Len(b) /\ p \in 1..Len(d)
    BY <1>1, <1>9
  <2>2. e[p] = d[p]
    BY <1>8, <2>1 DEF Behind
  <2>3. d[p] = b[p]
    BY <1>7, <2>1 DEF Behind
  <2>4. b[p] = a[p]
    BY <1>6, <2>1 DEF Behind
  <2> QED BY <1>1, <2>2, <2>3, <2>4
<1>11. e[n + 1] = m.framing
  <2>1. n + 1 \in 1..Len(b) /\ n + 1 \in 1..Len(d) /\ 1 \in 1..Len(<<m.framing>>)
    BY <1>2, <1>9
  <2>2. e[n + 1] = d[n + 1]
    BY <1>8, <2>1 DEF Behind
  <2>3. d[n + 1] = b[n + 1]
    BY <1>7, <2>1 DEF Behind
  <2>4. b[Len(a) + 1] = <<m.framing>>[1]
    BY <1>6, <2>1 DEF Behind
  <2> QED BY <1>1, <1>2, <2>2, <2>3, <2>4
<1>12. ASSUME NEW i \in 1..4 PROVE e[n + 1 + i] = TowMark[i]
  <2>1. i \in 1..Len(TowMark) /\ n + 1 + i \in 1..Len(d)
    BY <1>3, <1>9
  <2>2. e[n + 1 + i] = d[n + 1 + i]
    BY <1>8, <2>1 DEF Behind
  <2>3. d[Len(b) + i] = TowMark[i]
    BY <1>7, <2>1 DEF Behind
  <2> QED BY <1>9, <2>2, <2>3
<1>13. e[n + 2] = CR /\ e[n + 3] = LF /\ e[n + 4] = CR /\ e[n + 5] = LF
  <2>1. /\ 1 \in 1..4 /\ 2 \in 1..4 /\ 3 \in 1..4 /\ 4 \in 1..4
        /\ n + 2 = n + 1 + 1 /\ n + 3 = n + 1 + 2 /\ n + 4 = n + 1 + 3 /\ n + 5 = n + 1 + 4
    BY <1>9
  <2>2. /\ e[n + 1 + 1] = TowMark[1] /\ e[n + 1 + 2] = TowMark[2]
        /\ e[n + 1 + 3] = TowMark[3] /\ e[n + 1 + 4] = TowMark[4]
    BY <1>12, <2>1
  <2> QED BY <1>3, <2>1, <2>2
<1>14. ASSUME NEW q \in 1..Len(body) PROVE e[n + 5 + q] = body[q]
  BY <1>8, <1>9 DEF Behind
<1>15. HeaderBytes(e, m)
  BY <1>10, <1>11, <1>13 DEF HeaderBytes, n
<1>16. e \in Seq(Nat)
  BY <1>8 DEF Behind
<1> QED BY <1>9, <1>14, <1>15, <1>16 DEF n, body

-----------------------------------------------------------------------------
\* Chunks: C is where their codes end, D what they bring, chunk j + 1 behind j.
ChunkAt(m, j) ==
  LET c == m.body[j + 1]
      C == ChunkCodes(m)
      D == ChunkData(m)
      e == BodyCode(m) IN
  /\ IsChunk(c)
  /\ Len(C[j]) \in Nat /\ Len(C[j + 1]) = Len(C[j]) + Len(c.data) + 5
  /\ Len(C[j + 1]) <= Len(e)
  /\ e[Len(C[j]) + 1] = Digit(c.size)
  /\ e[Len(C[j]) + 2] = CR /\ e[Len(C[j]) + 3] = LF
  /\ \A q \in 1..Len(c.data) + 2 : e[Len(C[j]) + 3 + q] = Piece(c)[q]
  /\ Behind(D[j + 1], D[j], c.data)

LEMMA ChunkFacts ==
  ASSUME NEW m, IsMessage(m), m.framing = Chunked
  PROVE  /\ Len(m.body) \in Nat
         /\ BodyCode(m) \in Seq(Nat) /\ BodyCode(m) = ChunkCodes(m)[Len(m.body)]
         /\ Len(ChunkCodes(m)[0]) = 0 /\ Len(ChunkData(m)[0]) = 0
         /\ ChunkData(m)[0] \in Seq(Nat)
         /\ \A j \in 0..Len(m.body) - 1 : ChunkAt(m, j)
<1> DEFINE n == Len(m.body)
           g == [i \in 1..n |-> EncodeChunk(m.body[i])]
           h == [i \in 1..n |-> m.body[i].data]
           C == ChunkCodes(m)
           D == ChunkData(m)
<1>1. m.body \in Seq([size : Nat, data : Seq(Nat)])
  BY DEF IsMessage
<1>2. n \in Nat /\ \A i \in 1..n : m.body[i] \in [size : Nat, data : Seq(Nat)]
  <2> DEFINE R == [size : Nat, data : Seq(Nat)]
             s == m.body
  <2>1. s \in Seq(R)
    BY <1>1
  <2> HIDE DEF R, s
  <2>2. Len(s) \in Nat /\ \A i \in 1..Len(s) : s[i] \in R
    BY <2>1
  <2> QED BY <2>2 DEF R, s
<1>3. \A i \in 1..n : IsChunk(m.body[i])
  BY <1>2 DEF IsChunk
<1>4. C = Joined(g) /\ D = Joined(h)
  BY Zenon DEF ChunkCodes, ChunkData, g, h, n
<1>5. BodyCode(m) = C[n]
  BY DEF BodyCode
<1> HIDE DEF n, C, D
<1>6. g \in [1..n -> Seq(Nat)]
  <2>1. \A i \in 1..n : EncodeChunk(m.body[i]) \in Seq(Nat)
    BY <1>3, ChunkBytes
  <2> QED BY <2>1
<1>7. h \in [1..n -> Seq(Nat)]
  BY <1>3 DEF IsChunk
<1>8. /\ \A i \in 1..n : g[i] = EncodeChunk(m.body[i])
      /\ \A i \in 1..n : h[i] = m.body[i].data
  OBVIOUS
<1> HIDE DEF g, h
<1>9. /\ \A k \in 0..n : C[k] \in Seq(Nat) /\ Len(C[k]) \in Nat
      /\ Len(C[0]) = 0
      /\ \A k \in 0..n - 1 : Behind(C[k + 1], C[k], g[k + 1])
      /\ \A k \in 0..n - 1 :
           /\ Len(C[k + 1]) <= Len(C[n])
           /\ \A p \in 1..Len(g[k + 1]) : C[n][Len(C[k]) + p] = g[k + 1][p]
  BY <1>2, <1>4, <1>6, PieceFacts
<1>10. /\ \A k \in 0..n : D[k] \in Seq(Nat) /\ Len(D[k]) \in Nat
       /\ Len(D[0]) = 0
       /\ \A k \in 0..n - 1 : Behind(D[k + 1], D[k], h[k + 1])
  BY <1>2, <1>4, <1>7, PieceFacts
<1>11. ASSUME NEW j \in 0..n - 1 PROVE ChunkAt(m, j)
  <2> DEFINE c == m.body[j + 1]
             e == C[n]
             b == Len(C[j])
             s == Len(c.data)
  <2>1. j + 1 \in 1..n /\ j \in 0..n
    BY <1>2
  <2>2. IsChunk(c) /\ g[j + 1] = EncodeChunk(c) /\ h[j + 1] = c.data
    BY <1>3, <1>8, <2>1
  <2> HIDE DEF c
  <2>3. /\ s \in Nat /\ Len(g[j + 1]) = s + 5
        /\ g[j + 1][1] = Digit(c.size) /\ g[j + 1][2] = CR /\ g[j + 1][3] = LF
        /\ \A q \in 1..s + 2 : g[j + 1][3 + q] = Piece(c)[q]
    BY <2>2, ChunkBytes
  <2>4. b \in Nat /\ Len(C[j + 1]) = b + s + 5
    <3>1. Behind(C[j + 1], C[j], g[j + 1])
      BY <1>9
    <3>2. b \in Nat /\ Len(C[j + 1]) = b + Len(g[j + 1])
      BY <3>1 DEF Behind
    <3> HIDE DEF b, s
    <3> QED BY <2>3, <3>2
  <2>5. /\ Len(C[j + 1]) <= Len(e)
        /\ \A p \in 1..Len(g[j + 1]) : e[b + p] = g[j + 1][p]
    BY <1>9
  <2> HIDE DEF e, b, s
  <2>6. e[b + 1] = Digit(c.size) /\ e[b + 2] = CR /\ e[b + 3] = LF
    <3>1. 1 \in 1..Len(g[j + 1]) /\ 2 \in 1..Len(g[j + 1]) /\ 3 \in 1..Len(g[j + 1])
      BY <2>3
    <3> QED BY <2>3, <2>5, <3>1
  <2>7. ASSUME NEW q \in 1..s + 2 PROVE e[b + 3 + q] = Piece(c)[q]
    <3>1. 3 + q \in 1..Len(g[j + 1]) /\ b + 3 + q = b + (3 + q)
      BY <2>3, <2>4
    <3> QED BY <2>3, <2>5, <3>1
  <2>8. Behind(D[j + 1], D[j], c.data)
    BY <1>10, <2>2
  <2> QED BY <1>5, <2>2, <2>4, <2>5, <2>6, <2>7, <2>8, Zenon DEF ChunkAt, b, c, e, s, C, D
<1>12. 0 \in 0..n /\ n \in 0..n
  BY <1>2
<1> QED BY <1>2, <1>5, <1>9, <1>10, <1>11, <1>12 DEF n, C, D

Source ==
  /\ reading \in Readings
  /\ messages \in Inputs(reading)
  /\ input = EncodeAll(messages)

\* Message k + 1 in the input, behind those before it.
MessageAt(k) ==
  LET m == messages[k + 1]
      base == MessageEnd(k) IN
  /\ IsMessage(m)
  /\ base \in Nat
  /\ BodyCode(m) \in Seq(Nat) /\ Len(BodyCode(m)) \in Nat
  /\ MessageEnd(k + 1) = base + m.filler + 5 + Len(BodyCode(m))
  /\ MessageEnd(k + 1) <= Len(input)
  /\ \A p \in 1..m.filler : input[base + p] = Filler
  /\ input[base + m.filler + 1] = m.framing
  /\ input[base + m.filler + 2] = CR /\ input[base + m.filler + 3] = LF
  /\ input[base + m.filler + 4] = CR /\ input[base + m.filler + 5] = LF
  /\ \A q \in 1..Len(BodyCode(m)) : input[base + m.filler + 5 + q] = BodyCode(m)[q]

LEMMA BodyBytes ==
  ASSUME NEW m, IsMessage(m)
  PROVE  m.filler \in Nat /\ m.framing \in Nat /\ BodyCode(m) \in Seq(Nat)
<1>1. CASE m.framing = Chunked
  BY <1>1, ChunkFacts DEF IsMessage
<1>2. CASE m.framing # Chunked
  BY <1>2 DEF IsMessage, BodyCode
<1> QED BY <1>1, <1>2

LEMMA MessageFacts ==
  ASSUME Source
  PROVE  /\ Len(messages) \in Nat /\ input \in Seq(Nat)
         /\ MessageEnd(0) = 0 /\ MessageEnd(Len(messages)) = Len(input)
         /\ \A k \in 0..Len(messages) : MessageEnd(k) \in Nat
         /\ \A k \in 0..Len(messages) - 1 : MessageAt(k)
<1> DEFINE n == Len(messages)
           g == [i \in 1..n |-> Encode(messages[i])]
           f == MessageCodes(messages)
<1>1. n \in Nat /\ \A i \in 1..n : messages[i] \in Messages[reading]
  <2>1. PICK k \in 1..MaxMessages : messages \in [1..k -> Messages[reading]]
    BY DEF Source, Inputs
  <2>2. k \in Nat
    BY <2>1
  <2>3. Len(messages) = k
    BY <2>1, <2>2
  <2> QED BY <2>1, <2>2, <2>3
<1>2. \A i \in 1..n : IsMessage(messages[i])
  BY <1>1, MessagesAssumption DEF Source
<1>3. f = Joined(g) /\ input = f[n]
  BY Zenon DEF MessageCodes, EncodeAll, Source, f, g, n
<1>4. \A k : MessageEnd(k) = Len(f[k])
  BY DEF MessageEnd
<1> HIDE DEF n, f
<1>5. g \in [1..n -> Seq(Nat)] /\ \A i \in 1..n : g[i] = Encode(messages[i])
  <2>1. ASSUME NEW i \in 1..n PROVE Encode(messages[i]) \in Seq(Nat)
    <3>1. IsMessage(messages[i])
      BY <1>2
    <3> QED BY <3>1, BodyBytes, EncodeBytes
  <2> QED BY <2>1
<1> HIDE DEF g
<1>6. /\ \A k \in 0..n : f[k] \in Seq(Nat) /\ Len(f[k]) \in Nat
      /\ Len(f[0]) = 0
      /\ \A k \in 0..n - 1 : Behind(f[k + 1], f[k], g[k + 1])
      /\ \A k \in 0..n - 1 :
           /\ Len(f[k + 1]) <= Len(f[n])
           /\ \A p \in 1..Len(g[k + 1]) : f[n][Len(f[k]) + p] = g[k + 1][p]
  BY <1>1, <1>3, <1>5, PieceFacts
<1>7. 0 \in 0..n /\ n \in 0..n
  BY <1>1
<1>8. ASSUME NEW k \in 0..n - 1 PROVE MessageAt(k)
  <2> DEFINE m == messages[k + 1]
             base == Len(f[k])
             e == g[k + 1]
             body == BodyCode(m)
             h == m.filler
  <2>1. k + 1 \in 1..n /\ k \in 0..n
    BY <1>1
  <2>2. IsMessage(m) /\ e = Encode(m)
    BY <1>2, <1>5, <2>1
  <2> HIDE DEF m, e
  <2>3. h \in Nat /\ m.framing \in Nat /\ body \in Seq(Nat)
    BY <2>2, BodyBytes
  <2>4. /\ Len(body) \in Nat
        /\ Len(e) = h + 5 + Len(body)
        /\ HeaderBytes(e, m)
        /\ \A q \in 1..Len(body) : e[h + 5 + q] = body[q]
    BY <2>2, <2>3, EncodeBytes
  <2>5. /\ Behind(f[k + 1], f[k], e)
        /\ Len(f[k + 1]) <= Len(input)
        /\ \A p \in 1..Len(e) : input[base + p] = e[p]
    BY <1>3, <1>6, <1>7 DEF e
  <2>6. base \in Nat /\ Len(f[k + 1]) = base + Len(e)
    BY <2>5 DEF Behind
  <2>7. Len(f[k + 1]) = base + h + 5 + Len(body)
    <3> HIDE DEF base, h, body
    <3> QED BY <2>3, <2>4, <2>6
  <2>8. \A p \in 1..h : p \in 1..Len(e)
    <3> HIDE DEF h, body
    <3> QED BY <2>3, <2>4
  <2>9. h + 1 \in 1..Len(e) /\ h + 2 \in 1..Len(e) /\ h + 3 \in 1..Len(e)
        /\ h + 4 \in 1..Len(e) /\ h + 5 \in 1..Len(e)
        /\ \A q \in 1..Len(body) : h + 5 + q \in 1..Len(e)
    <3> HIDE DEF h, body
    <3> QED BY <2>3, <2>4
  <2>10. \A i \in 1..5 : base + (h + i) = base + h + i
    <3> HIDE DEF h, base
    <3> QED BY <2>3, <2>6
  <2>11. \A q \in 1..Len(body) : base + (h + 5 + q) = base + h + 5 + q
    <3> HIDE DEF h, base, body
    <3> QED BY <2>3, <2>4, <2>6
  <2> HIDE DEF base, body
  <2>12. /\ \A p \in 1..h : e[p] = Filler
         /\ e[h + 1] = m.framing
         /\ e[h + 2] = CR /\ e[h + 3] = LF /\ e[h + 4] = CR /\ e[h + 5] = LF
    BY <2>4 DEF HeaderBytes
  <2> HIDE DEF h
  <2>13. \A p \in 1..h : input[base + p] = Filler
    BY <2>5, <2>8, <2>12
  <2>14. /\ input[base + h + 1] = m.framing
         /\ input[base + h + 2] = CR /\ input[base + h + 3] = LF
         /\ input[base + h + 4] = CR /\ input[base + h + 5] = LF
    <3>1. 1 \in 1..5 /\ 2 \in 1..5 /\ 3 \in 1..5 /\ 4 \in 1..5 /\ 5 \in 1..5
      OBVIOUS
    <3>2. /\ input[base + (h + 1)] = e[h + 1] /\ input[base + (h + 2)] = e[h + 2]
          /\ input[base + (h + 3)] = e[h + 3] /\ input[base + (h + 4)] = e[h + 4]
          /\ input[base + (h + 5)] = e[h + 5]
      BY <2>5, <2>9
    <3>3. /\ base + (h + 1) = base + h + 1 /\ base + (h + 2) = base + h + 2
          /\ base + (h + 3) = base + h + 3 /\ base + (h + 4) = base + h + 4
          /\ base + (h + 5) = base + h + 5
      BY <2>10, <3>1
    <3> QED BY <2>12, <3>2, <3>3
  <2>15. ASSUME NEW q \in 1..Len(body) PROVE input[base + h + 5 + q] = body[q]
    BY <2>4, <2>5, <2>9, <2>11
  <2>16. MessageEnd(k + 1) = Len(f[k + 1]) /\ MessageEnd(k) = base
    BY <1>4 DEF base
  <2>17. MessageEnd(k + 1) = base + h + 5 + Len(body) /\ MessageEnd(k + 1) <= Len(input)
    BY <2>5, <2>7, <2>16
  <2> QED BY <2>2, <2>3, <2>4, <2>6, <2>13, <2>14, <2>15, <2>16, <2>17, Zenon
          DEF MessageAt, m, h, body
<1>9. input \in Seq(Nat)
  BY <1>3, <1>6, <1>7
<1>10. MessageEnd(0) = 0 /\ MessageEnd(n) = Len(input) /\ \A k \in 0..n : MessageEnd(k) \in Nat
  BY <1>3, <1>4, <1>6
<1> QED BY <1>1, <1>8, <1>9, <1>10 DEF n

-----------------------------------------------------------------------------
(* The window of the buffer.                                               *)

\* The inductive invariant: types and window need each other, because the
\* indices stay in range only while a function uses no more than the window.
IInv == TypeOK /\ WindowOK /\ RoomToRead

\* What a parser function is given: CanUsedSize bytes.
LEMMA WindowBytes ==
  ASSUME TypeOK, WindowOK
  PROVE  /\ CanUsedSize \in 0..Size
         /\ CanReadSize \in 0..Size
         /\ \A i \in 1..CanUsedSize : Window[i] \in Nat
BY HttpStreamAssumption DEF TypeOK, WindowOK, CanUsedSize, CanReadSize, Window

\* A mark lies in the window.
LEMMA MarkInWindow ==
  ASSUME NEW mark, Len(mark) \in Nat, CanUsedSize \in Nat, NEW n \in MarkIndex(mark)
  PROVE  n \in Nat /\ n + Len(mark) <= CanUsedSize
BY DEF MarkIndex, Marks

LEMMA MarkLengths == Len(OneMark) = 2 /\ Len(TowMark) = 4
BY DEF OneMark, TowMark, CR, LF

LEMMA InitIInv == HttpInit => IInv
<1> SUFFICES ASSUME HttpInit PROVE IInv
  OBVIOUS
<1>1. input \in Seq(Nat)
  BY MessageFacts DEF HttpInit, Source
<1> QED
  BY <1>1, HttpStreamAssumption
  DEF HttpInit, IInv, TypeOK, WindowOK, RoomToRead, CanUsedSize, Func

\* Using bytes of the window keeps the window: the common part of every parser
\* function.
LEMMA UseKeeps ==
  ASSUME IInv, NEW n \in Nat, n <= CanUsedSize, Use(n),
         pc' \in {"idle", "use"},
         func' \in [state : {"header", "bytes", "chunklength", "chunk"},
                    left : Nat, size : Nat]
  PROVE  IInv'
<1> USE HttpStreamAssumption DEF IInv, TypeOK, WindowOK, Use, CanUsedSize, source
<1>1. TypeOK'
  OBVIOUS
<1>2. WindowOK'
  <2>1. CanUsedSize' = CanUsedSize - n
    OBVIOUS
  <2>2. \A i \in 0..CanUsedSize' - 1 :
          m_buffer'[m_used_offset' + i] = input'[consumed' + i + 1]
    <3> SUFFICES ASSUME NEW i \in 0..CanUsedSize' - 1
                 PROVE  m_buffer'[m_used_offset' + i] = input'[consumed' + i + 1]
      OBVIOUS
    <3>1. n + i \in 0..CanUsedSize - 1
      BY <2>1
    <3>2. m_buffer[m_used_offset + (n + i)] = input[consumed + (n + i) + 1]
      BY <3>1
    <3> QED
      BY <3>2
  <2> QED
    BY <2>1, <2>2
<1>3. RoomToRead'
  BY DEF RoomToRead
<1> QED
  BY <1>1, <1>2, <1>3

\* An exception leaves the buffer as it is.
LEMMA ThrowKeeps ==
  ASSUME IInv, NEW k, Throw(k)
  PROVE  IInv'
BY DEF IInv, TypeOK, WindowOK, RoomToRead, Throw, End, source, buffer, parsing,
       CanUsedSize, CanReadSize

LEMMA UseHeadersKeeps ==
  ASSUME IInv, UseHeaders
  PROVE  IInv'
<1>1. CanUsedSize \in 0..Size /\ \A i \in 1..CanUsedSize : Window[i] \in Nat
  BY WindowBytes DEF IInv
<1>2. PICK n \in MarkIndex(TowMark) :
        \/ /\ \/ func' = Func("chunklength", 0, 0)
              \/ /\ IsLength(Framing(n))
                 /\ func' = Func("bytes", Framing(n) - Length(0), Framing(n) - Length(0))
           /\ Use(n + Len(TowMark))
           /\ pc' = pc
        \/ /\ Use(n + Len(TowMark))
           /\ pc' = "idle"
           /\ func' = func
        \/ Throw("refused")
  BY DEF UseHeaders, End, parsing
<1>3. n \in Nat /\ n + 4 <= CanUsedSize
  <2>1. Len(TowMark) = 4 /\ Len(TowMark) \in Nat /\ CanUsedSize \in Nat
    BY <1>1, MarkLengths, HttpStreamAssumption
  <2>2. n \in Nat /\ n + Len(TowMark) <= CanUsedSize
    BY <2>1, MarkInWindow
  <2> QED
    BY <2>1, <2>2
<1>4. Framing(n) \in Nat
  BY <1>1, <1>3, HttpStreamAssumption DEF Framing
<1>5. CASE Throw("refused")
  BY <1>5, ThrowKeeps
<1>6. CASE ~Throw("refused")
  <2>1. Use(n + 4)
    BY <1>2, <1>6, MarkLengths
  <2>2. pc' \in {"idle", "use"}
    BY <1>2, <1>6 DEF UseHeaders
  <2>3. func' \in [state : {"header", "bytes", "chunklength", "chunk"},
                   left : Nat, size : Nat]
    BY <1>2, <1>4, <1>6 DEF Func, IsLength, Length, IInv, TypeOK
  <2> QED
    BY <1>3, <2>1, <2>2, <2>3, UseKeeps
<1> QED
  BY <1>5, <1>6

LEMMA UseByteArrayKeeps ==
  ASSUME IInv, UseByteArray
  PROVE  IInv'
<1> DEFINE n == IF CanUsedSize > func.left THEN func.left ELSE CanUsedSize
<1>1. CanUsedSize \in Nat /\ func.left \in Nat
  BY WindowBytes, HttpStreamAssumption DEF IInv, TypeOK
<1>2. n \in Nat /\ n <= CanUsedSize /\ n <= func.left
  BY <1>1
<1>3. Use(n) /\ func' = [func EXCEPT !.left = @ - n] /\ pc' \in {"idle", "use"}
  BY DEF UseByteArray, End
<1>4. func' \in [state : {"header", "bytes", "chunklength", "chunk"},
                 left : Nat, size : Nat]
  <2>1. func.left - n \in Nat
    BY <1>1, <1>2
  <2> HIDE DEF n
  <2> QED
    BY <1>3, <2>1 DEF IInv, TypeOK
<1> QED
  BY <1>2, <1>3, <1>4, UseKeeps

LEMMA UseChunkLengthKeeps ==
  ASSUME IInv, UseChunkLength
  PROVE  IInv'
<1>1. CanUsedSize \in 0..Size
  BY WindowBytes DEF IInv
<1>2. PICK n \in MarkIndex(OneMark) :
        \/ /\ Window[1] \in Digit(0)..Digit(9)
           /\ func' = Func("chunk", Window[1] - Digit(0) + Len(OneMark), Window[1] - Digit(0))
           /\ Use(n + Len(OneMark))
           /\ pc' = pc
        \/ Throw("broken")
  BY DEF UseChunkLength
<1>3. n \in Nat /\ n + 2 <= CanUsedSize
  <2>1. Len(OneMark) = 2 /\ Len(OneMark) \in Nat /\ CanUsedSize \in Nat
    BY <1>1, MarkLengths, HttpStreamAssumption
  <2>2. n \in Nat /\ n + Len(OneMark) <= CanUsedSize
    BY <2>1, MarkInWindow
  <2> QED
    BY <2>1, <2>2
<1>4. CASE Throw("broken")
  BY <1>4, ThrowKeeps
<1>5. CASE ~Throw("broken")
  <2>1. Use(n + 2) /\ pc' = "use"
    BY <1>2, <1>5, MarkLengths DEF UseChunkLength
  <2>2. func' \in [state : {"header", "bytes", "chunklength", "chunk"},
                   left : Nat, size : Nat]
    BY <1>2, <1>5, MarkLengths DEF Func, Digit
  <2> QED
    BY <1>3, <2>1, <2>2, UseKeeps
<1> QED
  BY <1>4, <1>5

LEMMA UseChunkKeeps ==
  ASSUME IInv, UseChunk
  PROVE  IInv'
<1> DEFINE n == IF CanUsedSize > func.left THEN func.left ELSE CanUsedSize
<1>1. CanUsedSize \in Nat /\ func.left \in Nat
  BY WindowBytes, HttpStreamAssumption DEF IInv, TypeOK
<1>2. n \in Nat /\ n <= CanUsedSize /\ n <= func.left
  BY <1>1
<1>3. /\ Use(n)
      /\ pc' \in {"idle", "use"}
      /\ \/ func' = [func EXCEPT !.left = func.left - n]
         \/ func' = func
         \/ func' = Func("chunklength", 0, 0)
  BY DEF UseChunk, End
<1>4. func' \in [state : {"header", "bytes", "chunklength", "chunk"},
                 left : Nat, size : Nat]
  <2>1. func.left - n \in Nat
    BY <1>1, <1>2
  <2> HIDE DEF n
  <2> QED
    BY <1>3, <2>1 DEF IInv, TypeOK, Func
<1> QED
  BY <1>2, <1>3, <1>4, UseKeeps

LEMMA MoveKeeps ==
  ASSUME IInv, Move
  PROVE  IInv'
<1> USE HttpStreamAssumption
    DEF IInv, TypeOK, WindowOK, Move, CanUsedSize, CanReadSize, source, parsing
<1>1. CanUsedSize \in 0..Size /\ CanUsedSize < Size
  OBVIOUS
<1>2. CanUsedSize' = CanUsedSize
  OBVIOUS
<1>3. m_buffer' \in [0..Size - 1 -> Nat]
  <2>1. \A i \in 0..Size - 1 : i < CanUsedSize => m_used_offset + i \in 0..Size - 1
    OBVIOUS
  <2> QED
    BY <2>1
<1>4. TypeOK'
  BY <1>1, <1>3
<1>5. \A i \in 0..CanUsedSize - 1 : m_buffer'[i] = m_buffer[m_used_offset + i]
  BY <1>1
<1>6. WindowOK'
  <2>1. \A i \in 0..CanUsedSize' - 1 :
          m_buffer'[m_used_offset' + i] = input'[consumed' + i + 1]
    <3> SUFFICES ASSUME NEW i \in 0..CanUsedSize - 1
                 PROVE  m_buffer'[0 + i] = input[consumed + i + 1]
      BY <1>2
    <3>1. 0 + i = i
      OBVIOUS
    <3>2. m_buffer'[i] = m_buffer[m_used_offset + i]
      BY <1>5
    <3> QED
      BY <3>1, <3>2
  <2>2. /\ m_used_offset' <= m_read_offset' /\ m_read_offset' <= Size
        /\ received' = consumed' + CanUsedSize'
    BY <1>1, <1>2
  <2> HIDE DEF CanUsedSize, Move, TypeOK
  <2> QED
    BY <2>1, <2>2
<1>7. RoomToRead'
  BY <1>1 DEF RoomToRead
<1> QED
  BY <1>4, <1>6, <1>7

LEMMA ReceiveKeeps ==
  ASSUME IInv, NEW n \in 1..CanReadSize, Receive(n)
  PROVE  IInv'
<1> USE HttpStreamAssumption
    DEF IInv, TypeOK, WindowOK, Receive, CanUsedSize, CanReadSize, source, parsing
<1>1. CanReadSize \in 0..Size /\ n \in Nat /\ m_read_offset + n <= Size
  OBVIOUS
<1>2. \A i \in 0..Size - 1 :
        (m_read_offset <= i /\ i < m_read_offset + n)
          => received + i - m_read_offset + 1 \in 1..Len(input)
  BY <1>1
<1>3. \A j \in 1..Len(input) : input[j] \in Nat
  BY ElementOfSeq
<1>4. m_buffer' \in [0..Size - 1 -> Nat]
  BY <1>1, <1>2, <1>3
<1>5. TypeOK'
  <2>1. Len(input) \in Nat
    BY LenProperties
  <2>2. received' = received + n /\ received' \in 0..Len(input)
    BY <1>1, <2>1
  <2>3. /\ input' = input /\ consumed' = consumed /\ func' = func
        /\ m_used_offset' = m_used_offset
        /\ m_read_offset' \in 0..Size /\ pc' = "use"
    BY <1>1
  <2>4. TypeOK
    OBVIOUS
  <2> HIDE DEF IInv, WindowOK, Receive
  <2> QED
    BY <1>4, <2>2, <2>3, <2>4
<1>6. CanUsedSize' = CanUsedSize + n
  BY <1>1
<1>7. ASSUME NEW i \in 0..CanUsedSize' - 1
      PROVE  m_buffer'[m_used_offset + i] = input[consumed + i + 1]
  <2>1. m_used_offset + i \in 0..Size - 1
    BY <1>1, <1>6
  <2>2. CASE i < CanUsedSize
    <3>1. i \in 0..CanUsedSize - 1 /\ ~(m_read_offset <= m_used_offset + i)
      BY <2>2
    <3>2. m_buffer'[m_used_offset + i] = m_buffer[m_used_offset + i]
      BY <2>1, <3>1
    <3> QED
      BY <3>1, <3>2
  <2>3. CASE i >= CanUsedSize
    <3>1. m_read_offset <= m_used_offset + i /\ m_used_offset + i < m_read_offset + n
      BY <1>1, <1>6, <2>3
    <3>2. received + (m_used_offset + i) - m_read_offset + 1 = consumed + i + 1
      BY <1>1
    <3>3. m_buffer'[m_used_offset + i]
            = input[received + (m_used_offset + i) - m_read_offset + 1]
      BY <2>1, <3>1
    <3> QED
      BY <3>2, <3>3
  <2> QED
    BY <1>1, <1>6, <2>2, <2>3
<1>8. WindowOK'
  <2>1. m_used_offset' = m_used_offset /\ consumed' = consumed /\ input' = input
    OBVIOUS
  <2>2. \A i \in 0..CanUsedSize' - 1 :
          m_buffer'[m_used_offset' + i] = input'[consumed' + i + 1]
    BY <1>7, <2>1
  <2>3. /\ m_used_offset' <= m_read_offset' /\ m_read_offset' <= Size
        /\ received' = consumed' + CanUsedSize'
    BY <1>1, <1>6
  <2> HIDE DEF CanUsedSize, Receive, TypeOK
  <2> QED
    BY <2>2, <2>3
<1>9. RoomToRead'
  BY DEF RoomToRead
<1> QED
  BY <1>5, <1>8, <1>9

LEMMA NextIInv == IInv /\ [HttpNext]_httpVars => IInv'
<1> SUFFICES ASSUME IInv, [HttpNext]_httpVars PROVE IInv'
  OBVIOUS
<1>1. CASE ReadAsync
  BY <1>1, HttpStreamAssumption
  DEF IInv, TypeOK, WindowOK, RoomToRead, ReadAsync, Func, source, buffer,
      CanUsedSize, CanReadSize
<1>2. CASE UseHeaders
  BY <1>2, UseHeadersKeeps
<1>3. CASE UseByteArray
  BY <1>3, UseByteArrayKeeps
<1>4. CASE UseChunkLength
  BY <1>4, UseChunkLengthKeeps
<1>5. CASE UseChunk
  BY <1>5, UseChunkKeeps
<1>6. CASE NotResult
  BY <1>6
  DEF IInv, TypeOK, WindowOK, RoomToRead, NotResult, source, buffer, parsing,
      CanUsedSize, CanReadSize
<1>7. CASE Move
  BY <1>7, MoveKeeps
<1>8. CASE MoveOverflow
  BY <1>8, ThrowKeeps DEF MoveOverflow
<1>9. CASE \E n \in 1..CanReadSize : Receive(n)
  BY <1>9, ReceiveKeeps
<1>10. CASE ReceiveEnd
  BY <1>10, ThrowKeeps DEF ReceiveEnd
<1>11. CASE UNCHANGED httpVars
  BY <1>11
  DEF IInv, TypeOK, WindowOK, RoomToRead, httpVars, source, buffer, parsing,
      CanUsedSize, CanReadSize
<1> QED
  BY <1>1, <1>2, <1>3, <1>4, <1>5, <1>6, <1>7, <1>8, <1>9, <1>10, <1>11 DEF HttpNext

\* Indices, counters and the parser's captured state have their types: the
\* offsets of m_buffer never leave it.
THEOREM TypeCorrect == HttpSpec => []TypeOK
<1>1. IInv => TypeOK
  BY DEF IInv
<1> QED
  BY <1>1, InitIInv, NextIInv, PTL DEF HttpSpec

\* Through every Move and every read, the window is the next part of the input.
THEOREM WindowCorrect == HttpSpec => []WindowOK
<1>1. IInv => WindowOK
  BY DEF IInv
<1> QED
  BY <1>1, InitIInv, NextIInv, PTL DEF HttpSpec

\* ReadAsync never passes an empty piece of memory to the socket, so that zero
\* bytes always mean the end of the stream.
THEOREM RoomCorrect == HttpSpec => []RoomToRead
<1>1. IInv => RoomToRead
  BY DEF IInv
<1> QED
  BY <1>1, InitIInv, NextIInv, PTL DEF HttpSpec

-----------------------------------------------------------------------------
(* The header that stays.                                                  *)

EndedAs(kind) == \E i \in 1..Len(returned) : returned[i].kind = kind

\* What UseHeaders refuses.
Refuses(n) ==
  IF reading = "request" THEN Framing(n) # Length(0)
  ELSE ~(Framing(n) = Chunked
         \/ (IsLength(Framing(n)) /\ Framing(n) - Length(0) <= MaxContentSize))

\* What makes RefusalStays inductive: after a refusal the refused header is still
\* the first in the buffer, after an overflow the buffer is full of a header's
\* beginning, and in neither case has a call come further than the header.
RefusedHead ==
  /\ \E n \in MarkIndex(TowMark) : Refuses(n)
  /\ pc = "idle" \/ (pc = "use" /\ func.state = "header")

OverflownHead ==
  /\ CanUsedSize = Size
  /\ Marks(TowMark) = {}
  /\ pc \in {"idle", "move"} \/ (pc = "use" /\ func.state = "header")

HeadInv ==
  /\ reading \in Readings
  /\ pc = "move" => CanUsedSize = 0 \/ Marks(TowMark) = {}
  /\ EndedAs("refused") => RefusedHead
  /\ EndedAs("overflow") => OverflownHead

ResultsInv == RefusalStays /\ \E S : returned \in Seq(S)

StaysInv == HeadInv /\ ResultsInv

Stopped == EndedAs("refused") \/ EndedAs("overflow")

\* A call that ends as the one before it did, when that one was stopped.
LEMMA EndStays ==
  ASSUME ResultsInv, NEW kind, NEW bytes, End(kind, bytes),
         EndedAs("refused") => kind = "refused",
         EndedAs("overflow") => kind = "overflow"
  PROVE  /\ ResultsInv'
         /\ \A k : EndedAs(k)' <=> EndedAs(k) \/ k = kind
<1> DEFINE e == [kind |-> kind, content |-> bytes]
<1>1. returned' = Append(returned, e) /\ e.kind = kind
  BY DEF End
<1> HIDE DEF e
<1>2. PICK S : returned \in Seq(S)
  BY DEF ResultsInv
<1>3. returned \in Seq(S \cup {e}) /\ e \in S \cup {e}
  <2>1. Len(returned) \in Nat /\ returned \in [1..Len(returned) -> S]
    BY <1>2
  <2> QED BY <2>1
<1>4. /\ returned' \in Seq(S \cup {e})
      /\ Len(returned') = Len(returned) + 1
      /\ \A i \in 1..Len(returned) : returned'[i] = returned[i]
      /\ returned'[Len(returned) + 1] = e
  BY <1>1, <1>3, AppendProperties
<1>5. Len(returned) \in Nat
  BY <1>2
<1>6. ASSUME NEW k
      PROVE  EndedAs(k)' <=> EndedAs(k) \/ k = kind
  <2>1. \A i \in 1..Len(returned) : i \in 1..Len(returned')
    BY <1>4, <1>5
  <2>2. Len(returned) + 1 \in 1..Len(returned')
    BY <1>4, <1>5
  <2>3. \A i \in 1..Len(returned') : i \in 1..Len(returned) \/ i = Len(returned) + 1
    BY <1>4, <1>5
  <2>4. EndedAs(k)' <=> \E i \in 1..Len(returned') : returned'[i].kind = k
    BY DEF EndedAs
  <2> QED BY <1>1, <1>4, <2>1, <2>2, <2>3, <2>4 DEF EndedAs
<1>7. RefusalStays'
  <2> SUFFICES ASSUME NEW i \in 1..Len(returned'), NEW j \in i..Len(returned'),
                      returned'[i].kind \in {"refused", "overflow"}
               PROVE  returned'[j].kind = returned'[i].kind
    BY DEF RefusalStays
  <2>1. CASE j = Len(returned) + 1 /\ i # j
    <3>1. i \in 1..Len(returned) /\ returned'[i] = returned[i]
      BY <1>4, <1>5, <2>1
    <3>2. EndedAs(returned[i].kind) /\ returned[i].kind \in {"refused", "overflow"}
      BY <3>1 DEF EndedAs
    <3>3. returned'[j].kind = kind
      BY <1>1, <1>4, <2>1
    <3> QED BY <3>1, <3>2, <3>3
  <2>2. CASE j # Len(returned) + 1
    <3>1. i \in 1..Len(returned) /\ j \in i..Len(returned) /\ j \in 1..Len(returned)
      BY <1>4, <1>5, <2>2
    <3>2. returned'[i] = returned[i] /\ returned'[j] = returned[j]
      BY <1>4, <3>1
    <3> QED BY <3>1, <3>2 DEF ResultsInv, RefusalStays
  <2> QED BY <2>1, <2>2
<1> QED BY <1>4, <1>6, <1>7 DEF ResultsInv

\* An untouched buffer has the same marks and headers.
LEMMA BufferStays ==
  ASSUME UNCHANGED buffer
  PROVE  /\ CanUsedSize' = CanUsedSize
         /\ MarkIndex(TowMark)' = MarkIndex(TowMark)
         /\ Marks(TowMark)' = Marks(TowMark)
         /\ \A n : Framing(n)' = Framing(n)
BY DEF buffer, CanUsedSize, MarkIndex, Marks, Window, Framing

\* There is one first mark.
LEMMA FirstMark ==
  ASSUME IInv, NEW n \in MarkIndex(TowMark), NEW m \in MarkIndex(TowMark)
  PROVE  n = m /\ n \in Marks(TowMark) /\ CanUsedSize # 0
<1>1. CanUsedSize \in Nat /\ Len(TowMark) = 4
  BY WindowBytes, MarkLengths, HttpStreamAssumption DEF IInv
<1>2. n \in Marks(TowMark) /\ m \in Marks(TowMark) /\ n <= m /\ m <= n
  BY DEF MarkIndex
<1>3. n \in 0..CanUsedSize - 4 /\ m \in 0..CanUsedSize - 4
  BY <1>1, <1>2 DEF Marks
<1> QED BY <1>1, <1>2, <1>3

\* Where no line ends, no header does.
LEMMA NoLineNoHeader ==
  ASSUME IInv, Marks(OneMark) = {}
  PROVE  Marks(TowMark) = {}
<1> SUFFICES ASSUME NEW i \in Marks(TowMark)
             PROVE  FALSE
  OBVIOUS
<1>1. CanUsedSize \in Nat /\ \A k \in 1..CanUsedSize : Window[k] \in Nat
  BY WindowBytes, HttpStreamAssumption DEF IInv
<1>2. i \in 0..CanUsedSize - 4 /\ SubSeq(Window, i + 1, i + 4) = TowMark
  BY MarkLengths DEF Marks
<1>3. \A k \in i + 1..i + 4 : Window[k] \in Nat
  BY <1>1, <1>2
<1>4. \A k \in 1..4 : SubSeq(Window, i + 1, i + 4)[k] = Window[i + k]
  <2>1. \A k \in 1..(i + 4) - (i + 1) + 1 :
          SubSeq(Window, i + 1, i + 4)[k] = Window[(i + 1) + k - 1]
    BY <1>2, <1>3, SubSeqProperties
  <2>2. (i + 4) - (i + 1) + 1 = 4 /\ \A k \in 1..4 : (i + 1) + k - 1 = i + k
    BY <1>2
  <2> QED BY <2>1, <2>2
<1>5. Window[i + 1] = CR /\ Window[i + 2] = LF
  <2>1. TowMark[1] = CR /\ TowMark[2] = LF
    BY DEF TowMark, CR, LF
  <2>2. 1 \in 1..4 /\ 2 \in 1..4
    OBVIOUS
  <2> QED BY <1>2, <1>4, <2>1, <2>2
<1>6. /\ SubSeq(Window, i + 1, i + 2) \in Seq(Nat)
      /\ Len(SubSeq(Window, i + 1, i + 2)) = 2
      /\ \A k \in 1..2 : SubSeq(Window, i + 1, i + 2)[k] = Window[i + k]
  <2>1. \A k \in i + 1..i + 2 : Window[k] \in Nat
    BY <1>2, <1>3
  <2>2. /\ SubSeq(Window, i + 1, i + 2) \in Seq(Nat)
        /\ Len(SubSeq(Window, i + 1, i + 2)) = IF i + 1 <= i + 2 THEN (i + 2) - (i + 1) + 1 ELSE 0
        /\ \A k \in 1..(i + 2) - (i + 1) + 1 :
             SubSeq(Window, i + 1, i + 2)[k] = Window[(i + 1) + k - 1]
    BY <1>2, <2>1, SubSeqProperties
  <2>3. (i + 2) - (i + 1) + 1 = 2 /\ \A k \in 1..2 : (i + 1) + k - 1 = i + k
    BY <1>2
  <2> QED BY <1>2, <2>2, <2>3
<1>7. SubSeq(Window, i + 1, i + 2) = OneMark
  <2>1. OneMark \in Seq(Nat) /\ Len(OneMark) = 2 /\ OneMark[1] = CR /\ OneMark[2] = LF
    BY DEF OneMark, CR, LF
  <2>2. \A k \in 1..2 : k = 1 \/ k = 2
    OBVIOUS
  <2>3. \A k \in 1..2 : SubSeq(Window, i + 1, i + 2)[k] = OneMark[k]
    BY <1>5, <1>6, <2>1, <2>2
  <2> QED BY <1>6, <2>1, <2>3, SeqEqual
<1>8. i \in Marks(OneMark)
  BY <1>1, <1>2, <1>7, MarkLengths DEF Marks
<1> QED BY <1>8

LEMMA StaysInitially ==
  HttpInit => StaysInv
<1> SUFFICES ASSUME HttpInit PROVE StaysInv
  OBVIOUS
<1>1. returned = <<>> /\ pc = "idle" /\ reading \in Readings
  BY DEF HttpInit
<1>2. \A k : ~EndedAs(k)
  BY <1>1 DEF EndedAs
<1>3. RefusalStays
  BY <1>1 DEF RefusalStays
<1>4. \E S : returned \in Seq(S)
  <2>1. <<>> \in Seq(Nat)
    OBVIOUS
  <2> QED BY <1>1, <2>1
<1> QED BY <1>1, <1>2, <1>3, <1>4 DEF StaysInv, HeadInv, ResultsInv

\* A step that reads or uses the buffer, or ends a call in another way: none of
\* these happens to a stream that is stopped.
LEMMA StaysGoing ==
  ASSUME StaysInv, ~Stopped, reading' = reading, pc' # "move",
         returned' = returned
           \/ \E kind, bytes : End(kind, bytes) /\ kind \notin {"refused", "overflow"}
  PROVE  StaysInv'
<1>1. CASE returned' = returned
  <2>1. ResultsInv' /\ \A k : EndedAs(k)' <=> EndedAs(k)
    BY <1>1 DEF StaysInv, ResultsInv, RefusalStays, EndedAs
  <2> QED BY <2>1 DEF StaysInv, HeadInv, Stopped
<1>2. CASE \E kind, bytes : End(kind, bytes) /\ kind \notin {"refused", "overflow"}
  <2>1. PICK kind, bytes : End(kind, bytes) /\ kind \notin {"refused", "overflow"}
    BY <1>2
  <2>2. ResultsInv' /\ \A k : EndedAs(k)' <=> EndedAs(k) \/ k = kind
    BY <2>1, EndStays DEF StaysInv, Stopped
  <2> QED BY <2>1, <2>2 DEF StaysInv, HeadInv, Stopped
<1> QED BY <1>1, <1>2

\* Refusing again leaves the header where it is.
LEMMA RefuseStays ==
  ASSUME StaysInv, UNCHANGED <<reading, buffer>>, NEW n \in MarkIndex(TowMark), Refuses(n),
         End("refused", <<>>), ~EndedAs("overflow")
  PROVE  StaysInv'
<1>1. ResultsInv' /\ \A k : EndedAs(k)' <=> EndedAs(k) \/ k = "refused"
  BY EndStays DEF StaysInv
<1>2. pc' = "idle"
  BY DEF End
<1>3. n \in MarkIndex(TowMark)' /\ Refuses(n)'
  BY BufferStays DEF Refuses
<1>4. RefusedHead'
  BY <1>2, <1>3 DEF RefusedHead
<1> QED BY <1>1, <1>2, <1>4 DEF StaysInv, HeadInv

LEMMA OverflowStays ==
  ASSUME IInv, StaysInv, MoveOverflow
  PROVE  StaysInv'
<1>1. /\ UNCHANGED <<reading, buffer>> /\ End("overflow", <<>>)
      /\ pc = "move" /\ pc' = "idle" /\ CanUsedSize = Size
  BY DEF MoveOverflow, Throw, End, source
<1>2. ~EndedAs("refused")
  BY <1>1 DEF StaysInv, HeadInv, RefusedHead
<1>3. Marks(TowMark) = {}
  BY <1>1, HttpStreamAssumption DEF StaysInv, HeadInv
<1>4. ResultsInv' /\ \A k : EndedAs(k)' <=> EndedAs(k) \/ k = "overflow"
  BY <1>1, <1>2, EndStays DEF StaysInv
<1>5. OverflownHead'
  BY <1>1, <1>3, BufferStays DEF OverflownHead
<1> QED BY <1>1, <1>2, <1>4, <1>5 DEF StaysInv, HeadInv

LEMMA HeadersStay ==
  ASSUME IInv, StaysInv, UseHeaders
  PROVE  StaysInv'
<1>1. PICK n \in MarkIndex(TowMark) :
        \/ /\ ~Refuses(n) /\ reading' = reading /\ pc' # "move"
           /\ returned' = returned \/ End("message", <<>>)
        \/ /\ Refuses(n) /\ Throw("refused")
  BY DEF UseHeaders, Refuses, Use, End, source, HeadInv, StaysInv, Readings
<1>2. ~EndedAs("overflow")
  BY FirstMark DEF StaysInv, HeadInv, OverflownHead
<1>3. CASE Refuses(n) /\ Throw("refused")
  BY <1>2, <1>3, RefuseStays DEF Throw, source
<1>4. CASE /\ ~Refuses(n) /\ reading' = reading /\ pc' # "move"
           /\ returned' = returned \/ End("message", <<>>)
  <2>1. ~EndedAs("refused")
    BY <1>4, FirstMark DEF StaysInv, HeadInv, RefusedHead
  <2> QED BY <1>2, <1>4, <2>1, StaysGoing DEF Stopped
<1> QED BY <1>1, <1>3, <1>4

LEMMA StaysStep ==
  IInv /\ StaysInv /\ [HttpNext]_httpVars => StaysInv'
<1> SUFFICES ASSUME IInv, StaysInv, [HttpNext]_httpVars PROVE StaysInv'
  OBVIOUS
<1>1. ASSUME UNCHANGED <<reading, buffer, returned>>,
             pc' = "move" => CanUsedSize = 0 \/ Marks(TowMark) = {},
             EndedAs("refused") =>
               pc' = "idle" \/ (pc' = "use" /\ func'.state = "header"),
             EndedAs("overflow") =>
               pc' \in {"idle", "move"} \/ (pc' = "use" /\ func'.state = "header")
      PROVE  StaysInv'
  <2>1. ResultsInv' /\ \A k : EndedAs(k)' <=> EndedAs(k)
    BY <1>1 DEF StaysInv, ResultsInv, RefusalStays, EndedAs
  <2>2. EndedAs("refused") => RefusedHead'
    <3>1. \A n : Refuses(n)' <=> Refuses(n)
      BY <1>1, BufferStays DEF Refuses
    <3> QED BY <1>1, <3>1, BufferStays DEF StaysInv, HeadInv, RefusedHead
  <2>3. EndedAs("overflow") => OverflownHead'
    BY <1>1, BufferStays DEF StaysInv, HeadInv, OverflownHead
  <2> QED BY <1>1, <2>1, <2>2, <2>3, BufferStays DEF StaysInv, HeadInv
<1>2. CASE UNCHANGED httpVars
  BY <1>1, <1>2 DEF httpVars, source, parsing, StaysInv, HeadInv, RefusedHead, OverflownHead
<1>3. CASE ReadAsync
  BY <1>1, <1>3 DEF ReadAsync, Func, source
<1>4. CASE UseHeaders
  BY <1>4, HeadersStay
<1>5. CASE UseByteArray
  <2>1. ~Stopped
    BY <1>5 DEF UseByteArray, StaysInv, HeadInv, RefusedHead, OverflownHead, Stopped
  <2>2. /\ reading' = reading /\ pc' # "move"
        /\ returned' = returned \/ End("message", content')
    BY <1>5 DEF UseByteArray, Use, End, source
  <2> QED BY <2>1, <2>2, StaysGoing
<1>6. CASE UseChunkLength
  <2>1. ~Stopped
    BY <1>6 DEF UseChunkLength, StaysInv, HeadInv, RefusedHead, OverflownHead, Stopped
  <2>2. /\ reading' = reading /\ pc' # "move"
        /\ returned' = returned \/ End("broken", <<>>)
    BY <1>6 DEF UseChunkLength, Use, Throw, End, source
  <2> QED BY <2>1, <2>2, StaysGoing
<1>7. CASE UseChunk
  <2>1. ~Stopped
    BY <1>7 DEF UseChunk, StaysInv, HeadInv, RefusedHead, OverflownHead, Stopped
  <2>2. /\ reading' = reading /\ pc' # "move"
        /\ returned' = returned \/ End("message", content')
    BY <1>7 DEF UseChunk, Use, End, source
  <2> QED BY <2>1, <2>2, StaysGoing
<1>8. CASE NotResult
  <2>1. /\ UNCHANGED <<reading, buffer, returned>> /\ pc = "use" /\ pc' = "move"
        /\ \/ CanUsedSize = 0
           \/ func.state = "header" /\ Marks(TowMark) = {}
           \/ func.state = "chunklength" /\ Marks(OneMark) = {}
    BY <1>8 DEF NotResult, IsFindMark, source
  <2>2. CanUsedSize = 0 \/ Marks(TowMark) = {}
    BY <2>1, NoLineNoHeader
  <2>3. ~EndedAs("refused")
    <3>1. MarkIndex(TowMark) = {} \/ CanUsedSize = 0
      BY <2>2 DEF MarkIndex
    <3> QED BY <3>1, FirstMark DEF StaysInv, HeadInv, RefusedHead
  <2> QED BY <1>1, <2>1, <2>2, <2>3
<1>9. CASE Move
  <2>1. ~Stopped
    BY <1>9 DEF Move, StaysInv, HeadInv, RefusedHead, OverflownHead, Stopped
  <2> QED BY <1>9, <2>1, StaysGoing DEF Move, source
<1>10. CASE MoveOverflow
  BY <1>10, OverflowStays
<1>11. ASSUME pc = "read"
       PROVE  ~Stopped
  BY <1>11 DEF StaysInv, HeadInv, RefusedHead, OverflownHead, Stopped
<1>12. CASE \E n \in 1..CanReadSize : Receive(n)
  BY <1>11, <1>12, StaysGoing DEF Receive, source
<1>13. CASE ReceiveEnd
  <2>1. reading' = reading /\ pc' # "move" /\ End("io", <<>>) /\ pc = "read"
    BY <1>13 DEF ReceiveEnd, Throw, End, source
  <2> QED BY <1>11, <2>1, StaysGoing
<1> QED
  BY <1>2, <1>3, <1>4, <1>5, <1>6, <1>7, <1>8, <1>9, <1>10, <1>12, <1>13 DEF HttpNext

\* Whatever the peer sends and however it is cut, a stream that has refused a header
\* or was too short for one gives every later call the same answer: nothing that
\* MHttpStream.ReadAsync does on its way out moves the parser past that header.
THEOREM RefusalAlwaysStays == HttpSpec => []RefusalStays
<1>1. StaysInv => RefusalStays
  BY DEF StaysInv, ResultsInv
<1>2. IInv /\ StaysInv /\ [HttpNext]_httpVars => IInv' /\ StaysInv'
  BY NextIInv, StaysStep
<1> QED BY InitIInv, StaysInitially, <1>1, <1>2, PTL DEF HttpSpec

-----------------------------------------------------------------------------
(* What the calls return: a slice of the window, and the bytes written.    *)

LEMMA Slice ==
  ASSUME NEW s \in Seq(Nat), NEW a \in Nat, NEW n \in Nat, a + n <= Len(s),
         NEW r, r = SubSeq(s, a + 1, a + n)
  PROVE  r \in Seq(Nat) /\ Len(r) = n /\ \A q \in 1..n : r[q] = s[a + q]
<1>1. \A i \in a + 1..a + n : s[i] \in Nat
  OBVIOUS
<1>2. a + 1 \in Int /\ a + n \in Int
  OBVIOUS
<1>3. /\ r \in Seq(Nat)
      /\ Len(r) = IF a + 1 <= a + n THEN (a + n) - (a + 1) + 1 ELSE 0
      /\ \A i \in 1..(a + n) - (a + 1) + 1 : r[i] = s[(a + 1) + i - 1]
  BY <1>1, <1>2, SubSeqProperties
<1>4. Len(r) = n
  BY <1>3
<1>5. ASSUME NEW q \in 1..n PROVE r[q] = s[a + q]
  <2>1. q \in 1..(a + n) - (a + 1) + 1 /\ (a + 1) + q - 1 = a + q
    OBVIOUS
  <2> QED BY <1>3, <2>1
<1> QED BY <1>3, <1>4, <1>5

Overwritten(s, p, b, r) ==
  /\ r \in Seq(Nat)
  /\ Len(b) \in Nat /\ Len(s) \in Nat
  /\ Len(r) = IF p + Len(b) >= Len(s) THEN p + Len(b) ELSE Len(s)
  /\ \A q \in 1..p : r[q] = s[q]
  /\ \A q \in 1..Len(b) : r[p + q] = b[q]

\* MemoryStream.Write: what is before and behind the bytes stays.
LEMMA OverwriteFacts ==
  ASSUME NEW s \in Seq(Nat), NEW p \in Nat, p <= Len(s), NEW b \in Seq(Nat),
         NEW r, r = Overwrite(s, p, b)
  PROVE  Overwritten(s, p, b, r)
<1> DEFINE l == Len(s)
           e == p + Len(b)
           u == SubSeq(s, 1, p)
           w == SubSeq(s, e + 1, l)
           ub == u \o b
<1>1. l \in Nat /\ e \in Nat /\ Len(b) \in Nat
  OBVIOUS
<1>2. u \in Seq(Nat) /\ Len(u) = p /\ \A q \in 1..p : u[q] = s[q]
  <2>1. \A i \in 1..p : s[i] \in Nat
    OBVIOUS
  <2>2. /\ u \in Seq(Nat)
        /\ Len(u) = IF 1 <= p THEN p - 1 + 1 ELSE 0
        /\ \A i \in 1..p - 1 + 1 : u[i] = s[1 + i - 1]
    BY <2>1, SubSeqProperties
  <2> HIDE DEF u
  <2> QED BY <2>2
<1>3. w \in Seq(Nat) /\ Len(w) = IF e + 1 <= l THEN l - e ELSE 0
  <2>1. \A i \in e + 1..l : s[i] \in Nat
    BY <1>1
  <2>2. /\ w \in Seq(Nat)
        /\ Len(w) = IF e + 1 <= l THEN l - (e + 1) + 1 ELSE 0
    BY <1>1, <2>1, SubSeqProperties
  <2> HIDE DEF w
  <2>3. l - (e + 1) + 1 = l - e
    <3> HIDE DEF l, e
    <3> QED BY <1>1
  <2> QED BY <2>2, <2>3
<1>4. r = ub \o w
  BY DEF Overwrite
<1> HIDE DEF u, w
<1>5. Behind(ub, u, b)
  BY <1>2, TwoPieces
<1> HIDE DEF ub
<1>6. Behind(r, ub, w)
  <2>1. ub \in Seq(Nat)
    BY <1>5 DEF Behind
  <2> QED BY <1>3, <1>4, <2>1, TwoPieces
<1>7. Len(ub) = e
  BY <1>2, <1>5 DEF Behind
<1>8. Len(r) = e + Len(w)
  BY <1>6, <1>7 DEF Behind
<1> HIDE DEF l
<1>9. Len(r) = IF e >= l THEN e ELSE l
  <2> HIDE DEF e
  <2> QED BY <1>1, <1>3, <1>8
<1>10. ASSUME NEW q \in 1..p PROVE r[q] = s[q]
  <2>1. q \in 1..Len(u) /\ q \in 1..Len(ub)
    BY <1>1, <1>2, <1>7
  <2>2. r[q] = ub[q]
    BY <1>6, <2>1 DEF Behind
  <2>3. ub[q] = u[q]
    BY <1>5, <2>1 DEF Behind
  <2> QED BY <1>2, <2>2, <2>3
<1>11. ASSUME NEW q \in 1..Len(b) PROVE r[p + q] = b[q]
  <2>1. p + q \in 1..Len(ub)
    BY <1>1, <1>7
  <2>2. r[p + q] = ub[p + q]
    BY <1>6, <2>1 DEF Behind
  <2>3. ub[Len(u) + q] = b[q]
    BY <1>5 DEF Behind
  <2> QED BY <1>2, <2>2, <2>3
<1>12. r \in Seq(Nat)
  BY <1>6 DEF Behind
<1> QED BY <1>1, <1>9, <1>10, <1>11, <1>12 DEF Overwritten, l, e

LEMMA WindowInput ==
  ASSUME IInv
  PROVE  /\ CanUsedSize \in Nat /\ CanUsedSize <= Size
         /\ Window \in Seq(Nat) /\ Len(Window) = CanUsedSize
         /\ consumed \in Nat /\ received = consumed + CanUsedSize /\ received <= Len(input)
         /\ \A p \in 1..CanUsedSize : Window[p] = input[consumed + p]
<1>1. /\ CanUsedSize \in 0..Size /\ Size \in Nat
      /\ \A i \in 1..CanUsedSize : Window[i] \in Nat
  BY WindowBytes, HttpStreamAssumption DEF IInv
<1>2. Window = [i \in 1..CanUsedSize |-> m_buffer[m_used_offset + i - 1]]
  BY DEF Window
<1>3. \A i \in 1..CanUsedSize : Window[i] = m_buffer[m_used_offset + i - 1]
  BY <1>2
<1>4. Window \in Seq(Nat) /\ Len(Window) = CanUsedSize
  <2> DEFINE w == Window
             n == CanUsedSize
  <2>1. w \in [1..n -> Nat] /\ n \in Nat
    BY <1>1, <1>2
  <2> HIDE DEF w, n
  <2>2. w \in Seq(Nat) /\ Len(w) = n
    BY <2>1
  <2> QED BY <2>2 DEF w, n
<1>5. consumed \in Nat /\ received = consumed + CanUsedSize /\ received <= Len(input)
  <2>1. received = consumed + CanUsedSize
    BY DEF IInv, WindowOK
  <2>2. Len(input) \in Nat /\ consumed \in 0..Len(input) /\ received \in 0..Len(input)
    BY DEF IInv, TypeOK
  <2> QED BY <2>1, <2>2
<1>6. ASSUME NEW p \in 1..CanUsedSize PROVE Window[p] = input[consumed + p]
  <2>1. \A i \in 0..CanUsedSize - 1 : m_buffer[m_used_offset + i] = input[consumed + i + 1]
    BY DEF IInv, WindowOK
  <2>2. p - 1 \in 0..CanUsedSize - 1
    BY <1>1
  <2>3. m_buffer[m_used_offset + (p - 1)] = input[consumed + (p - 1) + 1]
    BY <2>1, <2>2
  <2>4. m_used_offset + (p - 1) = m_used_offset + p - 1 /\ consumed + (p - 1) + 1 = consumed + p
    BY <1>1, <1>5 DEF IInv, TypeOK
  <2> QED BY <1>3, <2>3, <2>4
<1> QED BY <1>1, <1>4, <1>5, <1>6

\* Where a mark of n bytes is in the window.
LEMMA MarkThere ==
  ASSUME IInv, NEW mark \in Seq(Nat), NEW i
  PROVE  i \in Marks(mark) <=> /\ i \in 0..CanUsedSize - Len(mark)
                               /\ \A q \in 1..Len(mark) : Window[i + q] = mark[q]
<1>1. /\ CanUsedSize \in Nat /\ Window \in Seq(Nat) /\ Len(Window) = CanUsedSize
      /\ Len(mark) \in Nat
  BY WindowInput
<1>2. CASE i \in 0..CanUsedSize - Len(mark)
  <2> DEFINE r == SubSeq(Window, i + 1, i + Len(mark))
  <2>1. i \in Nat /\ i + Len(mark) <= Len(Window)
    BY <1>1, <1>2
  <2>2. r \in Seq(Nat) /\ Len(r) = Len(mark) /\ \A q \in 1..Len(mark) : r[q] = Window[i + q]
    BY <1>1, <2>1, Slice
  <2>3. i \in Marks(mark) <=> r = mark
    BY <1>2 DEF Marks
  <2> HIDE DEF r
  <2>4. r = mark <=> \A q \in 1..Len(mark) : r[q] = mark[q]
    BY <2>2, SeqEqual
  <2> QED BY <1>2, <2>2, <2>3, <2>4
<1>3. CASE i \notin 0..CanUsedSize - Len(mark)
  BY <1>3 DEF Marks
<1> QED BY <1>2, <1>3

-----------------------------------------------------------------------------
(* Where the parser is while no call has failed.                           *)

Fits(m) == m.filler + 5 <= Size

LengthTaken(m) == IsLength(m.framing) /\ m.framing - Length(0) <= MaxContentSize

HeaderEnd(k) == MessageEnd(k) + messages[k + 1].filler + 5

\* In a content with a length, whose body begins at `start`.
ContentPlace(m, start, left, used, c) ==
  /\ LengthTaken(m)
  /\ left <= Len(m.body)
  /\ left > 0 \/ Len(m.body) = 0
  /\ used = start + Len(m.body) - left
  /\ c \in Seq(Nat)
  /\ Len(c) = Len(m.body) - left
  /\ \A p \in 1..Len(c) : c[p] = m.body[p]

\* The first j chunks are none that the parser refuses.
Good(m, j) ==
  \A i \in 1..j : m.body[i].size \in 0..9 /\ Len(ChunkData(m)[i]) <= MaxContentSize

\* The MemoryStream with the data of j chunks and t bytes more; a mark is still in
\* it until two bytes overwrote it.
Brings(m, j, t, c, p) ==
  LET before == ChunkData(m)[j] IN
  /\ c \in Seq(Nat)
  /\ p = Len(before) + t
  /\ Len(c) = IF j > 0 /\ t < 2 THEN Len(before) + 2 ELSE Len(before) + t
  /\ \A q \in 1..Len(before) : c[q] = before[q]

\* At the length of chunk j + 1, and t bytes behind its length.
LengthPlace(m, j, start, used, c, p) ==
  /\ Good(m, j)
  /\ used = start + Len(ChunkCodes(m)[j])
  /\ Brings(m, j, 0, c, p)

ChunkPlace(m, j, t, start, f, used, c, p) ==
  LET k == m.body[j + 1] IN
  /\ Good(m, j + 1)
  /\ f.size = k.size
  /\ f.left > 0 /\ f.left + t = k.size + 2
  /\ used = start + Len(ChunkCodes(m)[j]) + 3 + t
  /\ Brings(m, j, t, c, p)
  /\ \A q \in 1..t : c[Len(ChunkData(m)[j]) + q] = Piece(k)[q]

BodyPlace(m, start, f, used, c, p) ==
  /\ f.state = "bytes" => ContentPlace(m, start, f.left, used, c)
  /\ f.state = "chunklength" =>
       /\ m.framing = Chunked
       /\ \E j \in 0..Len(m.body) - 1 : LengthPlace(m, j, start, used, c, p)
  /\ f.state = "chunk" =>
       /\ m.framing = Chunked
       /\ \E j \in 0..Len(m.body) - 1, t \in Nat : ChunkPlace(m, j, t, start, f, used, c, p)

\* Where the parser is while no call has failed: behind as many messages as calls,
\* and in the next one.
Place ==
  IF pc = "idle" THEN consumed = MessageEnd(Len(returned))
  ELSE IF func.state = "header"
  THEN consumed = MessageEnd(Len(returned)) /\ content = <<>> /\ position = 0
  ELSE /\ reading = "response" /\ Len(returned) < Len(messages)
       /\ Fits(messages[Len(returned) + 1])
       /\ BodyPlace(messages[Len(returned) + 1], HeaderEnd(Len(returned)),
                    func, consumed, content, position)

\* A read is made for want of bytes.
Short ==
  pc \in {"move", "read"} =>
    /\ func.state = "header" /\ Len(returned) < Len(messages) =>
         CanUsedSize < messages[Len(returned) + 1].filler + 5
    /\ func.state = "chunklength" => CanUsedSize < 3
    /\ func.state \in {"bytes", "chunk"} => CanUsedSize = 0

\* What a call that was not preceded by a failed one returned.
Follows(k) ==
  IF k > Len(messages) THEN returned[k].kind = "io"
  ELSE \/ /\ returned[k].kind = Outcome(messages[k])
          /\ returned[k].kind = "message" => returned[k].content = Content(messages[k])
       \/ /\ returned[k].kind = "io"
          /\ Waiting(messages[k])
          /\ k = Len(messages)

FollowInv ==
  /\ Source
  /\ \E S : returned \in Seq(S)
  /\ \A k \in 1..Len(returned) : AllMessages(k - 1) => Follows(k)
  /\ AllMessages(Len(returned)) => Len(returned) <= Len(messages) /\ Place /\ Short

LEMMA TowMarkIs ==
  /\ TowMark \in Seq(Nat) /\ Len(TowMark) = 4
  /\ TowMark[1] = CR /\ TowMark[2] = LF /\ TowMark[3] = CR /\ TowMark[4] = LF
BY DEF TowMark, CR, LF

LEMMA OneMarkIs ==
  /\ OneMark \in Seq(Nat) /\ Len(OneMark) = 2
  /\ OneMark[1] = CR /\ OneMark[2] = LF
BY DEF OneMark, CR, LF

\* At the head of a message the parser finds the end of its header, and nothing
\* before it, as soon as it is in the window.
LEMMA HeaderMark ==
  ASSUME IInv, Source, NEW k \in 0..Len(messages) - 1, consumed = MessageEnd(k),
         NEW m, m = messages[k + 1]
  PROVE  /\ m.filler \in Nat
         /\ \A n \in MarkIndex(TowMark) :
              /\ n = m.filler + 1
              /\ CanUsedSize >= m.filler + 5
              /\ Framing(n) = m.framing
         /\ CanUsedSize >= m.filler + 5 => IsFindMark(TowMark)
<1> DEFINE h == m.filler
           W == Window
           U == CanUsedSize
           base == consumed
<1>1. MessageAt(k)
  BY MessageFacts
<1>2. /\ h \in Nat /\ m.framing \in Nat /\ m.framing >= Chunked /\ base \in Nat
      /\ \A p \in 1..h : input[base + p] = Filler
      /\ input[base + h + 1] = m.framing
      /\ input[base + h + 2] = CR /\ input[base + h + 3] = LF
      /\ input[base + h + 4] = CR /\ input[base + h + 5] = LF
  BY <1>1 DEF MessageAt, IsMessage
<1>3. /\ U \in Nat /\ Len(W) = U
      /\ \A p \in 1..U : W[p] = input[base + p]
  BY WindowInput
<1>4. \A i : i \in Marks(TowMark) <=> /\ i \in 0..U - 4
                                      /\ W[i + 1] = CR /\ W[i + 2] = LF
                                      /\ W[i + 3] = CR /\ W[i + 4] = LF
  <2> SUFFICES ASSUME NEW i
               PROVE  i \in Marks(TowMark) <=> /\ i \in 0..U - 4
                                      /\ W[i + 1] = CR /\ W[i + 2] = LF
                                      /\ W[i + 3] = CR /\ W[i + 4] = LF
    OBVIOUS
  <2>1. i \in Marks(TowMark) <=> /\ i \in 0..CanUsedSize - Len(TowMark)
                                 /\ \A q \in 1..Len(TowMark) : Window[i + q] = TowMark[q]
    BY TowMarkIs, MarkThere
  <2>2. (\A q \in 1..4 : W[i + q] = TowMark[q]) <=>
          /\ W[i + 1] = TowMark[1] /\ W[i + 2] = TowMark[2]
          /\ W[i + 3] = TowMark[3] /\ W[i + 4] = TowMark[4]
    <3>1. \A q : q \in 1..4 <=> q = 1 \/ q = 2 \/ q = 3 \/ q = 4
      OBVIOUS
    <3> HIDE DEF W
    <3> QED BY <3>1
  <2> HIDE DEF W, U
  <2> QED BY <2>1, <2>2, TowMarkIs DEF W, U
<1> HIDE DEF h, W, U, base
<1>5. \A p \in 1..h + 1 : p <= U => W[p] # CR /\ W[p] # LF
  <2> SUFFICES ASSUME NEW p \in 1..h + 1, p <= U PROVE W[p] # CR /\ W[p] # LF
    OBVIOUS
  <2>1. p \in 1..U /\ W[p] = input[base + p]
    BY <1>2, <1>3
  <2>2. CASE p \in 1..h
    <3>1. \A i \in 1..h : input[base + i] = Filler
      BY <1>2
    <3>2. W[p] = Filler
      BY <2>1, <2>2, <3>1
    <3> QED BY <3>2 DEF Filler, CR, LF
  <2>3. CASE p = h + 1
    <3>1. base + p = base + h + 1
      BY <1>2, <2>3
    <3>2. W[p] = m.framing
      BY <1>2, <2>1, <3>1
    <3>3. m.framing >= 200 /\ m.framing \in Nat
      BY <1>2 DEF Chunked
    <3>4. m.framing # 13 /\ m.framing # 10
      BY <3>3
    <3> QED BY <3>2, <3>4 DEF CR, LF
  <2> QED BY <1>2, <2>2, <2>3
<1>6. \A i \in Marks(TowMark) : i \in Nat /\ i >= h + 1 /\ U >= h + 5
  <2> SUFFICES ASSUME NEW i \in Marks(TowMark) PROVE i \in Nat /\ i >= h + 1 /\ U >= h + 5
    OBVIOUS
  <2>1. i \in 0..U - 4 /\ W[i + 1] = CR
    BY <1>4
  <2>2. ~(i < h + 1)
    <3> SUFFICES ASSUME i < h + 1 PROVE FALSE
      BY <1>2, <2>1
    <3>1. i + 1 \in 1..h + 1 /\ i + 1 <= U
      BY <1>2, <1>3, <2>1
    <3> QED BY <1>5, <2>1, <3>1
  <2> QED BY <1>2, <1>3, <2>1, <2>2
<1>7. U >= h + 5 => h + 1 \in Marks(TowMark)
  <2> SUFFICES ASSUME U >= h + 5 PROVE h + 1 \in Marks(TowMark)
    OBVIOUS
  <2>1. /\ h + 1 \in 0..U - 4
        /\ h + 2 \in 1..U /\ h + 3 \in 1..U /\ h + 4 \in 1..U /\ h + 5 \in 1..U
        /\ (h + 1) + 1 = h + 2 /\ (h + 1) + 2 = h + 3 /\ (h + 1) + 3 = h + 4 /\ (h + 1) + 4 = h + 5
        /\ base + (h + 2) = base + h + 2 /\ base + (h + 3) = base + h + 3
        /\ base + (h + 4) = base + h + 4 /\ base + (h + 5) = base + h + 5
    BY <1>2, <1>3
  <2>2. W[h + 2] = CR /\ W[h + 3] = LF /\ W[h + 4] = CR /\ W[h + 5] = LF
    <3>1. /\ W[h + 2] = input[base + (h + 2)] /\ W[h + 3] = input[base + (h + 3)]
          /\ W[h + 4] = input[base + (h + 4)] /\ W[h + 5] = input[base + (h + 5)]
      BY <1>3, <2>1
    <3> QED BY <1>2, <2>1, <3>1
  <2> QED BY <1>4, <2>1, <2>2
<1>8. ASSUME NEW n \in MarkIndex(TowMark)
      PROVE  n = h + 1 /\ U >= h + 5 /\ Framing(n) = m.framing
  <2>1. n \in Marks(TowMark) /\ \A j \in Marks(TowMark) : n <= j
    BY DEF MarkIndex
  <2>2. n \in Nat /\ n >= h + 1 /\ U >= h + 5
    BY <1>6, <2>1
  <2>3. n <= h + 1
    BY <1>7, <2>1, <2>2
  <2>4. n = h + 1
    BY <1>2, <2>2, <2>3
  <2>5. n # 0 /\ ~ \E i \in 1..n : W[i] \in {CR, LF}
    <3>1. \A i \in 1..n : i \in 1..h + 1 /\ i <= U
      BY <1>2, <1>3, <2>2, <2>4
    <3> QED BY <1>5, <2>2, <2>4, <1>2, <3>1
  <2>6. W[n] = m.framing
    <3>1. n \in 1..U /\ base + n = base + h + 1
      BY <1>2, <1>3, <2>2, <2>4
    <3> QED BY <1>2, <1>3, <3>1
  <2>7. Framing(n) = m.framing
    BY <1>2, <2>5, <2>6 DEF Framing, W
  <2> QED BY <2>2, <2>4, <2>7
<1>9. U >= h + 5 => IsFindMark(TowMark)
  BY <1>7 DEF IsFindMark
<1> QED BY <1>2, <1>8, <1>9 DEF h, U

LEMMA ResultsKept ==
  ASSUME \E S : returned \in Seq(S), NEW kind, NEW bytes, End(kind, bytes)
  PROVE  /\ \E S : returned' \in Seq(S)
         /\ Len(returned) \in Nat /\ Len(returned') = Len(returned) + 1
         /\ \A i \in 1..Len(returned) : returned'[i] = returned[i]
         /\ returned'[Len(returned) + 1] = [kind |-> kind, content |-> bytes]
<1> DEFINE e == [kind |-> kind, content |-> bytes]
<1>1. returned' = Append(returned, e)
  BY DEF End
<1> HIDE DEF e
<1>2. PICK S : returned \in Seq(S)
  OBVIOUS
<1>3. returned \in Seq(S \cup {e}) /\ e \in S \cup {e}
  <2>1. Len(returned) \in Nat /\ returned \in [1..Len(returned) -> S]
    BY <1>2
  <2> QED BY <2>1
<1>4. /\ returned' \in Seq(S \cup {e})
      /\ Len(returned) \in Nat /\ Len(returned') = Len(returned) + 1
      /\ \A i \in 1..Len(returned) : returned'[i] = returned[i]
      /\ returned'[Len(returned) + 1] = e
  BY <1>1, <1>3
<1> QED BY <1>4 DEF e

\* Whether the call that ends with this result follows its message.
EndFollows(kind, bytes) ==
  LET k == Len(returned) + 1 IN
  IF k > Len(messages) THEN kind = "io"
  ELSE \/ /\ kind = Outcome(messages[k])
          /\ kind = "message" => bytes = Content(messages[k])
       \/ /\ kind = "io"
          /\ Waiting(messages[k])
          /\ k = Len(messages)

LEMMA FollowEnds ==
  ASSUME FollowInv, UNCHANGED source, NEW kind, NEW bytes, End(kind, bytes),
         AllMessages(Len(returned)) =>
           /\ EndFollows(kind, bytes)
           /\ kind = "message" => /\ Len(returned) < Len(messages)
                                  /\ consumed' = MessageEnd(Len(returned) + 1)
  PROVE  FollowInv'
<1>1. \E S : returned \in Seq(S)
  BY DEF FollowInv
<1>0. PICK n \in Nat : n = Len(returned)
  BY <1>1, ResultsKept
<1>2. /\ Len(returned') = n + 1
      /\ \A i \in 1..n : returned'[i] = returned[i]
      /\ returned'[n + 1].kind = kind /\ returned'[n + 1].content = bytes
  <2>1. /\ Len(returned') = Len(returned) + 1
        /\ \A i \in 1..Len(returned) : returned'[i] = returned[i]
        /\ returned'[Len(returned) + 1] = [kind |-> kind, content |-> bytes]
    BY <1>1, ResultsKept
  <2> QED BY <1>0, <2>1
<1>20. \E S : returned' \in Seq(S)
  BY <1>1, ResultsKept
<1>3. reading' = reading /\ messages' = messages /\ input' = input
  BY DEF source
<1>4. Source'
  BY <1>3 DEF FollowInv, Source
<1>5. \A m : Outcome(m)' = Outcome(m) /\ Waiting(m)' = Waiting(m)
  BY <1>3 DEF Outcome, Waiting
<1>6. \A k \in 0..n : AllMessages(k)' <=> AllMessages(k)
  <2>1. \A k \in 0..n : \A i \in 1..k : i \in 1..n
    BY <1>2
  <2> QED BY <1>2, <2>1 DEF AllMessages
<1>7. AllMessages(n + 1)' <=> AllMessages(n) /\ kind = "message"
  <2>1. \A i : i \in 1..n + 1 <=> i \in 1..n \/ i = n + 1
    OBVIOUS
  <2>2. AllMessages(n + 1)' <=> \A i \in 1..n + 1 : returned'[i].kind = "message"
    BY DEF AllMessages
  <2>3. AllMessages(n) <=> \A i \in 1..n : returned'[i].kind = "message"
    BY <1>2 DEF AllMessages
  <2> QED BY <1>2, <2>1, <2>2, <2>3
<1>8. ASSUME NEW k \in 1..n + 1, AllMessages(k - 1)' PROVE Follows(k)'
  <2>1. CASE k \in 1..n
    <3>1. k - 1 \in 0..n
      BY <1>2, <2>1
    <3>2. Follows(k)
      BY <1>0, <1>6, <1>8, <2>1, <3>1 DEF FollowInv
    <3>3. returned'[k] = returned[k]
      BY <1>2, <2>1
    <3> QED BY <1>3, <1>5, <3>2, <3>3 DEF Follows
  <2>2. CASE k = n + 1
    <3>1. k - 1 = n /\ n \in 0..n
      BY <1>2, <2>2
    <3>2. AllMessages(n)
      BY <1>6, <1>8, <3>1
    <3>3. EndFollows(kind, bytes)
      BY <1>0, <3>2
    <3>4. returned'[k].kind = kind /\ returned'[k].content = bytes
      BY <1>2, <2>2
    <3>5. k = Len(returned) + 1
      BY <1>0, <2>2
    <3> QED BY <1>3, <1>5, <3>3, <3>4, <3>5, Zenon DEF Follows, EndFollows
  <2> QED BY <1>2, <2>1, <2>2
<1>9. ASSUME AllMessages(n + 1)'
      PROVE  n + 1 <= Len(messages') /\ Place' /\ Short'
  <2>1. n < Len(messages) /\ consumed' = MessageEnd(n + 1)
    BY <1>0, <1>7, <1>9
  <2>2. pc' = "idle"
    BY DEF End
  <2>3. Len(messages) \in Nat
    BY MessageFacts DEF FollowInv
  <2>5. consumed' = MessageEnd(Len(returned))'
    BY <1>2, <2>1, <1>3 DEF MessageEnd
  <2> QED BY <1>2, <1>3, <2>1, <2>2, <2>3, <2>5 DEF Place, Short
<1>10. \A k \in 1..Len(returned') : AllMessages(k - 1)' => Follows(k)'
  BY <1>2, <1>8
<1>11. AllMessages(Len(returned))' => Len(returned') <= Len(messages') /\ Place' /\ Short'
  <2>1. AllMessages(Len(returned))' <=> AllMessages(n + 1)'
    BY <1>2 DEF AllMessages
  <2> QED BY <1>2, <1>9, <2>1
<1> QED BY <1>4, <1>10, <1>11, <1>20 DEF FollowInv

LEMMA FollowGoes ==
  ASSUME FollowInv, UNCHANGED <<source, returned>>,
         AllMessages(Len(returned)) => Place' /\ Short'
  PROVE  FollowInv'
<1>1. reading' = reading /\ messages' = messages /\ input' = input /\ returned' = returned
  BY DEF source
<1>2. Source'
  BY <1>1 DEF FollowInv, Source
<1>3. \A m : Outcome(m)' = Outcome(m) /\ Waiting(m)' = Waiting(m)
  BY <1>1 DEF Outcome, Waiting
<1>4. \A k : (AllMessages(k)' <=> AllMessages(k)) /\ (Follows(k)' <=> Follows(k))
  BY <1>1, <1>3 DEF AllMessages, Follows
<1> QED BY <1>1, <1>2, <1>4 DEF FollowInv

LEMMA CurrentFacts ==
  ASSUME FollowInv, AllMessages(Len(returned))
  PROVE  /\ Source
         /\ Len(returned) \in Nat /\ Len(messages) \in Nat /\ Len(returned) <= Len(messages)
         /\ Len(returned) < Len(messages) => Len(returned) \in 0..Len(messages) - 1
         /\ MessageEnd(Len(returned)) \in Nat
         /\ MessageEnd(Len(messages)) = Len(input)
         /\ Place /\ Short
<1>1. Source /\ Len(returned) <= Len(messages) /\ Place /\ Short
  BY DEF FollowInv
<1>2. Len(returned) \in Nat
  <2>1. PICK S : returned \in Seq(S)
    BY DEF FollowInv
  <2> QED BY <2>1
<1>3. /\ Len(messages) \in Nat /\ MessageEnd(Len(messages)) = Len(input)
      /\ \A k \in 0..Len(messages) : MessageEnd(k) \in Nat
  BY <1>1, MessageFacts
<1>4. Len(returned) \in 0..Len(messages)
  BY <1>1, <1>2, <1>3
<1>5. Len(returned) < Len(messages) => Len(returned) \in 0..Len(messages) - 1
  BY <1>2, <1>3
<1> QED BY <1>1, <1>2, <1>3, <1>4, <1>5

\* Where no message is left, the window is empty.
LEMMA NothingLeft ==
  ASSUME IInv, FollowInv, AllMessages(Len(returned)), Len(returned) = Len(messages), pc # "idle"
  PROVE  CanUsedSize = 0 /\ func.state = "header"
<1>1. /\ Len(messages) \in Nat /\ MessageEnd(Len(messages)) = Len(input) /\ Place
  BY CurrentFacts
<1>2. func.state = "header" /\ consumed = MessageEnd(Len(returned))
  BY <1>1 DEF Place
<1>3. consumed = Len(input)
  BY <1>1, <1>2
<1>4. /\ CanUsedSize \in Nat /\ consumed \in Nat
      /\ received = consumed + CanUsedSize /\ received <= Len(input)
  BY WindowInput
<1>5. CanUsedSize = 0
  BY <1>3, <1>4
<1> QED BY <1>2, <1>5

LEMMA ReadAsyncFollows ==
  ASSUME FollowInv, ReadAsync
  PROVE  FollowInv'
<1>1. /\ pc = "idle" /\ pc' = "use" /\ func'.state = "header" /\ content' = <<>> /\ position' = 0
      /\ consumed' = consumed
      /\ UNCHANGED <<source, returned>>
  BY DEF ReadAsync, Func
<1>2. ASSUME AllMessages(Len(returned)) PROVE Place' /\ Short'
  <2>1. consumed = MessageEnd(Len(returned))
    BY <1>1, <1>2, CurrentFacts DEF Place
  <2>2. MessageEnd(Len(returned))' = MessageEnd(Len(returned))
    BY <1>1 DEF MessageEnd, source
  <2> QED BY <1>1, <2>1, <2>2 DEF Place, Short
<1> QED BY <1>1, <1>2, FollowGoes

\* Steps that leave the parser where it is.
LEMMA PlaceStays ==
  ASSUME Place, UNCHANGED <<source, returned, consumed, func, content, position>>,
         pc # "idle", pc' # "idle"
  PROVE  Place'
<1>1. /\ reading' = reading /\ messages' = messages /\ input' = input /\ returned' = returned
      /\ consumed' = consumed /\ func' = func /\ content' = content /\ position' = position
  BY DEF source
<1>2. /\ MessageEnd(Len(returned))' = MessageEnd(Len(returned))
      /\ HeaderEnd(Len(returned))' = HeaderEnd(Len(returned))
  BY <1>1 DEF MessageEnd, HeaderEnd
<1> QED BY <1>1, <1>2, Zenon DEF Place

LEMMA MoveFollows ==
  ASSUME IInv, FollowInv, Move
  PROVE  FollowInv'
<1>1. /\ pc = "move" /\ pc' = "read"
      /\ UNCHANGED <<source, returned, consumed, func, content, position>>
      /\ m_read_offset' = CanUsedSize /\ m_used_offset' = 0
  BY DEF Move, parsing
<1>2. CanUsedSize \in Nat
  BY WindowInput
<1>3. CanUsedSize' = CanUsedSize
  BY <1>1, <1>2 DEF CanUsedSize
<1>4. ASSUME AllMessages(Len(returned)) PROVE Place' /\ Short'
  <2>1. Place /\ Short
    BY <1>4, CurrentFacts
  <2>2. Place'
    BY <1>1, <2>1, PlaceStays
  <2>3. Short'
    BY <1>1, <1>3, <2>1 DEF Short, source
  <2> QED BY <2>2, <2>3
<1> QED BY <1>1, <1>4, FollowGoes

LEMMA ReceiveFollows ==
  ASSUME FollowInv, NEW n \in 1..CanReadSize, Receive(n)
  PROVE  FollowInv'
<1>1. /\ pc = "read" /\ pc' = "use"
      /\ UNCHANGED <<source, returned, consumed, func, content, position>>
  BY DEF Receive, parsing
<1>2. ASSUME AllMessages(Len(returned)) PROVE Place' /\ Short'
  <2>1. Place
    BY <1>2, CurrentFacts
  <2> QED BY <1>1, <2>1, PlaceStays DEF Short
<1> QED BY <1>1, <1>2, FollowGoes

LEMMA BehindLength == \A x, y \in Nat : x + (3 + y) = x + 3 + y
OBVIOUS

\* Chunk j + 1 of message k + 1 in the input, from `at` on.
ChunkThere(k, m, j, c, at) ==
  /\ HeaderEnd(k) \in Nat /\ at \in Nat /\ Len(ChunkCodes(m)[j]) \in Nat
  /\ IsChunk(c) /\ Len(c.data) \in Nat
  /\ input[at + 1] = Digit(c.size) /\ input[at + 2] = CR /\ input[at + 3] = LF
  /\ \A q \in 1..Len(c.data) + 2 : input[at + 3 + q] = Piece(c)[q]
  /\ HeaderEnd(k) + Len(ChunkCodes(m)[j + 1]) = at + Len(c.data) + 5
  /\ at + Len(c.data) + 5 <= MessageEnd(k + 1)
  /\ MessageEnd(k + 1) <= Len(input)
  /\ j + 1 = Len(m.body) => MessageEnd(k + 1) = at + Len(c.data) + 5
  /\ Behind(ChunkData(m)[j + 1], ChunkData(m)[j], c.data)

LEMMA ChunkInput ==
  ASSUME Source, NEW k \in 0..Len(messages) - 1, NEW m, m = messages[k + 1],
         m.framing = Chunked, NEW j \in 0..Len(m.body) - 1,
         NEW c, c = m.body[j + 1],
         NEW at, at = HeaderEnd(k) + Len(ChunkCodes(m)[j])
  PROVE  ChunkThere(k, m, j, c, at)
<1> DEFINE e == BodyCode(m)
           b == Len(ChunkCodes(m)[j])
           d == Len(ChunkCodes(m)[j + 1])
           h == HeaderEnd(k)
           s == Len(c.data)
<1>1. MessageAt(k)
  BY MessageFacts
<1>2. /\ IsMessage(m) /\ MessageEnd(k) \in Nat /\ Len(e) \in Nat
      /\ MessageEnd(k + 1) = MessageEnd(k) + m.filler + 5 + Len(e)
      /\ MessageEnd(k + 1) <= Len(input)
      /\ \A q \in 1..Len(e) : input[MessageEnd(k) + m.filler + 5 + q] = e[q]
  BY <1>1 DEF MessageAt
<1>3. m.filler \in Nat
  BY <1>2 DEF IsMessage
<1>4. h = MessageEnd(k) + m.filler + 5 /\ h \in Nat
  <2>1. h = MessageEnd(k) + m.filler + 5
    BY DEF HeaderEnd
  <2>2. MessageEnd(k) \in Nat
    BY <1>2
  <2> DEFINE base == MessageEnd(k)
             f == m.filler
  <2> HIDE DEF h, base, f
  <2>3. h = base + f + 5 /\ base \in Nat /\ f \in Nat
    BY <1>3, <2>1, <2>2 DEF base, f
  <2>4. h \in Nat
    BY <2>3
  <2> QED BY <2>3, <2>4 DEF base, f
<1>5. /\ MessageEnd(k + 1) = h + Len(e) /\ \A q \in 1..Len(e) : input[h + q] = e[q]
  BY <1>2, <1>4
<1>6. /\ Len(m.body) \in Nat /\ e = ChunkCodes(m)[Len(m.body)] /\ ChunkAt(m, j)
  BY <1>2, ChunkFacts
<1>7. /\ IsChunk(c) /\ b \in Nat /\ d = b + s + 5 /\ d <= Len(e)
      /\ e[b + 1] = Digit(c.size) /\ e[b + 2] = CR /\ e[b + 3] = LF
      /\ \A q \in 1..s + 2 : e[b + 3 + q] = Piece(c)[q]
      /\ Behind(ChunkData(m)[j + 1], ChunkData(m)[j], c.data)
  BY <1>6 DEF ChunkAt
<1>8. s \in Nat
  BY <1>7 DEF IsChunk
<1>9. j + 1 = Len(m.body) => d = Len(e)
  BY <1>6
<1>10. at = h + b
  OBVIOUS
<1> DEFINE l == Len(e)
           last == MessageEnd(k + 1)
<1>15. /\ h \in Nat /\ b \in Nat /\ s \in Nat /\ l \in Nat
       /\ d = b + s + 5 /\ d <= l /\ last = h + l
  BY <1>2, <1>4, <1>5, <1>7, <1>8
<1> HIDE DEF e, b, d, h, s, l, last
<1>17. at \in Nat
  BY <1>10, <1>15
<1>18. h + d = at + s + 5
  BY <1>10, <1>15
<1>19. at + s + 5 <= last
  BY <1>15, <1>18
<1>20. ASSUME d = l PROVE last = at + s + 5
  BY <1>15, <1>18, <1>20
<1>16. at \in Nat /\ h + d = at + s + 5 /\ at + s + 5 <= last
       /\ (d = l => last = at + s + 5)
  BY <1>17, <1>18, <1>19, <1>20
<1>11. at \in Nat /\ h + d = at + s + 5 /\ at + s + 5 <= MessageEnd(k + 1)
       /\ (j + 1 = Len(m.body) => MessageEnd(k + 1) = at + s + 5)
  BY <1>9, <1>16 DEF l, last
<1>12. ASSUME NEW q \in 1..s + 5 PROVE input[at + q] = e[b + q]
  <2>1. b + q \in 1..Len(e) /\ h + (b + q) = at + q
    <3>1. b + q \in 1..l /\ h + (b + q) = at + q
      BY <1>10, <1>15
    <3> QED BY <3>1 DEF l
  <2> QED BY <1>5, <2>1
<1>13. input[at + 1] = Digit(c.size) /\ input[at + 2] = CR /\ input[at + 3] = LF
  <2>1. 1 \in 1..s + 5 /\ 2 \in 1..s + 5 /\ 3 \in 1..s + 5
    BY <1>8
  <2> QED BY <1>7, <1>12, <2>1
<1>14. ASSUME NEW q \in 1..s + 2 PROVE input[at + 3 + q] = Piece(c)[q]
  <2>3. 3 + q \in 1..s + 5 /\ q \in Nat
    BY <1>15
  <2>4. at + (3 + q) = at + 3 + q
    BY <1>17, <2>3, BehindLength
  <2>5. b + (3 + q) = b + 3 + q
    BY <1>15, <2>3, BehindLength
  <2>1. 3 + q \in 1..s + 5 /\ at + (3 + q) = at + 3 + q /\ b + (3 + q) = b + 3 + q
    BY <2>3, <2>4, <2>5
  <2>2. input[at + (3 + q)] = e[b + (3 + q)]
    BY <1>12, <2>1
  <2> QED BY <1>7, <2>1, <2>2
<1> QED BY <1>2, <1>4, <1>7, <1>8, <1>11, <1>13, <1>14 DEF ChunkThere, b, d, h, s

\* The end of a chunk's length is found behind its digit.
LEMMA LengthMark ==
  ASSUME IInv, Source, NEW k \in 0..Len(messages) - 1, NEW m, m = messages[k + 1],
         m.framing = Chunked, NEW j \in 0..Len(m.body) - 1,
         consumed = HeaderEnd(k) + Len(ChunkCodes(m)[j])
  PROVE  /\ \A n \in MarkIndex(OneMark) :
              n = 1 /\ CanUsedSize >= 3 /\ Window[1] = Digit(m.body[j + 1].size)
         /\ CanUsedSize >= 3 => IsFindMark(OneMark)
<1> DEFINE W == Window
           U == CanUsedSize
           s == m.body[j + 1].size
<1>1. /\ input[consumed + 1] = Digit(s) /\ input[consumed + 2] = CR /\ input[consumed + 3] = LF
      /\ IsChunk(m.body[j + 1])
  <2> DEFINE c == m.body[j + 1]
             at == HeaderEnd(k) + Len(ChunkCodes(m)[j])
  <2>1. ChunkThere(k, m, j, c, at)
    BY ChunkInput
  <2>2. /\ input[at + 1] = Digit(c.size) /\ input[at + 2] = CR /\ input[at + 3] = LF
        /\ IsChunk(c)
    <3> HIDE DEF c, at
    <3> QED BY <2>1 DEF ChunkThere
  <2> QED BY <2>2
<1>2. s \in Nat
  BY <1>1 DEF IsChunk
<1>3. /\ U \in Nat /\ Len(W) = U
      /\ \A p \in 1..U : W[p] = input[consumed + p]
  BY WindowInput
<1>4. \A i : i \in Marks(OneMark) <=> i \in 0..U - 2 /\ W[i + 1] = CR /\ W[i + 2] = LF
  <2> SUFFICES ASSUME NEW i
               PROVE  i \in Marks(OneMark) <=> i \in 0..U - 2 /\ W[i + 1] = CR /\ W[i + 2] = LF
    OBVIOUS
  <2>1. i \in Marks(OneMark) <=> /\ i \in 0..CanUsedSize - Len(OneMark)
                                 /\ \A q \in 1..Len(OneMark) : Window[i + q] = OneMark[q]
    BY OneMarkIs, MarkThere
  <2>2. (\A q \in 1..2 : W[i + q] = OneMark[q]) <=>
          W[i + 1] = OneMark[1] /\ W[i + 2] = OneMark[2]
    <3>1. \A q : q \in 1..2 <=> q = 1 \/ q = 2
      OBVIOUS
    <3> HIDE DEF W
    <3> QED BY <3>1
  <2> HIDE DEF W, U
  <2> QED BY <2>1, <2>2, OneMarkIs DEF W, U
<1> HIDE DEF W, U, s
<1>5. U >= 1 => W[1] = Digit(s) /\ W[1] # CR
  <2> SUFFICES ASSUME U >= 1 PROVE W[1] = Digit(s) /\ W[1] # CR
    OBVIOUS
  <2>1. W[1] = Digit(s)
    BY <1>1, <1>3
  <2> QED BY <1>2, <2>1 DEF Digit, CR
<1>6. \A i \in Marks(OneMark) : i \in Nat /\ i >= 1 /\ U >= 3
  <2> SUFFICES ASSUME NEW i \in Marks(OneMark) PROVE i \in Nat /\ i >= 1 /\ U >= 3
    OBVIOUS
  <2>1. i \in 0..U - 2 /\ W[i + 1] = CR
    BY <1>4
  <2>2. i # 0
    <3> SUFFICES ASSUME i = 0 PROVE FALSE
      OBVIOUS
    <3>1. U >= 1 /\ W[1] = CR
      BY <1>3, <2>1
    <3> QED BY <1>5, <3>1
  <2> QED BY <1>3, <2>1, <2>2
<1>7. U >= 3 => 1 \in Marks(OneMark)
  <2> SUFFICES ASSUME U >= 3 PROVE 1 \in Marks(OneMark)
    OBVIOUS
  <2>1. W[2] = CR /\ W[3] = LF
    BY <1>1, <1>3
  <2>2. 1 \in 0..U - 2 /\ 1 + 1 = 2 /\ 1 + 2 = 3
    BY <1>3
  <2> QED BY <1>4, <2>1, <2>2
<1>8. ASSUME NEW n \in MarkIndex(OneMark) PROVE n = 1 /\ U >= 3 /\ W[1] = Digit(s)
  <2>1. n \in Marks(OneMark) /\ \A i \in Marks(OneMark) : n <= i
    BY DEF MarkIndex
  <2>2. n \in Nat /\ n >= 1 /\ U >= 3
    BY <1>6, <2>1
  <2>3. n <= 1
    BY <1>7, <2>1, <2>2
  <2> QED BY <1>5, <2>2, <2>3, <1>3
<1>9. U >= 3 => IsFindMark(OneMark)
  BY <1>7 DEF IsFindMark
<1> QED BY <1>8, <1>9 DEF W, U, s

LEMMA FitsIs ==
  ASSUME NEW m, m.filler \in Nat, Fits(m)
  PROVE  ~(m.filler + 1 + Len(TowMark) > Size)
<1> DEFINE h == m.filler
<1>1. h \in Nat /\ h + 5 <= Size
  BY DEF Fits
<1>2. Len(TowMark) = 4 /\ Size \in Nat
  BY MarkLengths, HttpStreamAssumption
<1> HIDE DEF h
<1>3. ~(h + 1 + 4 > Size)
  BY <1>1, <1>2
<1> QED BY <1>2, <1>3 DEF h

\* Reading for want of bytes: where the parser is, the mark it looks for comes
\* later.
LEMMA NotResultFollows ==
  ASSUME IInv, FollowInv, NotResult
  PROVE  FollowInv'
<1>1. /\ pc = "use" /\ pc' = "move"
      /\ UNCHANGED <<source, returned, consumed, func, content, position>>
      /\ UNCHANGED <<m_read_offset, m_used_offset>>
      /\ \/ CanUsedSize = 0
         \/ func.state = "header" /\ ~IsFindMark(TowMark)
         \/ func.state = "chunklength" /\ ~IsFindMark(OneMark)
  BY DEF NotResult, parsing, buffer
<1>2. CanUsedSize' = CanUsedSize
  BY <1>1 DEF CanUsedSize
<1>3. ASSUME AllMessages(Len(returned)) PROVE Place' /\ Short'
  <2> DEFINE k == Len(returned)
             m == messages[k + 1]
  <2>1. /\ Place /\ Source /\ k \in Nat
        /\ k < Len(messages) => k \in 0..Len(messages) - 1
    BY <1>3, CurrentFacts
  <2>2. Place'
    BY <1>1, <2>1, PlaceStays
  <2>3. CanUsedSize \in Nat
    BY WindowInput
  <2>4. ASSUME func.state = "header", k < Len(messages)
        PROVE  CanUsedSize < m.filler + 5
    <3>1. consumed = MessageEnd(k) /\ k \in 0..Len(messages) - 1
      BY <1>1, <2>1, <2>4 DEF Place
    <3>2. /\ m.filler \in Nat
          /\ CanUsedSize >= m.filler + 5 => IsFindMark(TowMark)
      BY <2>1, <3>1, HeaderMark
    <3>3. CanUsedSize = 0 \/ ~(CanUsedSize >= m.filler + 5)
      BY <1>1, <2>4, <3>2
    <3> HIDE DEF m
    <3> QED BY <2>3, <3>2, <3>3
  <2>5. ASSUME func.state = "chunklength"
        PROVE  CanUsedSize < 3
    <3>1. /\ k < Len(messages) /\ m.framing = Chunked
          /\ \E j \in 0..Len(m.body) - 1 :
               LengthPlace(m, j, HeaderEnd(k), consumed, content, position)
      BY <1>1, <2>1, <2>5 DEF Place, BodyPlace
    <3>2. PICK j \in 0..Len(m.body) - 1 :
            LengthPlace(m, j, HeaderEnd(k), consumed, content, position)
      BY <3>1
    <3>3. consumed = HeaderEnd(k) + Len(ChunkCodes(m)[j])
      BY <3>2 DEF LengthPlace
    <3>4. CanUsedSize >= 3 => IsFindMark(OneMark)
      BY <2>1, <3>1, <3>3, LengthMark
    <3>5. CanUsedSize = 0 \/ ~(CanUsedSize >= 3)
      BY <1>1, <2>5, <3>4
    <3> QED BY <2>3, <3>5
  <2>6. func.state \in {"bytes", "chunk"} => CanUsedSize = 0
    BY <1>1
  <2>7. k' = k /\ m' = m /\ Len(messages') = Len(messages) /\ func' = func
    BY <1>1 DEF source
  <2>8. Short'
    BY <1>2, <2>4, <2>5, <2>6, <2>7 DEF Short
  <2> QED BY <2>2, <2>8
<1> QED BY <1>1, <1>3, FollowGoes

\* A full buffer is one in which a header has no end.
LEMMA MoveOverflowFollows ==
  ASSUME IInv, FollowInv, MoveOverflow
  PROVE  FollowInv'
<1>1. /\ pc = "move" /\ CanUsedSize = Size /\ UNCHANGED source /\ End("overflow", <<>>)
  BY DEF MoveOverflow, Throw
<1>2. ASSUME AllMessages(Len(returned)) PROVE EndFollows("overflow", <<>>)
  <2> DEFINE k == Len(returned)
             m == messages[k + 1]
  <2>1. /\ Place /\ Source /\ Short /\ k \in Nat /\ Len(messages) \in Nat /\ k <= Len(messages)
        /\ k < Len(messages) => k \in 0..Len(messages) - 1
    BY <1>2, CurrentFacts
  <2>2. Size \in Nat /\ Size > 0
    BY HttpStreamAssumption
  <2>3. k < Len(messages)
    BY <1>1, <1>2, <2>1, <2>2, NothingLeft
  <2>4. func.state \in {"header", "bytes", "chunklength", "chunk"}
    BY DEF IInv, TypeOK
  <2>5. MessageAt(k)
    BY <2>1, <2>3, MessageFacts
  <2>6. m.filler \in Nat
    BY <2>5 DEF MessageAt, IsMessage
  <2>7. func.state \notin {"bytes", "chunk"}
    BY <1>1, <2>1, <2>2 DEF Short
  <2>8. func.state # "chunklength"
    <3> SUFFICES ASSUME func.state = "chunklength" PROVE FALSE
      OBVIOUS
    <3>1. CanUsedSize < 3
      BY <1>1, <2>1 DEF Short
    <3>2. m.filler + 5 <= Size
      BY <1>1, <2>1 DEF Place, Fits
    <3> HIDE DEF m
    <3> QED BY <1>1, <2>2, <2>6, <3>1, <3>2
  <2>9. CanUsedSize < m.filler + 5
    BY <1>1, <2>1, <2>3, <2>4, <2>7, <2>8 DEF Short
  <2>10. m.filler + 1 + Len(TowMark) > Size
    <3>1. Len(TowMark) = 4
      BY MarkLengths
    <3> HIDE DEF m
    <3> QED BY <1>1, <2>2, <2>6, <2>9, <3>1
  <2>11. Outcome(m) = "overflow"
    BY <2>10 DEF Outcome
  <2>12. ~(k + 1 > Len(messages))
    BY <2>1, <2>3
  <2> QED BY <2>11, <2>12 DEF EndFollows
<1> QED BY <1>1, <1>2, FollowEnds

\* The bytes of message k + 1: a header of h bytes with its end, then its body.
MessageParts(k, m) ==
  /\ IsMessage(m) /\ Agrees(m)
  /\ m.filler \in Nat /\ m.framing \in Nat
  /\ MessageEnd(k) \in Nat /\ MessageEnd(k + 1) \in Nat
  /\ HeaderEnd(k) \in Nat /\ Len(BodyCode(m)) \in Nat
  /\ HeaderEnd(k) = MessageEnd(k) + m.filler + 5
  /\ MessageEnd(k + 1) = HeaderEnd(k) + Len(BodyCode(m))

LEMMA Agreement ==
  ASSUME Source, NEW k \in 0..Len(messages) - 1
  PROVE  Agrees(messages[k + 1])
<1>1. PICK n \in 1..MaxMessages : messages \in [1..n -> Messages[reading]]
  BY DEF Source, Inputs
<1>2. n \in Nat
  BY <1>1
<1>3. Len(messages) = n
  BY <1>1, <1>2
<1>4. k + 1 \in 1..n
  BY <1>2, <1>3
<1> QED BY <1>1, <1>4, AgreementAssumption DEF Source

LEMMA PartsOf ==
  ASSUME Source, NEW k \in 0..Len(messages) - 1, NEW m, m = messages[k + 1]
  PROVE  MessageParts(k, m)
<1> DEFINE h == m.filler
           e == Len(BodyCode(m))
           base == MessageEnd(k)
           start == HeaderEnd(k)
           last == MessageEnd(k + 1)
<1>1. MessageAt(k)
  BY MessageFacts
<1>2. IsMessage(m) /\ Agrees(m) /\ base \in Nat /\ e \in Nat /\ last = base + h + 5 + e
  BY <1>1, Agreement DEF MessageAt
<1>3. h \in Nat /\ m.framing \in Nat
  BY <1>2 DEF IsMessage
<1>4. start = base + h + 5
  BY DEF HeaderEnd
<1> HIDE DEF h, e, base, start, last
<1>5. start \in Nat /\ last \in Nat /\ last = start + e
  BY <1>2, <1>3, <1>4
<1> QED BY <1>2, <1>3, <1>4, <1>5 DEF MessageParts, h, e, base, start, last

\* The data of a chunk the parser accepts has the length it says.
LEMMA GoodSize ==
  ASSUME NEW m, IsMessage(m), Agrees(m), m.framing = Chunked, NEW j \in 0..Len(m.body) - 1,
         Good(m, j + 1), NEW c, c = m.body[j + 1]
  PROVE  c.size \in 0..9 /\ Len(c.data) = c.size
<1>1. j + 1 \in 1..j + 1 /\ j + 1 \in 1..Len(m.body)
  BY ChunkFacts
<1>2. m.body[j + 1].size \in 0..9
  BY <1>1 DEF Good
<1>3. Len(m.body[j + 1].data) = m.body[j + 1].size
  BY <1>1, <1>2 DEF Agrees
<1> QED BY <1>2, <1>3

\* A call that reads has not yet all of its message, but for a content of length
\* zero.
LEMMA ReadBefore ==
  ASSUME IInv, FollowInv, AllMessages(Len(returned)), pc = "read",
         Len(returned) < Len(messages),
         NEW k, k = Len(returned), NEW m, m = messages[k + 1]
  PROVE  received < MessageEnd(k + 1) \/ (Waiting(m) /\ received = MessageEnd(k + 1))
<1> DEFINE start == HeaderEnd(k)
           last == MessageEnd(k + 1)
           e == Len(BodyCode(m))
           U == CanUsedSize
<1>1. Place /\ Source /\ Short /\ k \in 0..Len(messages) - 1
  BY CurrentFacts
<1>2. MessageParts(k, m)
  BY <1>1, PartsOf
<1>3. /\ m.filler \in Nat /\ MessageEnd(k) \in Nat /\ start \in Nat /\ e \in Nat /\ last \in Nat
      /\ start = MessageEnd(k) + m.filler + 5 /\ last = start + e
      /\ IsMessage(m) /\ Agrees(m)
  BY <1>2 DEF MessageParts
<1>4. U \in Nat /\ consumed \in Nat /\ received = consumed + U
  BY WindowInput
<1>5. func.state \in {"header", "bytes", "chunklength", "chunk"}
  BY DEF IInv, TypeOK
<1>6. func.state # "header" =>
        reading = "response" /\ BodyPlace(m, start, func, consumed, content, position)
  BY DEF FollowInv, Place
<1>7. CASE func.state = "header"
  <2>1. consumed = MessageEnd(k)
    BY <1>1, <1>7 DEF Place
  <2>2. U < m.filler + 5
    BY <1>1, <1>7 DEF Short
  <2> DEFINE h == m.filler
             base == MessageEnd(k)
  <2> HIDE DEF start, last, e, U, h, base
  <2>3. h \in Nat /\ base \in Nat /\ start = base + h + 5 /\ consumed = base /\ U < h + 5
    BY <1>3, <2>1, <2>2 DEF h, base
  <2>4. received < last
    BY <1>3, <1>4, <2>3
  <2> QED BY <2>4 DEF last
<1>8. CASE func.state = "bytes"
  <2> DEFINE b == Len(m.body)
             left == func.left
  <2>1. LengthTaken(m) /\ left <= b /\ (left > 0 \/ b = 0) /\ consumed = start + b - left
    BY <1>6, <1>8 DEF BodyPlace, ContentPlace
  <2>2. U = 0
    BY <1>1, <1>8 DEF Short
  <2>3. left \in Nat
    BY DEF IInv, TypeOK
  <2>4. IsLength(m.framing) /\ m.framing # Chunked /\ m.framing \in Nat
    BY <1>3, <2>1 DEF LengthTaken, IsLength, Length, Chunked, IsMessage
  <2>5. e = b
    BY <2>4 DEF BodyCode
  <2>6. m.framing = Length(0) + b
    <3>1. b = m.framing - Length(0)
      BY <1>3, <2>4 DEF Agrees
    <3>2. m.framing >= Length(0) /\ Length(0) = 210
      BY <2>4 DEF IsLength, Length
    <3> DEFINE f == m.framing
    <3> HIDE DEF b, f
    <3>3. f = Length(0) + b
      BY <2>4, <3>1, <3>2 DEF f
    <3> QED BY <3>3 DEF f
  <2>7. b = 0 => Waiting(m)
    BY <1>6, <1>8, <2>6 DEF Waiting, Length
  <2>8. received < last \/ (b = 0 /\ received = last)
    <3> HIDE DEF start, last, e, U, b, left
    <3> QED BY <1>3, <1>4, <2>1, <2>2, <2>3, <2>5
  <2> QED BY <2>7, <2>8
<1>9. CASE func.state = "chunklength"
  <2>1. m.framing = Chunked /\ U < 3
    BY <1>1, <1>6, <1>9 DEF BodyPlace, Short
  <2>2. PICK j \in 0..Len(m.body) - 1 : LengthPlace(m, j, start, consumed, content, position)
    BY <1>6, <1>9 DEF BodyPlace
  <2> DEFINE c == m.body[j + 1]
             s == Len(c.data)
  <2>3. consumed = start + Len(ChunkCodes(m)[j])
    BY <2>2 DEF LengthPlace
  <2>4. ChunkThere(k, m, j, c, consumed)
    BY <1>1, <2>1, <2>3, ChunkInput
  <2>5. s \in Nat /\ consumed + s + 5 <= last
    BY <2>4 DEF ChunkThere
  <2>6. received < last
    <3> HIDE DEF s, last, U
    <3> QED BY <1>3, <1>4, <2>1, <2>5
  <2> QED BY <2>6
<1>10. CASE func.state = "chunk"
  <2>1. m.framing = Chunked /\ U = 0
    BY <1>1, <1>6, <1>10 DEF BodyPlace, Short
  <2>2. PICK j \in 0..Len(m.body) - 1, t \in Nat :
          ChunkPlace(m, j, t, start, func, consumed, content, position)
    BY <1>6, <1>10 DEF BodyPlace
  <2> DEFINE c == m.body[j + 1]
             s == Len(c.data)
             at == start + Len(ChunkCodes(m)[j])
             left == func.left
  <2>3. /\ consumed = at + 3 + t
        /\ left > 0 /\ left + t = c.size + 2 /\ Good(m, j + 1)
    BY <2>2 DEF ChunkPlace
  <2>4. ChunkThere(k, m, j, c, at)
    BY <1>1, <2>1, ChunkInput
  <2>5. s \in Nat /\ at \in Nat /\ at + s + 5 <= last
    BY <2>4 DEF ChunkThere
  <2>6. c.size = s
    BY <1>3, <2>1, <2>3, GoodSize
  <2>7. left \in Nat
    BY DEF IInv, TypeOK
  <2>8. received < last
    <3>1. left + t = s + 2
      BY <2>3, <2>6
    <3> HIDE DEF s, last, U, at, left, c
    <3> QED BY <1>3, <1>4, <2>1, <2>3, <2>5, <2>7, <3>1
  <2> QED BY <2>8
<1> QED BY <1>5, <1>7, <1>8, <1>9, <1>10

\* The end of the stream is met behind the last message, or before a content of
\* length zero.
LEMMA ReceiveEndFollows ==
  ASSUME IInv, FollowInv, ReceiveEnd
  PROVE  FollowInv'
<1>1. /\ pc = "read" /\ received = Len(input) /\ UNCHANGED source /\ End("io", <<>>)
  BY DEF ReceiveEnd, Throw
<1>2. ASSUME AllMessages(Len(returned)) PROVE EndFollows("io", <<>>)
  <2> DEFINE k == Len(returned)
             m == messages[k + 1]
  <2>1. /\ Place /\ Source /\ Short /\ k \in Nat /\ Len(messages) \in Nat /\ k <= Len(messages)
        /\ k < Len(messages) => k \in 0..Len(messages) - 1
    BY <1>2, CurrentFacts
  <2>2. CASE k = Len(messages)
    <3>1. k + 1 > Len(messages)
      BY <2>1, <2>2
    <3> QED BY <3>1 DEF EndFollows
  <2>3. CASE k < Len(messages)
    <3>1. received < MessageEnd(k + 1) \/ (Waiting(m) /\ received = MessageEnd(k + 1))
      BY <1>1, <1>2, <2>3, ReadBefore
    <3>2. /\ \A i \in 0..Len(messages) - 1 : MessageAt(i)
          /\ MessageEnd(Len(messages)) = Len(input)
      BY <2>1, MessageFacts
    <3>3. MessageEnd(k + 1) <= Len(input) /\ Len(input) \in Nat /\ MessageEnd(k + 1) \in Nat
      <4>1. MessageAt(k)
        BY <2>1, <2>3, <3>2
      <4>2. Len(input) \in Nat
        BY DEF IInv, TypeOK
      <4>3. k + 1 \in 0..Len(messages)
        BY <2>1, <2>3
      <4> QED BY <2>1, <4>1, <4>2, <4>3, MessageFacts DEF MessageAt
    <3>4. Waiting(m) /\ MessageEnd(k + 1) = Len(input)
      <4> HIDE DEF k, m
      <4> QED BY <1>1, <3>1, <3>3
    <3>5. k + 1 = Len(messages)
      <4> SUFFICES ASSUME k + 1 # Len(messages) PROVE FALSE
        OBVIOUS
      <4>1. k + 1 \in 0..Len(messages) - 1
        BY <2>1, <2>3
      <4>2. MessageAt(k + 1)
        BY <3>2, <4>1
      <4> DEFINE n == messages[(k + 1) + 1]
                 e == MessageEnd((k + 1) + 1)
      <4>3. /\ n.filler \in Nat /\ Len(BodyCode(n)) \in Nat
            /\ e = MessageEnd(k + 1) + n.filler + 5 + Len(BodyCode(n))
            /\ e <= Len(input)
        BY <4>2 DEF MessageAt, IsMessage
      <4> HIDE DEF n, e, k
      <4> QED BY <3>3, <3>4, <4>3
    <3>6. ~(k + 1 > Len(messages))
      BY <2>1, <2>3
    <3> QED BY <3>4, <3>5, <3>6 DEF EndFollows
  <2> QED BY <2>1, <2>2, <2>3
<1> QED BY <1>1, <1>2, FollowEnds

LEMMA BodyInput ==
  ASSUME Source, NEW k \in 0..Len(messages) - 1, NEW m, m = messages[k + 1]
  PROVE  \A q \in 1..Len(BodyCode(m)) : input[HeaderEnd(k) + q] = BodyCode(m)[q]
<1>1. MessageAt(k)
  BY MessageFacts
<1>2. \A q \in 1..Len(BodyCode(m)) : input[MessageEnd(k) + m.filler + 5 + q] = BodyCode(m)[q]
  BY <1>1 DEF MessageAt
<1> QED BY <1>2 DEF HeaderEnd

\* Steps to a place inside a body.
LEMMA PlaceReached ==
  ASSUME UNCHANGED <<source, returned>>, pc' # "idle", func'.state # "header",
         reading = "response", Len(returned) < Len(messages),
         NEW k, k = Len(returned), NEW m, m = messages[k + 1], Fits(m),
         BodyPlace(m, HeaderEnd(k), func', consumed', content', position')
  PROVE  Place'
<1>1. /\ reading' = reading /\ messages' = messages /\ input' = input /\ returned' = returned
  BY DEF source
<1>2. k = Len(returned') /\ m = messages'[k + 1] /\ HeaderEnd(Len(returned))' = HeaderEnd(k)
  BY <1>1 DEF MessageEnd, HeaderEnd
<1> QED BY <1>1, <1>2, Zenon DEF Place

\* Behind the header of a message, its end being found.
HeaderHere(n, k, m) ==
  /\ Source /\ k \in 0..Len(messages) - 1 /\ k < Len(messages) /\ ~(k + 1 > Len(messages))
  /\ content = <<>> /\ position = 0
  /\ MessageParts(k, m)
  /\ Fits(m) /\ ~(m.filler + 1 + Len(TowMark) > Size)
  /\ Framing(n) = m.framing
  /\ consumed + (n + Len(TowMark)) = HeaderEnd(k)

LEMMA HeaderIsHere ==
  ASSUME IInv, FollowInv, pc = "use", func.state = "header", AllMessages(Len(returned)),
         NEW n \in MarkIndex(TowMark),
         NEW k, k = Len(returned), NEW m, m = messages[k + 1]
  PROVE  HeaderHere(n, k, m)
<1>1. /\ Place /\ Source /\ k \in Nat /\ Len(messages) \in Nat /\ k <= Len(messages)
      /\ k < Len(messages) => k \in 0..Len(messages) - 1
  BY CurrentFacts
<1>2. consumed = MessageEnd(k) /\ content = <<>> /\ position = 0
  BY <1>1 DEF Place
<1>3. CanUsedSize \in Nat /\ CanUsedSize <= Size
  BY WindowInput
<1>4. Len(TowMark) = 4 /\ n \in Nat /\ n + 4 <= CanUsedSize
  <2>1. Len(TowMark) = 4
    BY MarkLengths
  <2>2. n \in Nat /\ n + Len(TowMark) <= CanUsedSize
    <3>1. n \in 0..CanUsedSize - Len(TowMark)
      BY DEF MarkIndex, Marks
    <3> DEFINE U == CanUsedSize
    <3>2. n \in 0..U - 4 /\ U \in Nat
      BY <1>3, <2>1, <3>1
    <3> HIDE DEF U
    <3>3. n \in Nat /\ n + 4 <= U
      BY <3>2
    <3> QED BY <2>1, <3>3 DEF U
  <2> QED BY <2>1, <2>2
<1>5. k # Len(messages)
  <2> SUFFICES ASSUME k = Len(messages) PROVE FALSE
    OBVIOUS
  <2>1. CanUsedSize = 0
    BY NothingLeft
  <2> QED BY <1>4, <2>1
<1>6. k < Len(messages) /\ k \in 0..Len(messages) - 1 /\ ~(k + 1 > Len(messages))
  BY <1>1, <1>5
<1>7. /\ n = m.filler + 1 /\ CanUsedSize >= m.filler + 5 /\ Framing(n) = m.framing
  BY <1>1, <1>2, <1>6, HeaderMark
<1>8. MessageParts(k, m)
  BY <1>1, <1>6, PartsOf
<1> DEFINE h == m.filler
           base == MessageEnd(k)
           start == HeaderEnd(k)
<1>9. h \in Nat /\ base \in Nat /\ start = base + h + 5
  BY <1>8 DEF MessageParts
<1>10. Size \in Nat
  BY HttpStreamAssumption
<1>11. n = h + 1 /\ CanUsedSize >= h + 5 /\ consumed = base
  BY <1>2, <1>7
<1> HIDE DEF h, base, start
<1>12. h + 5 <= Size /\ ~(h + 1 + 4 > Size)
  BY <1>3, <1>9, <1>10, <1>11
<1>13. consumed + (n + 4) = start
  BY <1>4, <1>9, <1>11
<1> QED BY <1>1, <1>2, <1>4, <1>6, <1>7, <1>8, <1>12, <1>13 DEF HeaderHere, Fits, h, start

LEMMA UseHeadersFollows ==
  ASSUME IInv, FollowInv, UseHeaders
  PROVE  FollowInv'
<1>1. pc = "use" /\ func.state = "header"
  BY DEF UseHeaders
<1>2. PICK n \in MarkIndex(TowMark) :
        \/ /\ reading = "response"
           /\ \/ Framing(n) = Chunked /\ func' = Func("chunklength", 0, 0)
              \/ /\ IsLength(Framing(n))
                 /\ Framing(n) - Length(0) <= MaxContentSize
                 /\ func' = Func("bytes", Framing(n) - Length(0), Framing(n) - Length(0))
           /\ Use(n + Len(TowMark))
           /\ UNCHANGED <<pc, content, position, returned>>
        \/ /\ reading = "response"
           /\ ~(Framing(n) = Chunked
                \/ (IsLength(Framing(n)) /\ Framing(n) - Length(0) <= MaxContentSize))
           /\ Throw("refused")
        \/ /\ reading = "request"
           /\ Framing(n) = Length(0)
           /\ Use(n + Len(TowMark))
           /\ End("message", <<>>)
           /\ UNCHANGED parsing
        \/ /\ reading = "request"
           /\ Framing(n) # Length(0)
           /\ Throw("refused")
  BY Zenon DEF UseHeaders
<1> DEFINE k == Len(returned)
           m == messages[k + 1]
<1>3. AllMessages(Len(returned)) => HeaderHere(n, k, m)
  BY <1>1, HeaderIsHere
<1> HIDE DEF k, m
<1>4. ASSUME Throw("refused"),
             AllMessages(Len(returned)) => Outcome(m) = "refused"
      PROVE  FollowInv'
  <2>1. UNCHANGED source /\ End("refused", <<>>)
    BY <1>4 DEF Throw
  <2>2. AllMessages(Len(returned)) => EndFollows("refused", <<>>)
    BY <1>3, <1>4 DEF EndFollows, HeaderHere, k, m
  <2> QED BY <2>1, <2>2, FollowEnds
<1>5. CASE /\ reading = "response"
           /\ ~(Framing(n) = Chunked
                \/ (IsLength(Framing(n)) /\ Framing(n) - Length(0) <= MaxContentSize))
           /\ Throw("refused")
  <2>1. AllMessages(Len(returned)) => Outcome(m) = "refused"
    BY <1>3, <1>5 DEF HeaderHere, Outcome
  <2> QED BY <1>4, <1>5, <2>1
<1>6. CASE /\ reading = "request" /\ Framing(n) # Length(0) /\ Throw("refused")
  <2>1. AllMessages(Len(returned)) => Outcome(m) = "refused"
    BY <1>3, <1>6 DEF HeaderHere, Outcome
  <2> QED BY <1>4, <1>6, <2>1
<1>7. CASE /\ reading = "request" /\ Framing(n) = Length(0)
           /\ Use(n + Len(TowMark)) /\ End("message", <<>>)
  <2>1. UNCHANGED source
    BY <1>7 DEF Use
  <2>2. ASSUME AllMessages(Len(returned))
        PROVE  EndFollows("message", <<>>) /\ k < Len(messages) /\ consumed' = MessageEnd(k + 1)
    <3>1. HeaderHere(n, k, m)
      BY <1>3, <2>2
    <3>2. m.framing = Length(0) /\ m.framing # Chunked /\ IsLength(m.framing)
      BY <1>7, <3>1 DEF HeaderHere, IsLength, Length, Chunked
    <3>3. MessageParts(k, m)
      BY <3>1 DEF HeaderHere
    <3>4. m.body \in Seq(Nat) /\ Len(m.body) = m.framing - Length(0)
      BY <3>2, <3>3 DEF MessageParts, IsMessage, Agrees
    <3>5. m.body = <<>>
      <4>1. Len(m.body) = 0
        BY <3>2, <3>4 DEF Length
      <4> QED BY <3>4, <4>1
    <3>6. Content(m) = <<>> /\ BodyCode(m) = <<>>
      BY <3>2, <3>5 DEF Content, BodyCode
    <3>7. Outcome(m) = "message"
      BY <1>7, <3>1, <3>2 DEF HeaderHere, Outcome
    <3>8. consumed' = HeaderEnd(k)
      BY <1>7, <3>1 DEF Use, HeaderHere
    <3>9. HeaderEnd(k) \in Nat /\ MessageEnd(k + 1) = HeaderEnd(k) + Len(BodyCode(m))
      BY <3>3 DEF MessageParts
    <3>10. consumed' = MessageEnd(k + 1)
      BY <3>6, <3>8, <3>9
    <3>11. EndFollows("message", <<>>)
      BY <3>1, <3>6, <3>7 DEF EndFollows, HeaderHere, k, m
    <3> QED BY <3>1, <3>10, <3>11 DEF HeaderHere
  <2> QED BY <1>7, <2>1, <2>2, FollowEnds DEF k
<1>8. CASE /\ reading = "response"
           /\ \/ Framing(n) = Chunked /\ func' = Func("chunklength", 0, 0)
              \/ /\ IsLength(Framing(n))
                 /\ Framing(n) - Length(0) <= MaxContentSize
                 /\ func' = Func("bytes", Framing(n) - Length(0), Framing(n) - Length(0))
           /\ Use(n + Len(TowMark))
           /\ UNCHANGED <<pc, content, position, returned>>
  <2>1. UNCHANGED <<source, returned>>
    BY <1>8 DEF Use
  <2>2. ASSUME AllMessages(Len(returned)) PROVE Place' /\ Short'
    <3>1. HeaderHere(n, k, m)
      BY <1>3, <2>2
    <3>2. MessageParts(k, m)
      BY <3>1 DEF HeaderHere
    <3>3. consumed' = HeaderEnd(k) /\ content' = <<>> /\ position' = 0 /\ pc' = "use"
      BY <1>1, <1>8, <3>1 DEF Use, HeaderHere
    <3>4. HeaderEnd(k) \in Nat /\ IsMessage(m) /\ Agrees(m) /\ m.framing \in Nat /\ Framing(n) = m.framing
      BY <3>1, <3>2 DEF MessageParts, HeaderHere
    <3>5. CASE m.framing = Chunked /\ func' = Func("chunklength", 0, 0)
      <4>1. /\ Len(m.body) \in Nat /\ Len(m.body) > 0
            /\ Len(ChunkCodes(m)[0]) = 0 /\ Len(ChunkData(m)[0]) = 0
        <5>1. /\ Len(m.body) \in Nat
              /\ Len(ChunkCodes(m)[0]) = 0 /\ Len(ChunkData(m)[0]) = 0
          BY <3>4, <3>5, ChunkFacts
        <5>2. m.body \in Seq([size : Nat, data : Seq(Nat)]) /\ m.body # <<>>
          BY <3>4, <3>5 DEF IsMessage, Agrees
        <5> QED BY <5>1, <5>2
      <4>2. 0 \in 0..Len(m.body) - 1
        BY <4>1
      <4>3. LengthPlace(m, 0, HeaderEnd(k), consumed', content', position')
        <5>1. Good(m, 0)
          BY DEF Good
        <5>2. consumed' = HeaderEnd(k) + Len(ChunkCodes(m)[0])
          BY <3>3, <3>4, <4>1
        <5>3. Brings(m, 0, 0, <<>>, 0)
          BY <4>1 DEF Brings
        <5> QED BY <3>3, <5>1, <5>2, <5>3 DEF LengthPlace
      <4>4. BodyPlace(m, HeaderEnd(k), func', consumed', content', position')
        BY <3>5, <4>2, <4>3 DEF BodyPlace, Func
      <4>5. func'.state = "chunklength"
        BY <3>5 DEF Func
      <4> QED BY <1>8, <2>1, <3>1, <3>3, <4>4, <4>5, PlaceReached DEF HeaderHere, Short, k, m
    <3>6. CASE /\ LengthTaken(m)
               /\ func' = Func("bytes", m.framing - Length(0), m.framing - Length(0))
      <4> DEFINE b == Len(m.body)
                 left == func'.left
                 start == HeaderEnd(k)
      <4>1. m.framing # Chunked /\ IsLength(m.framing) /\ m.framing >= Length(0) /\ Length(0) = 210
        BY <3>4, <3>6 DEF LengthTaken, IsLength, Length, Chunked
      <4>2. m.body \in Seq(Nat) /\ b = m.framing - Length(0)
        BY <3>4, <4>1 DEF IsMessage, Agrees
      <4>3. b \in Nat /\ left = b
        BY <3>6, <4>2 DEF Func
      <4>4. ContentPlace(m, start, left, consumed', content')
        <5>1. b - left = 0 /\ left <= b /\ (left > 0 \/ b = 0) /\ start = start + b - left
          <6> HIDE DEF b, left, start
          <6> QED BY <3>4, <4>3 DEF start
        <5>2. content' \in Seq(Nat) /\ Len(content') = 0 /\ consumed' = start
          BY <3>3
        <5> HIDE DEF left, start
        <5> QED BY <3>6, <5>1, <5>2 DEF ContentPlace
      <4>5. func'.state = "bytes"
        BY <3>6 DEF Func
      <4>6. BodyPlace(m, HeaderEnd(k), func', consumed', content', position')
        BY <4>4, <4>5 DEF BodyPlace
      <4> QED BY <1>8, <2>1, <3>1, <3>3, <4>5, <4>6, PlaceReached DEF HeaderHere, Short, k, m
    <3> QED BY <1>8, <3>4, <3>5, <3>6 DEF LengthTaken
  <2> QED BY <2>1, <2>2, FollowGoes
<1> QED BY <1>2, <1>5, <1>6, <1>7, <1>8

LEMMA TakenInput ==
  ASSUME IInv, NEW n \in Nat, n <= CanUsedSize
  PROVE  /\ Taken(n) \in Seq(Nat) /\ Len(Taken(n)) = n
         /\ \A q \in 1..n : Taken(n)[q] = input[consumed + q]
<1> DEFINE r == SubSeq(Window, 1, n)
<1>1. /\ CanUsedSize \in Nat
      /\ Window \in Seq(Nat) /\ Len(Window) = CanUsedSize
      /\ \A p \in 1..CanUsedSize : Window[p] = input[consumed + p]
  BY WindowInput
<1>2. 0 + n <= Len(Window) /\ r = SubSeq(Window, 0 + 1, 0 + n)
  BY <1>1
<1>3. r \in Seq(Nat) /\ Len(r) = n /\ \A q \in 1..n : r[q] = Window[0 + q]
  BY <1>1, <1>2, Slice
<1>4. Taken(n) = r
  BY DEF Taken
<1> HIDE DEF r
<1>5. ASSUME NEW q \in 1..n PROVE r[q] = input[consumed + q]
  <2>1. q \in 1..CanUsedSize /\ 0 + q = q
    BY <1>1
  <2> QED BY <1>1, <1>3, <2>1
<1> QED BY <1>3, <1>4, <1>5

\* A place in a content with a length, n bytes further on.
ContentGrown(m, start, left, used, n, r) ==
  /\ r \in Seq(Nat) /\ Len(r) = Len(m.body) - (left - n)
  /\ \A p \in 1..Len(r) : r[p] = m.body[p]
  /\ used + n = start + Len(m.body) - (left - n)

LEMMA ContentGrows ==
  ASSUME NEW m, NEW start \in Nat, NEW left \in Nat, NEW used \in Nat, NEW c,
         ContentPlace(m, start, left, used, c),
         m.body \in Seq(Nat),
         NEW n \in Nat, n <= left, NEW s \in Seq(Nat), Len(s) = n,
         \A q \in 1..n : s[q] = m.body[Len(m.body) - left + q],
         NEW r, r = c \o s
  PROVE  ContentGrown(m, start, left, used, n, r)
<1> DEFINE b == Len(m.body)
           body == m.body
<1>1. /\ b \in Nat /\ left <= b /\ used = start + b - left
      /\ c \in Seq(Nat) /\ Len(c) = b - left
      /\ \A p \in 1..Len(c) : c[p] = body[p]
  BY DEF ContentPlace
<1>2. Behind(r, c, s)
  BY <1>1, TwoPieces
<1>3. /\ r \in Seq(Nat) /\ Len(r) = Len(c) + n
      /\ \A p \in 1..Len(c) : r[p] = c[p]
      /\ \A q \in 1..n : r[Len(c) + q] = s[q]
  BY <1>2 DEF Behind
<1> HIDE DEF b, body
<1>4. Len(r) = b - (left - n) /\ used + n = start + b - (left - n)
  BY <1>1, <1>3
<1>5. ASSUME NEW p \in 1..Len(r) PROVE r[p] = body[p]
  <2>1. CASE p \in 1..Len(c)
    BY <1>1, <1>3, <2>1
  <2>2. CASE p \notin 1..Len(c)
    <3> DEFINE q == p - Len(c)
    <3>1. q \in 1..n /\ Len(c) + q = p /\ b - left + q = p
      BY <1>1, <1>3, <2>2
    <3> HIDE DEF q
    <3>2. r[Len(c) + q] = s[q] /\ s[q] = body[b - left + q]
      BY <1>3, <3>1 DEF b, body
    <3> QED BY <3>1, <3>2
  <2> QED BY <2>1, <2>2
<1> QED BY <1>3, <1>4, <1>5 DEF ContentGrown, b, body

LEMMA UseByteArrayFollows ==
  ASSUME IInv, FollowInv, UseByteArray
  PROVE  FollowInv'
<1> DEFINE left == func.left
<1>1. PICK n : n = IF CanUsedSize > left THEN left ELSE CanUsedSize
  OBVIOUS
<1>2. /\ pc = "use" /\ CanUsedSize > 0 /\ func.state = "bytes"
      /\ Use(n)
      /\ content' = content \o Taken(n)
      /\ func' = [func EXCEPT !.left = @ - n]
      /\ left - n <= 0 => End("message", content')
      /\ ~(left - n <= 0) => UNCHANGED <<pc, returned>>
      /\ position' = position
  BY <1>1 DEF UseByteArray
<1>3. CanUsedSize \in Nat /\ consumed \in Nat
  BY WindowInput
<1>4. left \in Nat /\ func \in [state : {"header", "bytes", "chunklength", "chunk"}, left : Nat, size : Nat]
  BY DEF IInv, TypeOK
<1>5. n \in Nat /\ n <= left /\ n <= CanUsedSize
  <2> HIDE DEF left
  <2> QED BY <1>1, <1>3, <1>4
<1>6. func'.left = left - n /\ func'.state = "bytes"
  BY <1>2, <1>4
<1>7. UNCHANGED source /\ consumed' = consumed + n
  BY <1>2 DEF Use
<1> DEFINE k == Len(returned)
           m == messages[k + 1]
           start == HeaderEnd(k)
           b == Len(m.body)
<1>8. ASSUME AllMessages(Len(returned))
      PROVE  /\ k \in Nat /\ k < Len(messages) /\ Len(messages) \in Nat /\ Fits(m) /\ reading = "response"
             /\ MessageParts(k, m) /\ LengthTaken(m)
             /\ m.framing # Chunked /\ m.body \in Seq(Nat)
             /\ content' \in Seq(Nat) /\ Len(content') = b - (left - n)
             /\ \A p \in 1..Len(content') : content'[p] = m.body[p]
             /\ consumed' = start + b - (left - n)
             /\ left <= b /\ (left > 0 \/ b = 0)
  <2>1. /\ Place /\ Source /\ k \in Nat /\ Len(messages) \in Nat
        /\ k < Len(messages) => k \in 0..Len(messages) - 1
    BY <1>8, CurrentFacts
  <2>2. /\ reading = "response" /\ k < Len(messages) /\ Fits(m)
        /\ ContentPlace(m, start, left, consumed, content)
    BY <1>2, <2>1 DEF Place, BodyPlace
  <2>3. MessageParts(k, m)
    BY <2>1, <2>2, PartsOf
  <2>4. IsMessage(m) /\ Agrees(m) /\ start \in Nat
    BY <2>3 DEF MessageParts
  <2>5. LengthTaken(m) /\ left <= b /\ (left > 0 \/ b = 0) /\ consumed = start + b - left
    BY <2>2 DEF ContentPlace
  <2>6. m.framing # Chunked
    BY <2>5 DEF LengthTaken, IsLength, Length, Chunked
  <2>7. m.body \in Seq(Nat) /\ BodyCode(m) = m.body
    BY <2>4, <2>6 DEF IsMessage, Agrees, BodyCode
  <2>8. \A q \in 1..b : input[start + q] = m.body[q]
    <3>1. \A q \in 1..Len(BodyCode(m)) : input[HeaderEnd(k) + q] = BodyCode(m)[q]
      BY <2>1, <2>2, BodyInput
    <3> QED BY <2>7, <3>1
  <2>9. /\ Taken(n) \in Seq(Nat) /\ Len(Taken(n)) = n
        /\ \A q \in 1..n : Taken(n)[q] = input[consumed + q]
    BY <1>5, TakenInput
  <2>10. ASSUME NEW q \in 1..n PROVE Taken(n)[q] = m.body[b - left + q]
    <3>1. b \in Nat
      BY <2>7
    <3>2. consumed + q = start + (b - left + q) /\ b - left + q \in 1..b
      <4> HIDE DEF b, start, left
      <4> QED BY <1>3, <1>4, <1>5, <2>4, <2>5, <3>1
    <3> QED BY <2>8, <2>9, <3>2
  <2>11. /\ content' \in Seq(Nat) /\ Len(content') = b - (left - n)
         /\ \A p \in 1..Len(content') : content'[p] = m.body[p]
         /\ consumed + n = start + b - (left - n)
    <3>1. \A q \in 1..n : Taken(n)[q] = m.body[Len(m.body) - left + q]
      BY <2>10
    <3>2. /\ start \in Nat /\ left \in Nat /\ consumed \in Nat /\ n \in Nat /\ n <= left
          /\ ContentPlace(m, start, left, consumed, content) /\ m.body \in Seq(Nat)
          /\ Taken(n) \in Seq(Nat) /\ Len(Taken(n)) = n /\ content' = content \o Taken(n)
      BY <1>2, <1>3, <1>4, <1>5, <2>2, <2>4, <2>7, <2>9
    <3> HIDE DEF start, left, m
    <3>3. ContentGrown(m, start, left, consumed, n, content')
      BY <3>1, <3>2, ContentGrows
    <3> QED BY <3>3 DEF ContentGrown
  <2> QED BY <1>7, <2>1, <2>2, <2>3, <2>5, <2>6, <2>7, <2>11
<1> HIDE DEF left, k, m, start, b
<1>9. CASE left - n <= 0
  <2>1. End("message", content')
    BY <1>2, <1>9
  <2>2. ASSUME AllMessages(Len(returned))
        PROVE  EndFollows("message", content') /\ k < Len(messages) /\ consumed' = MessageEnd(k + 1)
    <3>1. left - n = 0
      BY <1>4, <1>5, <1>9
    <3>2. b \in Nat /\ b - (left - n) = b /\ start + b - (left - n) = start + b
      <4>1. b \in Nat
        BY <1>8, <2>2 DEF b
      <4>2. start \in Nat
        BY <1>8, <2>2 DEF MessageParts, start
      <4> QED BY <3>1, <4>1, <4>2
    <3>3. content' = m.body
      <4>1. content' \in Seq(Nat) /\ Len(content') = b
        BY <1>8, <2>2, <3>2
      <4>2. m.body \in Seq(Nat) /\ Len(m.body) = b
        BY <1>8, <2>2 DEF b
      <4>3. \A p \in 1..Len(content') : content'[p] = m.body[p]
        BY <1>8, <2>2
      <4> QED BY <4>1, <4>2, <4>3, SeqEqual
    <3>4. Content(m) = content'
      BY <1>8, <2>2, <3>3 DEF Content
    <3>5. consumed' = MessageEnd(k + 1)
      <4>1. MessageEnd(k + 1) = start + Len(BodyCode(m)) /\ BodyCode(m) = m.body
        BY <1>8, <2>2 DEF MessageParts, start, BodyCode
      <4> QED BY <1>8, <2>2, <3>2, <4>1 DEF b
    <3>6. Outcome(m) = "message"
      <4>1. ~(m.filler + 1 + Len(TowMark) > Size)
        BY <1>8, <2>2, FitsIs DEF MessageParts
      <4> QED BY <1>8, <2>2, <4>1 DEF Outcome, LengthTaken
    <3>7. ~(k + 1 > Len(messages))
      BY <1>8, <2>2
    <3>8. EndFollows("message", content')
      BY <3>4, <3>6, <3>7 DEF EndFollows, k, m
    <3> QED BY <1>8, <2>2, <3>5, <3>8
  <2> QED BY <1>7, <2>1, <2>2, FollowEnds DEF k
<1>10. CASE ~(left - n <= 0)
  <2>1. UNCHANGED <<source, returned>> /\ pc' = "use"
    BY <1>2, <1>7, <1>10
  <2>2. ASSUME AllMessages(Len(returned)) PROVE Place' /\ Short'
    <3>1. /\ left - n <= b /\ left - n > 0
      <4>1. b \in Nat
        BY <1>8, <2>2 DEF b
      <4> QED BY <1>4, <1>5, <1>8, <1>10, <2>2, <4>1
    <3>2. ContentPlace(m, start, func'.left, consumed', content')
      BY <1>6, <1>8, <2>2, <3>1 DEF ContentPlace, b
    <3>3. BodyPlace(m, HeaderEnd(k), func', consumed', content', position')
      BY <1>6, <3>2 DEF BodyPlace, start
    <3> QED BY <1>6, <1>8, <2>1, <2>2, <3>3, PlaceReached DEF Short, k, m
  <2> QED BY <2>1, <2>2, FollowGoes
<1> QED BY <1>9, <1>10

LEMMA UseChunkLengthFollows ==
  ASSUME IInv, FollowInv, UseChunkLength
  PROVE  FollowInv'
<1>1. pc = "use" /\ func.state = "chunklength"
  BY DEF UseChunkLength
<1> DEFINE size == Window[1] - Digit(0)
<1>2. PICK n \in MarkIndex(OneMark) :
        LET isSize == n = 1 /\ Window[1] \in Digit(0)..Digit(9) IN
        \/ /\ isSize
           /\ position + size <= MaxContentSize
           /\ func' = Func("chunk", size + Len(OneMark), size)
           /\ Use(n + Len(OneMark))
           /\ UNCHANGED <<pc, content, position, returned>>
        \/ /\ ~(isSize /\ position + size <= MaxContentSize)
           /\ Throw("broken")
  BY Zenon DEF UseChunkLength
<1> DEFINE k == Len(returned)
           m == messages[k + 1]
           start == HeaderEnd(k)
<1>3. ASSUME AllMessages(Len(returned))
      PROVE  /\ Source /\ k \in 0..Len(messages) - 1 /\ k < Len(messages) /\ ~(k + 1 > Len(messages))
             /\ reading = "response" /\ Fits(m) /\ m.framing = Chunked
             /\ MessageParts(k, m)
             /\ \E j \in 0..Len(m.body) - 1 :
                  LengthPlace(m, j, start, consumed, content, position)
  <2>1. /\ Place /\ Source /\ k \in Nat /\ Len(messages) \in Nat
        /\ k < Len(messages) => k \in 0..Len(messages) - 1
    BY <1>3, CurrentFacts
  <2>2. /\ reading = "response" /\ k < Len(messages) /\ Fits(m) /\ m.framing = Chunked
        /\ \E j \in 0..Len(m.body) - 1 :
             LengthPlace(m, j, start, consumed, content, position)
    BY <1>1, <2>1 DEF Place, BodyPlace
  <2>3. MessageParts(k, m)
    BY <2>1, <2>2, PartsOf
  <2> QED BY <2>1, <2>2, <2>3
\* What the parser reads is the length of the chunk.
<1>4. ASSUME AllMessages(Len(returned)), NEW j \in 0..Len(m.body) - 1,
             LengthPlace(m, j, start, consumed, content, position),
             NEW c, c = m.body[j + 1]
      PROVE  /\ n = 1 /\ c.size \in Nat /\ size = c.size
             /\ Window[1] \in Digit(0)..Digit(9) <=> c.size \in 0..9
             /\ Len(ChunkData(m)[j]) \in Nat /\ position = Len(ChunkData(m)[j])
             /\ Len(ChunkData(m)[j + 1]) = position + Len(c.data)
             /\ Len(ChunkCodes(m)[j]) \in Nat /\ start \in Nat
             /\ consumed = start + Len(ChunkCodes(m)[j])
             /\ c.size \in 0..9 => Len(c.data) = c.size
             /\ j + 1 \in 1..Len(m.body)
  <2>1. consumed = start + Len(ChunkCodes(m)[j]) /\ Brings(m, j, 0, content, position)
    BY <1>4 DEF LengthPlace
  <2>2. /\ n = 1 /\ Window[1] = Digit(c.size)
    BY <1>3, <1>4, <2>1, LengthMark
  <2>3. ChunkThere(k, m, j, c, consumed)
    BY <1>3, <1>4, <2>1, ChunkInput
  <2>4. /\ IsChunk(c) /\ Len(ChunkCodes(m)[j]) \in Nat /\ start \in Nat
        /\ Behind(ChunkData(m)[j + 1], ChunkData(m)[j], c.data)
    BY <2>3 DEF ChunkThere
  <2>5. c.size \in Nat
    BY <2>4 DEF IsChunk
  <2>6. size = c.size /\ (Window[1] \in Digit(0)..Digit(9) <=> c.size \in 0..9)
    <3> DEFINE w == Window[1]
               s == c.size
    <3>1. w = 48 + s /\ s \in Nat
      BY <2>2, <2>5 DEF Digit
    <3> HIDE DEF w, s
    <3>2. w - 48 = s
      BY <3>1
    <3>3. w \in 48..57 <=> s \in 0..9
      BY <3>1
    <3> QED BY <3>2, <3>3 DEF w, s, Digit
  <2>7. /\ Len(ChunkData(m)[j]) \in Nat /\ position = Len(ChunkData(m)[j])
    <3>1. Len(ChunkData(m)[j]) \in Nat /\ position = Len(ChunkData(m)[j]) + 0
      BY <2>1, <2>4 DEF Brings, Behind
    <3> DEFINE d == Len(ChunkData(m)[j])
    <3> HIDE DEF d
    <3>2. d \in Nat /\ position = d
      BY <3>1 DEF d
    <3> QED BY <3>2 DEF d
  <2>8. Len(ChunkData(m)[j + 1]) = position + Len(c.data)
    BY <2>4, <2>7 DEF Behind
  <2>9. IsMessage(m) /\ Agrees(m)
    BY <1>3, <1>4 DEF MessageParts
  <2>10. j + 1 \in 1..Len(m.body)
    BY <1>3, <1>4, <2>9, ChunkFacts
  <2>11. c.size \in 0..9 => Len(c.data) = c.size
    BY <1>3, <1>4, <2>9, <2>10 DEF IsMessage, Agrees
  <2> QED BY <2>1, <2>2, <2>4, <2>5, <2>6, <2>7, <2>8, <2>10, <2>11
<1> HIDE DEF size, k, m, start
<1>5. CASE /\ n = 1 /\ Window[1] \in Digit(0)..Digit(9)
           /\ position + size <= MaxContentSize
           /\ func' = Func("chunk", size + Len(OneMark), size)
           /\ Use(n + Len(OneMark))
           /\ UNCHANGED <<pc, content, position, returned>>
  <2>1. UNCHANGED <<source, returned>> /\ pc' = "use" /\ content' = content /\ position' = position
    BY <1>1, <1>5 DEF Use
  <2>2. ASSUME AllMessages(Len(returned)) PROVE Place' /\ Short'
    <3>1. PICK j \in 0..Len(m.body) - 1 :
            LengthPlace(m, j, start, consumed, content, position)
      BY <1>3, <2>2
    <3> DEFINE c == m.body[j + 1]
               b == Len(ChunkCodes(m)[j])
    <3>2. /\ c.size \in 0..9 /\ size = c.size /\ Len(c.data) = c.size
          /\ Len(ChunkData(m)[j + 1]) = position + size
          /\ b \in Nat /\ start \in Nat /\ consumed = start + b /\ n = 1
      BY <1>4, <1>5, <2>2, <3>1
    <3>3. Good(m, j + 1)
      <4>1. Good(m, j)
        BY <3>1 DEF LengthPlace
      <4>2. \A i \in 1..j + 1 : i \in 1..j \/ i = j + 1
        OBVIOUS
      <4> QED BY <1>5, <3>2, <4>1, <4>2 DEF Good
    <3>4. func'.state = "chunk" /\ func'.size = c.size /\ func'.left = c.size + 2
      BY <1>5, <3>2, MarkLengths DEF Func
    <3>5. consumed' = start + b + 3 + 0
      <4>1. consumed' = consumed + (1 + 2)
        BY <1>5, <3>2, MarkLengths DEF Use
      <4> HIDE DEF b
      <4> QED BY <3>2, <4>1
    <3>6. Brings(m, j, 0, content', position')
      BY <2>1, <3>1 DEF LengthPlace
    <3>7. func'.left > 0 /\ func'.left + 0 = c.size + 2
      <4> DEFINE s == c.size
      <4>1. s \in Nat /\ func'.left = s + 2
        BY <3>2, <3>4
      <4>2. s + 2 > 0 /\ s + 2 + 0 = s + 2
        <5> HIDE DEF s
        <5> QED BY <4>1
      <4> QED BY <4>1, <4>2
    <3>8. ChunkPlace(m, j, 0, start, func', consumed', content', position')
      BY <3>3, <3>4, <3>5, <3>6, <3>7 DEF ChunkPlace
    <3>9. BodyPlace(m, HeaderEnd(k), func', consumed', content', position')
      BY <1>3, <2>2, <3>4, <3>8 DEF BodyPlace, start
    <3> QED BY <1>3, <2>1, <2>2, <3>4, <3>9, PlaceReached DEF Short, k, m
  <2> QED BY <2>1, <2>2, FollowGoes
<1>6. CASE /\ ~(n = 1 /\ Window[1] \in Digit(0)..Digit(9) /\ position + size <= MaxContentSize)
           /\ Throw("broken")
  <2>1. UNCHANGED source /\ End("broken", <<>>)
    BY <1>6 DEF Throw
  <2>2. ASSUME AllMessages(Len(returned)) PROVE EndFollows("broken", <<>>)
    <3>1. PICK j \in 0..Len(m.body) - 1 :
            LengthPlace(m, j, start, consumed, content, position)
      BY <1>3, <2>2
    <3> DEFINE c == m.body[j + 1]
               d == Len(ChunkData(m)[j + 1])
    <3>2. /\ n = 1 /\ size = c.size
          /\ Window[1] \in Digit(0)..Digit(9) <=> c.size \in 0..9
          /\ position \in Nat
          /\ d = position + Len(c.data)
          /\ c.size \in 0..9 => Len(c.data) = c.size
          /\ j + 1 \in 1..Len(m.body)
      BY <1>4, <2>2, <3>1
    <3>3. c.size \notin 0..9 \/ d > MaxContentSize
      <4> SUFFICES ASSUME c.size \in 0..9 PROVE d > MaxContentSize
        OBVIOUS
      <4>1. ~(position + size <= MaxContentSize) /\ d = position + size /\ size \in Nat
        BY <1>6, <3>2
      <4>2. MaxContentSize \in Nat
        BY HttpStreamAssumption
      <4> HIDE DEF d
      <4> QED BY <3>2, <4>1, <4>2
    <3>4. BadChunk(m)
      BY <3>2, <3>3 DEF BadChunk
    <3>5. m.filler \in Nat
      BY <1>3, <2>2 DEF MessageParts
    <3>6. Outcome(m) = "broken"
      BY <1>3, <2>2, <3>4, <3>5, FitsIs DEF Outcome
    <3> QED BY <1>3, <2>2, <3>6 DEF EndFollows, k, m
  <2> QED BY <2>1, <2>2, FollowEnds
<1> QED BY <1>2, <1>5, <1>6

\* The MemoryStream with j chunks and t bytes of the next one, c.
Brought(m, j, c, t, r, p) ==
  /\ Brings(m, j, t, r, p)
  /\ \A q \in 1..t : r[Len(ChunkData(m)[j]) + q] = Piece(c)[q]

\* More of the chunk.
LEMMA ChunkGrows ==
  ASSUME NEW m, NEW j \in Nat, NEW c, NEW t \in Nat, NEW old, NEW p \in Nat,
         Brought(m, j, c, t, old, p), Len(ChunkData(m)[j]) \in Nat,
         NEW n \in Nat, n >= 1, NEW s \in Seq(Nat), Len(s) = n,
         \A q \in 1..n : s[q] = Piece(c)[t + q],
         NEW r, r = Overwrite(old, p, s)
  PROVE  Brought(m, j, c, t + n, r, p + n)
<1> DEFINE D == ChunkData(m)[j]
           d == Len(D)
           g == Piece(c)
<1>1. /\ old \in Seq(Nat) /\ p = d + t
      /\ Len(old) = IF j > 0 /\ t < 2 THEN d + 2 ELSE d + t
      /\ \A q \in 1..d : old[q] = D[q]
      /\ \A q \in 1..t : old[d + q] = g[q]
      /\ d \in Nat
  BY DEF Brought, Brings
<1> HIDE DEF d, D, g
<1>2. Len(old) \in Nat /\ p <= Len(old)
  BY <1>1
<1>3. /\ r \in Seq(Nat)
      /\ Len(r) = IF p + n >= Len(old) THEN p + n ELSE Len(old)
      /\ \A q \in 1..p : r[q] = old[q]
      /\ \A q \in 1..n : r[p + q] = s[q]
  <2>1. Overwritten(old, p, s, r)
    BY <1>1, <1>2, OverwriteFacts
  <2> QED BY <2>1 DEF Overwritten
<1>4. Len(r) = IF j > 0 /\ t + n < 2 THEN d + 2 ELSE d + (t + n)
  <2> DEFINE a == Len(old)
             b == Len(r)
  <2>1. /\ p = d + t /\ d \in Nat
        /\ a = IF j > 0 /\ t < 2 THEN d + 2 ELSE d + t
        /\ b = IF p + n >= a THEN p + n ELSE a
    BY <1>1, <1>3
  <2> HIDE DEF a, b
  <2>2. b = IF j > 0 /\ t + n < 2 THEN d + 2 ELSE d + (t + n)
    <3>1. CASE j > 0 /\ t < 2
      BY <2>1, <3>1
    <3>2. CASE ~(j > 0 /\ t < 2)
      BY <2>1, <3>2
    <3> QED BY <3>1, <3>2
  <2> QED BY <2>2 DEF b
<1>5. p + n = d + (t + n)
  BY <1>1
<1>6. ASSUME NEW q \in 1..d PROVE r[q] = D[q]
  <2>1. q \in 1..p
    BY <1>1
  <2> QED BY <1>1, <1>3, <2>1
<1>7. ASSUME NEW q \in 1..t + n PROVE r[d + q] = g[q]
  <2>1. CASE q \in 1..t
    <3>1. d + q \in 1..p
      BY <1>1, <2>1
    <3> QED BY <1>1, <1>3, <2>1, <3>1
  <2>2. CASE q \notin 1..t
    <3> DEFINE i == q - t
    <3>1. i \in 1..n /\ t + i = q /\ p + i = d + q
      BY <1>1, <2>2
    <3> HIDE DEF i
    <3>2. r[p + i] = s[i] /\ s[i] = g[t + i]
      BY <1>3, <3>1 DEF g
    <3> QED BY <3>1, <3>2
  <2> QED BY <2>1, <2>2
<1> QED BY <1>3, <1>4, <1>5, <1>6, <1>7 DEF Brought, Brings, d, D, g

\* The MemoryStream with the data e and an end mark behind it.
Marked(e, r, p) ==
  /\ r \in Seq(Nat) /\ Len(e) \in Nat /\ Len(r) = Len(e) + 2
  /\ p = Len(e) + 2
  /\ \A q \in 1..Len(e) : r[q] = e[q]
  /\ \A q \in 1..2 : r[Len(e) + q] = OneMark[q]

\* A whole chunk: its end mark stays behind its data.
LEMMA ChunkIsDone ==
  ASSUME NEW m, NEW j \in Nat, NEW c, IsChunk(c), NEW s \in Nat, s = Len(c.data),
         NEW r, NEW p \in Nat, Brought(m, j, c, s + 2, r, p),
         Behind(ChunkData(m)[j + 1], ChunkData(m)[j], c.data)
  PROVE  Marked(ChunkData(m)[j + 1], r, p)
<1> DEFINE D == ChunkData(m)[j]
           d == Len(D)
           E == ChunkData(m)[j + 1]
           e == Len(E)
           g == Piece(c)
           data == c.data
<1>1. /\ r \in Seq(Nat) /\ p = d + (s + 2)
      /\ Len(r) = IF j > 0 /\ s + 2 < 2 THEN d + 2 ELSE d + (s + 2)
      /\ \A q \in 1..d : r[q] = D[q]
      /\ \A q \in 1..s + 2 : r[d + q] = g[q]
  BY DEF Brought, Brings
<1>2. /\ d \in Nat /\ e = d + s
      /\ \A q \in 1..d : E[q] = D[q]
      /\ \A q \in 1..s : E[d + q] = data[q]
  BY DEF Behind
<1>3. Behind(g, data, OneMark) /\ Len(OneMark) = 2
  BY PieceIs
<1> HIDE DEF D, d, E, e, g
<1>4. (\A q \in 1..s : g[q] = data[q]) /\ (\A q \in 1..2 : g[s + q] = OneMark[q])
  BY <1>3 DEF Behind
<1> HIDE DEF data
<1>5. Len(r) = e + 2 /\ p = e + 2 /\ e \in Nat
  BY <1>1, <1>2
<1>6. ASSUME NEW q \in 1..e PROVE r[q] = E[q]
  <2>1. CASE q \in 1..d
    BY <1>1, <1>2, <2>1
  <2>2. CASE q \notin 1..d
    <3> DEFINE i == q - d
    <3>1. i \in 1..s /\ i \in 1..s + 2 /\ d + i = q
      BY <1>2, <2>2
    <3> HIDE DEF i
    <3>2. r[d + i] = g[i] /\ g[i] = data[i] /\ E[d + i] = data[i]
      BY <1>1, <1>2, <1>4, <3>1
    <3> QED BY <3>1, <3>2
  <2> QED BY <2>1, <2>2
<1>7. ASSUME NEW q \in 1..2 PROVE r[e + q] = OneMark[q]
  <2>1. s + q \in 1..s + 2 /\ d + (s + q) = e + q
    BY <1>2
  <2>2. r[d + (s + q)] = g[s + q]
    BY <1>1, <2>1
  <2>3. g[s + q] = OneMark[q]
    BY <1>4
  <2> QED BY <2>1, <2>2, <2>3
<1> QED BY <1>1, <1>5, <1>6, <1>7 DEF Marked, E, e

LEMMA LastIsDone ==
  ASSUME NEW e \in Seq(Nat), NEW r, NEW p, Marked(e, r, p)
  PROVE  r = e \o OneMark
<1> DEFINE u == e \o OneMark
           l == Len(e)
<1>1. OneMark \in Seq(Nat) /\ Len(OneMark) = 2
  BY OneMarkIs
<1>2. Behind(u, e, OneMark)
  BY <1>1, TwoPieces
<1>3. /\ u \in Seq(Nat) /\ Len(u) = l + 2 /\ l \in Nat
      /\ \A q \in 1..l : u[q] = e[q]
      /\ \A q \in 1..2 : u[l + q] = OneMark[q]
  BY <1>1, <1>2 DEF Behind
<1>7. /\ r \in Seq(Nat) /\ Len(r) = l + 2
      /\ \A q \in 1..l : r[q] = e[q]
      /\ \A q \in 1..2 : r[l + q] = OneMark[q]
  BY DEF Marked
<1> HIDE DEF u, l
<1>4. ASSUME NEW q \in 1..l + 2 PROVE r[q] = u[q]
  <2>1. CASE q \in 1..l
    BY <1>3, <1>7, <2>1
  <2>2. CASE q \notin 1..l
    <3> DEFINE i == q - l
    <3>1. i \in 1..2 /\ l + i = q
      BY <1>3, <2>2
    <3> HIDE DEF i
    <3>2. r[l + i] = OneMark[i] /\ u[l + i] = OneMark[i]
      BY <1>3, <1>7, <3>1
    <3> QED BY <3>1, <3>2
  <2> QED BY <2>1, <2>2
<1>6. r = u
  BY <1>3, <1>4, <1>7, SeqEqual
<1> QED BY <1>6 DEF u

LEMMA UseChunkFollows ==
  ASSUME IInv, FollowInv, UseChunk
  PROVE  FollowInv'
<1> DEFINE left == func.left
<1>1. PICK n : n = IF CanUsedSize > left THEN left ELSE CanUsedSize
  OBVIOUS
<1>2. /\ pc = "use" /\ CanUsedSize > 0 /\ func.state = "chunk"
      /\ Use(n)
      /\ content' = Overwrite(content, position, Taken(n))
      /\ left - n > 0 => /\ func' = [func EXCEPT !.left = left - n]
                         /\ position' = position + n
                         /\ UNCHANGED <<pc, returned>>
      /\ ~(left - n > 0) /\ func.size = 0 =>
           End("message", content') /\ UNCHANGED func
      /\ ~(left - n > 0) /\ func.size # 0 =>
           /\ position' = position + n - Len(OneMark)
           /\ func' = Func("chunklength", 0, 0)
           /\ UNCHANGED <<pc, returned>>
  BY <1>1 DEF UseChunk
<1>3. CanUsedSize \in Nat /\ consumed \in Nat
  BY WindowInput
<1>4. left \in Nat /\ func \in [state : {"header", "bytes", "chunklength", "chunk"}, left : Nat, size : Nat]
  BY DEF IInv, TypeOK
<1>5. n \in Nat /\ n <= left /\ n <= CanUsedSize
  <2> HIDE DEF left
  <2> QED BY <1>1, <1>3, <1>4
<1>6. UNCHANGED source /\ consumed' = consumed + n
  BY <1>2 DEF Use
<1> DEFINE k == Len(returned)
           m == messages[k + 1]
           start == HeaderEnd(k)
<1>7. ASSUME AllMessages(Len(returned))
      PROVE  /\ Source /\ k \in 0..Len(messages) - 1 /\ k < Len(messages) /\ ~(k + 1 > Len(messages))
             /\ reading = "response" /\ Fits(m) /\ m.framing = Chunked
             /\ MessageParts(k, m)
             /\ \E j \in 0..Len(m.body) - 1, t \in Nat :
                  ChunkPlace(m, j, t, start, func, consumed, content, position)
  <2>1. /\ Place /\ Source /\ k \in Nat /\ Len(messages) \in Nat
        /\ k < Len(messages) => k \in 0..Len(messages) - 1
    BY <1>7, CurrentFacts
  <2>2. /\ reading = "response" /\ k < Len(messages) /\ Fits(m) /\ m.framing = Chunked
        /\ \E j \in 0..Len(m.body) - 1, t \in Nat :
             ChunkPlace(m, j, t, start, func, consumed, content, position)
    BY <1>2, <2>1 DEF Place, BodyPlace
  <2>3. MessageParts(k, m)
    BY <2>1, <2>2, PartsOf
  <2> QED BY <2>1, <2>2, <2>3
\* What the step brings to a chunk of s bytes that begins at `at` in the input.
<1> DEFINE More(j, t, c, s, at) ==
             /\ ChunkThere(k, m, j, c, at)
             /\ j \in Nat /\ Good(m, j + 1)
             /\ s \in Nat /\ c.size = s /\ func.size = s
             /\ at \in Nat /\ position \in Nat
             /\ left > 0 /\ left + t = s + 2
             /\ consumed' = at + 3 + (t + n)
             /\ Brought(m, j, c, t + n, content', position + n)
             /\ (s = 0 <=> j + 1 = Len(m.body))
<1>8. ASSUME AllMessages(Len(returned)), NEW j \in 0..Len(m.body) - 1, NEW t \in Nat,
             ChunkPlace(m, j, t, start, func, consumed, content, position),
             NEW c, c = m.body[j + 1], NEW s, s = Len(c.data),
             NEW at, at = start + Len(ChunkCodes(m)[j])
      PROVE  More(j, t, c, s, at)
  <2>1. /\ Good(m, j + 1) /\ func.size = c.size
        /\ left > 0 /\ left + t = c.size + 2
        /\ consumed = at + 3 + t
        /\ Brought(m, j, c, t, content, position)
    BY <1>8 DEF ChunkPlace, Brought
  <2>2. ChunkThere(k, m, j, c, at)
    BY <1>7, <1>8, ChunkInput
  <2>3. /\ s \in Nat /\ at \in Nat /\ IsChunk(c)
        /\ \A q \in 1..s + 2 : input[at + 3 + q] = Piece(c)[q]
        /\ Len(ChunkData(m)[j]) \in Nat
    BY <1>8, <2>2 DEF ChunkThere, Behind
  <2>4. IsMessage(m) /\ Agrees(m)
    BY <1>7, <1>8 DEF MessageParts
  <2>5. c.size \in 0..9 /\ c.size = s
    BY <1>7, <1>8, <2>1, <2>4, GoodSize
  <2>6. j \in Nat /\ j + 1 \in 1..Len(m.body) /\ Len(m.body) \in Nat
    BY <1>7, <1>8, <2>4, ChunkFacts
  <2>7. s = 0 <=> j + 1 = Len(m.body)
    BY <1>7, <1>8, <2>4, <2>5, <2>6 DEF IsMessage, Agrees
  <2>8. position \in Nat
    <3> DEFINE d == Len(ChunkData(m)[j])
    <3>1. d \in Nat /\ position = d + t
      BY <2>1, <2>3 DEF Brought, Brings
    <3> HIDE DEF d
    <3> QED BY <3>1
  <2>9. left + t = s + 2
    BY <2>1, <2>5
  <2>10. n >= 1
    <3> HIDE DEF left
    <3> QED BY <1>1, <1>2, <1>3, <1>4, <2>1
  <2>11. /\ Taken(n) \in Seq(Nat) /\ Len(Taken(n)) = n
         /\ \A q \in 1..n : Taken(n)[q] = input[consumed + q]
    BY <1>5, TakenInput
  <2>12. ASSUME NEW q \in 1..n PROVE Taken(n)[q] = Piece(c)[t + q]
    <3>1. consumed + q = at + 3 + (t + q) /\ t + q \in 1..s + 2
      <4> HIDE DEF left
      <4>1. consumed + q = at + 3 + (t + q)
        BY <1>5, <2>1, <2>3
      <4>2. t + q \in 1..s + 2
        BY <1>4, <1>5, <2>3, <2>9
      <4> QED BY <4>1, <4>2
    <3> QED BY <2>3, <2>11, <3>1
  <2>13. Brought(m, j, c, t + n, content', position + n)
    <3> HIDE DEF m, k, start, left
    <3> QED BY <1>2, <1>5, <2>1, <2>3, <2>6, <2>8, <2>10, <2>11, <2>12, ChunkGrows
  <2>14. consumed' = at + 3 + (t + n)
    <3>1. consumed' = at + 3 + t + n
      BY <1>6, <2>1
    <3> QED BY <1>5, <2>3, <3>1
  <2> QED BY <2>1, <2>2, <2>3, <2>5, <2>6, <2>7, <2>8, <2>9, <2>13, <2>14
<1> HIDE DEF left, k, m, start, More
<1>9. CASE left - n > 0
  <2>1. UNCHANGED <<source, returned>> /\ pc' = "use" /\ position' = position + n
    BY <1>2, <1>6, <1>9
  <2>2. ASSUME AllMessages(Len(returned)) PROVE Place' /\ Short'
    <3>1. PICK j \in 0..Len(m.body) - 1, t \in Nat :
            ChunkPlace(m, j, t, start, func, consumed, content, position)
      BY <1>7, <2>2
    <3> DEFINE c == m.body[j + 1]
               s == Len(c.data)
               b == Len(ChunkCodes(m)[j])
    <3>2. /\ Good(m, j + 1) /\ s \in Nat /\ c.size = s /\ func.size = s
          /\ left + t = s + 2 /\ consumed' = start + b + 3 + (t + n)
          /\ Brought(m, j, c, t + n, content', position + n)
      <4>1. More(j, t, c, s, start + b)
        BY <1>8, <2>2, <3>1
      <4> QED BY <4>1 DEF More
    <3>3. func'.state = "chunk" /\ func'.size = func.size /\ func'.left = left - n
      BY <1>2, <1>4, <1>9
    <3>4. (left - n) + (t + n) = s + 2 /\ t + n \in Nat
      <4> HIDE DEF s
      <4> QED BY <1>4, <1>5, <3>2
    <3>5. ChunkPlace(m, j, t + n, start, func', consumed', content', position')
      <4>1. /\ func'.left > 0 /\ func'.left + (t + n) = c.size + 2 /\ func'.size = c.size
        BY <1>9, <3>2, <3>3, <3>4
      <4>2. /\ Brings(m, j, t + n, content', position')
            /\ \A q \in 1..t + n : content'[Len(ChunkData(m)[j]) + q] = Piece(c)[q]
        BY <2>1, <3>2 DEF Brought
      <4> QED BY <3>2, <4>1, <4>2 DEF ChunkPlace
    <3>6. BodyPlace(m, HeaderEnd(k), func', consumed', content', position')
      BY <1>7, <2>2, <3>3, <3>4, <3>5 DEF BodyPlace, start
    <3> QED BY <1>7, <2>1, <2>2, <3>3, <3>6, PlaceReached DEF Short, k, m
  <2> QED BY <2>1, <2>2, FollowGoes
\* The end of a chunk.
<1> DEFINE Done(j) ==
             /\ Good(m, j + 1) /\ j + 1 \in Nat
             /\ (func.size = 0 <=> j + 1 = Len(m.body))
             /\ consumed' = start + Len(ChunkCodes(m)[j + 1])
             /\ (j + 1 = Len(m.body) => consumed' = MessageEnd(k + 1))
             /\ ChunkData(m)[j + 1] \in Seq(Nat)
             /\ Marked(ChunkData(m)[j + 1], content', position + n)
             /\ position \in Nat
<1>10. ASSUME ~(left - n > 0), AllMessages(Len(returned)), NEW j \in 0..Len(m.body) - 1,
              NEW t \in Nat, ChunkPlace(m, j, t, start, func, consumed, content, position)
       PROVE  Done(j)
  <2> DEFINE at == start + Len(ChunkCodes(m)[j])
             c == m.body[j + 1]
             s == Len(c.data)
  <2>1. /\ ChunkThere(k, m, j, c, at)
        /\ j \in Nat /\ Good(m, j + 1)
        /\ s \in Nat /\ c.size = s /\ func.size = s
        /\ at \in Nat /\ position \in Nat
        /\ left > 0 /\ left + t = s + 2
        /\ consumed' = at + 3 + (t + n)
        /\ Brought(m, j, c, t + n, content', position + n)
        /\ (s = 0 <=> j + 1 = Len(m.body))
    <3>1. More(j, t, c, s, at)
      BY <1>8, <1>10
    <3> HIDE DEF at, c, s
    <3> QED BY <3>1 DEF More
  <2> HIDE DEF at
  <2>2. t + n = s + 2
    <3> HIDE DEF s, c
    <3> QED BY <1>4, <1>5, <1>10, <2>1
  <2>3. /\ IsChunk(c)
        /\ Behind(ChunkData(m)[j + 1], ChunkData(m)[j], c.data)
        /\ start + Len(ChunkCodes(m)[j + 1]) = at + s + 5
        /\ j + 1 = Len(m.body) => MessageEnd(k + 1) = at + s + 5
    BY <1>10, <2>1 DEF ChunkThere, start
  <2>4. consumed' = at + s + 5
    <3> HIDE DEF s, c
    <3>1. consumed' = at + 3 + (s + 2)
      BY <2>1, <2>2
    <3> QED BY <2>1, <3>1
  <2>5. position + n \in Nat /\ Brought(m, j, c, s + 2, content', position + n)
    BY <1>5, <2>1, <2>2
  <2>7. Marked(ChunkData(m)[j + 1], content', position + n)
    <3> HIDE DEF c
    <3> QED BY <2>1, <2>3, <2>5, ChunkIsDone
  <2>8. ChunkData(m)[j + 1] \in Seq(Nat) /\ j + 1 \in Nat
    BY <2>1, <2>3 DEF Behind
  <2> QED BY <2>1, <2>3, <2>4, <2>7, <2>8
<1> HIDE DEF Done
<1>11. CASE ~(left - n > 0) /\ func.size = 0
  <2>1. End("message", content')
    BY <1>2, <1>11
  <2>2. ASSUME AllMessages(Len(returned))
        PROVE  EndFollows("message", content') /\ k < Len(messages) /\ consumed' = MessageEnd(k + 1)
    <3>1. PICK j \in 0..Len(m.body) - 1, t \in Nat :
            ChunkPlace(m, j, t, start, func, consumed, content, position)
      BY <1>7, <2>2
    <3> DEFINE e == ChunkData(m)[j + 1]
    <3>2. /\ j + 1 = Len(m.body) /\ Good(m, j + 1) /\ consumed' = MessageEnd(k + 1)
          /\ e \in Seq(Nat) /\ Marked(e, content', position + n)
      <4>1. Done(j)
        BY <1>10, <1>11, <2>2, <3>1
      <4> QED BY <1>11, <4>1 DEF Done
    <3>3. content' = e \o OneMark
      <4> HIDE DEF e
      <4> QED BY <3>2, LastIsDone
    <3>4. Content(m) = content'
      BY <1>7, <2>2, <3>2, <3>3 DEF Content
    <3>5. ~BadChunk(m)
      <4> SUFFICES ASSUME NEW i \in 1..Len(m.body)
                   PROVE  ~(m.body[i].size \notin 0..9 \/ Len(ChunkData(m)[i]) > MaxContentSize)
        BY DEF BadChunk
      <4>1. m.body[i].size \in 0..9 /\ Len(ChunkData(m)[i]) <= MaxContentSize
        BY <3>2 DEF Good
      <4>2. ChunkData(m)[i] \in Seq(Nat)
        <5>1. IsMessage(m) /\ Agrees(m)
          BY <1>7, <2>2 DEF MessageParts
        <5>2. Len(m.body) \in Nat /\ \A h \in 0..Len(m.body) - 1 : ChunkAt(m, h)
          BY <1>7, <2>2, <5>1, ChunkFacts
        <5>3. i - 1 \in 0..Len(m.body) - 1 /\ (i - 1) + 1 = i
          BY <5>2
        <5>4. ChunkAt(m, i - 1)
          BY <5>2, <5>3
        <5> QED BY <5>3, <5>4 DEF ChunkAt, Behind
      <4>3. MaxContentSize \in Nat
        BY HttpStreamAssumption
      <4> DEFINE d == Len(ChunkData(m)[i])
      <4>4. d \in Nat /\ d <= MaxContentSize
        BY <4>1, <4>2
      <4> HIDE DEF d
      <4>5. ~(d > MaxContentSize)
        BY <4>3, <4>4
      <4> QED BY <4>1, <4>5 DEF d
    <3>6. m.filler \in Nat
      BY <1>7, <2>2 DEF MessageParts
    <3>7. Outcome(m) = "message"
      BY <1>7, <2>2, <3>5, <3>6, FitsIs DEF Outcome
    <3>8. EndFollows("message", content')
      BY <1>7, <2>2, <3>4, <3>7 DEF EndFollows, k, m
    <3> QED BY <1>7, <2>2, <3>2, <3>8
  <2> QED BY <1>6, <2>1, <2>2, FollowEnds DEF k
<1>12. CASE ~(left - n > 0) /\ func.size # 0
  <2>1. /\ UNCHANGED <<source, returned>> /\ pc' = "use"
        /\ func'.state = "chunklength"
    BY <1>2, <1>6, <1>12 DEF Func
  <2>3. position' = position + n - 2
    <3>1. position' = position + n - Len(OneMark) /\ Len(OneMark) = 2
      BY <1>2, <1>12, MarkLengths
    <3> QED BY <3>1
  <2>2. ASSUME AllMessages(Len(returned)) PROVE Place' /\ Short'
    <3>1. PICK j \in 0..Len(m.body) - 1, t \in Nat :
            ChunkPlace(m, j, t, start, func, consumed, content, position)
      BY <1>7, <2>2
    <3> DEFINE e == ChunkData(m)[j + 1]
               d == Len(e)
    <3>2. /\ j + 1 # Len(m.body) /\ Good(m, j + 1) /\ j + 1 \in Nat
          /\ consumed' = start + Len(ChunkCodes(m)[j + 1])
          /\ d \in Nat /\ content' \in Seq(Nat) /\ Len(content') = d + 2
          /\ \A q \in 1..d : content'[q] = e[q]
          /\ position \in Nat /\ position + n = d + 2
      <4>1. Done(j)
        BY <1>10, <1>12, <2>2, <3>1
      <4> QED BY <1>12, <4>1 DEF Done, Marked
    <3>3. j + 1 \in 0..Len(m.body) - 1
      <4>1. IsMessage(m) /\ Agrees(m)
        BY <1>7, <2>2 DEF MessageParts
      <4>2. Len(m.body) \in Nat
        BY <1>7, <2>2, <4>1, ChunkFacts
      <4> QED BY <3>1, <3>2, <4>2
    <3>4. position' = d + 0
      <4> HIDE DEF d, e
      <4>1. position \in Nat /\ n \in Nat /\ d \in Nat /\ position + n = d + 2
        BY <1>5, <3>2
      <4> QED BY <2>3, <4>1
    <3>5. j + 1 > 0
      BY <3>1
    <3>6. Brings(m, j + 1, 0, content', position')
      BY <3>2, <3>4, <3>5 DEF Brings
    <3>7. LengthPlace(m, j + 1, start, consumed', content', position')
      BY <3>2, <3>6 DEF LengthPlace
    <3>8. BodyPlace(m, HeaderEnd(k), func', consumed', content', position')
      BY <1>7, <2>1, <2>2, <3>3, <3>7 DEF BodyPlace, start
    <3> QED BY <1>7, <2>1, <2>2, <3>8, PlaceReached DEF Short, k, m
  <2> QED BY <2>1, <2>2, FollowGoes
<1> QED BY <1>9, <1>11, <1>12

LEMMA FollowsInitially == HttpInit => FollowInv
<1> SUFFICES ASSUME HttpInit PROVE FollowInv
  OBVIOUS
<1>1. Source /\ returned = <<>> /\ consumed = 0 /\ pc = "idle"
  BY DEF HttpInit, Source
<1>2. returned \in Seq({}) /\ Len(returned) = 0
  BY <1>1
<1>3. MessageEnd(0) = 0 /\ Len(messages) \in Nat
  BY <1>1, MessageFacts
<1>4. Place /\ Short
  BY <1>1, <1>2, <1>3 DEF Place, Short
<1>5. \A k \in 1..Len(returned) : AllMessages(k - 1) => Follows(k)
  BY <1>2
<1>6. Len(returned) <= Len(messages)
  BY <1>2, <1>3
<1> QED BY <1>1, <1>2, <1>4, <1>5, <1>6 DEF FollowInv

LEMMA FollowsStep == IInv /\ FollowInv /\ [HttpNext]_httpVars => FollowInv'
<1> SUFFICES ASSUME IInv, FollowInv, [HttpNext]_httpVars PROVE FollowInv'
  OBVIOUS
<1>1. CASE UNCHANGED httpVars
  <2>1. /\ UNCHANGED <<source, returned, consumed, func, content, position, pc>>
        /\ UNCHANGED <<m_read_offset, m_used_offset>>
    BY <1>1 DEF httpVars, buffer, parsing
  <2>2. ASSUME AllMessages(Len(returned)) PROVE Place' /\ Short'
    <3>1. Place /\ Short
      BY <2>2, CurrentFacts
    <3>2. CanUsedSize' = CanUsedSize
      BY <2>1 DEF CanUsedSize
    <3>3. /\ MessageEnd(Len(returned))' = MessageEnd(Len(returned))
          /\ HeaderEnd(Len(returned))' = HeaderEnd(Len(returned))
      BY <2>1 DEF MessageEnd, HeaderEnd, source
    <3>4. Place'
      BY <2>1, <3>1, <3>3 DEF Place, source
    <3>5. Short'
      BY <2>1, <3>1, <3>2 DEF Short, source
    <3> QED BY <3>4, <3>5
  <2> QED BY <2>1, <2>2, FollowGoes
<1> QED
  BY <1>1, ReadAsyncFollows, UseHeadersFollows, UseByteArrayFollows, UseChunkLengthFollows,
     UseChunkFollows, NotResultFollows, MoveFollows, MoveOverflowFollows, ReceiveFollows,
     ReceiveEndFollows
  DEF HttpNext

\* Whatever a peer sends in messages that agree with their own fields, and however
\* the network cuts it, the calls of ReadAsync return one message after the other,
\* each with the content that was sent and the stream left at the next one, up to
\* the first that MHttpStream refuses, and that one for the reason it has.
THEOREM CallsAlwaysFollow == HttpSpec => []CallsFollowMessages
<1>1. FollowInv => CallsFollowMessages
  <2> SUFFICES ASSUME FollowInv, NEW k \in 1..Len(returned), AllMessages(k - 1)
               PROVE  IF k > Len(messages) THEN returned[k].kind = "io"
                      ELSE \/ /\ returned[k].kind = Outcome(messages[k])
                              /\ returned[k].kind = "message" =>
                                   /\ returned[k].content = Content(messages[k])
                                   /\ pc = "idle" /\ k = Len(returned) => consumed = MessageEnd(k)
                           \/ /\ returned[k].kind = "io"
                              /\ Waiting(messages[k])
                              /\ k = Len(messages)
    BY DEF CallsFollowMessages
  <2>1. Follows(k)
    BY DEF FollowInv
  <2>2. returned[k].kind = "message" /\ pc = "idle" /\ k = Len(returned) => consumed = MessageEnd(k)
    <3> SUFFICES ASSUME returned[k].kind = "message", pc = "idle", k = Len(returned)
                 PROVE  consumed = MessageEnd(k)
      OBVIOUS
    <3>1. AllMessages(k)
      <4>1. \A i \in 1..k : i \in 1..k - 1 \/ i = k
        OBVIOUS
      <4> QED BY <4>1 DEF AllMessages
    <3>2. Place
      BY <3>1 DEF FollowInv
    <3> QED BY <3>2 DEF Place
  <2> QED BY <2>1, <2>2 DEF Follows
<1>2. IInv /\ FollowInv /\ [HttpNext]_httpVars => IInv' /\ FollowInv'
  BY NextIInv, FollowsStep
<1> QED BY InitIInv, FollowsInitially, <1>1, <1>2, PTL DEF HttpSpec

\* A call never asks the socket for more once its whole message has come, so that it
\* cannot hang on a peer that has nothing more to say; a content of length zero is
\* the exception MHttpStream makes.
THEOREM NeverReadsPast == HttpSpec => []NoReadPastMessage
<1>1. IInv /\ FollowInv => NoReadPastMessage
  <2> SUFFICES ASSUME IInv, FollowInv, NEW k, k = Len(returned) + 1, k <= Len(messages),
                      ~Waiting(messages[k]), ReadsPastMessage(k)
               PROVE  FALSE
    BY DEF NoReadPastMessage
  <2> DEFINE l == Len(returned)
  <2>1. l \in Nat /\ Len(messages) \in Nat
    <3>1. PICK S : returned \in Seq(S)
      BY DEF FollowInv
    <3>2. Len(messages) \in Nat
      BY MessageFacts DEF FollowInv
    <3> QED BY <3>1, <3>2
  <2>2. k - 1 = l /\ l < Len(messages) /\ k = l + 1
    BY <2>1
  <2>3. pc = "read" /\ AllMessages(l) /\ received >= MessageEnd(k)
    BY <2>2 DEF ReadsPastMessage
  <2>4. received < MessageEnd(l + 1) \/ Waiting(messages[l + 1])
    BY <2>2, <2>3, ReadBefore
  <2>5. received < MessageEnd(k)
    BY <2>2, <2>4
  <2>6. received \in Nat /\ MessageEnd(k) \in Nat
    <3>1. k \in 0..Len(messages)
      BY <2>1, <2>2
    <3> QED BY <3>1, MessageFacts DEF FollowInv, IInv, TypeOK
  <2> QED BY <2>3, <2>5, <2>6
<1>2. IInv /\ FollowInv /\ [HttpNext]_httpVars => IInv' /\ FollowInv'
  BY NextIInv, FollowsStep
<1> QED BY InitIInv, FollowsInitially, <1>1, <1>2, PTL DEF HttpSpec

=============================================================================
