--------------------------- MODULE LunrIndexProofs ---------------------------
(***************************************************************************)
(* The search index of the documentation site.  A query string is parsed   *)
(* right, whatever its characters; the vectors of the index stay sorted    *)
(* and agree with the postings, whatever the documents and the queries.    *)
(***************************************************************************)
EXTENDS LunrIndex, SequenceTheorems, FiniteSetTheorems, WellFoundedInduction, TLAPS

-----------------------------------------------------------------------------
(* Numbers and sequences.                                                    *)

LEMMA LeastOf ==
  ASSUME NEW I \in SUBSET Nat, I # {}
  PROVE  \E m \in I : \A i \in I : m <= i
<1>1. PICK m \in I : \A i \in I : ~ (<<i, m>> \in OpToRel(<, Nat))
  BY NatLessThanWellFounded, WFMin
<1>2. ASSUME NEW i \in I, i < m PROVE FALSE
  <2>1. <<i, m>> \in Nat \X Nat /\ <<i, m>>[1] < <<i, m>>[2]
    BY <1>2
  <2> QED
    BY <1>1, <2>1 DEF OpToRel
<1> QED
  BY <1>2

\* Induction, for a set of numbers.
LEMMA Reaches ==
  ASSUME NEW I \in SUBSET Nat, 0 \in I, \A n \in I : n + 1 \in I
  PROVE  I = Nat
<1> SUFFICES ASSUME I # Nat PROVE FALSE
  OBVIOUS
<1>1. Nat \ I # {} /\ Nat \ I \in SUBSET Nat
  OBVIOUS
<1>2. PICK m \in Nat \ I : \A i \in Nat \ I : m <= i
  BY <1>1, LeastOf
<1>3. m - 1 \in Nat /\ m - 1 < m
  BY <1>2
<1>4. m - 1 \in I
  BY <1>2, <1>3
<1>5. (m - 1) + 1 \in I
  BY <1>4
<1> QED
  BY <1>2, <1>5

\* FlattenSeq builds this function; it is there for every sequence.
IsFlat(f, q, n) == f = [i \in 1..n |-> IF i = 1 THEN q[i] ELSE f[i - 1] \o q[i]]

LEMMA FlatAt ==
  ASSUME NEW q, NEW n, NEW f, IsFlat(f, q, n), NEW i \in 1..n
  PROVE  f[i] = IF i = 1 THEN q[i] ELSE f[i - 1] \o q[i]
BY DEF IsFlat

LEMMA FlatThere ==
  ASSUME NEW q, NEW l \in Nat
  PROVE  \E f : IsFlat(f, q, l)
<1> DEFINE I == {n \in Nat : \E f : IsFlat(f, q, n)}
<1>1. 0 \in I
  <2> DEFINE f == [i \in 1..0 |-> q[i]]
  <2>1. IsFlat(f, q, 0)
    BY DEF IsFlat
  <2> QED BY <2>1
<1>2. ASSUME NEW n \in I PROVE n + 1 \in I
  <2>0. n \in Nat
    OBVIOUS
  <2>1. PICK f : IsFlat(f, q, n)
    OBVIOUS
  <2> DEFINE g == [i \in 1..n + 1 |->
                     IF i = n + 1 THEN IF n = 0 THEN q[i] ELSE f[n] \o q[i] ELSE f[i]]
  <2>2. ASSUME NEW i \in 1..n + 1
        PROVE  g[i] = IF i = 1 THEN q[i] ELSE g[i - 1] \o q[i]
    <3>1. CASE i = n + 1 /\ n = 0
      <4>1. g[i] = q[i] /\ i = 1
        BY <3>1
      <4> HIDE DEF g
      <4> QED BY <4>1
    <3>2. CASE i = n + 1 /\ n # 0
      <4>1. g[i] = f[n] \o q[i]
        BY <3>2
      <4>2. i - 1 = n /\ n \in 1..n + 1 /\ n # n + 1 /\ i # 1
        BY <2>0, <3>2
      <4>3. g[i - 1] = f[n]
        BY <4>2
      <4> HIDE DEF g
      <4> QED BY <4>1, <4>2, <4>3
    <3>3. CASE i # n + 1
      <4>1. i \in 1..n /\ g[i] = f[i]
        BY <2>0, <3>3
      <4>2. f[i] = IF i = 1 THEN q[i] ELSE f[i - 1] \o q[i]
        BY <2>1, <4>1 DEF IsFlat
      <4>3. CASE i = 1
        <5> HIDE DEF g
        <5> QED BY <4>1, <4>2, <4>3
      <4>4. CASE i # 1
        <5>1. i - 1 \in 1..n + 1 /\ i - 1 # n + 1
          BY <2>0, <4>1, <4>4
        <5>2. g[i - 1] = f[i - 1]
          BY <5>1
        <5> HIDE DEF g
        <5> QED BY <4>1, <4>2, <4>4, <5>2
      <4> QED BY <4>3, <4>4
    <3> QED BY <3>1, <3>2, <3>3
  <2>3. g = [i \in 1..n + 1 |-> g[i]]
    OBVIOUS
  <2> HIDE DEF g
  <2>4. IsFlat(g, q, n + 1)
    BY <2>2, <2>3, Zenon DEF IsFlat
  <2> QED BY <2>0, <2>4
<1> HIDE DEF I
<1>3. I = Nat
  <2>1. I \in SUBSET Nat
    BY DEF I
  <2> QED BY <1>1, <1>2, <2>1, Reaches
<1> QED BY <1>3 DEF I

Alike(p, q, n) == \A i \in 1..n : p[i] = q[i]

\* What is joined of two sequences that begin alike begins alike.
LEMMA FlatAlike ==
  ASSUME NEW p, NEW q, NEW m \in Nat, NEW n \in Nat, m <= n, NEW f, NEW g,
         IsFlat(f, p, m), IsFlat(g, q, n), Alike(p, q, m)
  PROVE  Alike(f, g, m)
<1> DEFINE I == {k \in Nat : k \in 1..m => f[k] = g[k]}
<1>1. 0 \in I
  OBVIOUS
<1>2. ASSUME NEW k \in I PROVE k + 1 \in I
  <2> SUFFICES ASSUME k + 1 \in 1..m PROVE f[k + 1] = g[k + 1]
    OBVIOUS
  <2>0. k \in Nat /\ k + 1 \in 1..n
    OBVIOUS
  <2>1. /\ f[k + 1] = IF k + 1 = 1 THEN p[k + 1] ELSE f[k + 1 - 1] \o p[k + 1]
        /\ g[k + 1] = IF k + 1 = 1 THEN q[k + 1] ELSE g[k + 1 - 1] \o q[k + 1]
    BY <2>0, FlatAt
  <2>2. k + 1 - 1 = k /\ p[k + 1] = q[k + 1]
    BY <2>0 DEF Alike
  <2>3. k # 0 => f[k] = g[k]
    BY <2>0
  <2>4. k + 1 = 1 <=> k = 0
    BY <2>0
  <2> HIDE DEF I
  <2> QED BY <2>1, <2>2, <2>3, <2>4
<1> HIDE DEF I
<1>3. I = Nat
  <2>1. I \in SUBSET Nat
    BY DEF I
  <2> QED BY <1>1, <1>2, <2>1, Reaches
<1> QED BY <1>3 DEF I, Alike

LEMMA FlattenIs ==
  ASSUME NEW q, NEW n \in Nat \ {0}, Len(q) = n
  PROVE  \E f : IsFlat(f, q, n) /\ FlattenSeq(q) = f[n]
<1> DEFINE f == CHOOSE f : IsFlat(f, q, n)
<1>1. IsFlat(f, q, n)
  BY FlatThere
<1>2. FlattenSeq(q) = IF Len(q) = 0 THEN q ELSE (CHOOSE h : IsFlat(h, q, Len(q)))[Len(q)]
  BY Zenon DEF FlattenSeq, IsFlat
<1>3. FlattenSeq(q) = f[n]
  BY <1>2
<1> QED BY <1>1, <1>3

\* FlattenSeq joins one sequence after the other.
LEMMA FlattenAppend ==
  ASSUME NEW S, NEW q \in Seq(Seq(S)), NEW x \in Seq(S), FlattenSeq(q) \in Seq(S)
  PROVE  FlattenSeq(Append(q, x)) = FlattenSeq(q) \o x
<1>n. PICK n \in Nat : n = Len(q)
  OBVIOUS
<1>m. PICK m \in Nat \ {0} : m = n + 1
  OBVIOUS
<1>r. PICK r : r = Append(q, x)
  OBVIOUS
<1>0. Len(r) = m /\ r[m] = x /\ Alike(q, r, n)
  BY <1>n, <1>m, <1>r DEF Alike
<1>1. PICK g : IsFlat(g, r, m) /\ FlattenSeq(r) = g[m]
  BY <1>0, FlattenIs
<1>2. CASE n = 0
  <2>1. g[m] = x
    BY <1>0, <1>1, <1>2, <1>m DEF IsFlat
  <2>2. q = <<>> /\ FlattenSeq(q) = <<>>
    BY <1>2, <1>n DEF FlattenSeq
  <2> QED BY <1>1, <1>r, <2>1, <2>2
<1>3. CASE n # 0
  <2>1. PICK f : IsFlat(f, q, n) /\ FlattenSeq(q) = f[n]
    BY <1>3, <1>n, FlattenIs
  <2>2. n <= m /\ n \in 1..n /\ m \in 1..m /\ m # 1 /\ m - 1 = n
    BY <1>m, <1>3
  <2>3. f[n] = g[n]
    <3>1. IsFlat(f, q, n) /\ IsFlat(g, r, m)
      BY <1>1, <2>1
    <3>2. n \in Nat /\ m \in Nat /\ n <= m /\ n \in 1..n
      BY <2>2
    <3>3. Alike(f, g, n)
      BY <1>0, <3>1, <3>2, FlatAlike
    <3> QED BY <3>2, <3>3 DEF Alike
  <2>4. g[m] = IF m = 1 THEN r[m] ELSE g[m - 1] \o r[m]
    <3>1. IsFlat(g, r, m)
      BY <1>1
    <3>2. m \in 1..m
      BY <2>2
    <3> QED BY ONLY <3>1, <3>2, FlatAt
  <2> QED BY <1>0, <1>1, <1>r, <2>1, <2>2, <2>3, <2>4
<1> QED BY <1>2, <1>3

LEMMA FlattenType ==
  ASSUME NEW S, NEW q \in Seq(Seq(S))
  PROVE  FlattenSeq(q) \in Seq(S)
<1> DEFINE n == Len(q)
<1>0. n \in Nat /\ \A i \in 1..n : q[i] \in Seq(S)
  OBVIOUS
<1>1. CASE n = 0
  BY <1>1 DEF FlattenSeq
<1>2. CASE n # 0
  <2>1. PICK f : IsFlat(f, q, n) /\ FlattenSeq(q) = f[n]
    <3> HIDE DEF n
    <3>1. n \in Nat \ {0}
      BY <1>0, <1>2
    <3>2. Len(q) = n
      BY DEF n
    <3> QED BY <3>1, <3>2, FlattenIs
  <2> DEFINE I == {k \in Nat : k \in 1..n => f[k] \in Seq(S)}
  <2> HIDE DEF n
  <2>2. 0 \in I
    OBVIOUS
  <2>3. ASSUME NEW k \in I PROVE k + 1 \in I
    <3> SUFFICES ASSUME k + 1 \in 1..n PROVE f[k + 1] \in Seq(S)
      OBVIOUS
    <3>0. k \in Nat /\ q[k + 1] \in Seq(S)
      BY <1>0
    <3>1. f[k + 1] = IF k + 1 = 1 THEN q[k + 1] ELSE f[k + 1 - 1] \o q[k + 1]
      BY <2>1, FlatAt
    <3>2. k + 1 - 1 = k /\ (k + 1 = 1 <=> k = 0)
      BY <3>0
    <3>3. k # 0 => f[k] \in Seq(S)
      BY <1>0, <3>0
    <3>4. k # 0 => f[k] \o q[k + 1] \in Seq(S)
      BY <3>0, <3>3
    <3> HIDE DEF I
    <3> QED BY <3>0, <3>1, <3>2, <3>4
  <2> HIDE DEF I
  <2>4. I = Nat
    <3>1. I \in SUBSET Nat
      BY DEF I
    <3> QED BY <2>2, <2>3, <3>1, Reaches
  <2> QED BY <1>0, <1>2, <2>1, <2>4 DEF I
<1> QED BY <1>1, <1>2

-----------------------------------------------------------------------------
(* The plain characters of a query string.                                   *)

Characters == STRING
Signs == {":", "~", "^"} \cup Separators

\* What Plain has of the last n characters, when it has a of one less and b of
\* two less.
PlainStep(s, n, a, b) ==
  LET i == Len(s) - n + 1 IN
  IF n = 0 THEN <<>>
  ELSE IF s[i] = "\\" THEN IF n = 1 THEN <<>> ELSE <<s[i + 1]>> \o b
  ELSE IF s[i] \in {":", "~", "^"} \cup Separators THEN a
  ELSE <<s[i]>> \o a

IsPlain(f, s, l) == f = [n \in 0..l |-> PlainStep(s, n, f[n - 1], f[n - 2])]

LEMMA PlainAt ==
  ASSUME NEW s, NEW l, NEW f, IsPlain(f, s, l), NEW n \in 0..l
  PROVE  f[n] = PlainStep(s, n, f[n - 1], f[n - 2])
BY DEF IsPlain

LEMMA PlainStepFirst ==
  ASSUME NEW s, NEW a, NEW b, NEW c
  PROVE  PlainStep(s, 0, a, b) = <<>> /\ PlainStep(s, 1, a, b) = PlainStep(s, 1, a, c)
BY DEF PlainStep

LEMMA PlainThere ==
  ASSUME NEW s, NEW l \in Nat
  PROVE  \E f : IsPlain(f, s, l)
<1> DEFINE I == {n \in Nat : \E f : IsPlain(f, s, n)}
<1>1. 0 \in I
  <2> DEFINE f == [n \in 0..0 |-> <<>>]
  <2>1. \A n \in 0..0 : PlainStep(s, n, f[n - 1], f[n - 2]) = <<>>
    <3> HIDE DEF f
    <3> QED BY PlainStepFirst
  <2>2. f = [n \in 0..0 |-> PlainStep(s, n, f[n - 1], f[n - 2])]
    BY <2>1
  <2> QED BY <2>2 DEF IsPlain
<1>2. ASSUME NEW n \in I PROVE n + 1 \in I
  <2>0. n \in Nat
    OBVIOUS
  <2>1. PICK f : IsPlain(f, s, n)
    OBVIOUS
  <2> DEFINE new == PlainStep(s, n + 1, f[n], f[n - 1])
  <2> HIDE DEF new
  <2> DEFINE g == [k \in 0..n + 1 |-> IF k = n + 1 THEN new ELSE f[k]]
  <2>2. ASSUME NEW k \in 0..n + 1
        PROVE  g[k] = PlainStep(s, k, g[k - 1], g[k - 2])
    <3>0. k \in Nat /\ k <= n + 1
      BY <2>0
    <3>1. g[n + 1] = new /\ \A j \in 0..n : g[j] = f[j]
      BY <2>0
    <3> HIDE DEF g
    <3>2. CASE k = n + 1
      <4>1. k - 1 = n /\ k - 2 = n - 1 /\ n \in 0..n
        BY <2>0, <3>2
      <4>2. g[k - 1] = f[n]
        BY <3>1, <4>1
      <4>3. CASE n = 0
        <5>1. k = 1 /\ new = PlainStep(s, 1, f[n], f[n - 1])
          BY <3>2, <4>3 DEF new
        <5>2. new = PlainStep(s, 1, f[n], g[k - 2])
          BY <5>1, PlainStepFirst
        <5> QED BY <3>1, <3>2, <4>2, <5>1, <5>2
      <4>4. CASE n # 0
        <5>1. n - 1 \in 0..n
          BY <2>0, <4>4
        <5>2. g[k - 2] = f[n - 1]
          BY <3>1, <4>1, <5>1
        <5> QED BY <3>1, <3>2, <4>2, <5>2 DEF new
      <4> QED BY <4>3, <4>4
    <3>3. CASE k # n + 1
      <4>1. k \in 0..n /\ g[k] = f[k]
        BY <3>0, <3>1, <3>3, <2>0
      <4>2. f[k] = PlainStep(s, k, f[k - 1], f[k - 2])
        BY <2>1, <4>1, PlainAt
      <4>3. CASE k = 0
        <5>1. PlainStep(s, k, f[k - 1], f[k - 2]) = <<>> /\ PlainStep(s, k, g[k - 1], g[k - 2]) = <<>>
          BY ONLY <4>3, PlainStepFirst
        <5> QED BY <4>1, <4>2, <5>1
      <4>4. CASE k = 1
        <5>1. k - 1 = 0 /\ g[k - 1] = f[k - 1]
          BY <3>1, <4>1, <4>4
        <5>2. f[k] = PlainStep(s, 1, f[k - 1], f[k - 2])
          BY <4>2, <4>4
        <5>3. f[k] = PlainStep(s, 1, f[k - 1], g[k - 2])
          BY <5>2, PlainStepFirst
        <5>4. f[k] = PlainStep(s, k, f[k - 1], g[k - 2])
          BY ONLY <4>4, <5>3
        <5> QED BY ONLY <4>1, <5>1, <5>4
      <4>5. CASE k > 1
        <5>1. k - 1 \in 0..n /\ k - 2 \in 0..n
          BY <3>0, <4>1, <4>5
        <5>2. g[k - 1] = f[k - 1] /\ g[k - 2] = f[k - 2]
          BY <3>1, <5>1
        <5> QED BY <4>1, <4>2, <5>2
      <4> QED BY <3>0, <4>3, <4>4, <4>5
    <3> QED BY <3>2, <3>3
  <2>3. g = [k \in 0..n + 1 |-> g[k]]
    OBVIOUS
  <2> HIDE DEF g
  <2>4. IsPlain(g, s, n + 1)
    BY <2>2, <2>3, Zenon DEF IsPlain
  <2> QED BY <2>0, <2>4
<1> HIDE DEF I
<1>3. I = Nat
  <2>1. I \in SUBSET Nat
    BY DEF I
  <2> QED BY <1>1, <1>2, <2>1, Reaches
<1> QED BY <1>3 DEF I

PlainOf(s) == CHOOSE f : IsPlain(f, s, Len(s))

LEMMA PlainIs ==
  ASSUME NEW s \in Seq(Characters)
  PROVE  IsPlain(PlainOf(s), s, Len(s)) /\ Plain(s) = PlainOf(s)[Len(s)]
<1>1. Len(s) \in Nat
  OBVIOUS
<1>2. IsPlain(PlainOf(s), s, Len(s))
  BY <1>1, PlainThere DEF PlainOf
<1>3. Plain(s) = PlainOf(s)[Len(s)]
  BY Zenon DEF Plain, PlainOf, IsPlain, PlainStep
<1> QED BY <1>2, <1>3

\* The plain characters from a position on.
Rest(s, p) == IF p > Len(s) THEN <<>> ELSE PlainOf(s)[Len(s) - p]

LEMMA RestStep ==
  ASSUME NEW s \in Seq(Characters), NEW p \in 0..Len(s) - 1
  PROVE  /\ s[p + 1] = "\\" /\ p + 1 = Len(s) => Rest(s, p) = <<>>
         /\ s[p + 1] = "\\" /\ p + 1 < Len(s) => Rest(s, p) = <<s[p + 2]>> \o Rest(s, p + 2)
         /\ s[p + 1] \in Signs => Rest(s, p) = Rest(s, p + 1)
         /\ s[p + 1] \notin Signs \cup {"\\"} => Rest(s, p) = <<s[p + 1]>> \o Rest(s, p + 1)
<1> DEFINE n == Len(s) - p
           f == PlainOf(s)
<1>0. Len(s) \in Nat /\ p \in Nat /\ p < Len(s)
  OBVIOUS
<1>1. n \in 0..Len(s) /\ Len(s) - n + 1 = p + 1 /\ n # 0
  BY <1>0
<1>2. f[n] = PlainStep(s, n, f[n - 1], f[n - 2])
  BY <1>1, PlainIs, PlainAt
<1>3. Rest(s, p) = f[n] /\ Rest(s, p + 1) = f[n - 1]
  <2>1. Len(s) - (p + 1) = n - 1 /\ ~(p > Len(s)) /\ ~(p + 1 > Len(s))
    BY <1>0
  <2> QED BY <2>1 DEF Rest
<1>4. p + 1 < Len(s) => Rest(s, p + 2) = f[n - 2]
  <2> SUFFICES ASSUME p + 1 < Len(s) PROVE Rest(s, p + 2) = f[n - 2]
    OBVIOUS
  <2>1. Len(s) - (p + 2) = n - 2 /\ ~(p + 2 > Len(s))
    BY <1>0
  <2> QED BY <2>1 DEF Rest
<1>5. n = 1 <=> p + 1 = Len(s)
  BY <1>0
<1>6. p + 1 < Len(s) => n # 1
  BY <1>0
<1>7. p + 1 + 1 = p + 2
  BY <1>0
<1> HIDE DEF n, f
<1>8. f[n] = IF s[p + 1] = "\\" THEN IF n = 1 THEN <<>> ELSE <<s[p + 2]>> \o f[n - 2]
             ELSE IF s[p + 1] \in Signs THEN f[n - 1]
             ELSE <<s[p + 1]>> \o f[n - 1]
  BY <1>1, <1>2, <1>7 DEF PlainStep, Signs
<1>9. "\\" \notin Signs
  BY DEF Signs, Separators
<1> QED BY <1>3, <1>4, <1>5, <1>6, <1>8, <1>9

LEMMA RestEnds ==
  ASSUME NEW s \in Seq(Characters)
  PROVE  /\ Rest(s, 0) = Plain(s)
         /\ \A p \in 0..Len(s) + 1 : p >= Len(s) => Rest(s, p) = <<>>
<1>0. Len(s) \in Nat
  OBVIOUS
<1>1. Rest(s, 0) = Plain(s)
  <2>1. ~(0 > Len(s)) /\ Len(s) - 0 = Len(s)
    BY <1>0
  <2> QED BY <2>1, PlainIs DEF Rest
<1>2. ASSUME NEW p \in 0..Len(s) + 1, p >= Len(s) PROVE Rest(s, p) = <<>>
  <2>1. CASE p > Len(s)
    BY <2>1 DEF Rest
  <2>2. CASE p = Len(s)
    <3>1. 0 \in 0..Len(s) /\ Len(s) - p = 0 /\ ~(p > Len(s))
      BY <1>0, <2>2
    <3>2. PlainOf(s)[0] = PlainStep(s, 0, PlainOf(s)[0 - 1], PlainOf(s)[0 - 2])
      BY <3>1, PlainIs, PlainAt
    <3>3. PlainOf(s)[0] = <<>>
      BY <3>2, PlainStepFirst
    <3> QED BY <3>1, <3>3 DEF Rest
  <2> QED BY <1>0, <1>2, <2>1, <2>2
<1> QED BY <1>1, <1>2

LEMMA RestType ==
  ASSUME NEW s \in Seq(Characters)
  PROVE  \A p \in 0..Len(s) + 1 : Rest(s, p) \in Seq(Characters)
<1> DEFINE I == {n \in Nat : \A p \in 0..Len(s) + 1 : p + n >= Len(s) => Rest(s, p) \in Seq(Characters)}
<1>0. Len(s) \in Nat /\ \A i \in 1..Len(s) : s[i] \in Characters
  OBVIOUS
<1>1. \A p \in 0..Len(s) + 1 : p >= Len(s) => Rest(s, p) = <<>>
  BY RestEnds
<1>2. 0 \in I
  <2>1. ASSUME NEW p \in 0..Len(s) + 1, p + 0 >= Len(s) PROVE Rest(s, p) \in Seq(Characters)
    <3>1. p >= Len(s) /\ <<>> \in Seq(Characters)
      BY <1>0, <2>1
    <3>2. Rest(s, p) = <<>>
      BY <1>1, <3>1
    <3> QED BY <3>1, <3>2
  <2> QED BY <2>1
<1>3. ASSUME NEW n \in I PROVE n + 1 \in I
  <2> SUFFICES ASSUME NEW p \in 0..Len(s) + 1, p + (n + 1) >= Len(s)
               PROVE  Rest(s, p) \in Seq(Characters)
    OBVIOUS
  <2>1. CASE p >= Len(s)
    BY <1>1, <2>1
  <2>2. CASE p < Len(s)
    <3>1. p \in 0..Len(s) - 1 /\ p + 1 \in 0..Len(s) + 1 /\ p + 2 \in 0..Len(s) + 1
          /\ p + 1 + n >= Len(s) /\ p + 2 + n >= Len(s) /\ p + 1 \in 1..Len(s)
      BY <1>0, <2>2
    <3>2. Rest(s, p + 1) \in Seq(Characters) /\ Rest(s, p + 2) \in Seq(Characters)
      BY <3>1
    <3>3. s[p + 1] \in Characters /\ (p + 1 < Len(s) => s[p + 2] \in Characters)
      BY <1>0, <3>1
    <3>4. \/ Rest(s, p) = <<>>
          \/ p + 1 < Len(s) /\ Rest(s, p) = <<s[p + 2]>> \o Rest(s, p + 2)
          \/ Rest(s, p) = Rest(s, p + 1)
          \/ Rest(s, p) = <<s[p + 1]>> \o Rest(s, p + 1)
      <4>1. p + 1 = Len(s) \/ p + 1 < Len(s)
        BY <1>0, <2>2
      <4> QED BY <3>1, <4>1, RestStep
    <3>5. ASSUME NEW x \in Characters, NEW q \in Seq(Characters) PROVE <<x>> \o q \in Seq(Characters)
      BY <3>5
    <3> HIDE DEF I
    <3>6. <<s[p + 1]>> \o Rest(s, p + 1) \in Seq(Characters)
      BY <3>2, <3>3, <3>5
    <3>7. p + 1 < Len(s) => <<s[p + 2]>> \o Rest(s, p + 2) \in Seq(Characters)
      BY <3>2, <3>3, <3>5
    <3>8. <<>> \in Seq(Characters)
      OBVIOUS
    <3> QED BY <3>2, <3>4, <3>6, <3>7, <3>8, Zenon
  <2>3. p >= Len(s) \/ p < Len(s)
    BY <1>0
  <2> QED BY <2>1, <2>2, <2>3
<1> HIDE DEF I
<1>4. I = Nat
  <2>1. I \in SUBSET Nat
    BY DEF I
  <2> QED BY <1>2, <1>3, <2>1, Reaches
<1> SUFFICES ASSUME NEW p \in 0..Len(s) + 1 PROVE Rest(s, p) \in Seq(Characters)
  OBVIOUS
<1>5. Len(s) \in I /\ p + Len(s) >= Len(s)
  BY <1>0, <1>4
<1> QED BY <1>5 DEF I

-----------------------------------------------------------------------------
(* The lexeme between two positions, without the cuts.                       *)

SliceOf(s, from, to) == SubSeq(s, from + 1, Min({to, Len(s)}))

\* Where the last piece of a lexeme begins.
LastStart(cuts, from) == IF Len(cuts) = 0 THEN from ELSE cuts[Len(cuts)] + 1

\* The pieces before the last one.
Pieces(s, cuts, from) ==
  [i \in 1..Len(cuts) |-> SliceOf(s, IF i = 1 THEN from ELSE cuts[i - 1] + 1, cuts[i])]

Sliced(s, cuts, from, end) ==
  FlattenSeq(Pieces(s, cuts, from)) \o SliceOf(s, LastStart(cuts, from), end)

LEMMA MinOfTwo ==
  ASSUME NEW a \in Nat, NEW b \in Nat
  PROVE  Min({a, b}) = IF a <= b THEN a ELSE b
<1> DEFINE m == IF a <= b THEN a ELSE b
<1>1. m \in {a, b} /\ \A y \in {a, b} : m <= y
  OBVIOUS
<1>2. ASSUME NEW x \in {a, b}, \A y \in {a, b} : x <= y PROVE x = m
  BY <1>2
<1> HIDE DEF m
<1>3. (CHOOSE x \in {a, b} : \A y \in {a, b} : x <= y) = m
  BY <1>1, <1>2
<1> QED BY <1>3 DEF Min, m

LEMMA SliceType ==
  ASSUME NEW s \in Seq(Characters), NEW from \in Nat, NEW to \in Nat
  PROVE  SliceOf(s, from, to) \in Seq(Characters)
<1>m. PICK m : m = Min({to, Len(s)})
  OBVIOUS
<1>1. Len(s) \in Nat /\ m \in 0..Len(s)
  BY <1>m, MinOfTwo
<1>2. from + 1 \in Int /\ m \in Int /\ \A i \in from + 1..m : s[i] \in Characters
  BY <1>1
<1>3. SubSeq(s, from + 1, m) \in Seq(Characters)
  BY <1>2, SubSeqProperties
<1> QED BY <1>3, <1>m DEF SliceOf

LEMMA PiecesType ==
  ASSUME NEW s \in Seq(Characters), NEW cuts \in Seq(Nat), NEW from \in Nat
  PROVE  /\ Pieces(s, cuts, from) \in Seq(Seq(Characters))
         /\ LastStart(cuts, from) \in Nat
<1>1. ASSUME NEW i \in 1..Len(cuts)
      PROVE  SliceOf(s, IF i = 1 THEN from ELSE cuts[i - 1] + 1, cuts[i]) \in Seq(Characters)
  <2>1. cuts[i] \in Nat /\ (IF i = 1 THEN from ELSE cuts[i - 1] + 1) \in Nat
    OBVIOUS
  <2> QED BY <2>1, SliceType
<1>2. Len(cuts) \in Nat
  OBVIOUS
<1>3. Pieces(s, cuts, from) \in Seq(Seq(Characters))
  BY <1>1, <1>2, IsASeq DEF Pieces
<1>4. LastStart(cuts, from) \in Nat
  BY DEF LastStart
<1> QED BY <1>3, <1>4

LEMMA SlicedType ==
  ASSUME NEW s \in Seq(Characters), NEW cuts \in Seq(Nat), NEW from \in Nat, NEW end \in Nat
  PROVE  Sliced(s, cuts, from, end) \in Seq(Characters)
<1>1. SliceOf(s, LastStart(cuts, from), end) \in Seq(Characters)
  BY PiecesType, SliceType
<1>2. FlattenSeq(Pieces(s, cuts, from)) \in Seq(Characters)
  BY PiecesType, FlattenType
<1> QED BY <1>1, <1>2 DEF Sliced

\* One character more.
LEMMA SliceGrows ==
  ASSUME NEW s \in Seq(Characters), NEW from \in Nat, NEW p \in Nat, from <= p, p < Len(s)
  PROVE  SliceOf(s, from, p + 1) = SliceOf(s, from, p) \o <<s[p + 1]>>
<1>1. Min({p + 1, Len(s)}) = p + 1 /\ Min({p, Len(s)}) = p
  <2>1. p + 1 \in Nat /\ Len(s) \in Nat /\ p + 1 <= Len(s) /\ p <= Len(s)
    OBVIOUS
  <2> QED BY <2>1, MinOfTwo
<1>2. from + 1 \in 1..Len(s) /\ p + 1 \in from + 1..Len(s) /\ p + 1 - 1 = p
  OBVIOUS
<1>3. SubSeq(s, from + 1, p + 1) = SubSeq(s, from + 1, p + 1 - 1) \o <<s[p + 1]>>
  BY <1>2, SubSeqRecursiveSecond
<1> QED BY <1>1, <1>2, <1>3 DEF SliceOf

\* An empty slice, and one behind the end.
LEMMA SliceNone ==
  ASSUME NEW s \in Seq(Characters), NEW from \in Nat, NEW p \in Nat, p <= from \/ Len(s) <= from
  PROVE  SliceOf(s, from, p) = <<>>
<1>1. Min({p, Len(s)}) \in Nat /\ Min({p, Len(s)}) <= from
  <2>1. Len(s) \in Nat
    OBVIOUS
  <2> QED BY <2>1, MinOfTwo
<1> QED BY <1>1 DEF SliceOf

LEMMA SlicedNone ==
  ASSUME NEW s \in Seq(Characters), NEW p \in Nat
  PROVE  Sliced(s, <<>>, p, p) = <<>>
<1>1. LastStart(<<>>, p) = p
  BY DEF LastStart
<1>2. Pieces(s, <<>>, p) = <<>>
  BY DEF Pieces
<1>3. FlattenSeq(<<>>) = <<>>
  BY DEF FlattenSeq
<1>4. SliceOf(s, p, p) = <<>>
  BY SliceNone
<1> QED BY <1>1, <1>2, <1>3, <1>4 DEF Sliced

LEMMA SlicedGrows ==
  ASSUME NEW s \in Seq(Characters), NEW cuts \in Seq(Nat), NEW from \in Nat, NEW p \in Nat,
         LastStart(cuts, from) <= p, p < Len(s)
  PROVE  Sliced(s, cuts, from, p + 1) = Sliced(s, cuts, from, p) \o <<s[p + 1]>>
<1>1. LastStart(cuts, from) \in Nat /\ FlattenSeq(Pieces(s, cuts, from)) \in Seq(Characters)
  BY PiecesType, FlattenType
<1>2. SliceOf(s, LastStart(cuts, from), p + 1) =
        SliceOf(s, LastStart(cuts, from), p) \o <<s[p + 1]>>
  BY <1>1, SliceGrows
<1>3. SliceOf(s, LastStart(cuts, from), p) \in Seq(Characters)
  BY <1>1, SliceType
<1>4. s[p + 1] \in Characters
  OBVIOUS
<1>a. PICK a \in Seq(Characters) : a = FlattenSeq(Pieces(s, cuts, from))
  BY <1>1
<1>b. PICK b \in Seq(Characters) : b = SliceOf(s, LastStart(cuts, from), p)
  BY <1>3
<1>c. PICK c \in Seq(Characters) : c = <<s[p + 1]>>
  <2>1. PICK x \in Characters : x = s[p + 1]
    BY <1>4
  <2>2. <<x>> \in Seq(Characters)
    OBVIOUS
  <2> QED BY <2>1, <2>2
<1>5. (a \o b) \o c = a \o (b \o c)
  BY ConcatAssociative
<1> QED BY <1>2, <1>5, <1>a, <1>b, <1>c, Zenon DEF Sliced

\* Behind an escape character the lexeme goes on.
IsCut(s, cuts, from, p, end) ==
  Sliced(s, Append(cuts, p), from, end) = Sliced(s, cuts, from, p) \o SliceOf(s, p + 1, end)

LEMMA SlicedCut ==
  ASSUME NEW s \in Seq(Characters), NEW cuts \in Seq(Nat), NEW from \in Nat, NEW p \in Nat,
         NEW end \in Nat
  PROVE  IsCut(s, cuts, from, p, end)
<1>n. PICK n \in Nat : n = Len(cuts)
  OBVIOUS
<1>c. PICK c : c = Append(cuts, p)
  OBVIOUS
<1>1. /\ c \in Seq(Nat) /\ Len(c) = n + 1 /\ c[n + 1] = p
      /\ \A i \in 1..n : c[i] = cuts[i]
  BY <1>n, <1>c
<1>2. LastStart(c, from) = p + 1
  BY <1>1, <1>n DEF LastStart
<1>f. PICK f \in Seq(Seq(Characters)) : f = Pieces(s, cuts, from)
  BY PiecesType
<1>g. PICK g \in Seq(Seq(Characters)) : g = Pieces(s, c, from)
  BY <1>1, PiecesType
<1>x. PICK x \in Seq(Characters) : x = SliceOf(s, LastStart(cuts, from), p)
  BY PiecesType, SliceType
<1>3. g = Append(f, x)
  <2>1. Len(f) = n /\ Len(g) = n + 1
    <3>1. DOMAIN f = 1..n /\ DOMAIN g = 1..n + 1
      BY <1>1, <1>f, <1>g, <1>n DEF Pieces
    <3>2. n + 1 \in Nat
      OBVIOUS
    <3> QED BY <3>1, <3>2, LenProperties
  <2>2. ASSUME NEW i \in 1..n PROVE g[i] = f[i]
    <3>1. i \in 1..n + 1 /\ c[i] = cuts[i] /\ (i # 1 => c[i - 1] = cuts[i - 1])
      BY <1>1
    <3>2. /\ g[i] = SliceOf(s, IF i = 1 THEN from ELSE c[i - 1] + 1, c[i])
          /\ f[i] = SliceOf(s, IF i = 1 THEN from ELSE cuts[i - 1] + 1, cuts[i])
      BY <1>1, <1>f, <1>g, <1>n, <3>1 DEF Pieces
    <3> QED BY <3>1, <3>2
  <2>3. g[n + 1] = x
    <3>1. n + 1 \in 1..n + 1 /\ (n + 1 = 1 <=> n = 0) /\ n + 1 - 1 = n
      OBVIOUS
    <3>2. g[n + 1] = SliceOf(s, IF n + 1 = 1 THEN from ELSE c[n + 1 - 1] + 1, c[n + 1])
      BY <1>1, <1>g, <3>1 DEF Pieces
    <3>3. (IF n + 1 = 1 THEN from ELSE c[n + 1 - 1] + 1) = LastStart(cuts, from)
      BY <1>1, <1>n, <3>1 DEF LastStart
    <3> QED BY <1>1, <1>x, <3>2, <3>3
  <2>4. /\ Append(f, x) \in Seq(Seq(Characters)) /\ Len(Append(f, x)) = n + 1
        /\ Append(f, x)[n + 1] = x /\ \A i \in 1..n : Append(f, x)[i] = f[i]
    <3> HIDE <1>1
    <3> QED BY <2>1, AppendProperties
  <2>5. \A i \in 1..n + 1 : g[i] = Append(f, x)[i]
    BY <2>2, <2>3, <2>4
  <2> QED BY <2>1, <2>4, <2>5, SeqEqual
<1>4. FlattenSeq(f) \in Seq(Characters)
  BY FlattenType
<1>5. FlattenSeq(g) = FlattenSeq(f) \o x
  BY <1>3, <1>4, FlattenAppend
<1> QED BY <1>2, <1>5, <1>c, <1>f, <1>g, <1>x DEF Sliced, IsCut

\* This is what sliceString makes.
LEMMA SliceStringIs ==
  ASSUME str \in Seq(Characters), escapeCharPositions \in Seq(Nat), start \in Nat, NEW end \in Nat
  PROVE  SliceString(end) = Sliced(str, escapeCharPositions, start, end)
<1> DEFINE cuts == escapeCharPositions
           ends == Append(cuts, end)
           starts == <<start>> \o [i \in DOMAIN cuts |-> cuts[i] + 1]
<1>0. cuts \in Seq(Nat)
  OBVIOUS
<1>n. PICK n \in Nat : n = Len(cuts) /\ DOMAIN cuts = 1..n
  OBVIOUS
<1>1. /\ DOMAIN ends = 1..n + 1 /\ ends[n + 1] = end /\ \A i \in 1..n : ends[i] = cuts[i]
  BY <1>n
<1>2. /\ starts[1] = start /\ \A i \in 1..n : starts[i + 1] = cuts[i] + 1
  <2> HIDE DEF cuts
  <2>1. [i \in 1..n |-> cuts[i] + 1] \in Seq(Nat)
    <3>1. \A i \in 1..n : cuts[i] + 1 \in Nat
      BY <1>0, <1>n
    <3> QED BY <3>1, IsASeq
  <2>2. Len([i \in 1..n |-> cuts[i] + 1]) = n
    BY <2>1, LenProperties
  <2>3. starts = <<start>> \o [i \in 1..n |-> cuts[i] + 1]
    BY <1>n
  <2> QED BY <2>1, <2>2, <2>3
<1>3. SliceString(end) = FlattenSeq([i \in DOMAIN ends |-> SliceOf(str, starts[i], ends[i])])
  BY Zenon DEF SliceString, SliceOf, Slice
<1> HIDE DEF cuts, ends, starts
<1>f. PICK f \in Seq(Seq(Characters)) : f = Pieces(str, cuts, start)
  BY <1>0, PiecesType
<1>x. PICK x \in Seq(Characters) : x = SliceOf(str, LastStart(cuts, start), end)
  BY <1>0, PiecesType, SliceType
<1>g. PICK g : g = [i \in DOMAIN ends |-> SliceOf(str, starts[i], ends[i])]
  OBVIOUS
<1>4. Len(f) = n
  <2>1. DOMAIN f = 1..n
    BY <1>f, <1>n DEF Pieces
  <2> QED BY <2>1, LenProperties
<1>5. ASSUME NEW i \in 1..n PROVE g[i] = f[i]
  <2>1. f[i] = SliceOf(str, IF i = 1 THEN start ELSE cuts[i - 1] + 1, cuts[i])
    BY <1>f, <1>n DEF Pieces
  <2>2. g[i] = SliceOf(str, starts[i], ends[i])
    BY <1>1, <1>g
  <2>3. starts[i] = IF i = 1 THEN start ELSE cuts[i - 1] + 1
    <3>1. i # 1 => i - 1 \in 1..n /\ i - 1 + 1 = i
      OBVIOUS
    <3> QED BY <1>2, <3>1
  <2> QED BY <1>1, <2>1, <2>2, <2>3
<1>6. g[n + 1] = x
  <2>1. g[n + 1] = SliceOf(str, starts[n + 1], end)
    BY <1>1, <1>g
  <2>2. starts[n + 1] = LastStart(cuts, start)
    BY <1>2, <1>n DEF LastStart
  <2> QED BY <1>x, <2>1, <2>2
<1>7. g = Append(f, x)
  <2>1. /\ Append(f, x) \in Seq(Seq(Characters)) /\ Len(Append(f, x)) = n + 1
        /\ Append(f, x)[n + 1] = x /\ \A i \in 1..n : Append(f, x)[i] = f[i]
    BY <1>4
  <2>2. \A i \in 1..n + 1 : g[i] = Append(f, x)[i]
    BY <1>5, <1>6, <2>1
  <2>3. DOMAIN Append(f, x) = 1..n + 1
    BY <2>1
  <2>4. g = [i \in 1..n + 1 |-> g[i]]
    BY <1>1, <1>g
  <2>5. Append(f, x) = [i \in 1..n + 1 |-> Append(f, x)[i]]
    <3>1. n + 1 \in Nat /\ Append(f, x) \in [1..n + 1 -> Seq(Characters)]
      BY <2>1, LenProperties
    <3> QED BY <3>1
  <2> QED BY <2>2, <2>4, <2>5
<1>8. FlattenSeq(f) \in Seq(Characters)
  BY FlattenType
<1>9. FlattenSeq(g) = FlattenSeq(f) \o x
  BY <1>7, <1>8, FlattenAppend
<1> QED BY <1>3, <1>9, <1>f, <1>g, <1>x DEF Sliced, cuts

-----------------------------------------------------------------------------
(* Digits.                                                                   *)

ValueOf(d) == (CHOOSE i \in DOMAIN Decimal : Decimal[i] = d) - 1

LEMMA DigitFacts ==
  ASSUME NEW d \in DigitChars
  PROVE  /\ d \notin Signs \cup {"\\"}
         /\ ValueOf(d) \in Nat
<1>0. DOMAIN Decimal = 1..10
  BY DEF Decimal
<1>1. PICK i \in 1..10 : Decimal[i] = d
  BY <1>0 DEF DigitChars, ToSet
<1>2. d \in {"0", "1", "2", "3", "4", "5", "6", "7", "8", "9"}
  BY <1>1 DEF Decimal
<1>3. d \notin Signs \cup {"\\"}
  BY <1>2 DEF Signs, Separators
<1>4. PICK c \in 1..10 : c = CHOOSE j \in DOMAIN Decimal : Decimal[j] = d
  BY <1>0, <1>1
<1>5. ValueOf(d) = c - 1
  BY ONLY <1>4, Zenon DEF ValueOf
<1>6. c - 1 \in Nat
  OBVIOUS
<1> QED BY <1>3, <1>5, <1>6

IsInt(f, digits, l) ==
  f = [n \in 0..l |-> IF n = 0 THEN 0 ELSE 10 * f[n - 1] + ValueOf(digits[n])]

LEMMA IntAt ==
  ASSUME NEW digits, NEW l, NEW f, IsInt(f, digits, l), NEW n \in 0..l
  PROVE  f[n] = IF n = 0 THEN 0 ELSE 10 * f[n - 1] + ValueOf(digits[n])
BY DEF IsInt

LEMMA IntThere ==
  ASSUME NEW digits, NEW l \in Nat
  PROVE  \E f : IsInt(f, digits, l)
<1> DEFINE I == {n \in Nat : \E f : IsInt(f, digits, n)}
<1>1. 0 \in I
  <2> DEFINE f == [n \in 0..0 |-> 0]
  <2>1. IsInt(f, digits, 0)
    BY DEF IsInt
  <2> QED BY <2>1
<1>2. ASSUME NEW n \in I PROVE n + 1 \in I
  <2>0. n \in Nat
    OBVIOUS
  <2>1. PICK f : IsInt(f, digits, n)
    OBVIOUS
  <2> DEFINE new == 10 * f[n] + ValueOf(digits[n + 1])
  <2> HIDE DEF new
  <2> DEFINE g == [k \in 0..n + 1 |-> IF k = n + 1 THEN new ELSE f[k]]
  <2>2. ASSUME NEW k \in 0..n + 1
        PROVE  g[k] = IF k = 0 THEN 0 ELSE 10 * g[k - 1] + ValueOf(digits[k])
    <3>1. g[n + 1] = new /\ \A j \in 0..n : g[j] = f[j]
      BY <2>0
    <3> HIDE DEF g
    <3>2. CASE k = n + 1
      <4>1. k # 0 /\ k - 1 = n /\ n \in 0..n
        BY <2>0, <3>2
      <4>2. g[k - 1] = f[n] /\ g[k] = new
        BY <3>1, <3>2, <4>1
      <4>3. new = 10 * f[n] + ValueOf(digits[k])
        BY <3>2 DEF new
      <4> QED BY <4>1, <4>2, <4>3
    <3>3. CASE k # n + 1
      <4>1. k \in 0..n /\ (k # 0 => k - 1 \in 0..n)
        BY <2>0, <3>3
      <4>2. f[k] = IF k = 0 THEN 0 ELSE 10 * f[k - 1] + ValueOf(digits[k])
        BY <2>1, <4>1, IntAt
      <4>3. g[k] = f[k] /\ (k # 0 => g[k - 1] = f[k - 1])
        BY <3>1, <4>1
      <4> QED BY <4>2, <4>3
    <3> QED BY <3>2, <3>3
  <2>3. g = [k \in 0..n + 1 |-> g[k]]
    OBVIOUS
  <2> HIDE DEF g
  <2>4. IsInt(g, digits, n + 1)
    BY <2>2, <2>3, Zenon DEF IsInt
  <2> QED BY <2>0, <2>4
<1> HIDE DEF I
<1>3. I = Nat
  <2>1. I \in SUBSET Nat
    BY DEF I
  <2> QED BY <1>1, <1>2, <2>1, Reaches
<1> QED BY <1>3 DEF I

\* parseInt gives a number for digits, never the -1 of a key that is not there.
LEMMA ToIntNat ==
  ASSUME NEW digits \in Seq(DigitChars)
  PROVE  ToInt(digits) \in Nat
<1> DEFINE f == CHOOSE f : IsInt(f, digits, Len(digits))
           I == {n \in Nat : n <= Len(digits) => f[n] \in Nat}
<1>0. Len(digits) \in Nat
  OBVIOUS
<1>1. IsInt(f, digits, Len(digits))
  BY <1>0, IntThere
<1>2. ToInt(digits) = f[Len(digits)]
  BY Zenon DEF ToInt, IsInt, ValueOf
<1> HIDE DEF f
<1>3. 0 \in I
  <2>1. 0 \in 0..Len(digits)
    BY <1>0
  <2>2. f[0] = 0
    BY <1>1, <2>1, IntAt
  <2> QED BY <2>2
<1>4. ASSUME NEW n \in I PROVE n + 1 \in I
  <2> SUFFICES ASSUME n + 1 <= Len(digits) PROVE f[n + 1] \in Nat
    OBVIOUS
  <2>1. n \in Nat /\ n <= Len(digits) /\ n + 1 \in 0..Len(digits) /\ n + 1 # 0
        /\ n + 1 - 1 = n /\ n + 1 \in 1..Len(digits)
    BY <1>0
  <2>2. f[n] \in Nat
    BY <2>1
  <2>3. f[n + 1] = 10 * f[n] + ValueOf(digits[n + 1])
    BY <1>1, <2>1, IntAt
  <2>4. digits[n + 1] \in DigitChars
    BY <2>1
  <2>5. ValueOf(digits[n + 1]) \in Nat
    BY <2>4, DigitFacts
  <2> QED BY <2>2, <2>3, <2>5
<1> HIDE DEF I
<1>5. I = Nat
  <2>1. I \in SUBSET Nat
    BY DEF I
  <2> QED BY <1>3, <1>4, <2>1, Reaches
<1> QED BY <1>0, <1>2, <1>5 DEF I

\* acceptDigitRun stops behind the last digit.
LEMMA DigitsEndIs ==
  ASSUME str \in Seq(Characters), NEW p \in 0..Len(str)
  PROVE  /\ DigitsEnd(p) \in p..Len(str)
         /\ \A r \in p..DigitsEnd(p) - 1 : str[r + 1] \in DigitChars
<1> DEFINE T == {q \in p..Len(str) : q < Len(str) => str[q + 1] \notin DigitChars}
<1>0. Len(str) \in Nat /\ p \in Nat /\ p <= Len(str)
  OBVIOUS
<1>1. PICK m \in T : \A i \in T : m <= i
  <2>1. Len(str) \in T /\ T \in SUBSET Nat
    BY <1>0
  <2> HIDE DEF T
  <2> QED BY <2>1, LeastOf
<1>2. \A r \in p..m - 1 : str[r + 1] \in DigitChars
  <2> SUFFICES ASSUME NEW r \in p..m - 1, str[r + 1] \notin DigitChars PROVE FALSE
    OBVIOUS
  <2>1. r \in T /\ ~(m <= r)
    BY <1>0
  <2> HIDE DEF T
  <2> QED BY <1>1, <2>1
<1>3. \E q \in p..Len(str) :
        /\ \A r \in p..q - 1 : CharAt(r) \in DigitChars
        /\ q < Len(str) => CharAt(q) \notin DigitChars
  BY <1>2 DEF CharAt
<1>4. /\ DigitsEnd(p) \in p..Len(str)
      /\ \A r \in p..DigitsEnd(p) - 1 : CharAt(r) \in DigitChars
  <2> HIDE DEF T
  <2> QED BY <1>3, Zenon DEF DigitsEnd
<1> QED BY <1>4 DEF CharAt

\* Digits are plain characters.
LEMMA DigitsPlain ==
  ASSUME NEW s \in Seq(Characters), NEW p \in 0..Len(s), NEW e \in p..Len(s),
         \A r \in p..e - 1 : s[r + 1] \in DigitChars
  PROVE  /\ SliceOf(s, p, e) \o Rest(s, e) = Rest(s, p)
         /\ SliceOf(s, p, e) \in Seq(DigitChars)
<1> DEFINE I == {n \in Nat : p + n <= e => SliceOf(s, p, p + n) \o Rest(s, p + n) = Rest(s, p)
                                           /\ SliceOf(s, p, p + n) \in Seq(DigitChars)}
<1>0. Len(s) \in Nat /\ p \in Nat /\ e \in Nat /\ p <= e /\ e <= Len(s)
  OBVIOUS
<1>1. 0 \in I
  <2>1. p + 0 = p /\ SliceOf(s, p, p) = <<>>
    BY <1>0, SliceNone
  <2>2. Rest(s, p) \in Seq(Characters)
    BY <1>0, RestType
  <2>3. <<>> \o Rest(s, p) = Rest(s, p)
    BY <2>2, ConcatEmptySeq
  <2>4. <<>> \in Seq(DigitChars)
    OBVIOUS
  <2> QED BY <2>1, <2>3, <2>4
<1>2. ASSUME NEW n \in I PROVE n + 1 \in I
  <2> SUFFICES ASSUME p + (n + 1) <= e
               PROVE  /\ SliceOf(s, p, p + (n + 1)) \o Rest(s, p + (n + 1)) = Rest(s, p)
                      /\ SliceOf(s, p, p + (n + 1)) \in Seq(DigitChars)
    OBVIOUS
  <2>q. PICK q \in Nat : q = p + n
    BY <1>0
  <2>0. q < Len(s) /\ p <= q /\ q + 1 <= e /\ q \in p..e - 1 /\ p + (n + 1) = q + 1
        /\ q \in 0..Len(s) - 1
    BY <1>0, <2>q
  <2>1. SliceOf(s, p, q) \o Rest(s, q) = Rest(s, p) /\ SliceOf(s, p, q) \in Seq(DigitChars)
    BY <1>0, <2>0, <2>q
  <2> HIDE DEF I
  <2>x. PICK x \in DigitChars : x = s[q + 1]
    BY <2>0
  <2>2. x \in Characters
    BY <1>0, <2>0, <2>x
  <2>3. SliceOf(s, p, q + 1) = SliceOf(s, p, q) \o <<x>>
    BY <1>0, <2>0, <2>x, SliceGrows
  <2>4. Rest(s, q) = <<x>> \o Rest(s, q + 1)
    <3>1. x \notin Signs \cup {"\\"}
      BY DigitFacts
    <3> QED BY <2>0, <2>x, <3>1, RestStep
  <2>a. PICK a \in Seq(Characters) : a = SliceOf(s, p, q)
    BY <1>0, SliceType
  <2>b. PICK b \in Seq(Characters) : b = <<x>>
    <3>1. PICK y \in Characters : y = x
      BY <2>2
    <3>2. <<y>> \in Seq(Characters)
      OBVIOUS
    <3> QED BY <3>1, <3>2
  <2>c. PICK c \in Seq(Characters) : c = Rest(s, q + 1)
    <3>1. q + 1 \in 0..Len(s) + 1
      BY <1>0, <2>0
    <3> QED BY <3>1, RestType
  <2>5. (a \o b) \o c = a \o (b \o c)
    BY ConcatAssociative
  <2>6. SliceOf(s, p, q + 1) \o Rest(s, q + 1) = Rest(s, p)
    BY <2>1, <2>3, <2>4, <2>5, <2>a, <2>b, <2>c, Zenon
  <2>7. SliceOf(s, p, q) \o <<x>> \in Seq(DigitChars)
    <3>1. <<x>> \in Seq(DigitChars)
      OBVIOUS
    <3> QED BY <2>1, <3>1, ConcatProperties
  <2> QED BY <2>0, <2>3, <2>6, <2>7
<1> HIDE DEF I
<1>3. I = Nat
  <2>1. I \in SUBSET Nat
    BY DEF I
  <2> QED BY <1>1, <1>2, <2>1, Reaches
<1>4. PICK n \in Nat : p + n = e
  <2>1. e - p \in Nat /\ p + (e - p) = e
    BY <1>0
  <2> QED BY <2>1
<1>5. n \in I /\ p + n <= e
  BY <1>0, <1>3, <1>4
<1> QED BY <1>4, <1>5 DEF I

-----------------------------------------------------------------------------
(* The lexer: what is in lexemes, what is read and what is left are the      *)
(* plain characters of the query.                                            *)

LexemeTypes == {"FIELD", "TERM", "EDIT_DISTANCE", "BOOST"}
Lexemes == [type : LexemeTypes, str : Seq(Characters)]

Joined(ls) == FlattenSeq([i \in DOMAIN ls |-> ls[i].str])

\* The lexemes of modifiers have digits only.
Numbered(ls) == \A i \in 1..Len(ls) : Modifies(ls[i]) => ls[i].str \in Seq(DigitChars)

Read(ls, s, cuts, from, p) == (Joined(ls) \o Sliced(s, cuts, from, p)) \o Rest(s, p)

LexTypeOK ==
  /\ str \in Seq(Characters)
  /\ lexState \in {"lexText", "lexEditDistance", "lexBoost", "done"}
  /\ pos \in 0..Len(str) + 1
  /\ start \in 0..pos
  /\ escapeCharPositions \in Seq(Nat)
  /\ lexemes \in Seq(Lexemes)

\* Cuts lie between the start of a lexeme and its end.
CutsBehind ==
  /\ LastStart(escapeCharPositions, start) <= pos
  /\ pos = start => escapeCharPositions = <<>>

\* A number is looked for at the sign of a modifier, where no lexeme is open.
AtSign ==
  lexState \in {"lexEditDistance", "lexBoost"} =>
    pos = start /\ pos < Len(str) /\ str[pos + 1] \in {"~", "^"}

LexInv ==
  /\ LexTypeOK
  /\ Numbered(lexemes)
  /\ CutsBehind
  /\ AtSign
  /\ Read(lexemes, str, escapeCharPositions, start, pos) = Plain(str)
  /\ lexState = "done" => Joined(lexemes) = Plain(str) /\ escapeCharPositions = <<>>

LEMMA JoinedType ==
  ASSUME NEW ls \in Seq(Lexemes)
  PROVE  /\ [i \in DOMAIN ls |-> ls[i].str] \in Seq(Seq(Characters))
         /\ Len([i \in DOMAIN ls |-> ls[i].str]) = Len(ls)
         /\ Joined(ls) \in Seq(Characters)
<1>0. Len(ls) \in Nat /\ DOMAIN ls = 1..Len(ls) /\ \A i \in 1..Len(ls) : ls[i] \in Lexemes
  BY LenProperties
<1>1. Len(ls) \in Nat /\ DOMAIN ls = 1..Len(ls) /\ \A i \in 1..Len(ls) : ls[i].str \in Seq(Characters)
  BY <1>0 DEF Lexemes
<1>2. [i \in 1..Len(ls) |-> ls[i].str] \in Seq(Seq(Characters))
  BY <1>1, IsASeq
<1>3. [i \in DOMAIN ls |-> ls[i].str] \in Seq(Seq(Characters))
  BY <1>1, <1>2
<1>4. Len([i \in DOMAIN ls |-> ls[i].str]) = Len(ls)
  BY <1>1, <1>3, LenProperties
<1> QED BY <1>3, <1>4, FlattenType DEF Joined

LEMMA JoinedAppend ==
  ASSUME NEW ls \in Seq(Lexemes), NEW l \in Lexemes
  PROVE  Joined(Append(ls, l)) = Joined(ls) \o l.str
<1>n. PICK n \in Nat : n = Len(ls)
  OBVIOUS
<1>m. PICK m \in Seq(Lexemes) : m = Append(ls, l)
  BY AppendProperties
<1>1. Len(m) = n + 1 /\ m[n + 1] = l /\ \A i \in 1..n : m[i] = ls[i]
  BY <1>n, <1>m, AppendProperties
<1>f. PICK f \in Seq(Seq(Characters)) : f = [i \in DOMAIN ls |-> ls[i].str]
  BY JoinedType
<1>g. PICK g \in Seq(Seq(Characters)) : g = [i \in DOMAIN m |-> m[i].str]
  BY JoinedType
<1>x. PICK x \in Seq(Characters) : x = l.str
  BY DEF Lexemes
<1>2. Len(f) = n /\ Len(g) = n + 1
  BY <1>n, <1>1, <1>f, <1>g, JoinedType
<1>3. g = Append(f, x)
  <2>1. /\ Append(f, x) \in Seq(Seq(Characters)) /\ Len(Append(f, x)) = n + 1
        /\ Append(f, x)[n + 1] = x /\ \A i \in 1..n : Append(f, x)[i] = f[i]
    BY <1>2, AppendProperties
  <2>2. DOMAIN ls = 1..n /\ DOMAIN m = 1..n + 1
    BY <1>1, <1>n
  <2>3. ASSUME NEW i \in 1..n + 1 PROVE g[i] = Append(f, x)[i]
    <3>1. g[i] = m[i].str
      BY <1>g, <2>2
    <3>2. CASE i = n + 1
      BY <1>1, <1>x, <2>1, <3>1, <3>2
    <3>3. CASE i # n + 1
      <4>1. i \in 1..n
        BY <3>3
      <4>2. f[i] = ls[i].str
        BY <1>f, <2>2, <4>1
      <4> QED BY <1>1, <2>1, <3>1, <4>1, <4>2
    <3> QED BY <3>2, <3>3
  <2> QED BY <1>2, <2>1, <2>3, SeqEqual
<1>4. FlattenSeq(f) \in Seq(Characters)
  BY FlattenType
<1>5. FlattenSeq(g) = FlattenSeq(f) \o x
  BY <1>3, <1>4, FlattenAppend
<1> QED BY <1>5, <1>f, <1>g, <1>m, <1>x DEF Joined

\* A lexeme that ends joins the others.
LEMMA NumberedAppend ==
  ASSUME NEW ls \in Seq(Lexemes), NEW l \in Lexemes, Numbered(ls),
         Modifies(l) => l.str \in Seq(DigitChars)
  PROVE  Append(ls, l) \in Seq(Lexemes) /\ Numbered(Append(ls, l))
<1>1. /\ Append(ls, l) \in Seq(Lexemes) /\ Len(Append(ls, l)) = Len(ls) + 1
      /\ Append(ls, l)[Len(ls) + 1] = l /\ \A i \in 1..Len(ls) : Append(ls, l)[i] = ls[i]
  BY AppendProperties
<1>2. ASSUME NEW i \in 1..Len(ls) + 1, Modifies(Append(ls, l)[i])
      PROVE  Append(ls, l)[i].str \in Seq(DigitChars)
  <2>1. CASE i = Len(ls) + 1
    BY <1>1, <1>2, <2>1
  <2>2. CASE i # Len(ls) + 1
    <3>1. i \in 1..Len(ls)
      BY <2>2
    <3> QED BY <1>1, <1>2, <3>1 DEF Numbered
  <2> QED BY <2>1, <2>2
<1> QED BY <1>1, <1>2 DEF Numbered

Regrouped(a, b, c, d) == (a \o (b \o c)) \o d = (a \o b) \o (c \o d)

LEMMA Regroup ==
  ASSUME NEW a \in Seq(Characters), NEW b \in Seq(Characters), NEW c \in Seq(Characters),
         NEW d \in Seq(Characters)
  PROVE  Regrouped(a, b, c, d)
<1>1. a \o (b \o c) = (a \o b) \o c /\ a \o b \in Seq(Characters)
  BY ConcatAssociative, ConcatProperties
<1> QED BY <1>1, ConcatAssociative DEF Regrouped

\* What has been read from `from` to `p` becomes a lexeme: the next begins at `q`,
\* and what is left there is what was left at `p`.
ReadAlike(ms, s, q, ls, cuts, from, p) == Read(ms, s, <<>>, q, q) = Read(ls, s, cuts, from, p)

LEMMA ReadEmitted ==
  ASSUME NEW s \in Seq(Characters), NEW ls \in Seq(Lexemes), NEW cuts \in Seq(Nat), NEW from \in Nat,
         NEW p \in 0..Len(s) + 1, NEW q \in 0..Len(s) + 1, NEW ms \in Seq(Lexemes),
         Joined(ms) = Joined(ls) \o Sliced(s, cuts, from, p), Rest(s, q) = Rest(s, p)
  PROVE  ReadAlike(ms, s, q, ls, cuts, from, p)
<1>1. Sliced(s, <<>>, q, q) = <<>>
  BY SlicedNone
<1>2. Joined(ms) \o <<>> = Joined(ms)
  BY JoinedType, ConcatEmptySeq
<1> QED BY <1>1, <1>2 DEF Read, ReadAlike

LEMMA ReadFacts ==
  ASSUME LexTypeOK
  PROVE  /\ Len(str) \in Nat /\ pos \in Nat /\ start \in Nat
         /\ SliceString(pos) = Sliced(str, escapeCharPositions, start, pos)
         /\ SliceString(pos) \in Seq(Characters)
         /\ Joined(lexemes) \in Seq(Characters)
         /\ Rest(str, pos) \in Seq(Characters)
<1>1. Len(str) \in Nat /\ pos \in Nat /\ start \in Nat
  BY DEF LexTypeOK
<1>2. SliceString(pos) = Sliced(str, escapeCharPositions, start, pos)
  BY <1>1, SliceStringIs DEF LexTypeOK
<1>3. SliceString(pos) \in Seq(Characters)
  BY <1>1, <1>2, SlicedType DEF LexTypeOK
<1>4. Joined(lexemes) \in Seq(Characters)
  BY JoinedType DEF LexTypeOK
<1>5. Rest(str, pos) \in Seq(Characters)
  BY RestType DEF LexTypeOK
<1> QED BY <1>1, <1>2, <1>3, <1>4, <1>5

\* What is read of a term is emitted, if it is anything.
LEMMA TermEmitted ==
  ASSUME LexInv, NEW type \in {"FIELD", "TERM"}, NEW emits \in BOOLEAN,
         IF emits THEN Emit(type, pos) ELSE NoLexeme, ~emits => pos = start
  PROVE  /\ lexemes' \in Seq(Lexemes) /\ Numbered(lexemes') /\ escapeCharPositions' = <<>>
         /\ Joined(lexemes') = Joined(lexemes) \o Sliced(str, escapeCharPositions, start, pos)
<1>0. LexTypeOK /\ Numbered(lexemes)
  BY DEF LexInv
<1>1. CASE emits
  <2>l. PICK l : l = [type |-> type, str |-> SliceString(pos)]
    OBVIOUS
  <2>1. l \in Lexemes /\ l.str = SliceString(pos) /\ ~Modifies(l)
    BY <1>0, <2>l, ReadFacts DEF Lexemes, LexemeTypes, Modifies
  <2>2. lexemes' = Append(lexemes, l) /\ escapeCharPositions' = <<>>
    BY <1>1, <2>l DEF Emit
  <2>3. lexemes \in Seq(Lexemes)
    BY <1>0 DEF LexTypeOK
  <2>4. Append(lexemes, l) \in Seq(Lexemes) /\ Numbered(Append(lexemes, l))
    BY <1>0, <2>1, <2>3, NumberedAppend
  <2>5. Joined(Append(lexemes, l)) = Joined(lexemes) \o l.str
    BY <2>1, <2>3, JoinedAppend
  <2> QED BY <1>0, <2>1, <2>2, <2>4, <2>5, ReadFacts
<1>2. CASE ~emits
  <2>1. lexemes' = lexemes /\ escapeCharPositions' = escapeCharPositions
        /\ escapeCharPositions = <<>> /\ pos = start
    BY <1>2 DEF NoLexeme, LexInv, CutsBehind
  <2>2. Sliced(str, escapeCharPositions, start, pos) = <<>>
    BY <1>0, <2>1, ReadFacts, SlicedNone DEF LexTypeOK
  <2>3. Joined(lexemes) \o <<>> = Joined(lexemes)
    BY <1>0, ReadFacts, ConcatEmptySeq
  <2> QED BY <1>0, <2>1, <2>2, <2>3 DEF LexTypeOK
<1> QED BY <1>1, <1>2

LEMMA LexEscapeStep ==
  ASSUME LexInv, LexEscape
  PROVE  LexInv'
<1>0. LexTypeOK /\ Numbered(lexemes) /\ CutsBehind
  BY DEF LexInv
<1>1. /\ str \in Seq(Characters) /\ escapeCharPositions \in Seq(Nat)
      /\ Len(str) \in Nat /\ pos \in Nat /\ start \in Nat /\ start <= pos /\ pos < Len(str)
      /\ str[pos + 1] = "\\" /\ lexState = "lexText"
  BY <1>0, ReadFacts DEF LexTypeOK, LexEscape, Lexing, AtEnd, CharAt
<1>2. /\ str' = str /\ lexState' = lexState /\ start' = start /\ lexemes' = lexemes
      /\ escapeCharPositions' = Append(escapeCharPositions, pos) /\ pos' = pos + 2
  BY DEF LexEscape, Lexing
<1>c. PICK c \in Seq(Nat) : c = Append(escapeCharPositions, pos)
  BY <1>1, AppendProperties
<1>3. LexTypeOK'
  BY <1>0, <1>1, <1>2, <1>c DEF LexTypeOK
<1>4. CutsBehind'
  <2>1. LastStart(c, start) = pos + 1
    BY <1>1, <1>c DEF LastStart
  <2> QED BY <1>1, <1>2, <1>c, <2>1 DEF CutsBehind
<1>5. AtSign'
  BY <1>1, <1>2 DEF AtSign
<1>6. Sliced(str, c, start, pos + 2) =
        Sliced(str, escapeCharPositions, start, pos) \o SliceOf(str, pos + 1, pos + 2)
  <2>e. PICK e \in Nat : e = pos + 2
    BY <1>1
  <2>1. IsCut(str, escapeCharPositions, start, pos, e)
    BY <1>1, SlicedCut
  <2> QED BY <1>c, <2>1, <2>e DEF IsCut
<1>7. SliceOf(str, pos + 1, pos + 2) \in Seq(Characters) /\ Rest(str, pos + 2) \in Seq(Characters)
      /\ SliceOf(str, pos + 1, pos + 2) \o Rest(str, pos + 2) = Rest(str, pos)
  <2>1. SliceOf(str, pos + 1, pos + 2) \in Seq(Characters)
    BY <1>1, SliceType
  <2>2. pos + 2 \in 0..Len(str) + 1 /\ pos \in 0..Len(str) - 1
    BY <1>1
  <2>3. Rest(str, pos + 2) \in Seq(Characters)
    BY <1>1, <2>2, RestType
  <2>4. CASE pos + 1 = Len(str)
    <3>1. SliceOf(str, pos + 1, pos + 2) = <<>>
      <4>1. pos + 1 \in Nat /\ pos + 2 \in Nat /\ Len(str) <= pos + 1
        BY <1>1, <2>4
      <4> QED BY <1>1, <4>1, SliceNone
    <3>2. Rest(str, pos) = <<>>
      BY <1>1, <2>2, <2>4, RestStep
    <3>3. Rest(str, pos + 2) = <<>>
      <4>1. pos + 2 >= Len(str)
        BY <1>1, <2>4
      <4> QED BY <1>1, <2>2, <4>1, RestEnds
    <3> QED BY <2>1, <2>3, <3>1, <3>2, <3>3, ConcatEmptySeq
  <2>5. CASE pos + 1 < Len(str)
    <3>1. SliceOf(str, pos + 1, pos + 1 + 1) =
            SliceOf(str, pos + 1, pos + 1) \o <<str[pos + 1 + 1]>>
      <4>1. pos + 1 \in Nat /\ pos + 1 <= pos + 1
        BY <1>1
      <4> QED BY <1>1, <2>5, <4>1, SliceGrows
    <3>2. SliceOf(str, pos + 1, pos + 1) = <<>>
      <4>1. pos + 1 \in Nat /\ pos + 1 <= pos + 1
        BY <1>1
      <4> QED BY <1>1, <4>1, SliceNone
    <3>3. pos + 1 + 1 = pos + 2 /\ pos + 2 \in 1..Len(str)
      BY <1>1, <2>5
    <3>x. PICK x \in Characters : x = str[pos + 2]
      BY <1>1, <3>3
    <3>4. <<>> \o <<x>> = <<x>>
      OBVIOUS
    <3>5. SliceOf(str, pos + 1, pos + 2) = <<x>>
      BY <3>1, <3>2, <3>3, <3>4, <3>x
    <3>6. Rest(str, pos) = <<x>> \o Rest(str, pos + 2)
      BY <1>1, <2>2, <2>5, <3>x, RestStep
    <3> QED BY <2>1, <2>3, <3>5, <3>6
  <2>6. pos + 1 = Len(str) \/ pos + 1 < Len(str)
    BY <1>1
  <2> QED BY <2>4, <2>5, <2>6
<1>8. Read(lexemes, str, c, start, pos + 2) = Read(lexemes, str, escapeCharPositions, start, pos)
  <2>a. PICK a \in Seq(Characters) : a = Joined(lexemes)
    BY <1>0, ReadFacts
  <2>b. PICK b \in Seq(Characters) : b = Sliced(str, escapeCharPositions, start, pos)
    BY <1>0, ReadFacts
  <2>x. PICK x \in Seq(Characters) : x = SliceOf(str, pos + 1, pos + 2)
    BY <1>7
  <2>d. PICK d \in Seq(Characters) : d = Rest(str, pos + 2)
    BY <1>7
  <2>1. Regrouped(a, b, x, d)
    BY Regroup
  <2> QED BY <1>6, <1>7, <2>1, <2>a, <2>b, <2>x, <2>d, Zenon DEF Read, Regrouped
<1> QED BY <1>0, <1>1, <1>2, <1>3, <1>4, <1>5, <1>8, <1>c DEF LexInv

LEMMA LexCharStep ==
  ASSUME LexInv, LexChar
  PROVE  LexInv'
<1>0. LexTypeOK /\ Numbered(lexemes) /\ CutsBehind
  BY DEF LexInv
<1>1. /\ str \in Seq(Characters) /\ escapeCharPositions \in Seq(Nat)
      /\ Len(str) \in Nat /\ pos \in Nat /\ start \in Nat /\ start <= pos /\ pos < Len(str)
      /\ lexState = "lexText"
      /\ LastStart(escapeCharPositions, start) <= pos
  BY <1>0, ReadFacts DEF LexTypeOK, LexChar, Lexing, AtEnd, CutsBehind
<1>n. str[pos + 1] \notin Signs \cup {"\\"}
  BY DEF LexChar, CharAt, Signs
<1>2. /\ str' = str /\ lexState' = lexState /\ start' = start /\ lexemes' = lexemes
      /\ escapeCharPositions' = escapeCharPositions /\ pos' = pos + 1
  BY DEF LexChar, Lexing
<1>3. LexTypeOK'
  BY <1>0, <1>1, <1>2 DEF LexTypeOK
<1>4. CutsBehind'
  <2>1. LastStart(escapeCharPositions, start) \in Nat
    BY <1>1, PiecesType
  <2> QED BY <1>1, <1>2, <2>1 DEF CutsBehind
<1>5. AtSign'
  BY <1>1, <1>2 DEF AtSign
<1>x. PICK x \in Characters : x = str[pos + 1]
  BY <1>1
<1>6. Sliced(str, escapeCharPositions, start, pos + 1) =
        Sliced(str, escapeCharPositions, start, pos) \o <<x>>
  BY <1>1, <1>x, SlicedGrows
<1>7. Rest(str, pos) = <<x>> \o Rest(str, pos + 1) /\ Rest(str, pos + 1) \in Seq(Characters)
  <2>1. pos \in 0..Len(str) - 1 /\ pos + 1 \in 0..Len(str) + 1
    BY <1>1
  <2> QED BY <1>1, <1>n, <1>x, <2>1, RestStep, RestType
<1>8. Read(lexemes, str, escapeCharPositions, start, pos + 1) =
        Read(lexemes, str, escapeCharPositions, start, pos)
  <2>a. PICK a \in Seq(Characters) : a = Joined(lexemes)
    BY <1>0, ReadFacts
  <2>b. PICK b \in Seq(Characters) : b = Sliced(str, escapeCharPositions, start, pos)
    BY <1>0, ReadFacts
  <2>x. PICK y \in Seq(Characters) : y = <<x>>
    <3>1. <<x>> \in Seq(Characters)
      OBVIOUS
    <3> QED BY <3>1
  <2>d. PICK d \in Seq(Characters) : d = Rest(str, pos + 1)
    BY <1>7
  <2>1. Regrouped(a, b, y, d)
    BY Regroup
  <2> QED BY <1>6, <1>7, <2>1, <2>a, <2>b, <2>x, <2>d, Zenon DEF Read, Regrouped
<1> QED BY <1>0, <1>1, <1>2, <1>3, <1>4, <1>5, <1>8 DEF LexInv

\* After a lexeme the next one begins at `q`; nothing was plain on the way there.
LEMMA EmittedStep ==
  ASSUME LexInv, NEW type \in {"FIELD", "TERM"}, NEW emits \in BOOLEAN,
         IF emits THEN Emit(type, pos) ELSE NoLexeme, ~emits => pos = start,
         NEW q \in 0..Len(str) + 1, Rest(str, q) = Rest(str, pos),
         str' = str, pos' = q, start' = q,
         lexState' \in {"lexText", "lexEditDistance", "lexBoost", "done"},
         lexState' \in {"lexEditDistance", "lexBoost"} =>
           q < Len(str) /\ str[q + 1] \in {"~", "^"},
         lexState' = "done" => Rest(str, q) = <<>>
  PROVE  LexInv'
<1>0. LexTypeOK /\ Numbered(lexemes)
  BY DEF LexInv
<1>1. /\ lexemes' \in Seq(Lexemes) /\ Numbered(lexemes') /\ escapeCharPositions' = <<>>
      /\ Joined(lexemes') = Joined(lexemes) \o Sliced(str, escapeCharPositions, start, pos)
  BY TermEmitted
<1>2. LexTypeOK'
  <2>1. Len(str) \in Nat /\ q \in 0..q /\ <<>> \in Seq(Nat)
    BY <1>0, ReadFacts
  <2> QED BY <1>0, <1>1, <2>1 DEF LexTypeOK
<1>3. CutsBehind'
  <2>1. LastStart(<<>>, q) = q /\ q <= q
    BY <1>0, ReadFacts DEF LastStart
  <2> QED BY <1>1, <2>1 DEF CutsBehind
<1>4. AtSign'
  BY DEF AtSign
<1>5. Read(lexemes', str, <<>>, q, q) = Read(lexemes, str, escapeCharPositions, start, pos)
  <2>1. /\ str \in Seq(Characters) /\ lexemes \in Seq(Lexemes) /\ escapeCharPositions \in Seq(Nat)
        /\ start \in Nat /\ pos \in 0..Len(str) + 1
    BY <1>0, ReadFacts DEF LexTypeOK
  <2>m. PICK ms \in Seq(Lexemes) : ms = lexemes'
    BY <1>1
  <2>2. Joined(ms) = Joined(lexemes) \o Sliced(str, escapeCharPositions, start, pos)
    BY <1>1, <2>m
  <2>3. ReadAlike(ms, str, q, lexemes, escapeCharPositions, start, pos)
    BY <2>1, <2>2, ReadEmitted
  <2> QED BY <2>3, <2>m DEF ReadAlike
<1>6. Read(lexemes, str, escapeCharPositions, start, pos) = Plain(str)
  BY DEF LexInv
<1>7. Read(lexemes', str', escapeCharPositions', start', pos') = Plain(str')
  BY <1>1, <1>5, <1>6
<1>8. ASSUME lexState' = "done" PROVE Joined(lexemes') = Plain(str')
  <2>1. Sliced(str, <<>>, q, q) = <<>>
    BY <1>0, ReadFacts, SlicedNone DEF LexTypeOK
  <2>j. PICK j \in Seq(Characters) : j = Joined(lexemes')
    BY <1>1, JoinedType
  <2>2. (j \o <<>>) \o <<>> = j
    BY ConcatEmptySeq
  <2>3. Read(lexemes', str, <<>>, q, q) = j
    BY <1>8, <2>1, <2>2, <2>j DEF Read
  <2> QED BY <1>5, <1>6, <2>3, <2>j
<1> QED BY <1>1, <1>2, <1>3, <1>4, <1>7, <1>8 DEF LexInv

\* A sign is not plain.
LEMMA SignSkipped ==
  ASSUME LexTypeOK, pos < Len(str), str[pos + 1] \in Signs
  PROVE  /\ pos + 1 \in 0..Len(str) + 1
         /\ Rest(str, pos + 1) = Rest(str, pos)
         /\ pos + 1 = Len(str) => Rest(str, pos + 1) = <<>>
<1>1. str \in Seq(Characters) /\ Len(str) \in Nat /\ pos \in Nat
  BY ReadFacts DEF LexTypeOK
<1>2. pos \in 0..Len(str) - 1 /\ pos + 1 \in 0..Len(str) + 1
  BY <1>1
<1>3. Rest(str, pos) = Rest(str, pos + 1)
  BY <1>1, <1>2, RestStep
<1>4. pos + 1 = Len(str) => Rest(str, pos + 1) = <<>>
  <2>1. pos + 1 = Len(str) => pos + 1 >= Len(str)
    BY <1>1
  <2> QED BY <1>1, <1>2, <2>1, RestEnds
<1> QED BY <1>2, <1>3, <1>4

LEMMA LexFieldStep ==
  ASSUME LexInv, LexField
  PROVE  LexInv'
<1>0. LexTypeOK
  BY DEF LexInv
<1>1. lexState = "lexText" /\ pos < Len(str) /\ str[pos + 1] \in Signs
  BY <1>0, ReadFacts DEF LexField, Lexing, AtEnd, CharAt, Signs
<1>2. str' = str /\ pos' = pos + 1 /\ start' = pos + 1 /\ lexState' = "lexText"
  BY <1>1 DEF LexField, Lexing, IgnoreFrom
<1>3. Emit("FIELD", pos)
  BY DEF LexField
<1>q. PICK q \in 0..Len(str) + 1 : q = pos + 1
  BY <1>0, <1>1, SignSkipped
<1>4. Rest(str, q) = Rest(str, pos)
  BY <1>0, <1>1, <1>q, SignSkipped
<1> QED BY <1>2, <1>3, <1>4, <1>q, EmittedStep

LEMMA LexTermStep ==
  ASSUME LexInv, LexTerm
  PROVE  LexInv'
<1>0. LexTypeOK /\ Len(str) \in Nat /\ pos \in Nat /\ start \in 0..pos
  BY ReadFacts DEF LexInv, LexTypeOK
<1>1. pos < Len(str) /\ str[pos + 1] \in Signs
  BY <1>0 DEF LexTerm, Lexing, AtEnd, CharAt, Signs
<1>2. str' = str /\ pos' = pos + 1 /\ start' = pos + 1
      /\ lexState' = IF pos + 1 < Len(str) THEN "lexText" ELSE "done"
  BY DEF LexTerm, Lexing, IgnoreFrom
<1>e. PICK emits \in BOOLEAN : emits <=> pos > start
  OBVIOUS
<1>3. IF emits THEN Emit("TERM", pos) ELSE NoLexeme
  BY <1>e DEF LexTerm
<1>4. ~emits => pos = start
  BY <1>0, <1>e
<1>q. PICK q \in 0..Len(str) + 1 : q = pos + 1
  BY <1>0, <1>1, SignSkipped
<1>5. Rest(str, q) = Rest(str, pos)
  BY <1>0, <1>1, <1>q, SignSkipped
<1>6. lexState' = "done" => Rest(str, q) = <<>>
  <2>1. lexState' = "done" => pos + 1 = Len(str)
    BY <1>0, <1>1, <1>2
  <2> QED BY <1>0, <1>1, <1>q, <2>1, SignSkipped
<1>7. lexState' \in {"lexText", "done"}
  BY <1>2
<1> QED BY <1>2, <1>3, <1>4, <1>5, <1>6, <1>7, <1>q, EmittedStep

LEMMA LexModifierStep ==
  ASSUME LexInv, LexModifier
  PROVE  LexInv'
<1>0. LexTypeOK /\ Len(str) \in Nat /\ pos \in Nat /\ start \in 0..pos /\ pos \in 0..Len(str) + 1
  BY ReadFacts DEF LexInv, LexTypeOK
<1>1. pos < Len(str) /\ str[pos + 1] \in {"~", "^"}
  BY <1>0 DEF LexModifier, Lexing, AtEnd, CharAt
<1>2. str' = str /\ pos' = pos /\ start' = pos /\ lexState' \in {"lexEditDistance", "lexBoost"}
  BY DEF LexModifier, Lexing
<1>e. PICK emits \in BOOLEAN : emits <=> pos > start
  OBVIOUS
<1>3. IF emits THEN Emit("TERM", pos) ELSE NoLexeme
  BY <1>e DEF LexModifier
<1>4. ~emits => pos = start
  BY <1>0, <1>e
<1> QED BY <1>0, <1>1, <1>2, <1>3, <1>4, EmittedStep

LEMMA LexEOSStep ==
  ASSUME LexInv, LexEOS
  PROVE  LexInv'
<1>0. /\ LexTypeOK /\ str \in Seq(Characters) /\ Len(str) \in Nat /\ pos \in Nat /\ start \in 0..pos
      /\ pos \in 0..Len(str) + 1
  BY ReadFacts DEF LexInv, LexTypeOK
<1>1. pos >= Len(str)
  BY DEF LexEOS, AtEnd
<1>2. str' = str /\ pos' = pos /\ start' = pos /\ lexState' = "done"
  BY DEF LexEOS, Lexing
<1>e. PICK emits \in BOOLEAN : emits <=> pos > start
  OBVIOUS
<1>3. IF emits THEN Emit("TERM", pos) ELSE NoLexeme
  BY <1>e DEF LexEOS
<1>4. ~emits => pos = start
  BY <1>0, <1>e
<1>5. Rest(str, pos) = <<>>
  BY <1>0, <1>1, RestEnds
<1> QED BY <1>0, <1>2, <1>3, <1>4, <1>5, EmittedStep

LEMMA LexNumberStep ==
  ASSUME LexInv, NEW state \in {"lexEditDistance", "lexBoost"}, NEW type \in LexemeTypes,
         LexNumber(state, type)
  PROVE  LexInv'
<1>0. /\ LexTypeOK /\ Numbered(lexemes) /\ str \in Seq(Characters) /\ lexemes \in Seq(Lexemes)
      /\ Len(str) \in Nat /\ pos \in Nat /\ start \in Nat
  BY ReadFacts DEF LexInv, LexTypeOK
<1>1. lexState = state
  BY DEF LexNumber, Lexing
<1>2. pos = start /\ pos < Len(str) /\ str[pos + 1] \in Signs /\ escapeCharPositions = <<>>
  BY <1>1 DEF LexInv, AtSign, CutsBehind, Signs
<1>d. PICK end : end = DigitsEnd(pos + 1)
  OBVIOUS
<1>p. PICK p : p = pos + 1
  OBVIOUS
<1>3. p \in 0..Len(str)
  BY <1>0, <1>2, <1>p
<1>4. end \in p..Len(str) /\ \A r \in p..end - 1 : str[r + 1] \in DigitChars
  BY <1>0, <1>3, <1>d, <1>p, DigitsEndIs
<1>x. PICK x : x = SliceOf(str, p, end)
  OBVIOUS
<1>5. x \o Rest(str, end) = Rest(str, p) /\ x \in Seq(DigitChars)
  BY <1>0, <1>3, <1>4, <1>x, DigitsPlain
<1>6. x \in Seq(Characters) /\ Rest(str, end) \in Seq(Characters)
  <2>1. p \in Nat /\ end \in Nat /\ end \in 0..Len(str) + 1
    BY <1>0, <1>3, <1>4
  <2> QED BY <1>0, <1>x, <2>1, SliceType, RestType
<1>l. PICK l : l = [type |-> type, str |-> x]
  OBVIOUS
<1>7. l \in Lexemes /\ l.str = x
  BY <1>6, <1>l DEF Lexemes
<1>8. /\ str' = str /\ lexemes' = Append(lexemes, l) /\ pos' = end /\ start' = end
      /\ lexState' = "lexText" /\ escapeCharPositions' = <<>>
  <2>1. Slice(pos + 1, DigitsEnd(pos + 1)) = x
    BY <1>d, <1>p, <1>x, Zenon DEF Slice, SliceOf
  <2> QED BY <1>2, <1>d, <1>l, <2>1 DEF LexNumber, Lexing
<1>9. lexemes' \in Seq(Lexemes) /\ Numbered(lexemes')
  BY <1>0, <1>5, <1>7, <1>8, NumberedAppend
<1>10. LexTypeOK'
  <2>1. end \in 0..Len(str) + 1 /\ end \in 0..end /\ <<>> \in Seq(Nat)
    BY <1>0, <1>3, <1>4
  <2> QED BY <1>0, <1>8, <1>9, <2>1 DEF LexTypeOK
<1>11. CutsBehind'
  <2>1. LastStart(<<>>, end) = end /\ end <= end
    BY <1>0, <1>3, <1>4 DEF LastStart
  <2> QED BY <1>8, <2>1 DEF CutsBehind
<1>12. AtSign'
  BY <1>8 DEF AtSign
<1>13. Read(lexemes', str, <<>>, end, end) = Read(lexemes, str, <<>>, pos, pos)
  <2>a. PICK a \in Seq(Characters) : a = Joined(lexemes)
    BY <1>0, ReadFacts
  <2>1. Joined(lexemes') = a \o x
    BY <1>0, <1>7, <1>8, <2>a, JoinedAppend
  <2>2. Sliced(str, <<>>, end, end) = <<>> /\ Sliced(str, <<>>, pos, pos) = <<>>
    <3>1. end \in Nat
      BY <1>0, <1>3, <1>4
    <3> QED BY <1>0, <3>1, SlicedNone
  <2>3. Rest(str, pos) = Rest(str, p)
    BY <1>0, <1>2, <1>p, SignSkipped
  <2>d. PICK d \in Seq(Characters) : d = Rest(str, end)
    BY <1>6
  <2>4. a \o <<>> = a /\ (a \o x) \o <<>> = a \o x
    BY <1>6, ConcatEmptySeq, ConcatProperties
  <2>5. (a \o x) \o d = a \o (x \o d)
    BY <1>6, ConcatAssociative
  <2> QED BY <1>5, <2>1, <2>2, <2>3, <2>4, <2>5, <2>a, <2>d, Zenon DEF Read, Regrouped
<1>14. Read(lexemes, str, <<>>, pos, pos) = Plain(str)
  BY <1>2 DEF LexInv
<1> QED BY <1>8, <1>9, <1>10, <1>11, <1>12, <1>13, <1>14 DEF LexInv

LEMMA LexStep ==
  ASSUME LexInv, LexNext
  PROVE  LexInv'
<1>1. CASE LexEditDistance
  <2>1. LexNumber("lexEditDistance", "EDIT_DISTANCE") /\ "EDIT_DISTANCE" \in LexemeTypes
    BY <1>1 DEF LexEditDistance, LexemeTypes
  <2> QED BY <2>1, LexNumberStep
<1>2. CASE LexBoost
  <2>1. LexNumber("lexBoost", "BOOST") /\ "BOOST" \in LexemeTypes
    BY <1>2 DEF LexBoost, LexemeTypes
  <2> QED BY <2>1, LexNumberStep
<1> QED
  BY <1>1, <1>2, LexEscapeStep, LexFieldStep, LexModifierStep, LexTermStep, LexCharStep, LexEOSStep
     DEF LexNext

\* A new query string has been read not at all.
LEMMA LexBegins ==
  ASSUME NEW s \in Seq(Characters)
  PROVE  /\ Sliced(s, <<>>, 0, 0) = <<>> /\ Joined(<<>>) = <<>>
         /\ Read(<<>>, s, <<>>, 0, 0) = Plain(s)
         /\ LastStart(<<>>, 0) = 0 /\ Len(s) \in Nat /\ Numbered(<<>>)
<1>1. Sliced(s, <<>>, 0, 0) = <<>>
  BY SlicedNone
<1>2. Joined(<<>>) = <<>>
  BY DEF Joined, FlattenSeq
<1>3. Rest(s, 0) = Plain(s) /\ Rest(s, 0) \in Seq(Characters)
  <2>1. 0 \in 0..Len(s) + 1
    OBVIOUS
  <2> QED BY <2>1, RestEnds, RestType
<1>4. (<<>> \o <<>>) \o Rest(s, 0) = Plain(s)
  BY <1>3
<1>5. LastStart(<<>>, 0) = 0 /\ Len(s) \in Nat
  BY DEF LastStart
<1>6. Numbered(<<>>)
  BY DEF Numbered
<1> QED BY <1>1, <1>2, <1>4, <1>5, <1>6 DEF Read

LEMMA NewParserLex ==
  ASSUME NEW s \in Seq(Characters), NewParser(s)
  PROVE  LexInv'
<1>1. /\ str' = s /\ lexState' = "lexText" /\ pos' = 0 /\ start' = 0
      /\ escapeCharPositions' = <<>> /\ lexemes' = <<>>
  BY DEF NewParser
<1>2. LexTypeOK' /\ CutsBehind' /\ AtSign'
  <2>1. 0 \in 0..Len(s) + 1 /\ 0 \in 0..0 /\ <<>> \in Seq(Nat) /\ <<>> \in Seq(Lexemes)
    OBVIOUS
  <2> QED BY <1>1, <2>1, LexBegins DEF LexTypeOK, CutsBehind, AtSign
<1> QED BY <1>1, <1>2, LexBegins DEF LexInv

-----------------------------------------------------------------------------
(* The parser: the clauses done are those of the terms passed, and the       *)
(* current clause is what its lexemes have made of it so far.  What the      *)
(* lexemes of a query ask for is stated of any sequence of lexemes.          *)

Lowered == {Lower(c) : c \in Characters}

Clauses == [fields : SUBSET Fields, term : Seq(Lowered), usePipeline : BOOLEAN,
            editDistance : Nat \cup {-1}, boost : Nat \cup {-1}]

TermsOf(ls, n) == {i \in 1..n : ls[i].type = "TERM"}

WellFormedAt(ls, i) ==
  /\ Modifies(ls[i]) => ls[i].str # <<>> /\ i > 1 /\ ls[i - 1].type # "FIELD"
  /\ ls[i].type = "FIELD" => ls[i].str \in Fields /\ i < Len(ls) /\ ls[i + 1].type = "TERM"

WellFormedTo(ls, n) == \A i \in 1..n : WellFormedAt(ls, i)

\* The number in the last of the lexemes `own`.
LastIn(ls, own, default) ==
  IF own = {} THEN default ELSE ToInt(ls[CHOOSE j \in own : \A k \in own : k <= j].str)

OfType(ls, type, from, to) == {j \in from..to : ls[j].type = type}

FieldBefore(ls, i) == IF i > 1 /\ ls[i - 1].type = "FIELD" THEN {ls[i - 1].str} ELSE {}

TermAt(ls, i) == [k \in DOMAIN ls[i].str |-> Lower(ls[i].str[k])]

Piped(ls, i) == ~\E k \in DOMAIN ls[i].str : ls[i].str[k] = "*"

\* The clause of the term at `t` when the lexemes up to `n` have been consumed.
Partial(ls, t, n) ==
  [fields |-> FieldBefore(ls, t), term |-> TermAt(ls, t), usePipeline |-> Piped(ls, t),
   editDistance |-> LastIn(ls, OfType(ls, "EDIT_DISTANCE", t + 1, n), -1),
   boost |-> LastIn(ls, OfType(ls, "BOOST", t + 1, n), -1)]

\* The clause of the term at `t`.
Own(ls, type, t) ==
  {j \in t + 1..Len(ls) : ls[j].type = type /\ \A k \in t + 1..j : Modifies(ls[k])}

ClauseIn(ls, t) ==
  [fields |-> IF t > 1 /\ ls[t - 1].type = "FIELD" THEN {ls[t - 1].str} ELSE Fields,
   term |-> TermAt(ls, t), usePipeline |-> Piped(ls, t),
   editDistance |-> LastIn(ls, Own(ls, "EDIT_DISTANCE", t), -1),
   boost |-> LastIn(ls, Own(ls, "BOOST", t), 1)]

LEMMA ParserIsOf ==
  /\ \A n : Terms(n) = TermsOf(lexemes, n)
  /\ \A i : ClauseOf(i) = ClauseIn(lexemes, i)
  /\ WellFormed <=> \A i \in DOMAIN lexemes : WellFormedAt(lexemes, i)
<1>1. ASSUME NEW n PROVE Terms(n) = TermsOf(lexemes, n)
  BY Zenon DEF Terms, TermsOf
<1>2. ASSUME NEW i PROVE ClauseOf(i) = ClauseIn(lexemes, i)
  BY Zenon DEF ClauseOf, ClauseIn, Modifier, LastIn, Own, TermAt, Piped, Modifies
<1>3. WellFormed <=> \A i \in DOMAIN lexemes : WellFormedAt(lexemes, i)
  BY Zenon DEF WellFormed, WellFormedAt, Modifies
<1> QED BY <1>1, <1>2, <1>3

\* All terms up to `n` have their clauses.
DoneTo(ls, cls, n) ==
  /\ Len(cls) = Cardinality(TermsOf(ls, n))
  /\ \A i \in TermsOf(ls, n) : cls[Cardinality(TermsOf(ls, i))] = ClauseIn(ls, i)

\* A clause in which only its fields are said.
Opened(f) ==
  [fields |-> f, term |-> <<>>, usePipeline |-> TRUE, editDistance |-> -1, boost |-> -1]

\* The term at `t` and the modifiers up to `n` have been consumed.
OpenTo(ls, cur, cls, t, n) ==
  /\ t \in TermsOf(ls, n)
  /\ \A j \in t + 1..n : Modifies(ls[j])
  /\ WellFormedTo(ls, n)
  /\ DoneTo(ls, cls, t - 1)
  /\ cur = Partial(ls, t, n)

Parsed(ls, state, n, cur, cls) ==
  /\ n \in 0..Len(ls)
  /\ cls \in Seq(Clauses)
  /\ \A i \in 1..Len(cls) : cls[i].boost \in Nat
  /\ state \in {"waiting", "parseField", "parseTerm", "parseEditDistance", "parseBoost", "done", "error"}
  /\ state = "waiting" => n = 0 /\ cur = Opened({}) /\ cls = <<>>
  /\ state = "parseField" =>
       /\ n < Len(ls) /\ ls[n + 1].type = "FIELD"
       /\ WellFormedTo(ls, n) /\ DoneTo(ls, cls, n) /\ cur = Opened({})
  /\ state = "parseTerm" =>
       /\ n < Len(ls) /\ ls[n + 1].type = "TERM"
       /\ WellFormedTo(ls, n) /\ DoneTo(ls, cls, n) /\ cur = Opened(FieldBefore(ls, n + 1))
  /\ state \in {"parseEditDistance", "parseBoost"} =>
       /\ n < Len(ls)
       /\ ls[n + 1].type = IF state = "parseBoost" THEN "BOOST" ELSE "EDIT_DISTANCE"
       /\ \E t \in 1..n : OpenTo(ls, cur, cls, t, n)
  /\ state = "done" => WellFormedTo(ls, Len(ls)) /\ DoneTo(ls, cls, Len(ls))
  /\ state = "error" => ~WellFormedTo(ls, Len(ls))

ParserInv ==
  /\ LexInv
  /\ Parsed(lexemes, parseState, lexemeIdx, currentClause, clauses)
  /\ lexState # "done" => parseState = "waiting"

LEMMA ParsedIsRight ==
  ASSUME ParserInv
  PROVE  ParsedRight
<1>1. LexemesComplete
  BY Zenon DEF ParserInv, LexInv, LexemesComplete, Joined
<1>2. lexemes \in Seq(Lexemes)
  BY DEF ParserInv, LexInv, LexTypeOK
<1>3. DOMAIN lexemes = 1..Len(lexemes) /\ Len(lexemes) \in Nat
  BY <1>2
<1>4. WellFormed <=> WellFormedTo(lexemes, Len(lexemes))
  BY <1>3, ParserIsOf DEF WellFormedTo
<1>5. ASSUME parseState = "done"
      PROVE  /\ WellFormed
             /\ Len(clauses) = Cardinality(Terms(Len(lexemes)))
             /\ \A i \in Terms(Len(lexemes)) : clauses[Cardinality(Terms(i))] = ClauseOf(i)
  <2>1. WellFormedTo(lexemes, Len(lexemes)) /\ DoneTo(lexemes, clauses, Len(lexemes))
    BY <1>5 DEF ParserInv, Parsed
  <2> QED BY <1>4, <2>1, ParserIsOf DEF DoneTo
<1>6. parseState = "error" => ~WellFormed
  BY <1>4 DEF ParserInv, Parsed
<1> QED BY <1>1, <1>5, <1>6 DEF ParsedRight, ClausesRight

LEMMA LexemeAt ==
  ASSUME NEW ls \in Seq(Lexemes), NEW i \in 1..Len(ls)
  PROVE  /\ ls[i].type \in LexemeTypes
         /\ ls[i].str \in Seq(Characters)
<1>1. ls[i] \in Lexemes
  OBVIOUS
<1> QED BY <1>1 DEF Lexemes

LEMMA GreatestOf ==
  ASSUME NEW b \in Nat, NEW I \in SUBSET (1..b), I # {}
  PROVE  \E m \in I : \A i \in I : i <= m
<1> DEFINE J == {b - i : i \in I}
<1>1. J \in SUBSET Nat /\ J # {}
  <2>1. \A i \in I : b - i \in Nat
    OBVIOUS
  <2> QED BY <2>1
<1>2. PICK j \in J : \A k \in J : j <= k
  BY <1>1, LeastOf
<1>3. PICK m \in I : j = b - m
  BY <1>2
<1>4. ASSUME NEW i \in I PROVE i <= m
  <2>1. b - i \in J
    OBVIOUS
  <2>2. b - m <= b - i
    BY <1>2, <1>3, <2>1
  <2>3. i \in Nat /\ m \in Nat
    OBVIOUS
  <2> QED BY <2>2, <2>3
<1> QED BY <1>4

\* The last of some lexemes decides.
LEMMA LastInIs ==
  ASSUME NEW ls, NEW own \in SUBSET Nat, NEW default, NEW m \in own, \A k \in own : k <= m
  PROVE  LastIn(ls, own, default) = ToInt(ls[m].str)
<1>1. ASSUME NEW j \in own, \A k \in own : k <= j PROVE j = m
  <2>1. j <= m /\ m <= j /\ j \in Nat /\ m \in Nat
    BY <1>1
  <2> QED BY <2>1
<1>2. m = CHOOSE j \in own : \A k \in own : k <= j
  BY <1>1
<1>3. own # {}
  OBVIOUS
<1> QED BY <1>2, <1>3, Zenon DEF LastIn

LEMMA LastInType ==
  ASSUME NEW ls \in Seq(Lexemes), Numbered(ls), NEW own \in SUBSET (1..Len(ls)), NEW default,
         \A j \in own : Modifies(ls[j]), own # {}
  PROVE  LastIn(ls, own, default) \in Nat
<1>1. Len(ls) \in Nat
  OBVIOUS
<1>2. PICK m \in own : \A k \in own : k <= m
  BY <1>1, GreatestOf
<1>3. LastIn(ls, own, default) = ToInt(ls[m].str)
  <2>1. own \in SUBSET Nat
    OBVIOUS
  <2> QED BY <1>2, <2>1, LastInIs
<1>4. ls[m].str \in Seq(DigitChars)
  BY <1>2 DEF Numbered
<1> QED BY <1>3, <1>4, ToIntNat

LEMMA OfTypeGrows ==
  ASSUME NEW ls, NEW type, NEW t \in Nat, NEW n \in Nat, t <= n
  PROVE  OfType(ls, type, t + 1, n + 1) =
           OfType(ls, type, t + 1, n) \cup (IF ls[n + 1].type = type THEN {n + 1} ELSE {})
<1>1. (t + 1)..(n + 1) = ((t + 1)..n) \cup {n + 1}
  OBVIOUS
<1>2. {j \in ((t + 1)..n) \cup {n + 1} : ls[j].type = type} =
        {j \in (t + 1)..n : ls[j].type = type} \cup (IF ls[n + 1].type = type THEN {n + 1} ELSE {})
  OBVIOUS
<1> QED BY <1>1, <1>2 DEF OfType

\* A modifier that is consumed is the last of its type.
LEMMA LastInGrows ==
  ASSUME NEW ls, NEW type, NEW t \in Nat, NEW n \in Nat, t <= n, NEW default
  PROVE  LastIn(ls, OfType(ls, type, t + 1, n + 1), default) =
           IF ls[n + 1].type = type THEN ToInt(ls[n + 1].str)
           ELSE LastIn(ls, OfType(ls, type, t + 1, n), default)
<1>1. CASE ls[n + 1].type = type
  <2> DEFINE own == OfType(ls, type, t + 1, n + 1)
  <2>1. own \in SUBSET Nat /\ n + 1 \in own /\ \A k \in own : k <= n + 1
    BY <1>1 DEF OfType
  <2> HIDE DEF own
  <2>2. LastIn(ls, own, default) = ToInt(ls[n + 1].str)
    BY <2>1, LastInIs
  <2> QED BY <1>1, <2>2 DEF own
<1>2. CASE ls[n + 1].type # type
  <2>2. OfType(ls, type, t + 1, n + 1) = OfType(ls, type, t + 1, n)
    <3>1. OfType(ls, type, t + 1, n + 1) =
            OfType(ls, type, t + 1, n) \cup (IF ls[n + 1].type = type THEN {n + 1} ELSE {})
      BY OfTypeGrows
    <3>2. PICK s : s = OfType(ls, type, t + 1, n)
      OBVIOUS
    <3> QED BY ONLY <1>2, <3>1, <3>2
  <2> QED BY <1>2, <2>2
<1> QED BY <1>1, <1>2

\* Before its modifiers, a term has none.
LEMMA LastInNone ==
  ASSUME NEW ls, NEW type, NEW t \in Nat, NEW default
  PROVE  LastIn(ls, OfType(ls, type, t + 1, t), default) = default
<1>1. (t + 1)..t = {}
  OBVIOUS
<1>2. OfType(ls, type, t + 1, t) = {}
  BY <1>1 DEF OfType
<1> QED BY <1>2 DEF LastIn

-----------------------------------------------------------------------------
LEMMA TermsFinite ==
  ASSUME NEW ls, NEW n \in Nat
  PROVE  IsFiniteSet(TermsOf(ls, n)) /\ Cardinality(TermsOf(ls, n)) \in Nat
<1>1. IsFiniteSet(1..n)
  BY FS_Interval
<1>2. TermsOf(ls, n) \subseteq 1..n
  BY DEF TermsOf
<1>3. IsFiniteSet(TermsOf(ls, n))
  BY <1>1, <1>2, FS_Subset
<1> QED BY <1>3, FS_CardinalityType

LEMMA TermsNone ==
  ASSUME NEW ls, NEW t \in Nat, NEW n \in Nat, t <= n, \A j \in t + 1..n : ls[j].type # "TERM"
  PROVE  TermsOf(ls, n) = TermsOf(ls, t)
BY DEF TermsOf

LEMMA TermsOne ==
  ASSUME NEW ls, NEW t \in Nat \ {0}, ls[t].type = "TERM"
  PROVE  /\ TermsOf(ls, t) = TermsOf(ls, t - 1) \cup {t}
         /\ Cardinality(TermsOf(ls, t)) = Cardinality(TermsOf(ls, t - 1)) + 1
<1>1. TermsOf(ls, t) = TermsOf(ls, t - 1) \cup {t}
  BY DEF TermsOf
<1>2. t \notin TermsOf(ls, t - 1)
  BY DEF TermsOf
<1>3. t - 1 \in Nat
  OBVIOUS
<1>4. IsFiniteSet(TermsOf(ls, t - 1))
  BY <1>3, TermsFinite
<1>5. Cardinality(TermsOf(ls, t - 1) \cup {t}) = Cardinality(TermsOf(ls, t - 1)) + 1
  BY <1>2, <1>4, FS_AddElement
<1> QED BY <1>1, <1>5

\* A term among the first `n` has its number among theirs.
LEMMA TermsBelow ==
  ASSUME NEW ls, NEW n \in Nat, NEW i \in TermsOf(ls, n)
  PROVE  Cardinality(TermsOf(ls, i)) \in 1..Cardinality(TermsOf(ls, n))
<1>1. i \in Nat \ {0} /\ i <= n /\ ls[i].type = "TERM" /\ i - 1 \in Nat
  BY DEF TermsOf
<1>2. TermsOf(ls, i) \subseteq TermsOf(ls, n)
  BY <1>1 DEF TermsOf
<1>3. Cardinality(TermsOf(ls, i)) <= Cardinality(TermsOf(ls, n))
  BY <1>2, TermsFinite, FS_Subset
<1>4. Cardinality(TermsOf(ls, i)) = Cardinality(TermsOf(ls, i - 1)) + 1
  BY <1>1, TermsOne
<1>5. Cardinality(TermsOf(ls, i - 1)) \in Nat /\ Cardinality(TermsOf(ls, n)) \in Nat
  BY <1>1, TermsFinite
<1> QED BY <1>3, <1>4, <1>5

\* The next clause done is that of the next term.
LEMMA DoneGrows ==
  ASSUME NEW ls, NEW cls \in Seq(Clauses), NEW t \in Nat \ {0}, NEW n \in Nat, t <= n,
         ls[t].type = "TERM", \A j \in t + 1..n : ls[j].type # "TERM",
         DoneTo(ls, cls, t - 1), ClauseIn(ls, t) \in Clauses
  PROVE  DoneTo(ls, Append(cls, ClauseIn(ls, t)), n)
<1>x. PICK x \in Clauses : x = ClauseIn(ls, t)
  OBVIOUS
<1>c. PICK c \in Nat : c = Len(cls)
  OBVIOUS
<1>1. TermsOf(ls, n) = TermsOf(ls, t)
  BY TermsNone
<1>2. TermsOf(ls, t) = TermsOf(ls, t - 1) \cup {t} /\ Cardinality(TermsOf(ls, t)) = c + 1
  BY <1>c, TermsOne DEF DoneTo
<1>3. Len(Append(cls, x)) = c + 1 /\ Append(cls, x)[c + 1] = x
  BY <1>c
<1>4. ASSUME NEW i \in TermsOf(ls, t)
      PROVE  Append(cls, x)[Cardinality(TermsOf(ls, i))] = ClauseIn(ls, i)
  <2>1. CASE i = t
    BY <1>2, <1>3, <1>x, <2>1
  <2>2. CASE i # t
    <3>1. i \in TermsOf(ls, t - 1) /\ t - 1 \in Nat
      BY <1>2, <2>2
    <3>2. Cardinality(TermsOf(ls, i)) \in 1..c
      BY <3>1, <1>c, TermsBelow DEF DoneTo
    <3>3. cls[Cardinality(TermsOf(ls, i))] = ClauseIn(ls, i)
      BY <3>1 DEF DoneTo
    <3>4. \A k \in 1..c : Append(cls, x)[k] = cls[k]
      BY <1>c
    <3> QED BY <3>2, <3>3, <3>4
  <2> QED BY <2>1, <2>2
<1> QED BY <1>1, <1>2, <1>3, <1>4, <1>x DEF DoneTo

LEMMA ClauseIs ==
  ASSUME NEW f, NEW w, NEW u, NEW e, NEW b
  PROVE  Clause([fields |-> f, term |-> w, usePipeline |-> u, editDistance |-> e, boost |-> b]) =
           [fields |-> IF f = {} THEN Fields ELSE f, term |-> w, usePipeline |-> u,
            editDistance |-> e, boost |-> IF b = -1 THEN 1 ELSE b]
<1>c. PICK c : c = [fields |-> f, term |-> w, usePipeline |-> u, editDistance |-> e, boost |-> b]
  OBVIOUS
<1>g. PICK g : g = IF f = {} THEN Fields ELSE f
  OBVIOUS
<1>h. PICK h : h = IF b = -1 THEN 1 ELSE b
  OBVIOUS
<1>1. c.fields = f /\ c.boost = b
  BY <1>c
<1>2. Clause(c) = [c EXCEPT !.fields = IF c.fields = {} THEN Fields ELSE c.fields,
                            !.boost = IF c.boost = -1 THEN 1 ELSE c.boost]
  BY Zenon DEF Clause
<1>3. Clause(c) = [c EXCEPT !.fields = g, !.boost = h]
  BY <1>1, <1>2, <1>g, <1>h, Zenon
<1>4. [c EXCEPT !.fields = g, !.boost = h] =
        [fields |-> g, term |-> w, usePipeline |-> u, editDistance |-> e, boost |-> h]
  <2>1. PICK d : d = [c EXCEPT !.fields = g]
    OBVIOUS
  <2>2. d = [fields |-> g, term |-> w, usePipeline |-> u, editDistance |-> e, boost |-> b]
    BY ONLY <1>c, <2>1
  <2>3. [d EXCEPT !.boost = h] =
          [fields |-> g, term |-> w, usePipeline |-> u, editDistance |-> e, boost |-> h]
    BY ONLY <2>2
  <2> QED BY ONLY <2>1, <2>3, Zenon
<1> QED BY <1>3, <1>4, <1>c, <1>g, <1>h, Zenon

LEMMA ClauseType ==
  ASSUME NEW f \in SUBSET Fields, NEW w \in Seq(Lowered), NEW u \in BOOLEAN,
         NEW e \in Nat \cup {-1}, NEW b \in Nat \cup {-1}
  PROVE  [fields |-> f, term |-> w, usePipeline |-> u, editDistance |-> e, boost |-> b] \in Clauses
BY DEF Clauses

\* Behind a term come its modifiers, up to the next lexeme of another type.
LEMMA OwnIs ==
  ASSUME NEW ls \in Seq(Lexemes), NEW type \in {"EDIT_DISTANCE", "BOOST"},
         NEW t \in Nat, NEW n \in Nat, t <= n, n <= Len(ls),
         \A j \in t + 1..n : Modifies(ls[j]), n < Len(ls) => ~Modifies(ls[n + 1])
  PROVE  Own(ls, type, t) = OfType(ls, type, t + 1, n)
<1>0. Len(ls) \in Nat
  OBVIOUS
<1>1. ASSUME NEW j \in OfType(ls, type, t + 1, n) PROVE j \in Own(ls, type, t)
  BY <1>0 DEF OfType, Own
<1>2. ASSUME NEW j \in Own(ls, type, t) PROVE j \in OfType(ls, type, t + 1, n)
  <2>1. j \in t + 1..Len(ls) /\ ls[j].type = type /\ \A k \in t + 1..j : Modifies(ls[k])
    BY DEF Own
  <2>2. CASE j <= n
    <3>1. j \in t + 1..n
      BY <1>0, <2>1, <2>2
    <3> QED BY <2>1, <3>1 DEF OfType
  <2>3. CASE ~(j <= n)
    <3>1. n + 1 \in t + 1..j /\ n < Len(ls)
      BY <1>0, <2>1, <2>3
    <3> QED BY <2>1, <3>1
  <2> QED BY <2>2, <2>3
<1> QED BY <1>1, <1>2

\* What a clause has when its last lexeme is consumed.
LEMMA FinishClause ==
  ASSUME NEW ls \in Seq(Lexemes), Numbered(ls), NEW n \in 0..Len(ls), NEW t \in TermsOf(ls, n),
         \A j \in t + 1..n : Modifies(ls[j]), WellFormedTo(ls, n),
         n < Len(ls) => ~Modifies(ls[n + 1])
  PROVE  /\ Clause(Partial(ls, t, n)) = ClauseIn(ls, t)
         /\ ClauseIn(ls, t) \in Clauses
         /\ ClauseIn(ls, t).boost \in Nat
<1>0. /\ n \in Nat /\ Len(ls) \in Nat /\ n <= Len(ls) /\ t \in Nat /\ t <= n /\ 1 <= t
      /\ t \in 1..Len(ls) /\ ls[t].type = "TERM"
  BY DEF TermsOf
<1>e. PICK e : e = LastIn(ls, OfType(ls, "EDIT_DISTANCE", t + 1, n), -1)
  OBVIOUS
<1>b. PICK b : b = LastIn(ls, OfType(ls, "BOOST", t + 1, n), -1)
  OBVIOUS
<1>f. PICK f : f = FieldBefore(ls, t)
  OBVIOUS
<1>w. PICK w : w = TermAt(ls, t)
  OBVIOUS
<1>u. PICK u : u = Piped(ls, t)
  OBVIOUS
<1>1. ASSUME NEW type \in {"EDIT_DISTANCE", "BOOST"}
      PROVE  /\ Own(ls, type, t) = OfType(ls, type, t + 1, n)
             /\ \/ Own(ls, type, t) = {}
                \/ \A d : LastIn(ls, Own(ls, type, t), d) \in Nat
             /\ \A d, c : Own(ls, type, t) # {} =>
                             LastIn(ls, Own(ls, type, t), d) = LastIn(ls, Own(ls, type, t), c)
  <2>1. Own(ls, type, t) = OfType(ls, type, t + 1, n)
    BY <1>0, OwnIs
  <2>2. Own(ls, type, t) \in SUBSET (1..Len(ls)) /\ \A j \in Own(ls, type, t) : Modifies(ls[j])
    BY <1>0 DEF Own
  <2>3. ASSUME Own(ls, type, t) # {}, NEW d PROVE LastIn(ls, Own(ls, type, t), d) \in Nat
    BY <2>2, <2>3, LastInType
  <2>4. ASSUME NEW d, NEW c, Own(ls, type, t) # {}
        PROVE  LastIn(ls, Own(ls, type, t), d) = LastIn(ls, Own(ls, type, t), c)
    <3>1. PICK own : own = Own(ls, type, t)
      OBVIOUS
    <3>2. PICK i : i = ToInt(ls[CHOOSE j \in own : \A k \in own : k <= j].str)
      OBVIOUS
    <3>3. ASSUME NEW x PROVE LastIn(ls, own, x) = i
      BY <2>4, <3>1, <3>2, Zenon DEF LastIn
    <3> QED BY <3>1, <3>3, Zenon
  <2> QED BY <2>1, <2>3, <2>4
<1>2. LastIn(ls, Own(ls, "EDIT_DISTANCE", t), -1) = e /\ e \in Nat \cup {-1}
  <2>1. LastIn(ls, Own(ls, "EDIT_DISTANCE", t), -1) = e
    BY <1>1, <1>e
  <2>2. CASE Own(ls, "EDIT_DISTANCE", t) = {}
    BY <2>1, <2>2 DEF LastIn
  <2> QED BY <1>1, <2>1, <2>2
<1>3. LastIn(ls, Own(ls, "BOOST", t), 1) = (IF b = -1 THEN 1 ELSE b) /\ b \in Nat \cup {-1}
  <2>1. CASE Own(ls, "BOOST", t) = {}
    <3>1. LastIn(ls, Own(ls, "BOOST", t), 1) = 1
      BY <2>1 DEF LastIn
    <3>2. OfType(ls, "BOOST", t + 1, n) = {}
      BY <1>1, <2>1
    <3>3. b = -1
      BY <1>b, <3>2 DEF LastIn
    <3> QED BY <3>1, <3>3
  <2>2. CASE Own(ls, "BOOST", t) # {}
    <3>1. LastIn(ls, Own(ls, "BOOST", t), -1) \in Nat
      BY <1>1, <2>2
    <3>2. LastIn(ls, Own(ls, "BOOST", t), -1) = b
      BY <1>1, <1>b
    <3>3. LastIn(ls, Own(ls, "BOOST", t), 1) = LastIn(ls, Own(ls, "BOOST", t), -1)
      BY <1>1, <2>2
    <3> QED BY <3>1, <3>2, <3>3
  <2> QED BY <2>1, <2>2
<1>4. PICK g : g = IF t > 1 /\ ls[t - 1].type = "FIELD" THEN {ls[t - 1].str} ELSE Fields
  OBVIOUS
<1>5. g = (IF f = {} THEN Fields ELSE f) /\ g \in SUBSET Fields
  <2>1. CASE t > 1 /\ ls[t - 1].type = "FIELD"
    <3>1. t - 1 \in 1..n
      BY <1>0, <2>1
    <3>2. ls[t - 1].str \in Fields
      BY <2>1, <3>1 DEF WellFormedTo, WellFormedAt
    <3>3. f = {ls[t - 1].str} /\ g = {ls[t - 1].str}
      BY <1>4, <1>f, <2>1 DEF FieldBefore
    <3> QED BY <3>2, <3>3
  <2>2. CASE ~(t > 1 /\ ls[t - 1].type = "FIELD")
    <3>1. f = {} /\ g = Fields
      BY <1>4, <1>f, <2>2 DEF FieldBefore
    <3> QED BY <3>1
  <2> QED BY <2>1, <2>2
<1>6. w \in Seq(Lowered)
  <2>1. ls[t].str \in Seq(Characters)
    BY <1>0, LexemeAt
  <2>2. PICK s \in Seq(Characters) : s = ls[t].str
    BY <2>1
  <2>3. w = [k \in 1..Len(s) |-> Lower(s[k])]
    BY <1>w, <2>2 DEF TermAt
  <2>4. \A k \in 1..Len(s) : Lower(s[k]) \in Lowered
    BY DEF Lowered
  <2> QED BY <2>3, <2>4
<1>7. u \in BOOLEAN
  BY <1>u DEF Piped
<1>8. PICK h : h = IF b = -1 THEN 1 ELSE b
  OBVIOUS
<1>9. h \in Nat
  BY <1>3, <1>8
<1>10. ClauseIn(ls, t) = [fields |-> g, term |-> w, usePipeline |-> u,
                          editDistance |-> e, boost |-> h]
  BY <1>2, <1>3, <1>4, <1>8, <1>u, <1>w, Zenon DEF ClauseIn
<1>11. Partial(ls, t, n) = [fields |-> f, term |-> w, usePipeline |-> u,
                            editDistance |-> e, boost |-> b]
  BY <1>b, <1>e, <1>f, <1>u, <1>w, Zenon DEF Partial
<1>12. Clause(Partial(ls, t, n)) = ClauseIn(ls, t)
  BY <1>5, <1>8, <1>10, <1>11, ClauseIs
<1>13. ClauseIn(ls, t) \in Clauses
  <2>1. h \in Nat \cup {-1}
    BY <1>9
  <2>2. [fields |-> g, term |-> w, usePipeline |-> u, editDistance |-> e, boost |-> h] \in Clauses
    BY <1>2, <1>5, <1>6, <1>7, <2>1, ClauseType
  <2> QED BY <1>10, <2>2
<1>14. ClauseIn(ls, t).boost = h
  BY <1>10
<1> QED BY <1>9, <1>12, <1>13, <1>14

TypeBehind(ls, n) == IF n < Len(ls) THEN ls[n + 1].type ELSE "none"

\* What Continue makes of a clause when `n` lexemes have been consumed.
Continues(ls, n, cur, cls, st, new, done) ==
  IF TypeBehind(ls, n) \in {"EDIT_DISTANCE", "BOOST"}
  THEN /\ new = cur
       /\ st = IF TypeBehind(ls, n) = "BOOST" THEN "parseBoost" ELSE "parseEditDistance"
       /\ done = cls
  ELSE /\ done = Append(cls, Clause(cur))
       /\ new = Opened({})
       /\ st = IF TypeBehind(ls, n) = "FIELD" THEN "parseField"
               ELSE IF TypeBehind(ls, n) = "TERM" THEN "parseTerm" ELSE "done"

Boosted(cls) == \A i \in 1..Len(cls) : cls[i].boost \in Nat

LEMMA ContinuesRight ==
  ASSUME NEW ls \in Seq(Lexemes), Numbered(ls), NEW n \in 1..Len(ls),
         NEW cls \in Seq(Clauses), Boosted(cls), NEW cur, NEW t, OpenTo(ls, cur, cls, t, n),
         NEW st, NEW new, NEW done, Continues(ls, n, cur, cls, st, new, done)
  PROVE  Parsed(ls, st, n, new, done)
<1>0. n \in Nat /\ Len(ls) \in Nat /\ n <= Len(ls) /\ n \in 0..Len(ls) /\ n \in 1..n
  OBVIOUS
<1>1. /\ t \in TermsOf(ls, n) /\ (\A j \in t + 1..n : Modifies(ls[j])) /\ WellFormedTo(ls, n)
      /\ DoneTo(ls, cls, t - 1) /\ cur = Partial(ls, t, n)
  BY DEF OpenTo
<1>t. t \in Nat \ {0} /\ t <= n /\ t \in 1..n /\ ls[t].type = "TERM" /\ t \in Nat
  BY <1>1 DEF TermsOf
<1>2. CASE TypeBehind(ls, n) \in {"EDIT_DISTANCE", "BOOST"}
  <2>1. n < Len(ls) /\ ls[n + 1].type = TypeBehind(ls, n)
    BY <1>2 DEF TypeBehind
  <2>2. /\ new = cur /\ done = cls
        /\ st = IF TypeBehind(ls, n) = "BOOST" THEN "parseBoost" ELSE "parseEditDistance"
    BY <1>2 DEF Continues
  <2>3. ls[n + 1].type = IF st = "parseBoost" THEN "BOOST" ELSE "EDIT_DISTANCE"
    BY <1>2, <2>1, <2>2
  <2>4. st \in {"parseEditDistance", "parseBoost"}
    BY <2>2
  <2>5. \E k \in 1..n : OpenTo(ls, new, done, k, n)
    BY <1>t, <2>2
  <2> QED BY <1>0, <2>1, <2>2, <2>3, <2>4, <2>5 DEF Parsed, Boosted
<1>3. CASE TypeBehind(ls, n) \notin {"EDIT_DISTANCE", "BOOST"}
  <2>1. n < Len(ls) => ~Modifies(ls[n + 1])
    BY <1>3 DEF TypeBehind, Modifies
  <2>2. /\ done = Append(cls, Clause(cur)) /\ new = Opened({})
        /\ st = IF TypeBehind(ls, n) = "FIELD" THEN "parseField"
                ELSE IF TypeBehind(ls, n) = "TERM" THEN "parseTerm" ELSE "done"
    BY <1>3 DEF Continues
  <2>3. Clause(cur) = ClauseIn(ls, t) /\ ClauseIn(ls, t) \in Clauses /\ ClauseIn(ls, t).boost \in Nat
    BY <1>0, <1>1, <2>1, FinishClause
  <2>4. \A j \in t + 1..n : ls[j].type # "TERM"
    BY <1>1 DEF Modifies
  <2>5. DoneTo(ls, done, n)
    BY <1>0, <1>1, <1>t, <2>2, <2>3, <2>4, DoneGrows
  <2>x. PICK x \in Clauses : x = ClauseIn(ls, t)
    BY <2>3
  <2>6. done \in Seq(Clauses) /\ \A i \in 1..Len(done) : done[i].boost \in Nat
    <3>1. PICK l \in Nat : l = Len(cls)
      OBVIOUS
    <3>2. done = Append(cls, x) /\ x.boost \in Nat
      BY <2>2, <2>3, <2>x
    <3>3. done \in Seq(Clauses) /\ Len(done) = l + 1 /\ done[l + 1] = x
          /\ \A i \in 1..l : done[i] = cls[i]
      BY <3>1, <3>2
    <3>4. ASSUME NEW i \in 1..Len(done) PROVE done[i].boost \in Nat
      <4>1. i = l + 1 \/ i \in 1..l
        BY <3>1, <3>3
      <4>2. \A k \in 1..l : cls[k].boost \in Nat
        BY <3>1 DEF Boosted
      <4> QED BY <3>2, <3>3, <4>1, <4>2
    <3> QED BY <3>3, <3>4
  <2>7. CASE st = "done"
    <3>1. n = Len(ls)
      <4>1. ASSUME n < Len(ls) PROVE FALSE
        <5>1. n + 1 \in 1..Len(ls)
          BY <1>0, <4>1
        <5>2. ls[n + 1].type \in LexemeTypes
          BY <5>1, LexemeAt
        <5>3. TypeBehind(ls, n) \in {"FIELD", "TERM"}
          BY <1>3, <4>1, <5>2 DEF LexemeTypes, TypeBehind
        <5> QED BY <2>2, <2>7, <5>3
      <4> QED BY <1>0, <4>1
    <3> QED BY <1>0, <1>1, <2>5, <2>6, <2>7, <3>1 DEF Parsed
  <2>8. CASE st = "parseField"
    <3>1. n < Len(ls) /\ ls[n + 1].type = "FIELD"
      BY <2>2, <2>8 DEF TypeBehind
    <3> QED BY <1>0, <1>1, <2>2, <2>5, <2>6, <2>8, <3>1 DEF Parsed
  <2>9. CASE st = "parseTerm"
    <3>1. n < Len(ls) /\ ls[n + 1].type = "TERM"
      BY <2>2, <2>9 DEF TypeBehind
    <3>2. ls[n].type # "FIELD"
      <4>1. CASE t = n
        BY <1>t, <4>1
      <4>2. CASE t # n
        <5>1. n \in t + 1..n
          BY <1>0, <1>t, <4>2
        <5> QED BY <1>1, <5>1 DEF Modifies
      <4> QED BY <4>1, <4>2
    <3>3. FieldBefore(ls, n + 1) = {}
      <4>1. n + 1 - 1 = n
        BY <1>0
      <4> QED BY <3>2, <4>1 DEF FieldBefore
    <3> QED BY <1>0, <1>1, <2>2, <2>5, <2>6, <2>9, <3>1, <3>3 DEF Parsed
  <2> QED BY <2>2, <2>7, <2>8, <2>9
<1> QED BY <1>2, <1>3

LEMMA WellFormedGrows ==
  ASSUME NEW ls, NEW n \in Nat, WellFormedTo(ls, n), WellFormedAt(ls, n + 1)
  PROVE  WellFormedTo(ls, n + 1)
<1>1. \A i \in 1..n + 1 : i \in 1..n \/ i = n + 1
  OBVIOUS
<1> QED BY <1>1 DEF WellFormedTo

\* A term begins a clause, in the field before it.
LEMMA TermOpens ==
  ASSUME NEW ls \in Seq(Lexemes), NEW n \in 0..Len(ls) - 1, NEW cls, ls[n + 1].type = "TERM",
         WellFormedTo(ls, n), DoneTo(ls, cls, n),
         NEW cur, cur = Partial(ls, n + 1, n + 1)
  PROVE  OpenTo(ls, cur, cls, n + 1, n + 1)
<1>1. n \in Nat /\ Len(ls) \in Nat /\ n + 1 - 1 = n /\ n + 1 \in 1..n + 1
  OBVIOUS
<1>2. n + 1 \in TermsOf(ls, n + 1)
  BY <1>1 DEF TermsOf
<1>3. (n + 1) + 1..n + 1 = {}
  BY <1>1
<1>4. WellFormedAt(ls, n + 1)
  BY DEF WellFormedAt, Modifies
<1>5. WellFormedTo(ls, n + 1)
  BY <1>1, <1>4, WellFormedGrows
<1> QED BY <1>1, <1>2, <1>3, <1>5 DEF OpenTo

LEMMA PartialTerm ==
  ASSUME NEW ls, NEW n \in Nat, NEW f, f = FieldBefore(ls, n + 1), NEW w, w = TermAt(ls, n + 1),
         NEW u, u = Piped(ls, n + 1)
  PROVE  Partial(ls, n + 1, n + 1) =
           [fields |-> f, term |-> w, usePipeline |-> u, editDistance |-> -1, boost |-> -1]
<1>1. PICK k \in Nat : k = n + 1
  OBVIOUS
<1>m. PICK m : m = -1
  OBVIOUS
<1>2. ASSUME NEW type PROVE LastIn(ls, OfType(ls, type, k + 1, k), m) = m
  BY LastInNone
<1> QED BY <1>1, <1>2, <1>m, Zenon DEF Partial

LEMMA OpenedTerm ==
  ASSUME NEW f, NEW w, NEW u
  PROVE  [Opened(f) EXCEPT !.term = w, !.usePipeline = u] =
           [fields |-> f, term |-> w, usePipeline |-> u, editDistance |-> -1, boost |-> -1]
<1>t. PICK t : t = TRUE
  OBVIOUS
<1>m. PICK m : m = -1
  OBVIOUS
<1>c. PICK c : c = [fields |-> f, term |-> <<>>, usePipeline |-> t, editDistance |-> m, boost |-> m]
  OBVIOUS
<1>1. c = Opened(f)
  BY <1>c, <1>m, <1>t, Zenon DEF Opened
<1>2. PICK d : d = [c EXCEPT !.term = w]
  OBVIOUS
<1>3. d = [fields |-> f, term |-> w, usePipeline |-> t, editDistance |-> m, boost |-> m]
  BY ONLY <1>c, <1>2
<1>4. [d EXCEPT !.usePipeline = u] =
        [fields |-> f, term |-> w, usePipeline |-> u, editDistance |-> m, boost |-> m]
  BY ONLY <1>3
<1>5. [c EXCEPT !.term = w, !.usePipeline = u] = [d EXCEPT !.usePipeline = u]
  BY ONLY <1>2, Zenon
<1> QED BY <1>1, <1>4, <1>5, <1>m, Zenon

\* A modifier behind a term goes to its clause.
LEMMA ModifierStep ==
  ASSUME NEW ls \in Seq(Lexemes), NEW n \in 0..Len(ls) - 1, NEW cls, NEW cur, NEW t,
         OpenTo(ls, cur, cls, t, n), Modifies(ls[n + 1]), ls[n + 1].str # <<>>,
         NEW new, new = Partial(ls, t, n + 1)
  PROVE  OpenTo(ls, new, cls, t, n + 1)
<1>0. n \in Nat /\ Len(ls) \in Nat /\ n + 1 \in 1..n + 1 /\ n + 1 - 1 = n
  OBVIOUS
<1>1. /\ t \in TermsOf(ls, n) /\ (\A j \in t + 1..n : Modifies(ls[j])) /\ WellFormedTo(ls, n)
      /\ DoneTo(ls, cls, t - 1)
  BY DEF OpenTo
<1>t. t \in Nat /\ t <= n /\ 1 <= t /\ ls[t].type = "TERM" /\ t \in 1..n
  BY <1>1 DEF TermsOf
<1>2. t \in TermsOf(ls, n + 1)
  BY <1>0, <1>t DEF TermsOf
<1>3. \A j \in t + 1..n + 1 : Modifies(ls[j])
  <2>1. \A j \in t + 1..n + 1 : j \in t + 1..n \/ j = n + 1
    BY <1>0, <1>t
  <2> QED BY <1>1, <2>1
<1>4. ls[n].type # "FIELD"
  <2>1. CASE t = n
    BY <1>t, <2>1
  <2>2. CASE t # n
    <3>1. n \in t + 1..n
      BY <1>0, <1>t, <2>2
    <3> QED BY <1>1, <3>1 DEF Modifies
  <2> QED BY <2>1, <2>2
<1>5. WellFormedAt(ls, n + 1)
  <2>1. n + 1 > 1
    BY <1>0, <1>t
  <2> QED BY <1>0, <1>4, <2>1 DEF WellFormedAt, Modifies
<1>6. WellFormedTo(ls, n + 1)
  BY <1>0, <1>1, <1>5, WellFormedGrows
<1> QED BY <1>1, <1>2, <1>3, <1>6 DEF OpenTo

\* What the next lexeme, a modifier, makes of the clause of the term at `t`.
Modified(ls, t, n, c, x) ==
  /\ ls[n + 1].type = "EDIT_DISTANCE" => Partial(ls, t, n + 1) = [c EXCEPT !.editDistance = x]
  /\ ls[n + 1].type = "BOOST" => Partial(ls, t, n + 1) = [c EXCEPT !.boost = x]

LEMMA PartialModifier ==
  ASSUME NEW ls, NEW t \in Nat, NEW n \in Nat, t <= n, NEW x, x = ToInt(ls[n + 1].str),
         NEW c, c = Partial(ls, t, n)
  PROVE  Modified(ls, t, n, c, x)
<1>k. PICK k : k = n + 1
  OBVIOUS
<1>m. PICK m : m = -1
  OBVIOUS
<1>e. PICK e : e = LastIn(ls, OfType(ls, "EDIT_DISTANCE", t + 1, n), m)
  OBVIOUS
<1>b. PICK b : b = LastIn(ls, OfType(ls, "BOOST", t + 1, n), m)
  OBVIOUS
<1>f. PICK f : f = FieldBefore(ls, t)
  OBVIOUS
<1>w. PICK w : w = TermAt(ls, t)
  OBVIOUS
<1>u. PICK u : u = Piped(ls, t)
  OBVIOUS
<1>1. c = [fields |-> f, term |-> w, usePipeline |-> u, editDistance |-> e, boost |-> b]
  BY <1>b, <1>e, <1>f, <1>m, <1>u, <1>w, Zenon DEF Partial
<1>2. ASSUME NEW type
      PROVE  LastIn(ls, OfType(ls, type, t + 1, k), m) =
               IF ls[k].type = type THEN x ELSE LastIn(ls, OfType(ls, type, t + 1, n), m)
  <2>1. LastIn(ls, OfType(ls, type, t + 1, n + 1), m) =
          IF ls[n + 1].type = type THEN ToInt(ls[n + 1].str)
          ELSE LastIn(ls, OfType(ls, type, t + 1, n), m)
    BY LastInGrows
  <2> QED BY <2>1, <1>k, Zenon
<1>3. ASSUME ls[k].type = "EDIT_DISTANCE"
      PROVE  Partial(ls, t, k) = [c EXCEPT !.editDistance = x]
  <2>1. LastIn(ls, OfType(ls, "EDIT_DISTANCE", t + 1, k), m) = x
    BY <1>2, <1>3
  <2>2. LastIn(ls, OfType(ls, "BOOST", t + 1, k), m) = b
    BY <1>2, <1>3, <1>b
  <2>3. Partial(ls, t, k) =
          [fields |-> f, term |-> w, usePipeline |-> u, editDistance |-> x, boost |-> b]
    BY <2>1, <2>2, <1>f, <1>m, <1>u, <1>w, Zenon DEF Partial
  <2>4. [c EXCEPT !.editDistance = x] =
          [fields |-> f, term |-> w, usePipeline |-> u, editDistance |-> x, boost |-> b]
    BY ONLY <1>1
  <2> QED BY <2>3, <2>4
<1>4. ASSUME ls[k].type = "BOOST"
      PROVE  Partial(ls, t, k) = [c EXCEPT !.boost = x]
  <2>1. LastIn(ls, OfType(ls, "EDIT_DISTANCE", t + 1, k), m) = e
    BY <1>2, <1>4, <1>e
  <2>2. LastIn(ls, OfType(ls, "BOOST", t + 1, k), m) = x
    BY <1>2, <1>4
  <2>3. Partial(ls, t, k) =
          [fields |-> f, term |-> w, usePipeline |-> u, editDistance |-> e, boost |-> x]
    BY <2>1, <2>2, <1>f, <1>m, <1>u, <1>w, Zenon DEF Partial
  <2>4. [c EXCEPT !.boost = x] =
          [fields |-> f, term |-> w, usePipeline |-> u, editDistance |-> e, boost |-> x]
    BY ONLY <1>1
  <2> QED BY <2>3, <2>4
<1> QED BY <1>3, <1>4, <1>k, Zenon DEF Modified

-----------------------------------------------------------------------------
(* The steps of the parser.                                                  *)

\* What a step of the parser finds.
LEMMA ParserFacts ==
  ASSUME ParserInv
  PROVE  /\ LexInv /\ lexemes \in Seq(Lexemes) /\ Numbered(lexemes)
         /\ lexemeIdx \in 0..Len(lexemes) /\ Len(lexemes) \in Nat /\ lexemeIdx \in Nat
         /\ clauses \in Seq(Clauses) /\ Boosted(clauses)
         /\ lexemeIdx < Len(lexemes) =>
              /\ lexemeIdx \in 0..Len(lexemes) - 1
              /\ lexemeIdx + 1 \in 1..Len(lexemes)
              /\ lexemeIdx + 1 \in Nat
         /\ NextType = TypeBehind(lexemes, lexemeIdx + 1)
         /\ NoClause = Opened({})
<1>1. LexInv /\ lexemes \in Seq(Lexemes) /\ Numbered(lexemes)
  BY DEF ParserInv, LexInv, LexTypeOK
<1>2. Parsed(lexemes, parseState, lexemeIdx, currentClause, clauses)
  BY DEF ParserInv
<1>3. lexemeIdx \in 0..Len(lexemes) /\ clauses \in Seq(Clauses) /\ Boosted(clauses)
  BY <1>2 DEF Parsed, Boosted
<1>4. Len(lexemes) \in Nat /\ lexemeIdx \in Nat
  BY <1>1, <1>3
<1>5. lexemeIdx < Len(lexemes) =>
        lexemeIdx \in 0..Len(lexemes) - 1 /\ lexemeIdx + 1 \in 1..Len(lexemes) /\ lexemeIdx + 1 \in Nat
  BY <1>3, <1>4
<1>6. NextType = TypeBehind(lexemes, lexemeIdx + 1)
  <2>1. lexemeIdx + 2 = (lexemeIdx + 1) + 1
    BY <1>4
  <2> QED BY <2>1, Zenon DEF NextType, TypeBehind
<1>7. NoClause = Opened({})
  BY Zenon DEF NoClause, Opened
<1> QED BY <1>1, <1>3, <1>4, <1>5, <1>6, <1>7

\* The parser leaves the lexer alone, which is done.
LEMMA ParsedKept ==
  ASSUME ParserInv, UNCHANGED lexer, lexState = "done",
         NEW ls, ls = lexemes, NEW st, st = parseState', NEW n, n = lexemeIdx',
         NEW cur, cur = currentClause', NEW cls, cls = clauses', Parsed(ls, st, n, cur, cls)
  PROVE  ParserInv'
<1>1. /\ str' = str /\ lexState' = lexState /\ pos' = pos /\ start' = start
      /\ escapeCharPositions' = escapeCharPositions /\ lexemes' = lexemes
  BY DEF lexer
<1>2. LexInv'
  <2>1. LexInv
    BY DEF ParserInv
  <2> QED BY <1>1, <2>1 DEF LexInv, LexTypeOK, CutsBehind, AtSign
<1>3. Parsed(lexemes, parseState, lexemeIdx, currentClause, clauses)'
  <2>1. ls = lexemes'
    BY <1>1
  <2> QED BY <2>1, Zenon
<1> QED BY <1>1, <1>2, <1>3 DEF ParserInv

LEMMA ContinueStep ==
  ASSUME ParserInv, UNCHANGED lexer, lexState = "done", lexemeIdx < Len(lexemes),
         lexemeIdx' = lexemeIdx + 1, NEW cur, Continue(cur), NEW t,
         OpenTo(lexemes, cur, clauses, t, lexemeIdx + 1)
  PROVE  ParserInv'
<1>n. PICK n : n = lexemeIdx + 1
  OBVIOUS
<1>l. PICK ls : ls = lexemes
  OBVIOUS
<1>c. PICK cls : cls = clauses
  OBVIOUS
<1>1. PICK st : st = parseState'
  OBVIOUS
<1>2. PICK new : new = currentClause'
  OBVIOUS
<1>3. PICK done : done = clauses'
  OBVIOUS
<1>4. /\ ls \in Seq(Lexemes) /\ Numbered(ls) /\ n \in 1..Len(ls)
      /\ cls \in Seq(Clauses) /\ Boosted(cls)
  BY <1>c, <1>l, <1>n, ParserFacts
<1>5. NextType = TypeBehind(ls, n) /\ NoClause = Opened({})
  BY <1>l, <1>n, ParserFacts
<1>6. Continues(ls, n, cur, cls, st, new, done)
  BY <1>1, <1>2, <1>3, <1>5, <1>c, Zenon DEF Continue, Continues, NextClause
<1>7. OpenTo(ls, cur, cls, t, n)
  BY <1>c, <1>l, <1>n, Zenon
<1>8. Parsed(ls, st, n, new, done)
  BY <1>4, <1>6, <1>7, ContinuesRight
<1>9. n = lexemeIdx'
  BY <1>n
<1> QED BY <1>1, <1>2, <1>3, <1>8, <1>9, <1>l, ParsedKept

\* A lexeme that is out of place ends the parsing with an error.
LEMMA ErrorStep ==
  ASSUME ParserInv, UNCHANGED lexer, lexState = "done", parseState' = "error",
         lexemeIdx' \in 0..Len(lexemes), UNCHANGED clauses,
         NEW i \in 1..Len(lexemes), ~WellFormedAt(lexemes, i)
  PROVE  ParserInv'
<1>l. PICK ls : ls = lexemes
  OBVIOUS
<1>n. PICK n : n = lexemeIdx'
  OBVIOUS
<1>u. PICK cur : cur = currentClause'
  OBVIOUS
<1>c. PICK cls : cls = clauses
  OBVIOUS
<1>s. PICK st : st = "error"
  OBVIOUS
<1>1. n \in 0..Len(ls) /\ cls \in Seq(Clauses) /\ \A k \in 1..Len(cls) : cls[k].boost \in Nat
  BY <1>c, <1>l, <1>n, ParserFacts DEF Boosted
<1>2. ~WellFormedTo(ls, Len(ls))
  BY <1>l DEF WellFormedTo
<1>3. Parsed(ls, st, n, cur, cls)
  BY <1>1, <1>2, <1>s DEF Parsed
<1> QED BY <1>3, <1>c, <1>l, <1>n, <1>s, <1>u, ParsedKept

LEMMA ParseFieldOrTermStep ==
  ASSUME ParserInv, ParseFieldOrTerm
  PROVE  ParserInv'
<1>1. /\ UNCHANGED lexer /\ lexState = "done" /\ parseState = "waiting"
      /\ lexemeIdx' = lexemeIdx /\ currentClause' = currentClause /\ clauses' = clauses
      /\ parseState' = IF ~MoreLexemes THEN "done"
                       ELSE IF Lexeme.type = "FIELD" THEN "parseField"
                       ELSE IF Lexeme.type = "TERM" THEN "parseTerm"
                       ELSE "error"
  BY DEF ParseFieldOrTerm, Parsing
<1>2. lexemeIdx = 0 /\ currentClause = Opened({}) /\ clauses = <<>>
  BY <1>1 DEF ParserInv, Parsed
<1>l. PICK ls : ls = lexemes
  OBVIOUS
<1>c. PICK cls : cls = <<>>
  OBVIOUS
<1>u. PICK cur : cur = currentClause
  OBVIOUS
<1>s. PICK st : st = parseState'
  OBVIOUS
<1>3. /\ ls \in Seq(Lexemes) /\ Len(ls) \in Nat /\ cls \in Seq(Clauses) /\ 0 \in 0..Len(ls)
      /\ \A i \in 1..Len(cls) : cls[i].boost \in Nat
  BY <1>c, <1>l, ParserFacts
<1>4. WellFormedTo(ls, 0) /\ DoneTo(ls, cls, 0)
  <2>1. TermsOf(ls, 0) = {}
    BY DEF TermsOf
  <2>2. Cardinality(TermsOf(ls, 0)) = 0
    BY <2>1, FS_EmptySet
  <2>3. 1..0 = {}
    OBVIOUS
  <2> QED BY <1>c, <2>1, <2>2, <2>3 DEF DoneTo, WellFormedTo
<1>5. CASE Len(ls) = 0
  <2>1. st = "done"
    BY <1>1, <1>2, <1>5, <1>l, <1>s DEF MoreLexemes
  <2>2. Parsed(ls, st, 0, cur, cls)
    BY <1>3, <1>4, <1>5, <2>1 DEF Parsed
  <2> QED BY <1>1, <1>2, <1>c, <1>l, <1>s, <1>u, <2>2, ParsedKept
<1>6. CASE Len(ls) # 0
  <2>0. 0 < Len(ls) /\ 1 \in 1..Len(ls) /\ 0 + 1 = 1
    BY <1>3, <1>6
  <2>1. Lexeme = ls[1] /\ MoreLexemes
    BY <1>2, <1>l, <2>0 DEF Lexeme, MoreLexemes
  <2>2. CASE ls[1].type = "FIELD"
    <3>1. st = "parseField"
      BY <1>1, <1>s, <2>1, <2>2
    <3>2. Parsed(ls, st, 0, cur, cls)
      BY <1>2, <1>3, <1>4, <1>u, <2>0, <2>2, <3>1 DEF Parsed
    <3> QED BY <1>1, <1>2, <1>c, <1>l, <1>s, <1>u, <3>2, ParsedKept
  <2>3. CASE ls[1].type = "TERM"
    <3>1. st = "parseTerm"
      BY <1>1, <1>s, <2>1, <2>3
    <3>2. FieldBefore(ls, 1) = {}
      BY DEF FieldBefore
    <3>3. Parsed(ls, st, 0, cur, cls)
      BY <1>2, <1>3, <1>4, <1>u, <2>0, <2>3, <3>1, <3>2 DEF Parsed
    <3> QED BY <1>1, <1>2, <1>c, <1>l, <1>s, <1>u, <3>3, ParsedKept
  <2>4. CASE ls[1].type \notin {"FIELD", "TERM"}
    <3>1. parseState' = "error"
      BY <1>1, <2>1, <2>4
    <3>2. Modifies(ls[1])
      <4>1. ls[1].type \in LexemeTypes
        BY <1>3, <2>0, LexemeAt
      <4> QED BY <2>4, <4>1 DEF LexemeTypes, Modifies
    <3>3. ~WellFormedAt(ls, 1)
      BY <3>2 DEF WellFormedAt
    <3>4. 1 \in 1..Len(lexemes) /\ ~WellFormedAt(lexemes, 1) /\ lexemeIdx' \in 0..Len(lexemes)
      BY <1>1, <1>2, <1>3, <1>l, <2>0, <3>3
    <3> QED BY <1>1, <3>1, <3>4, ErrorStep
  <2> QED BY <2>2, <2>3, <2>4
<1> QED BY <1>5, <1>6

LEMMA ParseFieldStep ==
  ASSUME ParserInv, ParseField
  PROVE  ParserInv'
<1>1. /\ UNCHANGED lexer /\ lexState = "done" /\ parseState = "parseField"
      /\ lexemeIdx' = lexemeIdx + 1
  BY DEF ParseField, Parsing
<1>l. PICK ls : ls = lexemes
  OBVIOUS
<1>n. PICK n : n = lexemeIdx
  OBVIOUS
<1>c. PICK cls : cls = clauses
  OBVIOUS
<1>2. /\ n < Len(ls) /\ ls[n + 1].type = "FIELD" /\ WellFormedTo(ls, n) /\ DoneTo(ls, cls, n)
      /\ currentClause = Opened({})
  BY <1>1, <1>c, <1>l, <1>n DEF ParserInv, Parsed
<1>3. /\ ls \in Seq(Lexemes) /\ n \in 0..Len(ls) /\ Len(ls) \in Nat /\ n \in Nat
      /\ cls \in Seq(Clauses) /\ n + 1 \in 1..Len(ls) /\ n + 1 \in 0..Len(ls)
      /\ \A i \in 1..Len(cls) : cls[i].boost \in Nat
  <2>1. n + 1 \in 1..Len(ls)
    BY <1>2, <1>l, <1>n, ParserFacts
  <2> QED BY <1>c, <1>l, <1>n, <2>1, ParserFacts DEF Boosted
<1>4. Lexeme = ls[n + 1] /\ NextType = TypeBehind(ls, n + 1)
  BY <1>l, <1>n, ParserFacts DEF Lexeme
<1>5. CASE Lexeme.str \in Fields /\ NextType = "TERM"
  <2>x. PICK x : x = ls[n + 1].str
    OBVIOUS
  <2>1. /\ currentClause' = [Opened({}) EXCEPT !.fields = {x}]
        /\ parseState' = "parseTerm" /\ clauses' = clauses
    BY <1>2, <1>4, <1>5, <2>x DEF ParseField
  <2>2. n + 1 < Len(ls) /\ ls[(n + 1) + 1].type = "TERM"
    BY <1>4, <1>5 DEF TypeBehind
  <2>3. FieldBefore(ls, (n + 1) + 1) = {x}
    <3>1. (n + 1) + 1 > 1 /\ ((n + 1) + 1) - 1 = n + 1
      BY <1>3
    <3> QED BY <1>2, <2>x, <3>1 DEF FieldBefore
  <2>4. [Opened({}) EXCEPT !.fields = {x}] = Opened({x})
    <3>t. PICK t : t = TRUE
      OBVIOUS
    <3>m. PICK m : m = -1
      OBVIOUS
    <3>e. PICK e : e = {}
      OBVIOUS
    <3>f. PICK f : f = {x}
      OBVIOUS
    <3>w. PICK w : w = <<>>
      OBVIOUS
    <3>c. PICK c : c = [fields |-> e, term |-> w, usePipeline |-> t,
                        editDistance |-> m, boost |-> m]
      OBVIOUS
    <3>1. c = Opened({})
      BY <3>c, <3>e, <3>m, <3>t, <3>w, Zenon DEF Opened
    <3>2. [c EXCEPT !.fields = f] = [fields |-> f, term |-> w, usePipeline |-> t,
                                     editDistance |-> m, boost |-> m]
      BY ONLY <3>c
    <3> QED BY <3>1, <3>2, <3>f, <3>m, <3>t, <3>w, Zenon DEF Opened
  <2>5. WellFormedTo(ls, n + 1)
    <3>1. WellFormedAt(ls, n + 1)
      BY <1>2, <1>4, <1>5, <2>2 DEF WellFormedAt, Modifies
    <3> QED BY <1>2, <1>3, <3>1, WellFormedGrows
  <2>6. DoneTo(ls, cls, n + 1)
    <3>1. TermsOf(ls, n + 1) = TermsOf(ls, n)
      <4>1. \A j \in n + 1..n + 1 : ls[j].type # "TERM"
        BY <1>2, <1>3
      <4> QED BY <1>3, <4>1, TermsNone
    <3> QED BY <1>2, <3>1 DEF DoneTo
  <2>u. PICK cur : cur = currentClause'
    OBVIOUS
  <2>s. PICK st : st = "parseTerm"
    OBVIOUS
  <2>m. PICK m : m = n + 1
    OBVIOUS
  <2>7. Parsed(ls, st, m, cur, cls)
    BY <1>3, <2>1, <2>2, <2>3, <2>4, <2>5, <2>6, <2>m, <2>s, <2>u DEF Parsed
  <2> QED BY <1>1, <1>c, <1>l, <1>n, <2>1, <2>7, <2>m, <2>s, <2>u, ParsedKept
<1>6. CASE ~(Lexeme.str \in Fields /\ NextType = "TERM")
  <2>1. parseState' = "error" /\ UNCHANGED clauses
    BY <1>6 DEF ParseField, ParseError
  <2>2. ~WellFormedAt(ls, n + 1)
    BY <1>2, <1>4, <1>6 DEF WellFormedAt, TypeBehind
  <2>3. lexemeIdx' \in 0..Len(lexemes) /\ n + 1 \in 1..Len(lexemes) /\ ~WellFormedAt(lexemes, n + 1)
    BY <1>1, <1>3, <1>l, <1>n, <2>2
  <2> QED BY <1>1, <2>1, <2>3, ErrorStep
<1> QED BY <1>5, <1>6

LEMMA ParseTermStep ==
  ASSUME ParserInv, ParseTerm
  PROVE  ParserInv'
<1>1. /\ UNCHANGED lexer /\ lexState = "done" /\ parseState = "parseTerm"
      /\ lexemeIdx' = lexemeIdx + 1
  BY DEF ParseTerm, Parsing
<1>l. PICK ls : ls = lexemes
  OBVIOUS
<1>n. PICK n : n = lexemeIdx
  OBVIOUS
<1>c. PICK cls : cls = clauses
  OBVIOUS
<1>f. PICK f : f = FieldBefore(ls, n + 1)
  OBVIOUS
<1>2. /\ n < Len(ls) /\ ls[n + 1].type = "TERM" /\ WellFormedTo(ls, n) /\ DoneTo(ls, cls, n)
      /\ currentClause = Opened(f)
  BY <1>1, <1>c, <1>f, <1>l, <1>n DEF ParserInv, Parsed
<1>3. n \in Nat /\ ls \in Seq(Lexemes) /\ n \in 0..Len(ls) - 1 /\ n + 1 \in 1..Len(ls)
  BY <1>2, <1>l, <1>n, ParserFacts
<1>w. PICK w : w = TermAt(ls, n + 1)
  OBVIOUS
<1>u. PICK u : u = Piped(ls, n + 1)
  OBVIOUS
<1>4. Lexeme = ls[n + 1]
  BY <1>l, <1>n DEF Lexeme
<1>5. [i \in DOMAIN Lexeme.str |-> Lower(Lexeme.str[i])] = w
  BY <1>4, <1>w, Zenon DEF TermAt
<1>6. (currentClause.usePipeline /\ ~Contains(Lexeme.str, "*")) = u
  <2>1. currentClause.usePipeline = TRUE
    BY <1>2, Zenon DEF Opened
  <2>2. PICK s \in Seq(Characters) : s = Lexeme.str
    BY <1>3, <1>4, LexemeAt
  <2>3. Contains(s, "*") <=> \E k \in DOMAIN s : s[k] = "*"
    <3>1. DOMAIN s = 1..Len(s)
      OBVIOUS
    <3> QED BY <3>1, Zenon DEF Contains
  <2>4. u <=> ~Contains(s, "*")
    BY <1>4, <1>u, <2>2, <2>3, Zenon DEF Piped
  <2>5. u \in BOOLEAN
    BY <1>u, Zenon DEF Piped
  <2> QED BY <2>1, <2>2, <2>4, <2>5, Zenon
<1>x. PICK cur : cur = [Opened(f) EXCEPT !.term = w, !.usePipeline = u]
  OBVIOUS
<1>7. Continue(cur)
  <2>1. Continue([currentClause EXCEPT
                 !.term = [i \in DOMAIN Lexeme.str |-> Lower(Lexeme.str[i])],
                 !.usePipeline = (currentClause.usePipeline /\ ~Contains(Lexeme.str, "*"))])
    BY Zenon DEF ParseTerm
  <2>2. [currentClause EXCEPT
                 !.term = [i \in DOMAIN Lexeme.str |-> Lower(Lexeme.str[i])],
                 !.usePipeline = (currentClause.usePipeline /\ ~Contains(Lexeme.str, "*"))] = cur
    BY <1>2, <1>5, <1>6, <1>x, Zenon
  <2> QED BY <2>1, <2>2, Zenon
<1>8. cur = Partial(ls, n + 1, n + 1)
  <2>1. cur = [fields |-> f, term |-> w, usePipeline |-> u, editDistance |-> -1, boost |-> -1]
    BY <1>x, OpenedTerm
  <2>2. Partial(ls, n + 1, n + 1) =
          [fields |-> f, term |-> w, usePipeline |-> u, editDistance |-> -1, boost |-> -1]
    BY <1>3, <1>f, <1>u, <1>w, PartialTerm
  <2> QED BY <2>1, <2>2
<1>9. OpenTo(ls, cur, cls, n + 1, n + 1)
  BY <1>2, <1>3, <1>8, TermOpens
<1>10. OpenTo(lexemes, cur, clauses, n + 1, lexemeIdx + 1)
  BY <1>9, <1>c, <1>l, <1>n, Zenon
<1>11. lexemeIdx < Len(lexemes)
  BY <1>2, <1>l, <1>n
<1> QED BY <1>1, <1>7, <1>10, <1>11, ContinueStep

\* A modifier is a number, which its clause gets, or an error.
LEMMA NumberStep ==
  ASSUME ParserInv, UNCHANGED lexer, lexState = "done", lexemeIdx' = lexemeIdx + 1,
         parseState \in {"parseEditDistance", "parseBoost"}, NEW new,
         \A t \in 1..lexemeIdx : OpenTo(lexemes, currentClause, clauses, t, lexemeIdx) =>
                                   new = Partial(lexemes, t, lexemeIdx + 1),
         IF Lexeme.str = <<>> THEN ParseError ELSE Continue(new)
  PROVE  ParserInv'
<1>l. PICK ls : ls = lexemes
  OBVIOUS
<1>n. PICK n : n = lexemeIdx
  OBVIOUS
<1>c. PICK cls : cls = clauses
  OBVIOUS
<1>u. PICK cur : cur = currentClause
  OBVIOUS
<1>1. /\ n < Len(ls) /\ ls[n + 1].type = IF parseState = "parseBoost" THEN "BOOST" ELSE "EDIT_DISTANCE"
      /\ \E t \in 1..n : OpenTo(ls, cur, cls, t, n)
  BY <1>c, <1>l, <1>n, <1>u DEF ParserInv, Parsed
<1>2. /\ n \in Nat /\ ls \in Seq(Lexemes) /\ n \in 0..Len(ls) - 1 /\ n + 1 \in 1..Len(ls)
      /\ Len(ls) \in Nat
  BY <1>1, <1>l, <1>n, ParserFacts
<1>3. Lexeme = ls[n + 1] /\ Modifies(ls[n + 1])
  BY <1>1, <1>l, <1>n DEF Lexeme, Modifies
<1>4. PICK t \in 1..n : OpenTo(ls, cur, cls, t, n)
  BY <1>1
<1>5. new = Partial(ls, t, n + 1)
  <2>1. t \in 1..lexemeIdx /\ OpenTo(lexemes, currentClause, clauses, t, lexemeIdx)
    BY <1>4, <1>c, <1>l, <1>n, <1>u, Zenon
  <2>2. new = Partial(lexemes, t, lexemeIdx + 1)
    BY <2>1, Zenon
  <2> QED BY <2>2, <1>l, <1>n, Zenon
<1>6. CASE Lexeme.str = <<>>
  <2>1. parseState' = "error" /\ UNCHANGED clauses
    BY <1>6 DEF ParseError
  <2>2. ~WellFormedAt(ls, n + 1)
    BY <1>3, <1>6 DEF WellFormedAt
  <2>3. lexemeIdx' \in 0..Len(lexemes) /\ n + 1 \in 1..Len(lexemes) /\ ~WellFormedAt(lexemes, n + 1)
    BY <1>2, <1>l, <1>n, <2>2
  <2> QED BY <2>1, <2>3, ErrorStep
<1>7. CASE Lexeme.str # <<>>
  <2>1. Continue(new)
    BY <1>7
  <2>2. ls[n + 1].str # <<>>
    BY <1>3, <1>7
  <2>3. OpenTo(ls, new, cls, t, n + 1)
    BY <1>2, <1>3, <1>4, <1>5, <2>2, ModifierStep
  <2>4. OpenTo(lexemes, new, clauses, t, lexemeIdx + 1) /\ lexemeIdx < Len(lexemes)
    BY <1>1, <1>c, <1>l, <1>n, <2>3
  <2> QED BY <2>1, <2>4, ContinueStep
<1> QED BY <1>6, <1>7

LEMMA ParseEditDistanceStep ==
  ASSUME ParserInv, ParseEditDistance
  PROVE  ParserInv'
<1>1. /\ UNCHANGED lexer /\ lexState = "done" /\ parseState = "parseEditDistance"
      /\ lexemeIdx' = lexemeIdx + 1
  BY DEF ParseEditDistance, Parsing
<1>x. PICK x : x = ToInt(Lexeme.str)
  OBVIOUS
<1>w. PICK new : new = [currentClause EXCEPT !.editDistance = x]
  OBVIOUS
<1>2. IF Lexeme.str = <<>> THEN ParseError ELSE Continue(new)
  BY <1>w, <1>x, Zenon DEF ParseEditDistance
<1>3. lexemeIdx \in Nat /\ lexemes[lexemeIdx + 1].type = "EDIT_DISTANCE"
  BY <1>1, ParserFacts DEF ParserInv, Parsed
<1>4. ASSUME NEW t \in 1..lexemeIdx, OpenTo(lexemes, currentClause, clauses, t, lexemeIdx)
      PROVE  new = Partial(lexemes, t, lexemeIdx + 1)
  <2>1. t \in Nat /\ t <= lexemeIdx
    BY <1>3
  <2>2. x = ToInt(lexemes[lexemeIdx + 1].str)
    BY <1>x, Zenon DEF Lexeme
  <2>3. currentClause = Partial(lexemes, t, lexemeIdx)
    BY <1>4 DEF OpenTo
  <2>l. PICK ls : ls = lexemes
    OBVIOUS
  <2>n. PICK n \in Nat : n = lexemeIdx
    BY <1>3
  <2>c. PICK c : c = currentClause
    OBVIOUS
  <2>4. /\ t <= n /\ x = ToInt(ls[n + 1].str) /\ c = Partial(ls, t, n)
        /\ ls[n + 1].type = "EDIT_DISTANCE"
    BY <1>3, <2>1, <2>2, <2>3, <2>c, <2>l, <2>n, Zenon
  <2>5. Partial(ls, t, n + 1) = [c EXCEPT !.editDistance = x]
    <3>1. Modified(ls, t, n, c, x)
      BY <2>1, <2>4, PartialModifier
    <3> QED BY <2>4, <3>1, Zenon DEF Modified
  <2> QED BY <1>w, <2>5, <2>c, <2>l, <2>n, Zenon
<1> QED BY <1>1, <1>2, <1>4, NumberStep

LEMMA ParseBoostStep ==
  ASSUME ParserInv, ParseBoost
  PROVE  ParserInv'
<1>1. /\ UNCHANGED lexer /\ lexState = "done" /\ parseState = "parseBoost"
      /\ lexemeIdx' = lexemeIdx + 1
  BY DEF ParseBoost, Parsing
<1>x. PICK x : x = ToInt(Lexeme.str)
  OBVIOUS
<1>w. PICK new : new = [currentClause EXCEPT !.boost = x]
  OBVIOUS
<1>2. IF Lexeme.str = <<>> THEN ParseError ELSE Continue(new)
  BY <1>w, <1>x, Zenon DEF ParseBoost
<1>3. lexemeIdx \in Nat /\ lexemes[lexemeIdx + 1].type = "BOOST"
  BY <1>1, ParserFacts DEF ParserInv, Parsed
<1>4. ASSUME NEW t \in 1..lexemeIdx, OpenTo(lexemes, currentClause, clauses, t, lexemeIdx)
      PROVE  new = Partial(lexemes, t, lexemeIdx + 1)
  <2>1. t \in Nat /\ t <= lexemeIdx
    BY <1>3
  <2>2. x = ToInt(lexemes[lexemeIdx + 1].str)
    BY <1>x, Zenon DEF Lexeme
  <2>3. currentClause = Partial(lexemes, t, lexemeIdx)
    BY <1>4 DEF OpenTo
  <2>l. PICK ls : ls = lexemes
    OBVIOUS
  <2>n. PICK n \in Nat : n = lexemeIdx
    BY <1>3
  <2>c. PICK c : c = currentClause
    OBVIOUS
  <2>4. /\ t <= n /\ x = ToInt(ls[n + 1].str) /\ c = Partial(ls, t, n)
        /\ ls[n + 1].type = "BOOST"
    BY <1>3, <2>1, <2>2, <2>3, <2>c, <2>l, <2>n, Zenon
  <2>5. Partial(ls, t, n + 1) = [c EXCEPT !.boost = x]
    <3>1. Modified(ls, t, n, c, x)
      BY <2>1, <2>4, PartialModifier
    <3> QED BY <2>4, <3>1, Zenon DEF Modified
  <2> QED BY <1>w, <2>5, <2>c, <2>l, <2>n, Zenon
<1> QED BY <1>1, <1>2, <1>4, NumberStep

LEMMA ParseStep ==
  ASSUME ParserInv, ParseNext
  PROVE  ParserInv'
BY ParseFieldOrTermStep, ParseFieldStep, ParseTermStep, ParseEditDistanceStep, ParseBoostStep
   DEF ParseNext

\* While the lexer runs, the parser waits for it.
LEMMA LexStepParser ==
  ASSUME ParserInv, LexNext
  PROVE  ParserInv'
<1>1. LexInv'
  BY LexStep DEF ParserInv
<1>2. UNCHANGED parser /\ lexState # "done"
  BY DEF LexNext, LexEscape, LexField, LexModifier, LexTerm, LexChar, LexEOS, LexEditDistance,
         LexBoost, LexNumber, Lexing
<1>3. /\ parseState' = "waiting" /\ lexemeIdx' = 0 /\ currentClause' = Opened({})
      /\ clauses' = <<>>
  BY <1>2 DEF ParserInv, Parsed, parser
<1>l. PICK ls : ls = lexemes'
  OBVIOUS
<1>u. PICK cur : cur = currentClause'
  OBVIOUS
<1>s. PICK st : st = "waiting"
  OBVIOUS
<1>4. Parsed(ls, st, 0, cur, <<>>)
  <2>1. ls \in Seq(Lexemes)
    BY <1>1, <1>l DEF LexInv, LexTypeOK
  <2>2. 0 \in 0..Len(ls) /\ <<>> \in Seq(Clauses) /\ \A i \in 1..Len(<<>>) : <<>>[i].boost \in Nat
    BY <2>1
  <2> QED BY <1>3, <1>s, <1>u, <2>2 DEF Parsed
<1>5. Parsed(lexemes, parseState, lexemeIdx, currentClause, clauses)'
  BY <1>3, <1>4, <1>l, <1>s, <1>u, Zenon
<1> QED BY <1>1, <1>3, <1>5 DEF ParserInv

LEMMA ParsedNone ==
  ASSUME NEW cur, cur = NoClause, NEW st, st = "waiting"
  PROVE  Parsed(<<>>, st, 0, cur, <<>>)
<1>1. 0 \in 0..Len(<<>>) /\ <<>> \in Seq(Clauses) /\ \A i \in 1..Len(<<>>) : <<>>[i].boost \in Nat
  OBVIOUS
<1>2. cur = Opened({})
  BY Zenon DEF NoClause, Opened
<1> QED BY <1>1, <1>2 DEF Parsed

LEMMA NewParserStep ==
  ASSUME NEW s \in Seq(Characters), NewParser(s)
  PROVE  ParserInv'
<1>1. LexInv'
  BY NewParserLex
<1>2. /\ lexemes' = <<>> /\ parseState' = "waiting" /\ lexemeIdx' = 0
      /\ currentClause' = NoClause /\ clauses' = <<>>
  BY DEF NewParser
<1>u. PICK cur : cur = currentClause'
  OBVIOUS
<1>s. PICK st : st = "waiting"
  OBVIOUS
<1>3. Parsed(<<>>, st, 0, cur, <<>>)
  BY <1>2, <1>s, <1>u, ParsedNone
<1>4. Parsed(lexemes, parseState, lexemeIdx, currentClause, clauses)'
  BY <1>2, <1>3, <1>s, <1>u, Zenon
<1> QED BY <1>1, <1>2, <1>4 DEF ParserInv

LEMMA ParserBegins ==
  ASSUME ParserInit
  PROVE  ParserInv
<1>1. /\ str = <<>> /\ lexState = "lexText" /\ pos = 0 /\ start = 0
      /\ escapeCharPositions = <<>> /\ lexemes = <<>> /\ parseState = "waiting" /\ lexemeIdx = 0
      /\ currentClause = NoClause /\ clauses = <<>>
  BY DEF ParserInit
<1>2. LexTypeOK /\ CutsBehind /\ AtSign
  <2>1. /\ <<>> \in Seq(Nat) /\ <<>> \in Seq(Lexemes) /\ <<>> \in Seq(Characters)
        /\ 0 \in 0..Len(<<>>) + 1 /\ 0 \in 0..0 /\ Len(<<>>) \in Nat
    OBVIOUS
  <2>2. LastStart(<<>>, 0) = 0 /\ Numbered(<<>>)
    BY <2>1, LexBegins
  <2> QED BY <1>1, <2>1, <2>2 DEF LexTypeOK, CutsBehind, AtSign
<1>3. LexInv
  <2>1. <<>> \in Seq(Characters)
    OBVIOUS
  <2> QED BY <1>1, <1>2, <2>1, LexBegins DEF LexInv
<1>u. PICK cur : cur = currentClause
  OBVIOUS
<1>s. PICK st : st = "waiting"
  OBVIOUS
<1>4. Parsed(<<>>, st, 0, cur, <<>>)
  BY <1>1, <1>s, <1>u, ParsedNone
<1>5. Parsed(lexemes, parseState, lexemeIdx, currentClause, clauses)
  BY <1>1, <1>4, <1>s, <1>u, Zenon
<1> QED BY <1>1, <1>3, <1>5 DEF ParserInv

LEMMA ParserKept ==
  ASSUME ParserInv, UNCHANGED <<lexer, parser>>
  PROVE  ParserInv'
<1>1. /\ str' = str /\ lexState' = lexState /\ pos' = pos /\ start' = start
      /\ escapeCharPositions' = escapeCharPositions /\ lexemes' = lexemes
  BY DEF lexer
<1>2. /\ parseState' = parseState /\ lexemeIdx' = lexemeIdx /\ currentClause' = currentClause
      /\ clauses' = clauses
  BY DEF parser
<1>3. LexInv'
  BY <1>1 DEF ParserInv, LexInv, LexTypeOK, CutsBehind, AtSign
<1>4. Parsed(lexemes, parseState, lexemeIdx, currentClause, clauses)'
  <2>1. Parsed(lexemes, parseState, lexemeIdx, currentClause, clauses)
    BY DEF ParserInv
  <2> QED BY <1>1, <1>2, <2>1, Zenon
<1> QED BY <1>1, <1>2, <1>3, <1>4 DEF ParserInv

\* Of the index, only a query has to do with the parser.
LEMMA IndexStepParser ==
  ASSUME Next
  PROVE  \/ \E q \in Seq(Characters) : NewParser(q)
         \/ LexNext
         \/ ParseNext
         \/ UNCHANGED <<lexer, parser>>
<1>1. CASE Search
  <2>1. Queries \subseteq Seq(Characters)
    BY LunrAssumption DEF Characters
  <2> QED BY <1>1, <2>1 DEF Search
<1>2. CASE Return
  <2>1. NewParser(<<>>) /\ <<>> \in Seq(Characters)
    BY <1>2 DEF Return
  <2> QED BY <2>1
<1>3. CASE Parse
  BY <1>3 DEF Parse
<1>4. CASE Add \/ Build \/ CreateFieldVectors \/ VectorsDone
  BY <1>4, Zenon DEF Add, Build, CreateFieldVectors, VectorsDone
<1>5. CASE ParseFails \/ UpsertTerm
  BY <1>5, Zenon DEF ParseFails, UpsertTerm
<1>6. CASE CreateTokenSet
  <2>1. UNCHANGED <<index, clauseIdx, matchingFields, results, vector, lexer, parser>>
    BY <1>6, Zenon DEF CreateTokenSet
  <2> QED BY <2>1, Zenon
<1>7. CASE QueryClause
  <2>1. UNCHANGED <<index, results, vector, builder, lexer, parser>>
    BY <1>7, Zenon DEF QueryClause
  <2> QED BY <2>1, Zenon
<1>8. CASE Score \/ VectorStep
  BY <1>8, Zenon DEF Score, VectorStep
<1> QED BY <1>1, <1>2, <1>3, <1>4, <1>5, <1>6, <1>7, <1>8 DEF Next

\* Of every query, whatever its characters and whatever is asked before it: all
\* of it is in lexemes when the lexer is done (LexemesComplete), the parser
\* accepts it if and only if it is well formed, and its clauses are those of its
\* terms, each with the field and the modifiers beside it (ClausesRight).
THEOREM QueryAlwaysParsedRight == Spec => []ParsedRight
<1>1. Init => ParserInv
  BY ParserBegins DEF Init
<1>2. ParserInv /\ [Next]_vars => ParserInv'
  <2> SUFFICES ASSUME ParserInv, [Next]_vars PROVE ParserInv'
    OBVIOUS
  <2>1. CASE Next
    BY <2>1, IndexStepParser, NewParserStep, LexStepParser, ParseStep, ParserKept
  <2>2. CASE UNCHANGED vars
    BY <2>2, ParserKept DEF vars
  <2> QED BY <2>1, <2>2
<1>3. ParserInv => ParsedRight
  BY ParsedIsRight
<1> QED BY <1>1, <1>2, <1>3, PTL DEF Spec

-----------------------------------------------------------------------------
(* The vectors of the search index.                                          *)

VectorInv == VectorTypeOK /\ VectorSorted /\ SearchBounded

\* What Array.splice leaves where.
LEMMA SpliceFacts ==
  ASSUME NEW s \in Seq(Pairs), NEW p \in 0..Len(s), NEW e \in Pairs
  PROVE  /\ Splice(s, p, e) \in Seq(Pairs)
         /\ Len(Splice(s, p, e)) = Len(s) + 1
         /\ \A i \in 1..Len(s) + 1 :
              Splice(s, p, e)[i] = IF i <= p THEN s[i] ELSE IF i = p + 1 THEN e ELSE s[i - 1]
<1> DEFINE a == SubSeq(s, 1, p)
           b == SubSeq(s, p + 1, Len(s))
<1>1. /\ a \in Seq(Pairs) /\ Len(a) = p
      /\ \A i \in 1..p : a[i] = s[i]
  OBVIOUS
<1>2. /\ b \in Seq(Pairs) /\ Len(b) = Len(s) - p
      /\ \A i \in 1..Len(s) - p : b[i] = s[p + i]
  OBVIOUS
<1>3. /\ a \o <<e>> \in Seq(Pairs) /\ Len(a \o <<e>>) = p + 1
      /\ \A i \in 1..p + 1 : (a \o <<e>>)[i] = IF i <= p THEN s[i] ELSE e
  <2> HIDE DEF a
  <2>1. <<e>> \in Seq(Pairs) /\ Len(<<e>>) = 1 /\ <<e>>[1] = e
    OBVIOUS
  <2> QED BY <1>1, <2>1
<1> DEFINE c == a \o <<e>>
<1>4. /\ c \in Seq(Pairs) /\ Len(c) = p + 1
      /\ \A i \in 1..p + 1 : c[i] = IF i <= p THEN s[i] ELSE e
  BY <1>3
<1> HIDE DEF a, b, c
<1>5. /\ c \o b \in Seq(Pairs) /\ Len(c \o b) = Len(s) + 1
      /\ \A i \in 1..Len(s) + 1 :
           (c \o b)[i] = IF i <= p + 1 THEN c[i] ELSE b[i - (p + 1)]
  <2>1. Len(c) + Len(b) = Len(s) + 1 /\ Len(c) = p + 1
    BY <1>2, <1>4
  <2>2. c \in Seq(Pairs) /\ b \in Seq(Pairs)
    BY <1>2, <1>4
  <2>3. /\ c \o b \in Seq(Pairs) /\ Len(c \o b) = Len(c) + Len(b)
        /\ \A i \in 1..Len(c) + Len(b) :
             (c \o b)[i] = IF i <= Len(c) THEN c[i] ELSE b[i - Len(c)]
    BY ONLY <2>2, ConcatProperties
  <2> QED BY ONLY <2>1, <2>3
<1>6. Splice(s, p, e) = c \o b
  BY DEF Splice, a, b, c
<1>7. Len(s) \in Nat /\ p \in Nat
  OBVIOUS
<1>8. ASSUME NEW i \in 1..Len(s) + 1
      PROVE  (c \o b)[i] = IF i <= p THEN s[i] ELSE IF i = p + 1 THEN e ELSE s[i - 1]
  <2>1. CASE i <= p + 1
    BY <2>1, <1>7, <1>4, <1>5
  <2>2. CASE i > p + 1
    <3>1. i - (p + 1) \in 1..Len(s) - p
      BY <2>2
    <3>2. b[i - (p + 1)] = s[p + (i - (p + 1))]
      BY <3>1, <1>2
    <3>3. p + (i - (p + 1)) = i - 1
      OBVIOUS
    <3> QED BY <2>2, <3>2, <3>3, <1>5
  <2>3. i \in Nat
    BY <1>7
  <2>4. i <= p + 1 \/ i > p + 1
    BY <1>7, <2>3
  <2> QED BY <2>1, <2>2, <2>4
<1> QED BY <1>5, <1>6, <1>8

\* A pair that is put where the smaller indices end leaves the order alone.
LEMMA SpliceIncreasing ==
  ASSUME NEW s \in Seq(Pairs), Increasing(s), NEW p \in 0..Len(s), NEW e \in Pairs,
         p > 0 => s[p].index < e.index,
         p < Len(s) => e.index < s[p + 1].index
  PROVE  Increasing(Splice(s, p, e))
<1> DEFINE t == Splice(s, p, e)
<1>0. Len(s) \in Nat /\ p \in Nat
  OBVIOUS
<1>1. /\ Len(t) = Len(s) + 1
      /\ \A i \in 1..Len(s) + 1 :
           t[i] = IF i <= p THEN s[i] ELSE IF i = p + 1 THEN e ELSE s[i - 1]
  BY SpliceFacts
<1> HIDE DEF t
<1>2. e.index \in Nat /\ \A i \in 1..Len(s) : s[i].index \in Nat
  <2>1. \A i \in 1..Len(s) : s[i] \in Pairs
    OBVIOUS
  <2> QED BY <2>1 DEF Pairs
<1>3. ASSUME NEW i \in 1..p
      PROVE  s[i].index < e.index
  <2>1. p \in 1..Len(s) /\ i \in 1..Len(s) /\ s[p].index < e.index
    BY <1>0
  <2>2. i = p \/ s[i].index < s[p].index
    BY <1>0, <2>1 DEF Increasing
  <2> QED BY <1>2, <2>1, <2>2
<1>4. ASSUME NEW i \in p + 1..Len(s)
      PROVE  e.index < s[i].index
  <2>1. p + 1 \in 1..Len(s) /\ i \in 1..Len(s) /\ e.index < s[p + 1].index
    BY <1>0
  <2>2. i = p + 1 \/ s[p + 1].index < s[i].index
    BY <1>0, <2>1 DEF Increasing
  <2> QED BY <1>2, <2>1, <2>2
<1>5. SUFFICES ASSUME NEW i \in 1..Len(s) + 1, NEW j \in 1..Len(s) + 1, i < j
               PROVE  t[i].index < t[j].index
  BY <1>1 DEF t, Increasing
<1>6. CASE j <= p
  BY <1>1, <1>5, <1>6 DEF Increasing
<1>7. CASE j = p + 1
  BY <1>1, <1>3, <1>5, <1>7
<1>8. CASE j > p + 1
  <2>1. t[j] = s[j - 1] /\ j - 1 \in p + 1..Len(s)
    BY <1>1, <1>8
  <2>2. CASE i <= p
    <3>1. t[i] = s[i] /\ i \in 1..p /\ i \in 1..Len(s)
      BY <1>0, <1>1, <2>2
    <3>2. s[i].index < e.index /\ e.index < s[j - 1].index /\ j - 1 \in 1..Len(s)
      BY <1>0, <1>3, <1>4, <2>1, <3>1
    <3> QED BY <1>2, <2>1, <3>1, <3>2
  <2>3. CASE i = p + 1
    BY <1>1, <1>4, <2>1, <2>3
  <2>4. CASE i > p + 1
    <3>1. t[i] = s[i - 1] /\ i - 1 \in 1..Len(s) /\ i - 1 < j - 1
      BY <1>1, <1>5, <2>1, <2>4
    <3> QED BY <2>1, <3>1 DEF Increasing
  <2> QED BY <2>2, <2>3, <2>4
<1> QED BY <1>6, <1>7, <1>8

\* The vector that is changed and what is looked for in it.
LEMMA SearchFacts ==
  ASSUME VectorTypeOK
  PROVE  /\ elements[vec] \in Seq(Pairs) /\ Len(elements[vec]) \in Nat
         /\ insertIdx \in Nat /\ sliceStart \in Nat /\ sliceEnd \in Nat
<1>1. elements[vec] \in Seq(Pairs)
  BY DEF VectorTypeOK
<1>2. \A s \in Seq(Pairs) : Len(s) \in Nat
  OBVIOUS
<1>3. insertIdx \in Nat /\ sliceStart \in Nat /\ sliceEnd \in Nat
  BY DEF VectorTypeOK
<1> QED BY <1>1, <1>2, <1>3

LEMMA VectorInitially == VectorInit => VectorInv
<1> SUFFICES ASSUME VectorInit PROVE VectorInv
  OBVIOUS
<1>1. VectorTypeOK
  BY DEF VectorInit, VectorTypeOK
<1>2. VectorSorted
  BY DEF VectorInit, VectorSorted, Increasing
<1>3. SearchBounded
  BY DEF VectorInit, SearchBounded, InSearch
<1> QED BY <1>1, <1>2, <1>3 DEF VectorInv

\* The start of a search: its bounds are those of the vector.
LEMMA StartStep ==
  ASSUME VectorInv, NEW kind \in {"insert", "upsert"}, NEW v \in Vectors, NEW i \in Nat,
         NEW x \in Nat, PositionForIndex(kind, v, i, x)
  PROVE  VectorInv'
<1>1. elements[v] \in Seq(Pairs) /\ Len(elements[v]) \in Nat
  <2>1. elements[v] \in Seq(Pairs)
    BY DEF VectorInv, VectorTypeOK
  <2>2. \A s \in Seq(Pairs) : Len(s) \in Nat
    OBVIOUS
  <2> QED BY <2>1, <2>2
<1>2. VectorTypeOK'
  <2>1. Len(elements[v]) \div 2 \in Nat
    <3>1. \A d \in Nat : d \div 2 \in Nat
      OBVIOUS
    <3> QED BY <1>1, <3>1
  <2> QED BY <1>1, <2>1 DEF VectorInv, VectorTypeOK, PositionForIndex
<1>3. VectorSorted'
  BY DEF VectorInv, VectorSorted, PositionForIndex
<1>4. elements[v] # <<>> => Len(elements[v]) > 0
  BY <1>1
<1>5. SearchBounded'
  BY <1>1, <1>4 DEF PositionForIndex, SearchBounded, InSearch
<1> QED BY <1>2, <1>3, <1>5 DEF VectorInv

LEMMA ProbeStep ==
  ASSUME VectorInv, Probe
  PROVE  VectorInv'
<1> DEFINE s == elements[vec]
<1>1. /\ s \in Seq(Pairs) /\ Len(s) \in Nat /\ insertIdx \in Nat
      /\ sliceStart \in Nat /\ sliceEnd \in Nat
  BY SearchFacts DEF VectorInv
<1>2. /\ sliceEnd <= Len(s) /\ sliceEnd - sliceStart > 1
      /\ pivotPoint = sliceStart + (sliceEnd - sliceStart) \div 2
      /\ sliceStart > 0 => s[sliceStart + 1].index < insertIdx
      /\ sliceEnd < Len(s) => insertIdx < s[sliceEnd + 1].index
  BY DEF VectorInv, SearchBounded, Probe, Looking, InSearch
<1>3. pivotPoint \in Nat /\ sliceStart < pivotPoint /\ pivotPoint < sliceEnd
  BY <1>1, <1>2
<1>4. s[pivotPoint + 1].index \in Nat /\ s[pivotPoint + 1].index # insertIdx
  <2>1. pivotPoint + 1 \in 1..Len(s)
    BY <1>1, <1>2, <1>3
  <2>2. s[pivotPoint + 1] \in Pairs
    BY <1>1, <2>1
  <2> QED BY <2>2 DEF Probe, Looking, PivotIndex, Pairs
<1>5. \/ /\ s[pivotPoint + 1].index < insertIdx
         /\ sliceStart' = pivotPoint /\ sliceEnd' = sliceEnd
      \/ /\ insertIdx < s[pivotPoint + 1].index
         /\ sliceStart' = sliceStart /\ sliceEnd' = pivotPoint
  BY <1>1, <1>4 DEF Probe, PivotIndex
<1>6. /\ pivotPoint' = sliceStart' + (sliceEnd' - sliceStart') \div 2
      /\ UNCHANGED <<elements, searching, vec, insertIdx, val>>
  BY DEF Probe
<1>7. /\ sliceStart' \in Nat /\ sliceEnd' \in Nat /\ sliceStart' < sliceEnd'
      /\ sliceEnd' <= Len(s)
  BY <1>1, <1>2, <1>3, <1>5
<1>8. pivotPoint' \in Nat
  <2>1. ASSUME NEW a \in Nat, NEW b \in Nat, a < b
        PROVE  a + (b - a) \div 2 \in Nat
    BY <2>1
  <2>2. sliceStart' + (sliceEnd' - sliceStart') \div 2 \in Nat
    BY <1>7, <2>1
  <2> QED BY <1>6, <2>2
<1>9. VectorTypeOK'
  BY <1>6, <1>7, <1>8 DEF VectorInv, VectorTypeOK
<1>10. VectorSorted'
  BY <1>6 DEF VectorInv, VectorSorted
<1>11. /\ sliceStart' > 0 => s[sliceStart' + 1].index < insertIdx
       /\ sliceEnd' < Len(s) => insertIdx < s[sliceEnd' + 1].index
  BY <1>2, <1>5
<1>12. SearchBounded'
  <2> s' = s
    BY <1>6
  <2> HIDE DEF s
  <2> QED BY <1>6, <1>7, <1>11 DEF SearchBounded, s
<1> QED BY <1>9, <1>10, <1>12 DEF VectorInv

\* Where the loop ends: the smaller indices are before the place that
\* positionForIndex returns, the greater ones behind it.
LEMMA PositionFound ==
  ASSUME VectorInv, InSearch, ~Looking
  PROVE  LET s == elements[vec] IN
         /\ Position \in 0..Len(s)
         /\ ~Hit => /\ Position > 0 => s[Position].index < insertIdx
                    /\ Position < Len(s) => insertIdx < s[Position + 1].index
<1> DEFINE s == elements[vec]
<1>1. /\ s \in Seq(Pairs) /\ Len(s) \in Nat /\ insertIdx \in Nat
      /\ sliceStart \in Nat /\ sliceEnd \in Nat
  BY SearchFacts DEF VectorInv
<1>2. CASE s = <<>>
  BY <1>2 DEF Position
<1>3. CASE s # <<>>
  <2>1. /\ sliceStart < sliceEnd /\ sliceEnd <= Len(s)
        /\ pivotPoint = sliceStart + (sliceEnd - sliceStart) \div 2
        /\ sliceStart > 0 => s[sliceStart + 1].index < insertIdx
        /\ sliceEnd < Len(s) => insertIdx < s[sliceEnd + 1].index
    BY <1>3 DEF VectorInv, SearchBounded
  <2>2. pivotPoint \in Nat /\ pivotPoint < Len(s)
    BY <1>1, <2>1
  <2>3. s[pivotPoint + 1].index \in Nat
    <3>1. pivotPoint + 1 \in 1..Len(s)
      BY <1>1, <2>2
    <3>2. s[pivotPoint + 1] \in Pairs
      BY <1>1, <3>1
    <3> QED BY <3>2 DEF Pairs
  <2>4. Position = IF s[pivotPoint + 1].index < insertIdx THEN pivotPoint + 1 ELSE pivotPoint
    BY <1>3 DEF Position, PivotIndex
  <2>5. CASE s[pivotPoint + 1].index = insertIdx
    BY <1>1, <2>2, <2>4, <2>5 DEF Hit
  <2>6. CASE s[pivotPoint + 1].index # insertIdx
    <3>1. sliceEnd = sliceStart + 1 /\ pivotPoint = sliceStart
      BY <1>1, <2>1, <2>6 DEF Looking, PivotIndex
    <3>2. CASE s[pivotPoint + 1].index < insertIdx
      BY <1>1, <2>1, <2>2, <2>4, <3>1, <3>2
    <3>3. CASE insertIdx < s[pivotPoint + 1].index
      <4>1. sliceStart = 0
        <5> SUFFICES ASSUME sliceStart > 0 PROVE FALSE
          BY <1>1
        <5>1. s[pivotPoint + 1].index < insertIdx
          BY <2>1, <3>1
        <5> HIDE DEF s
        <5> QED BY <1>1, <2>3, <3>3, <5>1
      <4> QED BY <1>1, <2>2, <2>3, <2>4, <3>1, <3>3, <4>1
    <3> QED BY <1>1, <2>3, <2>6, <3>2, <3>3
  <2> QED BY <2>5, <2>6
<1> QED BY <1>2, <1>3

LEMMA PlaceStep ==
  ASSUME VectorInv, Place
  PROVE  VectorInv'
<1> DEFINE s == elements[vec]
           e == [index |-> insertIdx, val |-> val]
<1>1. /\ elements \in [Vectors -> Seq(Pairs)] /\ vec \in Vectors /\ s \in Seq(Pairs)
      /\ insertIdx \in Nat /\ val \in Nat /\ Increasing(s)
  BY DEF VectorInv, VectorTypeOK, VectorSorted
<1>2. /\ Position \in 0..Len(s)
      /\ ~Hit => /\ Position > 0 => s[Position].index < insertIdx
                 /\ Position < Len(s) => insertIdx < s[Position + 1].index
  BY PositionFound DEF Place
<1>3. /\ insertIdx' = 0 /\ val' = 0 /\ sliceStart' = 0 /\ sliceEnd' = 0 /\ pivotPoint' = 0
      /\ vec' = vec
  BY DEF Place
<1>4. ASSUME NEW t \in Seq(Pairs), Increasing(t), searching' \in {"no", "duplicate index"},
             elements' = [elements EXCEPT ![vec] = t]
      PROVE  VectorInv'
  <2>1. elements' \in [Vectors -> Seq(Pairs)]
    BY <1>1, <1>4
  <2>2. VectorTypeOK'
    BY <1>1, <1>3, <1>4, <2>1 DEF VectorTypeOK
  <2>3. \A v \in Vectors : elements'[v] = IF v = vec THEN t ELSE elements[v]
    BY <1>1, <1>4
  <2>4. VectorSorted'
    <3>1. \A v \in Vectors : Increasing(elements[v])
      BY DEF VectorInv, VectorSorted
    <3>2. \A v \in Vectors : Increasing(elements'[v])
      BY <1>4, <2>3, <3>1
    <3> QED BY <3>2 DEF VectorSorted
  <2>5. SearchBounded'
    BY <1>4 DEF SearchBounded, InSearch
  <2> QED BY <2>2, <2>4, <2>5 DEF VectorInv
<1>5. CASE Hit /\ Combine /\ searching = "insert"
  <2>1. elements' = [elements EXCEPT ![vec] = s] /\ searching' = "duplicate index"
    BY <1>1, <1>5 DEF Combine
  <2> QED BY <1>1, <1>4, <2>1
<1>6. CASE Hit /\ Combine /\ searching # "insert"
  <2> DEFINE t == [s EXCEPT ![Position + 1].val = @ + val]
  <2>1. Position + 1 \in 1..Len(s) /\ Position + 1 \in DOMAIN s
    BY <1>1, <1>2, <1>6 DEF Hit
  <2>2. s[Position + 1] \in Pairs
    BY <1>1, <2>1
  <2>3. [s[Position + 1] EXCEPT !.val = @ + val] \in Pairs
    <3>1. \A r \in Pairs : r.val + val \in Nat
      BY <1>1 DEF Pairs
    <3>2. \A r \in Pairs, x \in Nat : [r EXCEPT !.val = x] \in Pairs
      BY DEF Pairs
    <3> QED BY <2>2, <3>1, <3>2
  <2>4. t \in Seq(Pairs) /\ Len(t) = Len(s)
    BY <1>1, <2>1, <2>3
  <2>5. \A i \in 1..Len(s) : t[i].index = s[i].index
    BY <1>1, <2>1, <2>2 DEF Pairs
  <2>6. Increasing(t)
    <3> HIDE DEF t
    <3> QED BY <1>1, <2>4, <2>5 DEF Increasing
  <2>7. elements' = [elements EXCEPT ![vec] = t] /\ searching' = "no"
    BY <1>1, <1>6 DEF Combine
  <2> HIDE DEF t
  <2> QED BY <1>4, <2>4, <2>6, <2>7
<1>7. CASE ~Hit /\ searching' = "no" /\ elements' = [elements EXCEPT ![vec] = Splice(@, Position, e)]
  <2>1. e \in Pairs /\ e.index = insertIdx
    BY <1>1 DEF Pairs
  <2> HIDE DEF e
  <2>2. Splice(s, Position, e) \in Seq(Pairs)
    BY <1>1, <1>2, <2>1, SpliceFacts
  <2>3. Increasing(Splice(s, Position, e))
    BY <1>1, <1>2, <1>7, <2>1, SpliceIncreasing
  <2>4. elements' = [elements EXCEPT ![vec] = Splice(s, Position, e)]
    BY <1>1, <1>7
  <2> QED BY <1>4, <1>7, <2>2, <2>3, <2>4
<1> QED BY <1>5, <1>6, <1>7 DEF Place

-----------------------------------------------------------------------------
(* The terms of a document.                                                  *)

\* What holds of 0, and of a number when it holds of the one before.
LEMMA Upto ==
  ASSUME NEW n \in Nat, NEW I, 0 \in I, \A k \in 0..n - 1 : k \in I => k + 1 \in I
  PROVE  \A k \in 0..n : k \in I
<1> DEFINE J == {k \in Nat : k <= n => k \in I}
<1>1. 0 \in J
  OBVIOUS
<1>2. ASSUME NEW k \in J PROVE k + 1 \in J
  <2> SUFFICES ASSUME k + 1 <= n PROVE k + 1 \in I
    OBVIOUS
  <2>1. k \in Nat /\ k \in 0..n - 1 /\ k \in I
    OBVIOUS
  <2> QED BY <2>1
<1>3. J \in SUBSET Nat
  OBVIOUS
<1> HIDE DEF J
<1>4. J = Nat
  BY <1>1, <1>2, <1>3, Reaches
<1> QED BY <1>4 DEF J

\* A function that gives the next value from the one before defines a run of
\* values.
Steps(f, D, a, s, n) ==
  /\ f \in [0..n -> D]
  /\ f[0] = a
  /\ \A k \in 1..n : f[k] = s[<<k, f[k - 1]>>]

LEMMA StepsThere ==
  ASSUME NEW D, NEW a \in D, NEW n \in Nat, NEW s \in [(1..n) \X D -> D]
  PROVE  \E f : Steps(f, D, a, s, n)
<1> DEFINE Is(f, m) == Steps(f, D, a, s, m)
           I == {m \in Nat : \E f : Is(f, m)}
<1> USE DEF Steps
<1>1. 0 \in I
  <2> DEFINE f == [k \in 0..0 |-> a]
  <2>1. Is(f, 0)
    OBVIOUS
  <2> QED BY <2>1
<1>2. ASSUME NEW m \in 0..n - 1, m \in I PROVE m + 1 \in I
  <2>0. m \in Nat /\ m + 1 \in 1..n /\ m \in 0..m
    OBVIOUS
  <2>1. PICK f : Is(f, m)
    BY <1>2
  <2>2. PICK new : new = s[<<m + 1, f[m]>>]
    OBVIOUS
  <2>3. f[m] \in D /\ new \in D
    BY <2>0, <2>1, <2>2
  <2> DEFINE g == [k \in 0..m + 1 |-> IF k = m + 1 THEN new ELSE f[k]]
  <2>4. /\ g \in [0..m + 1 -> D] /\ g[m + 1] = new
        /\ \A k \in 0..m : g[k] = f[k]
    BY <2>0, <2>1, <2>3
  <2> HIDE DEF g
  <2>5. ASSUME NEW k \in 1..m + 1 PROVE g[k] = s[<<k, g[k - 1]>>]
    <3>1. CASE k = m + 1
      BY <2>0, <2>2, <2>4, <3>1
    <3>2. CASE k # m + 1
      <4>1. k \in 1..m /\ k - 1 \in 0..m /\ k \in 0..m
        BY <2>0, <3>2
      <4> QED BY <2>1, <2>4, <4>1
    <3> QED BY <3>1, <3>2
  <2>6. Is(g, m + 1)
    BY <2>0, <2>1, <2>4, <2>5
  <2> QED BY <2>0, <2>6
<1> HIDE DEF I
<1>3. n \in 0..n
  OBVIOUS
<1>4. n \in I
  BY <1>1, <1>2, <1>3, Upto
<1> QED BY <1>4 DEF I

WordOf == Seq(Lowered)

LEMMA TrimType ==
  ASSUME NEW w \in WordOf
  PROVE  Trim(w) \in WordOf
<1> DEFINE kept == {i \in DOMAIN w : w[i] \notin NonWord}
<1>0. w \in Seq(Lowered) /\ Len(w) \in Nat /\ DOMAIN w = 1..Len(w)
  BY DEF WordOf
<1>1. CASE kept = {}
  BY <1>1 DEF Trim, WordOf
<1>2. CASE kept # {}
  <2>0. kept \in SUBSET Nat /\ kept \subseteq 1..Len(w)
    BY <1>0
  <2> HIDE DEF kept
  <2>1. PICK a \in kept : \A i \in kept : a <= i
    BY <1>2, <2>0, LeastOf
  <2>2. PICK b \in kept : \A i \in kept : i <= b
    BY <1>0, <1>2, <2>0, GreatestOf
  <2>3. PICK m \in kept : m = Min(kept)
    BY <2>1, Zenon DEF Min
  <2>4. \A i \in kept : b >= i
    BY <2>0, <2>2
  <2>5. PICK n \in kept : n = Max(kept)
    BY <2>4, Zenon DEF Max
  <2>6. Trim(w) = SubSeq(w, m, n)
    BY <1>2, <2>3, <2>5 DEF Trim, kept
  <2>7. m \in 1..Len(w) /\ n \in 1..Len(w)
    BY <2>0
  <2>8. SubSeq(w, m, n) \in Seq(Lowered)
    BY <1>0, <2>7
  <2> QED BY <2>6, <2>8 DEF WordOf
<1> QED BY <1>1, <1>2

LEMMA StemType ==
  ASSUME NEW w \in WordOf
  PROVE  Stem(w) \in WordOf
<1>1. w \in Seq(Lowered) /\ Len(w) \in Nat
  BY DEF WordOf
<1>2. Len(w) >= 3 => SubSeq(w, 1, Len(w) - 1) \in Seq(Lowered)
  BY <1>1
<1> QED BY <1>1, <1>2 DEF Stem, Front, WordOf

LEMMA ApplyType ==
  ASSUME NEW fn, NEW w \in WordOf
  PROVE  Apply(fn, w) \in Seq(WordOf)
<1>1. \A v \in WordOf : <<v>> \in Seq(WordOf)
  OBVIOUS
<1>2. <<>> \in Seq(WordOf)
  OBVIOUS
<1>3. PICK t \in WordOf : t = Trim(w)
  BY TrimType
<1>4. PICK s \in WordOf : s = Stem(w)
  BY StemType
<1> QED BY <1>1, <1>2, <1>3, <1>4 DEF Apply

\* What a function of a pipeline makes of words.
Through(fn, ws) == FlattenSeq([i \in DOMAIN ws |-> Apply(fn, ws[i])])

LEMMA ThroughType ==
  ASSUME NEW fn, NEW ws \in Seq(WordOf)
  PROVE  Through(fn, ws) \in Seq(WordOf)
<1>1. Len(ws) \in Nat /\ DOMAIN ws = 1..Len(ws) /\ \A i \in 1..Len(ws) : ws[i] \in WordOf
  OBVIOUS
<1>2. \A i \in 1..Len(ws) : Apply(fn, ws[i]) \in Seq(WordOf)
  BY <1>1, ApplyType
<1>3. [i \in 1..Len(ws) |-> Apply(fn, ws[i])] \in Seq(Seq(WordOf))
  BY <1>1, <1>2, IsASeq
<1>4. [i \in DOMAIN ws |-> Apply(fn, ws[i])] \in Seq(Seq(WordOf))
  BY <1>1, <1>3
<1> QED BY <1>4, FlattenType DEF Through

IsRun(f, stack, words, n) ==
  f = [k \in 0..n |-> IF k = 0 THEN words ELSE Through(stack[k], f[k - 1])]

LEMMA RunThere ==
  ASSUME NEW stack, NEW words \in Seq(WordOf), NEW n \in Nat
  PROVE  \E f : IsRun(f, stack, words, n)
<1> DEFINE s == [p \in (1..n) \X Seq(WordOf) |-> Through(stack[p[1]], p[2])]
<1>1. s \in [(1..n) \X Seq(WordOf) -> Seq(WordOf)]
  <2>1. \A p \in (1..n) \X Seq(WordOf) : Through(stack[p[1]], p[2]) \in Seq(WordOf)
    BY ThroughType
  <2> QED BY <2>1
<1>2. \A k \in 1..n, ws \in Seq(WordOf) : s[<<k, ws>>] = Through(stack[k], ws)
  OBVIOUS
<1> HIDE DEF s
<1>3. PICK f : Steps(f, Seq(WordOf), words, s, n)
  BY <1>1, StepsThere
<1>t. f \in [0..n -> Seq(WordOf)]
  BY <1>3 DEF Steps
<1>4. ASSUME NEW k \in 0..n
      PROVE  f[k] = IF k = 0 THEN words ELSE Through(stack[k], f[k - 1])
  <2>1. k # 0 => k \in 1..n /\ k - 1 \in 0..n
    OBVIOUS
  <2>2. k # 0 => f[k - 1] \in Seq(WordOf)
    BY <1>t, <2>1
  <2> QED BY <1>2, <1>3, <2>1, <2>2 DEF Steps
<1>5. f = [k \in 0..n |-> f[k]]
  BY <1>t
<1>6. IsRun(f, stack, words, n)
  BY <1>4, <1>5, Zenon DEF IsRun
<1> QED BY <1>6

\* Whatever functions a pipeline has, it makes words of words.
LEMMA RunType ==
  ASSUME NEW stack, Len(stack) \in Nat, NEW words \in Seq(WordOf)
  PROVE  Run(stack, words) \in Seq(WordOf)
<1> DEFINE n == Len(stack)
           f == CHOOSE f : IsRun(f, stack, words, n)
           I == {k \in Nat : f[k] \in Seq(WordOf)}
<1>1. Run(stack, words) = f[n]
  BY Zenon DEF Run, IsRun, Through
<1>2. IsRun(f, stack, words, n)
  BY RunThere, Zenon
<1> HIDE DEF f, n
<1>3. \A k \in 0..n : f[k] = IF k = 0 THEN words ELSE Through(stack[k], f[k - 1])
  BY <1>2 DEF IsRun
<1>4. n \in Nat
  BY DEF n
<1>5. 0 \in I
  BY <1>3, <1>4
<1>6. ASSUME NEW k \in 0..n - 1, k \in I PROVE k + 1 \in I
  <2>1. k + 1 \in 0..n /\ k + 1 # 0 /\ k + 1 - 1 = k /\ f[k] \in Seq(WordOf)
    BY <1>4, <1>6
  <2>2. f[k + 1] = Through(stack[k + 1], f[k])
    BY <1>3, <2>1
  <2>3. f[k + 1] \in Seq(WordOf)
    BY <2>1, <2>2, ThroughType
  <2> QED BY <1>4, <2>3
<1> HIDE DEF I
<1>7. n \in I
  <2>1. n \in 0..n
    BY <1>4
  <2> QED BY <1>4, <1>5, <1>6, <2>1, Upto
<1> QED BY <1>1, <1>7 DEF I

\* One more character of the word that is read.
Longer(text, k, w) == IF text[k] \in Separators THEN <<>> ELSE Append(w, Lower(text[k]))

IsRead(f, text, n) ==
  f = [k \in 0..n |-> IF k = 0 \/ text[k] \in Separators THEN <<>>
                      ELSE Append(f[k - 1], Lower(text[k]))]

LEMMA ReadThere ==
  ASSUME NEW text \in Seq(STRING), NEW n \in Nat, n = Len(text)
  PROVE  \E f \in [0..n -> WordOf] : IsRead(f, text, n)
<1> DEFINE s == [p \in (1..n) \X WordOf |-> Longer(text, p[1], p[2])]
<1>0. ASSUME NEW k \in 1..n, NEW w \in WordOf PROVE Longer(text, k, w) \in WordOf
  <2>1. text[k] \in STRING
    OBVIOUS
  <2>2. Lower(text[k]) \in Lowered
    BY <2>1 DEF Lowered, Characters
  <2>3. w \in Seq(Lowered) /\ <<>> \in Seq(Lowered)
    BY DEF WordOf
  <2>4. Append(w, Lower(text[k])) \in Seq(Lowered)
    BY <2>2, <2>3
  <2> QED BY <2>3, <2>4 DEF Longer, WordOf
<1>1. s \in [(1..n) \X WordOf -> WordOf]
  BY <1>0
<1>2. \A k \in 1..n, w \in WordOf : s[<<k, w>>] = Longer(text, k, w)
  OBVIOUS
<1>3. <<>> \in WordOf
  BY DEF WordOf
<1> HIDE DEF s
<1>4. PICK f : Steps(f, WordOf, <<>>, s, n)
  BY <1>1, <1>3, StepsThere
<1>5. f \in [0..n -> WordOf]
  BY <1>4 DEF Steps
<1>6. ASSUME NEW k \in 0..n
      PROVE  f[k] = IF k = 0 \/ text[k] \in Separators THEN <<>>
                    ELSE Append(f[k - 1], Lower(text[k]))
  <2>1. CASE k = 0
    BY <1>4, <2>1 DEF Steps
  <2>2. CASE k # 0
    <3>1. k \in 1..n /\ k - 1 \in 0..n
      BY <2>2
    <3>2. f[k] = s[<<k, f[k - 1]>>] /\ f[k - 1] \in WordOf
      BY <1>4, <1>5, <3>1 DEF Steps
    <3>3. f[k] = Longer(text, k, f[k - 1])
      BY <1>2, <3>1, <3>2
    <3> QED BY <2>2, <3>3 DEF Longer
  <2> QED BY <2>1, <2>2
<1>7. f = [k \in 0..n |-> f[k]]
  BY <1>5
<1>8. IsRead(f, text, n)
  BY <1>6, <1>7, Zenon DEF IsRead
<1> QED BY <1>5, <1>8

LEMMA ReadType ==
  ASSUME NEW text \in Seq(STRING), NEW n \in Nat, n = Len(text), NEW f, IsRead(f, text, n)
  PROVE  f \in [0..n -> WordOf]
<1> DEFINE I == {k \in Nat : f[k] \in WordOf}
<1>1. ASSUME NEW k \in 0..n
      PROVE  f[k] = IF k = 0 \/ text[k] \in Separators THEN <<>>
                    ELSE Append(f[k - 1], Lower(text[k]))
  BY DEF IsRead
<1>2. \A w \in WordOf, l \in Lowered : Append(w, l) \in WordOf
  BY DEF WordOf
<1>3. <<>> \in WordOf
  BY DEF WordOf
<1>4. 0 \in I
  BY <1>1, <1>3
<1>5. ASSUME NEW k \in 0..n - 1, k \in I PROVE k + 1 \in I
  <2>1. k + 1 \in 0..n /\ k + 1 # 0 /\ k + 1 - 1 = k /\ f[k] \in WordOf /\ k + 1 \in Nat
    BY <1>5
  <2>2. text[k + 1] \in STRING
    BY <2>1
  <2>3. Lower(text[k + 1]) \in Lowered
    BY <2>2 DEF Lowered, Characters
  <2>4. f[k + 1] = <<>> \/ f[k + 1] = Append(f[k], Lower(text[k + 1]))
    <3>1. PICK j \in 0..n : j = k + 1 /\ j # 0 /\ j - 1 = k
      BY <2>1
    <3>2. f[j] = <<>> \/ f[j] = Append(f[j - 1], Lower(text[j]))
      BY <1>1, <3>1
    <3> QED BY <3>1, <3>2
  <2>5. f[k + 1] \in WordOf
    BY <1>2, <1>3, <2>1, <2>3, <2>4
  <2> QED BY <2>1, <2>5
<1> HIDE DEF I
<1>6. \A k \in 0..n : k \in I
  BY <1>4, <1>5, Upto
<1>7. f = [k \in 0..n |-> f[k]]
  BY DEF IsRead
<1> QED BY <1>6, <1>7 DEF I

LEMMA PushType ==
  ASSUME NEW ws \in Seq(WordOf), NEW w \in WordOf
  PROVE  Push(ws, w) \in Seq(WordOf)
BY DEF Push

IsTokens(f, text, word, n) ==
  f = [k \in 0..n |-> IF k = 0 THEN <<>>
                      ELSE IF text[k] \in Separators THEN Push(f[k - 1], word[k - 1])
                      ELSE f[k - 1]]

\* What the tokens are behind a character.
After(text, word, k, ws) == IF text[k] \in Separators THEN Push(ws, word[k - 1]) ELSE ws

LEMMA TokensThere ==
  ASSUME NEW text, NEW n \in Nat, NEW word \in [0..n -> WordOf]
  PROVE  \E f : IsTokens(f, text, word, n)
<1> DEFINE s == [p \in (1..n) \X Seq(WordOf) |-> After(text, word, p[1], p[2])]
<1>0. ASSUME NEW k \in 1..n, NEW ws \in Seq(WordOf)
      PROVE  After(text, word, k, ws) \in Seq(WordOf)
  <2>1. word[k - 1] \in WordOf
    OBVIOUS
  <2> QED BY <2>1, PushType DEF After
<1>1. s \in [(1..n) \X Seq(WordOf) -> Seq(WordOf)]
  BY <1>0
<1>2. \A k \in 1..n, ws \in Seq(WordOf) : s[<<k, ws>>] = After(text, word, k, ws)
  OBVIOUS
<1>3. <<>> \in Seq(WordOf)
  OBVIOUS
<1> HIDE DEF s
<1>4. PICK f : Steps(f, Seq(WordOf), <<>>, s, n)
  BY <1>1, <1>3, StepsThere
<1>5. f \in [0..n -> Seq(WordOf)]
  BY <1>4 DEF Steps
<1>6. ASSUME NEW k \in 0..n
      PROVE  f[k] = IF k = 0 THEN <<>>
                    ELSE IF text[k] \in Separators THEN Push(f[k - 1], word[k - 1])
                    ELSE f[k - 1]
  <2>1. CASE k = 0
    BY <1>4, <2>1 DEF Steps
  <2>2. CASE k # 0
    <3>1. k \in 1..n /\ k - 1 \in 0..n
      BY <2>2
    <3>2. f[k] = s[<<k, f[k - 1]>>] /\ f[k - 1] \in Seq(WordOf)
      BY <1>4, <1>5, <3>1 DEF Steps
    <3>3. f[k] = After(text, word, k, f[k - 1])
      BY <1>2, <3>1, <3>2
    <3> QED BY <2>2, <3>3 DEF After
  <2> QED BY <2>1, <2>2
<1>7. f = [k \in 0..n |-> f[k]]
  BY <1>5
<1>8. IsTokens(f, text, word, n)
  BY <1>6, <1>7, Zenon DEF IsTokens
<1> QED BY <1>8

LEMMA TokensAre ==
  ASSUME NEW text \in Seq(STRING), NEW n \in Nat, n = Len(text),
         NEW word \in [0..n -> WordOf], NEW f, IsTokens(f, text, word, n)
  PROVE  Push(f[n], word[n]) \in Seq(WordOf)
<1> DEFINE I == {k \in Nat : f[k] \in Seq(WordOf)}
<1>1. ASSUME NEW k \in 0..n
      PROVE  f[k] = IF k = 0 THEN <<>>
                    ELSE IF text[k] \in Separators THEN Push(f[k - 1], word[k - 1])
                    ELSE f[k - 1]
  BY DEF IsTokens
<1>2. 0 \in I
  <2>1. f[0] = <<>>
    <3>1. 0 \in 0..n
      OBVIOUS
    <3> QED BY <1>1, <3>1
  <2>2. <<>> \in Seq(WordOf)
    OBVIOUS
  <2> QED BY <2>1, <2>2
<1>3. ASSUME NEW k \in 0..n - 1, k \in I PROVE k + 1 \in I
  <2>1. k + 1 \in 0..n /\ k + 1 # 0 /\ k + 1 - 1 = k /\ k + 1 \in Nat /\ k \in 0..n
    BY <1>3
  <2>2. f[k] \in Seq(WordOf) /\ word[k] \in WordOf
    BY <1>3, <2>1
  <2>3. f[k + 1] = f[k] \/ f[k + 1] = Push(f[k], word[k])
    BY <1>1, <2>1
  <2>4. Push(f[k], word[k]) \in Seq(WordOf)
    BY <2>2, PushType
  <2> QED BY <2>1, <2>2, <2>3, <2>4
<1> HIDE DEF I
<1>4. n \in I
  <2>1. n \in 0..n
    OBVIOUS
  <2> QED BY <1>2, <1>3, <2>1, Upto
<1>5. f[n] \in Seq(WordOf) /\ word[n] \in WordOf
  BY <1>4 DEF I
<1> QED BY <1>5, PushType

LEMMA TokensType ==
  ASSUME NEW text \in Seq(STRING)
  PROVE  Tokens(text) \in Seq(WordOf)
<1>0. PICK n \in Nat : n = Len(text)
  OBVIOUS
<1> DEFINE w == CHOOSE f : IsRead(f, text, Len(text))
           t == CHOOSE f : IsTokens(f, text, w, Len(text))
<1>1. Tokens(text) = Push(t[Len(text)], w[Len(text)])
  BY Zenon DEF Tokens, IsRead, IsTokens
<1>2. IsRead(w, text, Len(text))
  <2>1. \E f : IsRead(f, text, Len(text))
    BY <1>0, ReadThere
  <2> QED BY <2>1, Zenon
<1> HIDE DEF w
<1>3. w \in [0..n -> WordOf]
  BY <1>0, <1>2, ReadType
<1>4. IsTokens(t, text, w, Len(text))
  <2>1. \E f : IsTokens(f, text, w, Len(text))
    BY <1>0, <1>3, TokensThere
  <2> QED BY <2>1, Zenon
<1> HIDE DEF t
<1>5. Push(t[n], w[n]) \in Seq(WordOf)
  BY <1>0, <1>3, <1>4, TokensAre
<1> QED BY <1>0, <1>1, <1>5

LEMMA FieldTermsType ==
  ASSUME NEW d \in DOMAIN Documents, NEW f \in Fields, Len(pipeline) \in Nat
  PROVE  FieldTerms(Documents[d], f) \in Seq(WordOf)
<1>1. PICK D : D = [ref : Seq(STRING), text : [Fields -> Seq(STRING)]]
  OBVIOUS
<1>3. Documents \in Seq(D)
  BY <1>1, LunrAssumption
<1>4. Documents[d] \in D
  BY <1>3
<1>2. Documents[d].text[f] \in Seq(STRING)
  BY <1>1, <1>4
<1> QED BY <1>2, TokensType, RunType DEF FieldTerms

-----------------------------------------------------------------------------
(* The inverted index.                                                       *)

Postings == [index : Nat, docs : [Fields -> SUBSET DocRefs]]

Inverted == UNION {[T -> Postings] : T \in {T \in SUBSET WordOf : IsFiniteSet(T)}}

\* Each term has an index of its own, below that of the next new term.
PostingsRight(inv) ==
  /\ inv \in Inverted
  /\ \A t \in DOMAIN inv : inv[t].index < Cardinality(DOMAIN inv)
  /\ \A t, u \in DOMAIN inv : inv[t].index = inv[u].index => t = u

Names(inv, t, f, r) == t \in DOMAIN inv /\ r \in inv[t].docs[f]

\* The postings `res` are those of `inv` and, for document r, those of the
\* fields and terms E.
Posted(inv, res, E, r) ==
  /\ PostingsRight(res)
  /\ \A f \in Fields, d \in DocRefs, t \in WordOf :
       Names(res, t, f, d) <=> Names(inv, t, f, d) \/ (d = r /\ <<f, t>> \in E)

LEMMA InvertedFacts ==
  ASSUME NEW inv \in Inverted
  PROVE  /\ DOMAIN inv \in SUBSET WordOf
         /\ IsFiniteSet(DOMAIN inv)
         /\ Cardinality(DOMAIN inv) \in Nat
         /\ inv \in [DOMAIN inv -> Postings]
         /\ \A t \in DOMAIN inv : inv[t] \in Postings
<1>1. PICK T \in SUBSET WordOf : IsFiniteSet(T) /\ inv \in [T -> Postings]
  BY DEF Inverted
<1>2. DOMAIN inv = T
  BY <1>1
<1>3. Cardinality(T) \in Nat
  BY <1>1, FS_CardinalityType
<1> QED BY <1>1, <1>2, <1>3

LEMMA IsInverted ==
  ASSUME NEW T \in SUBSET WordOf, IsFiniteSet(T), NEW inv \in [T -> Postings]
  PROVE  inv \in Inverted
BY DEF Inverted

\* The posting of a term that is there, or the one made for it.
PostingOf(inv, t) ==
  IF t \in DOMAIN inv THEN inv[t]
  ELSE [index |-> Cardinality(DOMAIN inv), docs |-> [f \in Fields |-> {}]]

LEMMA PostingType ==
  ASSUME NEW inv \in Inverted, NEW t \in WordOf
  PROVE  PostingOf(inv, t) \in Postings
<1>1. Cardinality(DOMAIN inv) \in Nat /\ \A u \in DOMAIN inv : inv[u] \in Postings
  BY InvertedFacts
<1>2. [f \in Fields |-> {}] \in [Fields -> SUBSET DocRefs]
  OBVIOUS
<1> QED BY <1>1, <1>2 DEF PostingOf, Postings

\* A posting with one more document.
With(p, f, r) == [p EXCEPT !.docs[f] = @ \cup {r}]

LEMMA WithFacts ==
  ASSUME NEW p \in Postings, NEW f \in Fields, NEW r \in DocRefs
  PROVE  /\ With(p, f, r) \in Postings
         /\ With(p, f, r).index = p.index
         /\ \A g \in Fields : With(p, f, r).docs[g] = IF g = f THEN p.docs[g] \cup {r} ELSE p.docs[g]
<1>1. PICK e : e = [p.docs EXCEPT ![f] = @ \cup {r}]
  OBVIOUS
<1>2. p.index \in Nat /\ p.docs \in [Fields -> SUBSET DocRefs]
  BY DEF Postings
<1>3. e \in [Fields -> SUBSET DocRefs]
  BY <1>1, <1>2
<1>4. \A g \in Fields : e[g] = IF g = f THEN p.docs[g] \cup {r} ELSE p.docs[g]
  BY <1>1, <1>2
<1>5. With(p, f, r) = [p EXCEPT !.docs = e]
  BY <1>1 DEF With
<1>6. [p EXCEPT !.docs = e] = [index |-> p.index, docs |-> e]
  BY DEF Postings
<1>7. [index |-> p.index, docs |-> e] \in Postings
  BY <1>2, <1>3 DEF Postings
<1> QED BY <1>4, <1>5, <1>6, <1>7

LEMMA PostIs ==
  ASSUME NEW inv, NEW t, NEW f, NEW r
  PROVE  Post(inv, t, f, r) =
           [u \in DOMAIN inv \cup {t} |-> IF u = t THEN With(PostingOf(inv, t), f, r) ELSE inv[u]]
BY Zenon DEF Post, PostingOf, With

LEMMA PostType ==
  ASSUME NEW inv \in Inverted, NEW t \in WordOf, NEW f \in Fields, NEW r \in DocRefs
  PROVE  /\ Post(inv, t, f, r) \in Inverted
         /\ DOMAIN Post(inv, t, f, r) = DOMAIN inv \cup {t}
         /\ \A u \in DOMAIN inv \cup {t} :
              Post(inv, t, f, r)[u] = IF u = t THEN With(PostingOf(inv, t), f, r) ELSE inv[u]
<1>1. PICK T : T = DOMAIN inv \cup {t}
  OBVIOUS
<1>2. PICK p : p = With(PostingOf(inv, t), f, r)
  OBVIOUS
<1>3. p \in Postings
  BY <1>2, PostingType, WithFacts
<1>4. T \in SUBSET WordOf /\ IsFiniteSet(T) /\ \A u \in DOMAIN inv : inv[u] \in Postings
  BY <1>1, InvertedFacts, FS_AddElement
<1>5. PICK res : res = [u \in T |-> IF u = t THEN p ELSE inv[u]]
  OBVIOUS
<1>6. res \in [T -> Postings] /\ DOMAIN res = T
      /\ \A u \in T : res[u] = IF u = t THEN p ELSE inv[u]
  BY <1>1, <1>3, <1>4, <1>5
<1>7. res = Post(inv, t, f, r)
  BY <1>1, <1>2, <1>5, PostIs
<1>8. res \in Inverted
  BY <1>4, <1>6, IsInverted
<1> QED BY <1>1, <1>2, <1>6, <1>7, <1>8

LEMMA PostStep ==
  ASSUME NEW inv, PostingsRight(inv), NEW t \in WordOf, NEW f \in Fields, NEW r \in DocRefs
  PROVE  Posted(inv, Post(inv, t, f, r), {<<f, t>>}, r)
<1>1. PICK res : res = Post(inv, t, f, r)
  OBVIOUS
<1>2. PICK p : p = PostingOf(inv, t)
  OBVIOUS
<1>3. PICK q : q = With(p, f, r)
  OBVIOUS
<1>0. inv \in Inverted
  BY DEF PostingsRight
<1>4. /\ res \in Inverted /\ DOMAIN res = DOMAIN inv \cup {t}
      /\ \A u \in DOMAIN inv \cup {t} : res[u] = IF u = t THEN q ELSE inv[u]
  <2>1. /\ Post(inv, t, f, r) \in Inverted
        /\ DOMAIN Post(inv, t, f, r) = DOMAIN inv \cup {t}
        /\ \A u \in DOMAIN inv \cup {t} :
             Post(inv, t, f, r)[u] = IF u = t THEN With(PostingOf(inv, t), f, r) ELSE inv[u]
    BY <1>0, PostType, Zenon
  <2>2. q = With(PostingOf(inv, t), f, r)
    BY <1>2, <1>3
  <2> QED BY ONLY <1>1, <2>1, <2>2
<1>5. p \in Postings
  BY <1>0, <1>2, PostingType
<1>6. /\ q.index = p.index
      /\ \A g \in Fields : q.docs[g] = IF g = f THEN p.docs[g] \cup {r} ELSE p.docs[g]
  <2>1. /\ With(p, f, r).index = p.index
        /\ \A g \in Fields :
             With(p, f, r).docs[g] = IF g = f THEN p.docs[g] \cup {r} ELSE p.docs[g]
    BY <1>5, WithFacts, Zenon
  <2> QED BY ONLY <1>3, <2>1
<1>7. PICK n \in Nat : n = Cardinality(DOMAIN inv)
  BY <1>0, InvertedFacts
<1>8. \A u \in DOMAIN inv : inv[u].index < n /\ inv[u].index \in Nat
  BY <1>0, <1>7, InvertedFacts DEF PostingsRight, Postings
<1>9. t \in DOMAIN inv => p = inv[t]
  BY <1>2 DEF PostingOf
<1>10. t \notin DOMAIN inv => p.index = n /\ \A g \in Fields : p.docs[g] = {}
  BY <1>2, <1>7 DEF PostingOf
<1>11. PICK m \in Nat : m = Cardinality(DOMAIN res)
  BY <1>4, InvertedFacts
<1>12. m = IF t \in DOMAIN inv THEN n ELSE n + 1
  BY <1>0, <1>4, <1>7, <1>11, InvertedFacts, FS_AddElement
<1>13. \A u \in DOMAIN res : res[u].index = IF u = t THEN p.index ELSE inv[u].index
  BY <1>4, <1>6
<1>14. \A u \in DOMAIN res : res[u].index < m
  BY <1>4, <1>8, <1>9, <1>10, <1>12, <1>13
<1>15. ASSUME NEW u \in DOMAIN res, NEW v \in DOMAIN res, res[u].index = res[v].index
       PROVE  u = v
  <2>1. CASE t \in DOMAIN inv
    BY <1>4, <1>9, <1>13, <1>15, <2>1 DEF PostingsRight
  <2>2. CASE t \notin DOMAIN inv
    BY <1>4, <1>8, <1>10, <1>13, <1>15, <2>2 DEF PostingsRight
  <2> QED BY <2>1, <2>2
<1>16. PostingsRight(res)
  BY <1>4, <1>11, <1>14, <1>15 DEF PostingsRight
<1>17. ASSUME NEW g \in Fields, NEW d \in DocRefs, NEW u \in WordOf
       PROVE  Names(res, u, g, d) <=> Names(inv, u, g, d) \/ (d = r /\ <<g, u>> \in {<<f, t>>})
  <2>1. <<g, u>> \in {<<f, t>>} <=> g = f /\ u = t
    OBVIOUS
  <2>2. CASE u = t
    <3>1. Names(res, u, g, d) <=> d \in q.docs[g]
      BY <1>4, <2>2 DEF Names
    <3>2. Names(inv, u, g, d) <=> d \in p.docs[g]
      BY <1>9, <1>10, <2>2 DEF Names
    <3> QED BY <1>6, <2>1, <2>2, <3>1, <3>2
  <2>3. CASE u # t
    BY <1>4, <2>1, <2>3 DEF Names
  <2> QED BY <2>2, <2>3
<1> QED BY <1>1, <1>16, <1>17 DEF Posted

LEMMA PostedNone ==
  ASSUME NEW inv, PostingsRight(inv), NEW r
  PROVE  Posted(inv, inv, {}, r)
BY DEF Posted

LEMMA PostedMore ==
  ASSUME NEW a, NEW b, NEW c, NEW r, NEW E, NEW F, Posted(a, b, E, r), Posted(b, c, F, r)
  PROVE  Posted(a, c, E \cup F, r)
BY DEF Posted

LEMMA PostedSame ==
  ASSUME NEW a, NEW b, NEW r, NEW E, NEW F, Posted(a, b, E, r),
         \A f \in Fields, t \in WordOf : <<f, t>> \in E <=> <<f, t>> \in F
  PROVE  Posted(a, b, F, r)
BY DEF Posted

IsTermsPosted(g, inv, ts, f, r, n) ==
  g = [k \in 0..n |-> IF k = 0 THEN inv ELSE Post(g[k - 1], ts[k], f, r)]

LEMMA TermsPostedThere ==
  ASSUME NEW inv \in Inverted, NEW ts \in Seq(WordOf), NEW f \in Fields, NEW r \in DocRefs,
         NEW n \in Nat, n = Len(ts)
  PROVE  \E g : IsTermsPosted(g, inv, ts, f, r, n)
<1> DEFINE s == [p \in (1..n) \X Inverted |-> Post(p[2], ts[p[1]], f, r)]
<1>0. ASSUME NEW k \in 1..n, NEW i \in Inverted PROVE Post(i, ts[k], f, r) \in Inverted
  <2>1. ts[k] \in WordOf
    OBVIOUS
  <2> QED BY <2>1, PostType
<1>1. s \in [(1..n) \X Inverted -> Inverted]
  BY <1>0
<1>2. \A k \in 1..n, i \in Inverted : s[<<k, i>>] = Post(i, ts[k], f, r)
  OBVIOUS
<1> HIDE DEF s
<1>3. PICK g : Steps(g, Inverted, inv, s, n)
  BY <1>1, StepsThere
<1>4. g \in [0..n -> Inverted]
  BY <1>3 DEF Steps
<1>5. ASSUME NEW k \in 0..n
      PROVE  g[k] = IF k = 0 THEN inv ELSE Post(g[k - 1], ts[k], f, r)
  <2>1. CASE k = 0
    BY <1>3, <2>1 DEF Steps
  <2>2. CASE k # 0
    <3>1. k \in 1..n /\ k - 1 \in 0..n
      BY <2>2
    <3>2. g[k] = s[<<k, g[k - 1]>>] /\ g[k - 1] \in Inverted
      BY <1>3, <1>4, <3>1 DEF Steps
    <3> QED BY <1>2, <2>2, <3>1, <3>2
  <2> QED BY <2>1, <2>2
<1>6. g = [k \in 0..n |-> g[k]]
  BY <1>4
<1>7. IsTermsPosted(g, inv, ts, f, r, n)
  BY <1>5, <1>6, Zenon DEF IsTermsPosted
<1> QED BY <1>7

\* What the terms of a field leave: their postings name the document in it.
LEMMA PostTermsStep ==
  ASSUME NEW inv, PostingsRight(inv), NEW ts \in Seq(WordOf), NEW f \in Fields,
         NEW r \in DocRefs
  PROVE  Posted(inv, PostTerms(inv, ts, f, r), {<<f, t>> : t \in ToSet(ts)}, r)
<1>n. PICK n \in Nat : n = Len(ts)
  OBVIOUS
<1> DEFINE g == CHOOSE g : IsTermsPosted(g, inv, ts, f, r, Len(ts))
           E(k) == {<<f, ts[i]>> : i \in 1..k}
           I == {k \in Nat : Posted(inv, g[k], E(k), r)}
<1>1. PostTerms(inv, ts, f, r) = g[Len(ts)]
  BY Zenon DEF PostTerms, IsTermsPosted
<1>2. IsTermsPosted(g, inv, ts, f, r, Len(ts))
  <2>1. \E h : IsTermsPosted(h, inv, ts, f, r, Len(ts))
    BY <1>n, TermsPostedThere DEF PostingsRight
  <2> QED BY <2>1, Zenon
<1> HIDE DEF g
<1>3. \A k \in 0..n : g[k] = IF k = 0 THEN inv ELSE Post(g[k - 1], ts[k], f, r)
  BY <1>n, <1>2 DEF IsTermsPosted
<1>4. 0 \in I
  <2>1. g[0] = inv
    BY <1>3
  <2>2. E(0) = {}
    OBVIOUS
  <2> HIDE DEF E
  <2> QED BY <2>1, <2>2, PostedNone
<1>5. ASSUME NEW k \in 0..n - 1, k \in I PROVE k + 1 \in I
  <2>1. k \in Nat /\ k + 1 \in Nat /\ k + 1 \in 0..n /\ k + 1 # 0 /\ k + 1 - 1 = k /\ k + 1 \in 1..n
    BY <1>5
  <2>2. Posted(inv, g[k], E(k), r)
    BY <1>5
  <2>3. ts[k + 1] \in WordOf
    BY <1>n, <2>1
  <2>4. g[k + 1] = Post(g[k], ts[k + 1], f, r)
    BY <1>3, <2>1
  <2>5. PostingsRight(g[k])
    BY <2>2 DEF Posted
  <2>6. Posted(g[k], g[k + 1], {<<f, ts[k + 1]>>}, r)
    BY <2>3, <2>4, <2>5, PostStep
  <2>7. E(k + 1) = E(k) \cup {<<f, ts[k + 1]>>}
    <3>1. \A i : i \in 1..k + 1 <=> i \in 1..k \/ i = k + 1
      BY <2>1
    <3> QED BY <3>1
  <2> HIDE DEF E
  <2>8. Posted(inv, g[k + 1], E(k + 1), r)
    BY <2>2, <2>6, <2>7, PostedMore
  <2> QED BY <2>1, <2>8
<1>6. E(n) = {<<f, t>> : t \in ToSet(ts)}
  <2>1. DOMAIN ts = 1..n
    BY <1>n
  <2> QED BY <2>1 DEF ToSet
<1> HIDE DEF E, I
<1>7. n \in I
  <2>1. n \in 0..n
    OBVIOUS
  <2> QED BY <1>4, <1>5, <2>1, Upto
<1>8. Posted(inv, g[n], E(n), r)
  BY <1>7 DEF I
<1> QED BY <1>n, <1>1, <1>6, <1>8

IsFieldsPosted(g, inv, doc, n) ==
  g = [k \in 0..n |->
         IF k = 0 THEN inv
         ELSE PostTerms(g[k - 1], FieldTerms(doc, FieldList[k]), FieldList[k], doc.ref)]

PostingsSet == {inv \in Inverted : PostingsRight(inv)}

LEMMA FieldsPostedThere ==
  ASSUME NEW inv, PostingsRight(inv), NEW doc, NEW n \in Nat, doc.ref \in DocRefs,
         \A k \in 1..n : FieldList[k] \in Fields /\ FieldTerms(doc, FieldList[k]) \in Seq(WordOf)
  PROVE  \E g : IsFieldsPosted(g, inv, doc, n)
<1> DEFINE D == PostingsSet
           next(k, i) == PostTerms(i, FieldTerms(doc, FieldList[k]), FieldList[k], doc.ref)
           s == [p \in (1..n) \X D |-> next(p[1], p[2])]
<1>0. ASSUME NEW k \in 1..n, NEW i \in D PROVE next(k, i) \in D
  <2>1. PostingsRight(i)
    BY DEF PostingsSet
  <2>2. Posted(i, next(k, i), {<<FieldList[k], t>> : t \in ToSet(FieldTerms(doc, FieldList[k]))}, doc.ref)
    BY <2>1, PostTermsStep
  <2> QED BY <2>2 DEF PostingsSet, Posted, PostingsRight
<1> HIDE DEF next
<1>1. s \in [(1..n) \X D -> D]
  BY <1>0
<1>2. \A k \in 1..n, i \in D : s[<<k, i>>] = next(k, i)
  OBVIOUS
<1>i. inv \in D
  BY DEF PostingsSet, PostingsRight
<1> HIDE DEF s, D
<1>3. PICK g : Steps(g, D, inv, s, n)
  BY <1>1, <1>i, StepsThere
<1>4. g \in [0..n -> D]
  BY <1>3 DEF Steps
<1>5. ASSUME NEW k \in 0..n
      PROVE  g[k] = IF k = 0 THEN inv ELSE next(k, g[k - 1])
  <2>1. CASE k = 0
    BY <1>3, <2>1 DEF Steps
  <2>2. CASE k # 0
    <3>1. k \in 1..n /\ k - 1 \in 0..n
      BY <2>2
    <3>2. g[k] = s[<<k, g[k - 1]>>] /\ g[k - 1] \in D
      BY <1>3, <1>4, <3>1 DEF Steps
    <3> QED BY <1>2, <2>2, <3>1, <3>2
  <2> QED BY <2>1, <2>2
<1>6. g = [k \in 0..n |-> g[k]]
  BY <1>4
<1>7. IsFieldsPosted(g, inv, doc, n)
  BY <1>5, <1>6, Zenon DEF IsFieldsPosted, next
<1> QED BY <1>7

\* The terms of a document, each with its field.
TermsOfDoc(doc) == {e \in Fields \X WordOf : e[2] \in ToSet(FieldTerms(doc, e[1]))}

\* What add leaves of a document in the inverted index.
LEMMA PostFieldsStep ==
  ASSUME NEW inv, PostingsRight(inv), NEW d \in DOMAIN Documents, Len(pipeline) \in Nat
  PROVE  Posted(inv, PostFields(inv, Documents[d]), TermsOfDoc(Documents[d]), Documents[d].ref)
<1>0. PICK doc : doc = Documents[d]
  OBVIOUS
<1>n. PICK n \in Nat : n = Len(FieldList)
  BY LunrAssumption
<1>f. Fields = {FieldList[k] : k \in 1..n} /\ \A k \in 1..n : FieldList[k] \in Fields
  <2>1. DOMAIN FieldList = 1..n
    BY <1>n, LunrAssumption
  <2> QED BY <2>1, LunrAssumption DEF ToSet
<1>t. \A f \in Fields : FieldTerms(doc, f) \in Seq(WordOf)
  BY <1>0, FieldTermsType
<1>r. doc.ref \in DocRefs
  BY <1>0 DEF DocRefs
<1> DEFINE g == CHOOSE g : IsFieldsPosted(g, inv, doc, Len(FieldList))
           E(k) == {e \in Fields \X WordOf : /\ \E i \in 1..k : e[1] = FieldList[i]
                                             /\ e[2] \in ToSet(FieldTerms(doc, e[1]))}
           I == {k \in Nat : Posted(inv, g[k], E(k), doc.ref)}
<1>1. PostFields(inv, doc) = g[Len(FieldList)]
  BY Zenon DEF PostFields, IsFieldsPosted
<1>2. IsFieldsPosted(g, inv, doc, Len(FieldList))
  <2>1. \E h : IsFieldsPosted(h, inv, doc, Len(FieldList))
    BY <1>n, <1>f, <1>t, <1>r, FieldsPostedThere
  <2> QED BY <2>1, Zenon
<1> HIDE DEF g
<1>3. \A k \in 0..n : g[k] =
        IF k = 0 THEN inv
        ELSE PostTerms(g[k - 1], FieldTerms(doc, FieldList[k]), FieldList[k], doc.ref)
  BY <1>n, <1>2 DEF IsFieldsPosted
<1>4. 0 \in I
  <2>1. g[0] = inv
    BY <1>3
  <2>2. E(0) = {}
    OBVIOUS
  <2> HIDE DEF E
  <2> QED BY <2>1, <2>2, PostedNone
<1>5. ASSUME NEW k \in 0..n - 1, k \in I PROVE k + 1 \in I
  <2>1. k \in Nat /\ k + 1 \in Nat /\ k + 1 \in 0..n /\ k + 1 # 0 /\ k + 1 - 1 = k /\ k + 1 \in 1..n
    BY <1>5
  <2>2. Posted(inv, g[k], E(k), doc.ref)
    BY <1>5
  <2>3. PICK f \in Fields : f = FieldList[k + 1]
    BY <1>f, <2>1
  <2>4. PICK ts \in Seq(WordOf) : ts = FieldTerms(doc, f)
    BY <1>t
  <2>5. g[k + 1] = PostTerms(g[k], ts, f, doc.ref)
    BY <1>3, <2>1, <2>3, <2>4
  <2>6. PostingsRight(g[k])
    BY <2>2 DEF Posted
  <2>7. Posted(g[k], g[k + 1], {<<f, t>> : t \in ToSet(ts)}, doc.ref)
    BY <1>r, <2>5, <2>6, PostTermsStep
  <2>8. Posted(inv, g[k + 1], E(k) \cup {<<f, t>> : t \in ToSet(ts)}, doc.ref)
    <3> HIDE DEF E
    <3> QED BY <2>2, <2>7, PostedMore
  <2>9. ASSUME NEW h \in Fields, NEW t \in WordOf
        PROVE  <<h, t>> \in E(k) \cup {<<f, u>> : u \in ToSet(ts)} <=> <<h, t>> \in E(k + 1)
    <3>1. \A i : i \in 1..k + 1 <=> i \in 1..k \/ i = k + 1
      BY <2>1
    <3>2. <<h, t>> \in {<<f, u>> : u \in ToSet(ts)} <=> h = f /\ t \in ToSet(ts)
      OBVIOUS
    <3>3. <<h, t>> \in E(k + 1) <=> /\ \E i \in 1..k + 1 : h = FieldList[i]
                                    /\ t \in ToSet(FieldTerms(doc, h))
      OBVIOUS
    <3>4. <<h, t>> \in E(k) <=> /\ \E i \in 1..k : h = FieldList[i]
                                /\ t \in ToSet(FieldTerms(doc, h))
      OBVIOUS
    <3> HIDE DEF E
    <3> QED BY <2>3, <2>4, <3>1, <3>2, <3>3, <3>4
  <2> HIDE DEF E
  <2>10. Posted(inv, g[k + 1], E(k + 1), doc.ref)
    BY <2>8, <2>9, PostedSame
  <2> QED BY <2>1, <2>10
<1>6. E(n) = TermsOfDoc(doc)
  BY <1>f DEF TermsOfDoc
<1> HIDE DEF E, I
<1>7. n \in I
  <2>1. n \in 0..n
    OBVIOUS
  <2> QED BY <1>4, <1>5, <2>1, Upto
<1>8. Posted(inv, g[n], E(n), doc.ref)
  BY <1>7 DEF I
<1> QED BY <1>0, <1>n, <1>1, <1>6, <1>8

-----------------------------------------------------------------------------
(* References and frequencies.                                               *)

LEMMA FieldFacts ==
  ASSUME NEW f \in Fields
  PROVE  f \in Seq(STRING) /\ Len(f) \in Nat /\ \A i \in 1..Len(f) : f[i] # "/"
<1>1. PICK S : S = Seq(STRING)
  OBVIOUS
<1>2. FieldList \in Seq(S) /\ f \in ToSet(FieldList) /\ "/" \notin ToSet(f)
  BY <1>1, LunrAssumption
<1>3. PICK i \in 1..Len(FieldList) : f = FieldList[i]
  BY <1>2 DEF ToSet
<1>4. f \in Seq(STRING)
  BY <1>1, <1>2, <1>3
<1>5. Len(f) \in Nat /\ DOMAIN f = 1..Len(f)
  BY <1>4
<1> QED BY <1>2, <1>4, <1>5 DEF ToSet

LEMMA DocumentFacts ==
  ASSUME NEW d \in DOMAIN Documents
  PROVE  Documents[d].ref \in Seq(STRING) /\ Documents[d].ref \in DocRefs
<1>1. PICK D : D = [ref : Seq(STRING), text : [Fields -> Seq(STRING)]]
  OBVIOUS
<1>2. Documents \in Seq(D)
  BY <1>1, LunrAssumption
<1>3. Documents[d] \in D
  BY <1>2
<1> QED BY <1>1, <1>3 DEF DocRefs

LEMMA DocRefFacts ==
  ASSUME NEW r \in DocRefs
  PROVE  r \in Seq(STRING) /\ \E d \in DOMAIN Documents : r = Documents[d].ref
<1>1. PICK d \in DOMAIN Documents : r = Documents[d].ref
  BY DEF DocRefs
<1> QED BY <1>1, DocumentFacts

\* The characters of references.
Letters == STRING \cup {"/"}

LEMMA FieldRefFacts ==
  ASSUME NEW f \in Fields, NEW r \in Seq(STRING)
  PROVE  /\ Len(FieldRef(f, r)) = Len(f) + 1 + Len(r)
         /\ \A i \in 1..Len(f) : FieldRef(f, r)[i] = f[i]
         /\ FieldRef(f, r)[Len(f) + 1] = "/"
         /\ \A i \in 1..Len(r) : FieldRef(f, r)[Len(f) + 1 + i] = r[i]
<1>1. f \in Seq(STRING) /\ Len(f) \in Nat /\ Len(r) \in Nat
  BY FieldFacts
<1>4. PICK L : L = Letters
  OBVIOUS
<1>2. PICK c \in L : c = "/"
  BY <1>4 DEF Letters
<1>3. PICK s : s = <<c>>
  OBVIOUS
<1>5. s \in Seq(L) /\ Len(s) = 1 /\ s[1] = c
  <2>1. <<c>> \in Seq(L)
    OBVIOUS
  <2>2. Len(<<c>>) = 1 /\ <<c>>[1] = c
    OBVIOUS
  <2> QED BY ONLY <1>3, <2>1, <2>2
<1>l. f \in Seq(L) /\ r \in Seq(L)
  <2>1. \A x \in STRING : x \in L
    BY <1>4 DEF Letters
  <2>2. ASSUME NEW q \in Seq(STRING) PROVE q \in Seq(L)
    <3>1. Len(q) \in Nat /\ q = [i \in 1..Len(q) |-> q[i]] /\ \A i \in 1..Len(q) : q[i] \in L
      BY <2>1
    <3>2. [i \in 1..Len(q) |-> q[i]] \in Seq(L)
      BY <3>1, IsASeq
    <3> QED BY ONLY <3>1, <3>2
  <2> QED BY <1>1, <2>2
<1>6. PICK a : a = f \o s
  OBVIOUS
<1>7. /\ a \in Seq(L) /\ Len(a) = Len(f) + 1
      /\ \A i \in 1..Len(f) + 1 : a[i] = IF i <= Len(f) THEN f[i] ELSE s[i - Len(f)]
  <2>1. /\ f \o s \in Seq(L) /\ Len(f \o s) = Len(f) + Len(s)
        /\ \A i \in 1..Len(f) + Len(s) : (f \o s)[i] = IF i <= Len(f) THEN f[i] ELSE s[i - Len(f)]
    <3>1. f \in Seq(L) /\ s \in Seq(L)
      BY <1>l, <1>5
    <3> QED BY ONLY <3>1, ConcatProperties
  <2> QED BY <1>5, <1>6, <2>1
<1>8. PICK b : b = a \o r
  OBVIOUS
<1>9. /\ b \in Seq(L) /\ Len(b) = Len(a) + Len(r)
      /\ \A i \in 1..Len(a) + Len(r) : b[i] = IF i <= Len(a) THEN a[i] ELSE r[i - Len(a)]
  <2>1. /\ a \o r \in Seq(L) /\ Len(a \o r) = Len(a) + Len(r)
        /\ \A i \in 1..Len(a) + Len(r) : (a \o r)[i] = IF i <= Len(a) THEN a[i] ELSE r[i - Len(a)]
    <3>1. a \in Seq(L) /\ r \in Seq(L)
      BY <1>7, <1>l
    <3> QED BY ONLY <3>1, ConcatProperties
  <2> QED BY ONLY <1>8, <2>1
<1>10. FieldRef(f, r) = b
  BY <1>2, <1>3, <1>6, <1>8 DEF FieldRef
<1>11. \A i \in 1..Len(f) : b[i] = f[i]
  BY <1>1, <1>7, <1>9
<1>12. b[Len(f) + 1] = c
  <2>1. Len(f) + 1 \in 1..Len(f) + 1 /\ Len(f) + 1 \in 1..Len(a) + Len(r)
    BY <1>1, <1>7
  <2>2. b[Len(f) + 1] = a[Len(f) + 1]
    BY <1>1, <1>7, <1>9, <2>1
  <2>3. Len(f) + 1 - Len(f) = 1 /\ ~(Len(f) + 1 <= Len(f))
    BY <1>1
  <2>4. a[Len(f) + 1] = s[Len(f) + 1 - Len(f)]
    BY <1>7, <2>1, <2>3
  <2> QED BY <1>5, <2>2, <2>3, <2>4
<1>13. ASSUME NEW i \in 1..Len(r) PROVE b[Len(f) + 1 + i] = r[i]
  <2>1. /\ Len(f) + 1 + i \in 1..Len(a) + Len(r)
        /\ ~(Len(f) + 1 + i <= Len(a)) /\ Len(f) + 1 + i - Len(a) = i
    BY <1>1, <1>7
  <2> QED BY <1>9, <2>1
<1> QED BY <1>2, <1>7, <1>9, <1>10, <1>11, <1>12, <1>13

\* A field reference says its field and its document.
LEMMA FieldRefDiffers ==
  ASSUME NEW f \in Fields, NEW g \in Fields, NEW r \in DocRefs, NEW s \in DocRefs,
         FieldRef(f, r) = FieldRef(g, s)
  PROVE  f = g /\ r = s
<1>1. PICK x : x = FieldRef(f, r)
  OBVIOUS
<1>2. r \in Seq(STRING) /\ s \in Seq(STRING) /\ Len(r) \in Nat /\ Len(s) \in Nat
  BY DocRefFacts, LenProperties
<1>3. /\ f \in Seq(STRING) /\ Len(f) \in Nat /\ \A i \in 1..Len(f) : f[i] # "/"
      /\ g \in Seq(STRING) /\ Len(g) \in Nat /\ \A i \in 1..Len(g) : g[i] # "/"
  BY FieldFacts
<1>4. /\ Len(x) = Len(f) + 1 + Len(r) /\ x[Len(f) + 1] = "/"
      /\ \A i \in 1..Len(f) : x[i] = f[i]
      /\ \A i \in 1..Len(r) : x[Len(f) + 1 + i] = r[i]
  BY <1>1, <1>2, FieldRefFacts
<1>5. /\ Len(x) = Len(g) + 1 + Len(s) /\ x[Len(g) + 1] = "/"
      /\ \A i \in 1..Len(g) : x[i] = g[i]
      /\ \A i \in 1..Len(s) : x[Len(g) + 1 + i] = s[i]
  <2>1. x = FieldRef(g, s)
    BY <1>1
  <2> QED BY <1>2, <2>1, FieldRefFacts
<1>6. ~(Len(f) < Len(g))
  <2> SUFFICES ASSUME Len(f) < Len(g) PROVE FALSE
    OBVIOUS
  <2>1. Len(f) + 1 \in 1..Len(g)
    BY <1>3
  <2> QED BY <1>3, <1>4, <1>5, <2>1
<1>7. ~(Len(g) < Len(f))
  <2> SUFFICES ASSUME Len(g) < Len(f) PROVE FALSE
    OBVIOUS
  <2>1. Len(g) + 1 \in 1..Len(f)
    BY <1>3
  <2> QED BY <1>3, <1>4, <1>5, <2>1
<1>8. Len(f) = Len(g) /\ Len(r) = Len(s)
  BY <1>2, <1>3, <1>4, <1>5, <1>6, <1>7
<1>9. f = g
  BY <1>3, <1>4, <1>5, <1>8, SeqEqual
<1>10. r = s
  BY <1>2, <1>4, <1>5, <1>8, SeqEqual
<1> QED BY <1>9, <1>10

\* No field is a field reference, so that no query vector is a field vector.
LEMMA FieldIsNoRef ==
  ASSUME NEW f \in Fields
  PROVE  f \notin FieldRefs
<1> SUFFICES ASSUME NEW g \in Fields, NEW r \in DocRefs, f = FieldRef(g, r) PROVE FALSE
  BY DEF FieldRefs
<1>1. r \in Seq(STRING) /\ Len(r) \in Nat
  BY DocRefFacts, LenProperties
<1>2. Len(f) = Len(g) + 1 + Len(r) /\ f[Len(g) + 1] = "/"
  BY <1>1, FieldRefFacts
<1>3. Len(g) \in Nat /\ Len(f) \in Nat /\ \A i \in 1..Len(f) : f[i] # "/"
  BY FieldFacts
<1>4. Len(g) + 1 \in 1..Len(f)
  BY <1>1, <1>2, <1>3
<1> QED BY <1>2, <1>3, <1>4

LEMMA FrequenciesType ==
  ASSUME NEW ts \in Seq(WordOf)
  PROVE  /\ DOMAIN Frequencies(ts) = ToSet(ts)
         /\ ToSet(ts) \in SUBSET WordOf /\ IsFiniteSet(ToSet(ts))
         /\ \A t \in ToSet(ts) : Frequencies(ts)[t] \in Nat
<1>1. PICK n \in Nat : n = Len(ts)
  OBVIOUS
<1>2. DOMAIN ts = 1..n /\ \A i \in 1..n : ts[i] \in WordOf
  BY <1>1
<1>3. PICK T : T = ToSet(ts)
  OBVIOUS
<1>4. T = {ts[i] : i \in 1..n}
  BY <1>2, <1>3 DEF ToSet
<1>5. IsFiniteSet(1..n)
  BY FS_Interval
<1>6. IsFiniteSet(T)
  <2>1. ts \in [1..n -> T]
    BY <1>1, <1>2, <1>4
  <2>2. ts \in Surjection(1..n, T)
    BY <1>4, <2>1 DEF Surjection
  <2> QED BY <1>5, <2>2, FS_Surjection
<1>7. ASSUME NEW t \in T PROVE Cardinality({i \in DOMAIN ts : ts[i] = t}) \in Nat
  <2>1. {i \in DOMAIN ts : ts[i] = t} \in SUBSET (1..n)
    BY <1>2
  <2> QED BY <1>5, <2>1, FS_Subset, FS_CardinalityType
<1> QED BY <1>2, <1>3, <1>4, <1>6, <1>7 DEF Frequencies

\* Of each field of the documents passed, its terms and how often they are there.
FrequenciesRight(ftf, d) ==
  /\ DOMAIN ftf \subseteq FieldRefs
  /\ \A x \in DOMAIN ftf :
       /\ DOMAIN ftf[x] \in SUBSET WordOf /\ IsFiniteSet(DOMAIN ftf[x])
       /\ \A t \in DOMAIN ftf[x] : ftf[x][t] \in Nat
  /\ \A f \in Fields, i \in DOMAIN Documents :
       i > d => FieldRef(f, Documents[i].ref) \notin DOMAIN ftf

\* Postings and frequencies tell of the same terms.
PostingsAgree(inv, ftf) ==
  \A f \in Fields, r \in DocRefs, t \in WordOf :
    Names(inv, t, f, r) <=>
      FieldRef(f, r) \in DOMAIN ftf /\ t \in DOMAIN ftf[FieldRef(f, r)]

IndexRight(inv, ftf, d) ==
  PostingsRight(inv) /\ FrequenciesRight(ftf, d) /\ PostingsAgree(inv, ftf)

\* The frequencies with those of one more document.
RefsOf(doc) == {FieldRef(f, doc.ref) : f \in Fields}
FieldOf(doc, x) == CHOOSE f \in Fields : x = FieldRef(f, doc.ref)
Counted(ftf, doc) ==
  [x \in RefsOf(doc) \cup DOMAIN ftf |->
     IF x \in RefsOf(doc) THEN Frequencies(FieldTerms(doc, FieldOf(doc, x))) ELSE ftf[x]]

IsCounted(ftf, new, doc) ==
  /\ DOMAIN new = RefsOf(doc) \cup DOMAIN ftf
  /\ \A f \in Fields :
       /\ FieldRef(f, doc.ref) \in RefsOf(doc)
       /\ new[FieldRef(f, doc.ref)] = Frequencies(FieldTerms(doc, f))
  /\ \A x \in DOMAIN ftf : x \notin RefsOf(doc) => new[x] = ftf[x]

LEMMA CountedFacts ==
  ASSUME NEW ftf, NEW d \in DOMAIN Documents, NEW doc, doc = Documents[d]
  PROVE  IsCounted(ftf, Counted(ftf, doc), doc)
<1>1. doc.ref \in DocRefs
  BY DocumentFacts
<1>2. ASSUME NEW f \in Fields
      PROVE  FieldOf(doc, FieldRef(f, doc.ref)) = f
  <2>1. PICK x : x = FieldRef(f, doc.ref)
    OBVIOUS
  <2>2. \E g \in Fields : x = FieldRef(g, doc.ref)
    BY <2>1
  <2>3. FieldOf(doc, x) \in Fields /\ x = FieldRef(FieldOf(doc, x), doc.ref)
    BY <2>2, Zenon DEF FieldOf
  <2>4. PICK g \in Fields : g = FieldOf(doc, x)
    BY <2>3
  <2>5. FieldRef(f, doc.ref) = FieldRef(g, doc.ref)
    BY <2>1, <2>3, <2>4
  <2>6. f = g
    BY <1>1, <2>5, FieldRefDiffers
  <2> QED BY ONLY <2>1, <2>4, <2>6
<1>3. \A f \in Fields : FieldRef(f, doc.ref) \in RefsOf(doc)
  BY DEF RefsOf
<1> QED BY <1>2, <1>3 DEF Counted, IsCounted

LEMMA AddRight ==
  ASSUME NEW inv, NEW ftf, NEW c \in Nat, IndexRight(inv, ftf, c), Len(pipeline) \in Nat,
         NEW d \in c + 1..Len(Documents)
  PROVE  IndexRight(PostFields(inv, Documents[d]), Counted(ftf, Documents[d]), d)
<1>0. d \in DOMAIN Documents /\ d \in Nat
  BY LunrAssumption, LenProperties
<1>1. PICK doc : doc = Documents[d]
  OBVIOUS
<1>2. PICK res : res = PostFields(inv, doc)
  OBVIOUS
<1>3. PICK new : new = Counted(ftf, doc)
  OBVIOUS
<1>4. Posted(inv, res, TermsOfDoc(doc), doc.ref)
  BY <1>0, <1>1, <1>2, PostFieldsStep DEF IndexRight
<1>5. /\ DOMAIN new = RefsOf(doc) \cup DOMAIN ftf
      /\ \A f \in Fields :
           /\ FieldRef(f, doc.ref) \in RefsOf(doc)
           /\ new[FieldRef(f, doc.ref)] = Frequencies(FieldTerms(doc, f))
      /\ \A x \in DOMAIN ftf : x \notin RefsOf(doc) => new[x] = ftf[x]
  <2>1. IsCounted(ftf, new, doc)
    BY <1>0, <1>1, <1>3, CountedFacts
  <2> QED BY <2>1 DEF IsCounted
<1>6. \A f \in Fields : FieldTerms(doc, f) \in Seq(WordOf)
  BY <1>0, <1>1, FieldTermsType
<1>7. doc.ref \in DocRefs
  BY <1>0, <1>1, DocumentFacts
<1>8. \A f \in Fields : FieldRef(f, doc.ref) \notin DOMAIN ftf
  BY <1>0, <1>1 DEF IndexRight, FrequenciesRight
<1>9. FrequenciesRight(new, d)
  <2>1. RefsOf(doc) \subseteq FieldRefs
    BY <1>7 DEF RefsOf, FieldRefs
  <2>2. DOMAIN new \subseteq FieldRefs
    BY <1>5, <2>1 DEF IndexRight, FrequenciesRight
  <2>3. ASSUME NEW x \in DOMAIN new
        PROVE  /\ DOMAIN new[x] \in SUBSET WordOf /\ IsFiniteSet(DOMAIN new[x])
               /\ \A t \in DOMAIN new[x] : new[x][t] \in Nat
    <3>1. CASE x \in RefsOf(doc)
      <4>1. PICK f \in Fields : x = FieldRef(f, doc.ref)
        BY <3>1 DEF RefsOf
      <4>2. PICK ts \in Seq(WordOf) : ts = FieldTerms(doc, f)
        BY <1>6
      <4>3. PICK q : q = Frequencies(ts)
        OBVIOUS
      <4>4. new[x] = q
        BY <1>5, <4>1, <4>2, <4>3
      <4>5. /\ DOMAIN q \in SUBSET WordOf /\ IsFiniteSet(DOMAIN q)
            /\ \A t \in DOMAIN q : q[t] \in Nat
        BY <4>3, FrequenciesType
      <4> QED BY <4>4, <4>5
    <3>2. CASE x \notin RefsOf(doc)
      BY <1>5, <3>2 DEF IndexRight, FrequenciesRight
    <3> QED BY <3>1, <3>2
  <2>4. ASSUME NEW f \in Fields, NEW i \in DOMAIN Documents, i > d
        PROVE  FieldRef(f, Documents[i].ref) \notin DOMAIN new
    <3>0. i \in Nat
      BY LunrAssumption, LenProperties
    <3>1. FieldRef(f, Documents[i].ref) \notin DOMAIN ftf
      BY <3>0, <2>4, <1>0 DEF IndexRight, FrequenciesRight
    <3>2. Documents[i].ref # doc.ref
      <4>1. \A j, k \in DOMAIN Documents : Documents[j].ref = Documents[k].ref => j = k
        BY LunrAssumption
      <4>2. i # d
        BY <1>0, <2>4, <3>0
      <4> QED BY <1>0, <1>1, <4>1, <4>2
    <3>3. FieldRef(f, Documents[i].ref) \notin RefsOf(doc)
      <4>1. Documents[i].ref \in DocRefs
        BY DocumentFacts
      <4> QED BY <1>7, <3>2, <4>1, FieldRefDiffers DEF RefsOf
    <3> QED BY <1>5, <3>1, <3>3
  <2> QED BY <2>2, <2>3, <2>4 DEF FrequenciesRight
<1>10. ASSUME NEW f \in Fields, NEW r \in DocRefs, NEW t \in WordOf
       PROVE  Names(res, t, f, r) <=>
                FieldRef(f, r) \in DOMAIN new /\ t \in DOMAIN new[FieldRef(f, r)]
  <2>1. Names(res, t, f, r) <=>
          Names(inv, t, f, r) \/ (r = doc.ref /\ <<f, t>> \in TermsOfDoc(doc))
    BY <1>4 DEF Posted
  <2>2. <<f, t>> \in TermsOfDoc(doc) <=> t \in ToSet(FieldTerms(doc, f))
    BY DEF TermsOfDoc
  <2>3. Names(inv, t, f, r) <=>
          FieldRef(f, r) \in DOMAIN ftf /\ t \in DOMAIN ftf[FieldRef(f, r)]
    BY DEF IndexRight, PostingsAgree
  <2>4. CASE r = doc.ref
    <3>1. PICK ts \in Seq(WordOf) : ts = FieldTerms(doc, f)
      BY <1>6
    <3>2. DOMAIN Frequencies(ts) = ToSet(ts)
      BY FrequenciesType
    <3>3. FieldRef(f, r) \in DOMAIN new /\ DOMAIN new[FieldRef(f, r)] = ToSet(ts)
      BY <1>5, <2>4, <3>1, <3>2
    <3>4. ~Names(inv, t, f, r)
      BY <1>8, <2>3, <2>4
    <3> QED BY <2>1, <2>2, <2>4, <3>1, <3>3, <3>4
  <2>5. CASE r # doc.ref
    <3>1. FieldRef(f, r) \notin RefsOf(doc)
      BY <1>7, <2>5, FieldRefDiffers DEF RefsOf
    <3>2. FieldRef(f, r) \in DOMAIN new <=> FieldRef(f, r) \in DOMAIN ftf
      BY <1>5, <3>1
    <3>3. FieldRef(f, r) \in DOMAIN ftf => new[FieldRef(f, r)] = ftf[FieldRef(f, r)]
      BY <1>5, <3>1
    <3> QED BY <2>1, <2>3, <2>5, <3>2, <3>3
  <2> QED BY <2>4, <2>5
<1>11. PostingsRight(res)
  BY <1>4 DEF Posted
<1>12. IndexRight(res, new, d)
  BY <1>9, <1>10, <1>11 DEF IndexRight, PostingsAgree
<1> QED BY <1>1, <1>2, <1>3, <1>12

-----------------------------------------------------------------------------
(* The vectors of the fields.                                                *)

\* A term of a field is in the inverted index, and no other has its index.
LEMMA TermFacts ==
  ASSUME NEW inv, NEW ftf, NEW d, IndexRight(inv, ftf, d), NEW x \in DOMAIN ftf,
         NEW t \in DOMAIN ftf[x]
  PROVE  /\ x \in FieldRefs /\ t \in WordOf
         /\ t \in DOMAIN inv /\ inv[t].index \in Nat /\ ftf[x][t] \in Nat
         /\ \A u \in DOMAIN inv : inv[u].index = inv[t].index => u = t
<1>1. x \in FieldRefs /\ t \in WordOf /\ ftf[x][t] \in Nat
  BY DEF IndexRight, FrequenciesRight
<1>2. PICK f \in Fields, r \in DocRefs : x = FieldRef(f, r)
  BY <1>1 DEF FieldRefs
<1>3. Names(inv, t, f, r)
  BY <1>1, <1>2 DEF IndexRight, PostingsAgree
<1>4. t \in DOMAIN inv
  BY <1>3 DEF Names
<1>5. inv[t] \in Postings
  BY <1>4, InvertedFacts DEF IndexRight, PostingsRight
<1>6. \A u \in DOMAIN inv : inv[u].index = inv[t].index => u = t
  BY <1>4 DEF IndexRight, PostingsRight
<1> QED BY <1>1, <1>4, <1>5, <1>6 DEF Postings

PairOf(inv, ftf, x, t) == [index |-> inv[t].index, val |-> ftf[x][t]]

\* A vector has the pairs of the terms T and nothing else.
Holds(v, inv, ftf, x, T) ==
  /\ \A i \in 1..Len(v) : \E t \in T : v[i] = PairOf(inv, ftf, x, t)
  /\ \A t \in T : \E i \in 1..Len(v) : v[i] = PairOf(inv, ftf, x, t)
  /\ Len(v) = Cardinality(T)

LEMMA HoldsNone ==
  ASSUME NEW inv, NEW ftf, NEW x
  PROVE  Holds(<<>>, inv, ftf, x, {})
<1>1. Cardinality({}) = 0
  BY FS_EmptySet
<1>2. Len(<<>>) = 0
  OBVIOUS
<1> QED BY <1>1, <1>2 DEF Holds

\* One more term, wherever its pair is put.
LEMMA HoldsMore ==
  ASSUME NEW v \in Seq(Pairs), NEW p \in 0..Len(v), NEW inv, NEW ftf, NEW x, NEW T, NEW t,
         IsFiniteSet(T), t \notin T, Holds(v, inv, ftf, x, T),
         NEW e \in Pairs, e = PairOf(inv, ftf, x, t)
  PROVE  Holds(Splice(v, p, e), inv, ftf, x, T \cup {t})
<1>1. PICK w : w = Splice(v, p, e)
  OBVIOUS
<1>2. PICK n \in Nat : n = Len(v)
  OBVIOUS
<1>3. /\ Len(w) = n + 1
      /\ \A i \in 1..n + 1 : w[i] = IF i <= p THEN v[i] ELSE IF i = p + 1 THEN e ELSE v[i - 1]
  <2>1. /\ Len(Splice(v, p, e)) = Len(v) + 1
        /\ \A i \in 1..Len(v) + 1 :
             Splice(v, p, e)[i] = IF i <= p THEN v[i] ELSE IF i = p + 1 THEN e ELSE v[i - 1]
    BY SpliceFacts
  <2> QED BY ONLY <1>1, <1>2, <2>1
<1>4. p \in 0..n
  BY <1>2
<1>5. Cardinality(T \cup {t}) = n + 1
  BY <1>2, FS_AddElement DEF Holds
<1>6. ASSUME NEW i \in 1..n + 1
      PROVE  \E u \in T \cup {t} : w[i] = PairOf(inv, ftf, x, u)
  <2>1. CASE i = p + 1
    BY <1>3, <1>4, <2>1
  <2>2. CASE i <= p
    <3>1. i \in 1..Len(v) /\ w[i] = v[i]
      BY <1>2, <1>3, <1>4, <2>2
    <3> QED BY <3>1 DEF Holds
  <2>3. CASE i > p + 1
    <3>1. i - 1 \in 1..Len(v) /\ w[i] = v[i - 1]
      BY <1>2, <1>3, <1>4, <2>3
    <3> QED BY <3>1 DEF Holds
  <2> QED BY <1>4, <2>1, <2>2, <2>3
<1>7. ASSUME NEW u \in T \cup {t}
      PROVE  \E i \in 1..n + 1 : w[i] = PairOf(inv, ftf, x, u)
  <2>1. CASE u = t
    <3>1. p + 1 \in 1..n + 1 /\ w[p + 1] = e
      BY <1>3, <1>4
    <3> QED BY <2>1, <3>1
  <2>2. CASE u # t
    <3>1. PICK i \in 1..n : v[i] = PairOf(inv, ftf, x, u)
      BY <1>2, <2>2 DEF Holds
    <3>2. i <= p => i \in 1..n + 1 /\ w[i] = v[i]
      BY <1>3
    <3>3. ~(i <= p) => i + 1 \in 1..n + 1 /\ w[i + 1] = v[i]
      <4>1. ~(i <= p) => /\ i + 1 \in 1..n + 1 /\ ~(i + 1 <= p) /\ i + 1 # p + 1
                         /\ i + 1 - 1 = i
        BY <1>4
      <4> QED BY <1>3, <4>1
    <3> QED BY <3>1, <3>2, <3>3
  <2> QED BY <2>1, <2>2
<1>8. Holds(w, inv, ftf, x, T \cup {t})
  BY <1>3, <1>5, <1>6, <1>7 DEF Holds
<1> QED BY <1>1, <1>8

TermsIn(ftf, x) == IF x \in DOMAIN ftf THEN DOMAIN ftf[x] ELSE {}

Work(ftf) == UNION {{<<x, t>> : t \in DOMAIN ftf[x]} : x \in DOMAIN ftf}

LEMMA WorkIs ==
  ASSUME NEW ftf, NEW w \in Work(ftf)
  PROVE  /\ w[1] \in DOMAIN ftf /\ w[2] \in DOMAIN ftf[w[1]]
         /\ w = <<w[1], w[2]>>
BY DEF Work

LEMMA InWork ==
  ASSUME NEW ftf, NEW x \in DOMAIN ftf, NEW t \in DOMAIN ftf[x]
  PROVE  <<x, t>> \in Work(ftf)
BY DEF Work

\* The term whose pair is looked for a place, when an insert of index i into
\* vector v is under way (s).
Placing(inv, x, t, s, v, i) == s = "insert" /\ v = x /\ i = inv[t].index

\* The terms of a vector that are neither left to do nor under way.
Inserted(inv, ftf, x, work, s, v, i) ==
  {t \in TermsIn(ftf, x) : <<x, t>> \notin work /\ ~Placing(inv, x, t, s, v, i)}

\* While the vectors are made, what is in them has been inserted.
Making(inv, ftf, els, work, s, v, i, y) ==
  /\ work \subseteq Work(ftf)
  /\ s \in {"no", "insert"}
  /\ s = "insert" =>
       /\ v \in DOMAIN ftf
       /\ \E t \in DOMAIN ftf[v] : <<v, t>> \notin work /\ i = inv[t].index /\ y = ftf[v][t]
  /\ \A x \in FieldRefs : Holds(els[x], inv, ftf, x, Inserted(inv, ftf, x, work, s, v, i))

Made(inv, ftf, els) ==
  \A x \in FieldRefs : Holds(els[x], inv, ftf, x, TermsIn(ftf, x))

\* Queries change query vectors only, and while a query is read nothing else is
\* under way.
Asking(ph, st, s, v, work) ==
  /\ s # "no" => ph = "query" /\ st = "done" /\ s = "upsert" /\ v \in Fields
  /\ ph = "ready" => work = {}
  /\ ph = "query" =>
       /\ st # "done" => work = {}
       /\ \A w \in work : w.field \in Fields /\ w.index \in Nat /\ w.boost \in Nat

Phases == {"adding", "vectors", "tokens", "ready", "query", "answered", "threw"}

FillInv ==
  /\ phase \in Phases
  /\ document \in Nat
  /\ clauseIdx \in Nat
  /\ IndexRight(invertedIndex, fieldTermFrequencies, document)
  /\ phase = "adding" => Len(pipeline) \in Nat /\ \A x \in FieldRefs : elements[x] = <<>>
  /\ phase = "vectors" =>
       Making(invertedIndex, fieldTermFrequencies, elements, todo, searching, vec, insertIdx, val)
  /\ phase \notin {"adding", "vectors"} => Made(invertedIndex, fieldTermFrequencies, elements)
  /\ phase # "vectors" => Asking(phase, parseState, searching, vec, todo)

IndexInv == ParserInv /\ VectorInv /\ FillInv

LEMMA VectorsAre ==
  /\ \A x \in FieldRefs : x \in Vectors /\ x \notin Fields
  /\ \A f \in Fields : f \in Vectors /\ f \notin FieldRefs
BY LunrAssumption, FieldIsNoRef

\* The invariant says what is checked.
LEMMA IndexInvRight ==
  ASSUME IndexInv
  PROVE  IndexConsistent
<1>1. PICK inv : inv = invertedIndex
  OBVIOUS
<1>2. PICK ftf : ftf = fieldTermFrequencies
  OBVIOUS
<1>3. IndexRight(inv, ftf, document)
  BY <1>1, <1>2 DEF IndexInv, FillInv
<1>4. VectorSorted
  BY DEF IndexInv, VectorInv
<1>5. searching # "duplicate index"
  BY DEF IndexInv, FillInv, Making, Asking
<1>6. IndicesDiffer
  BY <1>1, <1>3 DEF IndexRight, PostingsRight, IndicesDiffer
<1>7. ASSUME Built PROVE VectorsAgree
  <2>1. Made(inv, ftf, elements)
    BY <1>1, <1>2, <1>7 DEF Built, IndexInv, FillInv
  <2>2. \A x \in FieldRefs : elements[x] \in Seq(Pairs)
    BY VectorsAre DEF IndexInv, VectorInv, VectorTypeOK
  <2>3. ASSUME NEW r \in DocRefs, NEW f \in Fields, NEW t \in DOMAIN inv
        PROVE  r \in inv[t].docs[f] <=>
                 \E i \in DOMAIN elements[FieldRef(f, r)] :
                   /\ elements[FieldRef(f, r)][i].index = inv[t].index
                   /\ elements[FieldRef(f, r)][i].val = ftf[FieldRef(f, r)][t]
    <3>1. PICK x : x = FieldRef(f, r)
      OBVIOUS
    <3>2. x \in FieldRefs
      BY <3>1 DEF FieldRefs
    <3>3. PICK v : v = elements[x]
      OBVIOUS
    <3>4. Holds(v, inv, ftf, x, TermsIn(ftf, x))
      BY <2>1, <3>2, <3>3 DEF Made
    <3>5. DOMAIN v = 1..Len(v)
      BY <2>2, <3>2, <3>3
    <3>6. t \in WordOf
      BY <1>3, InvertedFacts DEF IndexRight, PostingsRight
    <3>7. r \in inv[t].docs[f] <=> x \in DOMAIN ftf /\ t \in DOMAIN ftf[x]
      BY <1>3, <3>1, <3>6 DEF IndexRight, PostingsAgree, Names
    <3>8. ASSUME x \in DOMAIN ftf, t \in DOMAIN ftf[x]
          PROVE  \E i \in DOMAIN v : v[i].index = inv[t].index /\ v[i].val = ftf[x][t]
      <4>1. t \in TermsIn(ftf, x)
        BY <3>8 DEF TermsIn
      <4>2. PICK i \in 1..Len(v) : v[i] = PairOf(inv, ftf, x, t)
        BY <3>4, <4>1 DEF Holds
      <4> QED BY <3>5, <4>2 DEF PairOf
    <3>9. ASSUME NEW i \in DOMAIN v, v[i].index = inv[t].index
          PROVE  x \in DOMAIN ftf /\ t \in DOMAIN ftf[x]
      <4>1. PICK u \in TermsIn(ftf, x) : v[i] = PairOf(inv, ftf, x, u)
        BY <3>4, <3>5 DEF Holds
      <4>2. x \in DOMAIN ftf /\ u \in DOMAIN ftf[x]
        BY <4>1 DEF TermsIn
      <4>3. inv[u].index = inv[t].index
        BY <3>9, <4>1 DEF PairOf
      <4>4. t = u
        BY <1>3, <4>2, <4>3, TermFacts
      <4> QED BY <4>2, <4>4
    <3> QED BY <3>1, <3>3, <3>7, <3>8, <3>9
  <2>4. ASSUME NEW x \in FieldRefs
        PROVE  Len(elements[x]) = IF x \in DOMAIN ftf THEN Cardinality(DOMAIN ftf[x]) ELSE 0
    <3>1. Len(elements[x]) = Cardinality(TermsIn(ftf, x))
      BY <2>1 DEF Made, Holds
    <3> QED BY <3>1, FS_EmptySet DEF TermsIn
  <2> QED BY <1>1, <1>2, <2>3, <2>4 DEF VectorsAgree
<1> QED BY <1>4, <1>5, <1>6, <1>7 DEF IndexConsistent

-----------------------------------------------------------------------------
(* The filling of the vectors.                                               *)

LEMMA MakingBegins ==
  ASSUME NEW inv, NEW ftf, NEW els, \A x \in FieldRefs : els[x] = <<>>,
         NEW s, s = "no", NEW v, NEW i, NEW y
  PROVE  Making(inv, ftf, els, Work(ftf), s, v, i, y)
<1>1. ASSUME NEW x \in FieldRefs
      PROVE  Holds(els[x], inv, ftf, x, Inserted(inv, ftf, x, Work(ftf), s, v, i))
  <2>1. Inserted(inv, ftf, x, Work(ftf), s, v, i) = {}
    BY InWork DEF Inserted, TermsIn
  <2>2. Holds(<<>>, inv, ftf, x, {})
    BY HoldsNone
  <2> QED BY <2>1, <2>2
<1> QED BY <1>1 DEF Making

\* A piece of work that has been taken is under way.
LEMMA MakingStarts ==
  ASSUME NEW inv, NEW ftf, NEW d, IndexRight(inv, ftf, d), NEW els, NEW work,
         NEW s, s = "no", NEW v, NEW i, NEW y, Making(inv, ftf, els, work, s, v, i, y),
         NEW w \in work, NEW r, r = "insert"
  PROVE  Making(inv, ftf, els, work \ {w}, r, w[1], inv[w[2]].index, ftf[w[1]][w[2]])
<1>1. work \subseteq Work(ftf)
  BY DEF Making
<1>2. w[1] \in DOMAIN ftf /\ w[2] \in DOMAIN ftf[w[1]] /\ w = <<w[1], w[2]>>
  BY <1>1, WorkIs
<1>3. ASSUME NEW x \in FieldRefs
      PROVE  Inserted(inv, ftf, x, work, s, v, i) =
               Inserted(inv, ftf, x, work \ {w}, r, w[1], inv[w[2]].index)
  <2>1. ASSUME NEW t \in TermsIn(ftf, x)
        PROVE  <<x, t>> \notin work <=>
                 <<x, t>> \notin work \ {w} /\ ~(w[1] = x /\ inv[w[2]].index = inv[t].index)
    <3>1. t \in DOMAIN inv
      BY TermFacts DEF TermsIn
    <3>2. w[1] = x /\ inv[w[2]].index = inv[t].index => t = w[2]
      BY <1>2, <3>1, TermFacts
    <3> QED BY <1>2, <3>2
  <2> QED BY <2>1 DEF Inserted, Placing
<1>4. ASSUME NEW x \in FieldRefs
      PROVE  Holds(els[x], inv, ftf, x,
                   Inserted(inv, ftf, x, work \ {w}, r, w[1], inv[w[2]].index))
  BY <1>3 DEF Making
<1>5. <<w[1], w[2]>> \notin work \ {w}
  BY <1>2
<1> QED BY <1>1, <1>2, <1>4, <1>5 DEF Making

\* When its pair is put into the vector, no pair has its index.
LEMMA MakingPlaced ==
  ASSUME NEW inv, NEW ftf, NEW d, IndexRight(inv, ftf, d), NEW els \in [Vectors -> Seq(Pairs)],
         NEW work, NEW s, s = "insert", NEW v, NEW i \in Nat, NEW y \in Nat,
         Making(inv, ftf, els, work, s, v, i, y),
         NEW p \in 0..Len(els[v]), NEW e \in Pairs, e = [index |-> i, val |-> y],
         NEW r, r = "no", NEW j, NEW z
  PROVE  /\ \A k \in 1..Len(els[v]) : els[v][k].index # i
         /\ Making(inv, ftf, [els EXCEPT ![v] = Splice(@, p, e)], work, r, v, j, z)
<1>1. work \subseteq Work(ftf) /\ v \in DOMAIN ftf
  BY DEF Making
<1>2. PICK t \in DOMAIN ftf[v] : <<v, t>> \notin work /\ i = inv[t].index /\ y = ftf[v][t]
  BY DEF Making
<1>3. /\ v \in FieldRefs /\ t \in DOMAIN inv
      /\ \A u \in DOMAIN inv : inv[u].index = i => u = t
  BY <1>1, <1>2, TermFacts
<1>4. ASSUME NEW x \in FieldRefs
      PROVE  Inserted(inv, ftf, x, work, r, v, j) =
               Inserted(inv, ftf, x, work, s, v, i) \cup (IF x = v THEN {t} ELSE {})
  <2>1. ASSUME NEW u \in TermsIn(ftf, x)
        PROVE  v = x /\ i = inv[u].index => u = t
    BY <1>3, TermFacts DEF TermsIn
  <2>2. x = v => t \in TermsIn(ftf, x) /\ <<x, t>> \notin work
    BY <1>1, <1>2 DEF TermsIn
  <2> QED BY <1>2, <2>1, <2>2 DEF Inserted, Placing
<1>5. PICK T : T = Inserted(inv, ftf, v, work, s, v, i)
  OBVIOUS
<1>6. Holds(els[v], inv, ftf, v, T)
  BY <1>3, <1>5 DEF Making
<1>7. T \subseteq DOMAIN ftf[v] /\ t \notin T
  BY <1>1, <1>2, <1>5 DEF Inserted, Placing, TermsIn
<1>8. IsFiniteSet(T)
  <2>1. IsFiniteSet(DOMAIN ftf[v])
    BY <1>1 DEF IndexRight, FrequenciesRight
  <2> QED BY <1>7, <2>1, FS_Subset
<1>9. \A k \in 1..Len(els[v]) : els[v][k].index # i
  <2>1. SUFFICES ASSUME NEW k \in 1..Len(els[v]), els[v][k].index = i PROVE FALSE
    OBVIOUS
  <2>2. PICK u \in T : els[v][k] = PairOf(inv, ftf, v, u)
    BY <1>6 DEF Holds
  <2>3. inv[u].index = i
    BY <2>1, <2>2 DEF PairOf
  <2>4. u \in DOMAIN inv
    BY <1>1, <1>7, TermFacts
  <2> QED BY <1>3, <1>7, <2>3, <2>4
<1>10. v \in Vectors /\ els[v] \in Seq(Pairs)
  BY <1>3, VectorsAre
<1>11. PICK new : new = [els EXCEPT ![v] = Splice(els[v], p, e)]
  OBVIOUS
<1>12. ASSUME NEW x \in FieldRefs
       PROVE  Holds(new[x], inv, ftf, x, Inserted(inv, ftf, x, work, r, v, j))
  <2>1. CASE x = v
    <3>1. e = PairOf(inv, ftf, v, t)
      BY <1>2 DEF PairOf
    <3>2. Holds(Splice(els[v], p, e), inv, ftf, v, T \cup {t})
      BY <1>6, <1>7, <1>8, <1>10, <3>1, HoldsMore
    <3>3. new[v] = Splice(els[v], p, e)
      BY <1>10, <1>11
    <3>4. Inserted(inv, ftf, v, work, r, v, j) = T \cup {t}
      BY <1>3, <1>4, <1>5
    <3> QED BY <2>1, <3>2, <3>3, <3>4
  <2>2. CASE x # v
    <3>1. new[x] = els[x]
      BY <1>11, <2>2, VectorsAre
    <3>2. Inserted(inv, ftf, x, work, r, v, j) = Inserted(inv, ftf, x, work, s, v, i)
      BY <1>4, <2>2
    <3>3. Holds(els[x], inv, ftf, x, Inserted(inv, ftf, x, work, s, v, i))
      BY DEF Making
    <3> QED BY <3>1, <3>2, <3>3
  <2> QED BY <2>1, <2>2
<1>13. Making(inv, ftf, new, work, r, v, j, z)
  BY <1>1, <1>12 DEF Making
<1> QED BY <1>9, <1>11, <1>13

LEMMA MakingDone ==
  ASSUME NEW inv, NEW ftf, NEW els, NEW s, s = "no", NEW v, NEW i, NEW y,
         Making(inv, ftf, els, {}, s, v, i, y)
  PROVE  Made(inv, ftf, els)
<1>1. ASSUME NEW x \in FieldRefs
      PROVE  Inserted(inv, ftf, x, {}, s, v, i) = TermsIn(ftf, x)
  BY DEF Inserted, Placing
<1> QED BY <1>1 DEF Making, Made

LEMMA MadeKept ==
  ASSUME NEW inv, NEW ftf, NEW els, NEW new, Made(inv, ftf, els),
         \A x \in FieldRefs : new[x] = els[x]
  PROVE  Made(inv, ftf, new)
BY DEF Made

\* The vectors are not touched.
LEMMA VectorKept ==
  ASSUME VectorInv, UNCHANGED vector
  PROVE  VectorInv'
<1>1. /\ elements' = elements /\ searching' = searching /\ vec' = vec /\ insertIdx' = insertIdx
      /\ val' = val /\ sliceStart' = sliceStart /\ sliceEnd' = sliceEnd
      /\ pivotPoint' = pivotPoint
  BY DEF vector
<1>2. VectorTypeOK'
  BY <1>1 DEF VectorInv, VectorTypeOK
<1>3. VectorSorted'
  BY <1>1 DEF VectorInv, VectorSorted
<1>4. SearchBounded'
  BY <1>1 DEF VectorInv, SearchBounded, InSearch
<1> QED BY <1>2, <1>3, <1>4 DEF VectorInv

LEMMA IndexBegins ==
  ASSUME Init
  PROVE  IndexInv
<1>1. ParserInv
  BY ParserBegins DEF Init
<1>2. VectorInit
  BY LunrAssumption DEF Init
<1>3. VectorInv
  BY <1>2, VectorInitially
<1>4. /\ phase = "adding" /\ document = 0 /\ invertedIndex = <<>> /\ fieldTermFrequencies = <<>>
      /\ clauseIdx = 0 /\ pipeline = <<"trimmer", "stemmer">>
  BY DEF Init
<1>5. \A x \in FieldRefs : elements[x] = <<>>
  BY <1>2, VectorsAre DEF VectorInit
<1>6. Len(pipeline) \in Nat
  BY <1>4
<1>7. IndexRight(<<>>, <<>>, 0)
  <2>1. DOMAIN <<>> = {} /\ <<>> \in [{} -> Postings]
    OBVIOUS
  <2>2. IsFiniteSet({}) /\ {} \in SUBSET WordOf
    BY FS_EmptySet
  <2>3. <<>> \in Inverted
    BY <2>1, <2>2 DEF Inverted
  <2>4. PostingsRight(<<>>)
    BY <2>1, <2>3 DEF PostingsRight
  <2>5. FrequenciesRight(<<>>, 0)
    BY <2>1 DEF FrequenciesRight
  <2>6. PostingsAgree(<<>>, <<>>)
    BY <2>1 DEF PostingsAgree, Names
  <2> QED BY <2>4, <2>5, <2>6 DEF IndexRight
<1>8. Asking(phase, parseState, searching, vec, todo)
  BY <1>2, <1>4 DEF VectorInit, Asking
<1>9. FillInv
  BY <1>4, <1>5, <1>6, <1>7, <1>8 DEF FillInv, Phases
<1> QED BY <1>1, <1>3, <1>9 DEF IndexInv

LEMMA AddStep ==
  ASSUME IndexInv, Add
  PROVE  VectorInv' /\ FillInv'
<1>1. /\ phase = "adding" /\ phase' = phase /\ pipeline' = pipeline
      /\ UNCHANGED query /\ UNCHANGED vector /\ UNCHANGED parser
  BY Zenon DEF Add
<1>2. /\ todo' = todo /\ clauseIdx' = clauseIdx /\ elements' = elements /\ searching' = searching
      /\ vec' = vec /\ parseState' = parseState
  BY <1>1 DEF query, vector, parser
<1>3. PICK d \in document + 1..Len(Documents) :
        /\ document' = d
        /\ fieldTermFrequencies' = Counted(fieldTermFrequencies, Documents[d])
        /\ invertedIndex' = PostFields(invertedIndex, Documents[d])
  BY Zenon DEF Add, Counted, RefsOf, FieldOf
<1>4. /\ document \in Nat /\ clauseIdx \in Nat
      /\ IndexRight(invertedIndex, fieldTermFrequencies, document)
      /\ Len(pipeline) \in Nat /\ \A x \in FieldRefs : elements[x] = <<>>
      /\ Asking(phase, parseState, searching, vec, todo)
  BY <1>1 DEF IndexInv, FillInv
<1>5. IndexRight(PostFields(invertedIndex, Documents[d]),
                 Counted(fieldTermFrequencies, Documents[d]), d)
  BY <1>3, <1>4, AddRight
<1>6. IndexRight(invertedIndex, fieldTermFrequencies, document)'
  BY <1>3, <1>5, Zenon
<1>7. document' \in Nat
  BY <1>3, <1>4, LunrAssumption
<1>8. Asking(phase, parseState, searching, vec, todo)'
  BY <1>1, <1>2, <1>4, Zenon
<1>9. VectorInv'
  BY <1>1, VectorKept DEF IndexInv
<1> QED BY <1>1, <1>2, <1>4, <1>6, <1>7, <1>8, <1>9 DEF FillInv, Phases

\* In every other step the postings and the frequencies stay.
LEMMA IndexKept ==
  ASSUME IndexInv, UNCHANGED index
  PROVE  /\ document' \in Nat
         /\ IndexRight(invertedIndex, fieldTermFrequencies, document)'
<1>1. /\ document' = document /\ invertedIndex' = invertedIndex
      /\ fieldTermFrequencies' = fieldTermFrequencies
  BY DEF index
<1>2. document \in Nat /\ IndexRight(invertedIndex, fieldTermFrequencies, document)
  BY DEF IndexInv, FillInv
<1> QED BY <1>1, <1>2, Zenon

LEMMA BuildStep ==
  ASSUME IndexInv, Build
  PROVE  VectorInv' /\ FillInv'
<1>1. /\ phase = "adding" /\ phase' = "vectors"
      /\ document' = document /\ invertedIndex' = invertedIndex
      /\ fieldTermFrequencies' = fieldTermFrequencies /\ clauseIdx' = clauseIdx
      /\ UNCHANGED vector /\ UNCHANGED parser
  BY Zenon DEF Build
<1>2. todo' = Work(fieldTermFrequencies)
  BY Zenon DEF Build, Work
<1>3. /\ elements' = elements /\ searching' = searching
  BY <1>1 DEF vector
<1>4. /\ document \in Nat /\ clauseIdx \in Nat
      /\ IndexRight(invertedIndex, fieldTermFrequencies, document)
      /\ \A x \in FieldRefs : elements[x] = <<>>
      /\ Asking(phase, parseState, searching, vec, todo)
  BY <1>1 DEF IndexInv, FillInv
<1>5. searching = "no"
  BY <1>1, <1>4 DEF Asking
<1>6. PICK els, s, v, i, y : els = elements' /\ s = searching' /\ v = vec' /\ i = insertIdx' /\ y = val'
  OBVIOUS
<1>7. PICK inv, ftf : inv = invertedIndex /\ ftf = fieldTermFrequencies
  OBVIOUS
<1>8. Making(inv, ftf, els, Work(ftf), s, v, i, y)
  BY <1>3, <1>4, <1>5, <1>6, MakingBegins
<1>9. Making(invertedIndex, fieldTermFrequencies, elements, todo, searching, vec, insertIdx, val)'
  BY <1>1, <1>2, <1>6, <1>7, <1>8, Zenon
<1>10. IndexRight(invertedIndex, fieldTermFrequencies, document)'
  BY <1>1, <1>4, Zenon
<1>11. VectorInv'
  BY <1>1, VectorKept DEF IndexInv
<1> QED BY <1>1, <1>4, <1>9, <1>10, <1>11 DEF FillInv, Phases

LEMMA CreateFieldVectorsStep ==
  ASSUME IndexInv, CreateFieldVectors
  PROVE  VectorInv' /\ FillInv'
<1>1. /\ phase = "vectors" /\ phase' = phase /\ UNCHANGED index /\ clauseIdx' = clauseIdx
  BY Zenon DEF CreateFieldVectors
<1>2. PICK w \in todo :
        /\ Insert(w[1], invertedIndex[w[2]].index, fieldTermFrequencies[w[1]][w[2]])
        /\ todo' = todo \ {w}
  BY Zenon DEF CreateFieldVectors
<1>3. /\ clauseIdx \in Nat
      /\ IndexRight(invertedIndex, fieldTermFrequencies, document)
      /\ Making(invertedIndex, fieldTermFrequencies, elements, todo, searching, vec, insertIdx, val)
  BY <1>1 DEF IndexInv, FillInv
<1>4. PICK x, t : x = w[1] /\ t = w[2]
  OBVIOUS
<1>5. PICK inv, ftf, work : inv = invertedIndex /\ ftf = fieldTermFrequencies /\ work = todo \ {w}
  OBVIOUS
<1>6. x \in DOMAIN ftf /\ t \in DOMAIN ftf[x]
  <2>1. todo \subseteq Work(ftf)
    BY <1>3, <1>5 DEF Making
  <2> QED BY <1>2, <1>4, <2>1, WorkIs
<1>7. x \in Vectors /\ inv[t].index \in Nat /\ ftf[x][t] \in Nat
  BY <1>3, <1>5, <1>6, TermFacts, VectorsAre
<1>8. PositionForIndex("insert", x, inv[t].index, ftf[x][t])
  BY <1>2, <1>4, <1>5 DEF Insert
<1>9. VectorInv'
  BY <1>7, <1>8, StartStep DEF IndexInv
<1>10. /\ searching = "no" /\ searching' = "insert" /\ vec' = x /\ insertIdx' = inv[t].index
       /\ val' = ftf[x][t] /\ elements' = elements
  BY <1>8 DEF PositionForIndex
<1>11. PICK r : r = "insert"
  OBVIOUS
<1>12. Making(inv, ftf, elements, work, r, x, inv[t].index, ftf[x][t])
  BY <1>2, <1>3, <1>4, <1>5, <1>10, <1>11, MakingStarts
<1>13. invertedIndex' = inv /\ fieldTermFrequencies' = ftf /\ todo' = work
  BY <1>1, <1>2, <1>5 DEF index
<1>14. Making(invertedIndex, fieldTermFrequencies, elements, todo, searching, vec, insertIdx, val)'
  BY <1>10, <1>11, <1>12, <1>13, Zenon
<1>15. document' \in Nat /\ IndexRight(invertedIndex, fieldTermFrequencies, document)'
  BY <1>1, IndexKept
<1> QED BY <1>1, <1>3, <1>9, <1>14, <1>15 DEF FillInv, Phases

\* What places an insert or an upsert.
LEMMA PlaceIs ==
  ASSUME VectorInv, Place
  PROVE  LET e == [index |-> insertIdx, val |-> val] IN
         /\ e \in Pairs /\ insertIdx \in Nat /\ val \in Nat
         /\ elements \in [Vectors -> Seq(Pairs)]
         /\ Position \in 0..Len(elements[vec])
         /\ vec' = vec /\ searching \in {"insert", "upsert"}
         /\ \/ /\ Hit
               /\ Position + 1 \in 1..Len(elements[vec])
               /\ elements[vec][Position + 1].index = insertIdx
            \/ /\ ~Hit /\ searching' = "no"
               /\ elements' = [elements EXCEPT ![vec] = Splice(@, Position, e)]
<1>1. /\ elements \in [Vectors -> Seq(Pairs)] /\ vec \in Vectors
      /\ insertIdx \in Nat /\ val \in Nat
  BY DEF VectorInv, VectorTypeOK
<1>2. [index |-> insertIdx, val |-> val] \in Pairs
  BY <1>1 DEF Pairs
<1>3. Position \in 0..Len(elements[vec])
  BY PositionFound DEF Place
<1>4. vec' = vec /\ searching \in {"insert", "upsert"}
  BY DEF Place, InSearch
<1>5. CASE Hit
  <2>1. Position < Len(elements[vec]) /\ elements[vec][Position + 1].index = insertIdx
    BY <1>5 DEF Hit
  <2>2. Len(elements[vec]) \in Nat
    BY <1>1
  <2>3. Position + 1 \in 1..Len(elements[vec])
    BY <1>3, <2>1, <2>2
  <2> QED BY <1>1, <1>2, <1>3, <1>4, <1>5, <2>1, <2>3
<1>6. CASE ~Hit
  <2>1. /\ searching' = "no"
        /\ elements' = [elements EXCEPT ![vec] =
                          Splice(@, Position, [index |-> insertIdx, val |-> val])]
    BY <1>6, Zenon DEF Place
  <2> QED BY <1>1, <1>2, <1>3, <1>4, <1>6, <2>1
<1> QED BY <1>5, <1>6

LEMMA FillingStep ==
  ASSUME IndexInv, VectorStep, phase = "vectors"
  PROVE  VectorInv' /\ FillInv'
<1>1. /\ phase' = phase /\ UNCHANGED index /\ UNCHANGED query /\ (Probe \/ Place)
  BY Zenon DEF VectorStep
<1>2. clauseIdx' = clauseIdx /\ todo' = todo
  BY <1>1 DEF query
<1>3. /\ clauseIdx \in Nat
      /\ IndexRight(invertedIndex, fieldTermFrequencies, document)
      /\ Making(invertedIndex, fieldTermFrequencies, elements, todo, searching, vec, insertIdx, val)
      /\ VectorInv
  BY DEF IndexInv, FillInv
<1>4. VectorInv'
  BY <1>1, <1>3, ProbeStep, PlaceStep
<1>5. invertedIndex' = invertedIndex /\ fieldTermFrequencies' = fieldTermFrequencies
  BY <1>1 DEF index
<1>6. Making(invertedIndex, fieldTermFrequencies, elements, todo, searching, vec, insertIdx, val)'
  <2>1. CASE Probe
    <3>1. /\ elements' = elements /\ searching' = searching /\ vec' = vec
          /\ insertIdx' = insertIdx /\ val' = val
      BY <2>1 DEF Probe
    <3> QED BY <1>2, <1>3, <1>5, <3>1, Zenon
  <2>2. CASE Place
    <3>1. PICK p, e, els : /\ p = Position /\ e = [index |-> insertIdx, val |-> val]
                           /\ els = elements
      OBVIOUS
    <3>2. PICK inv, ftf, work, v, i, y, s :
            /\ inv = invertedIndex /\ ftf = fieldTermFrequencies /\ work = todo
            /\ v = vec /\ i = insertIdx /\ y = val /\ s = searching
      OBVIOUS
    <3>3. /\ e \in Pairs /\ i \in Nat /\ y \in Nat /\ els \in [Vectors -> Seq(Pairs)]
          /\ p \in 0..Len(els[v]) /\ vec' = v /\ s \in {"insert", "upsert"}
      BY <1>3, <2>2, <3>1, <3>2, PlaceIs
    <3>4. \/ p + 1 \in 1..Len(els[v]) /\ els[v][p + 1].index = i
          \/ searching' = "no" /\ elements' = [els EXCEPT ![v] = Splice(@, p, e)]
      BY <1>3, <2>2, <3>1, <3>2, PlaceIs
    <3>5. Making(inv, ftf, els, work, s, v, i, y) /\ IndexRight(inv, ftf, document)
      BY <1>3, <3>1, <3>2, Zenon
    <3>6. s = "insert"
      BY <3>3, <3>5 DEF Making
    <3>7. PICK r, j, z, d : r = "no" /\ j = insertIdx' /\ z = val' /\ d = document
      OBVIOUS
    <3>8. /\ \A k \in 1..Len(els[v]) : els[v][k].index # i
          /\ Making(inv, ftf, [els EXCEPT ![v] = Splice(@, p, e)], work, r, v, j, z)
      <4>1. e = [index |-> i, val |-> y]
        BY <3>1, <3>2
      <4>2. IndexRight(inv, ftf, d)
        BY <3>5, <3>7
      <4> QED BY ONLY <3>3, <3>5, <3>6, <3>7, <4>1, <4>2, MakingPlaced
    <3>9. searching' = r /\ elements' = [els EXCEPT ![v] = Splice(@, p, e)]
      BY <3>4, <3>7, <3>8
    <3> QED BY <1>2, <1>5, <3>2, <3>3, <3>7, <3>8, <3>9, Zenon
  <2> QED BY <1>1, <2>1, <2>2
<1>7. document' \in Nat /\ IndexRight(invertedIndex, fieldTermFrequencies, document)'
  BY <1>1, IndexKept
<1> QED BY <1>1, <1>2, <1>3, <1>4, <1>6, <1>7 DEF FillInv, Phases

LEMMA VectorsDoneStep ==
  ASSUME IndexInv, VectorsDone
  PROVE  VectorInv' /\ FillInv'
<1>1. /\ phase = "vectors" /\ phase' = "tokens" /\ UNCHANGED index /\ clauseIdx' = clauseIdx
      /\ todo = {} /\ searching = "no" /\ UNCHANGED vector
  BY Zenon DEF VectorsDone
<1>2. elements' = elements /\ searching' = searching
  BY <1>1 DEF vector
<1>3. /\ clauseIdx \in Nat /\ VectorInv
      /\ Making(invertedIndex, fieldTermFrequencies, elements, todo, searching, vec, insertIdx, val)
  BY <1>1 DEF IndexInv, FillInv
<1>4. PICK s : s = "no"
  OBVIOUS
<1>5. Making(invertedIndex, fieldTermFrequencies, elements, {}, s, vec, insertIdx, val)
  BY <1>1, <1>3, <1>4, Zenon
<1>6. Made(invertedIndex, fieldTermFrequencies, elements)
  BY <1>4, <1>5, MakingDone
<1>7. invertedIndex' = invertedIndex /\ fieldTermFrequencies' = fieldTermFrequencies
  BY <1>1 DEF index
<1>8. Made(invertedIndex, fieldTermFrequencies, elements)'
  BY <1>2, <1>6, <1>7, Zenon
<1>9. Asking(phase, parseState, searching, vec, todo)'
  BY <1>1, <1>2 DEF Asking
<1>10. document' \in Nat /\ IndexRight(invertedIndex, fieldTermFrequencies, document)'
  BY <1>1, IndexKept
<1>11. VectorInv'
  BY <1>1, <1>3, VectorKept
<1> QED BY <1>1, <1>3, <1>8, <1>9, <1>10, <1>11 DEF FillInv, Phases

\* Once they are built, field vectors stay.
LEMMA BuiltStep ==
  ASSUME IndexInv, phase \notin {"adding", "vectors"}, UNCHANGED index,
         \A x \in FieldRefs : elements'[x] = elements[x],
         phase' \in Phases, phase' \notin {"adding", "vectors"}, clauseIdx' \in Nat,
         Asking(phase, parseState, searching, vec, todo)'
  PROVE  FillInv'
<1>1. invertedIndex' = invertedIndex /\ fieldTermFrequencies' = fieldTermFrequencies
  BY DEF index
<1>2. Made(invertedIndex, fieldTermFrequencies, elements)
  BY DEF IndexInv, FillInv
<1>3. PICK inv, ftf, els, new : /\ inv = invertedIndex /\ ftf = fieldTermFrequencies
                                /\ els = elements /\ new = elements'
  OBVIOUS
<1>4. Made(inv, ftf, new)
  <2>1. Made(inv, ftf, els)
    BY <1>2, <1>3
  <2>2. \A x \in FieldRefs : new[x] = els[x]
    BY <1>3
  <2> QED BY <2>1, <2>2, MadeKept
<1>5. Made(invertedIndex, fieldTermFrequencies, elements)'
  BY <1>1, <1>3, <1>4, Zenon
<1>6. document' \in Nat /\ IndexRight(invertedIndex, fieldTermFrequencies, document)'
  BY IndexKept
<1> QED BY <1>5, <1>6 DEF FillInv

\* What the actions of queries start from.
LEMMA BuiltFacts ==
  ASSUME IndexInv, phase \notin {"adding", "vectors"}
  PROVE  /\ VectorInv /\ clauseIdx \in Nat
         /\ Asking(phase, parseState, searching, vec, todo)
         /\ phase # "query" => searching = "no"
BY DEF IndexInv, FillInv, Asking

LEMMA CreateTokenSetStep ==
  ASSUME IndexInv, CreateTokenSet
  PROVE  VectorInv' /\ FillInv'
<1>1. /\ phase = "tokens"
      /\ UNCHANGED <<index, clauseIdx, matchingFields, results, vector, lexer, parser>>
      /\ UNCHANGED phase \/ (phase' = "ready" /\ todo = {} /\ UNCHANGED todo)
  BY Zenon DEF CreateTokenSet
<1>2. /\ UNCHANGED index /\ UNCHANGED vector /\ clauseIdx' = clauseIdx /\ elements' = elements
      /\ searching' = searching
  BY <1>1 DEF vector
<1>3. VectorInv /\ clauseIdx \in Nat /\ searching = "no"
  BY <1>1, BuiltFacts
<1>4. Asking(phase, parseState, searching, vec, todo)'
  BY <1>1, <1>2, <1>3 DEF Asking
<1>5. FillInv'
  BY <1>1, <1>2, <1>3, <1>4, BuiltStep DEF Phases
<1> QED BY <1>2, <1>3, <1>5, VectorKept

LEMMA SearchStep ==
  ASSUME IndexInv, Search
  PROVE  VectorInv' /\ FillInv'
<1>1. phase = "ready" /\ phase' = "query" /\ UNCHANGED index /\ UNCHANGED query /\ UNCHANGED vector
  BY Zenon DEF Search
<1>2. /\ clauseIdx' = clauseIdx /\ elements' = elements /\ searching' = searching /\ todo' = todo
  BY <1>1 DEF vector, query
<1>3. /\ VectorInv /\ clauseIdx \in Nat /\ searching = "no"
      /\ Asking(phase, parseState, searching, vec, todo)
  BY <1>1, BuiltFacts
<1>4. Asking(phase, parseState, searching, vec, todo)'
  BY <1>1, <1>2, <1>3 DEF Asking
<1>5. FillInv'
  BY <1>1, <1>2, <1>3, <1>4, BuiltStep DEF Phases
<1> QED BY <1>1, <1>3, <1>5, VectorKept

LEMMA ParseIndexStep ==
  ASSUME IndexInv, Parse
  PROVE  VectorInv' /\ FillInv'
<1>1. /\ phase = "query" /\ phase' = phase /\ UNCHANGED index /\ UNCHANGED query
      /\ UNCHANGED vector /\ (LexNext \/ ParseNext)
  BY Zenon DEF Parse
<1>2. /\ clauseIdx' = clauseIdx /\ elements' = elements /\ searching' = searching
      /\ todo' = todo /\ vec' = vec
  BY <1>1 DEF vector, query
<1>3. /\ VectorInv /\ clauseIdx \in Nat
      /\ Asking(phase, parseState, searching, vec, todo)
  BY <1>1, BuiltFacts
<1>4. parseState # "done"
  <2>1. CASE LexNext
    <3>1. lexState # "done"
      BY <2>1 DEF LexNext, LexEscape, LexField, LexModifier, LexTerm, LexChar, LexEOS,
                  LexEditDistance, LexBoost, LexNumber, Lexing
    <3> QED BY <3>1 DEF IndexInv, ParserInv
  <2>2. CASE ParseNext
    BY <2>2 DEF ParseNext, ParseFieldOrTerm, ParseField, ParseTerm, ParseEditDistance,
                ParseBoost, Parsing
  <2> QED BY <1>1, <2>1, <2>2
<1>5. Asking(phase, parseState, searching, vec, todo)'
  BY <1>1, <1>2, <1>3, <1>4 DEF Asking
<1>6. FillInv'
  BY <1>1, <1>2, <1>3, <1>5, BuiltStep DEF Phases
<1> QED BY <1>1, <1>3, <1>6, VectorKept

LEMMA ParseFailsStep ==
  ASSUME IndexInv, ParseFails
  PROVE  VectorInv' /\ FillInv'
<1>1. /\ phase = "query" /\ parseState = "error" /\ phase' = "threw" /\ UNCHANGED index
      /\ UNCHANGED query /\ UNCHANGED vector
  BY Zenon DEF ParseFails
<1>2. /\ clauseIdx' = clauseIdx /\ elements' = elements /\ searching' = searching
  BY <1>1 DEF vector, query
<1>3. /\ VectorInv /\ clauseIdx \in Nat
      /\ Asking(phase, parseState, searching, vec, todo)
  BY <1>1, BuiltFacts
<1>4. Asking(phase, parseState, searching, vec, todo)'
  BY <1>1, <1>2, <1>3 DEF Asking
<1>5. FillInv'
  BY <1>1, <1>2, <1>3, <1>4, BuiltStep DEF Phases
<1> QED BY <1>1, <1>3, <1>5, VectorKept

\* The clauses that the parser has made say which query vectors are filled.
LEMMA QueryClauseStep ==
  ASSUME IndexInv, QueryClause
  PROVE  VectorInv' /\ FillInv'
<1>1. /\ phase = "query" /\ parseState = "done" /\ searching = "no"
      /\ clauseIdx < Len(clauses) /\ clauseIdx' = clauseIdx + 1
  BY DEF QueryClause
<1>a. UNCHANGED index /\ UNCHANGED vector /\ UNCHANGED parser
  BY DEF QueryClause
<1>2. PICK clause : clause = clauses[clauseIdx + 1]
  OBVIOUS
<1>t. PICK terms : terms = ExpandedTerms(clause)
  OBVIOUS
<1>3. \/ /\ phase' = phase /\ terms \subseteq DOMAIN invertedIndex
         /\ \A w \in todo' : \E f \in clause.fields, t \in terms :
              w = [field |-> f, index |-> invertedIndex[t].index, boost |-> clause.boost]
      \/ phase' = "threw"
  <2>1. CASE terms \subseteq DOMAIN invertedIndex
    <3>1. /\ phase' = phase
          /\ todo' = {[field |-> f, index |-> invertedIndex[t].index, boost |-> clause.boost] :
                      f \in clause.fields, t \in terms}
      BY <1>2, <1>t, <2>1 DEF QueryClause
    <3>2. \A w \in todo' : \E f \in clause.fields, t \in terms :
            w = [field |-> f, index |-> invertedIndex[t].index, boost |-> clause.boost]
      BY <3>1
    <3> QED BY <2>1, <3>1, <3>2
  <2>2. CASE ~(terms \subseteq DOMAIN invertedIndex)
    BY <1>2, <1>t, <2>2 DEF QueryClause
  <2> QED BY <2>1, <2>2, Zenon
<1>4. /\ elements' = elements /\ searching' = searching /\ parseState' = parseState
  BY <1>a, <1>1 DEF vector, parser
<1>5. /\ VectorInv /\ clauseIdx \in Nat
      /\ Asking(phase, parseState, searching, vec, todo)
  BY <1>1, BuiltFacts
<1>6. clause.fields \subseteq Fields /\ clause.boost \in Nat
  <2>1. clauses \in Seq(Clauses) /\ \A i \in 1..Len(clauses) : clauses[i].boost \in Nat
    BY DEF IndexInv, ParserInv, Parsed
  <2>2. clauseIdx + 1 \in 1..Len(clauses)
    BY <1>1, <1>5, <2>1
  <2>3. clause \in Clauses /\ clause.boost \in Nat
    BY <1>2, <2>1, <2>2
  <2> QED BY <2>3 DEF Clauses
<1>7. ASSUME NEW t \in DOMAIN invertedIndex PROVE invertedIndex[t].index \in Nat
  <2>1. invertedIndex \in Inverted
    BY DEF IndexInv, FillInv, IndexRight, PostingsRight
  <2>2. invertedIndex[t] \in Postings
    BY <2>1, InvertedFacts
  <2> QED BY <2>2 DEF Postings
<1>8. phase' = "query" => \A w \in todo' : w.field \in Fields /\ w.index \in Nat /\ w.boost \in Nat
  <2> SUFFICES ASSUME phase' = "query", NEW w \in todo'
               PROVE  w.field \in Fields /\ w.index \in Nat /\ w.boost \in Nat
    OBVIOUS
  <2>1. PICK f \in clause.fields, t \in terms :
          w = [field |-> f, index |-> invertedIndex[t].index, boost |-> clause.boost]
    BY <1>3
  <2>2. t \in DOMAIN invertedIndex
    BY <1>3
  <2> QED BY <1>6, <1>7, <2>1, <2>2
<1>9. Asking(phase, parseState, searching, vec, todo)'
  BY <1>1, <1>3, <1>4, <1>5, <1>8 DEF Asking
<1>10. clauseIdx' \in Nat
  BY <1>1, <1>5
<1>11. phase' \in Phases /\ phase' \notin {"adding", "vectors"}
  BY <1>1, <1>3 DEF Phases
<1>12. FillInv'
  BY <1>1, <1>a, <1>4, <1>9, <1>10, <1>11, BuiltStep
<1> QED BY <1>a, <1>5, <1>12, VectorKept

LEMMA UpsertTermStep ==
  ASSUME IndexInv, UpsertTerm
  PROVE  VectorInv' /\ FillInv'
<1>1. /\ phase = "query" /\ phase' = phase /\ UNCHANGED index /\ clauseIdx' = clauseIdx
      /\ UNCHANGED parser
  BY Zenon DEF UpsertTerm
<1>2. PICK w \in todo : Upsert(w.field, w.index, w.boost) /\ todo' = todo \ {w}
  BY Zenon DEF UpsertTerm
<1>3. /\ VectorInv /\ clauseIdx \in Nat
      /\ Asking(phase, parseState, searching, vec, todo)
  BY <1>1, BuiltFacts
<1>4. w.field \in Fields /\ w.index \in Nat /\ w.boost \in Nat /\ parseState = "done"
  BY <1>1, <1>2, <1>3 DEF Asking
<1>5. PositionForIndex("upsert", w.field, w.index, w.boost)
  BY <1>2 DEF Upsert
<1>6. VectorInv'
  BY <1>3, <1>4, <1>5, VectorsAre, StartStep
<1>7. searching' = "upsert" /\ vec' = w.field /\ elements' = elements
  BY <1>5 DEF PositionForIndex
<1>8. parseState' = parseState
  BY <1>1 DEF parser
<1>9. Asking(phase, parseState, searching, vec, todo)'
  BY <1>1, <1>2, <1>3, <1>4, <1>7, <1>8 DEF Asking
<1>10. FillInv'
  BY <1>1, <1>3, <1>7, <1>9, BuiltStep DEF Phases
<1> QED BY <1>6, <1>10

LEMMA ScoreStep ==
  ASSUME IndexInv, Score
  PROVE  VectorInv' /\ FillInv'
<1>1. /\ phase = "query" /\ phase' = "answered" /\ UNCHANGED index /\ clauseIdx' = clauseIdx
      /\ UNCHANGED vector /\ searching = "no"
  BY Zenon DEF Score
<1>2. /\ elements' = elements /\ searching' = searching
  BY <1>1 DEF vector
<1>3. /\ VectorInv /\ clauseIdx \in Nat
  BY <1>1, BuiltFacts
<1>4. Asking(phase, parseState, searching, vec, todo)'
  BY <1>1, <1>2 DEF Asking
<1>5. FillInv'
  BY <1>1, <1>2, <1>3, <1>4, BuiltStep DEF Phases
<1> QED BY <1>1, <1>3, <1>5, VectorKept

LEMMA ReturnStep ==
  ASSUME IndexInv, Return
  PROVE  VectorInv' /\ FillInv'
<1>1. /\ phase \in {"answered", "threw"} /\ phase' = "ready" /\ UNCHANGED index
      /\ clauseIdx' = 0 /\ todo' = {} /\ vec' = FieldList[1]
      /\ elements' = [v \in Vectors |-> IF v \in Fields THEN <<>> ELSE elements[v]]
      /\ searching' = searching /\ insertIdx' = insertIdx /\ val' = val
      /\ sliceStart' = sliceStart /\ sliceEnd' = sliceEnd /\ pivotPoint' = pivotPoint
  BY Zenon DEF Return
<1>2. VectorInv /\ searching = "no"
  BY <1>1, BuiltFacts
<1>3. VectorTypeOK'
  <2>1. FieldList[1] \in Vectors
    <3>1. FieldList \in Seq(Seq(STRING)) \ {<<>>} /\ Fields = ToSet(FieldList)
      BY LunrAssumption
    <3>2. 1 \in DOMAIN FieldList
      BY <3>1
    <3> QED BY <3>1, <3>2, VectorsAre DEF ToSet
  <2>2. elements' \in [Vectors -> Seq(Pairs)]
    BY <1>1, <1>2 DEF VectorInv, VectorTypeOK
  <2> QED BY <1>1, <1>2, <2>1, <2>2 DEF VectorInv, VectorTypeOK
<1>4. VectorSorted'
  BY <1>1, <1>2 DEF VectorInv, VectorSorted, Increasing
<1>5. SearchBounded'
  BY <1>1, <1>2 DEF SearchBounded, InSearch
<1>6. \A x \in FieldRefs : elements'[x] = elements[x]
  BY <1>1, VectorsAre
<1>7. Asking(phase, parseState, searching, vec, todo)'
  BY <1>1, <1>2 DEF Asking
<1>8. FillInv'
  BY <1>1, <1>6, <1>7, BuiltStep DEF Phases
<1> QED BY <1>3, <1>4, <1>5, <1>8 DEF VectorInv

\* A round of the search in a query vector, or its end.
LEMMA AskingStep ==
  ASSUME IndexInv, VectorStep, phase # "vectors"
  PROVE  VectorInv' /\ FillInv'
<1>1. /\ phase' = phase /\ UNCHANGED index /\ UNCHANGED query /\ UNCHANGED parser
      /\ (Probe \/ Place)
  BY Zenon DEF VectorStep
<1>2. clauseIdx' = clauseIdx /\ todo' = todo /\ parseState' = parseState
  BY <1>1 DEF query, parser
<1>3. /\ VectorInv /\ clauseIdx \in Nat /\ Asking(phase, parseState, searching, vec, todo)
  BY DEF IndexInv, FillInv
<1>4. searching \in {"insert", "upsert"}
  BY <1>1 DEF Probe, Place, InSearch
<1>5. phase = "query" /\ searching = "upsert" /\ vec \in Fields
  BY <1>3, <1>4 DEF Asking
<1>6. VectorInv'
  BY <1>1, <1>3, ProbeStep, PlaceStep
<1>7. /\ vec' = vec /\ searching' \in {searching, "no"}
      /\ \A x \in FieldRefs : elements'[x] = elements[x]
  <2>1. CASE Probe
    BY <2>1 DEF Probe
  <2>2. CASE Place
    <3>1. /\ vec' = vec /\ searching' = "no"
          /\ \/ elements' = [elements EXCEPT ![vec][Position + 1].val = @ + val]
             \/ elements' = [elements EXCEPT ![vec] =
                               Splice(@, Position, [index |-> insertIdx, val |-> val])]
      BY <1>5, <2>2, Zenon DEF Place, Combine
    <3>2. elements \in [Vectors -> Seq(Pairs)]
      BY <1>3 DEF VectorInv, VectorTypeOK
    <3>3. \A x \in FieldRefs : x \in Vectors /\ x # vec
      BY <1>5, VectorsAre
    <3> QED BY <3>1, <3>2, <3>3
  <2> QED BY <1>1, <2>1, <2>2
<1>8. Asking(phase, parseState, searching, vec, todo)'
  BY <1>1, <1>2, <1>3, <1>5, <1>7 DEF Asking
<1>9. FillInv'
  BY <1>1, <1>2, <1>3, <1>5, <1>7, <1>8, BuiltStep DEF Phases
<1> QED BY <1>6, <1>9

LEMMA StutterStep ==
  ASSUME IndexInv, UNCHANGED vars
  PROVE  VectorInv' /\ FillInv'
<1>1. phase' = phase /\ UNCHANGED index /\ UNCHANGED query /\ UNCHANGED vector /\ UNCHANGED parser
  BY DEF vars
<1>2. /\ clauseIdx' = clauseIdx /\ todo' = todo /\ parseState' = parseState
      /\ pipeline' = pipeline
      /\ invertedIndex' = invertedIndex /\ fieldTermFrequencies' = fieldTermFrequencies
      /\ document' = document /\ elements' = elements /\ searching' = searching /\ vec' = vec
      /\ insertIdx' = insertIdx /\ val' = val
  BY <1>1 DEF query, parser, index, vector
<1>3. FillInv /\ VectorInv
  BY DEF IndexInv
<1>4. VectorInv'
  BY <1>1, <1>3, VectorKept
<1>5. FillInv'
  BY <1>1, <1>2, <1>3, Zenon DEF FillInv
<1> QED BY <1>4, <1>5

\* Of every site, whatever its documents and whatever is asked: the indices of
\* all vectors increase and no insert meets an index that is there, so that
\* create never throws; no two terms have one index; and once the vectors are
\* built, those of the fields say exactly what the postings say.  The postings
\* are made word by word when a document is added, the vectors term by term from
\* the frequencies that the same step counted, each by a bisection of its own.
THEOREM IndexAlwaysConsistent == Spec => []IndexConsistent
<1>1. Init => IndexInv
  BY IndexBegins
<1>2. IndexInv /\ [Next]_vars => IndexInv'
  <2> SUFFICES ASSUME IndexInv, [Next]_vars PROVE IndexInv'
    OBVIOUS
  <2>1. ParserInv'
    <3>1. CASE Next
      BY <3>1, IndexStepParser, NewParserStep, LexStepParser, ParseStep, ParserKept DEF IndexInv
    <3>2. CASE UNCHANGED vars
      BY <3>2, ParserKept DEF vars, IndexInv
    <3> QED BY <3>1, <3>2
  <2>2. VectorInv' /\ FillInv'
    <3>1. CASE Add
      BY <3>1, AddStep
    <3>2. CASE Build
      BY <3>2, BuildStep
    <3>3. CASE CreateFieldVectors
      BY <3>3, CreateFieldVectorsStep
    <3>4. CASE VectorsDone
      BY <3>4, VectorsDoneStep
    <3>5. CASE CreateTokenSet
      BY <3>5, CreateTokenSetStep
    <3>6. CASE Search
      BY <3>6, SearchStep
    <3>7. CASE Parse
      BY <3>7, ParseIndexStep
    <3>8. CASE ParseFails
      BY <3>8, ParseFailsStep
    <3>9. CASE QueryClause
      BY <3>9, QueryClauseStep
    <3>10. CASE UpsertTerm
      BY <3>10, UpsertTermStep
    <3>11. CASE Score
      BY <3>11, ScoreStep
    <3>12. CASE Return
      BY <3>12, ReturnStep
    <3>13. CASE VectorStep
      BY <3>13, FillingStep, AskingStep
    <3>14. CASE UNCHANGED vars
      BY <3>14, StutterStep
    <3> QED BY <3>1, <3>2, <3>3, <3>4, <3>5, <3>6, <3>7, <3>8, <3>9, <3>10, <3>11, <3>12, <3>13,
               <3>14 DEF Next
  <2> QED BY <2>1, <2>2 DEF IndexInv
<1>3. IndexInv => IndexConsistent
  BY IndexInvRight
<1> QED BY <1>1, <1>2, <1>3, PTL DEF Spec
=============================================================================
