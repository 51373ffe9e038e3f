----------------------------- MODULE DocSiteProofs -----------------------------
(***************************************************************************)
(* The documentation site.  The outline of every page is nested right and  *)
(* complete, whatever its headers; the breadcrumb and the filter are right *)
(* for every table of contents, whatever comes and is typed in whatever    *)
(* order; groups of tabs agree, whatever is clicked.                       *)
(***************************************************************************)
EXTENDS DocSite, SequenceTheorems, WellFoundedInduction, TLAPS

-----------------------------------------------------------------------------
(* The outline of a page.                                                    *)

Headers == [level : 1..4, id : BOOLEAN]
Frame == [type : 1..4, siblings : Seq(Nat)]

OutlineTypeOK ==
  /\ headers \in Seq(Headers)
  /\ header \in Nat \ {0}
  /\ stack \in Seq(Frame)
  /\ items \in [DOMAIN headers -> Seq(Nat)]

\* A frame has headers that came before, with ids and of the frame's level.
FramesFull ==
  \A k \in 1..Len(stack) :
    /\ Len(stack[k].siblings) > 0
    /\ \A i \in 1..Len(stack[k].siblings) :
         LET s == stack[k].siblings[i] IN
         /\ s \in 1..header - 1 /\ s <= Len(headers)
         /\ headers[s].id /\ headers[s].level = stack[k].type

LevelsRise ==
  \A j, k \in 1..Len(stack) : j < k => stack[j].type < stack[k].type

\* The items of a frame came after the last one of the frame before it, and no
\* header since then ranks higher than they do.
FramesNest ==
  \A k \in 2..Len(stack) :
    /\ \A i \in 1..Len(stack[k].siblings) : LastSibling(k - 1) < stack[k].siblings[i]
    /\ \A q \in LastSibling(k - 1) + 1..header - 1 :
         headers[q].id => headers[q].level >= stack[k].type

\* While frames are popped, all headers since the last item of the new top rank
\* lower than the one that pops them.
PoppedRankLower ==
  header <= Len(headers) /\ Len(stack) > 0 =>
    \A q \in LastSibling(Len(stack)) + 1..header - 1 :
      headers[q].id => headers[header].id /\ headers[q].level > Level

OutlineInv ==
  /\ OutlineTypeOK
  /\ FramesFull
  /\ LevelsRise
  /\ FramesNest
  /\ PoppedRankLower
  /\ OutlineNests

-----------------------------------------------------------------------------
LEMMA OutlineInitially ==
  ASSUME NEW hs \in HeaderLists, OutlineInit(hs)
  PROVE  OutlineInv
<1>1. headers \in Seq(Headers)
  BY HeadersAssumption DEF OutlineInit, Headers
<1>2. items \in [DOMAIN headers -> Seq(Nat)]
  BY DEF OutlineInit
<1>3. stack \in Seq(Frame) /\ Len(stack) = 0
  BY DEF OutlineInit
<1>4. OutlineTypeOK
  BY <1>1, <1>2, <1>3 DEF OutlineTypeOK, OutlineInit
<1>5. OutlineNests
  BY DEF OutlineInit, OutlineNests
<1>6. QED
  BY <1>3, <1>4, <1>5 DEF OutlineInv, FramesFull, LevelsRise, FramesNest, PoppedRankLower

LEMMA SkipHeaderStep ==
  ASSUME OutlineInv, SkipHeader
  PROVE  OutlineInv'
<1>0. /\ header' = header + 1 /\ headers' = headers /\ stack' = stack /\ header \in Nat
      /\ ~headers[header].id
  BY DEF SkipHeader, AtHeader, OutlineInv, OutlineTypeOK
<1> USE DEF SkipHeader, AtHeader
<1>1. OutlineTypeOK'
  BY DEF OutlineInv, OutlineTypeOK
<1>2. FramesFull' /\ LevelsRise'
  BY DEF OutlineInv, FramesFull, LevelsRise, OutlineTypeOK
<1>3. FramesNest'
  <2>1. FramesNest /\ \A k : LastSibling(k)' = LastSibling(k)
    BY <1>0 DEF OutlineInv, LastSibling
  <2>2. ASSUME NEW k \in 2..Len(stack), NEW q \in LastSibling(k - 1) + 1..header, headers[q].id
        PROVE  headers[q].level >= stack[k].type
    <3>1. q \in LastSibling(k - 1) + 1..header - 1
      BY <1>0, <2>2
    <3> QED BY <2>1, <2>2, <3>1 DEF FramesNest
  <2>3. header' - 1 = header
    BY <1>0
  <2> QED BY <1>0, <2>1, <2>2, <2>3 DEF FramesNest
<1>4. PoppedRankLower'
  BY DEF OutlineInv, PoppedRankLower, OutlineTypeOK, LastSibling, Level
<1>5. OutlineNests'
  BY DEF OutlineInv, OutlineNests, Nests
<1>6. QED
  BY <1>1, <1>2, <1>3, <1>4, <1>5 DEF OutlineInv

\* The last item of a frame is a header that came before.
LEMMA LastSiblingBefore ==
  ASSUME OutlineTypeOK, FramesFull, NEW k \in 1..Len(stack)
  PROVE  /\ LastSibling(k) \in 1..header - 1 /\ LastSibling(k) <= Len(headers)
         /\ headers[LastSibling(k)].id /\ headers[LastSibling(k)].level = stack[k].type
<1>1. stack[k] \in Frame
  BY DEF OutlineTypeOK
<1>2. Len(stack[k].siblings) \in Nat /\ Len(stack[k].siblings) > 0
  BY <1>1 DEF Frame, FramesFull
<1>3. Len(stack[k].siblings) \in 1..Len(stack[k].siblings)
  BY <1>2
<1>4. QED
  BY <1>3 DEF FramesFull, LastSibling

\* What stands in one sequence behind another.
LEMMA ConcatElements ==
  ASSUME NEW a \in Seq(Nat), NEW b \in Seq(Nat), NEW i \in DOMAIN (a \o b)
  PROVE  \/ i \in DOMAIN a /\ (a \o b)[i] = a[i]
         \/ \E j \in 1..Len(b) : (a \o b)[i] = b[j]
<1>1. Len(a) \in Nat /\ Len(b) \in Nat /\ Len(a \o b) = Len(a) + Len(b)
  OBVIOUS
<1>2. i \in 1..Len(a) + Len(b)
  BY <1>1
<1>3. CASE i <= Len(a)
  BY <1>1, <1>2, <1>3
<1>4. CASE ~(i <= Len(a))
  <2>1. i - Len(a) \in 1..Len(b)
    BY <1>1, <1>2, <1>4
  <2>2. (a \o b)[i] = b[i - Len(a)]
    BY <1>1, <1>2, <1>4
  <2>3. QED BY <2>1, <2>2
<1>5. QED BY <1>3, <1>4

LEMMA PushFrameStep ==
  ASSUME OutlineInv, PushFrame
  PROVE  OutlineInv'
<1> SUFFICES ASSUME NEW n \in Nat, n = Len(stack)
             PROVE  OutlineInv'
  BY DEF OutlineInv, OutlineTypeOK
<1> USE DEF PushFrame, AtHeader
<1>1. /\ header \in 1..Len(headers) /\ header \in Nat /\ header' = header + 1
      /\ headers[header] \in Headers /\ headers[header].id
      /\ Level \in 1..4 /\ Level = headers[header].level
  <2>1. header \in Nat \ {0} /\ headers \in Seq(Headers)
    BY DEF OutlineInv, OutlineTypeOK
  <2>2. /\ header <= Len(headers) /\ header' = header + 1 /\ headers[header].id
    BY DEF PushFrame, AtHeader
  <2>3. headers[header] \in Headers
    BY <2>1, <2>2
  <2>4. QED
    BY <2>1, <2>2, <2>3 DEF Headers, Level
<1>2. \A k \in 1..n : stack[k] \in Frame /\ stack[k].siblings \in Seq(Nat)
                      /\ Len(stack[k].siblings) \in Nat /\ stack[k].type \in 1..4
  <2>1. \A k \in 1..n : stack[k] \in Frame
    BY DEF OutlineInv, OutlineTypeOK
  <2>2. QED BY <2>1 DEF Frame
<1>3. /\ Len(stack') = n + 1 /\ stack' \in Seq(Frame)
      /\ \A k \in 1..n : stack'[k] = stack[k]
      /\ stack'[n + 1] = [type |-> Level, siblings |-> <<header>>]
  <2>1. [type |-> Level, siblings |-> <<header>>] \in Frame
    BY <1>1 DEF Frame
  <2>2. QED
    BY <2>1 DEF OutlineInv, OutlineTypeOK
<1>4. /\ stack'[n + 1].type = Level /\ Len(stack'[n + 1].siblings) = 1
      /\ stack'[n + 1].siblings[1] = header
  BY <1>3
<1>5. \A k \in 1..n + 1 : k \in 1..n \/ k = n + 1
  OBVIOUS
<1>6. OutlineTypeOK'
  BY <1>1, <1>3 DEF OutlineInv, OutlineTypeOK
<1>7. FramesFull'
  <2> SUFFICES ASSUME NEW k \in 1..n + 1
               PROVE  /\ Len(stack'[k].siblings) > 0
                      /\ \A i \in 1..Len(stack'[k].siblings) :
                           /\ stack'[k].siblings[i] \in 1..header
                           /\ stack'[k].siblings[i] <= Len(headers)
                           /\ headers[stack'[k].siblings[i]].id
                           /\ headers[stack'[k].siblings[i]].level = stack'[k].type
    BY <1>1, <1>3 DEF FramesFull
  <2>1. CASE k \in 1..n
    BY <2>1, <1>1, <1>2, <1>3 DEF OutlineInv, FramesFull
  <2>2. CASE k = n + 1
    BY <2>2, <1>1, <1>4
  <2>3. QED BY <2>1, <2>2, <1>5
<1>8. \A k \in 1..n : stack[k].type < Level
  <2> SUFFICES ASSUME NEW k \in 1..n
               PROVE  stack[k].type < Level
    OBVIOUS
  <2>1. n \in 1..n /\ stack[n].type < Level
    <3>1. n > 0 /\ stack # <<>>
      BY DEF OutlineInv, OutlineTypeOK
    <3>2. QED
      BY <3>1, <1>1, <1>2 DEF Top
  <2>2. k < n => stack[k].type < stack[n].type
    BY <2>1 DEF OutlineInv, LevelsRise
  <2>3. stack[k].type \in 1..4 /\ stack[n].type \in 1..4 /\ (k < n \/ k = n)
    BY <2>1, <1>2
  <2>4. QED
    BY <2>1, <2>2, <2>3, <1>1
<1>9. LevelsRise'
  BY <1>3, <1>4, <1>5, <1>8 DEF OutlineInv, LevelsRise
<1>10. /\ \A k \in 1..n : LastSibling(k)' = LastSibling(k)
       /\ LastSibling(n + 1)' = header
  BY <1>3, <1>4 DEF LastSibling
<1>11. \A k \in 1..n : LastSibling(k) \in 1..header - 1
  BY LastSiblingBefore DEF OutlineInv
<1>12. FramesNest'
  <2> SUFFICES ASSUME NEW k \in 2..n + 1
               PROVE  /\ \A i \in 1..Len(stack'[k].siblings) :
                            LastSibling(k - 1) < stack'[k].siblings[i]
                      /\ \A q \in LastSibling(k - 1) + 1..header :
                            headers[q].id => headers[q].level >= stack'[k].type
    <3>1. \A k \in 2..n + 1 : k - 1 \in 1..n
      OBVIOUS
    <3>2. header + 1 - 1 = header
      BY <1>1
    <3>3. QED
      BY <3>1, <3>2, <1>1, <1>3, <1>10 DEF FramesNest, LastSibling
  <2>1. k - 1 \in 1..n /\ (k \in 2..n \/ k = n + 1) /\ k \in 1..n + 1
    OBVIOUS
  <2>2. LastSibling(k - 1) \in 1..header - 1
    BY <2>1, <1>11
  <2>3. \A q \in LastSibling(k - 1) + 1..header : q = header \/ q \in LastSibling(k - 1) + 1..header - 1
    BY <2>2, <1>1
  <2>4. CASE k \in 2..n
    <3>1. stack'[k] = stack[k] /\ stack[k].type < Level /\ stack[k].type \in 1..4
      BY <1>2, <1>3, <1>8, <2>4
    <3>2. /\ \A i \in 1..Len(stack[k].siblings) : LastSibling(k - 1) < stack[k].siblings[i]
          /\ \A q \in LastSibling(k - 1) + 1..header - 1 :
               headers[q].id => headers[q].level >= stack[k].type
      BY <2>4 DEF OutlineInv, FramesNest
    <3>3. headers[header].level >= stack[k].type
      BY <3>1, <1>1
    <3>4. QED
      BY <2>3, <3>1, <3>2, <3>3
  <2>5. CASE k = n + 1
    <3>1. LastSibling(k - 1) = LastSibling(Len(stack)) /\ Len(stack) > 0
      BY <2>1, <2>5
    <3>2. \A q \in LastSibling(k - 1) + 1..header - 1 : headers[q].id => headers[q].level > Level
      BY <3>1, <1>1 DEF OutlineInv, PoppedRankLower
    <3>3. \A q \in LastSibling(k - 1) + 1..header - 1 : headers[q].level \in 1..4
      <4>1. \A q \in LastSibling(k - 1) + 1..header - 1 : headers[q] \in Headers
        BY <2>2, <1>1 DEF OutlineInv, OutlineTypeOK
      <4>2. QED BY <4>1 DEF Headers
    <3>4. ASSUME NEW q \in LastSibling(k - 1) + 1..header - 1, headers[q].id
          PROVE  headers[q].level >= Level
      <4>1. headers[q].level > Level /\ headers[q].level \in 1..4
        BY <3>2, <3>3, <3>4
      <4>2. \A x, y \in 1..4 : x > y => x >= y
        OBVIOUS
      <4>3. QED BY <4>1, <4>2, <1>1
    <3>5. headers[header].level >= Level
      BY <1>1
    <3>6. LastSibling(k - 1) < header
      BY <2>2, <1>1
    <3>7. QED
      BY <2>3, <2>5, <3>4, <3>5, <3>6, <1>4
  <2>6. QED
    BY <2>1, <2>4, <2>5
<1>13. PoppedRankLower'
  <2>1. LastSibling(Len(stack))' = header
    BY <1>3, <1>10 DEF LastSibling
  <2>2. header + 1..header' - 1 = {}
    BY <1>1
  <2>3. QED
    BY <2>1, <2>2 DEF PoppedRankLower
<1>14. OutlineNests'
  BY DEF OutlineInv, OutlineNests, Nests
<1>15. QED
  BY <1>6, <1>7, <1>9, <1>12, <1>13, <1>14 DEF OutlineInv

LEMMA PushSiblingStep ==
  ASSUME OutlineInv, PushSibling
  PROVE  OutlineInv'
<1> SUFFICES ASSUME NEW n \in Nat \ {0}, n = Len(stack),
                    NEW m \in Nat, m = Len(stack[n].siblings)
             PROVE  OutlineInv'
  <2>1. Len(stack) \in Nat \ {0}
    BY DEF PushSibling, OutlineInv, OutlineTypeOK
  <2>2. stack[Len(stack)] \in Frame
    BY <2>1 DEF OutlineInv, OutlineTypeOK
  <2>3. Len(stack[Len(stack)].siblings) \in Nat
    BY <2>2 DEF Frame
  <2>4. QED BY <2>1, <2>3
<1>0. UNCHANGED <<headers, items>>
  BY DEF PushSibling
<1>1. /\ header \in 1..Len(headers) /\ header \in Nat /\ header' = header + 1
      /\ headers[header] \in Headers /\ headers[header].id
      /\ Level \in 1..4 /\ Level = headers[header].level
  <2>1. header \in Nat \ {0} /\ headers \in Seq(Headers)
    BY DEF OutlineInv, OutlineTypeOK
  <2>2. /\ header <= Len(headers) /\ header' = header + 1 /\ headers[header].id
    BY DEF PushSibling, AtHeader
  <2>3. headers[header] \in Headers
    BY <2>1, <2>2
  <2>4. QED
    BY <2>1, <2>2, <2>3 DEF Headers, Level
<1>2. \A k \in 1..n : stack[k] \in Frame /\ stack[k].siblings \in Seq(Nat)
                      /\ Len(stack[k].siblings) \in Nat /\ stack[k].type \in 1..4
  <2>1. \A k \in 1..n : stack[k] \in Frame
    BY DEF OutlineInv, OutlineTypeOK
  <2>2. QED BY <2>1 DEF Frame
<1>3. n \in 1..n /\ (\A i \in 1..m + 1 : i \in 1..m \/ i = m + 1)
  OBVIOUS
<1>4. Level = stack[n].type
  BY DEF PushSibling, Top
<1>5. /\ Append(stack[n].siblings, header) \in Seq(Nat)
      /\ Len(Append(stack[n].siblings, header)) = m + 1
      /\ Append(stack[n].siblings, header)[m + 1] = header
      /\ \A i \in 1..m : Append(stack[n].siblings, header)[i] = stack[n].siblings[i]
  BY <1>1, <1>2, <1>3
<1>6. /\ Len(stack') = n
      /\ \A k \in 1..n : k # n => stack'[k] = stack[k]
      /\ stack'[n].type = stack[n].type
      /\ stack'[n].siblings = Append(stack[n].siblings, header)
      /\ stack' \in Seq(Frame)
  <2>1. stack' = [stack EXCEPT ![n] = [stack[n] EXCEPT !.siblings = Append(stack[n].siblings, header)]]
    BY <1>3, <1>2 DEF PushSibling
  <2>2. [stack[n] EXCEPT !.siblings = Append(stack[n].siblings, header)] \in Frame
    BY <1>2, <1>3, <1>5 DEF Frame
  <2>3. stack \in Seq(Frame)
    BY DEF OutlineInv, OutlineTypeOK
  <2>4. QED
    BY <2>1, <2>2, <2>3, <1>2, <1>3 DEF Frame
<1>7. /\ Len(stack'[n].siblings) = m + 1
      /\ stack'[n].siblings[m + 1] = header
      /\ \A i \in 1..m : stack'[n].siblings[i] = stack[n].siblings[i]
  BY <1>5, <1>6
<1>8. /\ \A k \in 1..n : k # n => LastSibling(k)' = LastSibling(k)
      /\ LastSibling(n)' = header
  BY <1>3, <1>6, <1>7 DEF LastSibling
<1>9. OutlineTypeOK'
  BY <1>0, <1>1, <1>6 DEF OutlineInv, OutlineTypeOK
<1>10. FramesFull'
  <2> SUFFICES ASSUME NEW k \in 1..n
               PROVE  /\ Len(stack'[k].siblings) > 0
                      /\ \A i \in 1..Len(stack'[k].siblings) :
                           /\ stack'[k].siblings[i] \in 1..header
                           /\ stack'[k].siblings[i] <= Len(headers)
                           /\ headers[stack'[k].siblings[i]].id
                           /\ headers[stack'[k].siblings[i]].level = stack'[k].type
    BY <1>0, <1>1, <1>6 DEF FramesFull
  <2>1. CASE k # n
    <3>1. 1..header - 1 \subseteq 1..header
      BY <1>1
    <3>2. stack'[k] = stack[k]
      BY <2>1, <1>6
    <3>3. QED
      BY <3>1, <3>2 DEF OutlineInv, FramesFull
  <2>2. CASE k = n
    <3>1. \A i \in 1..m : /\ stack[n].siblings[i] \in 1..header
                          /\ stack[n].siblings[i] <= Len(headers)
                          /\ headers[stack[n].siblings[i]].id
                          /\ headers[stack[n].siblings[i]].level = stack[n].type
      BY <1>1, <1>3 DEF OutlineInv, FramesFull
    <3>2. ASSUME NEW i \in 1..m + 1
          PROVE  /\ stack'[n].siblings[i] \in 1..header
                 /\ stack'[n].siblings[i] <= Len(headers)
                 /\ headers[stack'[n].siblings[i]].id
                 /\ headers[stack'[n].siblings[i]].level = stack[n].type
      <4>1. CASE i \in 1..m
        BY <4>1, <3>1, <1>7
      <4>2. CASE i = m + 1
        <5>1. header \in 1..header /\ header <= Len(headers)
          BY <1>1
        <5>2. stack'[n].siblings[i] = header
          BY <4>2, <1>7
        <5>3. headers[header].level = stack[n].type
          BY <1>1, <1>4
        <5>4. QED BY <5>1, <5>2, <5>3, <1>1
      <4>3. QED BY <4>1, <4>2, <1>3
    <3>3. m + 1 > 0
      OBVIOUS
    <3>4. QED
      BY <2>2, <3>2, <3>3, <1>6, <1>7
  <2>3. QED BY <2>1, <2>2
<1>11. LevelsRise'
  BY <1>6 DEF OutlineInv, LevelsRise
<1>12. FramesNest'
  <2> SUFFICES ASSUME NEW k \in 2..n
               PROVE  /\ \A i \in 1..Len(stack'[k].siblings) :
                            LastSibling(k - 1) < stack'[k].siblings[i]
                      /\ \A q \in LastSibling(k - 1) + 1..header :
                            headers[q].id => headers[q].level >= stack'[k].type
    <3>1. \A j \in 2..n : j - 1 \in 1..n /\ j - 1 # n
      OBVIOUS
    <3>2. \A j \in 2..n : LastSibling(j - 1)' = LastSibling(j - 1)
      BY <3>1, <1>8
    <3>3. header' - 1 = header /\ headers' = headers /\ Len(stack') = n
      BY <1>0, <1>1, <1>6
    <3>4. QED
      BY <3>2, <3>3 DEF FramesNest
  <2>0. k - 1 \in 1..n /\ k \in 1..n
    OBVIOUS
  <2>1. LastSibling(k - 1) \in 1..header - 1
    BY <2>0, LastSiblingBefore DEF OutlineInv
  <2>2. /\ \A i \in 1..Len(stack[k].siblings) : LastSibling(k - 1) < stack[k].siblings[i]
        /\ \A q \in LastSibling(k - 1) + 1..header - 1 :
             headers[q].id => headers[q].level >= stack[k].type
    BY DEF OutlineInv, FramesNest
  <2>3. stack'[k].type = stack[k].type /\ headers[header].level >= stack[k].type
    <3>1. k < n => stack[k].type < stack[n].type
      BY <2>0, <1>3 DEF OutlineInv, LevelsRise
    <3>2. stack[k].type \in 1..4 /\ stack[n].type \in 1..4 /\ (k < n \/ k = n)
      BY <2>0, <1>2, <1>3
    <3>3. stack'[k].type = stack[k].type
      BY <2>0, <1>6
    <3>4. QED
      BY <3>1, <3>2, <3>3, <1>1, <1>4
  <2>4. \A q \in LastSibling(k - 1) + 1..header : q = header \/ q \in LastSibling(k - 1) + 1..header - 1
    BY <2>1, <1>1
  <2>5. \A i \in 1..Len(stack'[k].siblings) : LastSibling(k - 1) < stack'[k].siblings[i]
    <3>1. CASE k # n
      BY <3>1, <2>0, <2>2, <1>6
    <3>2. CASE k = n
      <4>1. \A i \in 1..m : LastSibling(k - 1) < stack[n].siblings[i]
        BY <3>2, <2>2
      <4>2. LastSibling(k - 1) < header
        BY <2>1, <1>1
      <4>3. QED
        BY <3>2, <4>1, <4>2, <1>3, <1>7
    <3>3. QED BY <3>1, <3>2
  <2>6. QED
    BY <2>2, <2>3, <2>4, <2>5
<1>13. PoppedRankLower'
  <2>1. LastSibling(Len(stack))' = header
    BY <1>6, <1>8 DEF LastSibling
  <2>2. header + 1..header' - 1 = {}
    BY <1>1
  <2>3. QED
    BY <2>1, <2>2 DEF PoppedRankLower
<1>14. OutlineNests'
  BY <1>0 DEF OutlineInv, OutlineNests, Nests
<1>15. QED
  BY <1>9, <1>10, <1>11, <1>12, <1>13, <1>14 DEF OutlineInv

\* Popping a frame; `header` stays, and ranks above it if it is a header.
LEMMA BuildParentStep ==
  ASSUME OutlineInv, BuildParent, Len(stack) > 0,
         header <= Len(headers) => headers[header].id /\ Level < Top.type
  PROVE  OutlineInv'
<1> SUFFICES ASSUME NEW n \in Nat \ {0}, n = Len(stack)
             PROVE  OutlineInv'
  BY DEF OutlineInv, OutlineTypeOK
<1>1. /\ n \in Nat \ {0} /\ header \in Nat \ {0} /\ stack \in Seq(Frame)
      /\ headers \in Seq(Headers)
  BY DEF OutlineInv, OutlineTypeOK
<1>2. \A k \in 1..n : stack[k] \in Frame /\ stack[k].siblings \in Seq(Nat)
                      /\ Len(stack[k].siblings) \in Nat /\ stack[k].type \in 1..4
  <2>1. \A k \in 1..n : stack[k] \in Frame
    BY <1>1
  <2>2. QED BY <2>1 DEF Frame
<1>3. CASE n = 1
  <2>1. /\ Len(stack') = 0 /\ stack' \in Seq(Frame)
        /\ UNCHANGED <<headers, header, items>>
    BY <1>3 DEF BuildParent
  <2>2. OutlineTypeOK' /\ OutlineNests'
    BY <2>1 DEF OutlineInv, OutlineTypeOK, OutlineNests, Nests
  <2>3. QED
    BY <2>1, <2>2 DEF OutlineInv, FramesFull, LevelsRise, FramesNest, PoppedRankLower
<1>4. CASE n > 1
  <2> SUFFICES ASSUME NEW p, p = LastSibling(n - 1),
                      NEW s, s = stack[n].siblings
               PROVE  OutlineInv'
    OBVIOUS
  <2>1. /\ Len(stack') = n - 1 /\ stack' \in Seq(Frame)
        /\ \A k \in 1..n - 1 : stack'[k] = stack[k]
        /\ UNCHANGED <<headers, header>>
    BY <1>1, <1>4 DEF BuildParent
  <2>2. \A k \in 1..n - 1 : LastSibling(k)' = LastSibling(k)
    BY <2>1 DEF LastSibling
  <2>3. n \in 1..n /\ n - 1 \in 1..n /\ n \in 2..n
    BY <1>1, <1>4
  <2>4. p \in 1..header - 1 /\ p <= Len(headers) /\ headers[p].id
        /\ headers[p].level = stack[n - 1].type
    BY <2>3, LastSiblingBefore DEF OutlineInv
  <2>5. /\ \A i \in 1..Len(s) : p < s[i]
        /\ \A q \in p + 1..header - 1 : headers[q].id => headers[q].level >= stack[n].type
    BY <2>3 DEF OutlineInv, FramesNest
  <2>6. p \in DOMAIN items /\ items[p] \in Seq(Nat) /\ s \in Seq(Nat)
    BY <2>3, <2>4, <1>1, <1>2 DEF OutlineInv, OutlineTypeOK
  <2>7. items' = [items EXCEPT ![p] = items[p] \o s]
    BY <1>4 DEF BuildParent, Attached, Top
  <2>8. \A i \in 1..Len(s) : Nests(p, s[i])
    <3>1. ASSUME NEW i \in 1..Len(s)
          PROVE  Nests(p, s[i])
      <4>1. s[i] \in 1..header - 1 /\ headers[s[i]].id /\ headers[s[i]].level = stack[n].type
        BY <2>3 DEF OutlineInv, FramesFull
      <4>2. stack[n - 1].type < stack[n].type
        BY <2>3, <1>1 DEF OutlineInv, LevelsRise
      <4>3. \A q \in p + 1..s[i] - 1 : q \in p + 1..header - 1
        BY <4>1, <2>4, <1>1
      <4>4. QED
        BY <4>1, <4>2, <4>3, <2>4, <2>5 DEF Nests
    <3>2. QED BY <3>1
  <2>9. OutlineTypeOK'
    BY <2>1, <2>6, <2>7 DEF OutlineInv, OutlineTypeOK
  <2>10. FramesFull' /\ LevelsRise'
    <3>1. \A k \in 1..n - 1 : k \in 1..n
      OBVIOUS
    <3>2. FramesFull'
      <4> SUFFICES ASSUME NEW k \in 1..n - 1
                   PROVE  /\ Len(stack[k].siblings) > 0
                          /\ \A i \in 1..Len(stack[k].siblings) :
                               /\ stack[k].siblings[i] \in 1..header - 1
                               /\ stack[k].siblings[i] <= Len(headers)
                               /\ headers[stack[k].siblings[i]].id
                               /\ headers[stack[k].siblings[i]].level = stack[k].type
        BY <2>1 DEF FramesFull
      <4>1. QED
        BY <3>1 DEF OutlineInv, FramesFull
    <3>3. QED
      BY <3>1, <3>2, <2>1 DEF OutlineInv, LevelsRise
  <2>11. FramesNest'
    <3> SUFFICES ASSUME NEW k \in 2..n - 1
                 PROVE  /\ \A i \in 1..Len(stack'[k].siblings) :
                              LastSibling(k - 1)' < stack'[k].siblings[i]
                        /\ \A q \in LastSibling(k - 1)' + 1..header' - 1 :
                              headers'[q].id => headers'[q].level >= stack'[k].type
      BY <2>1 DEF FramesNest
    <3>1. k \in 2..n /\ k \in 1..n - 1 /\ k - 1 \in 1..n - 1
      BY <1>1
    <3>2. QED
      BY <3>1, <2>1, <2>2 DEF OutlineInv, FramesNest
  <2>12. PoppedRankLower'
    <3> SUFFICES ASSUME header <= Len(headers), NEW q \in p + 1..header - 1, headers[q].id
                 PROVE  headers[header].id /\ headers[q].level > Level
      <4>1. LastSibling(n - 1)' = p
        BY <2>2, <2>3, <1>4
      <4>2. LastSibling(Len(stack))' = p
        BY <4>1, <2>1 DEF LastSibling
      <4>3. QED
        BY <4>2, <2>1 DEF PoppedRankLower, Level
    <3>1. headers[q].level >= stack[n].type
      BY <2>5
    <3>2. Level < stack[n].type
      BY DEF Top
    <3>3. headers[q] \in Headers /\ headers[header] \in Headers
      BY <1>1, <2>4
    <3>4. headers[q].level \in 1..4 /\ Level \in 1..4 /\ stack[n].type \in 1..4
      BY <3>3, <2>3, <1>2 DEF Level, Headers
    <3>5. headers[header].id
      OBVIOUS
    <3>6. QED
      BY <3>1, <3>2, <3>4, <3>5
  <2>13. OutlineNests'
    <3>0. DOMAIN items' = DOMAIN items
      BY <2>7
    <3> SUFFICES ASSUME NEW r \in DOMAIN items, NEW i \in DOMAIN items'[r]
                 PROVE  Nests(r, items'[r][i])
      BY <3>0, <2>1 DEF OutlineNests, Nests
    <3>1. CASE r # p
      BY <3>1, <2>7 DEF OutlineInv, OutlineNests
    <3>2. CASE r = p
      <4>1. items'[r] = items[p] \o s
        BY <3>2, <2>6, <2>7
      <4>2. \/ i \in DOMAIN items[p] /\ items'[r][i] = items[p][i]
            \/ \E j \in 1..Len(s) : items'[r][i] = s[j]
        <5>1. PICK a \in Seq(Nat) : a = items[p]
          BY <2>6
        <5>2. i \in DOMAIN (a \o s) /\ s \in Seq(Nat)
          BY <4>1, <5>1, <2>6
        <5>3. \/ i \in DOMAIN a /\ (a \o s)[i] = a[i]
              \/ \E j \in 1..Len(s) : (a \o s)[i] = s[j]
          BY <5>2, ConcatElements
        <5>4. QED BY <4>1, <5>1, <5>3
      <4>3. QED
        BY <4>2, <3>2, <2>6, <2>8 DEF OutlineInv, OutlineNests
    <3>3. QED BY <3>1, <3>2
  <2>14. QED
    BY <2>9, <2>10, <2>11, <2>12, <2>13 DEF OutlineInv
<1>5. QED
  BY <1>1, <1>3, <1>4

-----------------------------------------------------------------------------
LEMMA OutlineStep ==
  ASSUME OutlineInv, [OutlineNext]_outline
  PROVE  OutlineInv'
<1>1. CASE SkipHeader
  BY <1>1, SkipHeaderStep
<1>2. CASE PushFrame
  BY <1>2, PushFrameStep
<1>3. CASE PushSibling
  BY <1>3, PushSiblingStep
<1>4. CASE PopFrame
  <2>1. Len(stack) > 0
    BY <1>4 DEF PopFrame, OutlineInv, OutlineTypeOK
  <2>2. QED
    BY <2>1, <1>4, BuildParentStep DEF PopFrame
<1>5. CASE Collapse
  <2>1. Len(stack) > 0 /\ ~(header <= Len(headers))
    BY <1>5 DEF Collapse, AtEnd, OutlineInv, OutlineTypeOK
  <2>2. QED
    BY <2>1, <1>5, BuildParentStep DEF Collapse
<1>6. CASE Return
  BY <1>6 DEF Return, OutlineInv, OutlineTypeOK, FramesFull, LevelsRise, FramesNest,
                    PoppedRankLower, OutlineNests, Nests, LastSibling, Level
<1>7. CASE UNCHANGED outline
  BY <1>7 DEF outline, OutlineInv, OutlineTypeOK, FramesFull, LevelsRise, FramesNest,
                    PoppedRankLower, OutlineNests, Nests, LastSibling, Level
<1>8. QED
  BY <1>1, <1>2, <1>3, <1>4, <1>5, <1>6, <1>7 DEF OutlineNext

LEMMA NestsAlone == OutlineSpec => []OutlineNests
<1>1. (\E hs \in HeaderLists : OutlineInit(hs)) => OutlineInv
  BY OutlineInitially
<1>2. OutlineInv /\ [OutlineNext]_outline => OutlineInv'
  BY OutlineStep
<1>3. OutlineInv => OutlineNests
  BY DEF OutlineInv
<1>4. QED
  BY <1>1, <1>2, <1>3, PTL DEF OutlineSpec

-----------------------------------------------------------------------------
(* The outline has all headers, or the page has one that ranks above its   *)
(* first.                                                                  *)

\* A header that was come to and is in the outline.
Past(q) == q \in 1..header - 1 /\ q <= Len(headers) /\ headers[q].id
IsBelow(q) == \E p \in DOMAIN items : \E i \in DOMAIN items[p] : items[p][i] = q
InFrame(k, q) == \E i \in 1..Len(stack[k].siblings) : stack[k].siblings[i] = q
InStack(q) == \E k \in 1..Len(stack) : InFrame(k, q)

\* The first header, with a type that no other one ranks above.
FirstRanks ==
  IF stack = <<>> THEN \A q \in Nat : ~Past(q)
  ELSE \A q \in Nat : Past(q) => /\ stack[1].siblings[1] <= q
                                 /\ headers[q].level >= stack[1].type

RanksAbove ==
  \E i, j \in 1..Len(headers) :
    /\ headers[i].id /\ headers[j].id
    /\ \A k \in 1..Len(headers) : headers[k].id => i <= k
    /\ headers[j].level < headers[i].level

\* Each header so far is an item below another one or is in one frame still.
CompleteInv ==
  /\ outlineState = "threw" => RanksAbove
  /\ outlineState # "threw" =>
       /\ \A q \in Nat : Past(q) <=> IsBelow(q) \/ InStack(q)
       /\ \A q \in Nat : ~(IsBelow(q) /\ InStack(q))
       /\ FirstRanks
  /\ outlineState = "done" => header > Len(headers) /\ Len(stack) <= 1

LEMMA InitComplete ==
  ASSUME NEW hs \in HeaderLists, OutlineInit(hs)
  PROVE  CompleteInv
<1>1. /\ header = 1 /\ stack = <<>> /\ outlineState = "building"
      /\ items = [i \in DOMAIN headers |-> <<>>]
  BY DEF OutlineInit
<1>2. \A q : ~Past(q) /\ ~IsBelow(q) /\ ~InStack(q)
  BY <1>1 DEF Past, IsBelow, InStack
<1> QED BY <1>1, <1>2 DEF CompleteInv, FirstRanks

LEMMA SkipHeaderComplete ==
  ASSUME OutlineInv, CompleteInv, SkipHeader
  PROVE  CompleteInv'
<1>1. /\ header \in Nat /\ header' = header + 1 /\ ~headers[header].id
      /\ outlineState' = "building" /\ outlineState = "building"
      /\ UNCHANGED <<headers, stack, items>>
  BY DEF SkipHeader, AtHeader, OutlineInv, OutlineTypeOK
<1>2. \A q : Past(q)' <=> Past(q)
  BY <1>1 DEF Past
<1>3. \A q : (IsBelow(q)' <=> IsBelow(q)) /\ (InStack(q)' <=> InStack(q))
  BY <1>1 DEF IsBelow, InStack, InFrame
<1> QED BY <1>1, <1>2, <1>3 DEF CompleteInv, FirstRanks

\* What is common to the two branches that put `header` on the stack.
LEMMA PushComplete ==
  ASSUME OutlineInv, CompleteInv, AtHeader, headers[header].id, header' = header + 1,
         UNCHANGED <<headers, items, outlineState>>,
         stack' # <<>>,
         \A q \in Nat : InStack(q)' <=> InStack(q) \/ q = header,
         stack = <<>> => stack'[1].siblings[1] = header /\ stack'[1].type = Level,
         stack # <<>> => /\ stack'[1].siblings[1] = stack[1].siblings[1]
                         /\ stack'[1].type = stack[1].type
                         /\ Level >= stack[1].type
                         /\ stack[1].siblings[1] \in 1..header - 1
  PROVE  CompleteInv'
<1>1. /\ header \in Nat \ {0} /\ header <= Len(headers) /\ outlineState = "building"
      /\ Len(headers) \in Nat /\ headers[header].level \in 1..4
  <2>1. headers \in Seq(Headers) /\ header \in Nat \ {0} /\ header <= Len(headers)
    BY DEF AtHeader, OutlineInv, OutlineTypeOK
  <2>2. headers[header] \in Headers
    BY <2>1
  <2> QED BY <2>1, <2>2 DEF AtHeader, Headers
<1>2. \A q \in Nat : Past(q)' <=> Past(q) \/ q = header
  BY <1>1 DEF Past
<1>3. ~Past(header)
  BY <1>1 DEF Past
<1>4. \A q : IsBelow(q)' <=> IsBelow(q)
  BY DEF IsBelow
<1>5. FirstRanks'
  <2> SUFFICES ASSUME NEW q \in Nat, Past(q)'
               PROVE  stack'[1].siblings[1] <= q /\ headers[q].level >= stack'[1].type
    BY DEF FirstRanks
  <2>1. CASE stack = <<>>
    <3>1. q = header
      BY <2>1, <1>1, <1>2 DEF CompleteInv, FirstRanks
    <3> QED BY <3>1, <2>1, <1>1 DEF Level
  <2>2. CASE stack # <<>>
    <3>1. Past(q) => stack[1].siblings[1] <= q /\ headers[q].level >= stack[1].type
      BY <2>2, <1>1 DEF CompleteInv, FirstRanks
    <3>2. q = header => stack[1].siblings[1] <= q /\ headers[q].level >= stack[1].type
      BY <2>2, <1>1 DEF Level
    <3> QED BY <3>1, <3>2, <2>2, <1>2
  <2> QED BY <2>1, <2>2
<1> QED BY <1>1, <1>2, <1>3, <1>4, <1>5 DEF CompleteInv

\* Frames hold sequences, and the first frame ranks highest.
LEMMA FrameFacts ==
  ASSUME OutlineInv, NEW n \in Nat, n = Len(stack)
  PROVE  /\ \A k \in 1..n : /\ stack[k] \in Frame
                            /\ stack[k].siblings \in Seq(Nat)
                            /\ Len(stack[k].siblings) \in Nat \ {0}
                            /\ stack[k].type \in 1..4
         /\ \A k \in 1..n : stack[1].type <= stack[k].type
         /\ n > 0 => stack[1].siblings[1] \in 1..header - 1
         /\ stack = <<>> <=> n = 0
<1>1. stack \in Seq(Frame)
  BY DEF OutlineInv, OutlineTypeOK
<1>2. \A k \in 1..n : stack[k] \in Frame
  BY <1>1
<1>3. \A k \in 1..n : /\ stack[k].siblings \in Seq(Nat)
                      /\ Len(stack[k].siblings) \in Nat \ {0}
                      /\ stack[k].type \in 1..4
  BY <1>2 DEF Frame, OutlineInv, FramesFull
<1>4. \A k \in 1..n : 1 < k => 1 \in 1..n /\ stack[1].type < stack[k].type
  BY DEF OutlineInv, LevelsRise
<1>5. ASSUME NEW k \in 1..n
      PROVE  stack[1].type <= stack[k].type
  <2>1. 1 \in 1..n /\ stack[1].type \in 1..4 /\ stack[k].type \in 1..4 /\ (1 < k \/ k = 1)
    BY <1>3
  <2> QED BY <2>1, <1>4
<1>6. n > 0 => stack[1].siblings[1] \in 1..header - 1
  <2>1. n > 0 => 1 \in 1..n /\ 1 \in 1..Len(stack[1].siblings)
    BY <1>3
  <2> QED BY <2>1 DEF OutlineInv, FramesFull
<1> QED BY <1>1, <1>2, <1>3, <1>5, <1>6

LEMMA PushFrameComplete ==
  ASSUME OutlineInv, CompleteInv, PushFrame
  PROVE  CompleteInv'
<1> SUFFICES ASSUME NEW n \in Nat, n = Len(stack) PROVE CompleteInv'
  BY DEF OutlineInv, OutlineTypeOK
<1>1. stack \in Seq(Frame) /\ header \in Nat /\ Level \in 1..4
  <2>1. headers \in Seq(Headers) /\ header \in Nat \ {0} /\ header <= Len(headers)
    BY DEF PushFrame, AtHeader, OutlineInv, OutlineTypeOK
  <2>2. headers[header] \in Headers
    BY <2>1
  <2> QED BY <2>1, <2>2 DEF OutlineInv, OutlineTypeOK, Headers, Level
<1>2. /\ Len(stack') = n + 1 /\ \A k \in 1..n : stack'[k] = stack[k]
      /\ stack'[n + 1] = [type |-> Level, siblings |-> <<header>>]
  <2>1. [type |-> Level, siblings |-> <<header>>] \in Frame
    BY <1>1 DEF Frame
  <2> QED BY <1>1, <2>1 DEF PushFrame
<1>3. stack'[n + 1].type = Level /\ Len(stack'[n + 1].siblings) = 1 /\ stack'[n + 1].siblings[1] = header
  BY <1>2
<1>4. \A q \in Nat : InStack(q)' <=> InStack(q) \/ q = header
  <2> SUFFICES ASSUME NEW q \in Nat PROVE InStack(q)' <=> InStack(q) \/ q = header
    OBVIOUS
  <2>1. InStack(q)' <=> \E k \in 1..n + 1 : InFrame(k, q)'
    BY <1>2 DEF InStack, InFrame
  <2>2. \A k \in 1..n : InFrame(k, q)' <=> InFrame(k, q)
    BY <1>2 DEF InFrame
  <2>3. InFrame(n + 1, q)' <=> q = header
    BY <1>3 DEF InFrame
  <2>4. \A k \in 1..n + 1 : k \in 1..n \/ k = n + 1
    OBVIOUS
  <2>5. 1..n \subseteq 1..n + 1 /\ n + 1 \in 1..n + 1
    OBVIOUS
  <2> QED BY <2>1, <2>2, <2>3, <2>4, <2>5 DEF InStack
<1>5. stack' # <<>>
  BY <1>2
<1>6. stack = <<>> => stack'[1].siblings[1] = header /\ stack'[1].type = Level
  BY <1>3
<1>7. stack # <<>> => /\ stack'[1].siblings[1] = stack[1].siblings[1]
                      /\ stack'[1].type = stack[1].type
                      /\ Level >= stack[1].type
                      /\ stack[1].siblings[1] \in 1..header - 1
  <2> SUFFICES ASSUME stack # <<>>
               PROVE  /\ stack'[1] = stack[1] /\ Level >= stack[1].type
                      /\ stack[1].siblings[1] \in 1..header - 1
    OBVIOUS
  <2>1. n > 0 /\ 1 \in 1..n /\ n \in 1..n
    BY <1>1
  <2>2. Level > stack[n].type
    BY DEF PushFrame, Top
  <2>3. stack[1].type <= stack[n].type /\ stack[1].type \in 1..4 /\ stack[n].type \in 1..4
    BY <2>1, FrameFacts
  <2> QED BY <1>1, <1>2, <2>1, <2>2, <2>3, FrameFacts
<1> QED BY <1>4, <1>5, <1>6, <1>7, PushComplete DEF PushFrame

LEMMA PushSiblingComplete ==
  ASSUME OutlineInv, CompleteInv, PushSibling
  PROVE  CompleteInv'
<1> SUFFICES ASSUME NEW n \in Nat, n = Len(stack),
                    NEW m \in Nat, m = Len(stack[n].siblings), n > 0, m > 0
             PROVE  CompleteInv'
  <2>1. Len(stack) \in Nat /\ Len(stack) > 0
    BY DEF PushSibling, OutlineInv, OutlineTypeOK
  <2>2. Len(stack[Len(stack)].siblings) \in Nat \ {0}
    BY <2>1, FrameFacts
  <2> QED BY <2>1, <2>2
<1>1. /\ n \in 1..n /\ 1 \in 1..n /\ header \in Nat
      /\ stack[n] \in Frame /\ stack[n].siblings \in Seq(Nat)
  <2>1. n \in 1..n /\ 1 \in 1..n
    OBVIOUS
  <2> QED BY <2>1, FrameFacts DEF OutlineInv, OutlineTypeOK
<1>2. /\ Len(stack') = n
      /\ \A k \in 1..n : stack'[k].type = stack[k].type
      /\ \A k \in 1..n : k # n => stack'[k] = stack[k]
      /\ stack'[n].siblings = Append(stack[n].siblings, header)
  <2>1. stack' = [stack EXCEPT ![n] = [stack[n] EXCEPT !.siblings = Append(stack[n].siblings, header)]]
    BY <1>1 DEF PushSibling
  <2>2. stack \in Seq(Frame)
    BY DEF OutlineInv, OutlineTypeOK
  <2> QED BY <1>1, <2>1, <2>2 DEF Frame
<1>3. /\ Len(stack'[n].siblings) = m + 1 /\ stack'[n].siblings[m + 1] = header
      /\ \A i \in 1..m : stack'[n].siblings[i] = stack[n].siblings[i]
  BY <1>1, <1>2
<1>4. \A q \in Nat : InStack(q)' <=> InStack(q) \/ q = header
  <2> SUFFICES ASSUME NEW q \in Nat PROVE InStack(q)' <=> InStack(q) \/ q = header
    OBVIOUS
  <2>1. InStack(q)' <=> \E k \in 1..n : InFrame(k, q)'
    BY <1>2 DEF InStack, InFrame
  <2>2. \A k \in 1..n : k # n => (InFrame(k, q)' <=> InFrame(k, q))
    BY <1>2 DEF InFrame
  <2>3. InFrame(n, q)' <=> InFrame(n, q) \/ q = header
    <3>1. \A i \in 1..m + 1 : i \in 1..m \/ i = m + 1
      OBVIOUS
    <3>2. 1..m \subseteq 1..m + 1 /\ m + 1 \in 1..m + 1
      OBVIOUS
    <3> QED BY <1>3, <3>1, <3>2 DEF InFrame
  <2> QED BY <2>1, <2>2, <2>3, <1>1 DEF InStack
<1>5. stack' # <<>>
  BY <1>2
<1>6. /\ stack'[1].siblings[1] = stack[1].siblings[1]
      /\ stack'[1].type = stack[1].type
      /\ Level >= stack[1].type
      /\ stack[1].siblings[1] \in 1..header - 1
  <2>1. stack'[1].siblings[1] = stack[1].siblings[1]
    <3>1. 1 \in 1..m
      OBVIOUS
    <3>2. CASE n = 1
      BY <3>1, <3>2, <1>3
    <3>3. CASE n # 1
      BY <3>3, <1>1, <1>2
    <3> QED BY <3>2, <3>3
  <2>2. Level = stack[n].type /\ stack[1].type <= stack[n].type
        /\ stack[1].type \in 1..4 /\ stack[n].type \in 1..4
    BY <1>1, FrameFacts DEF PushSibling, Top
  <2>3. Level >= stack[1].type
    BY <2>2
  <2> QED BY <2>1, <2>3, <1>1, <1>2, FrameFacts
<1>7. stack # <<>>
  BY DEF PushSibling
<1> QED BY <1>4, <1>5, <1>6, <1>7, PushComplete DEF PushSibling

\* Popping a frame moves its siblings below a header, or ends the script because
\* `header` ranks above the first one.
LEMMA BuildParentComplete ==
  ASSUME OutlineInv, CompleteInv, BuildParent, outlineState = "building", Len(stack) > 0,
         Len(stack) > 1 \/ (AtHeader /\ headers[header].id /\ Level < Top.type)
  PROVE  CompleteInv'
<1> SUFFICES ASSUME NEW n \in Nat \ {0}, n = Len(stack) PROVE CompleteInv'
  BY DEF OutlineInv, OutlineTypeOK
<1>1. CASE n = 1
  <2>1. outlineState' = "threw" /\ UNCHANGED <<headers, header>>
    BY <1>1 DEF BuildParent
  <2>2. /\ AtHeader /\ headers[header].id /\ headers[header].level < stack[1].type
        /\ header \in 1..Len(headers) /\ header \in Nat /\ Len(headers) \in Nat
    BY <1>1 DEF Top, Level, AtHeader, OutlineInv, OutlineTypeOK
  <2> DEFINE f == stack[1].siblings[1]
  <2>3. /\ f \in 1..header - 1 /\ f \in 1..Len(headers)
        /\ headers[f].id /\ headers[f].level = stack[1].type
    <3>1. 1 \in 1..n /\ 1 \in 1..Len(stack[1].siblings)
      BY <1>1, FrameFacts
    <3>2. f \in 1..header - 1 /\ f <= Len(headers) /\ headers[f].id /\ headers[f].level = stack[1].type
      BY <3>1 DEF OutlineInv, FramesFull
    <3> QED BY <3>2, <2>2
  <2>4. ASSUME NEW k \in 1..Len(headers), headers[k].id
        PROVE  f <= k
    <3>1. CASE k < header
      <4>1. Past(k) /\ k \in Nat
        BY <3>1, <2>2, <2>4 DEF Past
      <4>2. stack # <<>>
        BY <1>1
      <4> QED BY <4>1, <4>2 DEF CompleteInv, FirstRanks
    <3>2. CASE ~(k < header)
      BY <3>2, <2>2, <2>3
    <3> QED BY <3>1, <3>2
  <2>5. RanksAbove'
    BY <2>1, <2>2, <2>3, <2>4 DEF RanksAbove
  <2> QED BY <2>1, <2>5 DEF CompleteInv
<1>2. CASE n > 1
  <2> DEFINE p == LastSibling(n - 1)
             s == stack[n].siblings
  <2>1. n \in 1..n /\ n - 1 \in 1..n /\ s \in Seq(Nat) /\ stack \in Seq(Frame)
    <3>1. n \in 1..n /\ n - 1 \in 1..n
      BY <1>2
    <3> QED BY <3>1, FrameFacts DEF OutlineInv, OutlineTypeOK
  <2>2. /\ Len(stack') = n - 1 /\ \A k \in 1..n - 1 : stack'[k] = stack[k]
        /\ UNCHANGED <<headers, header, outlineState>>
        /\ items' = [items EXCEPT ![p] = items[p] \o s]
    <3>1. stack' = SubSeq(stack, 1, n - 1) /\ UNCHANGED <<headers, header, outlineState>>
      BY <1>2 DEF BuildParent
    <3>2. items' = [items EXCEPT ![p] = items[p] \o s]
      BY <1>2 DEF BuildParent, Attached, Top
    <3> HIDE DEF p, s
    <3> QED BY <1>2, <2>1, <3>1, <3>2
  <2>3. p \in DOMAIN items /\ items[p] \in Seq(Nat)
    <3>1. p \in 1..header - 1 /\ p <= Len(headers)
      BY <2>1, LastSiblingBefore DEF OutlineInv
    <3>2. header \in Nat /\ Len(headers) \in Nat /\ DOMAIN headers = 1..Len(headers)
      BY DEF OutlineInv, OutlineTypeOK
    <3> HIDE DEF p
    <3>3. p \in DOMAIN headers
      BY <3>1, <3>2
    <3> QED BY <3>3 DEF OutlineInv, OutlineTypeOK
  <2>4. \A q : Past(q)' <=> Past(q)
    BY <2>2 DEF Past
  <2>5. \A q \in Nat : InStack(q) <=> InStack(q)' \/ InFrame(n, q)
    <3>1. \A k \in 1..n : k \in 1..n - 1 \/ k = n
      OBVIOUS
    <3>2. 1..n - 1 \subseteq 1..n
      OBVIOUS
    <3>3. \A q \in Nat : \A k \in 1..n - 1 : InFrame(k, q)' <=> InFrame(k, q)
      BY <2>2 DEF InFrame
    <3>4. \A q \in Nat : InStack(q)' <=> \E k \in 1..n - 1 : InFrame(k, q)'
      BY <2>2 DEF InStack, InFrame
    <3> QED BY <3>1, <3>2, <3>3, <3>4, <2>1 DEF InStack
  <2>6. ASSUME NEW q \in Nat, InStack(q)', InFrame(n, q)
        PROVE  FALSE
    <3>1. PICK k \in 1..n - 1 : InFrame(k, q)
      BY <2>2, <2>6 DEF InStack, InFrame
    <3>2. k \in 1..n /\ k < n
      OBVIOUS
    <3>3. headers[q].level = stack[k].type /\ headers[q].level = stack[n].type
      BY <2>1, <2>6, <3>1, <3>2 DEF InFrame, OutlineInv, FramesFull
    <3>4. stack[k].type < stack[n].type
      BY <3>2, <2>1 DEF OutlineInv, LevelsRise
    <3>5. stack[k].type \in 1..4
      BY <3>2, FrameFacts
    <3> QED BY <3>3, <3>4, <3>5
  <2>7. \A q \in Nat : IsBelow(q)' <=> IsBelow(q) \/ InFrame(n, q)
    <3>1. \A r \in DOMAIN items : r # p => items'[r] = items[r]
      BY <2>2
    <3>2. DOMAIN items' = DOMAIN items /\ items'[p] = items[p] \o s
      BY <2>2, <2>3
    <3>3. ASSUME NEW q \in Nat
          PROVE  (\E i \in DOMAIN items'[p] : items'[p][i] = q)
                   <=> (\E i \in DOMAIN items[p] : items[p][i] = q) \/ InFrame(n, q)
      <4>1. PICK a \in Seq(Nat) : a = items[p]
        BY <2>3
      <4>2. (\E i \in DOMAIN (a \o s) : (a \o s)[i] = q)
              <=> (\E i \in DOMAIN a : a[i] = q) \/ \E i \in 1..Len(s) : s[i] = q
        <5>1. Len(a) \in Nat /\ Len(s) \in Nat /\ DOMAIN a = 1..Len(a)
              /\ DOMAIN (a \o s) = 1..Len(a) + Len(s)
          BY <2>1
        <5>2. \A i \in 1..Len(a) : i \in 1..Len(a) + Len(s) /\ (a \o s)[i] = a[i]
          BY <5>1, <2>1
        <5>3. \A i \in 1..Len(s) : Len(a) + i \in 1..Len(a) + Len(s) /\ (a \o s)[Len(a) + i] = s[i]
          BY <5>1, <2>1
        <5>4. \A i \in DOMAIN (a \o s) : \/ i \in DOMAIN a /\ (a \o s)[i] = a[i]
                                         \/ \E j \in 1..Len(s) : (a \o s)[i] = s[j]
          BY <2>1, ConcatElements
        <5> HIDE DEF s
        <5>5. ASSUME NEW i \in 1..Len(a), a[i] = q
              PROVE  \E j \in DOMAIN (a \o s) : (a \o s)[j] = q
          BY <5>1, <5>2, <5>5
        <5>6. ASSUME NEW i \in 1..Len(s), s[i] = q
              PROVE  \E j \in DOMAIN (a \o s) : (a \o s)[j] = q
          BY <5>1, <5>3, <5>6
        <5> QED BY <5>1, <5>4, <5>5, <5>6
      <4> QED BY <4>1, <4>2, <3>2 DEF InFrame
    <3>4. ASSUME NEW q \in Nat
          PROVE  IsBelow(q)' <=> IsBelow(q) \/ InFrame(n, q)
      <4>1. IsBelow(q)' <=> \E r \in DOMAIN items : \E i \in DOMAIN items'[r] : items'[r][i] = q
        BY <3>2 DEF IsBelow
      <4>2. \A r \in DOMAIN items : r # p =>
              ((\E i \in DOMAIN items'[r] : items'[r][i] = q)
                 <=> \E i \in DOMAIN items[r] : items[r][i] = q)
        BY <3>1
      <4> QED BY <4>1, <4>2, <3>3, <2>3 DEF IsBelow
    <3> QED BY <3>4
  <2>8. FirstRanks'
    <3>1. 1 \in 1..n - 1 /\ stack # <<>> /\ stack' # <<>> /\ stack'[1] = stack[1]
      BY <1>2, <2>2
    <3> QED BY <3>1, <2>2, <2>4 DEF CompleteInv, FirstRanks
  <2> QED BY <2>2, <2>4, <2>5, <2>6, <2>7, <2>8 DEF CompleteInv
<1> QED BY <1>1, <1>2

LEMMA CompleteStutters ==
  ASSUME CompleteInv, UNCHANGED <<headers, header, stack, items>>,
         \/ outlineState' = outlineState
         \/ /\ outlineState = "building" /\ outlineState' = "done"
            /\ header > Len(headers) /\ Len(stack) <= 1
  PROVE  CompleteInv'
<1>1. \A q : (Past(q)' <=> Past(q)) /\ (IsBelow(q)' <=> IsBelow(q)) /\ (InStack(q)' <=> InStack(q))
  BY DEF Past, IsBelow, InStack, InFrame
<1>2. (FirstRanks' <=> FirstRanks) /\ (RanksAbove' <=> RanksAbove)
  BY <1>1 DEF FirstRanks, RanksAbove
<1> QED BY <1>1, <1>2 DEF CompleteInv

LEMMA NextComplete ==
  ASSUME OutlineInv, CompleteInv, [OutlineNext]_outline
  PROVE  CompleteInv'
<1>1. CASE PopFrame
  <2>1. Len(stack) > 0 /\ outlineState = "building"
    BY <1>1 DEF PopFrame, AtHeader, OutlineInv, OutlineTypeOK
  <2> QED BY <1>1, <2>1, BuildParentComplete DEF PopFrame
<1>2. CASE Collapse
  <2>1. Len(stack) > 0 /\ outlineState = "building"
    BY <1>2 DEF Collapse, AtEnd, OutlineInv, OutlineTypeOK
  <2> QED BY <1>2, <2>1, BuildParentComplete DEF Collapse
<1>3. CASE Return \/ UNCHANGED outline
  BY <1>3, CompleteStutters DEF Return, AtEnd, outline
<1> QED BY <1>1, <1>2, <1>3, SkipHeaderComplete, PushFrameComplete, PushSiblingComplete
        DEF OutlineNext

-----------------------------------------------------------------------------
(* The rows of the outline are in the order of the page, and nothing is lost *)
(* on the way from the stack to what is returned.                            *)

Rising(s) == \A i, j \in DOMAIN s : i < j => s[i] < s[j]

LEMMA AppendRising ==
  ASSUME NEW s \in Seq(Nat), NEW x \in Nat, Rising(s), \A y \in ToSet(s) : y < x
  PROVE  /\ Append(s, x) \in Seq(Nat) /\ Rising(Append(s, x))
         /\ ToSet(Append(s, x)) = ToSet(s) \cup {x}
<1> DEFINE r == Append(s, x)
<1>1. /\ r \in Seq(Nat) /\ Len(s) \in Nat /\ DOMAIN s = 1..Len(s)
      /\ DOMAIN r = 1..Len(s) + 1 /\ r[Len(s) + 1] = x
      /\ \A i \in 1..Len(s) : r[i] = s[i]
  OBVIOUS
<1> HIDE DEF r
<1>2. \A i \in 1..Len(s) : s[i] < x
  BY <1>1 DEF ToSet
<1>3. Rising(r)
  <2> SUFFICES ASSUME NEW i \in 1..Len(s) + 1, NEW j \in 1..Len(s) + 1, i < j
               PROVE  r[i] < r[j]
    BY <1>1 DEF Rising
  <2>1. i \in 1..Len(s) /\ r[i] = s[i]
    BY <1>1
  <2>2. CASE j = Len(s) + 1
    BY <1>1, <1>2, <2>1, <2>2
  <2>3. CASE j \in 1..Len(s)
    <3>1. s[i] < s[j] /\ r[j] = s[j]
      BY <1>1, <2>1, <2>3 DEF Rising
    <3> QED BY <2>1, <3>1
  <2> QED BY <1>1, <2>2, <2>3
<1>4. ToSet(r) = ToSet(s) \cup {x}
  <2>1. ToSet(r) = {r[i] : i \in 1..Len(s) + 1} /\ ToSet(s) = {s[i] : i \in 1..Len(s)}
    BY <1>1 DEF ToSet
  <2>2. 1..Len(s) + 1 = 1..Len(s) \cup {Len(s) + 1}
    BY <1>1
  <2> QED BY <1>1, <2>1, <2>2
<1> QED BY <1>1, <1>3, <1>4 DEF r

LEMMA ConcatRising ==
  ASSUME NEW a \in Seq(Nat), NEW b \in Seq(Nat), Rising(a), Rising(b),
         \A i \in DOMAIN a : \A j \in DOMAIN b : a[i] < b[j]
  PROVE  Rising(a \o b)
<1> DEFINE c == a \o b
<1>1. /\ Len(a) \in Nat /\ Len(b) \in Nat /\ DOMAIN a = 1..Len(a) /\ DOMAIN b = 1..Len(b)
      /\ DOMAIN c = 1..Len(a) + Len(b)
      /\ \A i \in 1..Len(a) : c[i] = a[i]
      /\ \A i \in 1..Len(a) + Len(b) : i > Len(a) => i - Len(a) \in 1..Len(b) /\ c[i] = b[i - Len(a)]
  OBVIOUS
<1> HIDE DEF c
<1> SUFFICES ASSUME NEW i \in 1..Len(a) + Len(b), NEW j \in 1..Len(a) + Len(b), i < j
             PROVE  c[i] < c[j]
  BY <1>1 DEF Rising, c
<1>2. CASE j <= Len(a)
  <2>1. i \in 1..Len(a) /\ j \in 1..Len(a)
    BY <1>1, <1>2
  <2> QED BY <1>1, <2>1 DEF Rising
<1>3. CASE i > Len(a)
  <2>1. /\ i - Len(a) \in 1..Len(b) /\ j - Len(a) \in 1..Len(b) /\ i - Len(a) < j - Len(a)
        /\ c[i] = b[i - Len(a)] /\ c[j] = b[j - Len(a)]
    BY <1>1, <1>3
  <2> QED BY <1>1, <2>1 DEF Rising
<1>4. CASE i <= Len(a) /\ j > Len(a)
  <2>1. i \in 1..Len(a) /\ c[i] = a[i] /\ j - Len(a) \in 1..Len(b) /\ c[j] = b[j - Len(a)]
    BY <1>1, <1>4
  <2> QED BY <1>1, <2>1
<1> QED BY <1>1, <1>2, <1>3, <1>4

\* What comes below the last header of a frame came before the frame that follows.
ItemsBefore ==
  \A k \in 2..Len(stack) : \A i \in DOMAIN items[LastSibling(k - 1)] :
    \A j \in 1..Len(stack[k].siblings) : items[LastSibling(k - 1)][i] < stack[k].siblings[j]

Returned ==
  hierarchy = IF stack = <<>> THEN <<>>
              ELSE IF Len(Top.siblings) = 1 THEN items[Top.siblings[1]]
              ELSE Top.siblings

OrderInv ==
  /\ \A k \in 1..Len(stack) : Rising(stack[k].siblings)
  /\ \A p \in DOMAIN items : Rising(items[p])
  /\ ItemsBefore
  /\ outlineState = "done" => Returned

LEMMA InitOrder ==
  ASSUME NEW hs \in HeaderLists, OutlineInit(hs)
  PROVE  OrderInv
<1>1. /\ Len(stack) = 0 /\ outlineState = "building"
      /\ items = [i \in DOMAIN headers |-> <<>>]
  BY DEF OutlineInit
<1>2. \A p \in DOMAIN items : Rising(items[p])
  BY <1>1 DEF Rising
<1> QED BY <1>1, <1>2 DEF OrderInv, ItemsBefore

LEMMA OrderStutters ==
  ASSUME OrderInv, UNCHANGED <<stack, items>>, outlineState' = "done" => Returned'
  PROVE  OrderInv'
<1>1. ItemsBefore'
  BY DEF OrderInv, ItemsBefore, LastSibling
<1> QED BY <1>1 DEF OrderInv

\* What stands below a header came before the one that the pass has come to.
LEMMA ItemsPast ==
  ASSUME OutlineInv, CompleteInv, outlineState = "building",
         NEW p \in DOMAIN items, NEW i \in DOMAIN items[p]
  PROVE  items[p][i] \in 1..header - 1
<1>1. items[p] \in Seq(Nat)
  BY DEF OutlineInv, OutlineTypeOK
<1>2. items[p][i] \in Nat
  BY <1>1
<1>3. Past(items[p][i])
  BY <1>2 DEF CompleteInv, IsBelow
<1> QED BY <1>3 DEF Past

LEMMA PushFrameOrder ==
  ASSUME OutlineInv, CompleteInv, OrderInv, PushFrame
  PROVE  OrderInv'
<1> SUFFICES ASSUME NEW n \in Nat, n = Len(stack) PROVE OrderInv'
  BY DEF OutlineInv, OutlineTypeOK
<1>1. stack \in Seq(Frame) /\ header \in Nat /\ Level \in 1..4
  <2>1. headers \in Seq(Headers) /\ header \in Nat \ {0} /\ header <= Len(headers)
    BY DEF PushFrame, AtHeader, OutlineInv, OutlineTypeOK
  <2>2. headers[header] \in Headers
    BY <2>1
  <2> QED BY <2>1, <2>2 DEF OutlineInv, OutlineTypeOK, Headers, Level
<1>2. /\ Len(stack') = n + 1 /\ \A k \in 1..n : stack'[k] = stack[k]
      /\ stack'[n + 1].siblings = <<header>>
      /\ UNCHANGED items /\ outlineState' = "building" /\ outlineState = "building"
  <2>1. [type |-> Level, siblings |-> <<header>>] \in Frame
    BY <1>1 DEF Frame
  <2> QED BY <1>1, <2>1 DEF PushFrame, AtHeader
<1>3. \A k \in 1..n : LastSibling(k)' = LastSibling(k)
  BY <1>2 DEF LastSibling
<1>4. ASSUME NEW k \in 1..n + 1
      PROVE  Rising(stack'[k].siblings)
  <2>1. CASE k = n + 1
    <3>1. Rising(<<header>>)
      BY DEF Rising
    <3> QED BY <3>1, <2>1, <1>2
  <2>2. CASE k \in 1..n
    BY <2>2, <1>2 DEF OrderInv
  <2> QED BY <2>1, <2>2
<1>5. ASSUME NEW k \in 2..n + 1, NEW i \in DOMAIN items[LastSibling(k - 1)],
             NEW j \in 1..Len(stack'[k].siblings)
      PROVE  items[LastSibling(k - 1)][i] < stack'[k].siblings[j]
  <2>1. CASE k = n + 1
    <3>1. n \in 1..Len(stack) /\ k - 1 = n
      BY <2>1
    <3>2. LastSibling(n) \in DOMAIN items
      <4>1. LastSibling(n) \in 1..header - 1 /\ LastSibling(n) <= Len(headers)
        BY <3>1, LastSiblingBefore DEF OutlineInv
      <4>2. LastSibling(n) \in DOMAIN headers
        BY <4>1, <1>1 DEF OutlineInv, OutlineTypeOK
      <4> QED BY <4>2 DEF OutlineInv, OutlineTypeOK
    <3>3. items[LastSibling(n)][i] \in 1..header - 1
      BY <1>2, <3>1, <3>2, ItemsPast
    <3>4. stack'[k].siblings[j] = header
      <4>1. stack'[k].siblings = <<header>>
        BY <1>2, <2>1
      <4>2. j = 1
        BY <4>1
      <4> QED BY <4>1, <4>2
    <3> QED BY <3>1, <3>3, <3>4, <1>1
  <2>2. CASE k \in 2..n
    <3>1. stack'[k] = stack[k]
      BY <2>2, <1>2
    <3> QED BY <2>2, <3>1 DEF OrderInv, ItemsBefore
  <2> QED BY <2>1, <2>2
<1>6. ItemsBefore'
  <2>1. \A k \in 2..n + 1 : LastSibling(k - 1)' = LastSibling(k - 1)
    <3>1. \A k \in 2..n + 1 : k - 1 \in 1..n
      OBVIOUS
    <3> QED BY <3>1, <1>3
  <2> QED BY <2>1, <1>2, <1>5 DEF ItemsBefore
<1> QED BY <1>2, <1>4, <1>6 DEF OrderInv

LEMMA PushSiblingOrder ==
  ASSUME OutlineInv, CompleteInv, OrderInv, PushSibling
  PROVE  OrderInv'
<1> SUFFICES ASSUME NEW n \in Nat, n = Len(stack), n > 0 PROVE OrderInv'
  BY DEF PushSibling, OutlineInv, OutlineTypeOK
<1>1. /\ n \in 1..n /\ header \in Nat /\ stack \in Seq(Frame)
      /\ stack[n] \in Frame /\ stack[n].siblings \in Seq(Nat)
  <2>1. n \in 1..n
    OBVIOUS
  <2> QED BY <2>1, FrameFacts DEF OutlineInv, OutlineTypeOK
<1>2. /\ Len(stack') = n
      /\ \A k \in 1..n : k # n => stack'[k] = stack[k]
      /\ stack'[n].siblings = Append(stack[n].siblings, header)
      /\ UNCHANGED items /\ outlineState' = "building" /\ outlineState = "building"
  <2>1. stack' = [stack EXCEPT ![n] = [stack[n] EXCEPT !.siblings = Append(stack[n].siblings, header)]]
    BY <1>1 DEF PushSibling
  <2> QED BY <1>1, <2>1 DEF Frame, PushSibling, AtHeader
<1>3. Rising(stack'[n].siblings)
  <2>1. \A y \in ToSet(stack[n].siblings) : y < header
    <3>1. \A i \in 1..Len(stack[n].siblings) : stack[n].siblings[i] \in 1..header - 1
      BY <1>1 DEF OutlineInv, FramesFull
    <3> QED BY <3>1, <1>1 DEF ToSet
  <2>2. Rising(stack[n].siblings)
    BY <1>1 DEF OrderInv
  <2> QED BY <2>1, <2>2, <1>1, <1>2, AppendRising
<1>4. \A k \in 1..n : Rising(stack'[k].siblings)
  BY <1>2, <1>3 DEF OrderInv
<1>5. ASSUME NEW k \in 2..n, NEW i \in DOMAIN items[LastSibling(k - 1)],
             NEW j \in 1..Len(stack'[k].siblings)
      PROVE  items[LastSibling(k - 1)][i] < stack'[k].siblings[j]
  <2>1. CASE k # n
    BY <2>1, <1>2 DEF OrderInv, ItemsBefore
  <2>2. CASE k = n
    <3>1. CASE j \in 1..Len(stack[n].siblings)
      <4>1. stack'[k].siblings[j] = stack[n].siblings[j]
        BY <2>2, <3>1, <1>1, <1>2
      <4> QED BY <2>2, <3>1, <4>1 DEF OrderInv, ItemsBefore
    <3>2. CASE j \notin 1..Len(stack[n].siblings)
      <4>1. stack'[k].siblings[j] = header
        BY <2>2, <3>2, <1>1, <1>2
      <4>2. LastSibling(k - 1) \in DOMAIN items
        <5>1. k - 1 \in 1..Len(stack)
          OBVIOUS
        <5>2. LastSibling(k - 1) \in 1..header - 1 /\ LastSibling(k - 1) <= Len(headers)
          BY <5>1, LastSiblingBefore DEF OutlineInv
        <5>3. LastSibling(k - 1) \in DOMAIN headers
          BY <5>2, <1>1 DEF OutlineInv, OutlineTypeOK
        <5> QED BY <5>3 DEF OutlineInv, OutlineTypeOK
      <4>3. items[LastSibling(k - 1)][i] \in 1..header - 1
        BY <1>2, <4>2, ItemsPast
      <4> QED BY <4>1, <4>3, <1>1
    <3> QED BY <3>1, <3>2
  <2> QED BY <2>1, <2>2
<1>6. ItemsBefore'
  <2>1. \A k \in 2..n : LastSibling(k - 1)' = LastSibling(k - 1)
    <3>1. \A k \in 2..n : k - 1 \in 1..n /\ k - 1 # n
      OBVIOUS
    <3> QED BY <3>1, <1>2 DEF LastSibling
  <2> QED BY <2>1, <1>2, <1>5 DEF ItemsBefore
<1> QED BY <1>2, <1>4, <1>6 DEF OrderInv

LEMMA BuildParentOrder ==
  ASSUME OutlineInv, OrderInv, BuildParent, outlineState = "building", Len(stack) > 0
  PROVE  OrderInv'
<1> SUFFICES ASSUME NEW n \in Nat \ {0}, n = Len(stack) PROVE OrderInv'
  BY DEF OutlineInv, OutlineTypeOK
<1>1. CASE n = 1
  <2>1. Len(stack') = 0 /\ UNCHANGED items /\ outlineState' = "threw"
    BY <1>1 DEF BuildParent
  <2> QED BY <2>1 DEF OrderInv, ItemsBefore
<1>2. CASE n > 1
  <2> SUFFICES ASSUME NEW p, p = LastSibling(n - 1), NEW s, s = stack[n].siblings
               PROVE  OrderInv'
    OBVIOUS
  <2>1. n \in 1..n /\ n - 1 \in 1..n /\ n \in 2..n /\ s \in Seq(Nat) /\ stack \in Seq(Frame)
    <3>1. n \in 1..n /\ n - 1 \in 1..n /\ n \in 2..n
      BY <1>2
    <3> QED BY <3>1, FrameFacts DEF OutlineInv, OutlineTypeOK
  <2>2. /\ Len(stack') = n - 1 /\ \A k \in 1..n - 1 : stack'[k] = stack[k]
        /\ items' = [items EXCEPT ![p] = items[p] \o s]
        /\ outlineState' = "building"
    <3>1. stack' = SubSeq(stack, 1, n - 1) /\ outlineState' = outlineState
      BY <1>2 DEF BuildParent
    <3>2. items' = [items EXCEPT ![p] = items[p] \o s]
      BY <1>2 DEF BuildParent, Attached, Top
    <3> QED BY <1>2, <2>1, <3>1, <3>2
  <2>3. p \in DOMAIN items /\ items[p] \in Seq(Nat) /\ headers[p].level = stack[n - 1].type
    <3>1. p \in 1..header - 1 /\ p <= Len(headers) /\ headers[p].level = stack[n - 1].type
      BY <2>1, LastSiblingBefore DEF OutlineInv
    <3>2. header \in Nat /\ Len(headers) \in Nat /\ DOMAIN headers = 1..Len(headers)
      BY DEF OutlineInv, OutlineTypeOK
    <3>3. p \in DOMAIN headers
      BY <3>1, <3>2
    <3> QED BY <3>1, <3>3 DEF OutlineInv, OutlineTypeOK
  <2>4. Rising(items[p] \o s)
    <3>1. \A i \in DOMAIN items[p] : \A j \in DOMAIN s : items[p][i] < s[j]
      <4>1. DOMAIN s = 1..Len(stack[n].siblings)
        BY <2>1
      <4> QED BY <4>1, <2>1 DEF OrderInv, ItemsBefore
    <3>2. Rising(items[p]) /\ Rising(s)
      BY <2>1, <2>3 DEF OrderInv
    <3> QED BY <3>1, <3>2, <2>1, <2>3, ConcatRising
  <2>5. /\ DOMAIN items' = DOMAIN items /\ items'[p] = items[p] \o s
        /\ \A r \in DOMAIN items : r # p => items'[r] = items[r]
    BY <2>2, <2>3
  <2>6. \A r \in DOMAIN items' : Rising(items'[r])
    BY <2>4, <2>5 DEF OrderInv
  <2>7. \A k \in 1..n - 1 : Rising(stack'[k].siblings)
    BY <2>2 DEF OrderInv
  <2>8. ASSUME NEW k \in 2..n - 1
        PROVE  LastSibling(k - 1)' = LastSibling(k - 1) /\ items'[LastSibling(k - 1)] = items[LastSibling(k - 1)]
    <3>1. k - 1 \in 1..n /\ k - 1 \in 1..n - 1 /\ k - 1 < n - 1
      OBVIOUS
    <3>2. LastSibling(k - 1)' = LastSibling(k - 1)
      BY <3>1, <2>2 DEF LastSibling
    <3>3. headers[LastSibling(k - 1)].level = stack[k - 1].type
      BY <3>1, LastSiblingBefore DEF OutlineInv
    <3>4. stack[k - 1].type < stack[n - 1].type
      BY <3>1, <2>1 DEF OutlineInv, LevelsRise
    <3>5. stack[k - 1].type \in 1..4
      BY <3>1, FrameFacts
    <3>6. LastSibling(k - 1) # p
      BY <3>3, <3>4, <3>5, <2>3
    <3>7. items'[LastSibling(k - 1)] = items[LastSibling(k - 1)]
      BY <3>6, <2>2
    <3> QED BY <3>2, <3>7
  <2>9. ItemsBefore'
    <3> SUFFICES ASSUME NEW k \in 2..n - 1, NEW i \in DOMAIN items[LastSibling(k - 1)],
                        NEW j \in 1..Len(stack[k].siblings)
                 PROVE  items[LastSibling(k - 1)][i] < stack[k].siblings[j]
      <4>1. \A k \in 2..n - 1 : stack'[k] = stack[k]
        <5>1. \A k \in 2..n - 1 : k \in 1..n - 1
          OBVIOUS
        <5> QED BY <5>1, <2>2
      <4>2. \A k \in 2..n - 1 : items'[LastSibling(k - 1)'] = items[LastSibling(k - 1)]
        BY <2>8
      <4> QED BY <4>1, <4>2, <2>2 DEF ItemsBefore
    <3>1. k \in 2..n
      OBVIOUS
    <3> QED BY <3>1 DEF OrderInv, ItemsBefore
  <2> QED BY <2>2, <2>6, <2>7, <2>9 DEF OrderInv
<1> QED BY <1>1, <1>2

LEMMA NextOrder ==
  ASSUME OutlineInv, CompleteInv, OrderInv, [OutlineNext]_outline
  PROVE  OrderInv'
<1>1. CASE PopFrame
  <2>1. Len(stack) > 0 /\ outlineState = "building"
    BY <1>1 DEF PopFrame, AtHeader, OutlineInv, OutlineTypeOK
  <2> QED BY <1>1, <2>1, BuildParentOrder DEF PopFrame
<1>2. CASE Collapse
  <2>1. Len(stack) > 0 /\ outlineState = "building"
    BY <1>2 DEF Collapse, AtEnd, OutlineInv, OutlineTypeOK
  <2> QED BY <1>2, <2>1, BuildParentOrder DEF Collapse
<1>3. CASE Return
  <2>1. UNCHANGED <<stack, items>> /\ Returned'
    BY <1>3 DEF Return, Returned, Top
  <2> QED BY <2>1, OrderStutters
<1>4. CASE SkipHeader
  <2>1. UNCHANGED <<stack, items>> /\ outlineState' = "building"
    BY <1>4 DEF SkipHeader, AtHeader
  <2> QED BY <2>1, OrderStutters
<1>5. CASE UNCHANGED outline
  <2>1. UNCHANGED <<stack, items, outlineState, hierarchy>>
    BY <1>5 DEF outline
  <2>2. outlineState' = "done" => Returned'
    BY <2>1 DEF OrderInv, Returned, Top
  <2> QED BY <2>1, <2>2, OrderStutters
<1> QED BY <1>1, <1>2, <1>3, <1>4, <1>5, PushFrameOrder, PushSiblingOrder
        DEF OutlineNext

\* The headers with an id, those that stand below another, and those of the frame
\* that is left.
With == {i \in DOMAIN headers : headers[i].id}
Placed == UNION {ToSet(items[p]) : p \in DOMAIN items}
Tops == IF stack = <<>> THEN {} ELSE ToSet(Top.siblings)

LEMMA AllPlaced ==
  ASSUME OutlineInv, CompleteInv, outlineState = "done"
  PROVE  /\ With = Placed \cup Tops /\ Placed \cap Tops = {} /\ ~RanksAbove
         /\ With \subseteq Nat \ {0}
         /\ \A q \in Nat : Past(q) <=> q \in With
         /\ Len(stack) \in Nat /\ (stack # <<>> => Len(stack) = 1)
<1> DEFINE with == With
           below == Placed
           top == Tops
<1>1. DOMAIN headers = 1..Len(headers) /\ Len(headers) \in Nat /\ header \in Nat
  BY DEF OutlineInv, OutlineTypeOK
<1>3. QED
  <2>1. /\ header > Len(headers) /\ Len(stack) <= 1 /\ FirstRanks
        /\ \A q \in Nat : Past(q) <=> IsBelow(q) \/ InStack(q)
        /\ \A q \in Nat : ~(IsBelow(q) /\ InStack(q))
    BY DEF CompleteInv
  <2>2. Len(stack) \in Nat /\ (stack # <<>> => Len(stack) = 1)
    <3>1. PICK n \in Nat : n = Len(stack)
      BY DEF OutlineInv, OutlineTypeOK
    <3>2. stack # <<>> => n # 0
      BY <3>1, FrameFacts
    <3>3. n <= 1
      BY <2>1, <3>1
    <3> QED BY <3>1, <3>2, <3>3
  <2>3. \A q \in Nat : Past(q) <=> q \in with
    BY <1>1, <2>1 DEF Past, With
  <2>4. Len(stack) = 1 => Top = stack[1] /\ Top.siblings \in Seq(Nat)
    <3>1. \A k \in 1..Len(stack) : stack[k].siblings \in Seq(Nat)
      BY <2>2, FrameFacts
    <3> QED BY <3>1 DEF Top
  <2>5. \A q \in Nat : IsBelow(q) <=> q \in below
    BY DEF IsBelow, Placed, ToSet
  <2>6. \A q \in Nat : InStack(q) <=> q \in top
    <3>1. CASE stack = <<>>
      BY <3>1 DEF InStack, Tops
    <3>2. CASE stack # <<>>
      <4>1. Len(stack) = 1
        BY <2>2, <3>2
      <4>2. DOMAIN Top.siblings = 1..Len(stack[1].siblings) /\ Top = stack[1]
        BY <4>1, <2>4
      <4>3. \A q : InStack(q) <=> InFrame(1, q)
        BY <4>1 DEF InStack
      <4> QED BY <3>2, <4>2, <4>3 DEF InFrame, Tops, ToSet
    <3> QED BY <3>1, <3>2
  <2>7. with \subseteq Nat \ {0}
    BY <1>1 DEF With
  <2>8. below \subseteq Nat
    <3>1. \A p \in DOMAIN items : items[p] \in Seq(Nat)
      BY DEF OutlineInv, OutlineTypeOK
    <3>2. \A p \in DOMAIN items : \A i \in DOMAIN items[p] : items[p][i] \in Nat
      BY <3>1
    <3> QED BY <3>2 DEF Placed, ToSet
  <2>9. top \subseteq Nat
    <3>1. CASE stack # <<>>
      <4>1. Len(stack) = 1
        BY <2>2, <3>1
      <4>2. Top.siblings \in Seq(Nat)
        BY <4>1, <2>4
      <4>3. \A i \in DOMAIN Top.siblings : Top.siblings[i] \in Nat
        BY <4>2
      <4> QED BY <4>3, <3>1 DEF Tops, ToSet
    <3> QED BY <3>1 DEF Tops
  <2>10. with = below \cup top /\ below \cap top = {}
    <3> HIDE DEF with, below, top
    <3> QED BY <2>1, <2>3, <2>5, <2>6, <2>7, <2>8, <2>9
  <2>11. ~RanksAbove
    <3> SUFFICES ASSUME NEW i \in 1..Len(headers), NEW j \in 1..Len(headers),
                        headers[i].id, headers[j].id,
                        \A k \in 1..Len(headers) : headers[k].id => i <= k,
                        headers[j].level < headers[i].level
                 PROVE  FALSE
      BY DEF RanksAbove
    <3>1. Past(i) /\ Past(j) /\ i \in Nat /\ j \in Nat
      BY <1>1, <2>1 DEF Past
    <3>2. stack # <<>>
      BY <2>1, <3>1 DEF FirstRanks
    <3> DEFINE f == stack[1].siblings[1]
    <3>3. f <= i /\ headers[j].level >= stack[1].type
      BY <2>1, <3>1, <3>2 DEF FirstRanks
    <3>4. f \in 1..Len(headers) /\ headers[f].id /\ headers[f].level = stack[1].type
      <4>1. Len(stack) \in Nat /\ 1 \in 1..Len(stack)
        BY <3>2 DEF OutlineInv, OutlineTypeOK
      <4>2. 1 \in 1..Len(stack[1].siblings)
        BY <4>1, FrameFacts
      <4>3. f \in 1..header - 1 /\ f <= Len(headers) /\ headers[f].id
            /\ headers[f].level = stack[1].type
        BY <4>1, <4>2 DEF OutlineInv, FramesFull
      <4> QED BY <4>3, <1>1
    <3>5. f = i
      BY <3>3, <3>4, <1>1
    <3>6. headers[i].level \in 1..4 /\ headers[j].level \in 1..4
      <4>1. headers[i] \in Headers /\ headers[j] \in Headers
        BY DEF OutlineInv, OutlineTypeOK
      <4> QED BY <4>1 DEF Headers
    <3> QED BY <3>3, <3>4, <3>5, <3>6
  <2> QED BY <2>2, <2>3, <2>7, <2>10, <2>11

\* No header stands below two others.
LEMMA NestsOnce ==
  ASSUME OutlineInv, CompleteInv, outlineState = "done",
         NEW p \in DOMAIN items, NEW q \in DOMAIN items, p # q
  PROVE  ToSet(items[p]) \cap ToSet(items[q]) = {}
<1> SUFFICES ASSUME NEW r \in DOMAIN items, NEW t \in DOMAIN items, r < t,
                    NEW c \in ToSet(items[r]), c \in ToSet(items[t])
             PROVE  FALSE
  <2>1. p \in Nat /\ q \in Nat
    BY DEF OutlineInv, OutlineTypeOK
  <2> QED BY <2>1
<1>1. Nests(r, c) /\ Nests(t, c)
  BY DEF OutlineInv, OutlineNests, ToSet
<1>2. c \in DOMAIN headers
  <2>1. c \in Nat
    <3>1. items[r] \in Seq(Nat)
      BY DEF OutlineInv, OutlineTypeOK
    <3> QED BY <3>1 DEF ToSet
  <2>2. IsBelow(c)
    BY DEF IsBelow, ToSet
  <2>3. c \in With
    BY <2>1, <2>2, AllPlaced DEF CompleteInv
  <2> QED BY <2>3 DEF With
<1>3. t \in r + 1..c - 1
  <2>1. r \in Nat /\ t \in Nat /\ c \in Nat
    BY <1>2 DEF OutlineInv, OutlineTypeOK
  <2> QED BY <2>1, <1>1 DEF Nests
<1>4. headers[t].level >= headers[c].level /\ headers[t].level < headers[c].level
  BY <1>1, <1>3 DEF Nests
<1>5. headers[t].level \in 1..4 /\ headers[c].level \in 1..4
  <2>1. headers[t] \in Headers /\ headers[c] \in Headers
    BY <1>2 DEF OutlineInv, OutlineTypeOK
  <2> QED BY <2>1 DEF Headers
<1> QED BY <1>4, <1>5

\* The headers of the frame that is left are those that no other ranks above.
LEMMA TopsAreTopmost ==
  ASSUME OutlineInv, CompleteInv, outlineState = "done"
  PROVE  Tops = {i \in With : \A j \in With : headers[i].level <= headers[j].level}
<1>1. /\ With = Placed \cup Tops /\ With \subseteq Nat \ {0}
      /\ \A q \in Nat : Past(q) <=> q \in With
      /\ stack # <<>> => Len(stack) = 1
  BY AllPlaced
<1>2. \A i \in With : headers[i].level \in 1..4
  <2>1. \A i \in With : headers[i] \in Headers
    BY DEF With, OutlineInv, OutlineTypeOK
  <2> QED BY <2>1 DEF Headers
<1>3. CASE stack = <<>>
  <2>1. With = {}
    BY <1>1, <1>3 DEF CompleteInv, FirstRanks
  <2> QED BY <2>1, <1>3 DEF Tops
<1>4. CASE stack # <<>>
  <2>1. 1 \in 1..Len(stack) /\ Top = stack[1]
    <3>1. Len(stack) = 1 /\ 1 \in 1..1
      BY <1>1, <1>4
    <3> QED BY <3>1, Zenon DEF Top
  <2>2. /\ Len(stack[1].siblings) \in Nat \ {0} /\ stack[1].siblings \in Seq(Nat)
        /\ stack[1].type \in 1..4 /\ 1 \in 1..Len(stack[1].siblings)
    BY <2>1, FrameFacts
  <2>3. \A i \in Tops : headers[i].level = stack[1].type
    <3>1. \A i \in 1..Len(stack[1].siblings) : headers[stack[1].siblings[i]].level = stack[1].type
      BY <2>1 DEF OutlineInv, FramesFull
    <3> QED BY <3>1, <2>1, <2>2, <1>4 DEF Tops, ToSet
  <2>4. \A j \in With : headers[j].level >= stack[1].type
    BY <1>1, <1>4 DEF CompleteInv, FirstRanks
  <2>5. PICK f \in Tops : TRUE
    <3>1. 1 \in DOMAIN Top.siblings
      BY <2>1, <2>2
    <3>2. Top.siblings[1] \in Tops
      BY <3>1, <1>4, Zenon DEF Tops, ToSet
    <3> QED BY <3>2
  <2>6. ASSUME NEW i \in With, headers[i].level <= headers[f].level, i \notin Tops
        PROVE  FALSE
    <3>1. PICK p \in DOMAIN items : i \in ToSet(items[p])
      BY <2>6, <1>1 DEF Placed
    <3>2. Nests(p, i)
      BY <3>1 DEF OutlineInv, OutlineNests, ToSet
    <3>3. p \in With
      BY <3>2 DEF With, Nests, OutlineInv, OutlineTypeOK
    <3>4. headers[p].level < headers[i].level /\ headers[p].level >= stack[1].type
          /\ headers[f].level = stack[1].type
      BY <3>2, <3>3, <2>3, <2>4 DEF Nests
    <3> QED BY <3>3, <3>4, <2>2, <2>6, <1>2
  <2>7. ASSUME NEW i \in Tops, NEW j \in With
        PROVE  headers[i].level <= headers[j].level
    BY <2>2, <2>3, <2>4, <1>2
  <2> QED BY <2>5, <2>6, <2>7, <1>1
<1> QED BY <1>3, <1>4

\* The rows that are shown, those below the headers `kept` and the one returned.
RowsRight(kept) ==
  LET rows == {0} \cup kept
      Row(p) == IF p = 0 THEN hierarchy ELSE items[p]
  IN /\ \A p \in rows : Rising(Row(p))
     /\ \A p, q \in rows : p # q => ToSet(Row(p)) \cap ToSet(Row(q)) = {}
     /\ UNION {ToSet(Row(p)) : p \in rows} = kept

LEMMA RowsAre ==
  ASSUME OutlineInv, CompleteInv, OrderInv, outlineState = "done"
  PROVE  RowsRight(IF \E i \in With : Tops = {i} THEN With \ Tops ELSE With)
<1> DEFINE kept == IF \E i \in With : Tops = {i} THEN With \ Tops ELSE With
           Row(p) == IF p = 0 THEN hierarchy ELSE items[p]
<1>1. /\ With = Placed \cup Tops /\ Placed \cap Tops = {} /\ With \subseteq Nat \ {0}
      /\ stack # <<>> => Len(stack) = 1
      /\ With \subseteq DOMAIN items
  BY AllPlaced DEF With, OutlineInv, OutlineTypeOK
<1>2. \A p \in DOMAIN items : Rising(items[p])
  BY DEF OrderInv
<1>3. \A p \in DOMAIN items : p \notin With => ToSet(items[p]) = {}
  <2> SUFFICES ASSUME NEW p \in DOMAIN items, NEW c \in ToSet(items[p]) PROVE p \in With
    OBVIOUS
  <2>1. Nests(p, c)
    BY DEF OutlineInv, OutlineNests, ToSet
  <2> QED BY <2>1 DEF Nests, With, OutlineInv, OutlineTypeOK
<1>4. Placed = UNION {ToSet(items[p]) : p \in With}
  BY <1>1, <1>3 DEF Placed
<1>5. \A p \in With : p # 0 /\ Row(p) = items[p]
  BY <1>1
<1>6. kept \subseteq With
  OBVIOUS
<1>7. ASSUME Rising(hierarchy),
             \A p \in kept : ToSet(hierarchy) \cap ToSet(items[p]) = {},
             ToSet(hierarchy) \cup UNION {ToSet(items[p]) : p \in kept} = kept
      PROVE  RowsRight(kept)
  <2> HIDE DEF kept
  <2>1. \A p \in {0} \cup kept : Rising(Row(p))
    BY <1>1, <1>2, <1>5, <1>6, <1>7
  <2>2. \A p, q \in kept : p # q => ToSet(Row(p)) \cap ToSet(Row(q)) = {}
    BY <1>1, <1>5, <1>6, NestsOnce
  <2>3. \A p \in kept : ToSet(Row(0)) \cap ToSet(Row(p)) = {}
    BY <1>5, <1>6, <1>7
  <2>4. UNION {ToSet(Row(p)) : p \in {0} \cup kept} = kept
    <3>1. Row(0) = hierarchy /\ \A p \in kept : Row(p) = items[p]
      BY <1>5, <1>6
    <3>2. UNION {ToSet(Row(p)) : p \in {0} \cup kept}
            = ToSet(Row(0)) \cup UNION {ToSet(Row(p)) : p \in kept}
      OBVIOUS
    <3>3. UNION {ToSet(Row(p)) : p \in kept} = UNION {ToSet(items[p]) : p \in kept}
      BY <3>1
    <3> HIDE DEF Row
    <3> QED BY <3>1, <3>2, <3>3, <1>7
  <2>5. \A p, q \in {0} \cup kept : p # q => ToSet(Row(p)) \cap ToSet(Row(q)) = {}
    <3> HIDE DEF Row
    <3> QED BY <2>2, <2>3
  <2> QED BY <2>1, <2>4, <2>5 DEF RowsRight
<1>8. CASE stack = <<>>
  <2>1. Tops = {} /\ hierarchy = <<>>
    BY <1>8 DEF Tops, OrderInv, Returned
  <2>2. kept = With /\ Placed = With
    BY <1>1, <2>1
  <2>3. Rising(hierarchy) /\ ToSet(hierarchy) = {}
    BY <2>1 DEF Rising, ToSet
  <2>4. \A p \in kept : ToSet(hierarchy) \cap ToSet(items[p]) = {}
    BY <2>3
  <2>5. ToSet(hierarchy) \cup UNION {ToSet(items[p]) : p \in kept} = kept
    <3> HIDE DEF kept
    <3> QED BY <1>4, <2>2, <2>3
  <2>6. RowsRight(kept)
    <3> HIDE DEF kept
    <3> QED BY <1>7, <2>3, <2>4, <2>5
  <2> QED BY <2>6
<1>9. CASE stack # <<>>
  <2> SUFFICES ASSUME NEW s, s = Top.siblings PROVE RowsRight(kept)
    OBVIOUS
  <2>1. /\ 1 \in 1..Len(stack) /\ s = stack[1].siblings
        /\ s \in Seq(Nat) /\ Len(s) \in Nat \ {0} /\ Rising(s) /\ Tops = ToSet(s)
    <3>1. 1 \in 1..Len(stack) /\ Top = stack[1]
      <4>1. Len(stack) = 1 /\ 1 \in 1..1
        BY <1>1, <1>9
      <4> QED BY <4>1, Zenon DEF Top
    <3> QED BY <3>1, <1>9, FrameFacts DEF Tops, OrderInv
  <2>2. CASE Len(s) = 1
    <3>1. PICK d : d = s[1]
      OBVIOUS
    <3>2. Tops = {d} /\ hierarchy = items[d]
      <4>1. DOMAIN s = {1}
        BY <2>1, <2>2
      <4>2. Tops = {d}
        BY <4>1, <2>1, <3>1 DEF ToSet
      <4>3. hierarchy = items[d]
        BY <1>9, <2>2, <3>1 DEF OrderInv, Returned
      <4> QED BY <4>2, <4>3
    <3>3. d \in With /\ kept = With \ {d} /\ kept = Placed
      BY <3>2, <1>1
    <3>4. \A p \in kept : ToSet(hierarchy) \cap ToSet(items[p]) = {}
      BY <3>2, <3>3, <1>1, NestsOnce
    <3>5. Placed = ToSet(items[d]) \cup UNION {ToSet(items[p]) : p \in With \ {d}}
      BY <1>4, <3>3
    <3>6. Rising(hierarchy)
      BY <3>2, <3>3, <1>1, <1>2
    <3> HIDE DEF kept
    <3> QED BY <1>7, <3>2, <3>3, <3>4, <3>5, <3>6
  <2>3. CASE Len(s) # 1
    <3>1. hierarchy = s
      BY <1>9, <2>3 DEF OrderInv, Returned
    <3>2. \A i : Tops # {i}
      <4>1. 1 \in DOMAIN s /\ 2 \in DOMAIN s
        <5>1. PICK m \in Nat \ {0} : m = Len(s)
          BY <2>1
        <5>2. DOMAIN s = 1..m
          BY <2>1, <5>1
        <5>3. m # 1
          BY <5>1, <2>3
        <5>4. 1 \in 1..m /\ 2 \in 1..m
          BY <5>3
        <5> QED BY <5>2, <5>4, Zenon
      <4>2. s[1] < s[2] /\ s[1] \in Nat /\ s[2] \in Nat
        BY <4>1, <2>1 DEF Rising
      <4>3. s[1] \in Tops /\ s[2] \in Tops /\ s[1] # s[2]
        BY <4>1, <4>2, <2>1 DEF ToSet
      <4> QED BY <4>3
    <3>3. kept = With
      BY <3>2
    <3>4. \A p \in With : Tops \cap ToSet(items[p]) = {}
      BY <1>1, <1>4
    <3> HIDE DEF kept
    <3> QED BY <1>1, <1>4, <1>7, <2>1, <3>1, <3>3, <3>4
  <2> QED BY <2>2, <2>3
<1> QED BY <1>8, <1>9

LEMMA CompleteIsComplete ==
  ASSUME OutlineInv, CompleteInv, OrderInv
  PROVE  OutlineComplete
<1> DEFINE with == {i \in DOMAIN headers : headers[i].id}
           topmost == {i \in with : \A j \in with : headers[i].level <= headers[j].level}
           kept == IF \E i \in with : topmost = {i} THEN with \ topmost ELSE with
           ranksAbove == \E i, j \in with : /\ \A k \in with : i <= k
                                            /\ headers[j].level < headers[i].level
<1>1. DOMAIN headers = 1..Len(headers)
  BY DEF OutlineInv, OutlineTypeOK
<1>2. ranksAbove <=> RanksAbove
  BY <1>1 DEF RanksAbove
<1>3. with = With
  BY DEF With
<1>4. ASSUME outlineState = "done"
      PROVE  ~ranksAbove /\ RowsRight(kept)
  <2>1. ~RanksAbove
    BY <1>4, AllPlaced
  <2>2. topmost = Tops
    BY <1>3, <1>4, TopsAreTopmost
  <2>3. kept = IF \E i \in With : Tops = {i} THEN With \ Tops ELSE With
    <3> HIDE DEF with, topmost
    <3> QED BY <1>3, <2>2
  <2> HIDE DEF kept, ranksAbove
  <2> QED BY <1>2, <1>4, <2>1, <2>3, RowsAre
<1>5. outlineState = "threw" => ranksAbove
  BY <1>2 DEF CompleteInv
<1> QED BY <1>4, <1>5 DEF OutlineComplete, RowsRight, Rising

LEMMA CompleteAlone == OutlineSpec => []OutlineComplete
<1>1. (\E hs \in HeaderLists : OutlineInit(hs)) => OutlineInv /\ CompleteInv /\ OrderInv
  BY OutlineInitially, InitComplete, InitOrder
<1>2. OutlineInv /\ CompleteInv /\ OrderInv /\ [OutlineNext]_outline
        => OutlineInv' /\ CompleteInv' /\ OrderInv'
  BY OutlineStep, NextComplete, NextOrder
<1>3. OutlineInv /\ CompleteInv /\ OrderInv => OutlineComplete
  BY CompleteIsComplete
<1> QED BY <1>1, <1>2, <1>3, PTL DEF OutlineSpec

-----------------------------------------------------------------------------
(* The page.                                                                 *)

LEMMA OutlineStepOfPage == [Next]_vars => [OutlineNext]_outline
<1> SUFFICES ASSUME [Next]_vars PROVE [OutlineNext]_outline
  OBVIOUS
<1>1. CASE UNCHANGED vars
  BY <1>1 DEF vars
<1>2. CASE Start
  BY <1>2 DEF Start
<1>3. CASE RenderAffix
  BY <1>3 DEF RenderAffix
<1>4. CASE RenderTabs
  BY <1>4 DEF RenderTabs
<1>5. CASE Tabbing \/ Navigating \/ Searching
  BY <1>5 DEF Tabbing, Navigating, Searching, Idle
<1> QED BY <1>1, <1>2, <1>3, <1>4, <1>5 DEF Next

\* renderAffix does what the outline does alone, and nothing else of the script
\* touches it.
LEMMA PageHasOutline == Spec => OutlineSpec
<1>1. Init => \E hs \in HeaderLists : OutlineInit(hs)
  BY SiteAssumption DEF Init
<1> QED BY <1>1, OutlineStepOfPage, PTL DEF Spec, OutlineSpec

\* getHierarchy of docfx.js: on a page with headers of every number and order, each
\* item of the outline stands below the nearest header before it that ranks higher.
THEOREM OutlineAlwaysNests == Spec => []OutlineNests
  BY PageHasOutline, NestsAlone, PTL

\* getHierarchy of docfx.js: for headers of every number and order, each header with an
\* id stands in one place of the rows that are shown below what is returned, and in one
\* only, in the order of the page, but for a header that is the only topmost one, which
\* is left out; the script is ended by an exception only when a header ranks above the
\* first.
THEOREM OutlineAlwaysComplete == Spec => []OutlineComplete
  BY PageHasOutline, CompleteAlone, PTL

-----------------------------------------------------------------------------
(* Tables of contents.  The path of an entry, the order of the document and  *)
(* the fold over it are recursive functions; that there is one that          *)
(* satisfies each equation is shown for one number after the other.  They    *)
(* are stated of any table, so that the table of the next state is one too.  *)

LEMMA LeastOf ==
  ASSUME NEW I \in SUBSET Nat, I # {}
  PROVE  \E m \in I : \A i \in I : m <= i
  <1>1. PICK m \in I : \A i \in I : ~ (<<i, m>> \in OpToRel(<, Nat))
    BY NatLessThanWellFounded, WFMin
  <1>2. ASSUME NEW i \in I, i < m PROVE FALSE
    <2>1. <<i, m>> \in Nat \X Nat /\ <<i, m>>[1] < <<i, m>>[2]
      BY <1>2
    <2> QED
      BY <1>1, <2>1 DEF OpToRel
  <1> QED
    BY <1>2

\* Induction, for a set of numbers.
LEMMA Reaches ==
  ASSUME NEW I \in SUBSET Nat, 0 \in I, \A n \in I : n + 1 \in I
  PROVE  I = Nat
  <1> SUFFICES ASSUME I # Nat PROVE FALSE
    OBVIOUS
  <1>1. Nat \ I # {} /\ Nat \ I \in SUBSET Nat
    OBVIOUS
  <1>2. PICK m \in Nat \ I : \A i \in Nat \ I : m <= i
    BY <1>1, LeastOf
  <1>3. m - 1 \in Nat /\ m - 1 < m
    BY <1>2
  <1>4. m - 1 \in I
    BY <1>2, <1>3
  <1>5. (m - 1) + 1 \in I
    BY <1>4
  <1> QED
    BY <1>2, <1>5

LEMMA MaxOf ==
  ASSUME NEW n \in Nat, NEW T \in SUBSET (1..n), T # {}
  PROVE  Max(T) \in T /\ \A i \in T : Max(T) >= i
  <1> DEFINE I == {k \in Nat : k <= n => \A U \in SUBSET (1..k) :
                                 U # {} => \E m \in U : \A i \in U : m >= i}
  <1>1. 0 \in I
    <2>1. 1..0 = {}
      OBVIOUS
    <2> QED
      BY <2>1
  <1>2. ASSUME NEW k \in I PROVE k + 1 \in I
    <2> SUFFICES ASSUME k + 1 <= n, NEW U \in SUBSET (1..k + 1), U # {}
                 PROVE  \E m \in U : \A i \in U : m >= i
      OBVIOUS
    <2>1. CASE k + 1 \in U
      <3>1. \A i \in U : k + 1 >= i
        OBVIOUS
      <3> QED
        BY <2>1, <3>1
    <2>2. CASE k + 1 \notin U
      <3>1. U \in SUBSET (1..k)
        BY <2>2
      <3> QED
        BY <3>1
    <2> QED
      BY <2>1, <2>2
  <1>3. I = Nat
    <2> HIDE DEF I
    <2>1. I \in SUBSET Nat
      BY DEF I
    <2> QED
      BY <1>1, <1>2, <2>1, Reaches
  <1>4. \E m \in T : \A i \in T : m >= i
    BY <1>3
  <1> QED
    BY <1>4 DEF Max

LEMMA MaxIs ==
  ASSUME NEW n \in Nat, NEW T \in SUBSET (1..n + 1), n + 1 \in T
  PROVE  Max(T) = n + 1
  <1>1. n + 1 \in Nat /\ T # {}
    OBVIOUS
  <1>2. Max(T) \in T /\ Max(T) >= n + 1
    <2> DEFINE m == n + 1
    <2>1. m \in Nat /\ T \in SUBSET (1..m)
      BY <1>1
    <2> HIDE DEF m
    <2>2. Max(T) \in T /\ \A i \in T : Max(T) >= i
      BY <1>1, <2>1, MaxOf
    <2> QED
      BY <2>2
  <1>3. Max(T) \in 1..n + 1
    BY <1>2
  <1> QED
    BY <1>2, <1>3


\* PageNav's Above, of any table.
AboveOf(t) ==
  LET above[e \in 0..Len(t)] == IF e = 0 THEN <<>> ELSE <<e>> \o above[t[e].parent]
  IN above

LEMMA AboveIsOf == Above = AboveOf(toc)
  BY Zenon DEF Above, AboveOf, Parent, toc

LEMMA AboveIsOfNext == Above' = AboveOf(toc')
  BY Zenon DEF Above, AboveOf, Parent, toc

IsAbove(a, t, k) ==
  a = [e \in 0..k |-> IF e = 0 THEN <<>> ELSE <<e>> \o a[t[e].parent]]

LEMMA AboveThere ==
  ASSUME NEW t, IsToc(t)
  PROVE  \E a : IsAbove(a, t, Len(t))
<1> DEFINE I == {k \in Nat : k <= Len(t) => \E a : IsAbove(a, t, k)}
<1>0. /\ Len(t) \in Nat
      /\ \A e \in 1..Len(t) : t[e].parent \in 0..e - 1
  BY DEF IsToc
<1>1. 0 \in I
  <2> DEFINE a == [e \in 0..0 |-> <<>>]
  <2>1. IsAbove(a, t, 0)
    BY DEF IsAbove
  <2> QED BY <2>1
<1>2. ASSUME NEW k \in I PROVE k + 1 \in I
  <2> SUFFICES ASSUME k + 1 <= Len(t) PROVE \E a : IsAbove(a, t, k + 1)
    OBVIOUS
  <2>0. k \in Nat /\ k <= Len(t)
    BY <1>0
  <2>1. PICK a : IsAbove(a, t, k)
    BY <2>0
  <2> DEFINE b == [e \in 0..k + 1 |-> IF e = k + 1 THEN <<k + 1>> \o a[t[k + 1].parent] ELSE a[e]]
  <2>2. ASSUME NEW e \in 0..k + 1
        PROVE  b[e] = IF e = 0 THEN <<>> ELSE <<e>> \o b[t[e].parent]
    <3>1. CASE e = 0
      <4>1. e \in 0..k /\ e # k + 1
        BY <2>0, <3>1
      <4> QED BY <2>1, <3>1, <4>1 DEF IsAbove
    <3>2. CASE e \in 1..k
      <4>1. t[e].parent \in 0..e - 1
        BY <1>0, <2>0, <3>2
      <4>2. e # 0 /\ e \in 0..k /\ e # k + 1 /\ t[e].parent \in 0..k + 1 /\ t[e].parent # k + 1
        BY <2>0, <3>2, <4>1
      <4>3. b[e] = a[e] /\ b[t[e].parent] = a[t[e].parent]
        BY <4>2
      <4>4. a[e] = <<e>> \o a[t[e].parent]
        BY <2>1, <4>2 DEF IsAbove
      <4> HIDE DEF b
      <4> QED BY <4>2, <4>3, <4>4
    <3>3. CASE e = k + 1
      <4>1. t[k + 1].parent \in 0..k
        <5>1. k + 1 \in 1..Len(t) /\ (k + 1) - 1 = k
          BY <2>0
        <5> QED BY <1>0, <5>1
      <4>2. e # 0 /\ t[e].parent \in 0..k + 1 /\ t[e].parent # k + 1
        BY <2>0, <3>3, <4>1
      <4>3. b[t[e].parent] = a[t[e].parent]
        BY <4>2
      <4>4. b[e] = <<e>> \o a[t[e].parent]
        BY <3>3
      <4> HIDE DEF b
      <4> QED BY <4>2, <4>3, <4>4
    <3> QED BY <2>0, <3>1, <3>2, <3>3
  <2>3. b = [e \in 0..k + 1 |-> b[e]]
    OBVIOUS
  <2> HIDE DEF b
  <2>4. IsAbove(b, t, k + 1)
    BY <2>2, <2>3, Zenon DEF IsAbove
  <2> QED BY <2>4
<1> HIDE DEF I
<1>3. I = Nat
  <2>1. I \in SUBSET Nat
    BY DEF I
  <2> QED BY <1>1, <1>2, <2>1, Reaches
<1> QED BY <1>0, <1>3 DEF I

LEMMA AboveEquation ==
  ASSUME NEW t, IsToc(t)
  PROVE  IsAbove(AboveOf(t), t, Len(t))
<1>1. AboveOf(t) = CHOOSE a : IsAbove(a, t, Len(t))
  BY Zenon DEF AboveOf, IsAbove
<1> QED BY <1>1, AboveThere, Zenon

\* An entry and those above it are numbers up to its own.
LEMMA AboveSeq ==
  ASSUME NEW t, IsToc(t), NEW e \in 0..Len(t)
  PROVE  AboveOf(t)[e] \in Seq(1..Len(t))
<1> DEFINE a == AboveOf(t)
           I == {k \in Nat : k <= Len(t) => \A d \in 0..k : a[d] \in Seq(1..Len(t))}
<1>0. /\ Len(t) \in Nat
      /\ \A d \in 1..Len(t) : t[d].parent \in 0..d - 1
  BY DEF IsToc
<1>1. /\ a[0] = <<>>
      /\ \A d \in 1..Len(t) : a[d] = <<d>> \o a[t[d].parent]
  <2>1. \A d \in 0..Len(t) : a[d] = IF d = 0 THEN <<>> ELSE <<d>> \o a[t[d].parent]
    <3> HIDE DEF a
    <3>1. IsAbove(a, t, Len(t))
      BY AboveEquation DEF a
    <3> QED BY <3>1 DEF IsAbove
  <2> HIDE DEF a
  <2>2. 0 \in 0..Len(t) /\ \A d \in 1..Len(t) : d \in 0..Len(t) /\ d # 0
    BY <1>0
  <2>3. a[0] = <<>>
    BY <2>1, <2>2
  <2> QED BY <2>1, <2>2, <2>3
<1> HIDE DEF a
<1>2. 0 \in I
  <2>1. \A d \in 0..0 : d = 0
    OBVIOUS
  <2>2. <<>> \in Seq(1..Len(t))
    OBVIOUS
  <2> QED BY <1>1, <2>1, <2>2
<1>3. ASSUME NEW k \in I PROVE k + 1 \in I
  <2>0. k \in Nat
    OBVIOUS
  <2> SUFFICES ASSUME k + 1 <= Len(t), NEW d \in 0..k + 1 PROVE a[d] \in Seq(1..Len(t))
    BY <2>0
  <2>1. \A c \in 0..k : a[c] \in Seq(1..Len(t))
    BY <1>0, <2>0
  <2>2. CASE d \in 0..k
    BY <2>1, <2>2
  <2>3. CASE d = k + 1
    <3>1. d \in 1..Len(t) /\ t[d].parent \in 0..k
      BY <1>0, <2>0, <2>3
    <3>2. a[t[d].parent] \in Seq(1..Len(t)) /\ <<d>> \in Seq(1..Len(t))
      BY <2>1, <3>1
    <3>3. <<d>> \o a[t[d].parent] \in Seq(1..Len(t))
      BY <3>2, ConcatProperties
    <3> QED BY <1>1, <3>1, <3>3
  <2> QED BY <2>0, <2>2, <2>3
<1> HIDE DEF I
<1>4. I = Nat
  <2>1. I \in SUBSET Nat
    BY DEF I
  <2> QED BY <1>2, <1>3, <2>1, Reaches
<1>5. a[e] \in Seq(1..Len(t))
  BY <1>0, <1>4 DEF I
<1> QED BY <1>5 DEF a

\* The entries above one are numbers, and it is itself the rest of its path.
LEMMA AbovePath ==
  ASSUME NEW t, IsToc(t), NEW e \in 1..Len(t)
  PROVE  /\ ToSet(Tail(AboveOf(t)[e])) \subseteq 1..Len(t)
         /\ ToSet(AboveOf(t)[e]) = {e} \cup ToSet(Tail(AboveOf(t)[e]))
<1> DEFINE rest == AboveOf(t)[t[e].parent]
<1>0. Len(t) \in Nat /\ t[e].parent \in 0..Len(t)
  BY DEF IsToc
<1>1. AboveOf(t)[e] = <<e>> \o rest
  <2>1. e \in 0..Len(t) /\ e # 0
    BY <1>0
  <2> QED BY <2>1, AboveEquation DEF IsAbove
<1>2. rest \in Seq(1..Len(t))
  BY <1>0, AboveSeq
<1> HIDE DEF rest
<1>3. /\ <<e>> \o rest \in Seq(1..Len(t)) /\ <<e>> \o rest # <<>>
      /\ Len(<<e>> \o rest) = Len(rest) + 1 /\ Len(rest) \in Nat
      /\ (<<e>> \o rest)[1] = e
      /\ \A i \in 1..Len(rest) : (<<e>> \o rest)[i + 1] = rest[i]
  BY <1>2
<1>4. Tail(<<e>> \o rest) = rest
  <2>1. /\ Tail(<<e>> \o rest) \in Seq(1..Len(t))
        /\ Len(Tail(<<e>> \o rest)) = Len(rest)
        /\ \A i \in 1..Len(rest) : Tail(<<e>> \o rest)[i] = (<<e>> \o rest)[i + 1]
    BY <1>3
  <2> QED BY <1>2, <1>3, <2>1, SeqEqual
<1>5. ToSet(rest) \subseteq 1..Len(t)
  BY <1>2 DEF ToSet
<1>6. ToSet(<<e>> \o rest) = {e} \cup ToSet(rest)
  <2> DEFINE s == <<e>> \o rest
  <2>1. DOMAIN s = 1..Len(rest) + 1 /\ DOMAIN rest = 1..Len(rest)
    BY <1>2, <1>3
  <2>2. ASSUME NEW i \in DOMAIN s PROVE s[i] \in {e} \cup ToSet(rest)
    <3>1. CASE i = 1
      BY <1>3, <3>1
    <3>2. CASE i # 1
      <4>1. i - 1 \in 1..Len(rest) /\ (i - 1) + 1 = i
        BY <1>3, <2>1, <3>2
      <4>2. s[i] = rest[i - 1]
        BY <1>3, <4>1
      <4> QED BY <2>1, <4>1, <4>2 DEF ToSet
    <3> QED BY <3>1, <3>2
  <2>3. e \in ToSet(s)
    <3>1. 1 \in DOMAIN s /\ s[1] = e
      BY <1>3, <2>1
    <3> HIDE DEF s
    <3> QED BY <3>1 DEF ToSet
  <2>4. ASSUME NEW j \in DOMAIN rest PROVE rest[j] \in ToSet(s)
    <3>1. j + 1 \in DOMAIN s /\ s[j + 1] = rest[j]
      BY <1>3, <2>1
    <3> HIDE DEF s
    <3> QED BY <3>1 DEF ToSet
  <2> HIDE DEF s
  <2>5. ToSet(s) \subseteq {e} \cup ToSet(rest)
    BY <2>2 DEF ToSet
  <2>6. ToSet(rest) \subseteq ToSet(s)
    <3>1. ToSet(rest) = {rest[j] : j \in DOMAIN rest}
      BY DEF ToSet
    <3> QED BY <2>4, <3>1
  <2> QED BY <2>3, <2>5, <2>6 DEF s
<1> QED BY <1>1, <1>4, <1>5, <1>6

-----------------------------------------------------------------------------
(* The order of the document.                                                *)

\* PageNav's InDocument, of any table.
InDocumentOf(t, entries) ==
  LET upTo[n \in 0..Len(t)] ==
        IF n = 0 THEN <<>>
        ELSE IF n \in entries THEN Append(upTo[n - 1], n) ELSE upTo[n - 1]
  IN upTo[Len(t)]

LEMMA InDocumentIsOf ==
  ASSUME NEW entries
  PROVE  InDocument(entries) = InDocumentOf(toc, entries)
  BY Zenon DEF InDocument, InDocumentOf, toc

IsUpTo(u, entries, k) ==
  u = [n \in 0..k |-> IF n = 0 THEN <<>>
                      ELSE IF n \in entries THEN Append(u[n - 1], n) ELSE u[n - 1]]

LEMMA UpToThere ==
  ASSUME NEW entries, NEW l \in Nat
  PROVE  \E u : IsUpTo(u, entries, l)
<1> DEFINE I == {k \in Nat : \E u : IsUpTo(u, entries, k)}
<1>1. 0 \in I
  <2> DEFINE u == [n \in 0..0 |-> <<>>]
  <2>1. IsUpTo(u, entries, 0)
    BY DEF IsUpTo
  <2> QED BY <2>1
<1>2. ASSUME NEW k \in I PROVE k + 1 \in I
  <2>0. k \in Nat
    OBVIOUS
  <2>1. PICK u : IsUpTo(u, entries, k)
    OBVIOUS
  <2> DEFINE b == [n \in 0..k + 1 |->
                     IF n = k + 1 THEN IF k + 1 \in entries THEN Append(u[k], k + 1) ELSE u[k]
                     ELSE u[n]]
  <2>2. ASSUME NEW n \in 0..k + 1
        PROVE  b[n] = IF n = 0 THEN <<>>
                      ELSE IF n \in entries THEN Append(b[n - 1], n) ELSE b[n - 1]
    <3>1. CASE n = 0
      <4>1. n \in 0..k /\ n # k + 1
        BY <2>0, <3>1
      <4> QED BY <2>1, <3>1, <4>1 DEF IsUpTo
    <3>2. CASE n \in 1..k
      <4>1. n # 0 /\ n \in 0..k /\ n # k + 1 /\ n - 1 \in 0..k + 1 /\ n - 1 # k + 1
        BY <2>0, <3>2
      <4>2. b[n] = u[n] /\ b[n - 1] = u[n - 1]
        BY <4>1
      <4>3. u[n] = IF n \in entries THEN Append(u[n - 1], n) ELSE u[n - 1]
        BY <2>1, <4>1 DEF IsUpTo
      <4> HIDE DEF b
      <4> QED BY <4>1, <4>2, <4>3
    <3>3. CASE n = k + 1
      <4>1. n # 0 /\ n - 1 = k /\ k \in 0..k + 1 /\ k # k + 1
        BY <2>0, <3>3
      <4>2. b[n - 1] = u[k]
        BY <4>1
      <4>3. b[n] = IF n \in entries THEN Append(u[k], n) ELSE u[k]
        BY <3>3
      <4> HIDE DEF b
      <4> QED BY <4>1, <4>2, <4>3
    <3> QED BY <2>0, <3>1, <3>2, <3>3
  <2>3. b = [n \in 0..k + 1 |-> b[n]]
    OBVIOUS
  <2> HIDE DEF b
  <2>4. IsUpTo(b, entries, k + 1)
    BY <2>2, <2>3, Zenon DEF IsUpTo
  <2> QED BY <2>4
<1> HIDE DEF I
<1>3. I = Nat
  <2>1. I \in SUBSET Nat
    BY DEF I
  <2> QED BY <1>1, <1>2, <2>1, Reaches
<1> QED BY <1>3 DEF I

\* The entries of a set, in the order of the document, each once.
LEMMA InDocumentFacts ==
  ASSUME NEW t, IsToc(t), NEW entries \in SUBSET (1..Len(t))
  PROVE  /\ InDocumentOf(t, entries) \in Seq(Nat)
         /\ Rising(InDocumentOf(t, entries))
         /\ ToSet(InDocumentOf(t, entries)) = entries
<1> DEFINE u == CHOOSE u : IsUpTo(u, entries, Len(t))
           I == {k \in Nat : k <= Len(t) => /\ u[k] \in Seq(Nat) /\ Rising(u[k])
                                            /\ ToSet(u[k]) = entries \cap (1..k)}
<1>0. Len(t) \in Nat
  BY DEF IsToc
<1>1. IsUpTo(u, entries, Len(t))
  BY <1>0, UpToThere
<1>2. InDocumentOf(t, entries) = u[Len(t)]
  BY Zenon DEF InDocumentOf, IsUpTo
<1> HIDE DEF u
<1>3. 0 \in I
  <2>1. 0 \in 0..Len(t) /\ u[0] = <<>>
    BY <1>0, <1>1 DEF IsUpTo
  <2>2. 1..0 = {} /\ DOMAIN <<>> = {} /\ <<>> \in Seq(Nat)
    OBVIOUS
  <2>3. Rising(<<>>) /\ ToSet(<<>>) = {}
    BY <2>2 DEF Rising, ToSet
  <2> QED BY <2>1, <2>2, <2>3
<1>4. ASSUME NEW k \in I PROVE k + 1 \in I
  <2>0. k \in Nat
    OBVIOUS
  <2> SUFFICES ASSUME k + 1 <= Len(t)
               PROVE  /\ u[k + 1] \in Seq(Nat) /\ Rising(u[k + 1])
                      /\ ToSet(u[k + 1]) = entries \cap (1..k + 1)
    BY <2>0
  <2>1. u[k] \in Seq(Nat) /\ Rising(u[k]) /\ ToSet(u[k]) = entries \cap (1..k)
    BY <1>0, <2>0
  <2>2. u[k + 1] = IF k + 1 \in entries THEN Append(u[k], k + 1) ELSE u[k]
    <3>1. k + 1 \in 0..Len(t) /\ k + 1 # 0 /\ (k + 1) - 1 = k
      BY <1>0, <2>0
    <3> QED BY <1>1, <3>1 DEF IsUpTo
  <2>3. 1..k + 1 = 1..k \cup {k + 1}
    BY <2>0
  <2>4. CASE k + 1 \in entries
    <3>1. \A y \in ToSet(u[k]) : y < k + 1
      BY <2>0, <2>1
    <3>2. k + 1 \in Nat
      BY <2>0
    <3>3. /\ Append(u[k], k + 1) \in Seq(Nat) /\ Rising(Append(u[k], k + 1))
          /\ ToSet(Append(u[k], k + 1)) = ToSet(u[k]) \cup {k + 1}
      BY <2>1, <3>1, <3>2, AppendRising
    <3> QED BY <2>1, <2>2, <2>3, <2>4, <3>3
  <2>5. CASE k + 1 \notin entries
    BY <2>1, <2>2, <2>3, <2>5
  <2> QED BY <2>4, <2>5
<1> HIDE DEF I
<1>5. I = Nat
  <2>1. I \in SUBSET Nat
    BY DEF I
  <2> QED BY <1>3, <1>4, <2>1, Reaches
<1>6. /\ u[Len(t)] \in Seq(Nat) /\ Rising(u[Len(t)])
      /\ ToSet(u[Len(t)]) = entries \cap (1..Len(t))
  BY <1>0, <1>5 DEF I
<1> QED BY <1>2, <1>6

-----------------------------------------------------------------------------
(* The breadcrumb, which two files make in either order.                     *)

\* PageNav's Ancestors, Below and marked entries, of any table.
AncestorsOf(a, e) == ToSet(Tail(a[e]))
BelowOf(t, a, e) == {d \in DOMAIN t : e \in AncestorsOf(a, d)}
ActiveOf(t, a) == {e \in DOMAIN t : \E c \in {e} \cup BelowOf(t, a, e) : t[c].current}

BarLinks == IF navbar = "there" THEN site.navActive ELSE <<>>

\* Whatever came and failed so far: the marked entries are the paths to those of
\* this page, and the breadcrumb has what is there.
NavInv ==
  /\ IsToc(toc)
  /\ site.navActive \in Seq(Int)
  /\ script = "start" => pending = {} /\ sidetoc = "empty"
  /\ sidetoc \in {"empty", "there"}
  /\ navbar \in {"empty", "there"}
  /\ activeEntries = IF sidetoc = "there" THEN ActiveOf(toc, AboveOf(toc)) ELSE {}
  /\ script # "start" /\ (navbar = "there" \/ sidetoc = "there") =>
       breadcrumb = BarLinks \o InDocumentOf(toc, activeEntries)

\* The entries that TocComes marks are the paths to the entries of this page.
LEMMA WithParentsFacts ==
  ASSUME IsToc(toc)
  PROVE  WithParents({e \in Entries : toc[e].current}) = ActiveOf(toc, AboveOf(toc))
<1> DEFINE t == toc
           a == AboveOf(toc)
           current == {e \in DOMAIN t : t[e].current}
<1>0. DOMAIN t = 1..Len(t)
  BY DEF IsToc
<1>1. \A c \in DOMAIN t : /\ AncestorsOf(a, c) \subseteq DOMAIN t
                          /\ ToSet(a[c]) = {c} \cup AncestorsOf(a, c)
  BY <1>0, AbovePath DEF AncestorsOf
<1>2. WithParents({e \in Entries : toc[e].current}) = UNION {ToSet(a[c]) : c \in current}
  BY AboveIsOf DEF WithParents, Entries
<1> HIDE DEF t, a
<1>3. ASSUME NEW c \in current, NEW e \in ToSet(a[c])
      PROVE  e \in ActiveOf(t, a)
  <2>1. e \in {c} \cup AncestorsOf(a, c) /\ e \in DOMAIN t
    BY <1>1
  <2>2. c \in {e} \cup BelowOf(t, a, e)
    BY <2>1 DEF BelowOf
  <2> QED BY <2>1, <2>2 DEF ActiveOf
<1>4. ASSUME NEW e \in ActiveOf(t, a)
      PROVE  \E c \in current : e \in ToSet(a[c])
  <2>1. PICK c \in {e} \cup BelowOf(t, a, e) : t[c].current
    BY DEF ActiveOf
  <2>2. c \in DOMAIN t /\ e \in {c} \cup AncestorsOf(a, c)
    BY <2>1 DEF ActiveOf, BelowOf
  <2> QED BY <1>1, <2>1, <2>2
<1>5. UNION {ToSet(a[c]) : c \in current} = ActiveOf(t, a)
  <2> HIDE DEF current
  <2> QED BY <1>3, <1>4
<1> QED BY <1>2, <1>5 DEF t, a

LEMMA NavInitially == Init => NavInv
<1> SUFFICES ASSUME Init PROVE NavInv
  OBVIOUS
<1>1. PICK p \in Site : NavInit(p.nav)
  BY DEF Init
<1>2. IsToc(p.nav.toc) /\ p.nav.navActive \in Seq(Int) /\ site = p.nav
  BY <1>1, SiteAssumption DEF NavInit
<1> QED BY <1>1, <1>2 DEF NavInit, NavInv, Init, toc

\* What no step of the others touches.
LEMMA NavStays ==
  ASSUME NavInv, UNCHANGED nav, script' # "start" \/ UNCHANGED script, script # "start" \/ UNCHANGED script
  PROVE  NavInv'
  BY DEF NavInv, nav, marks, BarLinks, toc

LEMMA RenderNavStep ==
  ASSUME NavInv, script = "start", RenderNav, script' = "affix"
  PROVE  NavInv'
<1>1. UNCHANGED <<site, navbar, sidetoc, activeEntries>>
  BY DEF RenderNav
<1>2. sidetoc = "empty" /\ activeEntries = {}
  BY DEF NavInv
<1>3. breadcrumb' = IF navbar = "there" THEN Breadcrumb(navbar, {}) ELSE <<>>
  BY DEF RenderNav
<1>4. navbar = "there" => breadcrumb' = BarLinks' \o InDocumentOf(toc, {})
  BY <1>1, <1>3, InDocumentIsOf DEF Breadcrumb, BarLinks
<1>5. UNCHANGED toc
  BY <1>1 DEF toc
<1> QED BY <1>1, <1>2, <1>4, <1>5 DEF NavInv

LEMMA NavbarComesStep ==
  ASSUME NavInv, script # "start", UNCHANGED script, NavbarComes
  PROVE  NavInv'
<1>1. UNCHANGED <<site, sidetoc, activeEntries>>
  BY DEF NavbarComes
<1>2. UNCHANGED toc
  BY <1>1 DEF toc
<1>3. CASE site.navHasList
  <2>1. navbar' = "there" /\ breadcrumb' = Breadcrumb("there", activeEntries)
    BY <1>3 DEF NavbarComes
  <2>2. breadcrumb' = BarLinks' \o InDocumentOf(toc, activeEntries)
    BY <1>1, <2>1, InDocumentIsOf DEF Breadcrumb, BarLinks
  <2> QED BY <1>1, <1>2, <2>1, <2>2 DEF NavInv
<1>4. CASE ~site.navHasList
  <2>1. UNCHANGED <<navbar, breadcrumb>>
    BY <1>4 DEF NavbarComes
  <2>2. UNCHANGED BarLinks
    BY <1>1, <2>1 DEF BarLinks
  <2> QED BY <1>1, <1>2, <2>1, <2>2 DEF NavInv
<1> QED BY <1>3, <1>4

LEMMA TocComesStep ==
  ASSUME NavInv, script # "start", UNCHANGED script, TocComes
  PROVE  NavInv'
<1> DEFINE entries == WithParents({e \in Entries : toc[e].current})
<1>1. /\ UNCHANGED <<site, navbar>>
      /\ sidetoc' = "there" /\ activeEntries' = entries
      /\ breadcrumb' = Breadcrumb(navbar, entries)
  BY DEF TocComes
<1>2. UNCHANGED toc
  BY <1>1 DEF toc
<1>3. entries = ActiveOf(toc, AboveOf(toc))
  BY WithParentsFacts DEF NavInv
<1> HIDE DEF entries
<1>4. breadcrumb' = BarLinks' \o InDocumentOf(toc, entries)
  BY <1>1, InDocumentIsOf DEF Breadcrumb, BarLinks
<1> QED BY <1>1, <1>2, <1>3, <1>4 DEF NavInv

LEMMA NavStep ==
  ASSUME NavInv, [Next]_vars
  PROVE  NavInv'
<1>1. CASE UNCHANGED vars
  BY <1>1, NavStays DEF vars
<1>2. CASE Start
  BY <1>2, RenderNavStep DEF Start
<1>3. CASE RenderAffix
  <2>1. script # "start" /\ UNCHANGED nav
    BY <1>3 DEF RenderAffix
  <2>2. script' # "start"
    BY <1>3 DEF RenderAffix
  <2> QED BY <2>1, <2>2, NavStays
<1>4. CASE RenderTabs
  <2>1. script # "start" /\ UNCHANGED nav
    BY <1>4 DEF RenderTabs
  <2>2. script' # "start"
    BY <1>4 DEF RenderTabs
  <2> QED BY <2>1, <2>2, NavStays
<1>5. CASE Tabbing \/ Searching
  BY <1>5, NavStays DEF Tabbing, Searching, Idle
<1>6. CASE Navigating
  <2>0. script # "start" /\ UNCHANGED script
    BY <1>6 DEF Navigating, Idle
  <2>1. CASE NavbarComes
    BY <2>0, <2>1, NavbarComesStep
  <2>2. CASE TocComes
    BY <2>0, <2>2, TocComesStep
  <2>3. CASE NavbarFails \/ TocFails \/ ToggleEntry \/ FilterToc
    <3>1. UNCHANGED <<site, navbar, sidetoc, activeEntries, breadcrumb>>
      BY <2>3 DEF NavbarFails, TocFails, ToggleEntry, FilterToc
    <3>2. UNCHANGED <<toc, BarLinks>>
      BY <3>1 DEF toc, BarLinks
    <3> QED BY <2>0, <3>1, <3>2 DEF NavInv
  <2> QED BY <1>6, <2>1, <2>2, <2>3 DEF Navigating
<1> QED BY <1>1, <1>2, <1>3, <1>4, <1>5, <1>6 DEF Next

LEMMA NavInvBread ==
  ASSUME NavInv
  PROVE  BreadcrumbRight
<1> SUFFICES ASSUME script # "start", navbar = "there" \/ sidetoc = "there"
             PROVE  LET inBar == IF navbar = "there" THEN site.navActive ELSE <<>>
                        path == SubSeq(breadcrumb, Len(inBar) + 1, Len(breadcrumb))
                    IN /\ IsPrefix(inBar, breadcrumb)
                       /\ \A i, j \in DOMAIN path : i < j => path[i] < path[j]
                       /\ ToSet(path) = IF sidetoc = "there"
                                        THEN {e \in Entries : \E c \in {e} \cup Below(e) : toc[c].current}
                                        ELSE {}
  BY DEF BreadcrumbRight
<1> DEFINE path == SubSeq(breadcrumb, Len(BarLinks) + 1, Len(breadcrumb))
           d == InDocumentOf(toc, activeEntries)
<1>0. BarLinks \in Seq(Int)
  BY DEF NavInv, BarLinks
<1>1. activeEntries \in SUBSET (1..Len(toc))
  BY DEF NavInv, IsToc, ActiveOf
<1>2. d \in Seq(Nat) /\ Rising(d) /\ ToSet(d) = activeEntries
  BY <1>1, InDocumentFacts DEF NavInv
<1>3. breadcrumb = BarLinks \o d
  BY DEF NavInv
<1>4. ToSet(d) = IF sidetoc = "there"
                 THEN {e \in Entries : \E c \in {e} \cup Below(e) : toc[c].current} ELSE {}
  BY <1>2, AboveIsOf DEF NavInv, ActiveOf, BelowOf, AncestorsOf, Below, Ancestors, Entries
<1>5. path = d /\ IsPrefix(BarLinks, breadcrumb)
  <2> HIDE DEF d
  <2>1. ASSUME NEW x \in Seq(Int), NEW y \in Seq(Int)
        PROVE  SubSeq(x \o y, Len(x) + 1, Len(x \o y)) = y /\ IsPrefix(x, x \o y)
    <3>1. /\ Len(x) \in Nat /\ Len(y) \in Nat /\ x \o y \in Seq(Int)
          /\ Len(x \o y) = Len(x) + Len(y)
          /\ \A i \in 1..Len(x) : (x \o y)[i] = x[i]
          /\ \A i \in 1..Len(y) : (x \o y)[Len(x) + i] = y[i]
      OBVIOUS
    <3>2. SubSeq(x \o y, Len(x) + 1, Len(x \o y)) = y
      <4> DEFINE z == SubSeq(x \o y, Len(x) + 1, Len(x \o y))
      <4>1. /\ z \in Seq(Int) /\ Len(z) = Len(y)
            /\ \A i \in 1..Len(y) : z[i] = (x \o y)[Len(x) + i]
        BY <3>1
      <4> HIDE DEF z
      <4>2. z = y
        BY <3>1, <4>1, SeqEqual
      <4> QED BY <4>2 DEF z
    <3>3. SubSeq(x \o y, 1, Len(x)) = x /\ SubSeq(x, 1, Len(x)) = x
      <4> DEFINE z == SubSeq(x \o y, 1, Len(x))
      <4>1. /\ z \in Seq(Int) /\ Len(z) = Len(x)
            /\ \A i \in 1..Len(x) : z[i] = (x \o y)[i]
        BY <3>1
      <4> HIDE DEF z
      <4>2. z = x
        BY <3>1, <4>1, SeqEqual
      <4> QED BY <4>2, SubSeqFull DEF z
    <3> QED BY <3>1, <3>2, <3>3 DEF IsPrefix
  <2>2. d \in Seq(Int)
    BY <1>2
  <2> QED BY <1>0, <1>3, <2>1, <2>2
<1>6. \A i, j \in DOMAIN path : i < j => path[i] < path[j]
  <2> HIDE DEF path, d
  <2> QED BY <1>2, <1>5 DEF Rising
<1>7. ToSet(path) = IF sidetoc = "there"
                    THEN {e \in Entries : \E c \in {e} \cup Below(e) : toc[c].current} ELSE {}
  <2> HIDE DEF path, d
  <2> QED BY <1>4, <1>5
<1> QED BY <1>5, <1>6, <1>7, Zenon DEF BarLinks

\* renderNavbar and renderSidebar of docfx.js: for every navigation bar and table,
\* and whichever of their files comes first, comes again or fails, the breadcrumb has
\* the active links and the path to each entry of this page, in their order.
THEOREM BreadcrumbAlwaysRight == Spec => []BreadcrumbRight
<1>1. NavInv /\ [Next]_vars => NavInv'
  BY NavStep
<1>2. NavInv => BreadcrumbRight
  BY NavInvBread
<1> QED BY <1>1, <1>2, NavInitially, PTL DEF Spec

-----------------------------------------------------------------------------
(* The filter, whose marks are left from one text to the next.               *)

\* PageNav's definitions of the filter, of any table.
LeavesOf(t, a) == {e \in DOMAIN t : BelowOf(t, a, e) = {}}
HasText(t, a, e, word) ==
  ContainsText(
    LowerCase(FoldLeft(LAMBDA text, x : IF t[x].title = <<>> THEN text
                                        ELSE t[x].title \o <<".">> \o text,
                       t[e].title, Tail(a[e]))),
    LowerCase(word))
InnerOf(t, a, m, e) ==
  IF BelowOf(t, a, e) \cap m.shown # {}
  THEN [shown |-> m.shown \cup {e}, filtered |-> m.filtered \cup {e}, hidden |-> m.hidden \ {e}]
  ELSE [shown |-> m.shown \ {e}, filtered |-> m.filtered \ {e}, hidden |-> m.hidden \cup {e}]
MarkAll(t, a, base, q) == FoldLeft(LAMBDA m, e : InnerOf(t, a, m, e), base, q)

MarksRight(t, a, word, h, f) ==
  IF word = <<>> THEN h = {}
  ELSE \A e \in LeavesOf(t, a) :
         /\ e \in h <=> ~HasText(t, a, e, word)
         /\ e \notin h => /\ AncestorsOf(a, e) \cap h = {}
                          /\ AncestorsOf(a, e) \subseteq f

LEMMA FilterIsOf == FilterRight <=> MarksRight(toc, Above, filter, hidden, filtered)
  BY Zenon DEF FilterRight, MarksRight, Leaves, Entries, LeavesOf, BelowOf, Below, Ancestors,
     AncestorsOf, FilterNavItem, FullTitle, HasText

LEMMA FilterIsOfNext == FilterRight' <=> MarksRight(toc', Above', filter', hidden', filtered')
  BY Zenon DEF FilterRight, MarksRight, Leaves, Entries, LeavesOf, BelowOf, Below, Ancestors,
     AncestorsOf, FilterNavItem, FullTitle, HasText, FoldLeft, MapThenFoldSet, toc

LEMMA HasTextIsOf ==
  ASSUME NEW e, NEW word
  PROVE  FilterNavItem(e, word) <=> HasText(toc, Above, e, word)
  BY Zenon DEF FilterNavItem, FullTitle, HasText

LEMMA LeavesIsOf == Leaves = LeavesOf(toc, Above)
  BY Zenon DEF Leaves, Entries, LeavesOf, BelowOf, Below, Ancestors, AncestorsOf

LEMMA MarkAllIsOf ==
  ASSUME NEW base, NEW q
  PROVE  FoldLeft(Inner, base, q) = MarkAll(toc, Above, base, q)
  BY Zenon DEF MarkAll, FoldLeft, MapThenFoldSet, Inner, InnerOf, BelowOf, Below, Ancestors,
     AncestorsOf, Entries

\* The fold over the entries that have others below them.
Marked(h, t, a, base, q, n) ==
  h = [T \in SUBSET (1..n) |->
         IF T = {} THEN base ELSE InnerOf(t, a, h[T \ {Max(T)}], q[Max(T)])]

LEMMA MarkAllDef ==
  ASSUME NEW t, NEW a, NEW base, NEW q \in Seq(Nat)
  PROVE  MarkAll(t, a, base, q) = (CHOOSE h : Marked(h, t, a, base, q, Len(q)))[1..Len(q)]
<1>1. DOMAIN q = 1..Len(q)
  OBVIOUS
<1> QED BY <1>1, Zenon DEF MarkAll, FoldLeft, MapThenFoldSet, Marked

LEMMA MarkedNext ==
  ASSUME NEW t, NEW a, NEW base, NEW q, NEW n \in Nat, NEW h, Marked(h, t, a, base, q, n)
  PROVE  \E g : Marked(g, t, a, base, q, n + 1)
<1> DEFINE g == [T \in SUBSET (1..n + 1) |->
                   IF n + 1 \in T THEN InnerOf(t, a, h[T \ {n + 1}], q[n + 1]) ELSE h[T]]
<1>1. ASSUME NEW T \in SUBSET (1..n + 1)
      PROVE  g[T] = IF T = {} THEN base ELSE InnerOf(t, a, g[T \ {Max(T)}], q[Max(T)])
  <2>1. CASE T = {}
    <3>1. T \in SUBSET (1..n) /\ g[T] = h[T]
      BY <2>1
    <3> QED BY <2>1, <3>1 DEF Marked
  <2>2. CASE n + 1 \in T
    <3>1. T \ {n + 1} \in SUBSET (1..n + 1) /\ n + 1 \notin T \ {n + 1}
      OBVIOUS
    <3>2. g[T \ {n + 1}] = h[T \ {n + 1}]
      BY <3>1
    <3>3. g[T] = InnerOf(t, a, h[T \ {n + 1}], q[n + 1])
      BY <2>2
    <3> HIDE DEF g
    <3> QED BY <2>2, <3>2, <3>3, MaxIs
  <2>3. CASE T # {} /\ n + 1 \notin T
    <3>1. T \in SUBSET (1..n)
      BY <2>3
    <3>2. Max(T) \in T
      BY <2>3, <3>1, MaxOf
    <3>3. T \ {Max(T)} \in SUBSET (1..n) /\ T \ {Max(T)} \in SUBSET (1..n + 1)
          /\ n + 1 \notin T \ {Max(T)}
      BY <2>3, <3>1
    <3>4. g[T] = h[T] /\ g[T \ {Max(T)}] = h[T \ {Max(T)}]
      BY <2>3, <3>3
    <3>5. h[T] = InnerOf(t, a, h[T \ {Max(T)}], q[Max(T)])
      BY <2>3, <3>1 DEF Marked
    <3> HIDE DEF g
    <3> QED BY <2>3, <3>4, <3>5
  <2> QED BY <2>1, <2>2, <2>3
<1> HIDE DEF g
<1>2. g = [T \in SUBSET (1..n + 1) |-> g[T]]
  BY DEF g
<1>3. Marked(g, t, a, base, q, n + 1)
  BY <1>1, <1>2, Zenon DEF Marked
<1> QED BY <1>3

LEMMA MarkedThere ==
  ASSUME NEW t, NEW a, NEW base, NEW q, NEW n \in Nat
  PROVE  \E h : Marked(h, t, a, base, q, n)
<1> DEFINE I == {k \in Nat : \E h : Marked(h, t, a, base, q, k)}
<1>1. 0 \in I
  <2> DEFINE h == [T \in SUBSET (1..0) |-> base]
  <2>1. Marked(h, t, a, base, q, 0)
    <3>1. 1..0 = {}
      OBVIOUS
    <3>2. \A T \in SUBSET (1..0) : T = {}
      BY <3>1
    <3> QED BY <3>2 DEF Marked
  <2> QED BY <2>1
<1>2. ASSUME NEW k \in I PROVE k + 1 \in I
  BY MarkedNext
<1> HIDE DEF I
<1>3. I = Nat
  <2>1. I \in SUBSET Nat
    BY DEF I
  <2> QED BY <1>1, <1>2, <2>1, Reaches
<1> QED BY <1>3 DEF I

\* No leaf's marks change, and each entry that was come to and has a hit below
\* it is filtered and not hidden.
LeavesStay(L, base, m) ==
  \A e \in L : (e \in m.shown <=> e \in base.shown) /\ (e \in m.hidden <=> e \in base.hidden)
Opened(t, a, hits, m, d) ==
  BelowOf(t, a, d) \cap hits # {} => d \in m.filtered /\ d \notin m.hidden

LEMMA MarkAllFacts ==
  ASSUME NEW t, NEW a, NEW base, NEW L, NEW hits \in SUBSET L,
         NEW q \in Seq(Nat), ToSet(q) \cap L = {}, hits \subseteq base.shown
  PROVE  /\ LeavesStay(L, base, MarkAll(t, a, base, q))
         /\ \A d \in ToSet(q) : Opened(t, a, hits, MarkAll(t, a, base, q), d)
<1> DEFINE h == CHOOSE h : Marked(h, t, a, base, q, Len(q))
           Good(k) == /\ LeavesStay(L, base, h[1..k])
                      /\ \A j \in 1..k : Opened(t, a, hits, h[1..k], q[j])
           I == {k \in Nat : k <= Len(q) => Good(k)}
<1>0. Len(q) \in Nat /\ DOMAIN q = 1..Len(q)
  OBVIOUS
<1>1. Marked(h, t, a, base, q, Len(q))
  BY <1>0, MarkedThere
<1> HIDE DEF h
<1>2. 0 \in I
  <2>1. 1..0 = {} /\ 1..0 \in SUBSET (1..Len(q))
    OBVIOUS
  <2>2. h[1..0] = base
    BY <1>1, <2>1 DEF Marked
  <2> QED BY <2>1, <2>2 DEF LeavesStay
<1>3. ASSUME NEW k \in I PROVE k + 1 \in I
  <2>0. k \in Nat
    OBVIOUS
  <2> SUFFICES ASSUME k + 1 <= Len(q) PROVE Good(k + 1)
    BY <2>0
  <2>1. Good(k)
    BY <1>0, <2>0
  <2>2. h[1..k + 1] = InnerOf(t, a, h[1..k], q[k + 1])
    <3>1. 1..k + 1 \in SUBSET (1..Len(q)) /\ 1..k + 1 # {} /\ k + 1 \in 1..k + 1
      BY <1>0, <2>0
    <3>2. Max(1..k + 1) = k + 1
      BY <2>0, <3>1, MaxIs
    <3>3. (1..k + 1) \ {k + 1} = 1..k
      BY <2>0
    <3>4. h[1..k + 1] = InnerOf(t, a, h[(1..k + 1) \ {Max(1..k + 1)}], q[Max(1..k + 1)])
      BY <1>1, <3>1 DEF Marked
    <3> QED BY <3>2, <3>3, <3>4
  <2> DEFINE m == h[1..k]
             n == h[1..k + 1]
             x == q[k + 1]
  <2>3. x \notin L
    <3>1. k + 1 \in DOMAIN q
      BY <1>0, <2>0
    <3> QED BY <3>1 DEF ToSet
  <2>4. n = InnerOf(t, a, m, x)
    BY <2>2
  <2>5. LeavesStay(L, base, m) /\ \A j \in 1..k : Opened(t, a, hits, m, q[j])
    BY <2>1
  <2> HIDE DEF m, n, x
  <2>6. LeavesStay(L, base, n)
    BY <2>3, <2>4, <2>5 DEF LeavesStay, InnerOf
  <2>7. hits \subseteq m.shown
    BY <2>5 DEF LeavesStay
  <2>8. Opened(t, a, hits, n, x)
    BY <2>4, <2>7 DEF Opened, InnerOf
  <2>9. ASSUME NEW d, Opened(t, a, hits, m, d), d # x
        PROVE  Opened(t, a, hits, n, d)
    BY <2>4, <2>9 DEF Opened, InnerOf
  <2>10. \A j \in 1..k + 1 : Opened(t, a, hits, n, q[j])
    <3>1. \A j \in 1..k + 1 : j \in 1..k \/ j = k + 1
      BY <2>0
    <3>2. Opened(t, a, hits, n, q[k + 1])
      BY <2>8 DEF x
    <3>3. \A j \in 1..k : Opened(t, a, hits, n, q[j])
      BY <2>5, <2>8, <2>9
    <3> QED BY <3>1, <3>2, <3>3
  <2> QED BY <2>6, <2>10 DEF n
<1>4. I = Nat
  <2> HIDE DEF I
  <2>1. I \in SUBSET Nat
    BY DEF I
  <2> QED BY <1>2, <1>3, <2>1, Reaches
<1>5. Good(Len(q))
  BY <1>0, <1>4
<1>6. MarkAll(t, a, base, q) = h[1..Len(q)]
  BY MarkAllDef DEF h
<1>7. ASSUME NEW d \in ToSet(q) PROVE Opened(t, a, hits, h[1..Len(q)], d)
  <2>1. PICK j \in 1..Len(q) : d = q[j]
    BY <1>0 DEF ToSet
  <2> QED BY <1>5, <2>1
<1> QED BY <1>5, <1>6, <1>7

\* A filter is right whatever marks are left from those before.
LEMMA ApplyFilterRight ==
  ASSUME IsToc(toc), NEW word, word # <<>>, ApplyFilter(word), UNCHANGED site
  PROVE  FilterRight'
<1> DEFINE t == toc
           a == Above
           L == LeavesOf(t, a)
           hits == {e \in L : HasText(t, a, e, word)}
           base == [shown |-> (shown \ L) \cup hits, filtered |-> filtered,
                    hidden |-> (hidden \ L) \cup (L \ hits)]
           q == InDocumentOf(t, DOMAIN t \ L)
           m == MarkAll(t, a, base, q)
<1>0. DOMAIN t = 1..Len(t)
  BY DEF IsToc
<1>1. hits = {e \in Leaves : FilterNavItem(e, word)}
  BY LeavesIsOf, HasTextIsOf, Zenon
<1>2. InDocument(Entries \ Leaves) = q
  BY LeavesIsOf, InDocumentIsOf, Zenon DEF Entries
<1>3. filter' = word /\ hidden' = m.hidden /\ filtered' = m.filtered
  <2>1. FoldLeft(Inner, base, q) = m
    BY MarkAllIsOf
  <2>2. base = [shown |-> (shown \ Leaves) \cup hits, filtered |-> filtered,
                hidden |-> (hidden \ Leaves) \cup (Leaves \ hits)]
    BY LeavesIsOf, Zenon
  <2> HIDE DEF base, q, hits, m
  <2> QED BY <1>1, <1>2, <2>1, <2>2, Zenon DEF ApplyFilter
<1>4. q \in Seq(Nat) /\ ToSet(q) = DOMAIN t \ L
  BY <1>0, InDocumentFacts
<1>5. hits \in SUBSET L /\ hits \subseteq base.shown /\ ToSet(q) \cap L = {}
  BY <1>4
<1>6. LeavesStay(L, base, m) /\ \A d \in ToSet(q) : Opened(t, a, hits, m, d)
  <2> HIDE DEF base, q, hits, L
  <2> QED BY <1>4, <1>5, MarkAllFacts
<1>7. \A e \in L : e \in base.hidden <=> e \notin hits
  OBVIOUS
<1>8. ASSUME NEW e \in L
      PROVE  /\ e \in m.hidden <=> ~HasText(t, a, e, word)
             /\ e \notin m.hidden => /\ AncestorsOf(a, e) \cap m.hidden = {}
                                     /\ AncestorsOf(a, e) \subseteq m.filtered
  <2>1. e \in m.hidden <=> e \notin hits
    BY <1>6, <1>7, Zenon DEF LeavesStay
  <2>2. e \in hits <=> HasText(t, a, e, word)
    OBVIOUS
  <2>3. e \in DOMAIN t /\ AncestorsOf(a, e) \subseteq DOMAIN t
    <3>1. e \in 1..Len(t)
      BY <1>0 DEF LeavesOf
    <3>2. AncestorsOf(a, e) \subseteq 1..Len(t)
      BY <3>1, AbovePath, AboveIsOf DEF AncestorsOf
    <3> QED BY <1>0, <3>1, <3>2
  <2>4. ASSUME NEW d \in AncestorsOf(a, e), e \in hits
        PROVE  d \notin m.hidden /\ d \in m.filtered
    <3>1. d \in DOMAIN t /\ e \in BelowOf(t, a, d)
      BY <2>3 DEF BelowOf
    <3>2. d \in ToSet(q)
      BY <1>4, <3>1 DEF LeavesOf
    <3>3. Opened(t, a, hits, m, d)
      BY <1>6, <3>2
    <3> HIDE DEF m, hits
    <3> QED BY <2>4, <3>1, <3>3 DEF Opened
  <2> HIDE DEF m, hits
  <2> QED BY <2>1, <2>2, <2>4
<1>9. MarksRight(t, a, word, m.hidden, m.filtered)
  <2> HIDE DEF m
  <2> QED BY <1>8, Zenon DEF MarksRight
<1>10. toc' = t /\ Above' = a
  <2>1. toc' = t
    BY DEF toc
  <2> HIDE DEF t
  <2> QED BY <2>1, AboveIsOf, AboveIsOfNext DEF t
<1> HIDE DEF m, t, a
<1> QED BY <1>3, <1>9, <1>10, FilterIsOfNext

LEMMA FilterStays ==
  ASSUME FilterRight, UNCHANGED <<site, filter, hidden, filtered>>
  PROVE  FilterRight'
<1>1. toc' = toc
  BY DEF toc
<1>2. Above' = Above
  BY <1>1, AboveIsOf, AboveIsOfNext
<1> QED BY <1>1, <1>2, FilterIsOf, FilterIsOfNext

LEMMA FilterStep ==
  ASSUME NavInv, FilterRight, [Next]_vars
  PROVE  FilterRight'
<1>1. CASE UNCHANGED <<site, filter, hidden, filtered>>
  BY <1>1, FilterStays
<1>2. CASE Navigating /\ FilterToc
  <2>0. UNCHANGED site
    BY <1>2 DEF FilterToc
  <2>1. PICK word \in Filters : IF word = <<>> THEN ClearFilter ELSE ApplyFilter(word)
    BY <1>2 DEF FilterToc
  <2>2. CASE word = <<>>
    <3>1. filter' = <<>> /\ hidden' = {}
      BY <2>1, <2>2 DEF ClearFilter
    <3> QED BY <3>1, FilterIsOfNext DEF MarksRight
  <2>3. CASE word # <<>>
    BY <2>0, <2>1, <2>3, ApplyFilterRight DEF NavInv
  <2> QED BY <2>2, <2>3
<1>3. UNCHANGED <<site, filter, hidden, filtered>> \/ (Navigating /\ FilterToc)
  <2>1. CASE UNCHANGED vars \/ RenderAffix \/ RenderTabs \/ Tabbing \/ Searching
    BY <2>1 DEF vars, nav, marks, RenderAffix, RenderTabs, Tabbing, Searching
  <2>2. CASE Start
    BY <2>2 DEF Start, RenderNav, marks
  <2>3. CASE Navigating
    BY <2>3 DEF Navigating, NavbarComes, NavbarFails, TocComes, TocFails, ToggleEntry, marks
  <2> QED BY <2>1, <2>2, <2>3 DEF Next
<1> QED BY <1>1, <1>2, <1>3

LEMMA FilterInitially == Init => FilterRight
<1> SUFFICES ASSUME Init PROVE FilterRight
  OBVIOUS
<1>1. filter = <<>> /\ hidden = {}
  BY DEF Init, NavInit
<1> QED BY <1>1 DEF FilterRight

\* registerTocEvents of docfx.js: for every table and every sequence of filters, a leaf
\* is hidden just when its full title does not have the text, and all that a leaf with
\* the text is below can be seen and is opened.
THEOREM FilterAlwaysRight == Spec => []FilterRight
<1>1. NavInv /\ FilterRight /\ [Next]_vars => NavInv' /\ FilterRight'
  BY NavStep, FilterStep
<1> QED BY <1>1, NavInitially, FilterInitially, PTL DEF Spec

-----------------------------------------------------------------------------
(* Groups of tabs: TabGroups's definitions, of any groups.                   *)

Shape(gs, s) ==
  /\ s = [visible |-> s.visible, selected |-> s.selected, selectedTabs |-> s.selectedTabs,
          url |-> s.url, threw |-> s.threw]
  /\ s.visible = [g \in DOMAIN gs |-> s.visible[g]]
  /\ s.selected = [g \in DOMAIN gs |-> s.selected[g]]
  /\ \A g \in DOMAIN gs : s.visible[g] \subseteq DOMAIN gs[g].tabs
  /\ s.selectedTabs \in Seq(STRING)
  /\ s.threw \in BOOLEAN

DependentOf(gs) == {g \in DOMAIN gs : ~gs[g].independent}

WithoutGroupOf(gs, chosen, g) ==
  LET left[n \in 0..Len(gs[g].tabs)] ==
        IF n = 0 THEN chosen ELSE WithoutTab(left[n - 1], gs[g].tabs[n].ids)
  IN left[Len(gs[g].tabs)]

UpdateOf(gs, s, g) ==
  LET chosen == ToSet(s.selectedTabs)
      visible == {t \in DOMAIN gs[g].tabs : gs[g].tabs[t].condition \in chosen \cup {None}}
      selected == {t \in visible : Intersect(s.selectedTabs, gs[g].tabs[t].ids)}
      first == Min(visible)
      given == WithoutGroupOf(gs, s.selectedTabs, g)
      seen == [s EXCEPT !.visible[g] = visible]
  IN IF s.threw THEN s
     ELSE IF selected # {} THEN [seen EXCEPT !.selected[g] = selected]
     ELSE IF visible = {}
     THEN [seen EXCEPT !.selected[g] = {}, !.selectedTabs = given, !.threw = TRUE]
     ELSE [seen EXCEPT !.selected[g] = {first},
                       !.selectedTabs = Append(given, gs[g].tabs[first].ids[1])]

Done(f, gs, s, n) ==
  f = [k \in 0..n |-> IF k = 0 THEN s
                      ELSE IF k \in DependentOf(gs) THEN UpdateOf(gs, f[k - 1], k)
                      ELSE f[k - 1]]

UpdateAllOf(gs, s) == (CHOOSE f : Done(f, gs, s, Len(gs)))[Len(gs)]

LEMMA DependentIsOf == Dependent = DependentOf(groups)
  BY Zenon DEF Dependent, DependentOf

LEMMA WithoutGroupIsOf ==
  ASSUME NEW chosen, NEW g
  PROVE  WithoutGroup(chosen, g) = WithoutGroupOf(groups, chosen, g)
  BY Zenon DEF WithoutGroup, WithoutGroupOf, Ids

LEMMA UpdateIsOf ==
  ASSUME NEW s, NEW g
  PROVE  UpdateVisibilityAndSelection(s, g) = UpdateOf(groups, s, g)
  BY WithoutGroupIsOf, Zenon DEF UpdateVisibilityAndSelection, UpdateOf, Tabs, Ids

LEMMA UpdateAllIsOf ==
  ASSUME NEW s
  PROVE  UpdateAll(s) = UpdateAllOf(groups, s)
  BY Zenon DEF UpdateAll, UpdateAllOf, Done, Dependent, DependentOf, UpdateVisibilityAndSelection,
     UpdateOf, WithoutGroup, WithoutGroupOf, Tabs, Ids

LEMMA DoneNext ==
  ASSUME NEW gs, NEW s, NEW n \in Nat, NEW f, Done(f, gs, s, n)
  PROVE  \E h : Done(h, gs, s, n + 1)
<1> DEFINE new == IF n + 1 \in DependentOf(gs) THEN UpdateOf(gs, f[n], n + 1) ELSE f[n]
           h == [k \in 0..n + 1 |-> IF k = n + 1 THEN new ELSE f[k]]
<1>1. ASSUME NEW k \in 0..n + 1
      PROVE  h[k] = IF k = 0 THEN s
                    ELSE IF k \in DependentOf(gs) THEN UpdateOf(gs, h[k - 1], k)
                    ELSE h[k - 1]
  <2>1. CASE k = n + 1
    <3>1. k - 1 = n /\ k # 0 /\ n \in 0..n + 1 /\ n # n + 1
      BY <2>1
    <3>2. h[k - 1] = f[n] /\ h[k] = new
      BY <2>1, <3>1
    <3> HIDE DEF h
    <3> QED BY <2>1, <3>1, <3>2, Zenon
  <2>2. CASE k # n + 1
    <3>1. k \in 0..n
      BY <2>2
    <3>2. h[k] = f[k]
      BY <2>2
    <3>3. k # 0 => h[k - 1] = f[k - 1]
      BY <3>1
    <3>4. f[k] = IF k = 0 THEN s
                 ELSE IF k \in DependentOf(gs) THEN UpdateOf(gs, f[k - 1], k)
                 ELSE f[k - 1]
      BY <3>1, Zenon DEF Done
    <3> HIDE DEF h
    <3> QED BY <3>2, <3>3, <3>4, Zenon
  <2> QED BY <2>1, <2>2
<1>2. h = [k \in 0..n + 1 |-> h[k]]
  OBVIOUS
<1> HIDE DEF h
<1>3. Done(h, gs, s, n + 1)
  BY <1>1, <1>2, Zenon DEF Done
<1> QED BY <1>3

LEMMA DoneThere ==
  ASSUME NEW gs, NEW s, NEW n \in Nat
  PROVE  \E f : Done(f, gs, s, n)
<1> DEFINE I == {k \in Nat : \E f : Done(f, gs, s, k)}
<1>1. 0 \in I
  <2> DEFINE f == [k \in 0..0 |-> s]
  <2>1. Done(f, gs, s, 0)
    <3>1. \A k \in 0..0 : k = 0
      OBVIOUS
    <3> QED BY <3>1 DEF Done
  <2> QED BY <2>1
<1>2. ASSUME NEW k \in I PROVE k + 1 \in I
  BY DoneNext
<1> HIDE DEF I
<1>3. I = Nat
  <2>1. I \in SUBSET Nat
    BY DEF I
  <2> QED BY <1>1, <1>2, <2>1, Reaches
<1> QED BY <1>3 DEF I

LEMMA MinOf ==
  ASSUME NEW S \in SUBSET Nat, S # {}
  PROVE  Min(S) \in S
<1>1. \E m \in S : \A i \in S : m <= i
  BY LeastOf
<1> QED BY <1>1, Zenon DEF Min

\* What an update of a group leaves, and what it leaves it with when there is no
\* exception.
Shows(s, g) == s.selected[g] \subseteq s.visible[g] /\ s.selected[g] # {}
Settled(s, g) ==
  s.selected[g] \subseteq s.visible[g] /\ (s.selected[g] = {} => s.visible[g] = {})

Updated(gs, s, u, g) ==
  /\ Shape(gs, u)
  /\ u.url = s.url
  /\ Settled(s, g) => Settled(u, g)
  /\ \A h \in DOMAIN gs \ {g} :
       u.visible[h] = s.visible[h] /\ u.selected[h] = s.selected[h]
  /\ ~u.threw => ~s.threw /\ Shows(u, g)

LEMMA RecordUpdated ==
  ASSUME NEW gs, NEW s, Shape(gs, s), NEW g \in DOMAIN gs, NEW u,
         NEW v \in SUBSET DOMAIN gs[g].tabs, NEW w, NEW c \in Seq(STRING), NEW b \in BOOLEAN,
         w \subseteq v, w = {} => v = {},
         u = [visible |-> [s.visible EXCEPT ![g] = v], selected |-> [s.selected EXCEPT ![g] = w],
              selectedTabs |-> c, url |-> s.url, threw |-> b],
         ~b => ~s.threw /\ w # {}
  PROVE  Updated(gs, s, u, g)
<1>1. /\ u.visible = [s.visible EXCEPT ![g] = v] /\ u.selected = [s.selected EXCEPT ![g] = w]
      /\ u.selectedTabs = c /\ u.url = s.url /\ u.threw = b
  OBVIOUS
<1>2. DOMAIN s.visible = DOMAIN gs /\ DOMAIN s.selected = DOMAIN gs
  BY DEF Shape
<1>3. /\ u.visible[g] = v /\ u.selected[g] = w
      /\ \A h \in DOMAIN gs \ {g} : u.visible[h] = s.visible[h] /\ u.selected[h] = s.selected[h]
  BY <1>1, <1>2
<1>4. Shape(gs, u)
  <2>1. u = [visible |-> u.visible, selected |-> u.selected, selectedTabs |-> u.selectedTabs,
             url |-> u.url, threw |-> u.threw]
    BY <1>1
  <2>2. u.visible = [h \in DOMAIN gs |-> u.visible[h]]
    BY <1>1, <1>2
  <2>3. u.selected = [h \in DOMAIN gs |-> u.selected[h]]
    BY <1>1, <1>2
  <2>4. \A h \in DOMAIN gs : u.visible[h] \subseteq DOMAIN gs[h].tabs
    BY <1>3 DEF Shape
  <2>5. u.threw \in BOOLEAN /\ u.selectedTabs \in Seq(STRING)
    BY <1>1
  <2> QED BY <2>1, <2>2, <2>3, <2>4, <2>5, Zenon DEF Shape
<1>5. ~u.threw => ~s.threw /\ Shows(u, g)
  BY <1>1, <1>3 DEF Shows
<1>6. Settled(u, g)
  BY <1>3 DEF Settled
<1> QED BY <1>1, <1>3, <1>4, <1>5, <1>6, Zenon DEF Updated

LEMMA TabsOf ==
  ASSUME NEW gs, IsGroups(gs), NEW g \in DOMAIN gs
  PROVE  /\ gs[g].tabs \in Seq(TabRecord) /\ Len(gs[g].tabs) \in Nat \ {0}
         /\ DOMAIN gs[g].tabs = 1..Len(gs[g].tabs)
         /\ \A t \in DOMAIN gs[g].tabs :
              gs[g].tabs[t].ids \in Seq(STRING) /\ gs[g].tabs[t].ids # <<>>
<1>1. gs[g] \in [independent : BOOLEAN, tabs : Seq(TabRecord) \ {<<>>}]
  <2> DEFINE R == [independent : BOOLEAN, tabs : Seq(TabRecord) \ {<<>>}]
  <2>1. gs \in Seq(R)
    BY DEF IsGroups
  <2> HIDE DEF R
  <2>2. gs[g] \in R
    BY <2>1
  <2> QED BY <2>2 DEF R
<1>2. gs[g].tabs \in Seq(TabRecord) /\ gs[g].tabs # <<>>
  BY <1>1
<1>3. Len(gs[g].tabs) \in Nat \ {0} /\ DOMAIN gs[g].tabs = 1..Len(gs[g].tabs)
  BY <1>2
<1>4. ASSUME NEW t \in DOMAIN gs[g].tabs
      PROVE  gs[g].tabs[t].ids \in Seq(STRING) /\ gs[g].tabs[t].ids # <<>>
  <2>1. gs[g].tabs[t] \in TabRecord
    BY <1>2, <1>3
  <2> QED BY <2>1 DEF TabRecord
<1> QED BY <1>2, <1>3, <1>4

LEMMA SetInRecord ==
  ASSUME NEW s, NEW a, NEW b, NEW c, NEW d, NEW e, NEW g, NEW v,
         s = [visible |-> a, selected |-> b, selectedTabs |-> c, url |-> d, threw |-> e]
  PROVE  [s EXCEPT !.visible[g] = v] =
         [visible |-> [a EXCEPT ![g] = v], selected |-> b, selectedTabs |-> c, url |-> d,
          threw |-> e]
  OBVIOUS

LEMMA ListsOf ==
  ASSUME NEW C, NEW q \in Seq(C), NEW x \in C, NEW m
  PROVE  /\ <<x>> \in Seq(C) /\ [q EXCEPT ![m] = x] \in Seq(C) /\ Append(q, x) \in Seq(C)
         /\ <<>> \in Seq(C)
<1>1. <<x>> \in Seq(C)
  OBVIOUS
<1>2. [q EXCEPT ![m] = x] \in Seq(C)
  <2> DEFINE r == [q EXCEPT ![m] = x]
  <2>1. Len(q) \in Nat /\ DOMAIN q = 1..Len(q) /\ \A i \in 1..Len(q) : q[i] \in C
    OBVIOUS
  <2>2. r \in [1..Len(q) -> C]
    BY <2>1
  <2> HIDE DEF r
  <2>3. r \in Seq(C)
    BY <2>1, <2>2
  <2> QED BY <2>3 DEF r
<1>3. Append(q, x) \in Seq(C)
  OBVIOUS
<1>4. <<>> \in Seq(C)
  OBVIOUS
<1> QED BY <1>1, <1>2, <1>3, <1>4, Zenon

LEMMA OneReplaced ==
  ASSUME NEW x, NEW y
  PROVE  Len(<<x>>) = 1 /\ <<x>> # <<>> /\ [<<x>> EXCEPT ![1] = y] = <<y>>
  OBVIOUS

LEMMA FirstId ==
  ASSUME NEW gs, IsGroups(gs), NEW g \in DOMAIN gs, NEW t \in DOMAIN gs[g].tabs
  PROVE  /\ gs[g].tabs[t].ids[1] \in STRING
         /\ gs[g].tabs[t].ids[1] \in ToSet(gs[g].tabs[t].ids)
<1>1. PICK ids \in Seq(STRING) : ids = gs[g].tabs[t].ids /\ ids # <<>>
  BY TabsOf
<1>2. 1 \in DOMAIN ids /\ ids[1] \in STRING
  BY <1>1
<1> QED BY <1>1, <1>2, Zenon DEF ToSet

\* A recursive function of the numbers up to n, with its step given as a function.
Recurses(f, step, base, n) ==
  f = [k \in 0..n |-> IF k = 0 THEN base ELSE step[k][f[k - 1]]]

LEMMA RecursesThere ==
  ASSUME NEW S, NEW base \in S, NEW step, NEW N \in Nat,
         \A c \in S, k \in 1..N : step[k][c] \in S, NEW n \in 0..N
  PROVE  \E f : Recurses(f, step, base, n) /\ \A k \in 0..n : f[k] \in S
<1> DEFINE P(m, f) == Recurses(f, step, base, m) /\ \A k \in 0..m : f[k] \in S
           I == {m \in Nat : m <= N => \E f : P(m, f)}
<1>1. 0 \in I
  <2> DEFINE f == [k \in 0..0 |-> base]
  <2>1. \A k \in 0..0 : k = 0
    OBVIOUS
  <2>2. P(0, f)
    BY <2>1 DEF Recurses
  <2> QED BY <2>2
<1>2. ASSUME NEW m \in I PROVE m + 1 \in I
  <2> SUFFICES ASSUME m + 1 <= N PROVE \E h : P(m + 1, h)
    OBVIOUS
  <2>1. m \in Nat /\ m <= N
    OBVIOUS
  <2>2. PICK f : P(m, f)
    BY <2>1
  <2>3. PICK new : new = step[m + 1][f[m]]
    OBVIOUS
  <2> DEFINE h == [k \in 0..m + 1 |-> IF k = m + 1 THEN new ELSE f[k]]
  <2>4. \A k \in 0..m : f[k] = IF k = 0 THEN base ELSE step[k][f[k - 1]]
    BY <2>2, Zenon DEF Recurses
  <2>5. ASSUME NEW k \in 0..m + 1
        PROVE  h[k] = (IF k = 0 THEN base ELSE step[k][h[k - 1]]) /\ h[k] \in S
    <3>1. CASE k = m + 1
      <4>1. k # 0 /\ k - 1 = m /\ m \in 0..m + 1 /\ m # m + 1 /\ m \in 0..m /\ k \in 1..N
        BY <3>1, <2>1
      <4>2. h[k] = new /\ h[m] = f[m]
        BY <3>1, <4>1
      <4>3. new \in S
        BY <2>2, <2>3, <3>1, <4>1
      <4>4. step[k][h[k - 1]] = new
        <5> HIDE DEF h
        <5> QED BY <2>3, <3>1, <4>1, <4>2
      <4> HIDE DEF h
      <4> QED BY <4>1, <4>2, <4>3, <4>4
    <3>2. CASE k # m + 1
      <4>1. k \in 0..m /\ (k # 0 => k - 1 \in 0..m + 1 /\ k - 1 # m + 1)
        BY <3>2, <2>1
      <4>2. h[k] = f[k] /\ (k # 0 => h[k - 1] = f[k - 1])
        BY <3>2, <4>1
      <4>3. f[k] = (IF k = 0 THEN base ELSE step[k][f[k - 1]]) /\ f[k] \in S
        BY <2>2, <2>4, <4>1
      <4> HIDE DEF h
      <4> QED BY <4>2, <4>3
    <3> QED BY <3>1, <3>2
  <2>6. h = [k \in 0..m + 1 |-> h[k]]
    OBVIOUS
  <2> HIDE DEF h
  <2>7. h = [k \in 0..m + 1 |-> IF k = 0 THEN base ELSE step[k][h[k - 1]]]
    BY <2>5, <2>6, Zenon
  <2>8. P(m + 1, h)
    BY <2>5, <2>7, Zenon DEF Recurses
  <2> QED BY <2>8
<1>3. I = Nat
  <2> HIDE DEF I
  <2>1. I \in SUBSET Nat
    BY DEF I
  <2> QED BY <1>1, <1>2, <2>1, Reaches
<1>4. n \in I /\ n <= N
  BY <1>3
<1> QED BY <1>4

\* What is taken out of a list: ids of `gone` only.
Keeps(before, after, gone) ==
  /\ after \in Seq(STRING)
  /\ ToSet(after) \subseteq ToSet(before)
  /\ \A x \in ToSet(before) : x \notin gone => x \in ToSet(after)

LEMMA RemoveFirstKeeps ==
  ASSUME NEW q \in Seq(STRING), NEW e
  PROVE  Keeps(q, RemoveFirst(q, e), {e})
<1> DEFINE I == {i \in 1..Len(q) : q[i] = e}
           m == SelectInSeq(q, LAMBDA v : v = e)
<1>1. m = IF I # {} THEN Min(I) ELSE 0
  BY Zenon DEF SelectInSeq
<1>2. I # {} => m \in I
  <2>1. I \in SUBSET Nat
    OBVIOUS
  <2>2. I # {} => Min(I) \in I
    BY <2>1, MinOf
  <2> HIDE DEF I, m
  <2> QED BY <1>1, <2>2
<1>3. CASE I = {}
  <2>1. RemoveFirst(q, e) = q
    BY <1>3, Zenon DEF RemoveFirst
  <2> QED BY <2>1 DEF Keeps
<1>4. CASE I # {}
  <2>1. RemoveFirst(q, e) = RemoveAt(q, m)
    BY <1>4, Zenon DEF RemoveFirst
  <2>2. m \in 1..Len(q) /\ q[m] = e
    BY <1>2, <1>4
  <2> HIDE DEF m, I
  <2> DEFINE a == SubSeq(q, 1, m - 1)
             b == SubSeq(q, m + 1, Len(q))
             c == a \o b
  <2>3. RemoveFirst(q, e) = c
    BY <2>1 DEF RemoveAt
  <2>4. /\ Len(q) \in Nat /\ m \in Nat
        /\ a \in Seq(STRING) /\ Len(a) = m - 1 /\ \A i \in 1..m - 1 : a[i] = q[i]
        /\ b \in Seq(STRING) /\ Len(b) = Len(q) - m /\ \A i \in 1..Len(q) - m : b[i] = q[m + i]
    BY <2>2
  <2> HIDE DEF a, b
  <2>5. /\ c \in Seq(STRING) /\ Len(c) = Len(q) - 1 /\ DOMAIN c = 1..Len(q) - 1
        /\ \A i \in 1..Len(q) - 1 : i <= m - 1 => c[i] = a[i]
        /\ \A i \in 1..Len(q) - 1 : i > m - 1 => c[i] = b[i - (m - 1)]
    BY <2>2, <2>4
  <2> HIDE DEF c
  <2>6. \A i \in 1..Len(q) - 1 : \E j \in 1..Len(q) : c[i] = q[j]
    <3> TAKE i \in 1..Len(q) - 1
    <3>1. CASE i <= m - 1
      <4>1. i \in 1..m - 1 /\ i \in 1..Len(q)
        BY <2>2, <2>4, <3>1
      <4> QED BY <2>4, <2>5, <3>1, <4>1
    <3>2. CASE i > m - 1
      <4>1. i - (m - 1) \in 1..Len(q) - m /\ m + (i - (m - 1)) \in 1..Len(q)
        BY <2>2, <2>4, <3>2
      <4>2. c[i] = b[i - (m - 1)] /\ b[i - (m - 1)] = q[m + (i - (m - 1))]
        BY <2>4, <2>5, <3>2, <4>1
      <4> QED BY <4>1, <4>2
    <3> QED BY <3>1, <3>2, <2>2, <2>4
  <2>7. \A j \in 1..Len(q) : j # m => \E i \in 1..Len(q) - 1 : c[i] = q[j]
    <3> SUFFICES ASSUME NEW j \in 1..Len(q), j # m
                 PROVE  \E i \in 1..Len(q) - 1 : c[i] = q[j]
      OBVIOUS
    <3>1. CASE j < m
      <4>1. j \in 1..m - 1 /\ j \in 1..Len(q) - 1 /\ j <= m - 1
        BY <2>2, <2>4, <3>1
      <4> QED BY <2>4, <2>5, <4>1
    <3>2. CASE j > m
      <4>1. /\ j - 1 \in 1..Len(q) - 1 /\ j - 1 > m - 1
            /\ (j - 1) - (m - 1) \in 1..Len(q) - m /\ m + ((j - 1) - (m - 1)) = j
        BY <2>2, <2>4, <3>2
      <4>2. c[j - 1] = b[(j - 1) - (m - 1)]
        BY <2>5, <4>1
      <4>3. b[(j - 1) - (m - 1)] = q[m + ((j - 1) - (m - 1))]
        BY <2>4, <4>1
      <4> QED BY <4>1, <4>2, <4>3
    <3> QED BY <3>1, <3>2, <2>2, <2>4
  <2>8. /\ ToSet(c) = {c[i] : i \in 1..Len(q) - 1}
        /\ ToSet(q) = {q[j] : j \in 1..Len(q)}
    BY <2>5 DEF ToSet
  <2>9. ToSet(c) \subseteq ToSet(q)
    BY <2>6, <2>8
  <2>10. ASSUME NEW x \in ToSet(q), x # e
         PROVE  x \in ToSet(c)
    <3>1. PICK j \in 1..Len(q) : x = q[j]
      BY <2>8
    <3>2. j # m
      BY <2>2, <2>10, <3>1
    <3> QED BY <2>7, <2>8, <3>1, <3>2
  <2> QED BY <2>3, <2>5, <2>9, <2>10 DEF Keeps
<1> QED BY <1>3, <1>4

LEMMA WithoutTabKeeps ==
  ASSUME NEW chosen \in Seq(STRING), NEW ids \in Seq(STRING)
  PROVE  Keeps(chosen, WithoutTab(chosen, ids), ToSet(ids))
<1> DEFINE N == Len(ids)
           step == [k \in 1..N |-> [c \in Seq(STRING) |-> RemoveFirst(c, ids[k])]]
           Left(f) == f = [n \in 0..N |-> IF n = 0 THEN chosen ELSE RemoveFirst(f[n - 1], ids[n])]
           f == CHOOSE f : Left(f)
           I == {n \in Nat : n <= N => Keeps(chosen, f[n], ToSet(ids))}
<1>1. N \in Nat /\ DOMAIN ids = 1..N /\ N \in 0..N
  OBVIOUS
<1>2. \A c \in Seq(STRING), k \in 1..N : step[k][c] = RemoveFirst(c, ids[k])
  OBVIOUS
<1>3. \A c \in Seq(STRING), k \in 1..N : step[k][c] \in Seq(STRING)
  BY <1>2, RemoveFirstKeeps DEF Keeps
<1> HIDE DEF N, step
<1>4. PICK h : Recurses(h, step, chosen, N) /\ \A k \in 0..N : h[k] \in Seq(STRING)
  BY <1>1, <1>3, RecursesThere
<1>5. Left(h)
  <2>1. h = [n \in 0..N |-> IF n = 0 THEN chosen ELSE step[n][h[n - 1]]]
    BY <1>4, Zenon DEF Recurses
  <2>2. \A n \in 0..N : n # 0 => n - 1 \in 0..N /\ n \in 1..N
    BY <1>1
  <2>3. \A n \in 0..N : (IF n = 0 THEN chosen ELSE step[n][h[n - 1]])
                          = IF n = 0 THEN chosen ELSE RemoveFirst(h[n - 1], ids[n])
    BY <1>2, <1>4, <2>2, Zenon
  <2> QED BY <2>1, <2>3, Zenon
<1>6. Left(f)
  BY <1>5, Zenon
<1>7. WithoutTab(chosen, ids) = f[N]
  BY Zenon DEF WithoutTab, N
<1> HIDE DEF f
<1>8. 0 \in I
  <2>1. f[0] = chosen
    BY <1>1, <1>6
  <2> QED BY <2>1 DEF Keeps
<1>9. ASSUME NEW n \in I PROVE n + 1 \in I
  <2> SUFFICES ASSUME n + 1 <= N PROVE Keeps(chosen, f[n + 1], ToSet(ids))
    OBVIOUS
  <2>1. /\ n + 1 \in 0..N /\ n + 1 \in 1..N /\ n + 1 # 0 /\ (n + 1) - 1 = n
        /\ Keeps(chosen, f[n], ToSet(ids))
    BY <1>1
  <2>2. f[n + 1] = RemoveFirst(f[(n + 1) - 1], ids[n + 1])
    BY <1>6, <2>1, Zenon
  <2>3. Keeps(f[n], f[n + 1], {ids[n + 1]})
    BY <2>1, <2>2, RemoveFirstKeeps DEF Keeps
  <2>4. ids[n + 1] \in ToSet(ids)
    BY <1>1, <2>1 DEF ToSet
  <2> HIDE DEF I
  <2> QED BY <2>1, <2>3, <2>4 DEF Keeps
<1>10. I = Nat
  <2> HIDE DEF I
  <2>1. I \in SUBSET Nat
    BY DEF I
  <2> QED BY <1>8, <1>9, <2>1, Reaches
<1> QED BY <1>1, <1>7, <1>10

\* The ids of a group.
IdsOf(gs, g) == UNION {ToSet(gs[g].tabs[t].ids) : t \in DOMAIN gs[g].tabs}

LEMMA WithoutGroupKeeps ==
  ASSUME NEW gs, IsGroups(gs), NEW g \in DOMAIN gs, NEW chosen \in Seq(STRING)
  PROVE  /\ Keeps(chosen, WithoutGroupOf(gs, chosen, g), IdsOf(gs, g))
         /\ WithoutGroupOf(gs, chosen, g) \in Seq(STRING)
<1> DEFINE ts == gs[g].tabs
           N == Len(ts)
           step == [k \in 1..N |-> [c \in Seq(STRING) |-> WithoutTab(c, ts[k].ids)]]
           Left(f) == f = [n \in 0..N |-> IF n = 0 THEN chosen ELSE WithoutTab(f[n - 1], ts[n].ids)]
           f == CHOOSE f : Left(f)
           I == {n \in Nat : n <= N => Keeps(chosen, f[n], IdsOf(gs, g))}
<1>1. N \in Nat /\ DOMAIN ts = 1..N /\ N \in 0..N /\ \A k \in 1..N : ts[k].ids \in Seq(STRING)
  BY TabsOf
<1>2. \A c \in Seq(STRING), k \in 1..N : step[k][c] = WithoutTab(c, ts[k].ids)
  OBVIOUS
<1>3. \A c \in Seq(STRING), k \in 1..N : step[k][c] \in Seq(STRING)
  BY <1>1, <1>2, WithoutTabKeeps DEF Keeps
<1>7. WithoutGroupOf(gs, chosen, g) = f[N]
  BY Zenon DEF WithoutGroupOf
<1> HIDE DEF N, step
<1>4. PICK h : Recurses(h, step, chosen, N) /\ \A k \in 0..N : h[k] \in Seq(STRING)
  BY <1>1, <1>3, RecursesThere
<1>5. Left(h)
  <2>1. h = [n \in 0..N |-> IF n = 0 THEN chosen ELSE step[n][h[n - 1]]]
    BY <1>4, Zenon DEF Recurses
  <2>2. \A n \in 0..N : n # 0 => n - 1 \in 0..N /\ n \in 1..N
    BY <1>1
  <2>3. \A n \in 0..N : (IF n = 0 THEN chosen ELSE step[n][h[n - 1]])
                          = IF n = 0 THEN chosen ELSE WithoutTab(h[n - 1], ts[n].ids)
    BY <1>2, <1>4, <2>2, Zenon
  <2> QED BY <2>1, <2>3, Zenon
<1>6. Left(f)
  BY <1>5, Zenon
<1> HIDE DEF f
<1>8. 0 \in I
  <2>1. f[0] = chosen
    BY <1>1, <1>6
  <2> QED BY <2>1 DEF Keeps
<1>9. ASSUME NEW n \in I PROVE n + 1 \in I
  <2> SUFFICES ASSUME n + 1 <= N PROVE Keeps(chosen, f[n + 1], IdsOf(gs, g))
    OBVIOUS
  <2>1. /\ n + 1 \in 0..N /\ n + 1 \in 1..N /\ n + 1 # 0 /\ (n + 1) - 1 = n
        /\ Keeps(chosen, f[n], IdsOf(gs, g))
    BY <1>1
  <2>2. f[n + 1] = WithoutTab(f[(n + 1) - 1], ts[n + 1].ids)
    BY <1>6, <2>1, Zenon
  <2>3. Keeps(f[n], f[n + 1], ToSet(ts[n + 1].ids))
    BY <1>1, <2>1, <2>2, WithoutTabKeeps DEF Keeps
  <2>4. ToSet(ts[n + 1].ids) \subseteq IdsOf(gs, g)
    BY <1>1, <2>1, Zenon DEF IdsOf
  <2> HIDE DEF I, ts
  <2> QED BY <2>1, <2>3, <2>4 DEF Keeps
<1>10. I = Nat
  <2> HIDE DEF I
  <2>1. I \in SUBSET Nat
    BY DEF I
  <2> QED BY <1>8, <1>9, <2>1, Reaches
<1>11. Keeps(chosen, f[N], IdsOf(gs, g))
  BY <1>1, <1>10
<1> QED BY <1>7, <1>11 DEF Keeps

LEMMA UpdateFacts ==
  ASSUME NEW gs, IsGroups(gs), NEW s, Shape(gs, s), NEW g \in DOMAIN gs
  PROVE  Updated(gs, s, UpdateOf(gs, s, g), g)
<1> DEFINE chosen == ToSet(s.selectedTabs)
           visible == {t \in DOMAIN gs[g].tabs : gs[g].tabs[t].condition \in chosen \cup {None}}
           selected == {t \in visible : Intersect(s.selectedTabs, gs[g].tabs[t].ids)}
           first == Min(visible)
           given == WithoutGroupOf(gs, s.selectedTabs, g)
           seen == [s EXCEPT !.visible[g] = visible]
           u == UpdateOf(gs, s, g)
<1>1. visible \subseteq DOMAIN gs[g].tabs /\ selected \subseteq visible
  OBVIOUS
<1>2. visible \in SUBSET Nat
  BY TabsOf
<1>3. visible # {} => first \in visible
  BY <1>2, MinOf
<1>4. u = IF s.threw THEN s
          ELSE IF selected # {} THEN [seen EXCEPT !.selected[g] = selected]
          ELSE IF visible = {}
          THEN [seen EXCEPT !.selected[g] = {}, !.selectedTabs = given, !.threw = TRUE]
          ELSE [seen EXCEPT !.selected[g] = {first},
                            !.selectedTabs = Append(given, gs[g].tabs[first].ids[1])]
  BY DEF UpdateOf
<1>5. seen = [visible |-> [s.visible EXCEPT ![g] = visible],
              selected |-> s.selected,
              selectedTabs |-> s.selectedTabs, url |-> s.url, threw |-> s.threw]
  <2>1. s = [visible |-> s.visible, selected |-> s.selected, selectedTabs |-> s.selectedTabs,
             url |-> s.url, threw |-> s.threw]
    BY Zenon DEF Shape
  <2> HIDE DEF visible, selected
  <2> QED BY <2>1, SetInRecord
<1>10. given \in Seq(STRING) /\ s.selectedTabs \in Seq(STRING)
  BY WithoutGroupKeeps, Zenon DEF Shape
<1> HIDE DEF chosen, visible, selected, first, given, u, seen
<1>6. ASSUME s.threw PROVE Updated(gs, s, u, g)
  <2>1. u = s
    BY <1>4, <1>6
  <2> QED BY <1>6, <2>1 DEF Updated
<1>7. ASSUME ~s.threw, selected # {} PROVE Updated(gs, s, u, g)
  <2>1. u = [seen EXCEPT !.selected[g] = selected]
    BY <1>4, <1>7
  <2>2. u = [visible |-> [s.visible EXCEPT ![g] = visible],
             selected |-> [s.selected EXCEPT ![g] = selected],
             selectedTabs |-> s.selectedTabs, url |-> s.url, threw |-> FALSE]
    BY <1>5, <1>7, <2>1 DEF Shape
  <2> QED BY <1>1, <1>7, <1>10, <2>2, RecordUpdated
<1>8. ASSUME ~s.threw, selected = {}, visible = {} PROVE Updated(gs, s, u, g)
  <2>1. u = [visible |-> [s.visible EXCEPT ![g] = visible],
             selected |-> [s.selected EXCEPT ![g] = {}],
             selectedTabs |-> given, url |-> s.url, threw |-> TRUE]
    BY <1>4, <1>5, <1>8
  <2> QED BY <1>1, <1>8, <1>10, <2>1, RecordUpdated
<1>9. ASSUME ~s.threw, selected = {}, visible # {} PROVE Updated(gs, s, u, g)
  <2>1. u = [visible |-> [s.visible EXCEPT ![g] = visible],
             selected |-> [s.selected EXCEPT ![g] = {first}],
             selectedTabs |-> Append(given, gs[g].tabs[first].ids[1]),
             url |-> s.url, threw |-> FALSE]
    BY <1>4, <1>5, <1>9 DEF Shape
  <2>2. {first} \subseteq visible /\ {first} # {}
    BY <1>3, <1>9
  <2>3. Append(given, gs[g].tabs[first].ids[1]) \in Seq(STRING)
    <3>1. first \in DOMAIN gs[g].tabs
      BY <1>1, <1>3, <1>9
    <3>2. gs[g].tabs[first].ids[1] \in STRING
      BY <3>1, FirstId
    <3> QED BY <1>10, <3>2
  <2>4. PICK c \in Seq(STRING), w \in SUBSET visible :
          c = Append(given, gs[g].tabs[first].ids[1]) /\ w = {first}
    BY <2>2, <2>3
  <2>5. u = [visible |-> [s.visible EXCEPT ![g] = visible],
             selected |-> [s.selected EXCEPT ![g] = w],
             selectedTabs |-> c, url |-> s.url, threw |-> FALSE]
    BY <2>1, <2>4, Zenon
  <2>6. /\ visible \in SUBSET DOMAIN gs[g].tabs /\ w \subseteq visible /\ w # {}
        /\ FALSE \in BOOLEAN
    BY <1>1, <2>2, <2>4
  <2> QED BY <1>9, <2>5, <2>6, RecordUpdated
<1>11. Updated(gs, s, u, g)
  BY <1>6, <1>7, <1>8, <1>9, Zenon
<1> QED BY <1>11 DEF u

\* Nothing is left of no ids.
Lefts(f, ids) ==
  f = [n \in 0..Len(ids) |-> IF n = 0 THEN <<>> ELSE RemoveFirst(f[n - 1], ids[n])]

LEMMA RemoveFirstOfNone ==
  ASSUME NEW x
  PROVE  RemoveFirst(<<>>, x) = <<>>
<1>1. 1..Len(<<>>) = {}
  OBVIOUS
<1> QED BY <1>1, Zenon DEF RemoveFirst

LEMMA WithoutTabOfNone ==
  ASSUME NEW ids, Len(ids) \in Nat
  PROVE  WithoutTab(<<>>, ids) = <<>>
<1> DEFINE none == [n \in 0..Len(ids) |-> <<>>]
           f == CHOOSE f : Lefts(f, ids)
           I == {n \in Nat : n <= Len(ids) => f[n] = <<>>}
<1>1. Lefts(none, ids)
  <2>1. \A n \in 0..Len(ids) : n # 0 => n - 1 \in 0..Len(ids)
    OBVIOUS
  <2>2. \A n \in 0..Len(ids) : n # 0 => none[n - 1] = <<>>
    BY <2>1
  <2>3. \A n \in 0..Len(ids) :
          <<>> = IF n = 0 THEN <<>> ELSE RemoveFirst(none[n - 1], ids[n])
    BY <2>2, RemoveFirstOfNone, Zenon
  <2>4. none = [n \in 0..Len(ids) |-> <<>>]
    OBVIOUS
  <2> HIDE DEF none
  <2> QED BY <2>3, <2>4 DEF Lefts
<1>2. Lefts(f, ids)
  BY <1>1, Zenon
<1>3. WithoutTab(<<>>, ids) = f[Len(ids)]
  BY Zenon DEF WithoutTab, Lefts
<1> HIDE DEF f
<1>4. 0 \in I
  BY <1>2 DEF Lefts
<1>5. ASSUME NEW n \in I PROVE n + 1 \in I
  <2> SUFFICES ASSUME n + 1 <= Len(ids) PROVE f[n + 1] = <<>>
    OBVIOUS
  <2>1. n + 1 \in 0..Len(ids) /\ n + 1 # 0 /\ (n + 1) - 1 = n /\ f[n] = <<>>
    OBVIOUS
  <2>2. f[n + 1] = RemoveFirst(f[(n + 1) - 1], ids[n + 1])
    BY <1>2, <2>1, Zenon DEF Lefts
  <2> QED BY <2>1, <2>2, RemoveFirstOfNone
<1>6. I = Nat
  <2> HIDE DEF I
  <2>1. I \in SUBSET Nat
    BY DEF I
  <2> QED BY <1>4, <1>5, <2>1, Reaches
<1> QED BY <1>3, <1>6

LeftsOf(f, ts) ==
  f = [n \in 0..Len(ts) |-> IF n = 0 THEN <<>> ELSE WithoutTab(f[n - 1], ts[n].ids)]

LEMMA WithoutGroupOfNone ==
  ASSUME NEW gs, IsGroups(gs), NEW g \in DOMAIN gs
  PROVE  WithoutGroupOf(gs, <<>>, g) = <<>>
<1> DEFINE ts == gs[g].tabs
           none == [n \in 0..Len(ts) |-> <<>>]
           f == CHOOSE f : LeftsOf(f, ts)
           I == {n \in Nat : n <= Len(ts) => f[n] = <<>>}
<1>0. Len(ts) \in Nat
  BY TabsOf
<1>1. \A n \in 1..Len(ts) : WithoutTab(<<>>, ts[n].ids) = <<>>
  <2>1. \A n \in 1..Len(ts) : Len(ts[n].ids) \in Nat
    BY TabsOf
  <2> QED BY <2>1, WithoutTabOfNone
<1>2. WithoutGroupOf(gs, <<>>, g) = f[Len(ts)]
  BY Zenon DEF WithoutGroupOf, LeftsOf
<1> HIDE DEF ts
<1>3. LeftsOf(none, ts)
  <2>1. \A n \in 0..Len(ts) : n # 0 => n \in 1..Len(ts) /\ n - 1 \in 0..Len(ts)
    BY <1>0
  <2>2. \A n \in 0..Len(ts) : n # 0 => none[n - 1] = <<>>
    BY <2>1
  <2>3. \A n \in 0..Len(ts) :
          <<>> = IF n = 0 THEN <<>> ELSE WithoutTab(none[n - 1], ts[n].ids)
    BY <1>1, <2>1, <2>2, Zenon
  <2>4. none = [n \in 0..Len(ts) |-> <<>>]
    OBVIOUS
  <2> HIDE DEF none
  <2> QED BY <2>3, <2>4 DEF LeftsOf
<1>4. LeftsOf(f, ts)
  BY <1>3, Zenon
<1> HIDE DEF f
<1>5. 0 \in I
  BY <1>0, <1>4 DEF LeftsOf
<1>6. ASSUME NEW n \in I PROVE n + 1 \in I
  <2> SUFFICES ASSUME n + 1 <= Len(ts) PROVE f[n + 1] = <<>>
    OBVIOUS
  <2>1. n + 1 \in 0..Len(ts) /\ n + 1 \in 1..Len(ts) /\ n + 1 # 0 /\ (n + 1) - 1 = n
        /\ f[n] = <<>>
    BY <1>0
  <2>2. f[n + 1] = WithoutTab(f[(n + 1) - 1], ts[n + 1].ids)
    BY <1>4, <2>1, Zenon DEF LeftsOf
  <2> QED BY <1>1, <2>1, <2>2
<1>7. I = Nat
  <2> HIDE DEF I
  <2>1. I \in SUBSET Nat
    BY DEF I
  <2> QED BY <1>5, <1>6, <2>1, Reaches
<1> QED BY <1>0, <1>2, <1>7

\* Groups that offer the same: the choice of a tab's id chooses that tab.
PlainOf(gs, g) == \A t, u \in DOMAIN gs[g].tabs :
  gs[g].tabs[t].condition = None
  /\ (Intersect(gs[g].tabs[t].ids, gs[g].tabs[u].ids) => t = u)
AlikeOf(gs, g, h) == gs[g].tabs = gs[h].tabs
ApartOf(gs, g, h) == \A t \in DOMAIN gs[g].tabs, u \in DOMAIN gs[h].tabs :
  ~Intersect(gs[g].tabs[t].ids, gs[h].tabs[u].ids)

UniformOf(gs) == \A g, h \in DependentOf(gs) : PlainOf(gs, g) /\ AlikeOf(gs, g, h)

Chooses(gs, s, g, t) ==
  ~s.threw /\ s.selectedTabs = <<gs[g].tabs[t].ids[1]>> /\ s.selected[g] = {t}

LEMMA PlainIsOf ==
  /\ \A g : Plain(g) <=> PlainOf(groups, g)
  /\ \A g, h : (Alike(g, h) <=> AlikeOf(groups, g, h)) /\ (Apart(g, h) <=> ApartOf(groups, g, h))
  BY Zenon DEF Plain, PlainOf, Alike, AlikeOf, Apart, ApartOf, Tabs, Ids

LEMMA UniformIsOf == Uniform <=> UniformOf(groups)
  BY PlainIsOf, DependentIsOf, Zenon DEF Uniform, UniformOf

LEMMA AllVisible ==
  ASSUME NEW gs, UniformOf(gs), NEW g \in DependentOf(gs), NEW c
  PROVE  {t \in DOMAIN gs[g].tabs : gs[g].tabs[t].condition \in c \cup {None}}
           = DOMAIN gs[g].tabs
  BY DEF UniformOf, PlainOf

LEMMA IntersectOne ==
  ASSUME NEW x, NEW ids
  PROVE  Intersect(<<x>>, ids) <=> x \in ToSet(ids)
<1>1. ToSet(<<x>>) = {x}
  BY DEF ToSet
<1> QED BY <1>1 DEF Intersect

\* The tabs of a group that a list of ids chooses.
Selects(gs, list, g) ==
  {t \in DOMAIN gs[g].tabs : Intersect(list, gs[g].tabs[t].ids)}

\* The update of a group takes the choice that there is, or makes one.
Takes(gs, s, v, g) ==
  LET chosen == ToSet(s.selectedTabs)
      visible == {t \in DOMAIN gs[g].tabs : gs[g].tabs[t].condition \in chosen \cup {None}}
      selected == {t \in visible : Intersect(s.selectedTabs, gs[g].tabs[t].ids)}
  IN \/ selected # {} /\ v.selected[g] = selected /\ v.selectedTabs = s.selectedTabs
     \/ /\ selected = {}
        /\ \E first \in DOMAIN gs[g].tabs :
             /\ v.selected[g] = {first}
             /\ v.selectedTabs = Append(WithoutGroupOf(gs, s.selectedTabs, g),
                                        gs[g].tabs[first].ids[1])

LEMMA UpdateTakes ==
  ASSUME NEW gs, IsGroups(gs), NEW s, Shape(gs, s), NEW g \in DOMAIN gs,
         NEW v, v = UpdateOf(gs, s, g), ~v.threw
  PROVE  Takes(gs, s, v, g)
<1> DEFINE chosen == ToSet(s.selectedTabs)
           visible == {t \in DOMAIN gs[g].tabs : gs[g].tabs[t].condition \in chosen \cup {None}}
           selected == {t \in visible : Intersect(s.selectedTabs, gs[g].tabs[t].ids)}
           first == Min(visible)
           given == WithoutGroupOf(gs, s.selectedTabs, g)
           seen == [s EXCEPT !.visible[g] = visible]
<1>1. visible # {} => first \in DOMAIN gs[g].tabs
  <2>1. visible \in SUBSET Nat
    BY TabsOf
  <2> QED BY <2>1, MinOf
<1>2. v = IF s.threw THEN s
          ELSE IF selected # {} THEN [seen EXCEPT !.selected[g] = selected]
          ELSE IF visible = {}
          THEN [seen EXCEPT !.selected[g] = {}, !.selectedTabs = given, !.threw = TRUE]
          ELSE [seen EXCEPT !.selected[g] = {first},
                            !.selectedTabs = Append(given, gs[g].tabs[first].ids[1])]
  BY DEF UpdateOf
<1>3. Takes(gs, s, v, g) <=>
        \/ selected # {} /\ v.selected[g] = selected /\ v.selectedTabs = s.selectedTabs
        \/ /\ selected = {}
           /\ \E f \in DOMAIN gs[g].tabs :
                /\ v.selected[g] = {f}
                /\ v.selectedTabs = Append(given, gs[g].tabs[f].ids[1])
  BY Zenon DEF Takes
<1>4. seen = [visible |-> [s.visible EXCEPT ![g] = visible],
              selected |-> s.selected,
              selectedTabs |-> s.selectedTabs, url |-> s.url, threw |-> s.threw]
  <2>1. s = [visible |-> s.visible, selected |-> s.selected, selectedTabs |-> s.selectedTabs,
             url |-> s.url, threw |-> s.threw]
    BY Zenon DEF Shape
  <2> HIDE DEF visible, selected
  <2> QED BY <2>1, SetInRecord
<1>5. g \in DOMAIN s.selected
  BY DEF Shape
<1> HIDE DEF chosen, visible, selected, first, given, seen
<1>6. ~s.threw
  BY <1>2
<1>7. CASE selected # {}
  <2>1. v = [seen EXCEPT !.selected[g] = selected]
    BY <1>2, <1>6, <1>7
  <2>2. v.selected[g] = selected /\ v.selectedTabs = s.selectedTabs
    BY <1>4, <1>5, <2>1
  <2> QED BY <1>3, <1>7, <2>2, Zenon
<1>8. CASE selected = {}
  <2>1. visible # {}
    BY <1>2, <1>4, <1>6, <1>8
  <2>2. v = [seen EXCEPT !.selected[g] = {first},
                         !.selectedTabs = Append(given, gs[g].tabs[first].ids[1])]
    BY <1>2, <1>6, <1>8, <2>1
  <2>3. PICK c : c = Append(given, gs[g].tabs[first].ids[1])
    OBVIOUS
  <2>4. v = [visible |-> [s.visible EXCEPT ![g] = visible],
             selected |-> [s.selected EXCEPT ![g] = {first}],
             selectedTabs |-> c, url |-> s.url, threw |-> s.threw]
    BY <1>4, <2>2, <2>3
  <2>5. v.selected[g] = {first} /\ v.selectedTabs = c
    BY <1>5, <2>4
  <2> QED BY <1>1, <1>3, <1>8, <2>1, <2>3, <2>5, Zenon
<1> QED BY <1>7, <1>8

LEMMA AppendOf ==
  ASSUME NEW C, NEW q \in Seq(C), NEW x \in C
  PROVE  ToSet(Append(q, x)) = ToSet(q) \cup {x}
<1> DEFINE a == Append(q, x)
<1>1. /\ Len(q) \in Nat /\ DOMAIN q = 1..Len(q) /\ DOMAIN a = 1..Len(q) + 1
      /\ \A i \in 1..Len(q) : a[i] = q[i]
      /\ a[Len(q) + 1] = x
  OBVIOUS
<1> HIDE DEF a
<1>2. \A i \in 1..Len(q) + 1 : i \in 1..Len(q) \/ i = Len(q) + 1
  BY <1>1
<1>3. Len(q) + 1 \in 1..Len(q) + 1 /\ 1..Len(q) \subseteq 1..Len(q) + 1
  BY <1>1
<1>4. ToSet(a) = ToSet(q) \cup {x}
  BY <1>1, <1>2, <1>3 DEF ToSet
<1> QED BY <1>4 DEF a

\* What the list is after a group without a choice has chosen a tab.
LEMMA GivenUp ==
  ASSUME NEW gs, IsGroups(gs), NEW g \in DOMAIN gs, NEW list \in Seq(STRING),
         NEW first \in DOMAIN gs[g].tabs, NEW new,
         new = Append(WithoutGroupOf(gs, list, g), gs[g].tabs[first].ids[1])
  PROVE  /\ gs[g].tabs[first].ids[1] \in ToSet(new)
         /\ ToSet(new) \subseteq ToSet(list) \cup {gs[g].tabs[first].ids[1]}
         /\ \A x \in ToSet(list) : x \notin IdsOf(gs, g) => x \in ToSet(new)
<1> DEFINE given == WithoutGroupOf(gs, list, g)
           id == gs[g].tabs[first].ids[1]
<1>1. Keeps(list, given, IdsOf(gs, g)) /\ given \in Seq(STRING)
  BY WithoutGroupKeeps
<1>2. id \in STRING
  BY FirstId
<1> HIDE DEF given, id
<1>3. new = Append(given, id)
  BY DEF given, id
<1>4. ToSet(new) = ToSet(given) \cup {id}
  BY <1>1, <1>2, <1>3, AppendOf
<1>5. /\ id \in ToSet(new) /\ ToSet(new) \subseteq ToSet(list) \cup {id}
      /\ \A x \in ToSet(list) : x \notin IdsOf(gs, g) => x \in ToSet(new)
  BY <1>1, <1>4 DEF Keeps
<1> QED BY <1>5 DEF id

LEMMA PlainUpdate ==
  ASSUME NEW gs, IsGroups(gs), NEW s, Shape(gs, s), NEW g \in DOMAIN gs, PlainOf(gs, g),
         NEW v, v = UpdateOf(gs, s, g), ~v.threw
  PROVE  /\ v.selected[g] = Selects(gs, v.selectedTabs, g)
         /\ Selects(gs, s.selectedTabs, g) # {} => v.selectedTabs = s.selectedTabs
<1> DEFINE chosen == ToSet(s.selectedTabs)
           visible == {t \in DOMAIN gs[g].tabs : gs[g].tabs[t].condition \in chosen \cup {None}}
           selected == {t \in visible : Intersect(s.selectedTabs, gs[g].tabs[t].ids)}
<1>1. Takes(gs, s, v, g)
  BY UpdateTakes
<1>2. visible = DOMAIN gs[g].tabs
  BY DEF PlainOf
<1>3. selected = Selects(gs, s.selectedTabs, g)
  BY <1>2 DEF Selects
<1>4. \/ /\ Selects(gs, s.selectedTabs, g) # {} /\ v.selectedTabs = s.selectedTabs
         /\ v.selected[g] = Selects(gs, s.selectedTabs, g)
      \/ /\ Selects(gs, s.selectedTabs, g) = {}
         /\ \E first \in DOMAIN gs[g].tabs :
              /\ v.selected[g] = {first}
              /\ v.selectedTabs = Append(WithoutGroupOf(gs, s.selectedTabs, g),
                                         gs[g].tabs[first].ids[1])
  <2>1. \/ selected # {} /\ v.selected[g] = selected /\ v.selectedTabs = s.selectedTabs
        \/ /\ selected = {}
           /\ \E first \in DOMAIN gs[g].tabs :
                /\ v.selected[g] = {first}
                /\ v.selectedTabs = Append(WithoutGroupOf(gs, s.selectedTabs, g),
                                           gs[g].tabs[first].ids[1])
    BY <1>1, Zenon DEF Takes
  <2> HIDE DEF selected
  <2> QED BY <1>3, <2>1, Zenon
<1>5. CASE Selects(gs, s.selectedTabs, g) # {}
  BY <1>4, <1>5, Zenon
<1>6. CASE Selects(gs, s.selectedTabs, g) = {}
  <2>1. PICK first \in DOMAIN gs[g].tabs :
          /\ v.selected[g] = {first}
          /\ v.selectedTabs = Append(WithoutGroupOf(gs, s.selectedTabs, g),
                                     gs[g].tabs[first].ids[1])
    BY <1>4, <1>6, Zenon
  <2>2. PICK id, list, new : /\ id = gs[g].tabs[first].ids[1] /\ list = s.selectedTabs
                             /\ new = v.selectedTabs
    OBVIOUS
  <2>3. list \in Seq(STRING)
    BY <2>2, Zenon DEF Shape
  <2>8. new = Append(WithoutGroupOf(gs, list, g), gs[g].tabs[first].ids[1])
    BY <2>1, <2>2, Zenon
  <2>4. id \in ToSet(new) /\ ToSet(new) \subseteq ToSet(list) \cup {id}
    BY <2>2, <2>3, <2>8, GivenUp
  <2>5. id \in ToSet(gs[g].tabs[first].ids)
    BY <2>2, FirstId, Zenon
  <2>6. ASSUME NEW t \in DOMAIN gs[g].tabs
        PROVE  Intersect(new, gs[g].tabs[t].ids) <=> t = first
    <3>1. ToSet(list) \cap ToSet(gs[g].tabs[t].ids) = {}
      BY <1>6, <2>2 DEF Selects, Intersect
    <3>2. id \in ToSet(gs[g].tabs[t].ids) => t = first
      <4>1. id \in ToSet(gs[g].tabs[t].ids) => Intersect(gs[g].tabs[t].ids, gs[g].tabs[first].ids)
        BY <2>5 DEF Intersect
      <4> QED BY <4>1, Zenon DEF PlainOf
    <3>3. Intersect(new, gs[g].tabs[t].ids) => id \in ToSet(gs[g].tabs[t].ids)
      BY <2>4, <3>1 DEF Intersect
    <3>4. t = first => Intersect(new, gs[g].tabs[t].ids)
      BY <2>4, <2>5 DEF Intersect
    <3> QED BY <3>2, <3>3, <3>4, Zenon
  <2>7. Selects(gs, new, g) = {first}
    BY <2>6 DEF Selects
  <2> QED BY <1>6, <2>1, <2>2, <2>7, Zenon
<1> QED BY <1>5, <1>6

LEMMA ApartUpdate ==
  ASSUME NEW gs, IsGroups(gs), NEW s, Shape(gs, s), NEW g \in DOMAIN gs, NEW h \in DOMAIN gs,
         ApartOf(gs, g, h), NEW v, v = UpdateOf(gs, s, h), ~v.threw
  PROVE  Selects(gs, v.selectedTabs, g) = Selects(gs, s.selectedTabs, g)
<1>0. Takes(gs, s, v, h)
  BY UpdateTakes
<1>1. \/ v.selectedTabs = s.selectedTabs
      \/ \E first \in DOMAIN gs[h].tabs :
           v.selectedTabs = Append(WithoutGroupOf(gs, s.selectedTabs, h),
                                   gs[h].tabs[first].ids[1])
  BY <1>0, Zenon DEF Takes
<1>2. CASE v.selectedTabs = s.selectedTabs
  BY <1>2
<1>3. ASSUME NEW first \in DOMAIN gs[h].tabs,
             v.selectedTabs = Append(WithoutGroupOf(gs, s.selectedTabs, h),
                                     gs[h].tabs[first].ids[1])
      PROVE  Selects(gs, v.selectedTabs, g) = Selects(gs, s.selectedTabs, g)
  <2>2. PICK id, list, new : /\ id = gs[h].tabs[first].ids[1] /\ list = s.selectedTabs
                             /\ new = v.selectedTabs
    OBVIOUS
  <2>3. list \in Seq(STRING)
    BY <2>2, Zenon DEF Shape
  <2>4. /\ ToSet(new) \subseteq ToSet(list) \cup {id}
        /\ \A x \in ToSet(list) : x \notin IdsOf(gs, h) => x \in ToSet(new)
    BY <1>3, <2>2, <2>3, GivenUp, Zenon
  <2>5. id \in ToSet(gs[h].tabs[first].ids)
    BY <2>2, FirstId, Zenon
  <2>6. ASSUME NEW t \in DOMAIN gs[g].tabs
        PROVE  Intersect(new, gs[g].tabs[t].ids) <=> Intersect(list, gs[g].tabs[t].ids)
    <3>1. \A u \in DOMAIN gs[h].tabs : ToSet(gs[g].tabs[t].ids) \cap ToSet(gs[h].tabs[u].ids) = {}
      BY DEF ApartOf, Intersect
    <3>2. \A x \in ToSet(gs[g].tabs[t].ids) : x \notin IdsOf(gs, h) /\ x # id
      BY <2>5, <3>1 DEF IdsOf
    <3> QED BY <2>4, <3>2 DEF Intersect
  <2>7. Selects(gs, new, g) = Selects(gs, list, g)
    BY <2>6 DEF Selects
  <2> QED BY <2>2, <2>7, Zenon
<1> QED BY <1>1, <1>2, <1>3

LEMMA UpdateChosen ==
  ASSUME NEW gs, IsGroups(gs), UniformOf(gs), NEW s, Shape(gs, s), NEW g \in DependentOf(gs),
         NEW t \in DOMAIN gs[g].tabs, ~s.threw, s.selectedTabs = <<gs[g].tabs[t].ids[1]>>
  PROVE  Chooses(gs, UpdateOf(gs, s, g), g, t)
<1> DEFINE ts == gs[g].tabs
           id == ts[t].ids[1]
           visible == {u \in DOMAIN ts : ts[u].condition \in ToSet(s.selectedTabs) \cup {None}}
           selected == {u \in visible : Intersect(s.selectedTabs, ts[u].ids)}
           u == UpdateOf(gs, s, g)
<1>0. g \in DOMAIN gs
  BY DEF DependentOf
<1>1. visible = DOMAIN ts
  BY AllVisible
<1>2. id \in ToSet(ts[t].ids)
  <2>1. ts[t].ids \in Seq(STRING) /\ ts[t].ids # <<>>
    BY <1>0, TabsOf
  <2>2. 1 \in DOMAIN ts[t].ids
    BY <2>1
  <2> QED BY <2>2, Zenon DEF ToSet
<1>3. ASSUME NEW v \in DOMAIN ts, id \in ToSet(ts[v].ids)
      PROVE  v = t
  <2>1. Intersect(ts[v].ids, ts[t].ids)
    BY <1>2, <1>3 DEF Intersect
  <2> QED BY <2>1, Zenon DEF UniformOf, PlainOf, AlikeOf
<1>4. selected = {t}
  <2>1. \A v \in DOMAIN ts : Intersect(s.selectedTabs, ts[v].ids) <=> id \in ToSet(ts[v].ids)
    BY IntersectOne
  <2> HIDE DEF id, ts, visible
  <2> QED BY <1>1, <1>2, <1>3, <2>1 DEF ts
<1>5. u = [[s EXCEPT !.visible[g] = visible] EXCEPT !.selected[g] = selected]
  <2>1. selected # {}
    BY <1>4
  <2> QED BY <2>1, Zenon DEF UpdateOf
<1> HIDE DEF selected, visible, u
<1>6. u.selected[g] = selected /\ u.selectedTabs = s.selectedTabs /\ u.threw = s.threw
  BY <1>0, <1>5 DEF Shape
<1> QED BY <1>4, <1>6, Zenon DEF Chooses, u

LEMMA UpdateBlank ==
  ASSUME NEW gs, IsGroups(gs), UniformOf(gs), NEW s, Shape(gs, s), NEW g \in DependentOf(gs),
         ~s.threw, s.selectedTabs = <<>>
  PROVE  Chooses(gs, UpdateOf(gs, s, g), g, 1)
<1> DEFINE ts == gs[g].tabs
           visible == {u \in DOMAIN ts : ts[u].condition \in ToSet(s.selectedTabs) \cup {None}}
           selected == {u \in visible : Intersect(s.selectedTabs, ts[u].ids)}
           given == WithoutGroupOf(gs, s.selectedTabs, g)
           u == UpdateOf(gs, s, g)
<1>0. g \in DOMAIN gs
  BY DEF DependentOf
<1>1. visible = DOMAIN ts
  BY AllVisible
<1>2. given = <<>>
  BY <1>0, WithoutGroupOfNone
<1>3. selected = {}
  <2>1. ToSet(s.selectedTabs) = {}
    BY DEF ToSet
  <2> QED BY <2>1 DEF Intersect
<1>4. Min(visible) = 1 /\ visible # {}
  <2>1. visible = 1..Len(ts) /\ Len(ts) \in Nat \ {0}
    BY <1>0, <1>1, TabsOf
  <2>2. 1 \in 1..Len(ts) /\ \A k \in 1..Len(ts) : 1 <= k
    BY <2>1
  <2>3. \E m \in 1..Len(ts) : \A k \in 1..Len(ts) : m <= k
    BY <2>2
  <2>4. Min(1..Len(ts)) \in 1..Len(ts) /\ Min(1..Len(ts)) <= 1
    BY <2>2, <2>3, Zenon DEF Min
  <2>5. Min(1..Len(ts)) = 1
    BY <2>1, <2>4
  <2> QED BY <2>1, <2>2, <2>5
<1>5. u = [[s EXCEPT !.visible[g] = visible]
             EXCEPT !.selected[g] = {Min(visible)},
                    !.selectedTabs = Append(given, ts[Min(visible)].ids[1])]
  <2> QED BY <1>3, <1>4, Zenon DEF UpdateOf
<1> HIDE DEF selected, visible, u, given, ts
<1>6. u.selected[g] = {1} /\ u.selectedTabs = Append(<<>>, ts[1].ids[1]) /\ u.threw = s.threw
  BY <1>0, <1>2, <1>4, <1>5 DEF Shape
<1>7. Append(<<>>, ts[1].ids[1]) = <<ts[1].ids[1]>>
  OBVIOUS
<1> QED BY <1>6, <1>7, Zenon DEF Chooses, u, ts

\* The update of all groups, when it came to the group k.  Independent groups are
\* left as they were; when all others offer the same, the first of them chooses
\* its first tab if there is no choice, and each shows the tab that is chosen.
AllUpdated(gs, s, u, k) ==
  /\ Shape(gs, u)
  /\ u.url = s.url
  /\ \A g \in DependentOf(gs) : Settled(s, g) => Settled(u, g)
  /\ \A g \in DOMAIN gs : g \notin DependentOf(gs) => u.selected[g] = s.selected[g]
  /\ ~u.threw => \A g \in DependentOf(gs) : g <= k => Shows(u, g)

AllChoose(gs, u, t, k) ==
  /\ ~u.threw
  /\ \A g \in DependentOf(gs) : t \in DOMAIN gs[g].tabs
  /\ \/ u.selectedTabs = <<>> /\ t = 1 /\ \A g \in DependentOf(gs) : ~(g <= k)
     \/ \A g \in DependentOf(gs) :
          /\ u.selectedTabs = <<gs[g].tabs[t].ids[1]>>
          /\ g <= k => u.selected[g] = {t}

\* A plain group shows what the list chooses, when it and those behind it are updated
\* and each of these offers the same or has no id of its own; so two of them agree.
Agrees(gs, u, k) ==
  ~u.threw => \A g \in DependentOf(gs) :
    /\ g <= k /\ PlainOf(gs, g)
    /\ \A m \in DependentOf(gs) : g < m /\ m <= k => AlikeOf(gs, g, m) \/ ApartOf(gs, g, m)
    => u.selected[g] = Selects(gs, u.selectedTabs, g)

AgreeUpTo(gs, u, k) ==
  ~u.threw => \A g, h \in DependentOf(gs) :
    /\ g < h /\ h <= k /\ PlainOf(gs, g) /\ AlikeOf(gs, g, h)
    /\ \A m \in DependentOf(gs) : g < m /\ m < h => AlikeOf(gs, g, m) \/ ApartOf(gs, g, m)
    => u.selected[g] = u.selected[h]

LEMMA AgreesStep ==
  ASSUME NEW gs, IsGroups(gs), NEW s, NEW k \in Nat, NEW u, AllUpdated(gs, s, u, k),
         k + 1 \in DependentOf(gs), Agrees(gs, u, k),
         NEW v, v = UpdateOf(gs, u, k + 1)
  PROVE  Agrees(gs, v, k + 1)
<1>0. k + 1 \in DOMAIN gs /\ DOMAIN gs \subseteq Nat /\ DependentOf(gs) \subseteq DOMAIN gs
  BY DEF DependentOf, IsGroups
<1>1. Shape(gs, u) /\ Updated(gs, u, v, k + 1)
  BY <1>0, UpdateFacts DEF AllUpdated
<1> SUFFICES ASSUME ~v.threw, NEW g \in DependentOf(gs), g <= k + 1, PlainOf(gs, g),
                    \A m \in DependentOf(gs) :
                      g < m /\ m <= k + 1 => AlikeOf(gs, g, m) \/ ApartOf(gs, g, m)
             PROVE  v.selected[g] = Selects(gs, v.selectedTabs, g)
  BY Zenon DEF Agrees
<1>2. CASE g = k + 1
  BY <1>0, <1>1, <1>2, PlainUpdate
<1>3. CASE g # k + 1
  <2>1. /\ g <= k /\ g < k + 1 /\ k + 1 <= k + 1 /\ g \in DOMAIN gs \ {k + 1}
        /\ \A m \in DependentOf(gs) : m <= k => m <= k + 1
    BY <1>0, <1>3
  <2>2. v.selected[g] = u.selected[g] /\ ~u.threw
    BY <1>1, <2>1, Zenon DEF Updated
  <2>3. u.selected[g] = Selects(gs, u.selectedTabs, g)
    BY <2>1, <2>2, Zenon DEF Agrees
  <2>4. u.selected[g] # {}
    BY <2>1, <2>2, Zenon DEF AllUpdated, Shows
  <2>5. CASE AlikeOf(gs, g, k + 1)
    <3>1. PlainOf(gs, k + 1) /\ \A c : Selects(gs, c, k + 1) = Selects(gs, c, g)
      BY <2>5, Zenon DEF AlikeOf, PlainOf, Selects
    <3>2. Selects(gs, u.selectedTabs, k + 1) # {}
      BY <2>3, <2>4, <3>1, Zenon
    <3>3. v.selectedTabs = u.selectedTabs
      BY <1>0, <1>1, <3>1, <3>2, PlainUpdate
    <3> QED BY <2>2, <2>3, <3>3, Zenon
  <2>6. CASE ApartOf(gs, g, k + 1)
    <3>1. Selects(gs, v.selectedTabs, g) = Selects(gs, u.selectedTabs, g)
      BY <1>0, <1>1, <2>6, ApartUpdate
    <3> QED BY <2>2, <2>3, <3>1, Zenon
  <2> QED BY <2>1, <2>5, <2>6, Zenon
<1> QED BY <1>2, <1>3

LEMMA AgreeUpToStep ==
  ASSUME NEW gs, IsGroups(gs), NEW k \in Nat, NEW u, Shape(gs, u),
         k + 1 \in DependentOf(gs), AgreeUpTo(gs, u, k),
         NEW v, v = UpdateOf(gs, u, k + 1), Agrees(gs, v, k + 1)
  PROVE  AgreeUpTo(gs, v, k + 1)
<1>0. k + 1 \in DOMAIN gs /\ DOMAIN gs \subseteq Nat /\ DependentOf(gs) \subseteq DOMAIN gs
  BY DEF DependentOf, IsGroups
<1>1. Updated(gs, u, v, k + 1)
  BY <1>0, UpdateFacts
<1> SUFFICES ASSUME ~v.threw, NEW g \in DependentOf(gs), NEW h \in DependentOf(gs),
                    g < h, h <= k + 1, PlainOf(gs, g), AlikeOf(gs, g, h),
                    \A m \in DependentOf(gs) :
                      g < m /\ m < h => AlikeOf(gs, g, m) \/ ApartOf(gs, g, m)
             PROVE  v.selected[g] = v.selected[h]
  BY Zenon DEF AgreeUpTo
<1>2. CASE h = k + 1
  <2>1. g <= k + 1 /\ k + 1 <= k + 1
    BY <1>0, <1>2
  <2>2. \A m \in DependentOf(gs) :
          g < m /\ m <= k + 1 => AlikeOf(gs, g, m) \/ ApartOf(gs, g, m)
    <3>1. \A m \in DependentOf(gs) : m <= k + 1 => m < h \/ m = h
      BY <1>0, <1>2
    <3> QED BY <3>1, Zenon
  <2>3. v.selected[g] = Selects(gs, v.selectedTabs, g)
    BY <2>1, <2>2, Zenon DEF Agrees
  <2>4. PlainOf(gs, h) /\ Selects(gs, v.selectedTabs, h) = Selects(gs, v.selectedTabs, g)
    BY Zenon DEF AlikeOf, PlainOf, Selects
  <2>5. \A m \in DependentOf(gs) : ~(h < m /\ m <= k + 1)
    BY <1>0, <1>2
  <2>6. v.selected[h] = Selects(gs, v.selectedTabs, h)
    BY <2>4, <2>5, Zenon DEF Agrees
  <2> QED BY <2>3, <2>4, <2>6, Zenon
<1>3. CASE h # k + 1
  <2>1. h <= k /\ g \in DOMAIN gs \ {k + 1} /\ h \in DOMAIN gs \ {k + 1}
    BY <1>0, <1>3
  <2>2. v.selected[g] = u.selected[g] /\ v.selected[h] = u.selected[h] /\ ~u.threw
    BY <1>1, <2>1, Zenon DEF Updated
  <2> QED BY <2>1, <2>2, Zenon DEF AgreeUpTo
<1> QED BY <1>2, <1>3

LEMMA AllUpdatedStep ==
  ASSUME NEW gs, IsGroups(gs), NEW s, NEW k \in Nat, NEW u, AllUpdated(gs, s, u, k),
         k + 1 \in DependentOf(gs)
  PROVE  AllUpdated(gs, s, UpdateOf(gs, u, k + 1), k + 1)
<1> DEFINE v == UpdateOf(gs, u, k + 1)
<1>0. k + 1 \in DOMAIN gs /\ DOMAIN gs \subseteq Nat /\ DependentOf(gs) \subseteq DOMAIN gs
  BY DEF DependentOf, IsGroups
<1>1. Updated(gs, u, v, k + 1)
  BY <1>0, UpdateFacts DEF AllUpdated
<1> HIDE DEF v
<1>2. Shape(gs, v) /\ v.url = s.url
  BY <1>1, Zenon DEF AllUpdated, Updated
<1>3. ASSUME NEW g \in DOMAIN gs, g \notin DependentOf(gs)
      PROVE  v.selected[g] = s.selected[g]
  <2>1. g \in DOMAIN gs \ {k + 1}
    BY <1>3
  <2> QED BY <1>1, <1>3, <2>1, Zenon DEF Updated, AllUpdated
<1>4. ASSUME ~v.threw, NEW g \in DependentOf(gs), g <= k + 1
      PROVE  Shows(v, g)
  <2>1. CASE g = k + 1
    BY <1>1, <1>4, <2>1, Zenon DEF Updated
  <2>2. CASE g # k + 1
    <3>1. g <= k /\ g \in DOMAIN gs \ {k + 1}
      BY <1>0, <1>4, <2>2
    <3>2. v.visible[g] = u.visible[g] /\ v.selected[g] = u.selected[g] /\ ~u.threw
      BY <1>1, <1>4, <3>1, Zenon DEF Updated
    <3>3. Shows(u, g)
      BY <3>1, <3>2, Zenon DEF AllUpdated
    <3> QED BY <3>2, <3>3 DEF Shows
  <2> QED BY <2>1, <2>2
<1>5. ASSUME NEW g \in DependentOf(gs), Settled(s, g)
      PROVE  Settled(v, g)
  <2>1. Settled(u, g)
    BY <1>5, Zenon DEF AllUpdated
  <2>2. CASE g = k + 1
    BY <1>1, <2>1, <2>2, Zenon DEF Updated
  <2>3. CASE g # k + 1
    <3>1. g \in DOMAIN gs \ {k + 1}
      BY <1>0, <2>3
    <3>2. v.visible[g] = u.visible[g] /\ v.selected[g] = u.selected[g]
      BY <1>1, <3>1, Zenon DEF Updated
    <3> QED BY <2>1, <3>2 DEF Settled
  <2> QED BY <2>2, <2>3
<1> QED BY <1>2, <1>3, <1>4, <1>5, Zenon DEF AllUpdated, v

LEMMA AllChooseStep ==
  ASSUME NEW gs, IsGroups(gs), UniformOf(gs), NEW k \in Nat, NEW u, Shape(gs, u), NEW t,
         AllChoose(gs, u, t, k), k + 1 \in DependentOf(gs)
  PROVE  AllChoose(gs, UpdateOf(gs, u, k + 1), t, k + 1)
<1> DEFINE v == UpdateOf(gs, u, k + 1)
<1>0. k + 1 \in DOMAIN gs /\ DOMAIN gs \subseteq Nat /\ DependentOf(gs) \subseteq DOMAIN gs
  BY DEF DependentOf, IsGroups
<1>1. Updated(gs, u, v, k + 1)
  BY <1>0, UpdateFacts
<1>2. ~u.threw /\ t \in DOMAIN gs[k + 1].tabs
  BY Zenon DEF AllChoose
<1>3. Chooses(gs, v, k + 1, t)
  <2>1. CASE u.selectedTabs = <<>> /\ t = 1
    BY <1>2, <2>1, UpdateBlank
  <2>2. CASE u.selectedTabs = <<gs[k + 1].tabs[t].ids[1]>>
    BY <1>2, <2>2, UpdateChosen
  <2> QED BY <2>1, <2>2, Zenon DEF AllChoose
<1>4. ASSUME NEW g \in DependentOf(gs)
      PROVE  v.selectedTabs = <<gs[g].tabs[t].ids[1]>>
  <2>1. gs[g].tabs = gs[k + 1].tabs
    BY Zenon DEF UniformOf, PlainOf, AlikeOf
  <2> QED BY <1>3, <2>1 DEF Chooses
<1> HIDE DEF v
<1>5. ASSUME NEW g \in DependentOf(gs), g <= k + 1
      PROVE  v.selected[g] = {t}
  <2>1. CASE g = k + 1
    BY <1>3, <2>1, Zenon DEF Chooses
  <2>2. CASE g # k + 1
    <3>1. g <= k /\ g \in DOMAIN gs \ {k + 1}
      BY <1>0, <1>5, <2>2
    <3>2. v.selected[g] = u.selected[g]
      BY <1>1, <3>1, Zenon DEF Updated
    <3>3. u.selected[g] = {t}
      BY <3>1, Zenon DEF AllChoose
    <3> QED BY <3>2, <3>3
  <2> QED BY <2>1, <2>2
<1>6. ~v.threw
  BY <1>3, Zenon DEF Chooses
<1>7. \A g \in DependentOf(gs) : t \in DOMAIN gs[g].tabs
  BY Zenon DEF AllChoose
<1> QED BY <1>4, <1>5, <1>6, <1>7, Zenon DEF AllChoose, v

LEMMA UpdateAllFacts ==
  ASSUME NEW gs, IsGroups(gs), NEW s, Shape(gs, s)
  PROVE  /\ AllUpdated(gs, s, UpdateAllOf(gs, s), Len(gs))
         /\ AgreeUpTo(gs, UpdateAllOf(gs, s), Len(gs))
         /\ \A t : UniformOf(gs) /\ AllChoose(gs, s, t, 0)
                     => AllChoose(gs, UpdateAllOf(gs, s), t, Len(gs))
<1> DEFINE f == CHOOSE f : Done(f, gs, s, Len(gs))
           Good(k) == /\ AllUpdated(gs, s, f[k], k)
                      /\ Agrees(gs, f[k], k) /\ AgreeUpTo(gs, f[k], k)
                      /\ \A t : UniformOf(gs) /\ AllChoose(gs, s, t, 0)
                                  => AllChoose(gs, f[k], t, k)
           I == {k \in Nat : k <= Len(gs) => Good(k)}
<1>0. Len(gs) \in Nat /\ DOMAIN gs = 1..Len(gs) /\ DependentOf(gs) \subseteq 1..Len(gs)
  BY DEF IsGroups, DependentOf
<1>1. Done(f, gs, s, Len(gs))
  BY <1>0, DoneThere
<1> HIDE DEF f
<1>2. 0 \in I
  <2>1. f[0] = s
    BY <1>0, <1>1 DEF Done
  <2>2. \A g \in DependentOf(gs) : ~(g <= 0)
    BY <1>0
  <2>3. AllUpdated(gs, s, s, 0)
    BY <2>2 DEF AllUpdated
  <2>4. Agrees(gs, s, 0) /\ AgreeUpTo(gs, s, 0)
    BY <2>2, Zenon DEF Agrees, AgreeUpTo
  <2> QED BY <2>1, <2>3, <2>4
<1>3. ASSUME NEW k \in I PROVE k + 1 \in I
  <2>0. k \in Nat
    OBVIOUS
  <2> SUFFICES ASSUME k + 1 <= Len(gs) PROVE Good(k + 1)
    BY <2>0
  <2>1. Good(k)
    BY <1>0, <2>0
  <2>2. k + 1 \in 0..Len(gs) /\ k + 1 # 0 /\ (k + 1) - 1 = k
    BY <1>0, <2>0
  <2>3. f[k + 1] = IF k + 1 \in DependentOf(gs) THEN UpdateOf(gs, f[(k + 1) - 1], k + 1)
                   ELSE f[(k + 1) - 1]
    BY <1>1, <2>2, Zenon DEF Done
  <2>4. CASE k + 1 \in DependentOf(gs)
    <3>1. f[k + 1] = UpdateOf(gs, f[k], k + 1)
      BY <2>2, <2>3, <2>4
    <3>2. AllUpdated(gs, s, f[k + 1], k + 1)
      BY <2>0, <2>1, <2>4, <3>1, AllUpdatedStep
    <3>3. ASSUME NEW t, UniformOf(gs), AllChoose(gs, f[k], t, k)
          PROVE  AllChoose(gs, f[k + 1], t, k + 1)
      BY <2>0, <2>1, <2>4, <3>1, <3>3, AllChooseStep DEF AllUpdated
    <3>4. Agrees(gs, f[k + 1], k + 1)
      BY <2>0, <2>1, <2>4, <3>1, AgreesStep
    <3>5. AgreeUpTo(gs, f[k + 1], k + 1)
      <4>1. Shape(gs, f[k])
        BY <2>1, Zenon DEF AllUpdated
      <4> QED BY <2>0, <2>1, <2>4, <3>1, <3>4, <4>1, AgreeUpToStep
    <3> QED BY <2>1, <3>2, <3>3, <3>4, <3>5
  <2>5. CASE k + 1 \notin DependentOf(gs)
    <3>1. f[k + 1] = f[k]
      BY <2>2, <2>3, <2>5
    <3>2. \A g \in DependentOf(gs) : g <= k + 1 => g <= k
      BY <1>0, <2>0, <2>5
    <3>3. AllUpdated(gs, s, f[k + 1], k + 1)
      BY <2>1, <3>1, <3>2 DEF AllUpdated
    <3>4. ASSUME NEW t, AllChoose(gs, f[k], t, k)
          PROVE  AllChoose(gs, f[k + 1], t, k + 1)
      BY <3>1, <3>2, <3>4, Zenon DEF AllChoose
    <3>5. \A m \in DependentOf(gs) : m <= k => m <= k + 1
      BY <1>0, <2>0
    <3>6. Agrees(gs, f[k + 1], k + 1)
      BY <2>1, <3>1, <3>2, <3>5, Zenon DEF Agrees
    <3>7. AgreeUpTo(gs, f[k + 1], k + 1)
      BY <2>1, <3>1, <3>2, <3>5, Zenon DEF AgreeUpTo
    <3> QED BY <2>1, <3>3, <3>4, <3>6, <3>7
  <2> QED BY <2>4, <2>5
<1>4. I = Nat
  <2> HIDE DEF I
  <2>1. I \in SUBSET Nat
    BY DEF I
  <2> QED BY <1>2, <1>3, <2>1, Reaches
<1>5. Good(Len(gs))
  BY <1>0, <1>4
<1>6. UpdateAllOf(gs, s) = f[Len(gs)]
  BY DEF UpdateAllOf, f
<1> QED BY <1>5, <1>6

\* What the page is as its groups' tabs are set up and clicked.
ChoosesOne(gs, s) ==
  UniformOf(gs) /\ DependentOf(gs) # {} =>
    \E t : AllChoose(gs, s, t, Len(gs)) /\ s.url = s.selectedTabs

SetUp(gs, s) ==
  /\ Shape(gs, s)
  /\ \A g \in DOMAIN gs : g \notin DependentOf(gs) => s.selected[g] # {}
  /\ \A g \in DependentOf(gs) : Settled(s, g)
  /\ ~s.threw => \A g \in DependentOf(gs) : Shows(s, g)
  /\ AgreeUpTo(gs, s, Len(gs))
  /\ ChoosesOne(gs, s)

TabsInv ==
  /\ IsGroups(groups)
  /\ script \in {"start", "affix", "tabs"} => tabs = Blank(groups) /\ ~listening
  /\ listening => SetUp(groups, tabs)

LEMMA AddressFacts ==
  ASSUME NEW gs, NEW s, Shape(gs, s)
  PROVE  LET u == WithUrl(s)
         IN /\ Shape(gs, u)
            /\ u.visible = s.visible /\ u.selected = s.selected
            /\ u.selectedTabs = s.selectedTabs /\ (u.threw <=> s.threw)
            /\ ~s.threw => u.url = s.selectedTabs
<1> DEFINE u == WithUrl(s)
<1>1. CASE s.threw
  BY <1>1 DEF WithUrl
<1>2. CASE ~s.threw
  <2>1. u = [s EXCEPT !.url = s.selectedTabs]
    BY <1>2 DEF WithUrl
  <2>2. s = [visible |-> s.visible, selected |-> s.selected, selectedTabs |-> s.selectedTabs,
             url |-> s.url, threw |-> s.threw]
    BY Zenon DEF Shape
  <2>3. u = [visible |-> s.visible, selected |-> s.selected, selectedTabs |-> s.selectedTabs,
             url |-> s.selectedTabs, threw |-> s.threw]
    BY <2>1, <2>2
  <2> HIDE DEF u
  <2>4. /\ u.visible = s.visible /\ u.selected = s.selected
        /\ u.selectedTabs = s.selectedTabs /\ u.threw = s.threw /\ u.url = s.selectedTabs
    BY <2>3
  <2>5. Shape(gs, u)
    BY <2>3, <2>4, Zenon DEF Shape
  <2> QED BY <2>4, <2>5 DEF u
<1> QED BY <1>1, <1>2

LEMMA UpdateSetsUp ==
  ASSUME NEW gs, IsGroups(gs), NEW s, Shape(gs, s),
         \A g \in DOMAIN gs : g \notin DependentOf(gs) => s.selected[g] # {},
         (\A g \in DependentOf(gs) : Settled(s, g)) \/ ~UpdateAllOf(gs, s).threw,
         UniformOf(gs) /\ DependentOf(gs) # {} => \E t : AllChoose(gs, s, t, 0)
  PROVE  /\ SetUp(gs, WithUrl(UpdateAllOf(gs, s)))
         /\ DependentOf(gs) = {} => SetUp(gs, UpdateAllOf(gs, s))
<1> DEFINE v == UpdateAllOf(gs, s)
           u == WithUrl(v)
<1>0. Len(gs) \in Nat /\ \A g \in DependentOf(gs) : g <= Len(gs)
  BY DEF IsGroups, DependentOf
<1>1. /\ AllUpdated(gs, s, v, Len(gs))
      /\ AgreeUpTo(gs, v, Len(gs))
      /\ \A t : UniformOf(gs) /\ AllChoose(gs, s, t, 0) => AllChoose(gs, v, t, Len(gs))
  BY UpdateAllFacts
<1>9. (\A g \in DependentOf(gs) : Settled(s, g)) \/ ~v.threw
  OBVIOUS
<1> HIDE DEF v
<1>2. /\ Shape(gs, u)
      /\ u.visible = v.visible /\ u.selected = v.selected
      /\ u.selectedTabs = v.selectedTabs /\ (u.threw <=> v.threw)
      /\ ~v.threw => u.url = v.selectedTabs
  BY <1>1, AddressFacts DEF AllUpdated
<1> HIDE DEF u
<1>3. \A g \in DOMAIN gs : g \notin DependentOf(gs) => v.selected[g] # {}
  BY <1>1, Zenon DEF AllUpdated
<1>4. ~v.threw => \A g \in DependentOf(gs) : Shows(v, g)
  BY <1>0, <1>1, Zenon DEF AllUpdated
<1>8. \A g \in DependentOf(gs) : Settled(v, g)
  <2>1. ~v.threw => \A g \in DependentOf(gs) : Settled(v, g)
    BY <1>4, Zenon DEF Shows, Settled
  <2> QED BY <1>1, <1>9, <2>1, Zenon DEF AllUpdated
<1>10. AgreeUpTo(gs, u, Len(gs))
  BY <1>1, <1>2, Zenon DEF AgreeUpTo
<1>5. ChoosesOne(gs, u)
  <2> SUFFICES ASSUME UniformOf(gs), DependentOf(gs) # {}
               PROVE  \E t : AllChoose(gs, u, t, Len(gs)) /\ u.url = u.selectedTabs
    BY Zenon DEF ChoosesOne
  <2>1. PICK t : AllChoose(gs, v, t, Len(gs))
    BY <1>1, Zenon
  <2>2. AllChoose(gs, u, t, Len(gs))
    BY <1>2, <2>1, Zenon DEF AllChoose
  <2>3. ~v.threw
    BY <2>1, Zenon DEF AllChoose
  <2> QED BY <1>2, <2>2, <2>3
<1>6. SetUp(gs, u)
  <2>1. (\A g \in DependentOf(gs) : Settled(u, g))
        /\ (~u.threw => \A g \in DependentOf(gs) : Shows(u, g))
    BY <1>2, <1>4, <1>8, Zenon DEF Settled, Shows
  <2>2. \A g \in DOMAIN gs : g \notin DependentOf(gs) => u.selected[g] # {}
    BY <1>2, <1>3, Zenon
  <2> QED BY <1>2, <1>5, <1>10, <2>1, <2>2, Zenon DEF SetUp
<1>7. DependentOf(gs) = {} => SetUp(gs, v)
  <2>1. Shape(gs, v)
    BY <1>1, Zenon DEF AllUpdated
  <2> QED BY <1>1, <1>3, <1>4, <1>8, <2>1, Zenon DEF SetUp, ChoosesOne
<1> QED BY <1>6, <1>7 DEF u, v

\* The page as it is loaded.
LEMMA BlankFacts ==
  ASSUME NEW gs, IsGroups(gs)
  PROVE  /\ Shape(gs, Blank(gs))
         /\ \A g \in DOMAIN gs : Blank(gs).selected[g] # {}
         /\ UniformOf(gs) => AllChoose(gs, Blank(gs), 1, 0)
<1> DEFINE s == Blank(gs)
<1>1. /\ s.visible = [g \in DOMAIN gs |->
                        {t \in DOMAIN gs[g].tabs : gs[g].tabs[t].condition = None}]
      /\ s.selected = [g \in DOMAIN gs |-> {1} \cap DOMAIN gs[g].tabs]
      /\ s.selectedTabs = <<>> /\ s.url = <<>> /\ s.threw = FALSE
  BY DEF Blank
<1>2. s = [visible |-> s.visible, selected |-> s.selected, selectedTabs |-> s.selectedTabs,
           url |-> s.url, threw |-> s.threw]
  BY DEF Blank
<1> HIDE DEF s
<1>3. Shape(gs, s)
  <2>1. \A g \in DOMAIN gs : s.visible[g] \subseteq DOMAIN gs[g].tabs
    BY <1>1
  <2>2. /\ s.visible = [g \in DOMAIN gs |-> s.visible[g]]
        /\ s.selected = [g \in DOMAIN gs |-> s.selected[g]]
    BY <1>1
  <2>3. s.threw \in BOOLEAN /\ s.selectedTabs \in Seq(STRING)
    <3>1. \A C : <<>> \in Seq(C)
      OBVIOUS
    <3> QED BY <1>1, <3>1, Zenon
  <2> QED BY <1>2, <2>1, <2>2, <2>3, Zenon DEF Shape
<1>4. \A g \in DOMAIN gs : 1 \in DOMAIN gs[g].tabs
  <2> TAKE g \in DOMAIN gs
  <2>1. Len(gs[g].tabs) \in Nat \ {0} /\ DOMAIN gs[g].tabs = 1..Len(gs[g].tabs)
    BY TabsOf
  <2> QED BY <2>1
<1>5. \A g \in DOMAIN gs : s.selected[g] # {}
  BY <1>1, <1>4
<1>6. AllChoose(gs, s, 1, 0)
  <2>1. \A g \in DependentOf(gs) : ~(g <= 0) /\ g \in DOMAIN gs
    BY DEF DependentOf, IsGroups
  <2> QED BY <1>1, <1>4, <2>1, Zenon DEF AllChoose
<1> QED BY <1>3, <1>5, <1>6 DEF s

LEMMA TabsInitially == Init => TabsInv
<1> SUFFICES ASSUME Init PROVE TabsInv
  OBVIOUS
<1>1. PICK p \in Site : TabsInit(p.groups)
  BY DEF Init
<1>2. IsGroups(p.groups)
  BY SiteAssumption
<1> QED BY <1>1, <1>2, Zenon DEF TabsInit, TabsInv

LEMMA TabsStay ==
  ASSUME TabsInv, UNCHANGED tabGroups,
         script' \in {"start", "affix", "tabs"} => script \in {"start", "affix", "tabs"}
  PROVE  TabsInv'
<1>1. groups' = groups /\ tabs' = tabs /\ listening' = listening
  BY DEF tabGroups
<1> QED BY <1>1 DEF TabsInv

LEMMA RenderTabsStep ==
  ASSUME TabsInv, RenderTabs
  PROVE  TabsInv'
<1>1. script = "tabs" /\ tabs = Blank(groups) /\ groups' = groups /\ IsGroups(groups)
  BY DEF TabsInv, RenderTabs, InitTabs
<1>2. script' \notin {"start", "affix", "tabs"}
  BY DEF RenderTabs
<1>3. tabs' = IF DependentOf(groups) = {} THEN UpdateAllOf(groups, tabs)
              ELSE WithUrl(UpdateAllOf(groups, tabs))
  BY UpdateAllIsOf, DependentIsOf, Zenon DEF RenderTabs, InitTabs
<1>4. \/ tabs' = WithUrl(UpdateAllOf(groups, tabs))
      \/ DependentOf(groups) = {} /\ tabs' = UpdateAllOf(groups, tabs)
  BY <1>3, Zenon
<1>5. ASSUME listening' PROVE SetUp(groups, tabs')
  <2>0. ~UpdateAllOf(groups, tabs).threw
    BY <1>5, UpdateAllIsOf, Zenon DEF RenderTabs, InitTabs
  <2>1. /\ Shape(groups, tabs)
        /\ \A g \in DOMAIN groups : tabs.selected[g] # {}
        /\ UniformOf(groups) => AllChoose(groups, tabs, 1, 0)
    BY <1>1, BlankFacts
  <2>2. /\ SetUp(groups, WithUrl(UpdateAllOf(groups, tabs)))
        /\ DependentOf(groups) = {} => SetUp(groups, UpdateAllOf(groups, tabs))
    BY <1>1, <2>0, <2>1, UpdateSetsUp
  <2> QED BY <1>4, <2>2, Zenon
<1>6. listening' => SetUp(groups', tabs')
  BY <1>1, <1>5
<1> QED BY <1>1, <1>2, <1>6, Zenon DEF TabsInv

LEMMA RecordSelectors ==
  ASSUME NEW u, NEW a, NEW b, NEW c, NEW d, NEW e,
         u = [visible |-> a, selected |-> b, selectedTabs |-> c, url |-> d, threw |-> e]
  PROVE  u.visible = a /\ u.selected = b /\ u.selectedTabs = c /\ u.url = d /\ u.threw = e
  OBVIOUS

LEMMA ClickIndependentStep ==
  ASSUME NEW gs, IsGroups(gs), NEW s, SetUp(gs, s), NEW g \in DOMAIN gs, gs[g].independent,
         NEW t \in s.visible[g], NEW u,
         u = [s EXCEPT !.selected[g] = {x \in DOMAIN gs[g].tabs :
                                          Intersect(gs[g].tabs[x].ids, gs[g].tabs[t].ids)}]
  PROVE  SetUp(gs, u)
<1> DEFINE w == {x \in DOMAIN gs[g].tabs : Intersect(gs[g].tabs[x].ids, gs[g].tabs[t].ids)}
<1>1. t \in w
  <2>1. t \in DOMAIN gs[g].tabs
    BY DEF SetUp, Shape
  <2>2. gs[g].tabs[t].ids \in Seq(STRING) /\ gs[g].tabs[t].ids # <<>>
    BY <2>1, TabsOf
  <2>3. 1 \in DOMAIN gs[g].tabs[t].ids
    BY <2>2
  <2>4. gs[g].tabs[t].ids[1] \in ToSet(gs[g].tabs[t].ids)
    BY <2>3, Zenon DEF ToSet
  <2>5. Intersect(gs[g].tabs[t].ids, gs[g].tabs[t].ids)
    BY <2>4 DEF Intersect
  <2> QED BY <2>1, <2>5
<1>2. u = [s EXCEPT !.selected[g] = w]
  OBVIOUS
<1> HIDE DEF w
<1>3. s = [visible |-> s.visible, selected |-> s.selected, selectedTabs |-> s.selectedTabs,
           url |-> s.url, threw |-> s.threw] /\ DOMAIN s.selected = DOMAIN gs
  BY Zenon DEF SetUp, Shape
<1>4. u = [visible |-> s.visible, selected |-> [s.selected EXCEPT ![g] = w],
           selectedTabs |-> s.selectedTabs, url |-> s.url, threw |-> s.threw]
  BY <1>2, <1>3
<1>5. /\ u.visible = s.visible /\ u.selectedTabs = s.selectedTabs /\ u.url = s.url
      /\ u.threw = s.threw /\ u.selected = [s.selected EXCEPT ![g] = w]
  BY <1>4, RecordSelectors
<1>6. u.selected[g] = w /\ \A h \in DOMAIN gs \ {g} : u.selected[h] = s.selected[h]
  BY <1>3, <1>5
<1>7. Shape(gs, u)
  <2>1. u = [visible |-> u.visible, selected |-> u.selected, selectedTabs |-> u.selectedTabs,
             url |-> u.url, threw |-> u.threw]
    BY <1>4
  <2>2. u.selected = [h \in DOMAIN gs |-> u.selected[h]]
    BY <1>3, <1>5
  <2> QED BY <1>5, <2>1, <2>2, Zenon DEF Shape, SetUp
<1>8. \A h \in DependentOf(gs) : h \in DOMAIN gs \ {g}
  BY DEF DependentOf
<1>9. \A h \in DOMAIN gs : h \notin DependentOf(gs) => u.selected[h] # {}
  BY <1>1, <1>6 DEF SetUp
<1>10. ~u.threw => \A h \in DependentOf(gs) : Shows(u, h)
  BY <1>5, <1>6, <1>8, Zenon DEF SetUp, Shows
<1>12. \A h \in DependentOf(gs) : Settled(u, h)
  BY <1>5, <1>6, <1>8, Zenon DEF SetUp, Settled
<1>13. AgreeUpTo(gs, u, Len(gs))
  <2>1. \A h \in DependentOf(gs) : u.selected[h] = s.selected[h]
    BY <1>6, <1>8
  <2>2. AgreeUpTo(gs, s, Len(gs)) /\ u.threw = s.threw
    BY <1>5, Zenon DEF SetUp
  <2> QED BY <2>1, <2>2, Zenon DEF AgreeUpTo
<1>11. ChoosesOne(gs, u)
  <2>1. ASSUME NEW x, AllChoose(gs, s, x, Len(gs)) PROVE AllChoose(gs, u, x, Len(gs))
    BY <1>5, <1>6, <1>8, <2>1, Zenon DEF AllChoose
  <2> QED BY <1>5, <2>1, Zenon DEF SetUp, ChoosesOne
<1> QED BY <1>7, <1>9, <1>10, <1>11, <1>12, <1>13, Zenon DEF SetUp

LEMMA ResetInRecord ==
  ASSUME NEW s, NEW a, NEW b, NEW c, NEW d, NEW e, NEW v,
         s = [visible |-> a, selected |-> b, selectedTabs |-> c, url |-> d, threw |-> e]
  PROVE  [s EXCEPT !.threw = v] =
         [visible |-> a, selected |-> b, selectedTabs |-> c, url |-> d, threw |-> v]
  OBVIOUS

\* What a choice leaves of the page, and of a list with one id.
Chosen(gs, s, u, id) ==
  /\ Shape(gs, u)
  /\ u.visible = s.visible /\ u.selected = s.selected /\ ~u.threw
  /\ \A x : s.selectedTabs = <<x>> => u.selectedTabs = <<id>>

LEMMA ChooseFacts ==
  ASSUME NEW gs, NEW s, Shape(gs, s), NEW previous, NEW id, id \in STRING
  PROVE  Chosen(gs, s, Choose([s EXCEPT !.threw = FALSE], previous, id), id)
<1> DEFINE c == [s EXCEPT !.threw = FALSE]
           u == Choose(c, previous, id)
           n(q) == SelectInSeq(q, LAMBDA x : x = previous)
           chosen(q) == IF n(q) > 0 THEN [q EXCEPT ![n(q)] = id]
                        ELSE IF q = <<>> THEN <<id>> ELSE [q EXCEPT ![Len(q)] = id]
<1>1. s = [visible |-> s.visible, selected |-> s.selected, selectedTabs |-> s.selectedTabs,
           url |-> s.url, threw |-> s.threw]
  BY Zenon DEF Shape
<1>2. c = [visible |-> s.visible, selected |-> s.selected, selectedTabs |-> s.selectedTabs,
           url |-> s.url, threw |-> FALSE]
  <2> DEFINE false == FALSE
  <2>1. [s EXCEPT !.threw = false] =
          [visible |-> s.visible, selected |-> s.selected, selectedTabs |-> s.selectedTabs,
           url |-> s.url, threw |-> false]
    <3> HIDE DEF false
    <3> QED BY <1>1, ResetInRecord
  <2> QED BY <2>1
<1>3. u = [c EXCEPT !.selectedTabs = chosen(c.selectedTabs)]
  BY Zenon DEF Choose
<1>4. c.selectedTabs = s.selectedTabs
  BY <1>2
<1>5. ASSUME NEW x
      PROVE  chosen(<<x>>) = <<id>>
  <2>1. Len(<<x>>) = 1 /\ <<x>> # <<>> /\ [<<x>> EXCEPT ![1] = id] = <<id>>
    BY OneReplaced, Zenon
  <2>2. n(<<x>>) \in {0, 1}
    <3> DEFINE I == {i \in 1..Len(<<x>>) : <<x>>[i] = previous}
    <3>1. n(<<x>>) = IF I # {} THEN Min(I) ELSE 0
      BY Zenon DEF SelectInSeq
    <3>2. I \in SUBSET Nat /\ I \subseteq {1}
      BY <2>1
    <3>3. I # {} => Min(I) \in I
      BY <3>2, MinOf
    <3> HIDE DEF I
    <3> QED BY <3>1, <3>2, <3>3
  <2>3. CASE n(<<x>>) = 0
    BY <2>1, <2>3
  <2>4. CASE n(<<x>>) = 1
    BY <2>1, <2>4
  <2> HIDE DEF n
  <2> QED BY <2>2, <2>3, <2>4
<1>11. ASSUME NEW q \in Seq(STRING)
       PROVE  chosen(q) \in Seq(STRING)
  <2>1. PICK m : m = n(q)
    OBVIOUS
  <2>2. chosen(q) = IF m > 0 THEN [q EXCEPT ![m] = id]
                    ELSE IF q = <<>> THEN <<id>> ELSE [q EXCEPT ![Len(q)] = id]
    <3> HIDE DEF n
    <3> QED BY <2>1
  <2> HIDE DEF chosen, n
  <2>3. /\ [q EXCEPT ![m] = id] \in Seq(STRING) /\ [q EXCEPT ![Len(q)] = id] \in Seq(STRING)
        /\ <<id>> \in Seq(STRING)
    BY ListsOf, Zenon
  <2> QED BY <2>2, <2>3, Zenon
<1> HIDE DEF c, chosen
<1>6. u = [visible |-> s.visible, selected |-> s.selected,
           selectedTabs |-> chosen(c.selectedTabs), url |-> s.url, threw |-> FALSE]
  BY <1>2, <1>3
<1> HIDE DEF u
<1>7. /\ u.visible = s.visible /\ u.selected = s.selected
      /\ u.selectedTabs = chosen(c.selectedTabs) /\ u.url = s.url /\ u.threw = FALSE
  BY <1>6, RecordSelectors
<1>8. Shape(gs, u)
  <2>1. u = [visible |-> u.visible, selected |-> u.selected, selectedTabs |-> u.selectedTabs,
             url |-> u.url, threw |-> u.threw]
    BY <1>6, <1>7, Zenon
  <2>2. u.threw \in BOOLEAN /\ u.selectedTabs \in Seq(STRING)
    BY <1>4, <1>7, <1>11 DEF Shape
  <2> QED BY <1>7, <2>1, <2>2, Zenon DEF Shape
<1>9. \A x : s.selectedTabs = <<x>> => u.selectedTabs = <<id>>
  BY <1>4, <1>5, <1>7, Zenon
<1>10. ~u.threw
  BY <1>7
<1> QED BY <1>7, <1>8, <1>9, <1>10, Zenon DEF u, c, Chosen

LEMMA ClickOtherStep ==
  ASSUME NEW gs, IsGroups(gs), NEW s, SetUp(gs, s), NEW g \in DependentOf(gs),
         NEW t \in s.visible[g], NEW previous
  PROVE  SetUp(gs, WithUrl(UpdateAllOf(gs,
           Choose([s EXCEPT !.threw = FALSE], previous, gs[g].tabs[t].ids[1]))))
<1> DEFINE id == gs[g].tabs[t].ids[1]
           u == Choose([s EXCEPT !.threw = FALSE], previous, id)
<1>1. Shape(gs, s)
  BY DEF SetUp
<1>0. id \in STRING
  <2>1. g \in DOMAIN gs /\ t \in DOMAIN gs[g].tabs
    BY <1>1 DEF DependentOf, Shape
  <2> QED BY <2>1, FirstId
<1>2. /\ Shape(gs, u)
      /\ u.visible = s.visible /\ u.selected = s.selected /\ ~u.threw
      /\ \A x : s.selectedTabs = <<x>> => u.selectedTabs = <<id>>
  <2>1. Chosen(gs, s, u, id)
    <3> HIDE DEF id
    <3> QED BY <1>0, <1>1, ChooseFacts
  <2> HIDE DEF u
  <2> QED BY <2>1, Zenon DEF Chosen
<1> HIDE DEF u
<1>3. \A h \in DOMAIN gs : h \notin DependentOf(gs) => u.selected[h] # {}
  BY <1>2, Zenon DEF SetUp
<1>5. \A h \in DependentOf(gs) : Settled(u, h)
  BY <1>2, Zenon DEF SetUp, Settled
<1>4. UniformOf(gs) /\ DependentOf(gs) # {} => \E x : AllChoose(gs, u, x, 0)
  <2> SUFFICES ASSUME UniformOf(gs), DependentOf(gs) # {} PROVE AllChoose(gs, u, t, 0)
    BY Zenon
  <2>0. g \in DOMAIN gs /\ DependentOf(gs) \subseteq DOMAIN gs /\ DOMAIN gs = 1..Len(gs)
        /\ Len(gs) \in Nat
    BY DEF IsGroups, DependentOf
  <2>1. PICK x : AllChoose(gs, s, x, Len(gs))
    BY Zenon DEF SetUp, ChoosesOne
  <2>2. g <= Len(gs) /\ \A h \in DependentOf(gs) : ~(h <= 0)
    BY <2>0
  <2>3. \E y : s.selectedTabs = <<y>>
    BY <2>1, <2>2, Zenon DEF AllChoose
  <2>4. u.selectedTabs = <<id>>
    BY <1>2, <2>3, Zenon
  <2>5. t \in DOMAIN gs[g].tabs
    BY <1>1, <2>0 DEF Shape
  <2>6. \A h \in DependentOf(gs) : gs[h].tabs = gs[g].tabs
    BY Zenon DEF UniformOf, PlainOf, AlikeOf
  <2>7. \A h \in DependentOf(gs) :
          t \in DOMAIN gs[h].tabs /\ u.selectedTabs = <<gs[h].tabs[t].ids[1]>>
    BY <2>4, <2>5, <2>6
  <2> HIDE DEF id
  <2> QED BY <1>2, <2>2, <2>7, Zenon DEF AllChoose
<1> QED BY <1>2, <1>3, <1>4, <1>5, UpdateSetsUp DEF u, id

LEMMA TabbingStep ==
  ASSUME TabsInv, Tabbing
  PROVE  TabsInv'
<1>1. /\ groups' = groups /\ listening' = listening /\ listening
      /\ script' = script /\ script \notin {"start", "affix", "tabs"}
  BY DEF Tabbing, Idle, HandleClick
<1>2. IsGroups(groups) /\ SetUp(groups, tabs)
  BY <1>1 DEF TabsInv
<1>3. PICK g \in DOMAIN groups : \E t \in tabs.visible[g] :
        ClickIndependent(g, t) \/ ClickChosen(g, t) \/ ClickOther(g, t)
  BY DEF Tabbing, HandleClick
<1>4. PICK t \in tabs.visible[g] :
        ClickIndependent(g, t) \/ ClickChosen(g, t) \/ ClickOther(g, t)
  BY <1>3
<1>5. CASE ClickIndependent(g, t)
  <2>1. /\ groups[g].independent
        /\ tabs' = [tabs EXCEPT !.selected[g] =
             {u \in DOMAIN groups[g].tabs : Intersect(groups[g].tabs[u].ids, groups[g].tabs[t].ids)}]
    BY <1>5, Zenon DEF ClickIndependent, Tabs, Ids
  <2>2. SetUp(groups, tabs')
    BY <1>2, <2>1, ClickIndependentStep
  <2> QED BY <1>1, <1>2, <2>2, Zenon DEF TabsInv
<1>6. CASE UNCHANGED tabs
  BY <1>1, <1>2, <1>6, Zenon DEF TabsInv
<1>7. CASE ClickOther(g, t) /\ tabs' # tabs
  <2> DEFINE previous == Ids(g, Min(tabs.selected[g]))[1]
  <2>1. g \in DependentOf(groups)
    BY <1>7 DEF ClickOther, DependentOf
  <2>2. tabs' = WithUrl(UpdateAll(Choose([tabs EXCEPT !.threw = FALSE], previous, Ids(g, t)[1])))
    BY <1>7, Zenon DEF ClickOther
  <2>3. tabs' = WithUrl(UpdateAllOf(groups,
                  Choose([tabs EXCEPT !.threw = FALSE], previous, groups[g].tabs[t].ids[1])))
    BY <2>2, UpdateAllIsOf, Zenon DEF Ids
  <2> HIDE DEF previous
  <2>4. SetUp(groups, tabs')
    BY <1>2, <2>1, <2>3, ClickOtherStep
  <2> QED BY <1>1, <1>2, <2>4, Zenon DEF TabsInv
<1> QED BY <1>4, <1>5, <1>6, <1>7, Zenon DEF ClickChosen

LEMMA TabsStep == TabsInv /\ [Next]_vars => TabsInv'
<1> SUFFICES ASSUME TabsInv, [Next]_vars PROVE TabsInv'
  OBVIOUS
<1>1. CASE Start
  <2>1. UNCHANGED tabGroups /\ script = "start"
    BY <1>1 DEF Start
  <2> QED BY <2>1, TabsStay
<1>2. CASE RenderAffix
  <2>1. UNCHANGED tabGroups /\ script = "affix"
    BY <1>2 DEF RenderAffix
  <2> QED BY <2>1, TabsStay
<1>3. CASE Navigating \/ Searching
  <2>1. UNCHANGED tabGroups /\ UNCHANGED script
    BY <1>3 DEF Navigating, Searching, Idle
  <2> QED BY <2>1, TabsStay
<1>4. CASE UNCHANGED vars
  <2>1. UNCHANGED tabGroups /\ UNCHANGED script
    BY <1>4 DEF vars
  <2> QED BY <2>1, TabsStay
<1> QED BY <1>1, <1>2, <1>3, <1>4, RenderTabsStep, TabbingStep DEF Next

LEMMA TabsInvRight == TabsInv => TabsRight
<1> SUFFICES ASSUME TabsInv, listening PROVE TabsRight
  BY Zenon DEF TabsRight
<1> DEFINE gs == groups
<1>1. SetUp(gs, tabs) /\ IsGroups(gs)
  BY DEF TabsInv
<1>2. Dependent = DependentOf(gs) /\ (Uniform <=> UniformOf(gs))
  BY DependentIsOf, UniformIsOf
<1>6. \A g \in DependentOf(gs) : tabs.selected[g] \subseteq tabs.visible[g]
  BY <1>1, Zenon DEF SetUp, Settled
<1>7. \A g \in DOMAIN gs : tabs.selected[g] = {} => tabs.visible[g] = {}
  BY <1>1, Zenon DEF SetUp, Settled
<1>3. ~tabs.threw => \A g \in DependentOf(gs) : Shows(tabs, g)
  BY <1>1, Zenon DEF SetUp
<1>4. ~tabs.threw => \A g \in DOMAIN gs : tabs.selected[g] # {}
  BY <1>1, <1>3, Zenon DEF SetUp, Shows
<1>8. \A g, h \in DependentOf(gs) :
        /\ ~tabs.threw /\ g < h /\ Plain(g) /\ Alike(g, h)
        /\ \A k \in DependentOf(gs) : g < k /\ k < h => Alike(g, k) \/ Apart(g, k)
        => tabs.selected[g] = tabs.selected[h]
  <2>1. \A g, h \in DependentOf(gs) : h <= Len(gs)
    BY <1>1 DEF IsGroups, DependentOf
  <2>2. AgreeUpTo(gs, tabs, Len(gs))
    BY <1>1, Zenon DEF SetUp
  <2> QED BY <2>1, <2>2, PlainIsOf, Zenon DEF AgreeUpTo
<1>5. ASSUME UniformOf(gs), NEW g \in DependentOf(gs), NEW h \in DependentOf(gs)
      PROVE  \E t \in Tabs(g) : /\ tabs.selected[g] = {t} /\ tabs.selected[h] = {t}
                                /\ tabs.url = <<Ids(g, t)[1]>>
  <2>1. PICK t : AllChoose(gs, tabs, t, Len(gs)) /\ tabs.url = tabs.selectedTabs
    BY <1>1, <1>5, Zenon DEF SetUp, ChoosesOne
  <2>2. g <= Len(gs) /\ h <= Len(gs)
    BY <1>1 DEF IsGroups, DependentOf
  <2>3. /\ t \in DOMAIN gs[g].tabs
        /\ tabs.selectedTabs = <<gs[g].tabs[t].ids[1]>>
        /\ tabs.selected[g] = {t} /\ tabs.selected[h] = {t}
    BY <2>1, <2>2, Zenon DEF AllChoose
  <2> QED BY <2>1, <2>3, Zenon DEF Tabs, Ids
<1>9. Uniform => \A g, h \in Dependent : \E t \in Tabs(g) :
        /\ tabs.selected[g] = {t} /\ tabs.selected[h] = {t}
        /\ tabs.url = <<Ids(g, t)[1]>>
  BY <1>2, <1>5, Zenon
<1> QED BY <1>2, <1>4, <1>6, <1>7, <1>8, <1>9, Zenon DEF TabsRight

\* initTabs and handleClick of docfx.js: for all groups of tabs, however many tabs and
\* ids and conditions they have, and every sequence of clicks, a section of a group that
\* follows the common choice is shown only with its tab, and a group with a tab that can
\* be seen shows a section, also after an exception in a handler.  When the last handler
\* ended without one, every group shows a section; two groups without conditions, of
\* which no two tabs share an id, show the same sections when they offer the same and each
\* group between them offers the same too or has no id of theirs; and when all groups are such,
\* each shows one section, which the address names.
THEOREM TabsAlwaysRight == Spec => []TabsRight
<1>1. Init => TabsInv
  BY TabsInitially
<1>2. TabsInv /\ [Next]_vars => TabsInv'
  BY TabsStep
<1>3. TabsInv => TabsRight
  BY TabsInvRight
<1> QED BY <1>1, <1>2, <1>3, PTL DEF Spec

================================================================================
