------------------------------- MODULE Outline -------------------------------
(***************************************************************************)
(* getHierarchy of docfx.js: the outline "In This Article" is built from   *)
(* the headers of a page, in one pass with a stack of frames.              *)
(*                                                                         *)
(* An item of the outline is named by the number of its header.            *)
(***************************************************************************)
EXTENDS Integers, SequencesExt

CONSTANT
  HeaderLists   \* the headers that pages have: their levels, and whether they have an id

ASSUME HeadersAssumption == HeaderLists \subseteq Seq([level : 1..4, id : BOOLEAN])

VARIABLES
  headers,       \* those of this page
  header,        \* the header that each() has come to
  stack,         \* frames: the level of their headers, and the siblings
  items,         \* for each header the items below it
  outlineState,  \* "building", "done", or "threw"
  hierarchy      \* what getHierarchy returns

outline == <<headers, header, stack, items, outlineState, hierarchy>>

\* The outline of a page with the headers `hs` is begun.
OutlineInit(hs) ==
  /\ headers = hs
  /\ header = 1
  /\ stack = <<>>
  /\ items = [i \in DOMAIN headers |-> <<>>]
  /\ outlineState = "building"
  /\ hierarchy = <<>>

Top == stack[Len(stack)]
LastSibling(k) == stack[k].siblings[Len(stack[k].siblings)]
Level == headers[header].level

AtHeader ==
  /\ outlineState = "building"
  /\ header <= Len(headers)
AtEnd ==
  /\ outlineState = "building"
  /\ header > Len(headers)

\* A header without an id is left out.
SkipHeader ==
  /\ AtHeader
  /\ ~headers[header].id
  /\ header' = header + 1
  /\ UNCHANGED <<headers, stack, items, outlineState, hierarchy>>

\* A first header, or one of a level below the frame's, opens a frame.
PushFrame ==
  /\ AtHeader
  /\ headers[header].id
  /\ stack # <<>> => Level > Top.type
  /\ stack' = Append(stack, [type |-> Level, siblings |-> <<header>>])
  /\ header' = header + 1
  /\ UNCHANGED <<headers, items, outlineState, hierarchy>>

PushSibling ==
  /\ AtHeader
  /\ headers[header].id
  /\ stack # <<>> /\ Level = Top.type
  /\ stack' = [stack EXCEPT ![Len(stack)].siblings = Append(@, header)]
  /\ header' = header + 1
  /\ UNCHANGED <<headers, items, outlineState, hierarchy>>

\* Mutant of Attached: the items go to the first of the siblings.
AttachedToFirst ==
  LET parent == stack[Len(stack) - 1].siblings[1]
  IN [items EXCEPT ![parent] = @ \o Top.siblings]

\* The siblings of the last frame go below the last item of the frame before.
Attached == [items EXCEPT ![LastSibling(Len(stack) - 1)] = @ \o Top.siblings]

\* buildParent; with one frame only there is none to attach its items to.
BuildParent ==
  IF Len(stack) > 1
  THEN /\ items' = Attached
       /\ stack' = SubSeq(stack, 1, Len(stack) - 1)
       /\ UNCHANGED <<headers, header, outlineState, hierarchy>>
  ELSE /\ outlineState' = "threw"
       /\ stack' = <<>>
       /\ UNCHANGED <<headers, header, items, hierarchy>>

\* A header of a level above the frame's pops frames until it fits.
PopFrame ==
  /\ AtHeader
  /\ headers[header].id
  /\ stack # <<>> /\ Level < Top.type
  /\ BuildParent

\* After the last header all frames but one are popped.
Collapse ==
  /\ AtEnd
  /\ Len(stack) > 1
  /\ BuildParent

\* Mutant of Return: the first topmost header is dumped though it is not the only one.
ReturnFirst ==
  /\ AtEnd
  /\ Len(stack) <= 1
  /\ hierarchy' = IF stack = <<>> THEN <<>> ELSE items[Top.siblings[1]]
  /\ outlineState' = "done"
  /\ UNCHANGED <<headers, header, stack, items>>

\* A single topmost header is left out of the outline.
Return ==
  /\ AtEnd
  /\ Len(stack) <= 1
  /\ hierarchy' = IF stack = <<>> THEN <<>>
                  ELSE IF Len(Top.siblings) = 1 THEN items[Top.siblings[1]]
                  ELSE Top.siblings
  /\ outlineState' = "done"
  /\ UNCHANGED <<headers, header, stack, items>>

OutlineNext ==
  SkipHeader \/ PushFrame \/ PushSibling \/ PopFrame \/ Collapse \/ Return

OutlineSpec == (\E hs \in HeaderLists : OutlineInit(hs)) /\ [][OutlineNext]_outline

-----------------------------------------------------------------------------
\* Header `p` is the nearest one before header `c` that ranks higher.
Nests(p, c) ==
  /\ p < c
  /\ headers[p].id /\ headers[c].id
  /\ headers[p].level < headers[c].level
  /\ \A q \in p + 1..c - 1 : headers[q].id => headers[q].level >= headers[c].level

\* Frames are pushed and popped in many orders, and items are attached when
\* their frame is popped, to whatever is then last below it.  Each item comes
\* below the nearest header before it that ranks higher.
OutlineNests ==
  \A p \in DOMAIN items : \A i \in DOMAIN items[p] : Nests(p, items[p][i])

\* What the script shows are the items of `hierarchy`, below each of them its own
\* items, and so on.  When it is returned, each header with an id stands in one place
\* of these rows and in one only, in the order of the page, but for a header that is
\* the only topmost one, which is left out ("dump it").  A page on which a header
\* ranks above the first one has no outline: there, and only there, the script ends
\* in an exception.
OutlineComplete ==
  LET with == {i \in DOMAIN headers : headers[i].id}
      topmost == {i \in with : \A j \in with : headers[i].level <= headers[j].level}
      shown == IF \E i \in with : topmost = {i} THEN with \ topmost ELSE with
      rows == {0} \cup shown
      Row(p) == IF p = 0 THEN hierarchy ELSE items[p]
      ranksAbove == \E i, j \in with : /\ \A k \in with : i <= k
                                       /\ headers[j].level < headers[i].level
  IN /\ outlineState = "done" =>
          /\ ~ranksAbove
          /\ \A p \in rows : \A i, j \in DOMAIN Row(p) : i < j => Row(p)[i] < Row(p)[j]
          /\ \A p, q \in rows : p # q => ToSet(Row(p)) \cap ToSet(Row(q)) = {}
          /\ UNION {ToSet(Row(p)) : p \in rows} = shown
     /\ outlineState = "threw" => ranksAbove

=============================================================================
