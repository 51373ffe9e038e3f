------------------------------ MODULE TabGroups ------------------------------
(***************************************************************************)
(* renderTabs of docfx.js: groups of tabs with a section each.  A choice   *)
(* in one group is a choice in all that have its id, and a tab may depend  *)
(* on a choice made elsewhere.                                             *)
(*                                                                         *)
(* A group is a record of whether it is independent and of its tabs, in    *)
(* their order; a tab has its ids, and a condition or none.                *)
(***************************************************************************)
EXTENDS Integers, SequencesExt

VARIABLES
  groups,        \* those of the page, constant
  tabs,          \* what the handler of clicks sees and sets, see Blank
  listening      \* the handler of clicks is there

tabGroups == <<groups, tabs, listening>>

None == "none"

\* A group has a tab, and `data-tab` of a tab, split, has an id.
TabRecord == [ids : Seq(STRING) \ {<<>>}, condition : STRING]
IsGroups(gs) == gs \in Seq([independent : BOOLEAN, tabs : Seq(TabRecord) \ {<<>>}])

Dependent == {g \in DOMAIN groups : ~groups[g].independent}
Tabs(g) == DOMAIN groups[g].tabs
Ids(g, t) == groups[g].tabs[t].ids
Intersect(a, b) == ToSet(a) \cap ToSet(b) # {}

\* The page as it is loaded: the first section of each group is shown, and tabs
\* with a condition are hidden.  `threw` is an exception in a handler, and
\* `url` is what the address says of the tabs.
Blank(gs) ==
  [visible  |-> [g \in DOMAIN gs |-> {t \in DOMAIN gs[g].tabs : gs[g].tabs[t].condition = None}],
   selected |-> [g \in DOMAIN gs |-> {1} \cap DOMAIN gs[g].tabs],
   selectedTabs |-> <<>>, url |-> <<>>, threw |-> FALSE]

TabsInit(gs) ==
  /\ groups = gs
  /\ tabs = Blank(gs)
  /\ listening = FALSE

\* The ids chosen but for those of a tab, each once, and of all tabs of a group.
WithoutTab(chosen, ids) ==
  LET left[n \in 0..Len(ids)] ==
        IF n = 0 THEN chosen ELSE RemoveFirst(left[n - 1], ids[n])
  IN left[Len(ids)]

WithoutGroup(chosen, g) ==
  LET left[n \in 0..Len(groups[g].tabs)] ==
        IF n = 0 THEN chosen ELSE WithoutTab(left[n - 1], Ids(g, n))
  IN left[Len(groups[g].tabs)]

\* updateVisibilityAndSelection of a group: what it shows is chosen by
\* selectedTabs.  A group of which nothing is chosen gives up its ids, and
\* chooses its first visible tab; one without a visible tab ends in an exception.
UpdateVisibilityAndSelection(s, g) ==
  LET chosen == ToSet(s.selectedTabs)
      visible == {t \in Tabs(g) : groups[g].tabs[t].condition \in chosen \cup {None}}
      selected == {t \in visible : Intersect(s.selectedTabs, Ids(g, t))}
      first == Min(visible)
      given == WithoutGroup(s.selectedTabs, g)
      seen == [s EXCEPT !.visible[g] = visible]
  IN IF s.threw THEN s
     ELSE IF selected # {} THEN [seen EXCEPT !.selected[g] = selected]
     ELSE IF visible = {}
     THEN [seen EXCEPT !.selected[g] = {}, !.selectedTabs = given, !.threw = TRUE]
     ELSE [seen EXCEPT !.selected[g] = {first},
                       !.selectedTabs = Append(given, Ids(g, first)[1])]

\* Each group that follows the common choice, in their order.
UpdateAll(s) ==
  LET done[n \in 0..Len(groups)] ==
        IF n = 0 THEN s
        ELSE IF n \in Dependent THEN UpdateVisibilityAndSelection(done[n - 1], n)
        ELSE done[n - 1]
  IN done[Len(groups)]

\* updateTabsQueryStringParam
WithUrl(s) == IF s.threw THEN s ELSE [s EXCEPT !.url = s.selectedTabs]

\* initTabs: the query string that it reads is always empty, so no tab is
\* selected from the address.
InitTabs ==
  LET s == UpdateAll(tabs)
  IN /\ tabs' = IF Dependent = {} THEN s ELSE WithUrl(s)
     /\ listening' = ~s.threw
     /\ UNCHANGED groups

\* Mutant of Choose: the new id comes behind the one that it replaces.
ChooseToo(s, previous, id) == [s EXCEPT !.selectedTabs = Append(@, id)]

\* splice(indexOf(previous), 1, id): an index of -1 is that of the last element.
Choose(s, previous, id) ==
  LET n == SelectInSeq(s.selectedTabs, LAMBDA x : x = previous)
  IN [s EXCEPT !.selectedTabs =
        IF n > 0 THEN [@ EXCEPT ![n] = id]
        ELSE IF @ = <<>> THEN <<id>> ELSE [@ EXCEPT ![Len(@)] = id]]

\* handleClick, on a tab that can be seen.
ClickIndependent(g, t) ==
  /\ groups[g].independent
  /\ tabs' = [tabs EXCEPT !.selected[g] = {u \in Tabs(g) : Intersect(Ids(g, u), Ids(g, t))}]

ClickChosen(g, t) ==
  /\ ~groups[g].independent
  /\ Intersect(tabs.selectedTabs, Ids(g, t))
  /\ UNCHANGED tabs

ClickOther(g, t) ==
  /\ ~groups[g].independent
  /\ ~Intersect(tabs.selectedTabs, Ids(g, t))
  /\ IF tabs.selected[g] = {}
     THEN UNCHANGED tabs    \* an exception: there is no previous tab
     ELSE LET previous == Ids(g, Min(tabs.selected[g]))[1]
          IN tabs' = WithUrl(UpdateAll(
                       Choose([tabs EXCEPT !.threw = FALSE], previous, Ids(g, t)[1])))

HandleClick ==
  /\ listening
  /\ \E g \in DOMAIN groups : \E t \in tabs.visible[g] :
       ClickIndependent(g, t) \/ ClickChosen(g, t) \/ ClickOther(g, t)
  /\ UNCHANGED <<groups, listening>>

-----------------------------------------------------------------------------
\* No condition hides a tab of a group, and no two of its tabs share an id.
Plain(g) == \A t, u \in Tabs(g) :
  groups[g].tabs[t].condition = None /\ (Intersect(Ids(g, t), Ids(g, u)) => t = u)

Alike(g, h) == groups[g].tabs = groups[h].tabs
Apart(g, h) == \A t \in Tabs(g), u \in Tabs(h) : ~Intersect(Ids(g, t), Ids(h, u))
Uniform == \A g, h \in Dependent : Plain(g) /\ Alike(g, h)

\* The choice is one list for all groups, which each click and each group's update
\* change under the others.
\*   - A section of a group that follows it is shown only with its tab, and a group
\*     that can be seen shows a section; also when a handler ended in an exception.
\*   - When none did, every group shows a section, and two plain groups that offer the
\*     same show the same sections, if what stands between them offers the same too or
\*     has no id of theirs.  Other groups between them may change the choice when the
\*     first is updated already: of <A, B>, <B>, <A, B> the first shows A and the last
\*     A and B.
\*   - When all are plain and offer the same, each shows one section, and the address
\*     names its tab and no other.
TabsRight ==
  listening =>
    /\ \A g \in Dependent : tabs.selected[g] \subseteq tabs.visible[g]
    /\ \A g \in DOMAIN groups : tabs.selected[g] = {} => tabs.visible[g] = {}
    /\ ~tabs.threw =>
         /\ \A g \in DOMAIN groups : tabs.selected[g] # {}
         /\ \A g, h \in Dependent :
              /\ g < h /\ Plain(g) /\ Alike(g, h)
              /\ \A k \in Dependent : g < k /\ k < h => Alike(g, k) \/ Apart(g, k)
              => tabs.selected[g] = tabs.selected[h]
         /\ Uniform => \A g, h \in Dependent : \E t \in Tabs(g) :
              /\ tabs.selected[g] = {t} /\ tabs.selected[h] = {t}
              /\ tabs.url = <<Ids(g, t)[1]>>

=============================================================================
