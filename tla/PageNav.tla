------------------------------- MODULE PageNav -------------------------------
(***************************************************************************)
(* renderNavbar, renderSidebar and renderBreadcrumb of docfx.js: the       *)
(* navigation bar and the table of contents are fetched, each when it      *)
(* comes, and the table can be filtered and unfolded.                      *)
(*                                                                         *)
(* The table of contents is a sequence of entries in the order of the      *)
(* document: its parent entry or 0, its title, a sequence of characters,   *)
(* and whether it links to this page.                                      *)
(***************************************************************************)
EXTENDS Integers, SequencesExt

CONSTANTS
  Filters,   \* what a reader may type into the filter
  Lower(_),  \* a character in lower case
  MaxGets    \* the bound on how often each file is fetched

VARIABLES
  site,         \* constant: what the page says and what the server has
  navbar,       \* the navigation bar: "empty", "there"
  sidetoc,      \* the table of contents: "empty", "there"
  navGets,      \* fetches of the navigation bar that came
  tocGets,      \* fetches of the table of contents that came
  pending,      \* the files that are being fetched
  keyHandlers,  \* how many handlers the search box has
  activeEntries,\* the entries of the table marked active
  unfolded,     \* those marked `in`
  shown,        \* those marked `show`
  hidden,       \* those marked `hide`
  filtered,     \* those marked `filtered`
  filter,       \* the filter that was applied last
  breadcrumb    \* where the page says that it is

nav == <<site, navbar, sidetoc, navGets, tocGets, pending, keyHandlers, activeEntries,
         unfolded, shown, hidden, filtered, filter, breadcrumb>>
marks == <<unfolded, shown, hidden, filtered, filter>>

\* Each entry stands behind the one that it is below.
IsToc(table) ==
  /\ Len(table) \in Nat
  /\ DOMAIN table = 1..Len(table)
  /\ \A e \in DOMAIN table : table[e].parent \in 0..e - 1

toc == site.toc
Entries == DOMAIN toc
Parent(e) == toc[e].parent

\* An entry and those above it, the nearest first.
Above[e \in 0..Len(toc)] == IF e = 0 THEN <<>> ELSE <<e>> \o Above[Parent(e)]
Ancestors(e) == ToSet(Tail(Above[e]))
Below(e) == {d \in Entries : e \in Ancestors(d)}
Leaves == {e \in Entries : Below(e) = {}}

NavInit(s) ==
  /\ site = s
  /\ navbar = IF s.navStatic THEN "there" ELSE "empty"
  /\ sidetoc = "empty"
  /\ navGets = 0 /\ tocGets = 0
  /\ pending = {}
  /\ keyHandlers = 0
  /\ activeEntries = {} /\ unfolded = {}
  /\ shown = {} /\ hidden = {} /\ filtered = {}
  /\ filter = <<>>
  /\ breadcrumb = <<>>

\* The entries of a set in the order of the document, as jQuery gives them.
InDocument(entries) ==
  LET upTo[n \in 0..Len(toc)] ==
        IF n = 0 THEN <<>>
        ELSE IF n \in entries THEN Append(upTo[n - 1], n) ELSE upTo[n - 1]
  IN upTo[Len(toc)]

\* renderBreadcrumb: the active links of the navigation bar, then those of the
\* table.
Breadcrumb(bar, entries) ==
  (IF bar = "there" THEN site.navActive ELSE <<>>) \o InDocument(entries)

\* The script calls renderNavbar and renderSidebar.
RenderNav ==
  /\ pending' = (IF navbar = "empty" /\ site.navrel THEN {"navbar"} ELSE {}) \cup
                (IF site.tocrel THEN {"toc"} ELSE {})
  /\ breadcrumb' = IF navbar = "there" THEN Breadcrumb(navbar, {}) ELSE <<>>
  /\ UNCHANGED <<site, navbar, sidetoc, navGets, tocGets, keyHandlers, activeEntries, marks>>

\* The answer to loadNavbar.  It opens the search box once more, and when it has
\* no list it is asked for again.
NavbarComes ==
  /\ "navbar" \in pending
  /\ navGets < MaxGets
  /\ navGets' = navGets + 1
  /\ keyHandlers' = IF site.rel THEN keyHandlers + 1 ELSE keyHandlers
  /\ IF site.navHasList
     THEN /\ navbar' = "there"
          /\ pending' = pending \ {"navbar"}
          /\ breadcrumb' = Breadcrumb("there", activeEntries)
     ELSE UNCHANGED <<navbar, pending, breadcrumb>>
  /\ UNCHANGED <<site, sidetoc, tocGets, activeEntries, marks>>

\* $.get calls nobody when it fails.
NavbarFails ==
  /\ "navbar" \in pending
  /\ pending' = pending \ {"navbar"}
  /\ UNCHANGED <<site, navbar, sidetoc, navGets, tocGets, keyHandlers, activeEntries, marks,
                 breadcrumb>>

\* Mutant of WithParents: only the entries that link to the page.
OwnOnly(entries) == entries

\* The entries above an active one become active too.
WithParents(entries) == UNION {ToSet(Above[e]) : e \in entries}

\* The answer to loadToc.
TocComes ==
  /\ "toc" \in pending
  /\ tocGets < MaxGets
  /\ tocGets' = tocGets + 1
  /\ LET entries == WithParents({e \in Entries : toc[e].current})
     IN /\ sidetoc' = "there"
        /\ activeEntries' = entries
        /\ unfolded' = entries
        /\ breadcrumb' = Breadcrumb(navbar, entries)
  /\ pending' = pending \ {"toc"}
  /\ UNCHANGED <<site, navbar, navGets, keyHandlers, shown, hidden, filtered, filter>>

\* load calls its function on a failure as well, which asks once more.
TocFails ==
  /\ "toc" \in pending
  /\ tocGets < MaxGets
  /\ tocGets' = tocGets + 1
  /\ UNCHANGED <<site, navbar, sidetoc, navGets, pending, keyHandlers, activeEntries, marks,
                 breadcrumb>>

-----------------------------------------------------------------------------
\* A click on a stub unfolds an entry or folds it.
ToggleEntry ==
  /\ sidetoc = "there"
  /\ \E e \in Entries \ Leaves :
       unfolded' = IF e \in unfolded THEN unfolded \ {e} ELSE unfolded \cup {e}
  /\ UNCHANGED <<site, navbar, sidetoc, navGets, tocGets, pending, keyHandlers, activeEntries,
                 shown, hidden, filtered, filter, breadcrumb>>

LowerCase(s) == [i \in DOMAIN s |-> Lower(s[i])]
ContainsText(s, t) ==
  \E i \in 0..Len(s) - Len(t) : SubSeq(s, i + 1, i + Len(t)) = t

\* The title of an entry behind those of the entries above it, with dots.
FullTitle(e) ==
  FoldLeft(LAMBDA text, a : IF toc[a].title = <<>> THEN text
                            ELSE toc[a].title \o <<".">> \o text,
           toc[e].title, Tail(Above[e]))

FilterNavItem(e, val) == ContainsText(LowerCase(FullTitle(e)), LowerCase(val))

ClearFilter ==
  /\ filter' = <<>>
  /\ filtered' = {}
  /\ hidden' = {}
  /\ UNCHANGED shown

\* Mutant of Inner: an entry that is shown is not taken out of the hidden ones.
InnerStaysHidden(m, e) ==
  IF Below(e) \cap m.shown # {}
  THEN [shown |-> m.shown \cup {e}, filtered |-> m.filtered \cup {e}, hidden |-> m.hidden]
  ELSE [shown |-> m.shown \ {e}, filtered |-> m.filtered \ {e}, hidden |-> m.hidden \cup {e}]

\* An entry with others below it is shown if one of them is marked, whether in
\* this round or in one before.
Inner(m, e) ==
  IF Below(e) \cap m.shown # {}
  THEN [shown |-> m.shown \cup {e}, filtered |-> m.filtered \cup {e}, hidden |-> m.hidden \ {e}]
  ELSE [shown |-> m.shown \ {e}, filtered |-> m.filtered \ {e}, hidden |-> m.hidden \cup {e}]

\* The leaves are marked first, then the others in the order of the document.
ApplyFilter(val) ==
  LET hits == {e \in Leaves : FilterNavItem(e, val)}
      leaves == [shown |-> (shown \ Leaves) \cup hits, filtered |-> filtered,
                 hidden |-> (hidden \ Leaves) \cup (Leaves \ hits)]
      m == FoldLeft(Inner, leaves, InDocument(Entries \ Leaves))
  IN /\ filter' = val
     /\ shown' = m.shown
     /\ hidden' = m.hidden
     /\ filtered' = m.filtered

FilterToc ==
  /\ sidetoc = "there"
  /\ \E val \in Filters \ {filter} : IF val = <<>> THEN ClearFilter ELSE ApplyFilter(val)
  /\ UNCHANGED <<site, navbar, sidetoc, navGets, tocGets, pending, keyHandlers, activeEntries,
                 unfolded, breadcrumb>>

-----------------------------------------------------------------------------
\* Marks are left from one filter to the next.  After any sequence of them, a
\* leaf is hidden just when its full title does not have the filter's text, and
\* a leaf that has it can be seen: nothing above it is hidden, and all of that
\* is opened.  Without a filter nothing is hidden.
FilterRight ==
  IF filter = <<>> THEN hidden = {}
  ELSE \A e \in Leaves :
         /\ e \in hidden <=> ~FilterNavItem(e, filter)
         /\ e \notin hidden => /\ Ancestors(e) \cap hidden = {}
                               /\ Ancestors(e) \subseteq filtered

=============================================================================
