------------------------------- MODULE DocSite -------------------------------
(***************************************************************************)
(* A page of the documentation site: docfx.js from the start of its script *)
(* to what a reader does with the page.  Composes the outline, the tabs,   *)
(* the navigation and the search.                                          *)
(***************************************************************************)
EXTENDS Outline, TabGroups, PageNav, DocSearch

CONSTANT Site   \* the pages: what navigation, headers and groups of tabs they have

ASSUME SiteAssumption ==
  \A p \in Site :
    /\ p.headers \in HeaderLists
    /\ IsGroups(p.groups)
    /\ IsToc(p.nav.toc)
    /\ p.nav.navActive \in Seq(Int)    \* links are numbers, as entries are

VARIABLE script   \* where the script is: "start", "affix", "tabs", "over", "threw"

vars == <<script, outline, tabGroups, nav, search>>

Init ==
  /\ script = "start"
  /\ \E p \in Site :
       /\ OutlineInit(p.headers)
       /\ TabsInit(p.groups)
       /\ NavInit(p.nav)
  /\ SearchInit

\* enableSearch, renderNavbar, renderSidebar
Start ==
  /\ script = "start"
  /\ script' = "affix"
  /\ StartWorker(site.rel)
  /\ RenderNav
  /\ UNCHANGED <<outline, tabGroups>>

\* renderAffix; its exception ends the script.
RenderAffix ==
  /\ script = "affix"
  /\ OutlineNext
  /\ script' = CASE outlineState' = "building" -> "affix"
                 [] outlineState' = "threw" -> "threw"
                 [] OTHER -> "tabs"
  /\ UNCHANGED <<tabGroups, nav, search>>

RenderTabs ==
  /\ script = "tabs"
  /\ InitTabs
  /\ script' = IF tabs'.threw THEN "threw" ELSE "over"
  /\ UNCHANGED <<outline, nav, search>>

\* Handlers run when the script is over, whether to its end or not.
Idle == script \in {"over", "threw"} /\ UNCHANGED <<script, outline>>

Tabbing == Idle /\ HandleClick /\ UNCHANGED <<nav, search>>

Navigating ==
  /\ Idle
  /\ NavbarComes \/ NavbarFails \/ TocComes \/ TocFails \/ ToggleEntry \/ FilterToc
  /\ UNCHANGED <<tabGroups, search>>

Searching ==
  /\ Idle
  /\ FileComes \/ FileFails \/ Answer \/ IndexReady \/ QueryReady \/ PageClick
     \/ KeyUp(keyHandlers)
  /\ UNCHANGED <<tabGroups, nav>>

Next == Start \/ RenderAffix \/ RenderTabs \/ Tabbing \/ Navigating \/ Searching

\* The script runs on, messages are delivered and the worker takes them; neither
\* the reader nor the server must do anything.
Fairness ==
  /\ WF_vars(Start) /\ WF_vars(RenderAffix) /\ WF_vars(RenderTabs)
  /\ WF_vars(Idle /\ Answer /\ UNCHANGED <<tabGroups, nav>>)
  /\ WF_vars(Idle /\ (IndexReady \/ QueryReady) /\ UNCHANGED <<tabGroups, nav>>)

Spec == Init /\ [][Next]_vars /\ Fairness

-----------------------------------------------------------------------------
\* Two files come in either order, again, or fail.  Whatever came so far, the
\* breadcrumb says all that is there: the active links of the bar, then the path
\* to each entry of the table that links to the page.
BreadcrumbRight ==
  script # "start" /\ (navbar = "there" \/ sidetoc = "there") =>
    LET inBar == IF navbar = "there" THEN site.navActive ELSE <<>>
        path == SubSeq(breadcrumb, Len(inBar) + 1, Len(breadcrumb))
    IN /\ IsPrefix(inBar, breadcrumb)
       /\ \A i, j \in DOMAIN path : i < j => path[i] < path[j]
       /\ ToSet(path) = IF sidetoc = "there"
                        THEN {e \in Entries : \E c \in {e} \cup Below(e) : toc[c].current}
                        ELSE {}

=============================================================================
