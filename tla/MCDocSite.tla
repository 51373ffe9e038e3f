------------------------------ MODULE MCDocSite ------------------------------
(* Pages for each part of the script, and some that have several.            *)
EXTENDS DocSite

MCLower(c) == IF c = "B" THEN "b" ELSE c

-----------------------------------------------------------------------------
\* All lists of up to five headers, and some with headers that have no id.
Header(l, i) == [level |-> l, id |-> i]
WithIds == {[i \in DOMAIN ls |-> Header(ls[i], TRUE)] : ls \in UNION {[1..n -> 1..4] : n \in 0..5}}
WithoutIds == [1..3 -> [level : 1..3, id : BOOLEAN]]
MCHeaderLists == WithIds \cup WithoutIds

Flat == <<Header(1, TRUE), Header(2, TRUE)>>
Inverted == <<Header(2, TRUE), Header(1, TRUE)>>

-----------------------------------------------------------------------------
\* Groups of tabs: alike, with others between them, with several ids, with fewer tabs
\* than others, with conditions, independent ones, and one whose tabs can all be hidden.
Tab(is, c) == [ids |-> is, condition |-> c]
Group(ts) == [independent |-> FALSE, tabs |-> ts]
Alone(ts) == [independent |-> TRUE, tabs |-> ts]
A == Tab(<<"a">>, None)
B == Tab(<<"b">>, None)
C == Tab(<<"c">>, None)
AC == Tab(<<"a", "c">>, None)
BC == Tab(<<"b", "c">>, None)
XIfA == Tab(<<"x">>, "a")
YIfB == Tab(<<"y">>, "b")
YIfX == Tab(<<"y">>, "x")

GroupLists == {
  <<Group(<<A, B>>)>>, <<Group(<<A, B, C>>), Group(<<A, B, C>>)>>,
  <<Group(<<AC, B>>), Alone(<<A, B>>), Group(<<AC, B>>)>>,
  <<Group(<<A, B>>), Group(<<AC, BC>>)>>, <<Group(<<A, B>>), Group(<<B>>)>>,
  <<Group(<<B, A>>), Group(<<XIfA, YIfB>>)>>, <<Group(<<A, B>>), Group(<<XIfA>>)>>,
  <<Group(<<A, B, C>>), Group(<<XIfA, YIfB, C>>), Group(<<YIfX, C>>)>>,
  <<Group(<<XIfA, C>>), Group(<<A, B>>)>>, <<Alone(<<AC, BC, B>>)>>,
  <<Group(<<XIfA>>)>>, <<Group(<<A, B>>), Group(<<B>>), Group(<<A, B>>)>>,
  <<Group(<<A, B>>), Group(<<C>>), Alone(<<C>>), Group(<<A, B>>)>>,
  <<Group(<<B, C>>), Group(<<A, B>>), Group(<<XIfA, YIfB>>), Group(<<A, B>>)>> }

-----------------------------------------------------------------------------
Entry(p, t, c) == [parent |-> p, title |-> t, current |-> c]

\* Two levels of entries above the leaves, one of them without a title, a leaf
\* that links to the page, and a title in capitals.
Deep == <<Entry(0, <<"a">>, FALSE), Entry(1, <<"B">>, FALSE), Entry(2, <<"c">>, TRUE),
          Entry(2, <<"d">>, FALSE), Entry(1, <<"d">>, FALSE),
          Entry(0, <<>>, FALSE), Entry(6, <<"c", "d">>, FALSE)>>
Shallow == <<Entry(0, <<"a">>, TRUE), Entry(1, <<"c">>, TRUE)>>
MCFilters == {<<>>, <<"c">>, <<"d">>, <<"b", ".", "C">>, <<"b">>, <<"a", ".", "d">>, <<"x">>}

Nav(static, navrel, list, active, tocrel, table, rel) ==
  [navStatic |-> static, navrel |-> navrel, navHasList |-> list, navActive |-> active,
   tocrel |-> tocrel, toc |-> table, rel |-> rel]
Bare == Nav(FALSE, FALSE, TRUE, <<>>, FALSE, <<>>, FALSE)

NavPages == {Nav(s, n, l, <<-2, -1>>, t, Shallow, FALSE) : s, n, l, t \in BOOLEAN}
FilterPage == Nav(FALSE, FALSE, TRUE, <<>>, TRUE, Deep, FALSE)
SearchPages == {Nav(FALSE, TRUE, l, <<-1>>, FALSE, <<>>, TRUE) : l \in BOOLEAN}
ThisSite == Nav(FALSE, FALSE, TRUE, <<>>, TRUE, Shallow, TRUE)

Page(hs, gs, n) == [headers |-> hs, groups |-> gs, nav |-> n]

MCSite ==
  {Page(hs, <<>>, Bare) : hs \in MCHeaderLists} \cup
  {Page(Flat, gs, Bare) : gs \in GroupLists} \cup
  {Page(<<>>, <<>>, n) : n \in NavPages \cup SearchPages \cup {FilterPage}} \cup
  {Page(hs, <<Group(<<A, B>>), Group(<<A, B>>)>>, ThisSite) : hs \in {Flat, Inverted}}

MCTexts == {"", "new", "get", "a:b:c"}

=============================================================================
