----------------------------- MODULE MCLunrIndex -----------------------------
(* A site of three small pages, and the query strings asked of its search.  *)
EXTENDS LunrIndex

Chars == <<" ", "*", "-", ".", "/", "1", "2", ":", "A", "\\", "^", "a", "b", "k", "s", "t", "~">>

MCLower(c) == IF c = "A" THEN "a" ELSE c

MCFieldList == <<<<"t">>, <<"k">>>>
MCFields == {<<"t">>, <<"k">>}

\* References have slashes; texts have separators, capitals, signs around and
\* inside words, plurals, a word of signs only, and words that appear again.
MCDocuments == <<
  [ref |-> <<"a", "/", "b">>,
   text |-> (<<"t">> :> <<"A", "b", "s", " ", "b", ".">>) @@
            (<<"k">> :> <<"b", "-", "a", "b", "-", "b", " ", "*">>)],
  [ref |-> <<"b">>,
   text |-> (<<"t">> :> <<"b", "a", " ", "a", "b", " ", "b", "a">>) @@ (<<"k">> :> <<>>)],
  [ref |-> <<"a">>,
   text |-> (<<"t">> :> <<"a", ".", "b">>) @@
            (<<"k">> :> <<" ", "a", "b", "b", " ", "a", " ", "b">>)] >>

MCStopWords == {<<"b", "a">>}
MCNonWord == {" ", "*", "-", ".", "/", ":", "\\", "^", "~"}

MCVectors == MCFields \cup
  {FieldRef(f, MCDocuments[d].ref) : f \in MCFields, d \in DOMAIN MCDocuments}

\* All strings of up to three of the characters that the language knows, and
\* longer ones that combine fields, wildcards, modifiers and escapes.
Signs == {"a", "b", "A", " ", "*", ":", "~", "^", "1", "\\"}
Longer == {
  <<"t", ":", "a", "b">>, <<"k", ":", "b", "*">>, <<"t", ":", "k", ":", "a">>,
  <<"a", "b", "~", "1">>, <<"a", "~", "1", "~", "2">>, <<"a", "b", "s", "~", "2">>,
  <<"a", "*", "^", "2", "b">>, <<"b", "^", "1", "2", " ", "b", "^", "2">>,
  <<"t", ":", "a", "~", "1", "^", "2", " ", "k", ":", "b">>,
  <<"*", "a", "*", "b", "*">>, <<"*", "b", "*", "b">>, <<"a", "*", "*", "b">>,
  <<"a", "\\", " ", "b">>, <<"a", "\\", "*", "\\", "~", "1">>, <<"a", "b", "-", "b", "a">>,
  <<"a", "b", "s", " ", "a", "b">>, <<"a", ".", "b", "~", "1">>, <<"a", "\\">>,
  <<"a", "^", "2", "k", ":", "b", " ", "a">>, <<"a", "*", "~", "1", " ", "b", "a", "*">>}
MCQueries == UNION {[1..n -> Signs] : n \in 0..3} \cup Longer

=============================================================================
