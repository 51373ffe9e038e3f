------------------------------- MODULE TokenSet -------------------------------
(***************************************************************************)
(* lunr.TokenSet and its Builder: the terms of an index as a minimal       *)
(* automaton, built from sorted words, and the automata of query terms     *)
(* with wildcards or an edit distance that it is intersected with.         *)
(*                                                                         *)
(* A word is a sequence of characters.  The nodes of a builder are its     *)
(* heap: a node is named by its id, which counts the nodes made.           *)
(***************************************************************************)
EXTENDS Integers, SequencesExt

CONSTANT
  Alphabet   \* all characters, in the order of their codes

Code(c) == CHOOSE i \in DOMAIN Alphabet : Alphabet[i] = c

\* The order of strings.
Before(v, w) ==
  \E i \in 1..Len(w) :
    /\ i - 1 <= Len(v)
    /\ SubSeq(v, 1, i - 1) = SubSeq(w, 1, i - 1)
    /\ Len(v) = i - 1 \/ Code(v[i]) < Code(w[i])

VARIABLES
  previousWord,    \* the last word inserted
  nodes,           \* the nodes made so far; the root is the first
  uncheckedNodes,  \* the path of previousWord, not yet minimised
  minimizedNodes   \* the nodes kept, by their keys

builder == <<previousWord, nodes, uncheckedNodes, minimizedNodes>>

Node(isFinal) == [final |-> isFinal, edges |-> <<>>]

TokenSetInit ==
  /\ previousWord = <<>>
  /\ nodes = <<Node(FALSE)>>
  /\ uncheckedNodes = <<>>
  /\ minimizedNodes = <<>>

root == 1

-----------------------------------------------------------------------------
\* An id is written in decimal digits.
Digits[n \in Nat] ==
  LET digit == <<"0", "1", "2", "3", "4", "5", "6", "7", "8", "9">>[(n % 10) + 1]
  IN IF n < 10 THEN <<digit>> ELSE Append(Digits[n \div 10], digit)

\* Mutant of Key: the labels are left out.
KeyOfIds(heap, n) ==
  <<IF heap[n].final THEN "1" ELSE "0">> \o
  FlattenSeq([i \in 1..Cardinality(DOMAIN heap[n].edges) |->
    Digits[heap[n].edges[SetToSortSeq(DOMAIN heap[n].edges, LAMBDA c, d : Code(c) < Code(d))[i]]]])

\* toString: whether the node is final, then each label and the id behind it,
\* with nothing between them.
Key(heap, n) ==
  LET edges == heap[n].edges
      labels == SetToSortSeq(DOMAIN edges, LAMBDA c, d : Code(c) < Code(d))
  IN <<IF heap[n].final THEN "1" ELSE "0">> \o
     FlattenSeq([i \in DOMAIN labels |-> <<labels[i]>> \o Digits[edges[labels[i]]]])

\* minimize: the path beyond `downTo` is checked from its end.  A node like one
\* that is kept gives way to it; any other is kept.
Minimize(heap, kept, path, downTo) ==
  FoldLeft(LAMBDA m, u :
             LET key == Key(m.nodes, u.child) IN
             IF key \in DOMAIN m.kept
             THEN [m EXCEPT !.nodes[u.parent].edges[u.char] = m.kept[key]]
             ELSE [m EXCEPT !.kept = @ @@ (key :> u.child)],
           [nodes |-> heap, kept |-> kept],
           Reverse(SubSeq(path, downTo + 1, Len(path))))

\* A path of new nodes below `node`, one for each character of `word`.
Extend(heap, node, word) ==
  FoldLeft(LAMBDA m, c :
             LET child == Len(m.nodes) + 1 IN
             [nodes |-> Append([m.nodes EXCEPT ![m.last].edges = (c :> child) @@ @],
                               Node(FALSE)),
              path |-> Append(m.path, [parent |-> m.last, char |-> c, child |-> child]),
              last |-> child],
           [nodes |-> heap, path |-> <<>>, last |-> node],
           word)

\* Builder.insert; a word before the last one is refused.
InsertWord(word) ==
  /\ ~Before(word, previousWord)
  /\ LET commonPrefix == Len(LongestCommonPrefix({word, previousWord}))
         m == Minimize(nodes, minimizedNodes, uncheckedNodes, commonPrefix)
         path == SubSeq(uncheckedNodes, 1, commonPrefix)
         node == IF path = <<>> THEN root ELSE Last(path).child
         e == Extend(m.nodes, node, SubSeq(word, commonPrefix + 1, Len(word)))
     IN /\ nodes' = [e.nodes EXCEPT ![e.last].final = TRUE]
        /\ uncheckedNodes' = path \o e.path
        /\ minimizedNodes' = m.kept
        /\ previousWord' = word

\* Builder.finish
Finish ==
  LET m == Minimize(nodes, minimizedNodes, uncheckedNodes, 0) IN
  /\ nodes' = m.nodes
  /\ minimizedNodes' = m.kept
  /\ uncheckedNodes' = <<>>
  /\ UNCHANGED previousWord

\* toArray: the words from a node on.
Words(heap, node) ==
  LET words[n \in DOMAIN heap] ==
        (IF heap[n].final THEN {<<>>} ELSE {}) \cup
        UNION { {<<c>> \o w : w \in words[heap[n].edges[c]]} : c \in DOMAIN heap[n].edges }
  IN words[node]

-----------------------------------------------------------------------------
\* fromString: a node for each character, and for a wildcard an edge from the
\* node to itself; behind a wildcard each node also leads back to the root.
FromString(word) ==
  LET step(m, i) ==
        LET next == Len(m.nodes) + 1
            isLast == i = Len(word)
        IN IF word[i] = "*"
           THEN [m EXCEPT !.wildcardFound = TRUE,
                          !.nodes[m.node] =
                            [final |-> isLast, edges |-> ("*" :> m.node) @@ @.edges]]
           ELSE [m EXCEPT !.node = next,
                          !.nodes =
                            Append([@ EXCEPT ![m.node].edges = (word[i] :> next) @@ @],
                                   [final |-> isLast,
                                    edges |-> IF m.wildcardFound THEN "*" :> root ELSE <<>>])]
      built == FoldLeftDomain(step, [nodes |-> <<Node(FALSE)>>, node |-> root, wildcardFound |-> FALSE], word)
  IN [root |-> root, nodes |-> built.nodes]

\* The ways through the tree that fromFuzzyString makes, from a frame of its
\* stack to the nodes that are marked final.  Its wildcard is one character.
Edited[edits \in Nat, word \in Seq(ToSet(Alphabet))] ==
  LET after(c, e, rest) == {<<c>> \o way : way \in Edited[e, rest]}
      tail(n) == SubSeq(word, n + 1, Len(word))
      noEdit == IF Len(word) = 1 THEN {word} ELSE after(word[1], edits, tail(1))
      deletion ==
        IF Len(word) = 1 THEN {<<>>}
        ELSE IF Len(word) = 2 THEN {tail(1)} ELSE after(word[2], edits - 1, tail(2))
      substitution == IF Len(word) = 1 THEN {<<"*">>} ELSE after("*", edits - 1, tail(1))
      insertion == after("*", edits - 1, word)
      transposition ==
        IF Len(word) = 1 THEN {} ELSE after(word[2], edits - 1, <<word[1]>> \o tail(2))
  IN IF word = <<>> THEN IF edits = 0 THEN {} ELSE {<<"*">>}
     ELSE noEdit \cup
          IF edits = 0 THEN {}
          ELSE deletion \cup substitution \cup insertion \cup transposition

\* The tree of these ways; a node is named by the way to it.
FromFuzzyString(word, edits) ==
  LET ways == Edited[edits, word]
      places == UNION {Prefixes(way) : way \in ways} \cup {<<>>}
  IN [root |-> <<>>,
      nodes |-> [p \in places |->
        [final |-> p \in ways,
         edges |-> LET labels == {c \in ToSet(Alphabet) : Append(p, c) \in places}
                   IN [c \in labels |-> Append(p, c)]]]]

\* fromClause; an edit distance of -1 is none.
FromClause(term, editDistance) ==
  IF editDistance >= 0 THEN FromFuzzyString(term, editDistance) ELSE FromString(term)

\* intersect, and toArray of what it returns: the words on the common ways of
\* the index and of the query.  The root of the result is never final.
Intersect(heap, query) ==
  LET words[n \in DOMAIN heap, q \in DOMAIN query.nodes] ==
        (IF heap[n].final /\ query.nodes[q].final THEN {<<>>} ELSE {}) \cup
        UNION { {<<e[1]>> \o w : w \in words[heap[n].edges[e[1]], query.nodes[q].edges[e[2]]]} :
                e \in {e \in (DOMAIN heap[n].edges) \X (DOMAIN query.nodes[q].edges) :
                         e[2] \in {e[1], "*"}} }
  IN words[root, query.root] \ {<<>>}

=============================================================================
