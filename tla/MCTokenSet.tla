------------------------------ MODULE MCTokenSet ------------------------------
(* A builder of a token set on its own, and words with digits for it.      *)
EXTENDS TokenSet

VARIABLE inserted   \* the words inserted so far

MCAlphabet == <<"0", "1", "a", "b", "c">>

\* A long word makes nodes whose ids have one digit and two; the others have a
\* digit where those are shared.
A(n) == [i \in 1..n |-> "a"]

MCWords ==
  {A(21), <<"a">>, <<"b">>, <<"b", "0", "a">>, <<"b", "1">> \o A(13),
   <<"c", "0">> \o A(20), <<"c", "1", "a", "a", "a">>, <<"c", "a">>}

Init == TokenSetInit /\ inserted = {}

\* A builder that is finished is given no more words.
Insert ==
  /\ inserted = {} \/ uncheckedNodes # <<>>
  /\ \E word \in MCWords \ inserted :
       /\ InsertWord(word)
       /\ inserted' = inserted \cup {word}

Next ==
  \/ Insert
  \/ Finish /\ UNCHANGED inserted

Spec == Init /\ [][Next]_<<builder, inserted>>

\* "A token set is used to store the unique list of all tokens within an
\* index" (lunr.js): what the automaton of the builder accepts is what was put
\* into it, whatever was minimised on the way.
TokensKept == Words(nodes, root) = inserted

=============================================================================
