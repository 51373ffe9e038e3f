----------------------------- MODULE QueryParser -----------------------------
(***************************************************************************)
(* lunr.QueryLexer and lunr.QueryParser: a query string is cut into        *)
(* lexemes by a machine of states, and the lexemes are made into the       *)
(* clauses of a query by a second one.  An action is one call of a state   *)
(* function, or one round of the loop of lexText.                          *)
(***************************************************************************)
EXTENDS Integers, SequencesExt

CONSTANTS
  Fields,    \* the fields of the index, words
  Lower(_)   \* a character in lower case

VARIABLES
  str,                  \* the query string
  lexState,             \* the lexer's next state function, or "done"
  pos, start,           \* what has been read, and where the next lexeme begins
  escapeCharPositions,  \* the backslashes of the next lexeme
  lexemes,
  parseState,           \* the parser's next state function, "done" or "error"
  lexemeIdx,            \* the lexemes consumed
  currentClause,
  clauses               \* the clauses of the query

lexer  == <<str, lexState, pos, start, escapeCharPositions, lexemes>>
parser == <<parseState, lexemeIdx, currentClause, clauses>>

\* A clause with nothing in it: -1 and {} stand for keys that are not there.
NoClause == [fields |-> {}, term |-> <<>>, usePipeline |-> TRUE,
             editDistance |-> -1, boost |-> -1]

ParserInit ==
  /\ str = <<>>
  /\ lexState = "lexText"
  /\ pos = 0
  /\ start = 0
  /\ escapeCharPositions = <<>>
  /\ lexemes = <<>>
  /\ parseState = "waiting"
  /\ lexemeIdx = 0
  /\ currentClause = NoClause
  /\ clauses = <<>>

\* A parser and its lexer are made for a query string.
NewParser(s) ==
  /\ str' = s
  /\ lexState' = "lexText"
  /\ pos' = 0
  /\ start' = 0
  /\ escapeCharPositions' = <<>>
  /\ lexemes' = <<>>
  /\ parseState' = "waiting"
  /\ lexemeIdx' = 0
  /\ currentClause' = NoClause
  /\ clauses' = <<>>

-----------------------------------------------------------------------------
(* The lexer.                                                              *)

\* Positions count from 0.
CharAt(p) == str[p + 1]
Slice(from, to) == SubSeq(str, from + 1, Min({to, Len(str)}))

Separators == {" ", "-"}
Decimal == <<"0", "1", "2", "3", "4", "5", "6", "7", "8", "9">>
DigitChars == ToSet(Decimal)

AtEnd == pos >= Len(str)

\* sliceString: the lexeme up to `end` without its escape characters.
SliceString(end) ==
  LET cuts == escapeCharPositions
      ends == Append(cuts, end)
      starts == <<start>> \o [i \in DOMAIN cuts |-> cuts[i] + 1]
  IN FlattenSeq([i \in DOMAIN ends |-> Slice(starts[i], ends[i])])

\* emit: a lexeme ends at `end`, and the next begins there.
Emit(type, end) ==
  /\ lexemes' = Append(lexemes, [type |-> type, str |-> SliceString(end)])
  /\ escapeCharPositions' = <<>>

NoLexeme == UNCHANGED <<lexemes, escapeCharPositions>>

\* ignore, where a lexeme has ended at `p`: the character there is skipped.
IgnoreFrom(p) == pos' = p + 1 /\ start' = p + 1

Lexing(s) == lexState = s /\ UNCHANGED <<str, parser>>

LexEscape ==
  /\ Lexing("lexText") /\ ~AtEnd /\ CharAt(pos) = "\\"
  /\ escapeCharPositions' = Append(escapeCharPositions, pos)
  /\ pos' = pos + 2
  /\ UNCHANGED <<lexState, start, lexemes>>

\* Up to the colon is a field, even if nothing is.
LexField ==
  /\ Lexing("lexText") /\ ~AtEnd /\ CharAt(pos) = ":"
  /\ Emit("FIELD", pos)
  /\ IgnoreFrom(pos)
  /\ UNCHANGED lexState

\* A term, if there is one, ends before a modifier.
LexModifier ==
  /\ Lexing("lexText") /\ ~AtEnd /\ CharAt(pos) \in {"~", "^"}
  /\ IF pos > start THEN Emit("TERM", pos) ELSE NoLexeme
  /\ start' = pos
  /\ lexState' = IF CharAt(pos) = "~" THEN "lexEditDistance" ELSE "lexBoost"
  /\ UNCHANGED pos

LexTerm ==
  /\ Lexing("lexText") /\ ~AtEnd /\ CharAt(pos) \in Separators
  /\ IF pos > start THEN Emit("TERM", pos) ELSE NoLexeme
  /\ IgnoreFrom(pos)
  /\ lexState' = IF pos + 1 < Len(str) THEN "lexText" ELSE "done"

LexChar ==
  /\ Lexing("lexText") /\ ~AtEnd
  /\ CharAt(pos) \notin {"\\", ":", "~", "^"} \cup Separators
  /\ pos' = pos + 1
  /\ UNCHANGED <<lexState, start, escapeCharPositions, lexemes>>

LexEOS ==
  /\ Lexing("lexText") /\ AtEnd
  /\ IF pos > start THEN Emit("TERM", pos) ELSE NoLexeme
  /\ start' = pos
  /\ lexState' = "done"
  /\ UNCHANGED pos

\* acceptDigitRun: where the digits from `p` on end.
DigitsEnd(p) ==
  CHOOSE q \in p..Len(str) :
    /\ \A r \in p..q - 1 : CharAt(r) \in DigitChars
    /\ q < Len(str) => CharAt(q) \notin DigitChars

\* The modifier's sign is skipped; its digits, if any, are the lexeme.
LexNumber(state, type) ==
  /\ Lexing(state)
  /\ LET end == DigitsEnd(pos + 1) IN
     /\ lexemes' = Append(lexemes, [type |-> type, str |-> Slice(pos + 1, end)])
     /\ pos' = end
     /\ start' = end
  /\ lexState' = "lexText"
  /\ UNCHANGED escapeCharPositions

LexEditDistance == LexNumber("lexEditDistance", "EDIT_DISTANCE")
LexBoost == LexNumber("lexBoost", "BOOST")

LexNext ==
  \/ LexEscape \/ LexField \/ LexModifier \/ LexTerm \/ LexChar \/ LexEOS
  \/ LexEditDistance \/ LexBoost

-----------------------------------------------------------------------------
(* The parser.                                                             *)

Parsing(s) ==
  /\ lexState = "done"
  /\ parseState = s
  /\ UNCHANGED lexer

MoreLexemes == lexemeIdx < Len(lexemes)
Lexeme == lexemes[lexemeIdx + 1]          \* the one that is consumed
NextType ==                               \* the type of the one behind it
  IF lexemeIdx + 1 < Len(lexemes) THEN lexemes[lexemeIdx + 2].type ELSE "none"

\* Query.clause: what a clause does not say has its default.
Clause(clause) ==
  [clause EXCEPT !.fields = IF @ = {} THEN Fields ELSE @,
                 !.boost = IF @ = -1 THEN 1 ELSE @]

\* Mutant of NextClause: the next clause begins with what this one had.
NextClauseKeeps(clause) ==
  /\ clauses' = Append(clauses, Clause(clause))
  /\ currentClause' = clause

\* nextClause
NextClause(clause) ==
  /\ clauses' = Append(clauses, Clause(clause))
  /\ currentClause' = NoClause

ParseError ==
  /\ parseState' = "error"
  /\ UNCHANGED <<currentClause, clauses>>

\* parse calls parseFieldOrTerm when the lexer has run.
ParseFieldOrTerm ==
  /\ Parsing("waiting")
  /\ parseState' = IF ~MoreLexemes THEN "done"
                   ELSE IF Lexeme.type = "FIELD" THEN "parseField"
                   ELSE IF Lexeme.type = "TERM" THEN "parseTerm"
                   ELSE "error"
  /\ UNCHANGED <<lexemeIdx, currentClause, clauses>>

ParseField ==
  /\ Parsing("parseField")
  /\ lexemeIdx' = lexemeIdx + 1
  /\ IF Lexeme.str \in Fields /\ NextType = "TERM"
     THEN /\ currentClause' = [currentClause EXCEPT !.fields = {Lexeme.str}]
          /\ parseState' = "parseTerm"
          /\ UNCHANGED clauses
     ELSE ParseError

\* What follows a term or a modifier ends the clause or adds to it.
Continue(clause) ==
  IF NextType \in {"EDIT_DISTANCE", "BOOST"}
  THEN /\ currentClause' = clause
       /\ parseState' = IF NextType = "BOOST" THEN "parseBoost" ELSE "parseEditDistance"
       /\ UNCHANGED clauses
  ELSE /\ NextClause(clause)
       /\ parseState' = IF NextType = "FIELD" THEN "parseField"
                        ELSE IF NextType = "TERM" THEN "parseTerm" ELSE "done"

ParseTerm ==
  /\ Parsing("parseTerm")
  /\ lexemeIdx' = lexemeIdx + 1
  /\ Continue([currentClause EXCEPT
                 !.term = [i \in DOMAIN Lexeme.str |-> Lower(Lexeme.str[i])],
                 !.usePipeline = @ /\ ~Contains(Lexeme.str, "*")])

\* parseInt, of a sequence of digits
ToInt(digits) ==
  LET value(d) == (CHOOSE i \in DOMAIN Decimal : Decimal[i] = d) - 1
      int[n \in 0..Len(digits)] == IF n = 0 THEN 0 ELSE 10 * int[n - 1] + value(digits[n])
  IN int[Len(digits)]

ParseEditDistance ==
  /\ Parsing("parseEditDistance")
  /\ lexemeIdx' = lexemeIdx + 1
  /\ IF Lexeme.str = <<>> THEN ParseError
     ELSE Continue([currentClause EXCEPT !.editDistance = ToInt(Lexeme.str)])

ParseBoost ==
  /\ Parsing("parseBoost")
  /\ lexemeIdx' = lexemeIdx + 1
  /\ IF Lexeme.str = <<>> THEN ParseError
     ELSE Continue([currentClause EXCEPT !.boost = ToInt(Lexeme.str)])

ParseNext ==
  ParseFieldOrTerm \/ ParseField \/ ParseTerm \/ ParseEditDistance \/ ParseBoost

-----------------------------------------------------------------------------
\* The characters of a query that are not signs of its language: a sign that
\* is escaped is one of them.  They are those of its last n characters.
Plain(s) ==
  LET plain[n \in 0..Len(s)] ==
        LET i == Len(s) - n + 1 IN
        IF n = 0 THEN <<>>
        ELSE IF s[i] = "\\" THEN IF n = 1 THEN <<>> ELSE <<s[i + 1]>> \o plain[n - 2]
        ELSE IF s[i] \in {":", "~", "^"} \cup Separators THEN plain[n - 1]
        ELSE <<s[i]>> \o plain[n - 1]
  IN plain[Len(s)]

\* The lexer reads ahead, backs up, skips and cuts escapes out: no character of
\* a query is lost and none is read twice.
LexemesComplete ==
  lexState = "done" =>
    /\ FlattenSeq([i \in DOMAIN lexemes |-> lexemes[i].str]) = Plain(str)
    /\ escapeCharPositions = <<>>

Modifies(l) == l.type \in {"EDIT_DISTANCE", "BOOST"}

\* A query is well formed: a modifier stands behind a term and is a number, a
\* field is known and a term follows it.
WellFormed ==
  \A i \in DOMAIN lexemes :
    LET l == lexemes[i] IN
    /\ Modifies(l) => l.str # <<>> /\ i > 1 /\ lexemes[i - 1].type # "FIELD"
    /\ l.type = "FIELD" =>
         l.str \in Fields /\ i < Len(lexemes) /\ lexemes[i + 1].type = "TERM"

\* The last modifier of a type behind the term at `i` and before the next one;
\* `default` if there is none.
Modifier(type, i, default) ==
  LET own == {j \in i + 1..Len(lexemes) :
                /\ lexemes[j].type = type
                /\ \A k \in i + 1..j : Modifies(lexemes[k])}
  IN IF own = {} THEN default
     ELSE ToInt(lexemes[CHOOSE j \in own : \A k \in own : k <= j].str)

ClauseOf(i) ==
  [fields |-> IF i > 1 /\ lexemes[i - 1].type = "FIELD"
              THEN {lexemes[i - 1].str} ELSE Fields,
   term |-> [k \in DOMAIN lexemes[i].str |-> Lower(lexemes[i].str[k])],
   usePipeline |-> ~\E k \in DOMAIN lexemes[i].str : lexemes[i].str[k] = "*",
   editDistance |-> Modifier("EDIT_DISTANCE", i, -1),
   boost |-> Modifier("BOOST", i, 1)]

\* The terms among the first n lexemes: the i-th clause is that of the i-th term.
Terms(n) == {i \in 1..n : lexemes[i].type = "TERM"}

\* The parser accepts the queries that are well formed and no other, and each
\* term has the field and the modifiers that stand beside it in the query:
\* nothing passes from one clause to the next.
ClausesRight ==
  /\ parseState = "error" => ~WellFormed
  /\ parseState = "done" =>
       /\ WellFormed
       /\ Len(clauses) = Cardinality(Terms(Len(lexemes)))
       /\ \A i \in Terms(Len(lexemes)) : clauses[Cardinality(Terms(i))] = ClauseOf(i)

\* What the two machines of a query string make of it is what it says: all of
\* its characters are in lexemes, and all of its lexemes in the clauses.
ParsedRight == LexemesComplete /\ ClausesRight

=============================================================================
