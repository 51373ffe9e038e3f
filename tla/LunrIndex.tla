------------------------------ MODULE LunrIndex ------------------------------
(***************************************************************************)
(* lunr.Builder and lunr.Index, as the search worker of the documentation  *)
(* site uses them: documents are added, the field vectors and the token    *)
(* set are built, and query strings are answered.  Composes Vector,        *)
(* TokenSet and QueryParser.                                               *)
(*                                                                         *)
(* Words, field names, document references and field references are        *)
(* sequences of characters.  A weight is a number of occurrences: the      *)
(* factors of idf, field length and magnitude are left out.                *)
(***************************************************************************)
EXTENDS Vector, TokenSet, QueryParser

CONSTANTS
  FieldList,   \* the fields in the order in which they were declared
  Documents,   \* what may be added, in order: references and texts of fields
  StopWords,   \* the words of search-stopwords.json
  NonWord,     \* the characters that \W matches
  Queries      \* the query strings asked

\* The string of a FieldRef.
FieldRef(field, docRef) == field \o <<"/">> \o docRef

\* Mutant of DocRef: what is behind the last slash.
DocRefLast(fieldRef) ==
  LET n == CHOOSE i \in DOMAIN fieldRef :
             fieldRef[i] = "/" /\ \A j \in i + 1..Len(fieldRef) : fieldRef[j] # "/"
  IN SubSeq(fieldRef, n + 1, Len(fieldRef))

\* The document reference of such a string, which may have slashes of its own.
DocRef(fieldRef) ==
  LET n == CHOOSE i \in DOMAIN fieldRef :
             fieldRef[i] = "/" /\ \A j \in 1..i - 1 : fieldRef[j] # "/"
  IN SubSeq(fieldRef, n + 1, Len(fieldRef))

DocRefs == {Documents[i].ref : i \in DOMAIN Documents}
FieldRefs == {FieldRef(f, r) : f \in Fields, r \in DocRefs}

ASSUME LunrAssumption ==
  /\ FieldList \in Seq(Seq(STRING)) \ {<<>>}
  /\ Fields = ToSet(FieldList)
  /\ \A f \in Fields : f # <<>> /\ "/" \notin ToSet(f)
  /\ Documents \in Seq([ref : Seq(STRING), text : [Fields -> Seq(STRING)]])
  /\ \A i, j \in DOMAIN Documents : Documents[i].ref = Documents[j].ref => i = j
  /\ Vectors = Fields \cup FieldRefs    \* query vectors and field vectors
  /\ Queries \subseteq Seq(STRING)

VARIABLES
  phase,                \* what the index is doing
  document,             \* the documents passed so far
  pipeline,             \* the functions that words of documents go through
  searchPipeline,       \* and those for the words of queries
  invertedIndex,        \* for each term its index and its postings
  fieldTermFrequencies, \* for each field reference its terms
  todo,                 \* what the loop of the phase has left to do
  clauseIdx,            \* the clauses done
  matchingFields,       \* field references that match the query
  results               \* the score of each hit

index == <<document, pipeline, searchPipeline, invertedIndex, fieldTermFrequencies>>
query == <<todo, clauseIdx, matchingFields, results>>
vars  == <<phase, index, query, vector, builder, lexer, parser>>

-----------------------------------------------------------------------------
(* Words and pipelines.                                                    *)

Push(tokens, word) == IF word = <<>> THEN tokens ELSE Append(tokens, word)

\* tokenizer: the words between separators, in lower case.  `word` is what has
\* been read since the last separator, `tokens` the words before it.
Tokens(text) ==
  LET word[n \in 0..Len(text)] ==
        IF n = 0 \/ text[n] \in Separators THEN <<>> ELSE Append(word[n - 1], Lower(text[n]))
      tokens[n \in 0..Len(text)] ==
        IF n = 0 THEN <<>>
        ELSE IF text[n] \in Separators THEN Push(tokens[n - 1], word[n - 1]) ELSE tokens[n - 1]
  IN Push(tokens[Len(text)], word[Len(text)])

\* trimmer: no \W at either end.
Trim(w) ==
  LET kept == {i \in DOMAIN w : w[i] \notin NonWord}
  IN IF kept = {} THEN <<>> ELSE SubSeq(w, Min(kept), Max(kept))

\* stemmer: only its first rule, for plurals; words of two letters are left.
Stem(w) ==
  IF Len(w) >= 3 /\ Last(w) = "s" /\ w[Len(w) - 1] # "s" THEN Front(w) ELSE w

\* The words that a function of a pipeline makes of one.
Apply(fn, w) ==
  IF fn = "trimmer" THEN <<Trim(w)>>
  ELSE IF fn = "stemmer" THEN <<Stem(w)>>
  ELSE IF w \in StopWords THEN <<>> ELSE <<w>>

\* Pipeline.run: every word through the first function, then the next.
Run(stack, words) ==
  LET run[n \in 0..Len(stack)] ==
        IF n = 0 THEN words
        ELSE FlattenSeq([i \in DOMAIN run[n - 1] |-> Apply(stack[n], run[n - 1][i])])
  IN run[Len(stack)]

-----------------------------------------------------------------------------
(* Building the index.                                                     *)

\* lunr() fills the pipelines; the worker takes the stopWordFilter, which is
\* between these two, out of the first.
Init ==
  /\ phase = "adding"
  /\ document = 0
  /\ pipeline = <<"trimmer", "stemmer">>
  /\ searchPipeline = <<"stemmer">>
  /\ invertedIndex = <<>>
  /\ fieldTermFrequencies = <<>>
  /\ todo = {}
  /\ clauseIdx = 0
  /\ matchingFields = {}
  /\ results = <<>>
  /\ VectorInit /\ vec = FieldList[1]
  /\ TokenSetInit
  /\ ParserInit

\* The terms of a field of a document, and how often each of them is there.
FieldTerms(doc, field) == Run(pipeline, Tokens(doc.text[field]))
Frequencies(terms) == [t \in ToSet(terms) |-> Cardinality({i \in DOMAIN terms : terms[i] = t})]

\* An entry for `term` in a field of a document; a new term has the next index
\* and postings for all fields.
Post(inverted, term, field, docRef) ==
  LET new == [index |-> Cardinality(DOMAIN inverted), docs |-> [f \in Fields |-> {}]]
      posting == IF term \in DOMAIN inverted THEN inverted[term] ELSE new
  IN [t \in DOMAIN inverted \cup {term} |->
        IF t = term THEN [posting EXCEPT !.docs[field] = @ \cup {docRef}] ELSE inverted[t]]

\* The entries for the terms of one field, and of all fields.
PostTerms(inverted, terms, field, docRef) ==
  LET posted[n \in 0..Len(terms)] ==
        IF n = 0 THEN inverted ELSE Post(posted[n - 1], terms[n], field, docRef)
  IN posted[Len(terms)]

PostFields(inverted, doc) ==
  LET posted[n \in 0..Len(FieldList)] ==
        IF n = 0 THEN inverted
        ELSE PostTerms(posted[n - 1], FieldTerms(doc, FieldList[n]), FieldList[n], doc.ref)
  IN posted[Len(FieldList)]

\* Builder.add of the next document, or of one after it.
Add ==
  /\ phase = "adding"
  /\ \E d \in document + 1..Len(Documents) :
       LET doc == Documents[d]
           own == {FieldRef(f, doc.ref) : f \in Fields}
           field(r) == CHOOSE f \in Fields : r = FieldRef(f, doc.ref)
       IN /\ document' = d
          /\ fieldTermFrequencies' =
               [r \in own \cup DOMAIN fieldTermFrequencies |->
                  IF r \in own THEN Frequencies(FieldTerms(doc, field(r)))
                  ELSE fieldTermFrequencies[r]]
          /\ invertedIndex' = PostFields(invertedIndex, doc)
  /\ UNCHANGED <<phase, pipeline, searchPipeline, query, vector, builder, lexer, parser>>

\* The worker adds its stop words to both pipelines when the documents are in,
\* and build begins.
Build ==
  /\ phase = "adding"
  /\ document > 0
  /\ phase' = "vectors"
  /\ pipeline' = Append(pipeline, "docfxStopWordFilter")
  /\ searchPipeline' = Append(searchPipeline, "docfxStopWordFilter")
  /\ todo' = UNION {{<<r, t>> : t \in DOMAIN fieldTermFrequencies[r]} :
                    r \in DOMAIN fieldTermFrequencies}
  /\ UNCHANGED <<document, invertedIndex, fieldTermFrequencies, clauseIdx, matchingFields,
                 results, vector, builder, lexer, parser>>

\* createFieldVectors: one vector after the other, its terms in any order.
CreateFieldVectors ==
  /\ phase = "vectors"
  /\ \E work \in todo :
       LET term == work[2] IN
       /\ \A other \in todo : ~Before(other[1], work[1])
       /\ Insert(work[1], invertedIndex[term].index, fieldTermFrequencies[work[1]][term])
       /\ todo' = todo \ {work}
  /\ UNCHANGED <<phase, index, clauseIdx, matchingFields, results, builder, lexer, parser>>

VectorsDone ==
  /\ phase = "vectors"
  /\ todo = {} /\ searching = "no"
  /\ phase' = "tokens"
  /\ todo' = DOMAIN invertedIndex
  /\ UNCHANGED <<index, clauseIdx, matchingFields, results, vector, builder, lexer, parser>>

\* createTokenSet and fromArray: the terms in their order.
CreateTokenSet ==
  /\ phase = "tokens"
  /\ \/ \E term \in todo :
          /\ \A other \in todo : ~Before(other, term)
          /\ InsertWord(term)
          /\ todo' = todo \ {term}
          /\ UNCHANGED phase
     \/ /\ todo = {}
        /\ Finish
        /\ phase' = "ready"
        /\ UNCHANGED todo
  /\ UNCHANGED <<index, clauseIdx, matchingFields, results, vector, lexer, parser>>

-----------------------------------------------------------------------------
(* Answering a query.                                                      *)

\* Index.search: the query string goes to the parser.
Search ==
  /\ phase = "ready"
  /\ \E q \in Queries : NewParser(q)
  /\ phase' = "query"
  /\ UNCHANGED <<index, query, vector, builder>>

Parse ==
  /\ phase = "query"
  /\ LexNext \/ ParseNext
  /\ UNCHANGED <<phase, index, query, vector, builder>>

\* A query that cannot be parsed, or one with a term that has no posting, ends
\* with an exception.
ParseFails ==
  /\ phase = "query"
  /\ parseState = "error"
  /\ phase' = "threw"
  /\ UNCHANGED <<index, query, vector, builder, lexer, parser>>

\* The terms of the index that a clause stands for.
ExpandedTerms(clause) ==
  LET terms == IF clause.usePipeline THEN Run(searchPipeline, <<clause.term>>)
               ELSE <<clause.term>>
  IN UNION {Intersect(nodes, FromClause(terms[m], clause.editDistance)) : m \in DOMAIN terms}

\* One round of the loop over the clauses: the field references that match are
\* noted, the query vectors are left to be filled.
QueryClause ==
  /\ phase = "query" /\ parseState = "done"
  /\ todo = {} /\ searching = "no"
  /\ clauseIdx < Len(clauses)
  /\ clauseIdx' = clauseIdx + 1
  /\ LET clause == clauses[clauseIdx + 1]
         terms == ExpandedTerms(clause)
     IN IF terms \subseteq DOMAIN invertedIndex
        THEN /\ todo' = {[field |-> f, index |-> invertedIndex[t].index, boost |-> clause.boost] :
                         f \in clause.fields, t \in terms}
             /\ matchingFields' = matchingFields \cup
                  UNION {{FieldRef(f, r) : r \in UNION {invertedIndex[t].docs[f] : t \in terms}} :
                         f \in clause.fields}
             /\ UNCHANGED phase
        ELSE /\ phase' = "threw"
             /\ UNCHANGED <<todo, matchingFields>>
  /\ UNCHANGED <<index, results, vector, builder, lexer, parser>>

UpsertTerm ==
  /\ phase = "query"
  /\ \E work \in todo :
       /\ \A other \in todo : ~Before(other.field, work.field)
       /\ Upsert(work.field, work.index, work.boost)
       /\ todo' = todo \ {work}
  /\ UNCHANGED <<phase, index, clauseIdx, matchingFields, results, builder, lexer, parser>>

\* The field of a field reference is what comes before its document reference.
FieldName(fieldRef) == SubSeq(fieldRef, 1, Len(fieldRef) - Len(DocRef(fieldRef)) - 1)

\* The scores of the fields of a document are added up.
Score ==
  /\ phase = "query" /\ parseState = "done"
  /\ clauseIdx = Len(clauses) /\ todo = {} /\ searching = "no"
  /\ results' =
       [docRef \in {DocRef(r) : r \in matchingFields} |->
          MapThenSumSet(LAMBDA r : Dot(elements[FieldName(r)], elements[r]),
                        {r \in matchingFields : DocRef(r) = docRef})]
  /\ phase' = "answered"
  /\ UNCHANGED <<index, todo, clauseIdx, matchingFields, vector, builder, lexer, parser>>

\* What a query has used is given up.
Return ==
  /\ phase \in {"answered", "threw"}
  /\ phase' = "ready"
  /\ todo' = {}
  /\ clauseIdx' = 0
  /\ matchingFields' = {}
  /\ results' = <<>>
  /\ elements' = [v \in Vectors |-> IF v \in Fields THEN <<>> ELSE elements[v]]
  /\ vec' = FieldList[1]
  /\ NewParser(<<>>)
  /\ UNCHANGED <<index, searching, insertIdx, val, sliceStart, sliceEnd, pivotPoint, builder>>

VectorStep ==
  /\ Probe \/ Place
  /\ UNCHANGED <<phase, index, query, builder, lexer, parser>>

Next ==
  \/ Add \/ Build \/ CreateFieldVectors \/ VectorsDone \/ CreateTokenSet
  \/ Search \/ Parse \/ ParseFails \/ QueryClause \/ UpsertTerm \/ Score \/ Return
  \/ VectorStep

Spec == Init /\ [][Next]_vars

-----------------------------------------------------------------------------
Built == phase \notin {"adding", "vectors", "tokens"}

\* Each term of the inverted index has an index of its own.
IndicesDiffer ==
  \A t, u \in DOMAIN invertedIndex :
    invertedIndex[t].index = invertedIndex[u].index => t = u

\* A term stands in the vector of a field, with its weight, where its postings
\* name the document, and nothing else does.
VectorsAgree ==
  /\ \A r \in DocRefs, f \in Fields : LET v == elements[FieldRef(f, r)] IN
       \A t \in DOMAIN invertedIndex :
         r \in invertedIndex[t].docs[f] <=>
           \E i \in DOMAIN v : /\ v[i].index = invertedIndex[t].index
                              /\ v[i].val = fieldTermFrequencies[FieldRef(f, r)][t]
  /\ \A r \in FieldRefs :
       Len(elements[r]) = IF r \in DOMAIN fieldTermFrequencies
                          THEN Cardinality(DOMAIN fieldTermFrequencies[r]) ELSE 0

\* Postings and field vectors come from the same documents in two passes, and
\* query vectors from the clauses.  The indices of all of them increase through
\* every insert and upsert, and no insert meets an index that is there; once the
\* vectors are built they say what the postings say, whatever is asked later.
IndexConsistent ==
  /\ VectorSorted
  /\ searching # "duplicate index"
  /\ Built => IndicesDiffer /\ VectorsAgree

\* The token set, which a third pass builds and minimises, has the terms of the
\* inverted index and no other word.
TokenSetRight == Built => Words(nodes, root) = DOMAIN invertedIndex

\* Does a word match a pattern whose stars stand for any characters, and each for
\* `least` of them, 0 or 1, at least?
Glob(least, p, w) ==
  LET m[i \in 0..Len(p), j \in 0..Len(w)] ==
        IF i = Len(p) THEN j = Len(w)
        ELSE IF p[i + 1] = "*"
        THEN \/ least = 0 /\ m[i + 1, j]
             \/ j < Len(w) /\ (m[i, j + 1] \/ m[i + 1, j + 1])
        ELSE j < Len(w) /\ p[i + 1] = w[j + 1] /\ m[i + 1, j + 1]
  IN m[0, 0]

\* The least number of insertions, deletions, substitutions and transpositions
\* between two words; a star is any one character.
Distance(p, w) ==
  LET d[i \in 0..Len(p), j \in 0..Len(w)] ==
        IF i = 0 THEN j ELSE IF j = 0 THEN i
        ELSE Min({d[i - 1, j] + 1, d[i, j - 1] + 1,
                  d[i - 1, j - 1] + IF p[i] \in {w[j], "*"} THEN 0 ELSE 1} \cup
                 IF i > 1 /\ j > 1 /\ p[i] = w[j - 1] /\ p[i - 1] = w[j]
                 THEN {d[i - 2, j - 2] + 1} ELSE {})
  IN d[Len(p), Len(w)]

\* What a term of the index must have, and what it may have, to match a clause.
\* A word of a query counts by its stem, unless that is a stop word; the empty
\* term of a text of signs is never found.  A star stands for no character as well,
\* which is not what the documentation says, see WildcardsStandForSome.  And Must is
\* less than it says of an edit distance, "insertions, deletions, substitutions and
\* transpositions are each treated as an edit distance of 1" (line 1216), and of
\* "hello~2" (line 1688): it has neither words that are one letter longer at the end
\* nor any that are two edits away, of which fromFuzzyString finds some only.
Sought(clause) ==
  IF clause.usePipeline THEN {Stem(clause.term)} \ StopWords ELSE {clause.term}
Must(clause, t) ==
  \E p \in Sought(clause) :
    IF clause.editDistance = -1 THEN Glob(0, p, t)
    ELSE Distance(p, t) <= Min({1, clause.editDistance}) /\ ~IsStrictPrefix(p, t)
May(clause, t) ==
  \E p \in Sought(clause) :
    IF clause.editDistance = -1 THEN Glob(0, p, t) ELSE Distance(p, t) <= clause.editDistance

\* The clauses and the terms of a document that meet in one of its fields.
Meetings(docRef, Matches(_, _)) ==
  {m \in {<<i, f, t>> : i \in DOMAIN clauses, f \in Fields, t \in DOMAIN invertedIndex \ {<<>>}} :
     /\ m[2] \in clauses[m[1]].fields
     /\ FieldRef(m[2], docRef) \in DOMAIN fieldTermFrequencies
     /\ m[3] \in DOMAIN fieldTermFrequencies[FieldRef(m[2], docRef)]
     /\ Matches(clauses[m[1]], m[3])}

\* "Wildcards can be included in terms to match one or more unspecified characters"
\* (lines 1677-1680): when terms have one star at most, a document is a hit only if it
\* has a term in which the star stands for a character or more.
WildcardsStandForSome ==
  LET Matches(clause, t) == \E p \in Sought(clause) : Glob(1, p, t)
      Stars(p) == {n \in DOMAIN p : p[n] = "*"}
      plain == \A i \in DOMAIN clauses :
                 clauses[i].editDistance = -1 /\ Cardinality(Stars(clauses[i].term)) <= 1
  IN phase = "answered" /\ plain => \A r \in DOMAIN results : Meetings(r, Matches) # {}

\* What the code finds, which is less than its documentation says of an edit distance
\* and more than it says of wildcards, see Must.  A query hits the documents that have,
\* in a field it asks for, a term that matches: with wildcards, which stand for none or
\* more characters, exactly those; with an edit distance none farther from the word than
\* that, and all at most one edit away, but for an insertion behind its end.  A hit
\* scores what its terms weigh, each as often as clauses ask for it.  Only a query that
\* is not well formed fails.
HitsRight ==
  /\ phase = "threw" => parseState = "error"
  /\ phase = "answered" =>
       /\ \A r \in DocRefs :
            /\ Meetings(r, Must) # {} => r \in DOMAIN results
            /\ r \in DOMAIN results => Meetings(r, May) # {}
       /\ (\A i \in DOMAIN clauses : clauses[i].editDistance = -1) =>
            \A r \in DOMAIN results :
              results[r] = MapThenSumSet(
                LAMBDA m : clauses[m[1]].boost * fieldTermFrequencies[FieldRef(m[2], r)][m[3]],
                Meetings(r, Must))

=============================================================================
