------------------------------ MODULE DocSearch ------------------------------
(***************************************************************************)
(* search-worker.js and enableSearch of docfx.js: the search box of a      *)
(* page, the worker that has the index, and their messages.                *)
(*                                                                         *)
(* What the index finds for a query is its answer, see LunrIndex; here an  *)
(* answer is named by its query.                                           *)
(***************************************************************************)
EXTENDS Integers, SequencesExt

CONSTANTS
  Texts,       \* what may stand in the search box
  ShortTexts,  \* those of less than three characters
  BadTexts,    \* those that the index refuses with an exception
  Pages,       \* the pages of results that an answer has
  MaxTyped     \* the bound on how often the reader types

ASSUME TextsAssumption == ShortTexts \subseteq Texts /\ BadTexts \subseteq Texts \ ShortTexts

Nothing == "nothing"

VARIABLES
  requests,    \* the worker's requests that are under way
  loaded,      \* the files that came, in their order
  lunrIndex,   \* whether the worker has built the index
  toWorker,    \* messages on their way
  toPage,
  indexReady,  \* the page knows that the index is there
  query,       \* the text of the box, as the last keyup read it
  typed,
  display,     \* "contents" or "results"
  heading,     \* the query that the list is headed with
  results      \* the answer in the list, its page, and the words marked in it

worker == <<requests, loaded, lunrIndex>>
messages == <<toWorker, toPage>>
box == <<query, typed, display, heading>>
search == <<worker, messages, indexReady, box, results>>

SearchInit ==
  /\ requests = {}
  /\ loaded = <<>>
  /\ lunrIndex = FALSE
  /\ toWorker = <<>> /\ toPage = <<>>
  /\ indexReady = FALSE
  /\ query = Nothing
  /\ typed = 0
  /\ display = "contents"
  /\ heading = Nothing
  /\ results = [of |-> Nothing, page |-> 1, marked |-> Nothing]

\* The script of the page starts the worker, and the worker asks for its files.
StartWorker(on) ==
  /\ requests' = IF on THEN {"search-stopwords.json", "index.json"} ELSE {}
  /\ UNCHANGED <<loaded, lunrIndex, messages, indexReady, box, results>>

\* A file comes.  buildIndex waits for both; the page is told when it is index.json.
FileComes ==
  /\ \E f \in requests :
       /\ requests' = requests \ {f}
       /\ loaded' = Append(loaded, f)
       /\ toPage' = IF f = "index.json" THEN Append(toPage, [e |-> "index-ready"]) ELSE toPage
  /\ lunrIndex' = (Len(loaded') = 2)
  /\ UNCHANGED <<toWorker, indexReady, box, results>>

\* Any other status than 200 is passed over.
FileFails ==
  /\ \E f \in requests : requests' = requests \ {f}
  /\ UNCHANGED <<loaded, lunrIndex, messages, indexReady, box, results>>

\* The worker's onmessage: a query before the index is built, or one that is not
\* well formed, ends in an exception, and has no answer.
Answer ==
  /\ toWorker # <<>>
  /\ toWorker' = Tail(toWorker)
  /\ toPage' = IF lunrIndex /\ Head(toWorker) \notin BadTexts
               THEN Append(toPage, [e |-> "query-ready", q |-> Head(toWorker)]) ELSE toPage
  /\ UNCHANGED <<worker, indexReady, box, results>>

\* The page's onmessage.
IndexReady ==
  /\ toPage # <<>> /\ Head(toPage).e = "index-ready"
  /\ toPage' = Tail(toPage)
  /\ indexReady' = TRUE
  /\ toWorker' = IF query \in Texts \ ShortTexts THEN Append(toWorker, query) ELSE toWorker
  /\ UNCHANGED <<worker, box, results>>

\* handleSearchResults: the first page is shown, with the words of the box as it is.
QueryReady ==
  /\ toPage # <<>> /\ Head(toPage).e = "query-ready"
  /\ toPage' = Tail(toPage)
  /\ results' = [of |-> Head(toPage).q, page |-> 1, marked |-> query]
  /\ UNCHANGED <<worker, toWorker, indexReady, box>>

\* onPageClick
PageClick ==
  /\ display = "results"
  /\ results.of # Nothing
  /\ \E p \in Pages \ {results.page} :
       results' = [results EXCEPT !.page = p, !.marked = query]
  /\ UNCHANGED <<worker, messages, indexReady, box>>

\* Mutant of Post: a query is sent on only if none is under way.
PostOne(q, handlers) ==
  IF indexReady /\ q \notin ShortTexts /\ toWorker = <<>> THEN Append(toWorker, q) ELSE toWorker

\* queryReady: each handler of the box posts the query, once the index is ready.
Post(q, handlers) ==
  IF indexReady /\ q \notin ShortTexts
  THEN toWorker \o [n \in 1..handlers |-> q] ELSE toWorker

\* keyup, with as many handlers as were bound.
KeyUp(handlers) ==
  /\ handlers > 0
  /\ typed < MaxTyped
  /\ typed' = typed + 1
  /\ \E q \in Texts :
       /\ query' = q
       /\ display' = IF q \in ShortTexts THEN "contents" ELSE "results"
       /\ heading' = IF q \in ShortTexts THEN heading ELSE q
       /\ toWorker' = Post(q, handlers)
  /\ UNCHANGED <<worker, toPage, indexReady, results>>

-----------------------------------------------------------------------------
\* A query is posted by the keyup or, if the index was not ready, when it is;
\* answers come late, for texts that have gone from the box, and are shown with
\* the words that are in it by then.  If the stop words came before the pages,
\* the answer to the last text that can be answered is in the list in the end,
\* under its own heading, for as long as it stays.
SearchSettles ==
  <>[](loaded = <<"search-stopwords.json", "index.json">> /\
       query \in Texts \ (ShortTexts \cup BadTexts)
       => /\ results.of = query /\ results.marked = query
          /\ display = "results" /\ heading = query)

=============================================================================
