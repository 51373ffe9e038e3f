# donet-tcp: specifications, model checks and proofs

The repository is a collection of programs that move bytes over TCP, mostly C#,
and the documentation site of one of them, whose search engine and page script are
JavaScript.
This directory holds TLA+ modules for their own logic, the configurations that
TLC checks them with, and proofs that TLAPS checks. `PROJECT.json` maps each
definition to the lines it models, lists every run with its properties, and the
hazards in the code that the properties are for.

    tlc -workers 2 -config MCStreamPackPool.cfg MCStreamPack
    tlapm StreamPackProofs.tla

## 1. The system

| Component | Source | State it keeps | Module |
|---|---|---|---|
| HTTP client, connection pool | `LeiKaiFeng.Http/…/MHttpClient.cs`, `MHttpClientHandler.cs`, `StreamPool.cs` | a bounded channel of request packs, a semaphore, per connection a socket, a writer, a reader and a bounded channel between them | `StreamPack`, `RequestService` |
| HTTP stream and parser | `MHttpStream.cs`, `MHttpRequest.cs`, `MHttpResponse.cs` | a buffer with an unread window, the parser function in force | `HttpStream` |
| Forward proxy, tunnel | `PornhubProxy/Pornhub/ForwardTunnelRequest.cs`, `TunnelProxy.cs` | the pool's work items, per connection its stage, its two copies, its two streams | `Tunnel` |
| Remote addresses | `ConnectHelper.cs` | a queue of addresses shared by all connections | `AddressRing` |
| Video proxy | `PornhubProxyServer.cs` | per connection its request, per request its fetches and the source of the first good page | `VideoProxy` |
| Buffered stream | `stream-extended/…/CustomBufferedStream.cs` | buffer, position, length, `closed` | `BufferedStream` |
| Copy stream | `CopyStream.cs` | a second buffer for what was read | `CopyStream` |
| Hello peek | `SslTools.cs`, `CustomBufferedPeekStream.cs` | a position in the buffered stream's window | `HelloPeek` |
| ALPN adders | `ServerHelloAlpnAdderStream.cs`, `ClientHelloAlpnAdderStream.cs` | whether the first write is over | `AlpnAdder` |
| Buffer pool | `DefaultBufferPool.cs` | a stack of arrays | `BufferPool` |
| Pipelines proxy | `Test-Proxy-System.IO.Pipelines/…/ProxyClient.cs`, `ProxyServer.cs` | two sockets with two pipes each, six loops, a work queue and its thread | `PipeProxy` |
| Search index | `stream-extended/docs/styles/lunr.js` | inverted index, field vectors, token set, per query its lexer, parser and query vectors | `Vector`, `TokenSet`, `QueryParser`, `LunrIndex` |
| Search page and worker | `search-worker.js`, `docfx.js` (`enableSearch`) | the worker's files and index, messages both ways, the box and the list | `DocSearch`, `DocSite` |
| Page script | `docfx.js` | the stack of the outline, the tabs chosen, the marks of the table of contents | `Outline`, `TabGroups`, `PageNav`, `DocSite` |
| TLS handshake proxy | `TLS-Handshake-Proxy/Client.cs`, `src/server.ts` | per connection a packet | not modelled, section 7 |
| PAC server, pipelines demo, echo server, certificates, applications, tables | | | not modelled, section 7 |

How they interact. `MHttpClient` puts packs into the channel of a host's pool;
the pool's loops call `MHttpStream` for each request and response. The video
proxy is a client of the same pool and an action of the forward proxy, which
reads its CONNECT requests with `MHttpStream` as well. The streams of
Stream-Extended are built on one another: the peek reads through the buffered
stream, the adders peek at what is written, the copy stream wraps a reader and a
writer, and all take their arrays from one pool. On a page of the documentation
site, the script sends what a reader types to a worker, and the worker asks the
index that it built with lunr; the two run at the same time and exchange messages.
The other programs stand alone.

What is hard in each, and what makes it correct:

* *Pool.* Callers, dispatcher, writers and readers wait on one another through
  two bounded channels and a semaphore, while requests are cancelled, time out
  or fail in every stage. A pack must be settled once, with its own response;
  permits must not leak; a call must return.
* *HTTP stream.* A message comes in any pieces into a fixed buffer whose unread
  bytes are moved to its front; the parser must not see the cut, nor read beyond the message, and an
  error must not eat the next message.
* *Tunnel.* Work items run late, two copies end at different moments and the
  streams are closed under them. Nothing may be lost or moved before that, and the
  tunnel must close.
* *Addresses.* A queue operation that is not atomic is run by several threads.
* *Video proxy.* Several fetches race for one answer, and are still under way
  when the next request is served. Each request must get one page, its own.
* *Stream-Extended.* Operations of very different granularity (byte, line, peek,
  fill, copy) on one buffer, with reads that are cut, cancelled or fail; lengths
  inside a hello that are trusted; a pool of arrays that outlive their users.
* *Pipelines proxy.* Threads of a pool and one work thread wake each other up
  through pipes; a disposal may come from any of them.
* *Search index.* Three passes over the documents must leave structures that agree;
  vectors are kept sorted by a bisection, terms in an automaton whose nodes are
  merged by a key made of text; a query passes two machines of states with shared
  buffers. Nothing fails aloud: a slip loses hits.
* *Search page.* The worker's two files come in either order or not at all; answers
  come late, for text that has changed since.
* *Page script.* One pass with a stack builds the outline; all groups of tabs share
  one list of choices; the marks of a filter are left for the next.

`PROJECT.json` lists the single hazards, each at its line.

## 2. The modules

**`StreamPack`** is one host's pool. `caller`/`reply` are
`MHttpClient.Internal_SendAsync` and the pack's `TaskCompletionSource`, `queue`
the channel of `MHttpStreamPack.Create`, `dpc`/`slim` the dispatcher `AddTask`,
`task[c]` the stages of `AddTask1`, `wpc`/`whand`/`wcount` the writer loop,
`rpc`/`rhand` the reader loop, `pending[c]` the channel between them. An action
is what a loop does between two awaits. The server answers the requests of a
connection in order with responses that the parser takes, refuses whole or
refuses half-way, or sends a frame nobody asked for, and may close at any time; a
caller may cancel, and with `HasResponseTimeOut` a time-out fires. Aborting a
socket (`Cencel`) fails the loop that is using it and, later, the other one.

**`RequestService`** is what the pool promises its callers: a call asks, is
settled at most once with an outcome of its own, and asks again or returns.
`StreamPack` implements it (`ServiceSpec`: the two variables of the service are
the pool's `caller` and `reply`). `VideoProxy` is composed with it: its fetches
are calls of `RequestService`, by `INSTANCE ... WITH Requests <- Fetches`.

**`HttpStream`** is `MHttpStream` with the parser functions of requests and
responses. A byte is a mark, a framing byte that stands for what the header fields
say, or data; `m_buffer`, `m_read_offset` and `m_used_offset` are the code's, and
`Size` is the buffer's length. `func` is the function that `ReadAsync` runs over the
window (header, bytes, chunk length, chunk) with its captured counters; `Move` shifts
the window to the front before each read, and throws when it fills the buffer.
`reading` says whose `ReadAsync` is called, a response's or a request's.

**`BufferedStream`**, **`CopyStream`**, **`HelloPeek`**, **`AlpnAdder`**: one
action per public operation and per continuation after an await. `HelloPeek`
gives a hello by the lengths of its fields; `AlpnAdder` extends it, and a behaviour
of it is either a peek at a connection or an adder's peek at what is written.
**`BufferPool`** has the stack's operations and, as its users, the lifetimes of
streams and of the operations that borrow an array.

**`Tunnel`** models a connection from the accept loop (`Accept`), the work item
(`StartReading`), `ReadRequest`, `Route`, `CreateLocal`, `CreateRemote`, to the two
`CopyToAsync` (`CopyReads`, `CopyWrites`, `CopyEnds`, `CopyFails`) and the
continuation of `WhenAny` (`Close`, one stream at a time). A copy that fails drops what
it had read (`CopyFails`). **`AddressRing`** splits
`CreateIp`'s function into its three queue operations; `Tunnel` extends it, so that
the connections that it handles turn one queue. **`VideoProxy`** has
`GetResponseAsync` (`Ask`, `Settle`, `Retry`), `createOneRequest`,
`sendFirstResponse` with what `WhenAny` gives when both tasks are complete, and the
request loop.

**`PipeProxy`** is one client of the pipelines proxy with its six loops: the two
that receive, the two that parse messages and relay them, the two that send;
continuations are scheduled on the work queue, whose thread runs them.

**`Vector`** is `lunr.Vector`: an action is the start of a bisection, one round of its
loop, or the change at the place found, so that the bounds of the search are state.
**`TokenSet`** has the builder of the automaton as actions over a heap of nodes
(`InsertWord`, `Finish`) and the automata of query words as operators: the word with
its wildcards, the tree of a word's edits, and the intersection. **`QueryParser`** is
`QueryLexer` and `QueryParser`, an action per call of a state function. **`LunrIndex`**
composes the three: `Add`, `Build` and the passes of `build`, then one query after
another, `Search`, `Parse`, `QueryClause`, `UpsertTerm`, `Score`. A weight is a number
of occurrences.

**`Outline`** is `getHierarchy`, an action per branch for a header. **`TabGroups`** is
`initTabs` and `handleClick`, **`PageNav`** the navigation bar, the table of contents,
its filter and the breadcrumb, **`DocSearch`** the worker, its files, the messages and
the search box. **`DocSite`** composes the four: the script runs from `Start` over
`RenderAffix` to `RenderTabs`, and after that, or after the exception that ended it,
events come in any order.

The `MC*` modules give the constants their values. `MCStreamExtended` puts the three
parts of Stream-Extended side by side, and `MCParsers` the HTTP stream and the search
index: a behaviour of such a run is one of a single part, chosen by `part` at the start,
while the others stay where they began. Definitions marked "Mutant" stand before the
definition they vary; a mutant is a plausible bug, and each property of a passing run is
violated by one of them.

## 3. The runs

Passing runs (`tlc -config <cfg> <module>`):

| Run | Configuration | Instance | Shows |
|---|---|---|---|
| pool | `MCStreamPackPool` | 2 calls, 1 permit, 2 tasks after each other, both time-outs, 2 faults | `PackConservation`: a pack is in one place, or settled. `PoolBound`: permits and running tasks add up. `InStep`, `OwnResponse`: packs and responses stay in step, nobody gets another's response. `ServiceSpec`: refinement. `EveryCallReturns`, `ConnectionsEnd`: but for a first write that never ends (`Stuck`) and a call whose time-outs are taken for I/O errors for ever |
| parsers | `MCParsers` | HTTP: every pair of ten kinds of response or of four kinds of request, every split, buffer of 11 | `CallsFollowMessages`, `RefusalStays`, `NoReadPastMessage`, `RoomToRead` |
| | | search: 3 pages, any of them left out, 1131 query strings one after another | `IndexConsistent`: vectors stay sorted, terms have indices of their own, and vectors say what the postings say; `TokenSetRight`: the token set has the same terms; `ParsedRight`: a query is what its characters say; `HitsRight`: hits and scores against a reference definition, in which a star stands for any number of characters, none included |
| tunnel | `MCTunnel` | 2 connections, 3 rules, 2 addresses, 1 tunnel with 2 bytes | `RequestsRight` (each connection handled once, by its longest rule), `AddressesKept`, `TunnelInOrder` (what arrives begins what was sent; what is lost is what a failing copy had not written, after a reset or the other copy's end), `TunnelCloses` |
| video | `MCVideoProxy` | 2 requests, 2 fetches each, 1 retry | `AnswersInOrder`, `RequestEnds` (but for a fetch that the pool keeps and a client that does not read) |
| stream_extended | `MCStreamExtended` | 6 bytes, every split, 1 failing read; the reader itself, and through a copy buffer smaller than its own | `InOrder` (with the bytes that a failed line loses), `AnswersRight` (peeks and lines), `ClosesAtEnd`, `OperationsEnd`, `CopyFaithful` |
| | | hellos of every form in every split and three buffer sizes; hellos written through an adder | `HelloRight`: no byte before it is there, what is reported is the peer's, a hello that is all there is not answered with null; `HelloStaysOne`: the lengths of a hello with extensions agree after the adder's. `MessageBehind`, another message behind a hello without extensions, is left out of the second, and of the first but for null |
| | | 3 streams, 2 sizes, 5 arrays | `NoSharing`, `RightLength` |
| pipes | `MCPipeProxy` | 2 messages one way, half a one the other, a reset, a disposal | `WokenOnce`, `RelayInOrder`, `OneDisconnect`, `ProxyEnds` (after a reset, and of the server's disposal) |
| docsite | `MCDocSite` | all lists of up to 5 headers, pages of tabs, of navigation and of search; 3 texts typed | `OutlineNests`, `OutlineComplete` (of the outline returned: each header with an id once, in order, but a lone topmost one), `TabsRight`, `FilterRight`, `BreadcrumbRight`, `SearchSettles` (when the stop words came first) |

Five runs end in a violation, each of a sentence of the repository:

* `fill_full` (`MCBufferedStreamFull`, `ZeroMeansEnd`), of the documentation of `Read`: the
  synchronous `FillBuffer` on a full buffer asks the base stream for no bytes, gets none,
  and takes that for the end;
* `hello_pieces` (`MCAlpnAdderPieces`, `NullMeansNoHello`), of the README of
  Stream-Extended, which has null for connections that are not TLS: `PeekByteAsync` fills
  the buffer once, so that a hello in two pieces is answered with null as well;
* `video_unchecked` (`MCVideoProxyUnchecked`, `VideoPagesPass`), of the comment on
  `PornhubProxyServer`, by which a video page is asked for until it passes: when the fetches
  are over at `WhenAny`, also with one that passes, a further page is fetched and sent
  unchecked;
* `lunr_wildcards` (`MCLunrIndexWildcards`, `WildcardsStandForSome`), of the documentation
  of `search`, by which a star stands for one or more characters: it stands for none too;
* `digits` (`MCTokenSet`, `TokensKept`), of the comments on `lunr.TokenSet`: the key of a
  node joins labels and ids without a separator, so that nodes of words with digits are
  taken for one another. Of five words inserted two are lost, and a sixth is found.

The models also show behaviour of the code that no run states, because nothing in
the repository promises otherwise, or only in passing. Each is in a model's action,
named here, and in the hazards:

* a response with `Content-Length: 0` is not returned before a further byte comes
  (`UseByteArray` asks for `CanUsedSize > 0`; `NoReadPastMessage` leaves it out);
* the message behind a server's hello without extensions is taken for them
  (`HasExtensions`), which gives extensions that are none, or runs off the buffer
  (`Misread`); the adder's `Write` passes such an exception on (`WriteHello`);
* peeks through a copy stream make the reader refill without a flush, so that single
  bytes may overrun the copy buffer (`CopyReadByteFromBuffer`), and a line cannot be
  read through it, as the pool is never stored (`CopyReadLineAsync`); the client's
  adder does not store it either (`PoolAssigned`);
* `PeekBytesAsync` ignores the position (`EndPeekBytes`);
* a connection of the pipelines proxy that its peer closes is never ended
  (`Receive` of no bytes);
* the bytes that a line has moved to its own array are lost when its read is cancelled
  or fails (`lost`), and those that a copy of the tunnel has read when the other one's end
  closes the streams under it (`CopyFails`);
* the first write of a connection has neither token nor time-out, so that a peer that
  does not read it holds the connection and its call for ever (`Stuck`); a read that the
  time-out aborts may surface as an I/O error, for which the request is sent again
  (`ReadFail`);
* a video page waits for ever for a fetch that the pool does not settle, as the handler
  sets no response time-out (`WaitsForPool`);
* on the generated site the search box is dead: its pages name no navigation file
  (`docfx:navrel` is empty), and only the answer to that file binds the handlers of the
  box (`NavbarComes`, `keyHandlers`);
* `index-ready` is posted before the index is built, so that a query before the stop
  words came, or when they do not come, ends in an exception without an answer (`Answer`);
* a table of contents whose fetch fails is fetched again without end (`TocFails`), a
  navigation bar without a list too, and each answer binds the box's handlers once more
  (`NavbarComes`);
* the worker adds its stop words when the documents are in: documents keep them,
  queries drop them (`Build`). Its separator is misspelled (`lunr.tokenizer.seperator`)
  and its boosts are an argument that `field` does not have, so neither has an effect;
* an edit distance does not find an insertion behind the end of the word, and of the
  words at a distance of two some only, though `lunr.js:1216` counts every insertion as
  one and line 1688 has the words at a distance of two (`Edited`; `Must` asks for neither);
* the outline of a page with a single topmost header is returned without that header
  (`Return`);
* groups of tabs of which only some ids are the same need not agree: `<A, B>`, `<B>`,
  `<A, B>` ends with A in the first group and A and B in the last; a click that leaves a
  group without a visible tab ends in an exception (`UpdateVisibilityAndSelection`);
* a header that ranks above the first one ends the script before the tabs are set up
  (`BuildParent`); the tabs in the address are written but never read (`InitTabs`);
* an entry of the table of contents without a match may stay shown by marks of an
  earlier filter (`Inner`).

### Bounds

Each bound is a constant of the configuration or a guard that names it. The pool
needs two packs to confuse on one connection, a second connection that takes what
the first has left, and a fault that meets another one (`MaxFaults` counts
cancellations, closes, refusals and stray frames together). With more permits and
calls the connections compete for the same channel: the types, `PoolBound`, `InStep`
and `OwnResponse` are proved for any number of them. The buffer of `HttpStream` is
just larger than the longest header of the instance, so that the
unread window is both moved down and refused for lack of room. That the calls
follow the messages is proved for any buffer, messages and cuts. The streams have more bytes than their buffers: what a buffer can
be in is given by its window. `MaxTunnels` lets one of the two connections come as
far as its copies, since tunnels share nothing but the queue of addresses, which the
other one turns meanwhile; `MaxBytes` is two for both directions together, which is
a chunk that is overtaken, or one each way when the closing comes. Two fetches of a video
page are enough for a winner, a loser and a straggler; two requests for a
straggler of an earlier one.

The pages of `lunr` have words that are prefixes of one another, a stop word, capitals
and signs, and references with slashes; its query strings are all of up to three
signs of the language, letters and digits from a small alphabet, and longer ones with
several clauses. Five headers over four levels are every jump down and up again. The
tabs have shared, several and conditional ids, and a group that may hide all of its
tabs. `MaxTyped` leaves an answer late for two texts, and `MaxGets` shows that a
file is fetched again; both only cut off what repeats.

`CHECK_DEADLOCK FALSE` stands where the system really comes to rest: its clients
have gone, its calls have returned, its thread has ended.

### Fairness

Weak fairness is put on what the runtime does by itself: the continuation of an
await that is complete, a queued work item, a time-out that is set. Never on the
peers: they may stay silent, and a write may wait for ever for one that does not
read. In `StreamPack` no fairness is on the end of a write, only on its failure once the
socket is closed under it; in `VideoProxy` none on the pool's settling of a fetch and none
on the client's reading of an answer. The worker of the documentation site takes its
messages and the page its answers, while files may fail and the reader need not type.
Where a peer can hold the program for ever, the liveness properties say so in a disjunct
of their own: `Stuck` of `StreamPack` is a connection whose first write does not end, and
`WaitsForPool` of `VideoProxy` a handler whose answer depends on a fetch that the pool
keeps. `EveryCallReturns` needs the response time-out (and `ConnectionsEnd` the idle one);
without it a silent server holds a call for ever, as the code's default of "never" says.
Faults are bounded in the liveness runs, as an endless sequence of I/O failures is answered
by endless retries; a time-out that surfaces as an I/O error is not counted among them,
so that the properties leave out a call that is sent again for ever.

## 4. What is proved

For all values of the constants, by TLAPS:

| Module | Theorem | Says |
|---|---|---|
| `StreamPackProofs` | `TypeCorrect`, `PoolCorrect` | types; permits and running tasks add up |
| | `InStepCorrect`, `OwnResponseCorrect` | packs and responses in step; no caller gets another's response |
| | `NoPackLost` | a waiting call's pack is in one place, a settled one in none |
| | `PoolImplementsService` | the pool implements `RequestService` |
| `HttpStreamProofs` | `TypeCorrect`, `WindowCorrect`, `RoomCorrect` | types; the window lies in the buffer; there is room whenever a read is made |
| | `RefusalAlwaysStays` | after a refusal every later call on the stream ends the same way |
| | `CallsAlwaysFollow` | one call after the other returns the content of one message after the other, up to the first that is refused for its own reason |
| | `NeverReadsPast` | a call with its whole message does not read on, but for a content of length zero |
| `StreamExtendedProofs` | `AlwaysInOrder`, `AnswersAlwaysRight` | each byte is given in order and once, or lost with a failed line; peeks and lines are right |
| | `CopyAlwaysFaithful`, `CopyKeepsStream` | the writer takes what is read through a copy stream; its reader keeps its order |
| | `ClosesOnlyAtEnd` | what closes a buffered stream |
| | `NoSharingCorrect`, `RightLengthCorrect` | of the buffer pool: no array in two hands; arrays have their stream's length |
| | `PeekAlwaysRight` | what is reported is a hello of the side asked for, and one that is all there is not answered with null; without a message behind a hello that has no extensions, no byte is read before it is there and the hello is reported where it ends |
| | `HelloAlwaysOne` | the lengths of a hello that the adder extends agree with its bytes, if it has extensions or ends its record |
| `TunnelProofs` | `AddressesAlwaysKept` | the turns of the queue neither lose nor double an address |
| | `RequestsAlwaysRight` | each connection is handled once, by its longest rule |
| | `TunnelAlwaysInOrder` | what arrives begins what was sent, all of it when a copy ends; a copy that fails, after a reset or the other's end, loses what it had not written |
| `PipeProxyProofs` | `AlwaysWokenOnce` | a waiting loop is continued by one work, never by two and never by none |
| | `DisconnectsOnce` | the end of a client is published once |
| | `AlwaysRelaysInOrder` | a peer is sent the other's whole messages, in order and once |
| `VideoProxyProofs` | `TypeCorrect` | types |
| | `AnswersAlwaysInOrder` | a connection is sent one answer per request, in order, each from a fetch of its own request |
| `DocSiteProofs` | `OutlineAlwaysNests` | every item of an outline stands below the nearest header before it that ranks higher |
| | `OutlineAlwaysComplete` | the outline returned has every header with an id once and in order, but for a lone topmost one; an exception means that one ranks above the first |
| | `BreadcrumbAlwaysRight` | the breadcrumb has the active links and the path to each entry of this page, in whichever order the files come |
| | `FilterAlwaysRight` | a leaf is hidden exactly if its full title has not the text; nothing above one that has it is |
| | `TabsAlwaysRight` | a section is shown only with its tab, and a group that can be seen shows one, also after exceptions; without one every group does, and two plain groups that offer the same agree, if what stands between them offers the same or none of it; when all do, the one tab shown is the one in the address |
| `LunrIndexProofs` | `QueryAlwaysParsedRight` | no character of a query is lost, and its clauses are what its terms and modifiers say |
| | `IndexAlwaysConsistent` | the vectors of the search index stay sorted, no insert meets an index that is there, and the vectors of the fields have the terms and weights that the postings name |

*The pool.* `PoolBound` is not inductive by itself: a step that releases a permit
has to know that the task held one. `IInv` of `StreamPackProofs` adds `TypeOK` and
`Hands` (a loop's hand is full exactly in the states between taking and passing
on). Cardinalities of the running tasks are followed with the library's facts on
finite sets; `IsFiniteSet(Conns)` is the assumption they need.

*Order.* `OInv` of `StreamPackProofs` is `IInv` with `InStep` and `OwnResponse`.
`InStep` says that, on a connection whose buffer does not begin with a frame that
the parser refuses for good, the frames in `inbox` are, one by one, strays or the
answers to the packs outstanding (the one in the reader's hand, those in `pending`,
the one that is being written), and that while the socket is open frames and
requests on `wire` are together exactly those packs. A response is delivered from
the head of both, hence `OwnResponse`; a stray goes to whoever is first.
The proof goes action by action over lemmas on concatenation, head, tail and
append.

*No pack lost.* `PackConservation` counts the places of each pack, which no step can
be followed through by itself. `Conserved` of `StreamPackProofs` says it with sets:
the queue and the tasks share no pack and have together those of the unsettled calls
(`Shared`), a task has each of its packs once (`OnceInTask`), a reader leaves after its
writer and with its channel empty (`ReaderLast`), and a call that has not offered its
pack has no outcome (`NotAsked`). Without `ReaderLast` a pack could stay behind in a
channel nobody reads. The refinement follows from it: a pack that a loop settles is one
of a call that waits, so that each step is a step of the service or none.

*The stream.* The window invariant is inductive together with the types: the
indices stay in range only while a function uses no more than the window. That a
read has room follows from `Move`, which refuses a window that fills the buffer.
That a refusal stays needs to know why: after a refused header that header is still
first in the window, and after an overflow the window fills the buffer and has no end
of a header (`StaysInv`).

That the calls follow the messages is an invariant of where the parser is (`FollowInv`).
While no call has failed, as many messages are used as calls have ended, and within
the next one `Place` says how far: behind its header, in a content of which so many bytes
are taken (`ContentPlace`), at the length of a chunk (`LengthPlace`), or so many bytes
into its data and mark (`ChunkPlace`), with what the array or the `MemoryStream` holds by
then (`Brings`; the mark of the chunk before is in it until two bytes have overwritten
it). `Short` says why a socket is read: the window has no end of the header, no end of
the length, or is empty; without it a read behind a whole message, or an overflow of one
that fits, could not be ruled out. Where a mark is found first is a fact on the bytes
sent (`HeaderMark`, `LengthMark`): a header has no line end before its end. The bytes of
chunks and messages are joined by a recursive function over their number, and what stands
where in the result is proved by induction once, for any joined sequences (`PieceFacts`).
These two theorems need `AgreementAssumption`, that a message's fields agree with its body;
the others hold for every sequence of messages.

*The buffered stream.* Bytes are numbered as they are sent, so that order is a fact on
runs of numbers. `IInv` of `StreamExtendedProofs` is that the bytes operations have moved
out of the window (`used`) are a run from the first byte (`Run`), the window holds the run
behind it (`Holds`), the window of a suspended operation is at the front of the buffer, and
a line that goes on has met no line end yet (`LineGoesOn`); without it a line that was read
in pieces could run past its end. Of the bytes in `used`, those of a line whose read failed
were given to nobody (`lost`); `LostRight` says that they are the unfinished line's and no
others: before each line that goes on, with no line end among them.
Each operation has a lemma that takes it from what it is given (`Given`) to what it
leaves (`Left`), used both when it starts and when it goes on after an await.
`CopyInv` adds that `dest` and `copyBuffer` are runs that make up `used`.

*The tunnel.* Five invariants. `RingInv`: the queue and the hands have every address
once; it needs the assumption that `NoAddress` is none of the addresses. `HandInv`: a
connection is in the pool's work items exactly once until it is read, and never again.
`RuleInv`: a routed connection has the rule that `Get` gives for its host; the shortest
cut that is registered leaves the longest name. `BytesInv`: up to the failure of a copy,
what arrived, what it holds and what is on the wire are together what was sent (`InFlow`).
`EndInv`: what arrived begins what was sent, also after a failure; a copy that ended left
nothing on the wire, and its peer sends no more (`EndedAll`); streams are closed only after
a copy is over (`ClosedWhy`), so that a copy fails only by a reset or after the other one's
end (`FailedWhy`).

*The buffer pool.* Its invariant (`PoolInv`, in `StreamExtendedProofs`) adds that only
arrays that were made are in the stack; an array made anew is then in nobody's hand.

*The video proxy.* `AnswersInOrder` needs to know why an answer has its place and
whose page it is: `InTurn` ties the number of answers to the request that is read, in
each phase, `ChosenRight` says that what a hedge takes is a fetch of the current request
that passes, and `PageRight` that what is sent is that, or the page asked for alone. A
straggler of an earlier request is none of these. A page that passes goes on to.

*The hello.* `AtStep` says what is known at each step of the peek: how far it has come
is `Start(step)`, the sum of the fields before, and which of the checks on the hello
have passed. `PlaceRight` says where the extensions begin when none is reported. The sums
of the fields' lengths, and where the block ends, are found by induction over the number
of extensions. `WriteRight` ties the peek inside a `Write` to a hello that is all there,
so that `WriteHello` raises lengths that are right before it. Both theorems are about hellos
whose fields agree, and leave out `MessageBehind` where the property does: there the code
reads the next message as extensions. A hello of which only a part was there when the peek
filled the buffer may be answered with null; the theorem speaks of one that is all there,
and the run `hello_pieces` shows the other case.

*Vectors.* Sortedness is not inductive without the search: `SearchBounded` keeps the
index that is looked for between the bounds, with all before them smaller and all
behind them greater, and ties the pivot to the middle. When at most one pair is left
the place is then the only one that keeps the order (`VectorInv` of `LunrIndexProofs`).

*Postings and vectors.* That the two agree is seen only when both are made; `FillInv`
says how far each is. Postings and frequencies name the same terms after every document
(`IndexRight`): the two nested loops of `Add` are followed term by term and field by
field (`PostTermsStep`, `PostFieldsStep`, by induction over positions), and so are the
tokenizer and the functions of the pipeline, which must make words of words. While
vectors are filled (`Making`), a vector has one pair for each of its terms that is neither
left in `todo` nor the one whose place is looked for (`Inserted`); no other term has the
index of that one, so that no insert hits, and when nothing is left to do the pairs are
those of all terms (`Made`). Queries change the vectors of queries only (`Asking`), which
needs of the parser that the fields of a clause are fields of the index and its boost a
number (`ParserInv`). It needs of `LunrAssumption` that no field has a slash in its name,
as the separator of a field reference, and that the documents have different references:
`index.json` is keyed by them, and the worker looks hits up by reference. Fields, texts
and references are any strings otherwise, and references may have slashes.

*Queries.* `ParsedRight` is inductive only with what has been read and parsed so far
(`ParserInv` of `LunrIndexProofs`). For the lexer (`LexInv`): the lexemes that are out,
the one that is open without the escape characters cut from it, and what is behind the
position make up, in this order, the plain characters of the query (`Read`); a number is
looked for only at its sign. For the parser (`Parsed`): the lexemes consumed are well
formed, every term that is behind the next one has its clause (`DoneTo`), and in the
states of the modifiers the clause that is open is that of the last term with the
modifiers consumed (`OpenTo`). What `Plain` is of a string, and what cutting pieces at
the escapes leaves, is found by induction over positions. It needs that queries are
strings of characters.

*Outlines.* The invariant says of each frame of the stack that its siblings are of one
level, that frames rank downwards, and that what is attached already is below the
nearest higher header; popping a frame attaches its siblings below the last item of
the one before, which is that header.
`CompleteInv` adds that each header so far is below another or in one frame: the levels
of the frames differ, so that none is there twice. The first sibling of the first frame
is the first header with an id, and nothing so far ranks above it; popping that frame is
therefore the one way to the exception. `OrderInv` adds that siblings and the items of each
header stand in the order of the page, which needs that what is below the last header of a
frame came before the frame behind it (`ItemsBefore`), and what the code returns of it all:
the last frame's siblings or, when there is one only, its items (`Returned`). From both
follows where each header is in what is returned. The page's script is the outline's while it
renders it (`PageHasOutline`), which carries both to `Spec`.

*Navigation and filter.* `NavInv` says that the entries marked as active are those of
this page and what is above them (`ActiveOf`), whatever came and failed so far, and that
the breadcrumb was rendered from what is there. A filter hides
leaves first and then visits the entries that have others below them, in the order of
the document: the fold over them is followed entry by entry, and leaves no leaf other
than it was (`LeavesStay`). An inner entry can be shown by a mark of an earlier filter, so
that the theorem speaks of leaves and of what stands above them, as the property does.

*Tabs.* An update goes through the groups one after the other, and each takes the list of
chosen ids as those before have left it, gives up its own ids and adds one. What a group
shows is what its own update left, whatever the list is later (`AllUpdated`). A group all of
whose tabs are hidden shows nothing and ends the update with an exception, before the
groups behind it; they keep what they showed, so that what is said of single groups
(`Settled`) holds after it too. That two groups agree needs the list itself. The update of
a plain group shows the tabs that the list chooses and leaves one that chooses the same
(`PlainUpdate`); one of a plain group that offers the same does not change what it chooses,
and one that has none of its ids changes nothing in it (`ApartUpdate`). So as long as the
groups behind it are alike or apart, the list still chooses what the group shows
(`Agrees`), and the next group that is alike shows the same (`AgreeUpTo`). When all groups
are plain and alike, from the first on the list has just the first id of the tab that is
shown (`AllChoose`), and no other tab has that id; at the start the first group
finds nothing chosen and chooses its first tab. `TabsInv` says this of the page from
`InitTabs` on, which finds it as it was loaded. It needs of `SiteAssumption` that a group
has a tab and a tab an id, as the generated pages have.

*The pipelines proxy.* `TaskInv` of `PipeProxyProofs` counts works in the queue: a loop
that is to be continued has one (`WakeInv`), and a disposal is in the queue, in a task of
its own or performed, one of them, exactly when the client was marked as disposed
(`ClientInv`); that the loops of a client not yet run are off and have no work is what
keeps `Run` from waking one twice. After `CompleteAdding` a loop may be marked as
continued without a work, so that for the bytes `ReadOnce` is needed: a reader has at
most one work, and none once it ended. `Relays` says that what was relayed begins the
peer's stream with whole messages and that the pipe and the bytes on the way go on where
they end.

Assumptions are the `ASSUME`s of the modules, which every run evaluates.

## 5. What is only model-checked

Liveness (temporal reasoning under fairness is not in the prover's reach here), which is
`EveryCallReturns`, `ConnectionsEnd`, `TunnelCloses`, `RequestEnds`, `OperationsEnd`,
`ProxyEnds` and `SearchSettles`. Of `lunr`, `TokenSetRight` and `HitsRight`: they say
what the recursive functions over automata and over pairs of positions (`Words`, `Edited`,
`Intersect`, `Dot`) compute, and `TokenSetRight` is not true of every word, as the run
`digits` shows. Where a
recursive function or a fold is one over numbers (sums of lengths, the bytes of a message,
the characters of a query, the entries of a table of contents, the groups of tabs) the
proofs do go by induction, over the set of the numbers that have the property (`Reaches`).

## 6. Plan

Done in this order: pool and its service, parser, their proofs; Stream-Extended;
pipelines proxy; tunnel, addresses, video proxy; buffer pool; the search index and the
pages of the documentation site, with the proof of the outlines; the proofs
of the buffered and the copy stream, of the tunnel and its addresses, of the
pipelines proxy, and of the refinement of the service; the proofs of the video proxy, of
the hello and its adders, of navigation, filter and tabs, of what the calls of the HTTP
stream return, of the lexer and parser of queries, and of the postings and vectors of
the search index.
What is left:

1. `HostPools`: `StreamPool.Find` with its racing factories, over several hosts, and
   `PacServer`'s loop; the connect and TLS time-outs of `MHttpClientHandler`.
2. More clients in `PipeProxy`, and the pipes' back-pressure.

## 7. What is not modelled

* The TLS handshake proxy is work in progress in the repository, and its parts do not
  fit together: `server.ts` reads `req.body` without a body parser, so that its handler
  ends at its first statement, asks for four fields where `Client.cs` sends three, and
  `Server.cs` calls operations that `SecurityModule.cs` does not have. A model would be
  of a design and not of this code. The PAC server is an accept loop with one fixed answer; building its text
  from expression trees is formatting.
* The pipelines demo and the echo server are samples of System.IO.Pipelines: two
  tasks around one pipe, and connections that share nothing.
* Certificates, TLS itself, name resolution, sockets, channels and pipes are
  libraries: the models have what the code relies on.
* Of lunr: the stemmer beyond its first rule, inverse document frequencies and lengths,
  match data and metadata, the serialised forms. Of the page script: styling, alerts,
  highlighting, the affix and its scrolling, the search without a worker,
  `window.refresh`. `docfx.vendor.js`, `lunr.min.js` and `main.js` are minified
  libraries and a file without code.
* Text: header parsing within a line, encodings, compressed content, the names of
  ciphers and extensions, log output.
* Pass-through members of the streams (writes, seeks, properties, the
  Begin/End adapters) and the applications' start-up code.
