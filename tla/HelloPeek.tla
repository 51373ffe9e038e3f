------------------------------- MODULE HelloPeek -------------------------------
(***************************************************************************)
(* StreamExtended.SslTools: PeekClientHello and PeekServerHello look at    *)
(* the first bytes of a connection without taking them, through a          *)
(* CustomBufferedPeekStream over a CustomBufferedStream whose read         *)
(* position stays put.  A hello is its form and the lengths of its fields; *)
(* its bytes arrive in any split.                                          *)
(***************************************************************************)
EXTENDS Naturals, Sequences, SequencesExt

CONSTANTS
  Hellos,       \* what peers may send first, see Hello
  BufferSizes,  \* BufferSize of the stream peeked at
  RestWord      \* the first word of the message that follows a hello in its record

\* form: "tls" (0x16), "ssl2" (high bit set) or "other"; by: who says it; minor:
\* of version 3.minor; sid, ciphers, comp, random: lengths; exts: the lengths of
\* the extensions' data; block: whether there is an extension block; rest: bytes
\* that follow in the same record (a server's next handshake messages).
Hello == [form : {"tls", "ssl2", "other"}, by : {"client", "server"}, minor : Nat,
          sid : Nat, ciphers : Nat, comp : Nat, random : Nat,
          exts : Seq(Nat), block : BOOLEAN, rest : Nat]

\* Extensions are in a block of a TLS hello; a cipher of SSL 2 has three bytes.
WellFormed(h) ==
  /\ h.block => h.form = "tls"
  /\ ~h.block => h.exts = <<>>
  /\ h.form = "ssl2" => h.ciphers % 3 = 0

ASSUME HelloPeekAssumption ==
  /\ Hellos \subseteq Hello
  /\ \A h \in Hellos : WellFormed(h)
  /\ BufferSizes \subseteq Nat \ {0}
  /\ RestWord \in Nat /\ RestWord > 3    \* 11 * 256, of a Certificate message

VARIABLES
  side,    \* which peek runs: "client" or "server"
  hello,   \* what the peer sends
  bufferSize, have, peerEnded,   \* the stream: BufferSize, bytes buffered, whether it ended
  filled,  \* whether this PeekByteAsync has filled the buffer already
  step,    \* the number of the step of the parse
  Position,
  Extensions,  \* {} for null, else one list: the data lengths of those read
  result   \* "none" while it runs, then "null", "info" or the exception's name

pvars == <<side, hello, bufferSize, have, peerEnded, filled, step, Position, Extensions, result>>

Sum(s) == FoldLeft(LAMBDA a, b : a + b, 0, s)

-----------------------------------------------------------------------------
(* The wire format, what a peer sends (RFC 5246, and the SSL 2 hello).     *)

\* Where the extension block of a TLS hello starts.
ExtensionsStart(h) ==
  LET fixed == 1 + 2 + 2 + 1 + 3 + 2 + 32 + 1 IN
    IF h.by = "client" THEN fixed + h.sid + 2 + h.ciphers + 1 + h.comp
                       ELSE fixed + h.sid + 2 + 1

BlockLength(exts) == Sum(exts) + 4 * Len(exts)

HelloEnd(h) ==
  CASE h.form = "tls" -> ExtensionsStart(h) + IF h.block THEN 2 + BlockLength(h.exts) ELSE 0
    [] h.form = "ssl2" /\ h.by = "client" -> 11 + h.ciphers + h.sid + h.random
    [] h.form = "ssl2" /\ h.by = "server" -> 2 + 1 + 2 + 32 + 1 + 2
    [] h.form = "other" -> h.random

WireLength(h) == HelloEnd(h) + h.rest

RecordLength(h) == WireLength(h) - 5

-----------------------------------------------------------------------------
PeekInit(p, h, s) ==
  /\ side = p
  /\ hello = h
  /\ bufferSize = s
  /\ have = 0
  /\ peerEnded = FALSE
  /\ filled = FALSE
  /\ step = 0
  /\ Position = 1
  /\ Extensions = {}
  /\ result = "none"

HelloInit == \E p \in {"client", "server"}, h \in Hellos, s \in BufferSizes : PeekInit(p, h, s)

\* The peer stops sending: at its end, or before.
PeerEnds ==
  /\ ~peerEnded
  /\ peerEnded' = TRUE
  /\ UNCHANGED <<side, hello, bufferSize, have, filled, step, Position, Extensions, result>>

-----------------------------------------------------------------------------
(* The parse: each step asks EnsureBufferLength for `need` bytes behind    *)
(* Position and reads `take` of them.                                      *)

Step(need, take) == [need |-> need, take |-> take]

\* PeekClientHello's steps up to the extensions.
PeekClientHello(h) ==
  IF h.form = "ssl2"
    THEN <<Step(10, 10),
           Step(h.ciphers + h.sid + h.random, h.ciphers + h.sid + h.random)>>
    ELSE <<Step(43, 43), Step(h.sid + 2, h.sid + 2),
           Step(h.ciphers + 1, h.ciphers + 1), Step(h.comp, h.comp)>>

\* Mutant of PeekServerHello: the compression method is not asked for.
PeekServerHelloShort(h) ==
  IF h.form = "ssl2" THEN <<Step(39, 4), Step(35, 35)>>
                     ELSE <<Step(43, 43), Step(h.sid + 2, h.sid + 2 + 1)>>

\* PeekServerHello's steps up to the extensions.
PeekServerHello(h) ==
  IF h.form = "ssl2" THEN <<Step(39, 4), Step(35, 35)>>
                     ELSE <<Step(43, 43), Step(h.sid + 2 + 1, h.sid + 2 + 1)>>

Steps == IF side = "client" THEN PeekClientHello(hello) ELSE PeekServerHello(hello)

\* Extensions are looked for in what is left of the record, from TLS 1.0 on.
HasExtensions(position) ==
  /\ hello.form = "tls"
  /\ position < RecordLength(hello) + 5
  /\ hello.minor >= 1

\* The word read as the length of the block.
ExtensionsLength == IF hello.block THEN BlockLength(hello.exts) ELSE RestWord

\* What is left of extensionsLength after n extensions.
BytesLeft(exts, n) == BlockLength(SubSeq(exts, n + 1, Len(exts)))

\* The loop `while (extensionsLength > 3)` takes 4 bytes and an extension's data
\* each time.
ReadExtensions(exts) ==
  SubSeq(exts, 1, CHOOSE n \in 0..Len(exts) :
                    BytesLeft(exts, n) <= 3 /\ \A m \in 0..n - 1 : BytesLeft(exts, m) > 3)

\* What EnsureBufferLength needs now.
Need ==
  IF step = 0 THEN 0
  ELSE IF step <= Len(Steps) THEN Steps[step].need
  ELSE IF step = Len(Steps) + 1 THEN 2
  ELSE ExtensionsLength

\* PeekByteAsync(index): index 0 first, then Position + length - 1.
Index == IF step = 0 THEN 0 ELSE Position + Need - 1

Running == result = "none"
Lacking == have <= Index

Finish(r) ==
  /\ result' = r
  /\ UNCHANGED <<side, hello, bufferSize, have, peerEnded, filled, step, Position>>

\* Too few bytes: PeekByteAsync fills once; a full buffer or an ended stream
\* gives it none.
PeekFills ==
  /\ Running
  /\ Lacking
  /\ ~filled
  /\ filled' = TRUE
  /\ \/ \E k \in 1..WireLength(hello) :
          /\ have + k <= WireLength(hello)
          /\ have + k <= bufferSize
          /\ ~peerEnded
          /\ have' = have + k
     \/ /\ peerEnded \/ have = bufferSize
        /\ have' = have
  /\ UNCHANGED <<side, hello, bufferSize, peerEnded, step, Position, Extensions, result>>

\* An index behind the buffer throws, even when enough has been said to fill it.
IndexThrows ==
  /\ Running
  /\ Lacking => filled
  /\ bufferSize <= Index
  /\ Finish("peek exceeds buffer")
  /\ UNCHANGED Extensions

\* Still too few: null, or a hello without extensions.
NotEnough ==
  /\ Running
  /\ Lacking
  /\ filled
  /\ bufferSize > Index
  /\ Finish(IF step > Len(Steps) THEN "info" ELSE "null")
  /\ UNCHANGED Extensions

Enough == Running /\ ~Lacking /\ bufferSize > Index

\* The first byte: neither kind of record.
NotHello ==
  /\ Enough
  /\ step = 0
  /\ hello.form = "other"
  /\ Finish("null")
  /\ UNCHANGED Extensions

FirstByte ==
  /\ Enough
  /\ step = 0
  /\ hello.form # "other"
  /\ step' = 1
  /\ filled' = FALSE
  /\ UNCHANGED <<side, hello, bufferSize, have, peerEnded, Position, Extensions, result>>

NoCompressions == hello.form = "tls" /\ hello.by = "client" /\ hello.comp = 0

\* The message is the other side's hello, or a client's with no compressions.
Wrong == (step = 1 /\ hello.by # side) \/ (step = 3 /\ NoCompressions)

WrongHello ==
  /\ Enough
  /\ Wrong
  /\ Finish("null")
  /\ UNCHANGED Extensions

\* Reading `take` bytes throws if they are not all in the buffer.
Fields ==
  /\ Enough
  /\ step \in 1..Len(Steps)
  /\ ~Wrong
  /\ IF Position + Steps[step].take > have
       THEN Finish("index out of buffer") /\ UNCHANGED Extensions
       ELSE /\ Position' = Position + Steps[step].take
            /\ step' = step + 1
            /\ result' = IF step = Len(Steps) /\ ~HasExtensions(Position') THEN "info"
                         ELSE result
            /\ filled' = FALSE
            /\ UNCHANGED <<side, hello, bufferSize, have, peerEnded, Extensions>>

\* The length of the block.
BlockHead ==
  /\ Enough
  /\ step = Len(Steps) + 1
  /\ Position' = Position + 2
  /\ step' = step + 1
  /\ filled' = FALSE
  /\ UNCHANGED <<side, hello, bufferSize, have, peerEnded, Extensions, result>>

Block ==
  /\ Enough
  /\ step = Len(Steps) + 2
  /\ hello.block
  /\ Extensions' = {ReadExtensions(hello.exts)}
  /\ Position' = Position + BlockLength(ReadExtensions(hello.exts))
  /\ result' = "info"
  /\ UNCHANGED <<side, hello, bufferSize, have, peerEnded, filled, step>>

\* The next message is taken for extensions, whose lengths may lead anywhere.
Misread ==
  /\ Enough
  /\ step = Len(Steps) + 2
  /\ ~hello.block
  /\ \/ Finish("index out of buffer") /\ UNCHANGED Extensions
     \/ /\ \E n \in RestWord - 3..have - Position : Position' = Position + n
        /\ Extensions' = {<<>>}
        /\ result' = "info"
        /\ UNCHANGED <<side, hello, bufferSize, have, peerEnded, filled, step>>

Parse ==
  NotHello \/ FirstByte \/ WrongHello \/ Fields \/ BlockHead \/ Block \/ Misread

Done == ~Running /\ UNCHANGED pvars

HelloNext == PeerEnds \/ PeekFills \/ IndexThrows \/ NotEnough \/ Parse \/ Done

HelloSpec == HelloInit /\ [][HelloNext]_pvars

-----------------------------------------------------------------------------
(* Properties.                                                             *)

\* A TLS hello without extensions and another message behind it in its record,
\* which the peek takes for them; what it reports of such a hello is not right.
MessageBehind ==
  hello.form = "tls" /\ ~hello.block /\ hello.rest > 0 /\ hello.minor >= 1

\* The bytes of a hello of the side asked for are all in the buffer.
WholeHello ==
  hello.by = side /\ hello.form # "other" /\ ~NoCompressions /\ have >= HelloEnd(hello)

\* However the hello was split into reads, no step reads a byte that was not
\* buffered: what EnsureBufferLength asks for covers what the step takes.
NeverPastBuffer == result # "index out of buffer"

\* A hello that is reported is the peer's, and Position, from which
\* ClientHelloLength is set, is where it ends on the wire, if its extensions are
\* reported; else the start of their block, or what follows the block's length.
InfoRight ==
  result = "info" =>
    /\ hello.by = side /\ hello.form # "other"
    /\ ~MessageBehind =>
         /\ Extensions # {} => Extensions = {hello.exts} /\ Position = HelloEnd(hello)
         /\ Extensions = {} /\ hello.form = "tls" =>
              Position \in {ExtensionsStart(hello), ExtensionsStart(hello) + 2}
         /\ hello.form = "ssl2" => Position = HelloEnd(hello)

\* Null is for no hello of the side asked for, and for one whose bytes were not all
\* there when the peek gave up, though more may come: see NullMeansNoHello.
NullRight == result = "null" => ~WholeHello

\* A whole hello that fits is reported, with its extensions if it has any.
WholeHelloSeen ==
  WholeHello /\ ~Running /\ bufferSize >= HelloEnd(hello) =>
    result = "info" /\ (hello.block /\ hello.minor >= 1 <=> Extensions # {})

\* The peek at a hello whose lengths agree with each other, however it was split
\* into reads and wherever the buffer ends: what is reported is the hello of the
\* side asked for, without its extensions if their block was not all there; null
\* is never for one that was all there; and unless another message is behind a
\* hello without extensions, no byte is read that is not there and a hello that
\* was all there is reported with its extensions.
HelloRight ==
  /\ InfoRight
  /\ NullRight
  /\ MessageBehind \/ (NeverPastBuffer /\ WholeHelloSeen)

\* README.md line 47 of Stream-Extended: a client hello info is null "if no client
\* hello was received (not a SSL connection)".  So a null of PeekClientHello would
\* mean that the peer ended or sent no client hello with compression methods.
NullMeansNoHello ==
  side = "client" /\ result = "null" =>
    peerEnded \/ hello.form = "other" \/ hello.by = "server" \/ NoCompressions

=============================================================================
