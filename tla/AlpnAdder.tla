------------------------------- MODULE AlpnAdder -------------------------------
(***************************************************************************)
(* StreamExtended.Network.ClientHelloAlpnAdderStream and                   *)
(* ServerHelloAlpnAdderStream: an SslStream writes its handshake through   *)
(* them; the first write is peeked at as a hello, and an ALPN extension is *)
(* put behind the extensions it has.  The peek is HelloPeek's, over a      *)
(* memory stream that holds the whole write.  A peek at a connection, which *)
(* is HelloPeek's own use, is the other kind of behaviour here.            *)
(***************************************************************************)
EXTENDS HelloPeek

CONSTANT MaxWrites   \* bound on the writes of the SslStream

ASSUME AlpnAdderAssumption == MaxWrites \in Nat \ {0}

VARIABLES
  adding,    \* whether an adder peeks at a write, or somebody at a connection
  called,    \* whether Write was called before
  writing,   \* whether a Write is under way
  writes,    \* writes begun
  out        \* what reached the stream, see Written and AsIs

adder == <<called, writing, writes, out>>
avars == <<pvars, adding, adder>>

\* A write with the ALPN extension: total bytes and the three length fields that
\* the wire format has around it, the block's place, and the extension's.
Written(total, record, handshake, block, at, added) ==
  [total |-> total, record |-> record, handshake |-> handshake, block |-> block,
   at |-> at, added |-> added]

AsIs == [total |-> 0, record |-> 0, handshake |-> 0, block |-> 0, at |-> 0, added |-> 0]

\* The ALPN extension: its type, its length, the length of the list, and "h2" and
\* "http/1.1" for a client, "h2" for a server.
AlpnLength == IF side = "client" THEN 4 + 2 + 3 + 9 ELSE 4 + 2 + 3

\* What an SslStream writes: TLS, and extensions from TLS 1.0 on.
HandshakeHellos == {h \in Hellos : h.form = "tls" /\ (h.block => h.minor >= 1)}

AlpnInit ==
  /\ \/ /\ adding = TRUE
        /\ \E p \in {"client", "server"}, h \in HandshakeHellos : PeekInit(p, h, WireLength(h))
     \/ /\ adding = FALSE
        /\ HelloInit
  /\ called = FALSE
  /\ writing = FALSE
  /\ writes = 0
  /\ out = <<>>

\* Only the server's class stores the pool it is given: the client's Write throws
\* when it makes a buffered stream with it.
PoolAssigned == side = "server"

\* The first Write: the memory stream gives all its bytes at the first fill.
FirstWrite ==
  /\ ~called
  /\ ~writing
  /\ writes < MaxWrites
  /\ writes' = writes + 1
  /\ called' = TRUE
  /\ IF PoolAssigned
       THEN /\ writing' = TRUE
            /\ have' = WireLength(hello)
            /\ UNCHANGED <<side, hello, bufferSize, peerEnded, filled, step, Position,
                           Extensions, result, adding, out>>
       ELSE /\ result' = "null reference"
            /\ UNCHANGED <<side, hello, bufferSize, have, peerEnded, filled, step, Position,
                           Extensions, adding, writing, out>>

\* The peek of the first write goes on.
Peek ==
  /\ writing
  /\ PeekFills \/ IndexThrows \/ NotEnough \/ Parse
  /\ UNCHANGED <<adding, adder>>

\* Mutant of NewByteCount: the new block's length is not counted.
NewByteCountShort == AlpnLength

\* What is added: without a block, its length too.
NewByteCount == IF Extensions = {} THEN AlpnLength + 2 ELSE AlpnLength

\* The peek is done: the hello is written with the extension, its three lengths
\* raised, anything else as it is; an exception of the peek is one of Write.
WriteHello ==
  /\ writing
  /\ ~Running
  /\ writing' = FALSE
  /\ out' =
       IF result = "info"
         THEN Append(out,
                Written(WireLength(hello) + NewByteCount,
                        RecordLength(hello) + NewByteCount,
                        HelloEnd(hello) - 9 + NewByteCount,
                        IF Extensions = {} THEN AlpnLength
                          ELSE BlockLength(hello.exts) + NewByteCount,
                        IF Extensions = {} THEN Position + 2 ELSE Position,
                        AlpnLength))
         ELSE IF result = "null" THEN Append(out, AsIs) ELSE out
  /\ UNCHANGED <<pvars, adding, called, writes>>

\* Later writes go out as they are.
LaterWrite ==
  /\ called
  /\ ~writing
  /\ writes < MaxWrites
  /\ writes' = writes + 1
  /\ out' = Append(out, AsIs)
  /\ UNCHANGED <<pvars, adding, called, writing>>

AlpnDone == writes = MaxWrites /\ ~writing /\ UNCHANGED avars

AlpnNext ==
  \/ adding /\ (FirstWrite \/ Peek \/ WriteHello \/ LaterWrite \/ AlpnDone)
  \/ ~adding /\ HelloNext /\ UNCHANGED <<adding, adder>>

AlpnSpec == AlpnInit /\ [][AlpnNext]_avars

-----------------------------------------------------------------------------
(* Properties.                                                             *)

\* The hello that goes out is one again: the record is the bytes written, the
\* handshake message is the record less what follows it, the extension block
\* ends with the message, and the ALPN extension lies at its end.
HelloStaysOne ==
  \A i \in 1..Len(out) :
    out[i] # AsIs /\ ~MessageBehind =>
      LET w == out[i] IN
        /\ w.total = 5 + w.record
        /\ w.total = 9 + w.handshake + hello.rest
        /\ w.at + w.added = 9 + w.handshake
        /\ ExtensionsStart(hello) + 2 + w.block = 9 + w.handshake

=============================================================================
