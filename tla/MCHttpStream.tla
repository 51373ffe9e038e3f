---------------------------- MODULE MCHttpStream ----------------------------
(* Instances of HttpStream for TLC: the messages a peer sends.             *)
EXTENDS HttpStream

Message(filler, framing, body) ==
  [filler |-> filler, framing |-> framing, body |-> body]

Chunk(data) == [size |-> Len(data), data |-> data]
LastChunk == Chunk(<<>>)
BadSize == [size |-> 20, data |-> <<1>>]

\* Contents of no byte, of one, of the largest size, of one more, and one that
\* looks like a header mark; a header that just fits the buffer and one that
\* does not; no length; chunks of one, two and no pieces, a bad size, a sum that
\* is too large.
Responses ==
  { Message(0, Length(0), <<>>),
    Message(Size - 5, Length(1), <<1>>),
    Message(0, Length(4), TowMark),
    Message(0, Length(5), <<1, 2, 3, 4, 5>>),
    Message(Size - 4, Length(1), <<1>>),
    Message(0, NoLength, <<>>),
    Message(0, Chunked, <<LastChunk>>),
    Message(0, Chunked, <<Chunk(<<1, 2>>), Chunk(<<CR, LF>>), LastChunk>>),
    Message(0, Chunked, <<Chunk(<<3>>), BadSize, LastChunk>>),
    Message(0, Chunked, <<Chunk(<<1, 2, 3>>), Chunk(<<4, 5>>), LastChunk>>) }

\* CONNECT and GET requests, another method, and a header that is too long.
Requests ==
  { Message(0, Length(0), <<>>),
    Message(Size - 5, Length(0), <<>>),
    Message(Size - 4, Length(0), <<>>),
    Message(1, OtherMethod, <<>>) }

MCMessages == [response |-> Responses, request |-> Requests]

=============================================================================
