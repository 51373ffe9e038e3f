----------------------------- MODULE MCAlpnAdder -----------------------------
(* Hellos of every form, with real header lengths and short fields, and the   *)
(* hellos of an SslStream, with and without extensions and more records.      *)
EXTENDS AlpnAdder

Tls(by, minor, sid, ciphers, exts, block, rest) ==
  [form |-> "tls", by |-> by, minor |-> minor, sid |-> sid, ciphers |-> ciphers,
   comp |-> 1, random |-> 32, exts |-> exts, block |-> block, rest |-> rest]

NotTls(form, by, ciphers, sid, random) ==
  [form |-> form, by |-> by, minor |-> 0, sid |-> sid, ciphers |-> ciphers,
   comp |-> 1, random |-> random, exts |-> <<>>, block |-> FALSE, rest |-> 0]

PeerHellos ==
  {Tls("client", 3, 2, 4, <<3, 0>>, TRUE, 0), Tls("client", 1, 0, 2, <<>>, TRUE, 0),
   Tls("client", 0, 0, 2, <<>>, FALSE, 0), Tls("client", 0, 2, 2, <<1>>, TRUE, 0),
   Tls("server", 3, 2, 0, <<0, 2>>, TRUE, 6), Tls("server", 3, 0, 0, <<>>, FALSE, 0),
   Tls("server", 3, 1, 0, <<0>>, TRUE, 0), Tls("server", 3, 0, 0, <<>>, FALSE, 4),
   Tls("server", 3, 0, 0, <<>>, FALSE, 10), [Tls("client", 3, 0, 2, <<>>, TRUE, 0) EXCEPT !.comp = 0],
   NotTls("ssl2", "client", 3, 0, 2), NotTls("ssl2", "client", 6, 2, 4),
   NotTls("ssl2", "server", 0, 0, 0), NotTls("other", "client", 0, 0, 20)}

SslStreamHellos ==
  {Tls("server", minor, 2, 4, exts, TRUE, rest) :
     minor \in {1, 3}, exts \in {<<>>, <<0>>, <<3>>, <<0, 2>>, <<4, 1, 2>>}, rest \in {0, 6}}

MCHellos == PeerHellos \cup SslStreamHellos

=============================================================================
