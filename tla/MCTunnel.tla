------------------------------ MODULE MCTunnel ------------------------------
(* Rules of which one is a parent of the other, and hosts at, below and beside *)
(* them; two addresses for two connections.                                   *)
EXTENDS Tunnel

MCRules == {<<"b", "com">>, <<"a", "b", "com">>, <<"com">>}
MCHosts == {<<"x", "a", "b", "com">>, <<"com", "b">>}
MCAddresses == <<"a1", "a2">>

=============================================================================
