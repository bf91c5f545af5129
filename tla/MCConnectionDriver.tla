------------------------- MODULE MCConnectionDriver -------------------------
(* Two calling threads; a config with one topology declaration and one     *)
(* consumer unless the cfg says otherwise.                                 *)
EXTENDS ConnectionDriver, TLC

CONSTANTS c1, c2

MCClients == {c1, c2}
OneClient == {c1}
ClientSymmetry == Permutations(MCClients)
=============================================================================
