---------------------------- MODULE MCWebServer ----------------------------
(* WebServer with two requests at the same time, two names for three users *)
(* (so that a name is used again after its user was deleted), and a table  *)
(* of two device IDs and two rows.                                         *)
EXTENDS WebServer, TLC

CONSTANTS d1, d2, r1, r2

TwoDevices == {d1, d2}
TwoRequests == {r1, r2}
Symmetric == Permutations(TwoDevices) \union Permutations(TwoRequests)
=============================================================================
