------------------------------- MODULE MCHub -------------------------------
(* Small instances of Hub.                                                 *)
EXTENDS Hub, TLC

CONSTANTS c1, c2, c3

TwoClients   == {c1, c2}
ThreeClients == {c1, c2, c3}

\* The safety properties and the refinement do not tell connections apart.
Symmetric == Permutations(Client)
=============================================================================
