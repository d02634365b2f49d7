--------------------------- MODULE MCCryptoServer ---------------------------
(* A small instance of CryptoServer.                                       *)
EXTENDS CryptoServer, TLC

CONSTANTS c1, c2, d1, d2, k1, k2, k3

TwoConns   == {c1, c2}
TwoDevices == {d1, d2}
ThreeKeys  == {k1, k2, k3}

\* The connections, and the device IDs, are interchangeable; the keys are
\* not, because one of them is malformed.
Symmetric == Permutations(Conn) \union Permutations(Device)
=============================================================================
