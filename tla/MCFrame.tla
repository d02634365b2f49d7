------------------------------ MODULE MCFrame ------------------------------
(* Frame with bytes of two bits: a length needs both of its bytes from 4   *)
(* on, goes to 15 and is allowed to 6.  The preamble, 2, occurs as address,*)
(* as length, as data and as CRC.                                          *)
EXTENDS Frame, Bitwise

BitXor(a, b) == a ^^ b
MCFrames == [addr : {0, 2}, cmd : {3},
             data : {<<>>, <<2>>, <<1, 2>>, <<3, 1, 2, 2, 0, 3>>}]
MCNoise == {<<>>, <<1, 3>>}
=============================================================================
