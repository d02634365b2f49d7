--------------------------- MODULE MCFrameLogger ---------------------------
(* Small instances of FrameLogger.                                         *)
EXTENDS FrameLogger, TLC

CONSTANTS c1, c2, c3, d1, d2

\* Every device has a name of its own.
PlainNames ==
  (d1 :> <<"N-10">>) @@ (NoDev :> <<"unknown">>)
    @@ [d \in Device \ {d1} |-> <<"N-11">>]
BothFiles == {".hex", ".txt"}

Symmetric == Permutations(Conn)
=============================================================================
