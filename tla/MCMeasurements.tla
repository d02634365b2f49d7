--------------------------- MODULE MCMeasurements ---------------------------
(* A small instance of Measurements and Charts: the two connections belong *)
(* to one device, which has reconnected.                                   *)
EXTENDS Charts

CONSTANTS c1, c2, d1, d2
TwoConnections == {c1, c2}
ThreeMeasurements == [c \in Conn |-> IF c = c1 THEN 2 ELSE 1]
SameDevice == [c \in Conn |-> d1]
\* The first measurement of c1 has both columns, its second one and c2's one.
MixedValidity ==
  [c \in Conn |-> [n \in Number |-> IF c = c1 /\ n = 1 THEN {1, 2}
                                    ELSE IF c = c1 THEN {1} ELSE {2}]]
\* The valid column of c2's measurement holds no number.
OneInfinite == [c \in Conn |-> [n \in Number |-> IF c = c1 THEN {} ELSE {2}]]
=============================================================================
