-------------------------- MODULE MCTimeLogServer --------------------------
(* A small instance of TimeLogServer.                                      *)
EXTENDS TimeLogServer

CONSTANTS b1, b2, d1, d2
TwoBrowsers == {b1, b2}
TwoDevices == {d1, d2}

\* One entry more than the ring holds, and one of another device.
EntriesOf == [d \in Device |-> IF d = d1 THEN 3 ELSE 1]
=============================================================================
