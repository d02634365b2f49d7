------------------------------- MODULE Charts -------------------------------
(***************************************************************************)
(* The charts of measurements: handleMeasurementsAPI (handlers_charts.go)  *)
(* and QueryRange with applyValidity and downsample (measurement_store.go),*)
(* over the table that Measurements fills and cleans up.  They change      *)
(* nothing, so they are operators; ChartFaithful evaluates them in every   *)
(* state the table can be in.                                              *)
(*                                                                         *)
(* The average of a column over a bucket is represented by the set of rows *)
(* it is taken over; the empty set is null, a gap in the chart.  The table *)
(* holds days, so hours are days here, and the minute that is added to the *)
(* current time vanishes.                                                  *)
(***************************************************************************)
EXTENDS Measurements

CONSTANTS Device,
          DeviceOf,         \* the device of a connection
          Slot,             \* the columns off1, off2, off3
          Validity,         \* the bits of validity, by connection and number
          NotFinite,        \* columns that hold NaN or Inf, likewise
          chartsMaxPoints,
          chartsMaxHours

ASSUME DeviceAssumption == DeviceOf \in [Conn -> Device]
ASSUME ValidityAssumption ==
  /\ Validity \in [Conn -> [Number -> SUBSET Slot]]
  /\ NotFinite \in [Conn -> [Number -> SUBSET Slot]]
ASSUME ChartsAssumption == chartsMaxPoints \in Nat /\ chartsMaxHours \in Nat

\* The columns of a row that count: applyValidity makes a column whose bit is
\* not set NaN, and what is not finite is left out.
Usable(r) == Validity[r.from][r.no] \ NotFinite[r.from][r.no]

\* The WHERE clause.
InRange(d, from, to) ==
  {r \in Range(table) : DeviceOf[r.from] = d /\ from <= r.at /\ r.at <= to}

\* ORDER BY received_at: rows received at the same time come in any order.
OrderedBy(rows) ==
  {s \in SetToSeqs(rows) :
     \A i \in 1..(Len(s) - 1) : s[i].at <= s[i + 1].at}

\* avgOff, f2p: the rows a column is averaged over.
Average(b, s) == {r \in Range(b) : s \in Usable(r)}

\* One point: the time of the first row, the bits that all rows have.
PointOf(b) ==
  [at       |-> b[1].at,
   n        |-> Len(b),
   validity |-> {s \in Slot :
                   \A r \in Range(b) : s \in Validity[r.from][r.no]},
   off      |-> [s \in Slot |-> Average(b, s)]]

RawToPoints(raw) == [i \in DOMAIN raw |-> PointOf(<<raw[i]>>)]

\* Mutation of the next definition: rounded down.
BucketSizeFloor(n, maxPoints) == n \div maxPoints

BucketSize(n, maxPoints) == (n + maxPoints - 1) \div maxPoints

\* The k-th bucket, the last of which may be shorter.
Bucket(raw, size, k) ==
  LET end == k * size
  IN  SubSeq(raw, (k - 1) * size + 1, IF end > Len(raw) THEN Len(raw) ELSE end)

Downsample(raw, maxPoints) ==
  IF maxPoints <= 0 \/ Len(raw) <= maxPoints THEN RawToPoints(raw)
  ELSE LET size == BucketSize(Len(raw), maxPoints)
       IN  [k \in {k \in 1..Len(raw) : (k - 1) * size < Len(raw)} |->
              PointOf(Bucket(raw, size, k))]

QueryRange(d, from, to, maxPoints) ==
  {Downsample(raw, maxPoints) : raw \in OrderedBy(InRange(d, from, to))}

\* The answers to a request; hours out of range are refused.
MeasurementsAPI(d, hours, maxPoints) ==
  IF hours <= 0 \/ hours > chartsMaxHours THEN {}
  ELSE QueryRange(d, today - hours, today, maxPoints)

----------------------------------------------------------------------------
\* A chart shows the stored measurements of the device in the period, each
\* exactly once, whichever connection of the device brought them and in
\* whatever order they were inserted: at most maxPoints points, in order of
\* reception, whose counts add up to the rows; every usable value goes into
\* the average of one point, no other does; and a point has the bit of a
\* column of numbers exactly if all its rows count in the average.
ChartFaithful ==
  \A d \in Device, hours \in 1..chartsMaxHours,
     maxPoints \in 0..chartsMaxPoints :
    LET rows == {r \in Range(table) : DeviceOf[r.from] = d
                                        /\ today - r.at <= hours}
    IN \A pts \in MeasurementsAPI(d, hours, maxPoints) :
         /\ maxPoints > 0 => Len(pts) <= maxPoints
         /\ Cardinality(UNION {{i} \X (1..pts[i].n) : i \in DOMAIN pts})
              = Cardinality(rows)
         /\ \A i \in 1..(Len(pts) - 1) : pts[i].at <= pts[i + 1].at
         /\ \A s \in Slot :
              /\ \A r \in rows :
                   Cardinality({i \in DOMAIN pts : r \in pts[i].off[s]})
                     = IF s \in Usable(r) THEN 1 ELSE 0
              /\ \A i \in DOMAIN pts :
                   /\ pts[i].off[s] \subseteq rows
                   /\ (\A r \in rows : s \notin NotFinite[r.from][r.no]) =>
                        (s \in pts[i].validity
                           <=> Cardinality(pts[i].off[s]) = pts[i].n)
=============================================================================
