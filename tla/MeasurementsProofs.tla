------------------------- MODULE MeasurementsProofs -------------------------
(***************************************************************************)
(* Proofs about Measurements, for any number of connections and            *)
(* measurements, any size of queue and batch, and any retention.           *)
(*                                                                         *)
(* The table, the batch and the queue, one behind the other, are one       *)
(* sequence: a measurement enters it at the end and is never overtaken.    *)
(* That it is behind all earlier ones of its connection follows from the   *)
(* numbers and the clock (Stamped): the number is the next one, and the    *)
(* clock was read after they were enqueued.                                *)
(*                                                                         *)
(* The last part is about Charts: the buckets of downsample divide the     *)
(* positions of the rows (Divided), so that each row is counted once, and  *)
(* the rows of an earlier bucket are the earlier ones (SortedFar).         *)
(***************************************************************************)
EXTENDS Charts, SubsequencesProofs

----------------------------------------------------------------------------
(* The invariant.                                                          *)

Row == [from : Conn, no : Nat \ {0}, at : Nat]

\* r was received before q, if they are of one connection.
Before(r, q) == r.from = q.from => r.no < q.no /\ r.at <= q.at

InOrder(s) == \A i, j \in 1..Len(s) : i < j => Before(s[i], s[j])
Ahead(s, t) == \A r \in Range(s), q \in Range(t) : Before(r, q)

MeasureTypeOK ==
  /\ today \in Nat
  /\ sent \in [Conn -> Nat]
  /\ hand \in [Conn -> Nat \union {NoDay}]
  /\ ch \in Seq(Row) /\ batch \in Seq(Row) /\ table \in Seq(Row)
  /\ dropped \subseteq Row /\ lost \subseteq Row /\ expired \subseteq Row

Queued == Range(table) \union Range(batch) \union Range(ch)
Held == Queued \union dropped \union lost \union expired

\* What a connection enqueues next has a higher number and no earlier time.
Stamped ==
  /\ \A m \in Held : m.no <= sent[m.from]
  /\ \A m \in Queued : /\ m.at <= today
                       /\ hand[m.from] # NoDay => m.at <= hand[m.from]
  /\ \A c \in Conn : hand[c] # NoDay => hand[c] <= today

OrderInv ==
  /\ InOrder(table) /\ InOrder(batch) /\ InOrder(ch)
  /\ Ahead(table, batch) /\ Ahead(table, ch) /\ Ahead(batch, ch)

\* The places a measurement may be in have none in common, and every
\* measurement that was sent is in one.
Apart(A, B) == A \intersect B = {}
PlacedOnce ==
  /\ Apart(Range(table), Range(batch)) /\ Apart(Range(table), Range(ch))
  /\ Apart(Range(batch), Range(ch))
  /\ Apart(Queued, dropped) /\ Apart(Queued, lost) /\ Apart(Queued, expired)
  /\ Apart(dropped, lost) /\ Apart(dropped, expired) /\ Apart(lost, expired)
  /\ \A m, k \in Held : m.from = k.from /\ m.no = k.no => m = k
  /\ \A c \in Conn : \A n \in 1..sent[c] : \E m \in Held : m.from = c /\ m.no = n

\* insertLoop ends without a batch, and Close returns after both goroutines.
Stopped ==
  /\ loop = "done" => batch = <<>>
  /\ closer = "returned" => loop = "done" /\ cleaner = "done"

MeasureInv == MeasureTypeOK /\ Stamped /\ OrderInv /\ PlacedOnce /\ Stopped

----------------------------------------------------------------------------
(* Sequences of measurements.                                              *)

LEMMA RangeEmpty ==
  Range(<<>>) = {} /\ InOrder(<<>>)
  BY DEF Range, InOrder

LEMMA AppendInOrder ==
  ASSUME NEW s \in Seq(Row), NEW e \in Row
  PROVE  /\ Append(s, e) \in Seq(Row)
         /\ Range(Append(s, e)) = Range(s) \union {e}
         /\ InOrder(s) /\ (\A r \in Range(s) : Before(r, e))
              => InOrder(Append(s, e))
<1>1. PICK n \in Nat : n = Len(s)
  BY LenProperties
<1>2. PICK t : t = Append(s, e)
  OBVIOUS
<1>3. /\ t \in Seq(Row) /\ Len(t) = n + 1
      /\ \A i \in 1..n : t[i] = s[i]
      /\ t[n + 1] = e
  BY <1>1, <1>2, AppendProperties
<1>4. Range(t) = Range(s) \union {e}
  <2>1. ASSUME NEW r \in Range(t) PROVE r \in Range(s) \union {e}
    <3>1. PICK i \in 1..(n + 1) : t[i] = r
      BY <1>3, Ranges
    <3>2. i \in 1..n \/ i = n + 1
      OBVIOUS
    <3>3. QED
      BY <1>1, <1>3, <3>1, <3>2, Ranges
  <2>2. ASSUME NEW r \in Range(s) PROVE r \in Range(t)
    <3>1. PICK i \in 1..n : s[i] = r
      BY <1>1, Ranges
    <3>2. i \in 1..(n + 1) /\ t[i] = r
      BY <1>3, <3>1
    <3>3. QED
      BY <1>3, <3>2, Ranges
  <2>3. e \in Range(t)
    <3>1. n + 1 \in 1..(n + 1)
      OBVIOUS
    <3>2. QED
      BY <1>3, <3>1, Ranges
  <2>4. QED
    BY <2>1, <2>2, <2>3
<1>5. ASSUME InOrder(s), \A r \in Range(s) : Before(r, e)
      PROVE  InOrder(t)
  <2> SUFFICES ASSUME NEW i \in 1..(n + 1), NEW j \in 1..(n + 1), i < j
               PROVE  Before(t[i], t[j])
    BY <1>3 DEF InOrder
  <2>1. i \in 1..n /\ t[i] = s[i] /\ s[i] \in Range(s)
    BY <1>1, <1>3, Ranges
  <2>2. CASE j = n + 1
    BY <1>3, <1>5, <2>1, <2>2
  <2>3. CASE j \in 1..n
    BY <1>1, <1>3, <1>5, <2>1, <2>3 DEF InOrder
  <2>4. QED
    BY <2>2, <2>3
<1>6. QED
  BY <1>2, <1>3, <1>4, <1>5

LEMMA TailInOrder ==
  ASSUME NEW s \in Seq(Row), s # <<>>, InOrder(s)
  PROVE  /\ Head(s) \in Row /\ Tail(s) \in Seq(Row) /\ InOrder(Tail(s))
         /\ Range(s) = Range(Tail(s)) \union {Head(s)}
         /\ \A r \in Range(Tail(s)) : Before(Head(s), r)
<1>1. PICK n \in Nat : Len(s) = n + 1
  <2>1. Len(s) \in Nat \ {0}
    BY EmptySeq
  <2>2. Len(s) - 1 \in Nat /\ Len(s) = (Len(s) - 1) + 1
    BY <2>1
  <2>3. QED
    BY <2>2
<1>2. PICK t, h : t = Tail(s) /\ h = Head(s)
  OBVIOUS
<1>3. h \in Row /\ t \in Seq(Row) /\ Len(t) = n /\ h = s[1]
      /\ \A i \in 1..n : t[i] = s[i + 1]
  BY <1>1, <1>2, HeadTailProperties
<1>4. InOrder(t)
  <2> SUFFICES ASSUME NEW i \in 1..n, NEW j \in 1..n, i < j
               PROVE  Before(t[i], t[j])
    BY <1>3 DEF InOrder
  <2>1. /\ i + 1 \in 1..Len(s) /\ j + 1 \in 1..Len(s) /\ i + 1 < j + 1
        /\ t[i] = s[i + 1] /\ t[j] = s[j + 1]
    BY <1>1, <1>3
  <2>2. QED
    BY <2>1 DEF InOrder
<1>5. \A r \in Range(t) : Before(h, r) /\ r \in Range(s)
  <2> SUFFICES ASSUME NEW r \in Range(t) PROVE Before(h, r) /\ r \in Range(s)
    OBVIOUS
  <2>1. PICK i \in 1..n : t[i] = r
    BY <1>3, Ranges
  <2>2. /\ i + 1 \in 1..Len(s) /\ 1 \in 1..Len(s) /\ 1 < i + 1
        /\ r = s[i + 1] /\ h = s[1]
    BY <1>1, <1>3, <2>1
  <2>3. QED
    BY <2>2, Ranges DEF InOrder
<1>6. h \in Range(s)
  <2>1. 1 \in 1..Len(s)
    BY <1>1
  <2>2. QED
    BY <1>3, <2>1, Ranges
<1>7. ASSUME NEW r \in Range(s) PROVE r = h \/ r \in Range(t)
  <2>1. PICK i \in 1..(n + 1) : s[i] = r
    BY <1>1, Ranges
  <2>2. CASE i = 1
    BY <1>3, <2>1, <2>2
  <2>3. CASE i # 1
    <3>1. i - 1 \in 1..n /\ i = (i - 1) + 1
      BY <2>3
    <3>2. t[i - 1] = r /\ i - 1 \in 1..Len(t)
      BY <1>3, <2>1, <3>1
    <3>3. QED
      BY <1>3, <3>2, Ranges
  <2>4. QED
    BY <2>2, <2>3
<1>8. QED
  BY <1>2, <1>3, <1>4, <1>5, <1>6, <1>7

LEMMA ConcatInOrder ==
  ASSUME NEW s \in Seq(Row), NEW t \in Seq(Row)
  PROVE  /\ s \o t \in Seq(Row)
         /\ Range(s \o t) = Range(s) \union Range(t)
         /\ InOrder(s) /\ InOrder(t) /\ Ahead(s, t) => InOrder(s \o t)
<1>1. PICK n \in Nat, m \in Nat : n = Len(s) /\ m = Len(t)
  BY LenProperties
<1>2. PICK u : u = s \o t
  OBVIOUS
<1>3. /\ u \in Seq(Row) /\ Len(u) = n + m
      /\ \A i \in 1..(n + m) : u[i] = IF i <= n THEN s[i] ELSE t[i - n]
  BY <1>1, <1>2, ConcatProperties
<1>4. Range(u) = Range(s) \union Range(t)
  BY <1>2, RangeConcatenation
<1>5. ASSUME InOrder(s), InOrder(t), Ahead(s, t)
      PROVE  InOrder(u)
  <2> SUFFICES ASSUME NEW i \in 1..(n + m), NEW j \in 1..(n + m), i < j
               PROVE  Before(u[i], u[j])
    BY <1>3 DEF InOrder
  <2>1. CASE j <= n
    <3>1. i \in 1..n /\ j \in 1..n /\ u[i] = s[i] /\ u[j] = s[j]
      BY <1>3, <2>1
    <3>2. QED
      BY <1>1, <1>5, <3>1 DEF InOrder
  <2>2. CASE i <= n /\ ~(j <= n)
    <3>1. i \in 1..n /\ j - n \in 1..m /\ u[i] = s[i] /\ u[j] = t[j - n]
      BY <1>3, <2>2
    <3>2. u[i] \in Range(s) /\ u[j] \in Range(t)
      BY <1>1, <3>1, Ranges
    <3>3. QED
      BY <1>5, <3>2 DEF Ahead
  <2>3. CASE ~(i <= n)
    <3>1. /\ i - n \in 1..m /\ j - n \in 1..m /\ i - n < j - n
          /\ u[i] = t[i - n] /\ u[j] = t[j - n]
      BY <1>3, <2>3
    <3>2. QED
      BY <1>1, <1>5, <3>1 DEF InOrder
  <2>4. QED
    BY <2>1, <2>2, <2>3
<1>6. QED
  BY <1>2, <1>3, <1>4, <1>5

\* The rows that cleanup leaves.
LEMMA KeptInOrder ==
  ASSUME MeasureTypeOK, NEW t,
         t = SubSeqAt(table, {i \in DOMAIN table : ~Old(table[i])})
  PROVE  /\ t \in Seq(Row)
         /\ Range(t) = {r \in Range(table) : ~Old(r)}
         /\ InOrder(table) => InOrder(t)
<1>1. table \in Seq(Row) /\ DOMAIN table = 1..Len(table)
  BY LenProperties DEF MeasureTypeOK
<1>2. PICK I \in SUBSET (1..Len(table)) :
        I = {i \in DOMAIN table : ~Old(table[i])}
  BY <1>1
<1>3. t \in Seq(Row)
  BY <1>1, <1>2, SubSeqAtProperties
<1>4. /\ \A j \in 1..Len(t) : \E i \in I : t[j] = table[i]
      /\ \A i \in I : \E j \in 1..Len(t) : t[j] = table[i]
      /\ \A j, k \in 1..Len(t) : j < k =>
           \E i, l \in I : i < l /\ t[j] = table[i] /\ t[k] = table[l]
  <2>1. Selected(t, table, I)
    BY <1>1, <1>2, SubSeqAtProperties
  <2>2. QED
    BY <2>1 DEF Selected
<1>5. ASSUME InOrder(table) PROVE InOrder(t)
  <2> SUFFICES ASSUME NEW j \in 1..Len(t), NEW k \in 1..Len(t), j < k
               PROVE  Before(t[j], t[k])
    BY DEF InOrder
  <2>1. PICK i \in I, l \in I : i < l /\ t[j] = table[i] /\ t[k] = table[l]
    BY <1>4
  <2>2. QED
    BY <1>5, <2>1 DEF InOrder
<1>6. ASSUME NEW r \in Range(t) PROVE r \in Range(table) /\ ~Old(r)
  <2>1. PICK j \in 1..Len(t) : t[j] = r
    BY <1>3, Ranges
  <2>2. PICK i \in I : r = table[i]
    BY <1>4, <2>1
  <2>3. QED
    BY <1>1, <1>2, <2>2, Ranges
<1>7. ASSUME NEW r \in Range(table), ~Old(r) PROVE r \in Range(t)
  <2>1. PICK i \in 1..Len(table) : table[i] = r
    BY <1>1, Ranges
  <2>2. i \in I
    BY <1>1, <1>2, <1>7, <2>1
  <2>3. PICK j \in 1..Len(t) : t[j] = r
    BY <1>4, <2>1, <2>2
  <2>4. QED
    BY <1>3, <2>3, Ranges
<1>8. QED
  BY <1>3, <1>5, <1>6, <1>7

----------------------------------------------------------------------------
(* The steps.                                                              *)

LEMMA MeasureInit ==
  Init => MeasureInv
<1> SUFFICES ASSUME Init PROVE MeasureInv
  OBVIOUS
<1>1. Queued = {} /\ Held = {}
  BY RangeEmpty DEF Init, Queued, Held
<1>2. MeasureTypeOK
  BY EmptySeq DEF Init, MeasureTypeOK
<1>3. Stamped
  BY <1>1 DEF Init, Stamped
<1>4. OrderInv
  BY RangeEmpty DEF Init, OrderInv, Ahead
<1>5. PlacedOnce
  BY <1>1, RangeEmpty DEF Init, PlacedOnce, Apart
<1>6. QED
  BY <1>2, <1>3, <1>4, <1>5 DEF Init, MeasureInv, Stopped

\* Steps that move no measurement.
LEMMA NothingMoves ==
  ASSUME MeasureInv, UNCHANGED <<ch, batch, table, dropped, lost, expired, sent>>,
         MeasureTypeOK', Stamped', Stopped'
  PROVE  MeasureInv'
<1>1. OrderInv'
  BY DEF MeasureInv, OrderInv, Ahead, InOrder
<1>2. Queued' = Queued /\ Held' = Held
  BY DEF Queued, Held
<1>3. PlacedOnce'
  BY <1>2 DEF MeasureInv, PlacedOnce
<1>4. QED
  BY <1>1, <1>3 DEF MeasureInv

\* A measurement moves from one place to another.
LEMMA StampsKept ==
  ASSUME Stamped, UNCHANGED <<today, hand, sent>>,
         Held' = Held, Queued' \subseteq Queued
  PROVE  Stamped'
  BY DEF Stamped

LEMMA EnqueueStep ==
  ASSUME MeasureInv, NEW c \in Conn, Enqueue(c)
  PROVE  MeasureInv'
<1> USE DEF MeasureInv
<1>1. PICK m : m = [from |-> c, no |-> sent[c] + 1, at |-> hand[c]]
  OBVIOUS
<1>2. /\ hand[c] # NoDay
      /\ sent' = [sent EXCEPT ![c] = @ + 1]
      /\ hand' = [hand EXCEPT ![c] = NoDay]
      /\ \/ ch' = Append(ch, m) /\ dropped' = dropped
         \/ dropped' = dropped \union {m} /\ ch' = ch
      /\ UNCHANGED <<today, loop, batch, table, lost, expired, cleaner, quit,
                     closer>>
  BY <1>1, Zenon DEF Enqueue
<1>3. /\ hand[c] \in Nat /\ sent[c] \in Nat
      /\ m \in Row /\ m.from = c /\ m.no = sent[c] + 1 /\ m.at = hand[c]
  BY <1>1, <1>2 DEF MeasureTypeOK, Row
<1>4. /\ \A k \in Conn : sent'[k] = IF k = c THEN sent[c] + 1 ELSE sent[k]
      /\ \A k \in Conn : hand'[k] = IF k = c THEN NoDay ELSE hand[k]
      /\ sent' \in [Conn -> Nat] /\ hand' \in [Conn -> Nat \union {NoDay}]
  BY <1>2 DEF MeasureTypeOK
<1>5. /\ Held \subseteq Row /\ Queued \subseteq Held
      /\ ch \in Seq(Row) /\ batch \in Seq(Row) /\ table \in Seq(Row)
  BY Ranges DEF MeasureTypeOK, Held, Queued
<1>6. \A k \in Held : k.from \in Conn /\ k.no \in Nat /\ k.at \in Nat
  BY <1>5 DEF Row
<1>7. \A k \in Held : k.from = c => k.no < m.no
  BY <1>3, <1>6 DEF Stamped
<1>8. m \notin Held
  BY <1>3, <1>7
<1>9. \A k \in Queued : Before(k, m)
  BY <1>2, <1>3, <1>5, <1>6, <1>7 DEF Stamped, Before
<1>10. /\ Range(ch') = IF ch' = ch THEN Range(ch) ELSE Range(ch) \union {m}
       /\ ch' \in Seq(Row) /\ InOrder(ch')
       /\ Range(ch') \subseteq Range(ch) \union {m}
  <2>1. \A r \in Range(ch) : Before(r, m)
    BY <1>9 DEF Queued
  <2>2. /\ Append(ch, m) \in Seq(Row)
        /\ Range(Append(ch, m)) = Range(ch) \union {m}
        /\ InOrder(Append(ch, m))
    BY <1>3, <1>5, <2>1, AppendInOrder DEF OrderInv
  <2>3. QED
    BY <1>2, <1>5, <2>2 DEF OrderInv
<1>11. Held' = Held \union {m}
  <2>1. CASE ch' = Append(ch, m) /\ dropped' = dropped
    <3>1. Range(ch') = Range(ch) \union {m}
      BY <1>3, <1>5, <2>1, AppendInOrder
    <3>2. QED
      BY <1>2, <2>1, <3>1 DEF Held, Queued
  <2>2. CASE dropped' = dropped \union {m} /\ ch' = ch
    BY <1>2, <2>2 DEF Held, Queued
  <2>3. QED
    BY <1>2, <2>1, <2>2
<1>12. Queued' \subseteq Queued \union {m}
  BY <1>2, <1>10 DEF Queued
<1>13. MeasureTypeOK'
  BY <1>2, <1>3, <1>4, <1>10 DEF MeasureTypeOK
<1>14. Stamped'
  <2>1. \A k \in Held' : k.no <= sent'[k.from]
    BY <1>3, <1>4, <1>6, <1>11 DEF Stamped
  <2>2. \A k \in Queued' :
          /\ k.at <= today'
          /\ hand'[k.from] # NoDay => k.at <= hand'[k.from]
    <3> SUFFICES ASSUME NEW k \in Queued'
                 PROVE  /\ k.at <= today'
                        /\ hand'[k.from] # NoDay => k.at <= hand'[k.from]
      OBVIOUS
    <3>1. CASE k = m
      BY <1>2, <1>3, <1>4, <3>1 DEF Stamped
    <3>2. CASE k \in Queued
      BY <1>2, <1>4, <1>5, <1>6, <3>2 DEF Stamped
    <3>3. QED
      BY <1>12, <3>1, <3>2
  <2>3. \A k \in Conn : hand'[k] # NoDay => hand'[k] <= today'
    BY <1>2, <1>4 DEF Stamped
  <2>4. QED
    BY <2>1, <2>2, <2>3 DEF Stamped
<1>15. OrderInv'
  <2>1. Ahead(table, ch') /\ Ahead(batch, ch')
    BY <1>9, <1>10 DEF OrderInv, Ahead, Queued
  <2>2. QED
    BY <1>2, <1>10, <2>1 DEF OrderInv, Ahead, InOrder
<1>16. PlacedOnce'
  <2>1. \A k, l \in Held' : k.from = l.from /\ k.no = l.no => k = l
    BY <1>3, <1>6, <1>7, <1>11 DEF PlacedOnce
  <2>2. ASSUME NEW d \in Conn, NEW n \in 1..sent'[d]
        PROVE  \E k \in Held' : k.from = d /\ k.no = n
    <3>1. CASE d = c /\ n = sent[c] + 1
      BY <1>3, <1>11, <3>1
    <3>2. CASE ~(d = c /\ n = sent[c] + 1)
      <4>1. sent[d] \in Nat
        BY DEF MeasureTypeOK
      <4>2. n \in 1..sent[d]
        BY <1>3, <1>4, <3>2, <4>1
      <4>3. QED
        BY <1>11, <4>2 DEF PlacedOnce
    <3>3. QED
      BY <3>1, <3>2
  <2>3. /\ m \notin Range(table) /\ m \notin Range(batch) /\ m \notin Range(ch)
        /\ m \notin dropped /\ m \notin lost /\ m \notin expired
    BY <1>8 DEF Held, Queued
  <2>4. /\ Apart(Range(table), Range(batch))' /\ Apart(Range(table), Range(ch))'
        /\ Apart(Range(batch), Range(ch))'
        /\ Apart(Queued, dropped)' /\ Apart(Queued, lost)' /\ Apart(Queued, expired)'
        /\ Apart(dropped, lost)' /\ Apart(dropped, expired)'
        /\ Apart(lost, expired)'
    <3>1. CASE ch' = Append(ch, m) /\ dropped' = dropped
      <4>1. Range(ch') = Range(ch) \union {m}
        BY <1>3, <1>5, <3>1, AppendInOrder
      <4>2. QED
        BY <1>2, <2>3, <3>1, <4>1 DEF PlacedOnce, Apart, Queued
    <3>2. CASE dropped' = dropped \union {m} /\ ch' = ch
      BY <1>2, <2>3, <3>2 DEF PlacedOnce, Apart, Queued
    <3>3. QED
      BY <1>2, <3>1, <3>2
  <2>5. QED
    BY <2>1, <2>2, <2>4 DEF PlacedOnce
<1>17. Stopped'
  BY <1>2 DEF Stopped
<1>18. QED
  BY <1>13, <1>14, <1>15, <1>16, <1>17

LEMMA TakeOneStep ==
  ASSUME MeasureInv, TakeOne
  PROVE  MeasureInv'
<1> USE DEF MeasureInv
<1>1. PICK h, t : h = Head(ch) /\ t = Tail(ch)
  OBVIOUS
<1>2. /\ loop = "select" /\ ch # <<>> /\ ch' = t /\ batch' = Append(batch, h)
      /\ loop' \in {"copy", "select"}
      /\ UNCHANGED <<today, sent, hand, dropped, table, lost, expired, cleaner,
                     quit, closer>>
  BY <1>1 DEF TakeOne
<1>3. /\ h \in Row /\ t \in Seq(Row) /\ InOrder(t)
      /\ Range(ch) = Range(t) \union {h}
      /\ \A r \in Range(t) : Before(h, r)
  BY <1>1, <1>2, TailInOrder DEF MeasureTypeOK, OrderInv
<1>4. \A r \in Range(t) : r # h
  <2> SUFFICES ASSUME h \in Range(t) PROVE FALSE
    OBVIOUS
  <2>1. h.no < h.no /\ h.no \in Nat
    BY <1>3 DEF Before, Row
  <2>2. QED
    BY <2>1
<1>5. /\ batch' \in Seq(Row) /\ Range(batch') = Range(batch) \union {h}
      /\ InOrder(batch')
  <2>1. \A r \in Range(batch) : Before(r, h)
    BY <1>3 DEF OrderInv, Ahead
  <2>2. QED
    BY <1>2, <1>3, <2>1, AppendInOrder DEF MeasureTypeOK, OrderInv
<1>6. Queued' = Queued /\ Held' = Held
  BY <1>2, <1>3, <1>5 DEF Queued, Held
<1>7. MeasureTypeOK'
  BY <1>2, <1>3, <1>5 DEF MeasureTypeOK
<1>8. Stamped'
  BY <1>2, <1>6, StampsKept
<1>9. OrderInv'
  <2>1. Ahead(table, batch') /\ Ahead(table, ch') /\ Ahead(batch', ch')
    BY <1>2, <1>3, <1>5 DEF OrderInv, Ahead
  <2>2. QED
    BY <1>2, <1>3, <1>5, <2>1 DEF OrderInv, Ahead, InOrder
<1>10. PlacedOnce'
  <2>1. /\ Apart(Range(table), Range(batch))' /\ Apart(Range(table), Range(ch))'
        /\ Apart(Range(batch), Range(ch))'
    BY <1>2, <1>3, <1>4, <1>5 DEF PlacedOnce, Apart
  <2>2. QED
    BY <1>2, <1>6, <2>1 DEF PlacedOnce, Apart
<1>11. Stopped'
  BY <1>2 DEF Stopped
<1>12. QED
  BY <1>7, <1>8, <1>9, <1>10, <1>11

LEMMA InsertBatchStep ==
  ASSUME MeasureInv, InsertBatch
  PROVE  MeasureInv'
<1> USE DEF MeasureInv
<1>1. /\ loop \in {"copy", "last copy"} /\ table' = table \o batch /\ batch' = <<>>
      /\ UNCHANGED <<today, sent, hand, ch, dropped, lost, expired, cleaner, quit,
                     closer>>
  BY DEF InsertBatch, Copied, Emptied
<1>2. /\ table' \in Seq(Row) /\ InOrder(table')
      /\ Range(table') = Range(table) \union Range(batch)
  BY <1>1, ConcatInOrder DEF MeasureTypeOK, OrderInv
<1>3. batch' \in Seq(Row) /\ Range(batch') = {} /\ InOrder(batch')
  BY <1>1, EmptySeq, RangeEmpty
<1>4. Queued' = Queued /\ Held' = Held
  BY <1>1, <1>2, <1>3 DEF Queued, Held
<1>5. MeasureTypeOK'
  BY <1>1, <1>2, <1>3 DEF MeasureTypeOK
<1>6. Stamped'
  BY <1>1, <1>4, StampsKept
<1>7. OrderInv'
  <2>1. Ahead(table', batch') /\ Ahead(table', ch') /\ Ahead(batch', ch')
    BY <1>1, <1>2, <1>3 DEF OrderInv, Ahead
  <2>2. QED
    BY <1>1, <1>2, <1>3, <2>1 DEF OrderInv, Ahead, InOrder
<1>8. PlacedOnce'
  <2>1. /\ Apart(Range(table), Range(batch))' /\ Apart(Range(table), Range(ch))'
        /\ Apart(Range(batch), Range(ch))'
    BY <1>1, <1>2, <1>3 DEF PlacedOnce, Apart
  <2>2. QED
    BY <1>1, <1>4, <2>1 DEF PlacedOnce, Apart
<1>9. Stopped'
  BY <1>1 DEF Stopped
<1>10. QED
  BY <1>5, <1>6, <1>7, <1>8, <1>9

LEMMA InsertFailsStep ==
  ASSUME MeasureInv, InsertFails
  PROVE  MeasureInv'
<1> USE DEF MeasureInv
<1>1. /\ loop \in {"copy", "last copy"} /\ lost' = lost \union Range(batch)
      /\ batch' = <<>>
      /\ UNCHANGED <<today, sent, hand, ch, dropped, table, expired, cleaner, quit,
                     closer>>
  BY DEF InsertFails, Emptied
<1>2. Range(batch) \subseteq Row
  BY Ranges DEF MeasureTypeOK
<1>3. batch' \in Seq(Row) /\ Range(batch') = {} /\ InOrder(batch')
  BY <1>1, EmptySeq, RangeEmpty
<1>4. Queued' \subseteq Queued /\ Held' = Held
  BY <1>1, <1>3 DEF Queued, Held
<1>5. MeasureTypeOK'
  BY <1>1, <1>2, <1>3 DEF MeasureTypeOK
<1>6. Stamped'
  BY <1>1, <1>4, StampsKept
<1>7. OrderInv'
  BY <1>1, <1>3 DEF OrderInv, Ahead, InOrder
<1>8. PlacedOnce'
  <2>1. /\ Apart(Range(table), Range(batch))' /\ Apart(Range(table), Range(ch))'
        /\ Apart(Range(batch), Range(ch))'
        /\ Apart(Queued, dropped)' /\ Apart(Queued, lost)' /\ Apart(Queued, expired)'
        /\ Apart(dropped, lost)' /\ Apart(dropped, expired)'
        /\ Apart(lost, expired)'
    BY <1>1, <1>3 DEF PlacedOnce, Apart, Queued
  <2>2. QED
    BY <1>1, <1>4, <2>1 DEF PlacedOnce
<1>9. Stopped'
  BY <1>1 DEF Stopped
<1>10. QED
  BY <1>5, <1>6, <1>7, <1>8, <1>9

LEMMA CleanupStep ==
  ASSUME MeasureInv, Cleanup
  PROVE  MeasureInv'
<1> USE DEF MeasureInv
<1>1. /\ cleaner = "cleanup"
      /\ table' = SubSeqAt(table, {i \in DOMAIN table : ~Old(table[i])})
      /\ expired' = expired \union {r \in Range(table) : Old(r)}
      /\ UNCHANGED <<today, sent, hand, ch, dropped, loop, batch, lost, quit,
                     closer>>
  BY DEF Cleanup
<1>2. /\ table' \in Seq(Row) /\ InOrder(table')
      /\ Range(table') = {r \in Range(table) : ~Old(r)}
  BY <1>1, KeptInOrder DEF OrderInv
<1>3. Range(table) \subseteq Row
  BY Ranges DEF MeasureTypeOK
<1>4. PICK gone : gone = {r \in Range(table) : Old(r)}
  OBVIOUS
<1>5. /\ Range(table) = Range(table') \union gone /\ Apart(Range(table'), gone)
      /\ expired' = expired \union gone
  BY <1>1, <1>2, <1>4 DEF Apart
<1>6. Queued' \subseteq Queued /\ Held' = Held
  BY <1>1, <1>5 DEF Queued, Held
<1>7. MeasureTypeOK'
  BY <1>1, <1>2, <1>3, <1>5 DEF MeasureTypeOK
<1>8. Stamped'
  BY <1>1, <1>6, StampsKept
<1>9. OrderInv'
  <2>1. Ahead(table', batch) /\ Ahead(table', ch)
    BY <1>5 DEF OrderInv, Ahead
  <2>2. QED
    BY <1>1, <1>2, <2>1 DEF OrderInv, Ahead, InOrder
<1>10. PlacedOnce'
  <2>1. /\ Apart(Range(table), Range(batch))' /\ Apart(Range(table), Range(ch))'
        /\ Apart(Range(batch), Range(ch))'
        /\ Apart(Queued, dropped)' /\ Apart(Queued, lost)' /\ Apart(Queued, expired)'
        /\ Apart(dropped, lost)' /\ Apart(dropped, expired)'
        /\ Apart(lost, expired)'
    BY <1>1, <1>5 DEF PlacedOnce, Apart, Queued
  <2>2. QED
    BY <1>1, <1>6, <2>1 DEF PlacedOnce
<1>11. Stopped'
  BY <1>1 DEF Stopped
<1>12. QED
  BY <1>7, <1>8, <1>9, <1>10, <1>11

LEMMA QueuedRows ==
  ASSUME MeasureTypeOK
  PROVE  Queued \subseteq Row
  BY Ranges DEF MeasureTypeOK, Queued

LEMMA MeasureStep ==
  MeasureInv /\ [Next]_vars => MeasureInv'
<1> SUFFICES ASSUME MeasureInv, [Next]_vars PROVE MeasureInv'
  OBVIOUS
<1>1. CASE Day
  <2>1. /\ today' = today + 1
        /\ UNCHANGED <<sent, hand, ch, dropped, loop, batch, table, lost,
                       expired, cleaner, quit, closer>>
    BY <1>1 DEF Day
  <2>2. MeasureTypeOK'
    BY <2>1 DEF MeasureInv, MeasureTypeOK
  <2>3. Queued' = Queued /\ Held' = Held
    BY <2>1 DEF Queued, Held
  <2>4. \A m \in Queued : m.at \in Nat
    BY QueuedRows DEF MeasureInv, Row
  <2>5. Stamped'
    BY <2>1, <2>3, <2>4 DEF MeasureInv, MeasureTypeOK, Stamped
  <2>6. QED
    BY <2>1, <2>2, <2>5, NothingMoves DEF MeasureInv, Stopped
<1>2. ASSUME NEW c \in Conn, Decoded(c) PROVE MeasureInv'
  <2>1. /\ hand' = [hand EXCEPT ![c] = today]
        /\ UNCHANGED <<today, sent, ch, dropped, loop, batch, table, lost,
                       expired, cleaner, quit, closer>>
    BY <1>2 DEF Decoded
  <2>2. MeasureTypeOK' /\ \A k \in Conn : hand'[k] = IF k = c THEN today ELSE hand[k]
    BY <2>1 DEF MeasureInv, MeasureTypeOK
  <2>3. Queued' = Queued /\ Held' = Held
    BY <2>1 DEF Queued, Held
  <2>4. \A m \in Queued : m.from \in Conn
    BY QueuedRows DEF MeasureInv, Row
  <2>5. Stamped'
    BY <2>1, <2>2, <2>3, <2>4 DEF MeasureInv, MeasureTypeOK, Stamped
  <2>6. QED
    BY <2>1, <2>2, <2>5, NothingMoves DEF MeasureInv, Stopped
<1>3. ASSUME NEW c \in Conn, Enqueue(c) PROVE MeasureInv'
  BY <1>3, EnqueueStep
<1>4. CASE TakeOne
  BY <1>4, TakeOneStep
<1>5. CASE InsertBatch
  BY <1>5, InsertBatchStep
<1>6. CASE InsertFails
  BY <1>6, InsertFailsStep
<1>7. CASE Cleanup
  BY <1>7, CleanupStep
<1>8. ASSUME UNCHANGED <<today, hand, ch, batch, table, dropped, lost, expired, sent>>,
             Stopped'
      PROVE  MeasureInv'
  <2>1. MeasureTypeOK'
    BY <1>8 DEF MeasureInv, MeasureTypeOK
  <2>2. Queued' = Queued /\ Held' = Held
    BY <1>8 DEF Queued, Held
  <2>3. Stamped'
    BY <1>8, <2>2, StampsKept DEF MeasureInv
  <2>4. QED
    BY <1>8, <2>1, <2>3, NothingMoves
<1>9. Stopped
  BY DEF MeasureInv
<1>10. CASE TickFlush
  BY <1>8, <1>9, <1>10 DEF TickFlush, Stopped
<1>11. CASE LastFlush
  BY <1>8, <1>9, <1>11 DEF LastFlush, Stopped
<1>12. CASE CleanupFails \/ CleanupTick \/ CleanupQuit
  BY <1>8, <1>9, <1>12 DEF CleanupFails, CleanupTick, CleanupQuit, Stopped
<1>13. CASE Close
  BY <1>8, <1>9, <1>13 DEF Close, Stopped
<1>14. CASE CloseReturn
  BY <1>8, <1>9, <1>14 DEF CloseReturn, WaitDone, Stopped
<1>15. CASE UNCHANGED vars
  BY <1>8, <1>9, <1>15 DEF vars, Stopped
<1>16. QED
  BY <1>1, <1>2, <1>3, <1>4, <1>5, <1>6, <1>7, <1>10, <1>11, <1>12, <1>13,
     <1>14, <1>15
  DEF Next, InsertLoop, CleanupLoop

----------------------------------------------------------------------------
(* The theorems.                                                           *)

\* The inductive invariant of the measurement store.
THEOREM MeasureInvariant ==
  Spec => []MeasureInv
  BY MeasureInit, MeasureStep, PTL DEF Spec

\* The measurements of a connection go through queue and batch and are stored
\* in the order in which they were received, whatever is dropped, fails or is
\* cleaned up in between.
THEOREM OrderSafe ==
  Spec => []StoredInOrder
<1>1. ASSUME MeasureInv PROVE StoredInOrder
  <2>1. table \in Seq(Row) /\ batch \in Seq(Row) /\ ch \in Seq(Row)
    BY <1>1 DEF MeasureInv, MeasureTypeOK
  <2>2. PICK u : u = table \o batch
    OBVIOUS
  <2>3. /\ u \in Seq(Row) /\ InOrder(u)
        /\ Range(u) = Range(table) \union Range(batch)
    BY <1>1, <2>1, <2>2, ConcatInOrder DEF MeasureInv, OrderInv
  <2>4. InOrder(ch) /\ Ahead(u, ch)
    BY <1>1, <2>3 DEF MeasureInv, OrderInv, Ahead
  <2>5. PICK s : s = u \o ch
    OBVIOUS
  <2>6. s \in Seq(Row) /\ InOrder(s)
    BY <2>1, <2>3, <2>4, <2>5, ConcatInOrder
  <2>7. DOMAIN s = 1..Len(s)
    BY <2>6, LenProperties
  <2>8. s = table \o batch \o ch
    BY <2>2, <2>5
  <2>9. QED
    BY <2>6, <2>7, <2>8 DEF StoredInOrder, InOrder, Before
<1>2. QED
  BY <1>1, MeasureInvariant, PTL

\* In order means without repetition.
LEMMA OrderedOnce ==
  ASSUME NEW s \in Seq(Row), InOrder(s)
  PROVE  IsInjective(s)
<1> SUFFICES ASSUME NEW a \in 1..Len(s), NEW b \in 1..Len(s), s[a] = s[b], a # b
             PROVE  FALSE
  BY LenProperties DEF IsInjective
<1>1. Len(s) \in Nat /\ s[a] \in Row
  BY LenProperties, ElementOfSeq
<1>2. a < b \/ b < a
  BY <1>1
<1>3. Before(s[a], s[a])
  BY <1>2 DEF InOrder
<1>4. s[a].no < s[a].no /\ s[a].no \in Nat
  BY <1>1, <1>3 DEF Before, Row
<1>5. QED
  BY <1>4

\* A measurement is in one of the six places.
LEMMA OnePlace ==
  ASSUME MeasureInv
  PROVE  /\ UNION Range(Ways) = Held
         /\ \A m \in Held : \E i \in 1..6 : m \in Ways[i]
         /\ \A i, j \in 1..6 : \A m : m \in Ways[i] /\ m \in Ways[j] => i = j
<1>1. /\ Ways[1] = Range(ch) /\ Ways[2] = Range(batch) /\ Ways[3] = Range(table)
      /\ Ways[4] = dropped /\ Ways[5] = lost /\ Ways[6] = expired
      /\ DOMAIN Ways = 1..6
  BY DEF Ways
<1>2. \A i \in 1..6 : i = 1 \/ i = 2 \/ i = 3 \/ i = 4 \/ i = 5 \/ i = 6
  OBVIOUS
<1>3. \A m : m \in Held <=> \E i \in 1..6 : m \in Ways[i]
  <2>1. \A m : m \in Held => \E i \in 1..6 : m \in Ways[i]
    BY <1>1 DEF Held, Queued
  <2>2. \A m : (\E i \in 1..6 : m \in Ways[i]) => m \in Held
    BY <1>1, <1>2 DEF Held, Queued
  <2>3. QED
    BY <2>1, <2>2
<1>4. UNION Range(Ways) = Held
  <2>1. Range(Ways) = {Ways[i] : i \in 1..6}
    BY <1>1 DEF Range
  <2>2. \A m : m \in UNION Range(Ways) <=> \E i \in 1..6 : m \in Ways[i]
    BY <2>1
  <2>3. QED
    BY <1>3, <2>2
<1>5. \A i, j \in 1..6 : \A m : m \in Ways[i] /\ m \in Ways[j] => i = j
  BY <1>1, <1>2 DEF MeasureInv, PlacedOnce, Apart, Queued
<1>6. QED
  BY <1>3, <1>4, <1>5

\* Every measurement handed to Enqueue is in exactly one place: queued, in the
\* batch, stored once, or lost for one known reason.
THEOREM AccountedSafe ==
  Spec => []Accounted
<1>1. ASSUME MeasureInv PROVE Accounted
  <2>1. IsInjective(ch) /\ IsInjective(batch) /\ IsInjective(table)
    BY <1>1, OrderedOnce DEF MeasureInv, MeasureTypeOK, OrderInv
  <2>2. ASSUME NEW c \in Conn, NEW n \in 1..MaxMsg[c], NEW P,
               P = {p \in (1..6) \X UNION Range(Ways) :
                      /\ p[2] \in Ways[p[1]]
                      /\ p[2].from = c /\ p[2].no = n}
        PROVE  Cardinality(P) = IF n <= sent[c] THEN 1 ELSE 0
    <3>1. /\ UNION Range(Ways) = Held
          /\ \A m \in Held : \E i \in 1..6 : m \in Ways[i]
          /\ \A i, j \in 1..6 : \A m : m \in Ways[i] /\ m \in Ways[j] => i = j
      BY <1>1, OnePlace
    <3>2. MaxMsg[c] \in Nat /\ n \in Nat /\ 1 <= n /\ sent[c] \in Nat
      BY <1>1, BoundAssumption DEF MeasureInv, MeasureTypeOK
    <3>3. CASE n <= sent[c]
      <4>1. n \in 1..sent[c]
        BY <3>2, <3>3
      <4>2. PICK m \in Held : m.from = c /\ m.no = n
        BY <1>1, <4>1 DEF MeasureInv, PlacedOnce
      <4>3. PICK i \in 1..6 : m \in Ways[i]
        BY <3>1
      <4>4. <<i, m>> \in P
        BY <2>2, <3>1, <4>2, <4>3
      <4>5. ASSUME NEW p \in P PROVE p = <<i, m>>
        <5>1. /\ p = <<p[1], p[2]>> /\ p[1] \in 1..6 /\ p[2] \in Held
              /\ p[2] \in Ways[p[1]] /\ p[2].from = c /\ p[2].no = n
          BY <2>2, <3>1
        <5>2. p[2] = m
          BY <1>1, <4>2, <5>1 DEF MeasureInv, PlacedOnce
        <5>3. p[1] = i
          BY <3>1, <4>3, <5>1, <5>2
        <5>4. QED
          BY <5>1, <5>2, <5>3
      <4>6. P = {<<i, m>>}
        BY <4>4, <4>5
      <4>7. QED
        BY <3>3, <4>6, FS_Singleton
    <3>4. CASE ~(n <= sent[c])
      <4>1. \A m \in Held : ~(m.from = c /\ m.no = n)
        BY <1>1, <3>2, <3>4 DEF MeasureInv, Stamped
      <4>2. P = {}
        BY <2>2, <3>1, <4>1
      <4>3. QED
        BY <3>4, <4>2, FS_EmptySet
    <3>5. QED
      BY <3>3, <3>4
  <2>3. QED
    BY <2>1, <2>2 DEF Accounted
<1>2. QED
  BY <1>1, MeasureInvariant, PTL

\* After Close returned the batch is empty and insertLoop does not touch the
\* database any more: main may close the pool.
THEOREM QuietSafe ==
  Spec => QuietAfterClose
<1>1. MeasureInv /\ [Next]_vars =>
        [closer = "returned" => /\ batch = <<>>
                                /\ UNCHANGED <<table, batch, lost>>]_vars
  <2> SUFFICES ASSUME MeasureInv, Next, closer = "returned"
               PROVE  batch = <<>> /\ UNCHANGED <<table, batch, lost>>
    BY DEF vars
  <2>1. loop = "done" /\ cleaner = "done" /\ batch = <<>>
    BY DEF MeasureInv, Stopped
  <2>2. QED
    BY <2>1
    DEF Next, Day, Decoded, Enqueue, InsertLoop, TakeOne, TickFlush, LastFlush,
        InsertBatch, InsertFails, CleanupLoop, Cleanup, CleanupFails,
        CleanupTick, CleanupQuit, Close, CloseReturn
<1>2. QED
  BY <1>1, MeasureInvariant, PTL DEF Spec, QuietAfterClose

----------------------------------------------------------------------------
(* Charts: the rows of a period, in the order of reception, are divided    *)
(* into buckets, one per point.                                            *)

\* K buckets, the k-th of which is the n[k] positions behind o[k], divide
\* N positions.
Divides(o, n, K, N) ==
  /\ o \in [1..K -> Nat] /\ n \in [1..K -> Nat \ {0}]
  /\ \A k \in 1..K : o[k] + n[k] <= N
  /\ \A k, l \in 1..K : k < l => o[k] + n[k] <= o[l]
  /\ \A i \in 1..N : \E k \in 1..K : \E j \in 1..n[k] : i = o[k] + j

LEMMA Division ==
  ASSUME NEW N \in Nat, NEW s \in Nat \ {0}
  PROVE  /\ N \div s \in Nat /\ N % s \in Nat /\ N % s < s
         /\ N = (N \div s) * s + (N % s)
  OBVIOUS

LEMMA Product ==
  ASSUME NEW a \in Nat, NEW b \in Nat, NEW s \in Nat
  PROVE  /\ a * s \in Nat /\ (a + 1) * s = a * s + s
         /\ a <= b => a * s <= b * s
  OBVIOUS

\* Buckets of one size, the last of which may be shorter.
Sized(o, n, K, N, s) ==
  \A k \in 1..K : /\ o[k] = (k - 1) * s
                  /\ n[k] = IF k * s > N THEN N - (k - 1) * s ELSE s

LEMMA Divided ==
  ASSUME NEW N \in Nat, NEW s \in Nat \ {0}
  PROVE  \E K \in Nat : \E o, n :
           /\ Divides(o, n, K, N) /\ Sized(o, n, K, N, s)
           /\ {k \in 1..N : (k - 1) * s < N} = 1..K
           /\ \A M \in Nat : N <= M * s => K <= M
<1>1. PICK q \in Nat, r \in Nat : r < s /\ N = q * s + r
  BY Division
<1>2. PICK K \in Nat : /\ r = 0 => K = q
                       /\ r # 0 => K = q + 1
  <2>1. CASE r = 0
    BY <2>1
  <2>2. CASE r # 0
    BY <2>2
  <2>3. QED
    BY <2>1, <2>2
<1>3. K * s \in Nat /\ q * s \in Nat /\ N <= K * s /\ K * s < N + s
  <2>1. (q + 1) * s = q * s + s /\ q * s \in Nat
    BY Product
  <2>2. QED
    BY <1>1, <1>2, <2>1
<1>4. ASSUME NEW k \in Nat, k >= 1
      PROVE  /\ (k - 1) * s \in Nat /\ k * s = (k - 1) * s + s
             /\ k <= K => (k - 1) * s < N
             /\ k > K => N <= (k - 1) * s
             /\ k <= N \/ k > K
  <2>1. PICK a \in Nat : a = k - 1 /\ k = a + 1
    BY <1>4
  <2>2. a * s \in Nat /\ (a + 1) * s = a * s + s
    BY Product
  <2>3. k <= K => k * s <= K * s
    BY Product
  <2>4. k > K => K * s <= a * s
    BY <2>1, Product
  <2>5. a * s >= a
    BY <2>2
  <2>6. /\ (k - 1) * s = a * s /\ k * s = a * s + s
    BY <2>1, <2>2
  <2>7. k <= K => a * s < N
    BY <1>3, <2>2, <2>3, <2>6
  <2>8. k > K => N <= a * s
    BY <1>3, <2>2, <2>4
  <2>9. k <= N \/ k > K
    BY <2>1, <2>2, <2>5, <2>7
  <2>10. QED
    BY <2>2, <2>6, <2>7, <2>8, <2>9
<1>5. PICK o : o = [k \in 1..K |-> (k - 1) * s]
  OBVIOUS
<1>6. PICK n : n = [k \in 1..K |-> IF k * s > N THEN N - (k - 1) * s ELSE s]
  OBVIOUS
<1>7. ASSUME NEW k \in 1..K
      PROVE  /\ o[k] = (k - 1) * s /\ o[k] \in Nat /\ k * s = o[k] + s
             /\ n[k] = (IF k * s > N THEN N - o[k] ELSE s) /\ n[k] \in Nat \ {0}
             /\ n[k] <= s /\ o[k] + n[k] <= N
  <2>1. /\ (k - 1) * s \in Nat /\ k * s = (k - 1) * s + s /\ (k - 1) * s < N
    BY <1>4
  <2>2. o[k] = (k - 1) * s /\ n[k] = IF k * s > N THEN N - (k - 1) * s ELSE s
    BY <1>5, <1>6
  <2>3. QED
    BY <2>1, <2>2
<1>8. o \in [1..K -> Nat] /\ n \in [1..K -> Nat \ {0}]
  BY <1>5, <1>6, <1>7
<1>9. ASSUME NEW k \in 1..K, NEW l \in 1..K, k < l
      PROVE  o[k] + n[k] <= o[l]
  <2>1. PICK a \in Nat : a = l - 1 /\ k <= a
    BY <1>9
  <2>2. k * s <= a * s /\ a * s = o[l]
    BY <1>7, <2>1, Product
  <2>3. /\ k * s = o[k] + s /\ o[k] \in Nat /\ n[k] \in Nat /\ n[k] <= s
        /\ o[l] \in Nat
    BY <1>7
  <2>4. QED
    BY <2>2, <2>3
<1>10. ASSUME NEW i \in 1..N
       PROVE  \E k \in 1..K : \E j \in 1..n[k] : i = o[k] + j
  <2>1. PICK a \in Nat, b \in Nat : b < s /\ i - 1 = a * s + b
    <3>1. i - 1 \in Nat
      OBVIOUS
    <3>2. QED
      BY <3>1, Division
  <2>2. PICK k \in Nat : k = a + 1 /\ k >= 1 /\ k - 1 = a
    OBVIOUS
  <2>3. a * s \in Nat
    BY Product
  <2>4. k \in 1..K
    BY <1>4, <2>1, <2>2, <2>3
  <2>5. o[k] = a * s
    BY <1>7, <2>2, <2>4
  <2>6. b + 1 \in 1..n[k]
    BY <1>7, <2>1, <2>3, <2>4, <2>5
  <2>7. i = o[k] + (b + 1)
    BY <2>1, <2>3, <2>5
  <2>8. QED
    BY <2>4, <2>6, <2>7
<1>11. Divides(o, n, K, N)
  BY <1>7, <1>8, <1>9, <1>10 DEF Divides
<1>12. Sized(o, n, K, N, s)
  BY <1>7 DEF Sized
<1>13. {k \in 1..N : (k - 1) * s < N} = 1..K
  <2>1. ASSUME NEW k \in 1..N, (k - 1) * s < N PROVE k \in 1..K
    BY <1>4, <2>1
  <2>2. ASSUME NEW k \in 1..K PROVE k \in 1..N /\ (k - 1) * s < N
    BY <1>4
  <2>3. QED
    BY <2>1, <2>2
<1>14. ASSUME NEW M \in Nat, N <= M * s, ~(K <= M) PROVE FALSE
  <2>1. PICK k \in Nat : k = M + 1 /\ k >= 1 /\ k - 1 = M /\ k <= K
    BY <1>14
  <2>2. QED
    BY <1>4, <1>14, <2>1
<1>15. QED
  BY <1>11, <1>12, <1>13, <1>14

\* The positions of the buckets together are all positions.
LEMMA CountedOnce ==
  ASSUME NEW N \in Nat, NEW K \in Nat, NEW o, NEW n, Divides(o, n, K, N)
  PROVE  Cardinality(UNION {{k} \X (1..n[k]) : k \in 1..K}) = N
<1>1. PICK P : P = UNION {{k} \X (1..n[k]) : k \in 1..K}
  OBVIOUS
<1>2. /\ \A k \in 1..K : o[k] \in Nat /\ n[k] \in Nat /\ o[k] + n[k] <= N
      /\ \A k, l \in 1..K : k < l => o[k] + n[k] <= o[l]
      /\ \A i \in 1..N : \E k \in 1..K : \E j \in 1..n[k] : i = o[k] + j
  BY DEF Divides
<1>3. \A p \in P : /\ p = <<p[1], p[2]>> /\ p[1] \in 1..K /\ p[2] \in 1..n[p[1]]
                   /\ p[2] \in Nat
  BY <1>1, <1>2
<1>4. \A k \in 1..K : \A j \in 1..n[k] : <<k, j>> \in P
  BY <1>1
<1>5. PICK f : f = [p \in P |-> o[p[1]] + p[2]]
  OBVIOUS
<1>6. \A p \in P : f[p] = o[p[1]] + p[2] /\ f[p] \in 1..N
  BY <1>2, <1>3, <1>5
<1>7. f \in [P -> 1..N]
  BY <1>5, <1>6
<1>8. \A p, w \in P : f[p] = f[w] => p = w
  <2> SUFFICES ASSUME NEW p \in P, NEW w \in P, f[p] = f[w] PROVE p = w
    OBVIOUS
  <2>1. PICK k \in 1..K, j \in Nat : p = <<k, j>> /\ j \in 1..n[k]
    BY <1>3
  <2>2. PICK l \in 1..K, m \in Nat : w = <<l, m>> /\ m \in 1..n[l]
    BY <1>3
  <2>3. o[k] + j = o[l] + m
    BY <1>6, <2>1, <2>2
  <2>4. o[k] \in Nat /\ n[k] \in Nat /\ o[l] \in Nat /\ n[l] \in Nat
    BY <1>2
  <2>5. ~(k < l) /\ ~(l < k)
    BY <1>2, <2>1, <2>2, <2>3, <2>4
  <2>6. k = l
    BY <2>5
  <2>7. QED
    BY <2>1, <2>2, <2>3, <2>4, <2>6
<1>9. \A i \in 1..N : \E p \in P : f[p] = i
  <2> SUFFICES ASSUME NEW i \in 1..N PROVE \E p \in P : f[p] = i
    OBVIOUS
  <2>1. PICK k \in 1..K : \E j \in 1..n[k] : i = o[k] + j
    BY <1>2
  <2>2. PICK j \in 1..n[k] : i = o[k] + j
    BY <2>1
  <2>3. <<k, j>> \in P
    BY <1>4
  <2>4. f[<<k, j>>] = o[k] + j
    BY <1>6, <2>3
  <2>5. QED
    BY <2>2, <2>3, <2>4
<1>10. f \in Injection(P, 1..N)
  BY <1>7, <1>8 DEF Injection, IsInjective
<1>11. f \in Surjection(P, 1..N)
  BY <1>7, <1>9 DEF Surjection
<1>12. IsFiniteSet(1..N) /\ Cardinality(1..N) = N
  BY FS_Interval
<1>13. Cardinality(P) = N
  BY <1>10, <1>11, <1>12, FS_Injection
<1>14. QED
  BY <1>1, <1>13

\* A sequence that OrderedBy makes of a finite set of rows.
Sorted(raw, rows, N) ==
  /\ raw \in Seq(Row) /\ Len(raw) = N /\ DOMAIN raw = 1..N
  /\ \A i, j \in 1..N : raw[i] = raw[j] => i = j
  /\ \A i \in 1..N : raw[i] \in rows
  /\ \A r \in rows : \E i \in 1..N : raw[i] = r
  /\ \A i \in 1..(N - 1) : raw[i].at <= raw[i + 1].at

LEMMA OrderedBySorts ==
  ASSUME NEW rows \in SUBSET Row, IsFiniteSet(rows), NEW raw \in OrderedBy(rows)
  PROVE  \E N \in Nat : N = Cardinality(rows) /\ Sorted(raw, rows, N)
<1>1. PICK N \in Nat : N = Cardinality(rows)
  BY FS_CardinalityType
<1>2. /\ raw \in [1..N -> rows]
      /\ \A i, j \in 1..N : i # j => raw[i] # raw[j]
      /\ \A i \in 1..(Len(raw) - 1) : raw[i].at <= raw[i + 1].at
  BY <1>1 DEF OrderedBy, SetToSeqs
<1>3. raw \in Seq(Row) /\ Len(raw) = N /\ DOMAIN raw = 1..N
  <2>1. raw \in [1..N -> Row]
    BY <1>2
  <2>2. QED
    BY <2>1
<1>4. raw \in Injection(1..N, rows)
  BY <1>2 DEF Injection, IsInjective
<1>5. Cardinality(1..N) = N
  BY FS_Interval
<1>6. raw \in Surjection(1..N, rows)
  BY <1>1, <1>4, <1>5, FS_Injection
<1>7. \A r \in rows : \E i \in 1..N : raw[i] = r
  BY <1>6 DEF Surjection
<1>8. QED
  BY <1>1, <1>2, <1>3, <1>7 DEF Sorted

LEMMA SortedFar ==
  ASSUME NEW rows, NEW raw, NEW N \in Nat, Sorted(raw, rows, N)
  PROVE  \A i, j \in 1..N : i <= j => raw[i].at <= raw[j].at
<1>1. \A i \in 1..N : raw[i].at \in Nat
  <2>1. \A i \in 1..N : raw[i] \in Row
    BY ElementOfSeq DEF Sorted
  <2>2. QED
    BY <2>1 DEF Row
<1>2. ASSUME NEW i \in 1..N
      PROVE  \A j \in 1..N : i <= j => raw[i].at <= raw[j].at
  <2>1. PICK T : T = {d \in Nat : i + d <= N => raw[i].at <= raw[i + d].at}
    OBVIOUS
  <2>2. 0 \in T
    BY <1>1, <2>1
  <2>3. ASSUME NEW d \in Nat, d \in T PROVE d + 1 \in T
    <3> SUFFICES ASSUME i + (d + 1) <= N
                 PROVE  raw[i].at <= raw[i + (d + 1)].at
      BY <2>1
    <3>1. PICK j \in 1..N : j = i + d /\ j \in 1..(N - 1) /\ i + (d + 1) = j + 1
      OBVIOUS
    <3>2. raw[i].at <= raw[j].at
      BY <2>1, <2>3, <3>1
    <3>3. raw[j].at <= raw[j + 1].at
      BY <3>1 DEF Sorted
    <3>4. j + 1 \in 1..N
      BY <3>1
    <3>5. QED
      BY <1>1, <3>1, <3>2, <3>3, <3>4
  <2>4. Nat \subseteq T
    BY <2>2, <2>3, InductionSet
  <2>5. ASSUME NEW j \in 1..N, i <= j PROVE raw[i].at <= raw[j].at
    <3>1. PICK d \in Nat : d = j - i /\ j = i + d
      <4>1. j - i \in Nat /\ j = i + (j - i)
        BY <2>5
      <4>2. QED
        BY <4>1
    <3>2. QED
      BY <2>1, <2>4, <3>1
  <2>6. QED
    BY <2>5
<1>3. QED
  BY <1>2

\* The k-th point is made of the k-th bucket.
Pointed(pts, raw, o, n, K) ==
  /\ DOMAIN pts = 1..K /\ Len(pts) = K
  /\ \A k \in 1..K : \E b \in Seq(Row) :
       /\ pts[k] = PointOf(b) /\ Len(b) = n[k]
       /\ \A j \in 1..n[k] : b[j] = raw[o[k] + j]

\* Downsample makes points of buckets, and no more than it may.
LEMMA Downsampled ==
  ASSUME NEW rows, NEW raw, NEW N \in Nat, Sorted(raw, rows, N),
         NEW M \in Nat, NEW pts, pts = Downsample(raw, M)
  PROVE  \E K \in Nat : \E o, n : /\ Divides(o, n, K, N) /\ Pointed(pts, raw, o, n, K)
                                  /\ M > 0 => K <= M
<1>1. /\ raw \in Seq(Row) /\ Len(raw) = N /\ DOMAIN raw = 1..N
      /\ \A i \in 1..N : raw[i] \in Row
  BY ElementOfSeq DEF Sorted
<1>2. CASE M <= 0 \/ N <= M
  <2>0. PICK K \in Nat : \E o, n : /\ Divides(o, n, K, N) /\ Sized(o, n, K, N, 1)
                                   /\ {k \in 1..N : (k - 1) * 1 < N} = 1..K
    <3>1. 1 \in Nat \ {0}
      OBVIOUS
    <3>2. QED
      BY <3>1, Divided
  <2>1. PICK o, n : /\ Divides(o, n, K, N) /\ Sized(o, n, K, N, 1)
                    /\ {k \in 1..N : (k - 1) * 1 < N} = 1..K
    BY <2>0
  <2>2. pts = [i \in 1..N |-> PointOf(<<raw[i]>>)]
    BY <1>1, <1>2 DEF Downsample, RawToPoints
  <2>3. \A k \in 1..N : (k - 1) * 1 < N
    OBVIOUS
  <2>4. 1..N = 1..K
    BY <2>1, <2>3
  <2>5. K = N
    BY <2>4
  <2>6. ASSUME NEW k \in 1..K
        PROVE  \E b \in Seq(Row) : /\ pts[k] = PointOf(b) /\ Len(b) = n[k]
                                   /\ \A j \in 1..n[k] : b[j] = raw[o[k] + j]
    <3>1. o[k] = k - 1 /\ n[k] = 1
      BY <2>1, <2>5 DEF Sized
    <3>2. PICK b : b = <<raw[k]>>
      OBVIOUS
    <3>3. b \in Seq(Row) /\ Len(b) = 1 /\ b[1] = raw[k]
      BY <1>1, <2>5, <3>2
    <3>4. pts[k] = PointOf(b)
      BY <2>2, <2>5, <3>2
    <3>5. QED
      BY <3>1, <3>3, <3>4
  <2>7. DOMAIN pts = 1..K /\ Len(pts) = K
    BY <2>2, <2>5
  <2>8. M > 0 => K <= M
    BY <1>2, <2>5
  <2>9. QED
    BY <2>1, <2>6, <2>7, <2>8 DEF Pointed
<1>3. CASE ~(M <= 0 \/ N <= M)
  <2>1. PICK s \in Nat \ {0} : s = BucketSize(N, M) /\ N <= M * s
    <3>1. M \in Nat \ {0} /\ N + M - 1 \in Nat
      BY <1>3
    <3>2. PICK q \in Nat, r \in Nat : /\ q = (N + M - 1) \div M /\ r < M
                                      /\ N + M - 1 = q * M + r
      BY <3>1, Division
    <3>3. q * M >= N
      BY <3>2
    <3>4. q # 0
      BY <1>3, <3>3
    <3>5. M * q = q * M
      OBVIOUS
    <3>6. QED
      BY <3>2, <3>3, <3>4, <3>5 DEF BucketSize
  <2>0. PICK K \in Nat :
          /\ \E o, n : /\ Divides(o, n, K, N) /\ Sized(o, n, K, N, s)
                       /\ {k \in 1..N : (k - 1) * s < N} = 1..K
          /\ \A m \in Nat : N <= m * s => K <= m
    BY Divided
  <2>2. PICK o, n : /\ Divides(o, n, K, N) /\ Sized(o, n, K, N, s)
                    /\ {k \in 1..N : (k - 1) * s < N} = 1..K
    BY <2>0
  <2>3. pts = [k \in {k \in 1..N : (k - 1) * s < N} |-> PointOf(Bucket(raw, s, k))]
    BY <1>1, <1>3, <2>1 DEF Downsample
  <2>4. pts = [k \in 1..K |-> PointOf(Bucket(raw, s, k))]
    BY <2>2, <2>3
  <2>5. DOMAIN pts = 1..K /\ Len(pts) = K
    BY <2>4
  <2>6. ASSUME NEW k \in 1..K
        PROVE  \E b \in Seq(Row) : /\ pts[k] = PointOf(b) /\ Len(b) = n[k]
                                   /\ \A j \in 1..n[k] : b[j] = raw[o[k] + j]
    <3>1. /\ o[k] = (k - 1) * s /\ o[k] \in Nat /\ n[k] \in Nat \ {0}
          /\ o[k] + n[k] <= N
          /\ n[k] = IF k * s > N THEN N - (k - 1) * s ELSE s
      BY <2>2 DEF Sized, Divides
    <3>2. k * s = (k - 1) * s + s /\ k * s \in Nat
      OBVIOUS
    <3>3. PICK lo \in Nat, hi \in Nat : lo = o[k] + 1 /\ hi = o[k] + n[k]
      BY <3>1
    <3>4. PICK b : b = Bucket(raw, s, k)
      OBVIOUS
    <3>5. b = SubSeq(raw, lo, hi)
      <4>1. (IF k * s > N THEN N ELSE k * s) = hi
        BY <3>1, <3>2, <3>3
      <4>2. (k - 1) * s + 1 = lo
        BY <3>1, <3>3
      <4>3. QED
        BY <1>1, <3>4, <4>1, <4>2 DEF Bucket
    <3>6. \A i \in lo..hi : raw[i] \in Row
      BY <1>1, <3>1, <3>3
    <3>7. /\ b \in Seq(Row) /\ Len(b) = hi - lo + 1
          /\ \A j \in 1..(hi - lo + 1) : b[j] = raw[lo + j - 1]
      <4>1. lo <= hi
        BY <3>1, <3>3
      <4>2. QED
        BY <3>5, <3>6, <4>1, SubSeqProperties
    <3>8. hi - lo + 1 = n[k]
      BY <3>1, <3>3
    <3>9. \A j \in 1..n[k] : b[j] = raw[o[k] + j]
      BY <3>1, <3>3, <3>7, <3>8
    <3>10. pts[k] = PointOf(b)
      BY <2>4, <3>4
    <3>11. QED
      BY <3>7, <3>8, <3>9, <3>10
  <2>7. K <= M
    BY <2>0, <2>1
  <2>8. QED
    BY <2>2, <2>5, <2>6, <2>7 DEF Pointed
<1>4. QED
  BY <1>2, <1>3

\* A row is in one bucket.
LEMMA OneBucket ==
  ASSUME NEW rows, NEW raw, NEW N \in Nat, Sorted(raw, rows, N),
         NEW K \in Nat, NEW o, NEW n, Divides(o, n, K, N), NEW r \in rows
  PROVE  \E k \in 1..K :
           /\ \E j \in 1..n[k] : r = raw[o[k] + j]
           /\ \A l \in 1..K : \A m \in 1..n[l] : r = raw[o[l] + m] => l = k
<1>1. /\ \A k \in 1..K : o[k] \in Nat /\ n[k] \in Nat /\ o[k] + n[k] <= N
      /\ \A k, l \in 1..K : k < l => o[k] + n[k] <= o[l]
      /\ \A i \in 1..N : \E k \in 1..K : \E j \in 1..n[k] : i = o[k] + j
  BY DEF Divides
<1>2. PICK i \in 1..N : raw[i] = r
  BY DEF Sorted
<1>3. PICK k \in 1..K : \E j \in 1..n[k] : i = o[k] + j
  BY <1>1
<1>4. PICK j \in 1..n[k] : i = o[k] + j
  BY <1>3
<1>5. ASSUME NEW l \in 1..K, NEW m \in 1..n[l], r = raw[o[l] + m]
      PROVE  l = k
  <2>1. o[l] \in Nat /\ n[l] \in Nat /\ o[k] \in Nat /\ n[k] \in Nat
    BY <1>1
  <2>2. o[l] + m \in 1..N
    BY <1>1, <2>1
  <2>3. o[l] + m = o[k] + j
    BY <1>2, <1>4, <1>5, <2>2 DEF Sorted
  <2>4. ~(k < l) /\ ~(l < k)
    BY <1>1, <2>1, <2>3
  <2>5. QED
    BY <2>4
<1>6. QED
  BY <1>2, <1>4, <1>5

\* What the points of one chart say of a column, and of the rows.
Averages(pts, rows, s) ==
  /\ \A r \in rows : Cardinality({i \in DOMAIN pts : r \in pts[i].off[s]})
                       = IF s \in Usable(r) THEN 1 ELSE 0
  /\ \A i \in DOMAIN pts :
       /\ pts[i].off[s] \subseteq rows
       /\ (\A r \in rows : s \notin NotFinite[r.from][r.no]) =>
            (s \in pts[i].validity <=> Cardinality(pts[i].off[s]) = pts[i].n)

Shows(pts, rows, M) ==
  /\ M > 0 => Len(pts) <= M
  /\ Cardinality(UNION {{i} \X (1..pts[i].n) : i \in DOMAIN pts})
       = Cardinality(rows)
  /\ \A i \in 1..(Len(pts) - 1) : pts[i].at <= pts[i + 1].at
  /\ \A s \in Slot : Averages(pts, rows, s)

LEMMA Faithful ==
  ASSUME NEW rows \in SUBSET Row, NEW raw, NEW N \in Nat, Sorted(raw, rows, N),
         NEW K \in Nat, NEW o, NEW n, Divides(o, n, K, N),
         NEW pts, Pointed(pts, raw, o, n, K), NEW s \in Slot
  PROVE  Averages(pts, rows, s)
<1>1. /\ DOMAIN pts = 1..K
      /\ \A k \in 1..K : /\ o[k] \in Nat /\ n[k] \in Nat /\ o[k] + n[k] <= N
                         /\ \A j \in 1..n[k] : o[k] + j \in 1..N
  <2>1. \A k \in 1..K : o[k] \in Nat /\ n[k] \in Nat /\ o[k] + n[k] <= N
    BY DEF Divides
  <2>2. QED
    BY <2>1 DEF Pointed
<1>2. ASSUME NEW k \in 1..K
      PROVE  \E B : /\ B \subseteq rows /\ IsFiniteSet(B) /\ Cardinality(B) = n[k]
                    /\ \A r : r \in B <=> \E j \in 1..n[k] : r = raw[o[k] + j]
                    /\ pts[k].off[s] = {r \in B : s \in Usable(r)}
                    /\ pts[k].n = n[k]
                    /\ s \in pts[k].validity <=>
                         \A r \in B : s \in Validity[r.from][r.no]
  <2>1. PICK b \in Seq(Row) : /\ pts[k] = PointOf(b) /\ Len(b) = n[k]
                              /\ \A j \in 1..n[k] : b[j] = raw[o[k] + j]
    BY DEF Pointed
  <2>2. PICK m \in Nat : m = n[k]
    BY <1>1
  <2>3. PICK B : B = Range(b)
    OBVIOUS
  <2>4. \A r : r \in B <=> \E j \in 1..m : r = b[j]
    BY <2>1, <2>2, <2>3, Ranges
  <2>5. \A j \in 1..m : b[j] \in rows
    BY <1>1, <2>1, <2>2 DEF Sorted
  <2>6. b \in [1..m -> B]
    <3>1. b \in [1..m -> Row]
      BY <2>1, <2>2, LenProperties
    <3>2. QED
      BY <2>4, <3>1
  <2>7. \A i, j \in 1..m : b[i] = b[j] => i = j
    <3> SUFFICES ASSUME NEW i \in 1..m, NEW j \in 1..m, b[i] = b[j] PROVE i = j
      OBVIOUS
    <3>1. raw[o[k] + i] = raw[o[k] + j] /\ o[k] + i \in 1..N /\ o[k] + j \in 1..N
      BY <1>1, <2>1, <2>2
    <3>2. o[k] + i = o[k] + j /\ o[k] \in Nat
      BY <1>1, <3>1 DEF Sorted
    <3>3. QED
      BY <3>2
  <2>8. ExistsBijection(1..m, B)
    <3>1. b \in Injection(1..m, B) /\ b \in Surjection(1..m, B)
      BY <2>4, <2>6, <2>7 DEF Injection, IsInjective, Surjection
    <3>2. QED
      BY <3>1 DEF ExistsBijection, Bijection
  <2>9. IsFiniteSet(B) /\ Cardinality(B) = m
    <3>1. IsFiniteSet(1..m) /\ Cardinality(1..m) = m
      BY FS_Interval
    <3>2. QED
      BY <2>8, <3>1, FS_Bijection
  <2>10. /\ pts[k].off[s] = {r \in B : s \in Usable(r)} /\ pts[k].n = Len(b)
         /\ s \in pts[k].validity <=> \A r \in B : s \in Validity[r.from][r.no]
    BY <2>1, <2>3 DEF PointOf, Average
  <2>11. \A r : r \in B <=> \E j \in 1..n[k] : r = raw[o[k] + j]
    BY <2>1, <2>2, <2>4
  <2>12. QED
    BY <2>1, <2>2, <2>4, <2>5, <2>9, <2>10, <2>11
<1>3. ASSUME NEW r \in rows
      PROVE  Cardinality({i \in DOMAIN pts : r \in pts[i].off[s]})
               = IF s \in Usable(r) THEN 1 ELSE 0
  <2>1. PICK k \in 1..K :
          /\ \E j \in 1..n[k] : r = raw[o[k] + j]
          /\ \A l \in 1..K : \A m \in 1..n[l] : r = raw[o[l] + m] => l = k
    BY OneBucket
  <2>2. \A l \in 1..K : r \in pts[l].off[s] <=> l = k /\ s \in Usable(r)
    <3> SUFFICES ASSUME NEW l \in 1..K
                 PROVE  r \in pts[l].off[s] <=> l = k /\ s \in Usable(r)
      OBVIOUS
    <3>1. PICK B : /\ \A q : q \in B <=> \E j \in 1..n[l] : q = raw[o[l] + j]
                   /\ pts[l].off[s] = {q \in B : s \in Usable(q)}
      BY <1>2
    <3>2. r \in B <=> l = k
      BY <2>1, <3>1
    <3>3. QED
      BY <3>1, <3>2
  <2>3. CASE s \in Usable(r)
    <3>1. {i \in DOMAIN pts : r \in pts[i].off[s]} = {k}
      BY <1>1, <2>2, <2>3
    <3>2. QED
      BY <2>3, <3>1, FS_Singleton
  <2>4. CASE s \notin Usable(r)
    <3>1. {i \in DOMAIN pts : r \in pts[i].off[s]} = {}
      BY <1>1, <2>2, <2>4
    <3>2. QED
      BY <2>4, <3>1, FS_EmptySet
  <2>5. QED
    BY <2>3, <2>4
<1>4. ASSUME NEW k \in 1..K
      PROVE  /\ pts[k].off[s] \subseteq rows
             /\ (\A r \in rows : s \notin NotFinite[r.from][r.no]) =>
                  (s \in pts[k].validity <=> Cardinality(pts[k].off[s]) = pts[k].n)
  <2>1. PICK B : /\ B \subseteq rows /\ IsFiniteSet(B) /\ Cardinality(B) = n[k]
                 /\ pts[k].off[s] = {r \in B : s \in Usable(r)}
                 /\ pts[k].n = n[k]
                 /\ s \in pts[k].validity <=>
                      \A r \in B : s \in Validity[r.from][r.no]
    BY <1>2
  <2>2. PICK C \in SUBSET B : C = pts[k].off[s]
    BY <2>1
  <2>3. ASSUME \A r \in rows : s \notin NotFinite[r.from][r.no]
        PROVE  s \in pts[k].validity <=> C = B
    BY <2>1, <2>2, <2>3 DEF Usable
  <2>4. Cardinality(C) = Cardinality(B) <=> C = B
    BY <2>1, FS_Subset
  <2>5. QED
    BY <2>1, <2>2, <2>3, <2>4
<1>5. QED
  BY <1>1, <1>3, <1>4 DEF Averages

\* The points are in the order of reception.
LEMMA PointsOrdered ==
  ASSUME NEW rows, NEW raw, NEW N \in Nat, Sorted(raw, rows, N),
         NEW K \in Nat, NEW o, NEW n, Divides(o, n, K, N),
         NEW pts, Pointed(pts, raw, o, n, K)
  PROVE  \A i \in 1..(Len(pts) - 1) : pts[i].at <= pts[i + 1].at
<1>1. /\ \A k \in 1..K : o[k] \in Nat /\ n[k] \in Nat \ {0} /\ o[k] + n[k] <= N
      /\ \A k, l \in 1..K : k < l => o[k] + n[k] <= o[l]
  BY DEF Divides
<1>2. ASSUME NEW k \in 1..K
      PROVE  pts[k].at = raw[o[k] + 1].at /\ o[k] + 1 \in 1..N
  <2>1. PICK b \in Seq(Row) : /\ pts[k] = PointOf(b)
                              /\ \A j \in 1..n[k] : b[j] = raw[o[k] + j]
    BY DEF Pointed
  <2>2. 1 \in 1..n[k] /\ o[k] + 1 \in 1..N
    BY <1>1
  <2>3. QED
    BY <2>1, <2>2 DEF PointOf
<1>3. ASSUME NEW i \in 1..(Len(pts) - 1)
      PROVE  pts[i].at <= pts[i + 1].at
  <2>1. Len(pts) = K
    BY DEF Pointed
  <2>2. PICK k \in 1..K, l \in 1..K : k = i /\ l = i + 1 /\ k < l
    BY <2>1
  <2>3. /\ o[k] \in Nat /\ n[k] \in Nat /\ o[l] \in Nat /\ o[k] + n[k] <= o[l]
    BY <1>1, <2>2
  <2>4. o[k] + 1 <= o[l] + 1
    BY <2>3
  <2>5. raw[o[k] + 1].at <= raw[o[l] + 1].at
    BY <1>2, <2>4, SortedFar
  <2>6. QED
    BY <1>2, <2>2, <2>5
<1>4. QED
  BY <1>3

\* Every chart, of any device and period and with any number of points, shows
\* each stored measurement of the device in the period exactly once, in order,
\* however many rows there are and however they got there.
THEOREM ChartSafe ==
  Spec => []ChartFaithful
<1>1. ASSUME MeasureInv PROVE ChartFaithful
  <2> SUFFICES ASSUME NEW d \in Device, NEW hours \in 1..chartsMaxHours,
                      NEW M \in 0..chartsMaxPoints,
                      NEW pts \in MeasurementsAPI(d, hours, M)
               PROVE  Shows(pts, {r \in Range(table) : DeviceOf[r.from] = d
                                                   /\ today - r.at <= hours}, M)
    BY Zenon DEF ChartFaithful, Shows, Averages
  <2> DEFINE rows == {r \in Range(table) : DeviceOf[r.from] = d
                                           /\ today - r.at <= hours}
  <2> HIDE DEF rows
  <2>1. table \in Seq(Row) /\ today \in Nat
    BY <1>1 DEF MeasureInv, MeasureTypeOK
  <2>2. rows \in SUBSET Row
    BY <2>1, Ranges DEF rows
  <2>3. IsFiniteSet(rows)
    <3>1. PICK m \in Nat : m = Len(table)
      BY <2>1, LenProperties
    <3>2. table \in Surjection(1..m, Range(table))
      <4>1. table \in [1..m -> Range(table)]
        BY <2>1, <3>1, LenProperties, Ranges
      <4>2. QED
        BY <2>1, <3>1, <4>1, Ranges DEF Surjection
    <3>3. IsFiniteSet(Range(table))
      BY <3>2, FS_Surjection, FS_Interval
    <3>4. rows \in SUBSET Range(table)
      BY DEF rows
    <3>5. QED
      BY <3>3, <3>4, FS_Subset
  <2>4. hours \in Nat /\ hours >= 1 /\ hours <= chartsMaxHours /\ M \in Nat
    BY ChartsAssumption
  <2>5. InRange(d, today - hours, today) = rows
    <3>1. \A r \in Range(table) : r.at \in Nat /\ r.at <= today
      <4>1. Range(table) \subseteq Row /\ Range(table) \subseteq Queued
        BY <2>1, Ranges DEF Queued
      <4>2. QED
        BY <1>1, <4>1 DEF MeasureInv, Stamped, Row
    <3>2. \A r \in Range(table) :
            today - r.at <= hours <=> today - hours <= r.at /\ r.at <= today
      BY <2>1, <2>4, <3>1
    <3>3. QED
      BY <3>2 DEF InRange, rows
  <2>6. pts \in {Downsample(raw, M) : raw \in OrderedBy(rows)}
    <3>1. ~(hours <= 0 \/ hours > chartsMaxHours)
      BY <2>4, ChartsAssumption
    <3>2. QED
      BY <2>5, <3>1 DEF MeasurementsAPI, QueryRange
  <2>7. PICK raw \in OrderedBy(rows) : pts = Downsample(raw, M)
    BY <2>6
  <2>8. PICK N \in Nat : N = Cardinality(rows) /\ Sorted(raw, rows, N)
    BY <2>2, <2>3, OrderedBySorts
  <2>9. PICK K \in Nat : \E o, n : /\ Divides(o, n, K, N)
                                   /\ Pointed(pts, raw, o, n, K)
                                   /\ M > 0 => K <= M
    BY <2>4, <2>7, <2>8, Downsampled
  <2>10. PICK o, n : /\ Divides(o, n, K, N) /\ Pointed(pts, raw, o, n, K)
                     /\ M > 0 => K <= M
    BY <2>9
  <2>11. M > 0 => Len(pts) <= M
    BY <2>10 DEF Pointed
  <2>12. Cardinality(UNION {{i} \X (1..pts[i].n) : i \in DOMAIN pts})
           = Cardinality(rows)
    <3>1. DOMAIN pts = 1..K
      BY <2>10 DEF Pointed
    <3>2. \A i \in 1..K : pts[i].n = n[i]
      BY <2>10 DEF Pointed, PointOf
    <3>3. UNION {{i} \X (1..pts[i].n) : i \in DOMAIN pts}
            = UNION {{i} \X (1..n[i]) : i \in 1..K}
      BY <3>1, <3>2
    <3>4. QED
      BY <2>8, <2>10, <3>3, CountedOnce
  <2>13. \A i \in 1..(Len(pts) - 1) : pts[i].at <= pts[i + 1].at
    BY <2>8, <2>10, PointsOrdered
  <2>14. Shows(pts, rows, M)
    BY <2>2, <2>8, <2>10, <2>11, <2>12, <2>13, Faithful DEF Shows
  <2>15. QED
    BY <2>14 DEF rows
<1>2. QED
  BY <1>1, MeasureInvariant, PTL
=============================================================================
