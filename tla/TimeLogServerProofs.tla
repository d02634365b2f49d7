------------------------ MODULE TimeLogServerProofs ------------------------
(***************************************************************************)
(* Proofs about TimeLogServer, for any number of browsers, devices and     *)
(* entries, any capacity of the channel and any depth of the rings.        *)
(*                                                                         *)
(* OneWriter: ServeWS writes in "history" only, and whoever broadcastLoop  *)
(* writes to has been registered, after "history" (WriteInv).              *)
(* ShownInOrder: the numbers of a device grow from the handled entries to  *)
(* the channel (NumInv) and, for a browser, from what it was shown to the  *)
(* rest of its history and to the entry in hand (ViewInv, WriteInv).       *)
(* StreamComplete: seen from its current element on, the ring of a device  *)
(* is empty slots and then the last entries handled (RingInv).             *)
(***************************************************************************)
EXTENDS TimeLogServer, SubsequencesProofs

Rising(s) == \A i, j \in 1..Len(s) : i < j => s[i].no < s[j].no

\* All of A have lower numbers than all of B.
Below(A, B) == \A r \in A, q \in B : r.no < q.no

TimeTypeOK ==
  /\ sent \in [Device -> Nat] /\ in \in Seq(Entry)
  /\ slots \in [Device -> [0..(Depth - 1) -> Entry \union {Nil}]]
  /\ pos \in [Device -> 0..(Depth - 1)]
  /\ clients \subseteq Browser /\ todo \subseteq Browser
  /\ writing \subseteq Browser /\ busy \subseteq Browser
  /\ pc \in [Browser -> {"new", "upgraded", "history", "reading", "leaving",
                         "gone"}]
  /\ dev \in [Browser -> Device \union {NoDev}]
  /\ \A b \in Browser : pc[b] # "new" => dev[b] \in Device
  /\ hist \in [Browser -> Seq(Entry)] /\ shown \in [Browser -> Seq(Entry)]
  /\ handled \in [Device -> Seq(Entry)]
  /\ since \in [Browser -> Nat]

\* The entries of a device that are still in the channel.
Coming(d) == {e \in Range(in) : e.of = d}

NumInv ==
  /\ \A i, j \in 1..Len(in) : i < j /\ in[i].of = in[j].of => in[i].no < in[j].no
  /\ \A e \in Range(in) : e.no <= sent[e.of]
  /\ \A d \in Device : /\ Rising(handled[d])
                       /\ Below(Range(handled[d]), Coming(d))
                       /\ \A e \in Range(handled[d]) : e.of = d /\ e.no <= sent[d]

RingInv == \A d \in Device : RingOf(Depth, slots[d], pos[d], handled[d], Nil)

ViewInv ==
  \A b \in Browser :
    /\ pc[b] \in {"new", "upgraded"} => shown[b] = <<>>
    /\ hist[b] # <<>> => pc[b] = "history"
    /\ Rising(shown[b]) /\ Rising(hist[b]) /\ Below(Range(shown[b]), Range(hist[b]))
    /\ pc[b] # "new" =>
         Range(shown[b]) \union Range(hist[b]) \subseteq Range(handled[dev[b]])

WriteInv ==
  /\ \A b \in busy : hist[b] # <<>>
  /\ \A b \in clients \union todo \union writing :
       pc[b] \in {"reading", "leaving", "gone"}
  /\ \A b \in todo \union writing : /\ entry \in Range(handled[dev[b]])
                                    /\ Below(Range(shown[b]), {entry})
  /\ writing \intersect todo = {} /\ \A b, c \in writing : b = c

Streamed(b) ==
  \A i \in (since[b] + 1)..Len(handled[dev[b]]) :
    \/ handled[dev[b]][i] \in Range(shown[b])
    \/ b \in todo \union writing /\ handled[dev[b]][i] = entry

StreamInv == \A b \in clients \ closed : Streamed(b)

TimeInv == TimeTypeOK /\ NumInv /\ RingInv /\ ViewInv /\ WriteInv /\ StreamInv

----------------------------------------------------------------------------
(* Sequences of entries.                                                   *)

LEMMA RangeEmpty ==
  Range(<<>>) = {} /\ Rising(<<>>)
  BY DEF Range, Rising

LEMMA AppendRange ==
  ASSUME NEW s \in Seq(Entry), NEW e \in Entry
  PROVE  /\ Append(s, e) \in Seq(Entry)
         /\ Range(Append(s, e)) = Range(s) \union {e}
<1>1. <<e>> \in Seq(Entry) /\ Range(<<e>>) = {e}
  BY DEF Range
<1>2. PICK u \in Seq(Entry) : u = <<e>>
  BY <1>1, Zenon
<1>3. Append(s, e) = s \o u /\ Append(s, e) \in Seq(Entry)
  BY <1>2, AppendIsConcat, AppendProperties
<1>4. Range(s \o u) = Range(s) \union Range(u)
  BY RangeConcatenation
<1>5. QED
  BY <1>1, <1>2, <1>3, <1>4

LEMMA AppendRising ==
  ASSUME NEW s \in Seq(Entry), NEW e \in Entry, Rising(s), Below(Range(s), {e})
  PROVE  Rising(Append(s, e))
<1>1. PICK n \in Nat, t \in Seq(Entry) : n = Len(s) /\ t = Append(s, e)
  BY LenProperties, AppendProperties
<1>2. Len(t) = n + 1 /\ (\A i \in 1..n : t[i] = s[i]) /\ t[n + 1] = e
  BY <1>1, AppendProperties
<1>3. ASSUME NEW i \in 1..(n + 1), NEW j \in 1..(n + 1), i < j
      PROVE  t[i].no < t[j].no
  <2>1. i \in 1..n /\ t[i] = s[i] /\ s[i] \in Range(s)
    BY <1>1, <1>2, <1>3, Ranges
  <2>2. CASE j = n + 1
    BY <1>2, <2>1, <2>2 DEF Below
  <2>3. CASE j \in 1..n
    BY <1>1, <1>2, <1>3, <2>1, <2>3 DEF Rising
  <2>4. QED
    BY <2>2, <2>3
<1>4. QED
  BY <1>1, <1>2, <1>3 DEF Rising

LEMMA TailRising ==
  ASSUME NEW s \in Seq(Entry), s # <<>>
  PROVE  /\ Head(s) \in Entry /\ Tail(s) \in Seq(Entry)
         /\ Range(s) = Range(Tail(s)) \union {Head(s)}
         /\ Rising(s) => Rising(Tail(s)) /\ Below({Head(s)}, Range(Tail(s)))
<1>1. PICK n \in Nat : Len(s) = n + 1
  <2>1. Len(s) \in Nat \ {0}
    BY EmptySeq
  <2>2. Len(s) - 1 \in Nat /\ Len(s) = (Len(s) - 1) + 1
    BY <2>1
  <2>3. QED
    BY <2>2
<1>2. PICK t, h : t = Tail(s) /\ h = Head(s)
  OBVIOUS
<1>3. h \in Entry /\ t \in Seq(Entry) /\ Len(t) = n /\ h = s[1]
      /\ \A i \in 1..n : t[i] = s[i + 1]
  BY <1>1, <1>2, HeadTailProperties
<1>4. Range(s) = Range(t) \union {h}
  <2>1. <<h>> \in Seq(Entry) /\ Range(<<h>>) = {h}
    BY <1>3 DEF Range
  <2>2. PICK u \in Seq(Entry) : u = <<h>>
    BY <2>1, Zenon
  <2>3. s = u \o t
    BY <1>2, <1>3, <2>2
  <2>4. Range(u \o t) = Range(u) \union Range(t)
    BY <1>3, RangeConcatenation
  <2>5. QED
    BY <2>1, <2>2, <2>3, <2>4
<1>5. ASSUME Rising(s) PROVE Rising(t) /\ Below({h}, Range(t))
  <2>1. Rising(t)
    <3> SUFFICES ASSUME NEW i \in 1..n, NEW j \in 1..n, i < j
                 PROVE  t[i].no < t[j].no
      BY <1>3 DEF Rising
    <3>1. /\ i + 1 \in 1..Len(s) /\ j + 1 \in 1..Len(s) /\ i + 1 < j + 1
          /\ t[i] = s[i + 1] /\ t[j] = s[j + 1]
      BY <1>1, <1>3
    <3>2. QED
      BY <1>5, <3>1 DEF Rising
  <2>2. ASSUME NEW r \in Range(t) PROVE h.no < r.no
    <3>1. PICK i \in 1..n : t[i] = r
      BY <1>3, Ranges
    <3>2. /\ i + 1 \in 1..Len(s) /\ 1 \in 1..Len(s) /\ 1 < i + 1
          /\ r = s[i + 1] /\ h = s[1]
      BY <1>1, <1>3, <3>1
    <3>3. QED
      BY <1>5, <3>2 DEF Rising
  <2>3. QED
    BY <2>1, <2>2 DEF Below
<1>6. QED
  BY <1>2, <1>3, <1>4, <1>5

----------------------------------------------------------------------------
(* The ring.                                                               *)

\* The history is the last Depth entries handled.
LEMMA HistoryIs ==
  ASSUME TimeTypeOK, RingInv, NEW d \in Device, NEW n \in Nat,
         n = Len(handled[d])
  PROVE  History(d) = SubSeq(handled[d], IF n > Depth THEN n - Depth + 1 ELSE 1, n)
<1>1. PICK h \in Seq(Entry) : h = handled[d]
  BY DEF TimeTypeOK
<1>2. PICK r, p : r = slots[d] /\ p = pos[d]
  OBVIOUS
<1>3. History(d) = Contents(Depth, r, p, Nil)
  BY <1>2 DEF History, Contents, Visits
<1>4. RingOf(Depth, r, p, h, Nil)
  BY <1>1, <1>2 DEF RingInv
<1>5. n = Len(h)
  BY <1>1
<1>6. Contents(Depth, r, p, Nil) = Latest(Depth, h)
  BY <1>4, DepthAssumption, NilAssumption, RingRead
<1>7. QED
  BY <1>1, <1>3, <1>5, <1>6 DEF Latest

LEMMA HistoryRising ==
  ASSUME TimeInv, NEW d \in Device
  PROVE  /\ History(d) \in Seq(Entry) /\ Rising(History(d))
         /\ Range(History(d)) \subseteq Range(handled[d])
<1>1. PICK h \in Seq(Entry) : h = handled[d]
  BY DEF TimeInv, TimeTypeOK
<1>2. PICK n \in Nat : n = Len(h)
  BY LenProperties
<1>3. PICK m \in Nat : m >= 1 /\ m = IF n > Depth THEN n - Depth + 1 ELSE 1
  <2>1. CASE n > Depth
    <3>1. n - Depth + 1 \in Nat /\ n - Depth + 1 >= 1
      BY <2>1, DepthAssumption
    <3>2. QED
      BY <2>1, <3>1
  <2>2. QED
    BY <2>1
<1>4. PICK t : t = History(d) /\ t = SubSeq(h, m, n)
  BY <1>1, <1>2, <1>3, HistoryIs DEF TimeInv
<1>5. \A i \in m..n : h[i] \in Entry
  BY <1>2, <1>3, ElementOfSeq
<1>6. /\ t \in Seq(Entry) /\ Len(t) = IF m <= n THEN n - m + 1 ELSE 0
      /\ \A j \in 1..(n - m + 1) : t[j] = h[m + j - 1]
  BY <1>4, <1>5, SubSeqProperties
<1>7. ASSUME NEW j \in 1..Len(t)
      PROVE  m + j - 1 \in 1..n /\ t[j] = h[m + j - 1]
  BY <1>3, <1>6
<1>8. Rising(t)
  <2> SUFFICES ASSUME NEW i \in 1..Len(t), NEW j \in 1..Len(t), i < j
               PROVE  t[i].no < t[j].no
    BY DEF Rising
  <2>1. /\ m + i - 1 \in 1..n /\ t[i] = h[m + i - 1]
        /\ m + j - 1 \in 1..n /\ t[j] = h[m + j - 1]
    BY <1>7
  <2>2. m + i - 1 < m + j - 1
    BY <1>6
  <2>3. Rising(h)
    BY <1>1 DEF TimeInv, NumInv
  <2>4. QED
    BY <1>2, <2>1, <2>2, <2>3 DEF Rising
<1>9. Range(t) \subseteq Range(h)
  <2> SUFFICES ASSUME NEW r \in Range(t) PROVE r \in Range(h)
    OBVIOUS
  <2>1. PICK j \in 1..Len(t) : t[j] = r
    BY <1>6, Ranges
  <2>2. m + j - 1 \in 1..Len(h) /\ r = h[m + j - 1]
    BY <1>2, <1>7, <2>1
  <2>3. QED
    BY <2>2, Ranges
<1>10. QED
  BY <1>1, <1>4, <1>6, <1>8, <1>9

----------------------------------------------------------------------------
(* The invariant holds initially, and every step preserves it.             *)

LEMMA TimeInit ==
  Init => TimeInv
<1> SUFFICES ASSUME Init PROVE TimeInv
  OBVIOUS
<1>1. PICK D \in Nat : D = Depth /\ D >= 1
  BY DepthAssumption
<1>2. TimeTypeOK
  <2>1. 0 \in 0..(Depth - 1) /\ <<>> \in Seq(Entry)
    BY DepthAssumption
  <2>2. QED
    BY <2>1, Zenon DEF Init, TimeTypeOK
<1>3. NumInv
  BY RangeEmpty DEF Init, NumInv, Coming, Below
<1>4. RingInv
  BY DepthAssumption, RingEmpty DEF Init, RingInv
<1>5. ViewInv
  BY RangeEmpty DEF Init, ViewInv, Below
<1>6. WriteInv /\ StreamInv
  BY DEF Init, WriteInv, StreamInv
<1>7. QED
  BY <1>2, <1>3, <1>4, <1>5, <1>6 DEF TimeInv

\* Steps that leave the registered browsers and broadcastLoop alone.
LEMMA Frame ==
  ASSUME TimeInv, UNCHANGED <<handled, entry, todo, writing>>,
         clients' \subseteq clients, closed \subseteq closed',
         \A b \in clients \union todo \union writing :
           /\ dev'[b] = dev[b] /\ since'[b] = since[b] /\ shown'[b] = shown[b]
           /\ pc'[b] \in {"reading", "leaving", "gone"}
  PROVE  /\ StreamInv'
         /\ (\A b \in busy' : hist'[b] # <<>>) => WriteInv'
<1>1. StreamInv'
  <2> SUFFICES ASSUME NEW b \in clients' \ closed' PROVE Streamed(b)'
    BY DEF StreamInv
  <2>1. b \in clients /\ Streamed(b)
    BY DEF TimeInv, StreamInv
  <2>2. QED
    BY <2>1 DEF Streamed
<1>2. (\A b \in busy' : hist'[b] # <<>>) => WriteInv'
  BY DEF TimeInv, WriteInv
<1>3. QED
  BY <1>1, <1>2

LEMMA LogStep ==
  ASSUME TimeInv, NEW d \in Device, Log(d)
  PROVE  TimeInv'
<1>1. PICK n \in Nat : n = Len(in)
  BY LenProperties DEF TimeInv, TimeTypeOK
<1>2. sent' \in [Device -> Nat] /\ sent'[d] = sent[d] + 1 /\ sent[d] \in Nat
      /\ \A c \in Device : c # d => sent'[c] = sent[c]
  BY DEF Log, TimeInv, TimeTypeOK
<1>3. \A c \in Device : sent[c] \in Nat /\ sent'[c] \in Nat /\ sent[c] <= sent'[c]
  <2>1. ASSUME NEW c \in Device
        PROVE  sent[c] \in Nat /\ sent'[c] \in Nat /\ sent[c] <= sent'[c]
    <3>1. sent[c] \in Nat
      BY DEF TimeInv, TimeTypeOK
    <3>2. QED
      BY <1>2, <3>1
  <2>2. QED
    BY <2>1
<1>4. PICK e \in Entry : e = [of |-> d, no |-> sent[d] + 1]
  BY <1>2 DEF Entry
<1>5. in \in Seq(Entry) /\ Range(in) \subseteq Entry
  BY Ranges DEF TimeInv, TimeTypeOK
<1>6. ASSUME NEW q \in Range(in), q.of = d PROVE q.no < e.no
  BY <1>2, <1>4, <1>5, <1>6 DEF TimeInv, NumInv, Entry
<1>7. ASSUME NEW c \in Device, NEW r \in Range(handled[c])
      PROVE  r.of = c /\ r.no \in Nat /\ r.no <= sent[c] /\ r.no <= sent'[c]
  <2>1. r \in Entry
    BY Ranges DEF TimeInv, TimeTypeOK
  <2>2. r.of = c /\ r.no \in Nat /\ r.no <= sent[c]
    BY <2>1 DEF TimeInv, NumInv, Entry
  <2>3. QED
    BY <1>3, <2>2
<1>8. \A q \in Range(in) : q.no <= sent'[q.of]
  <2> SUFFICES ASSUME NEW q \in Range(in) PROVE q.no <= sent'[q.of]
    OBVIOUS
  <2>1. q.of \in Device /\ q.no \in Nat /\ q.no <= sent[q.of]
    BY <1>5 DEF TimeInv, NumInv, Entry
  <2>2. QED
    BY <1>3, <2>1
<1>9. NumInv' /\ in' \in Seq(Entry)
  <2>1. CASE in' = in
    BY <1>5, <1>7, <1>8, <2>1 DEF Log, loopVars, TimeInv, NumInv, Coming
  <2>2. CASE in' = Append(in, e)
    <3>1. in' \in Seq(Entry) /\ Range(in') = Range(in) \union {e}
      BY <1>5, <2>2, AppendRange
    <3>2. /\ Len(in') = n + 1 /\ in'[n + 1] = e
          /\ \A i \in 1..n : in'[i] = in[i] /\ in[i] \in Range(in)
      BY <1>1, <1>5, <2>2, AppendProperties, Ranges
    <3>3. ASSUME NEW i \in 1..(n + 1), NEW j \in 1..(n + 1), i < j,
                 in'[i].of = in'[j].of
          PROVE  in'[i].no < in'[j].no
      <4>1. i \in 1..n /\ in'[i] = in[i] /\ in[i] \in Range(in)
        BY <3>2, <3>3
      <4>2. CASE j = n + 1
        BY <1>4, <1>6, <3>2, <3>3, <4>1, <4>2
      <4>3. CASE j \in 1..n
        BY <1>1, <3>2, <3>3, <4>1, <4>3 DEF TimeInv, NumInv
      <4>4. QED
        BY <4>2, <4>3
    <3>4. \A q \in Range(in') : q.no <= sent'[q.of]
      BY <1>2, <1>4, <1>8, <3>1
    <3>5. ASSUME NEW c \in Device
          PROVE  Below(Range(handled[c]), Coming(c)')
      <4> SUFFICES ASSUME NEW r \in Range(handled[c]), NEW q \in Range(in'),
                          q.of = c
                   PROVE  r.no < q.no
        BY DEF Below, Coming
      <4>1. CASE q \in Range(in)
        BY <4>1 DEF TimeInv, NumInv, Below, Coming
      <4>2. CASE q = e
        BY <1>2, <1>4, <1>7, <4>2
      <4>3. QED
        BY <3>1, <4>1, <4>2
    <3>6. handled' = handled
      BY DEF Log, loopVars
    <3>7. ASSUME NEW c \in Device PROVE Rising(handled[c])
      BY DEF TimeInv, NumInv
    <3>8. QED
      BY <1>7, <3>1, <3>2, <3>3, <3>4, <3>5, <3>6, <3>7 DEF NumInv
  <2>3. QED
    BY <1>4, <2>1, <2>2 DEF Log
<1>10. TimeTypeOK'
  BY <1>2, <1>9 DEF Log, loopVars, serveVars, TimeInv, TimeTypeOK
<1>11. RingInv'
  BY DEF Log, loopVars, TimeInv, RingInv
<1>12. ViewInv'
  BY DEF Log, loopVars, serveVars, TimeInv, ViewInv
<1>13. WriteInv' /\ StreamInv'
  BY DEF Log, loopVars, serveVars, TimeInv, WriteInv, StreamInv, Streamed
<1>14. QED
  BY <1>9, <1>10, <1>11, <1>12, <1>13 DEF TimeInv

LEMMA TakeStep ==
  ASSUME TimeInv, Take
  PROVE  TimeInv'
<1>1. in \in Seq(Entry) /\ in # <<>>
  BY DEF TimeInv, TimeTypeOK, Take
<1>2. PICK e \in Entry, s \in Seq(Entry) :
        e = Head(in) /\ s = Tail(in) /\ Range(in) = Range(s) \union {e}
  BY <1>1, TailRising
<1>3. PICK d \in Device : d = e.of
  BY DEF Entry
<1>4. PICK h \in Seq(Entry) : h = handled[d]
  BY DEF TimeInv, TimeTypeOK
<1>5. PICK n \in Nat : n = Len(h)
  BY LenProperties
<1>6. /\ todo = {} /\ writing = {} /\ in' = s /\ todo' = Watchers(d) /\ entry' = e
      /\ slots' = [slots EXCEPT ![d][pos[d]] = e]
      /\ pos' = [pos EXCEPT ![d] = Advance(@)]
      /\ handled' = [handled EXCEPT ![d] = Append(@, e)]
      /\ UNCHANGED <<sent, clients, writing, closed, shown, pc, dev, hist, busy,
                     since>>
  BY <1>2, <1>3 DEF Take, serveVars
<1>7. PICK g \in Seq(Entry) : g = Append(h, e) /\ Range(g) = Range(h) \union {e}
  BY AppendRange
<1>8. Len(g) = n + 1 /\ g[n + 1] = e /\ \A i \in 1..n : g[i] = h[i]
  BY <1>5, <1>7, AppendProperties
<1>9. /\ handled' \in [Device -> Seq(Entry)] /\ handled'[d] = g
      /\ \A c \in Device : c # d => handled'[c] = handled[c]
  BY <1>4, <1>6, <1>7 DEF TimeInv, TimeTypeOK
<1>10. \A c \in Device : Range(handled[c]) \subseteq Range(handled'[c])
  BY <1>4, <1>7, <1>9
<1>11. e \in Coming(d)
  BY <1>2, <1>3 DEF Coming
<1>12. TimeTypeOK'
  <2>1. Advance(pos[d]) \in 0..(Depth - 1)
    BY DepthAssumption DEF Advance, TimeInv, TimeTypeOK
  <2>2. pos' \in [Device -> 0..(Depth - 1)]
    BY <1>6, <2>1 DEF TimeInv, TimeTypeOK
  <2>3. slots' \in [Device -> [0..(Depth - 1) -> Entry \union {Nil}]]
    BY <1>6 DEF TimeInv, TimeTypeOK
  <2>4. todo' \subseteq Browser
    BY <1>6 DEF Watchers, TimeInv, TimeTypeOK
  <2>5. QED
    BY <1>6, <1>9, <2>2, <2>3, <2>4 DEF TimeInv, TimeTypeOK
<1>13. NumInv'
  <2>1. PICK m \in Nat : /\ Len(in) = m + 1 /\ Len(s) = m /\ e = in[1]
                         /\ \A i \in 1..m : s[i] = in[i + 1]
    <3>1. Len(in) \in Nat \ {0}
      BY <1>1, EmptySeq
    <3>2. PICK m \in Nat : Len(in) = m + 1
      <4>1. Len(in) - 1 \in Nat /\ Len(in) = (Len(in) - 1) + 1
        BY <3>1
      <4>2. QED
        BY <4>1
    <3>3. QED
      BY <1>1, <1>2, <3>2, HeadTailProperties
  <2>2. ASSUME NEW i \in 1..m, NEW j \in 1..m, i < j, s[i].of = s[j].of
        PROVE  s[i].no < s[j].no
    <3>1. /\ i + 1 \in 1..Len(in) /\ j + 1 \in 1..Len(in) /\ i + 1 < j + 1
          /\ s[i] = in[i + 1] /\ s[j] = in[j + 1]
      BY <2>1, <2>2
    <3>2. QED
      BY <2>2, <3>1 DEF TimeInv, NumInv
  <2>3. ASSUME NEW q \in Range(s), q.of = d PROVE e.no < q.no
    <3>1. PICK i \in 1..m : s[i] = q
      BY <2>1, Ranges
    <3>2. /\ i + 1 \in 1..Len(in) /\ 1 \in 1..Len(in) /\ 1 < i + 1
          /\ q = in[i + 1] /\ e = in[1]
      BY <2>1, <3>1
    <3>3. QED
      BY <1>3, <2>3, <3>2 DEF TimeInv, NumInv
  <2>4. \A q \in Range(s) : q.no <= sent[q.of]
    BY <1>2 DEF TimeInv, NumInv
  <2>5. ASSUME NEW c \in Device
        PROVE  /\ Rising(handled'[c]) /\ Below(Range(handled'[c]), Coming(c)')
               /\ \A r \in Range(handled'[c]) : r.of = c /\ r.no <= sent[c]
    <3>1. Coming(c)' \subseteq Coming(c)
      BY <1>2, <1>6 DEF Coming
    <3>2. /\ Rising(handled[c]) /\ Below(Range(handled[c]), Coming(c))
          /\ \A r \in Range(handled[c]) : r.of = c /\ r.no <= sent[c]
      BY DEF TimeInv, NumInv
    <3>3. CASE c = d
      <4>1. Rising(g)
        <5>1. Below(Range(h), {e})
          BY <1>4, <1>11, <3>2, <3>3 DEF Below
        <5>2. QED
          BY <1>4, <1>7, <3>2, <3>3, <5>1, AppendRising
      <4>2. Below(Range(g), Coming(d)')
        <5>1. \A q \in Coming(d)' : q \in Coming(d) /\ q \in Range(s) /\ q.of = d
          BY <1>6, <3>1, <3>3 DEF Coming
        <5>2. QED
          BY <1>4, <1>7, <2>3, <3>2, <3>3, <5>1 DEF Below
      <4>3. e.of = d /\ e.no <= sent[d]
        BY <1>2, <1>3 DEF TimeInv, NumInv
      <4>4. QED
        BY <1>4, <1>7, <1>9, <3>2, <3>3, <4>1, <4>2, <4>3
    <3>4. CASE c # d
      BY <1>9, <3>1, <3>2, <3>4 DEF Below
    <3>5. QED
      BY <3>3, <3>4
  <2>6. QED
    BY <1>6, <2>1, <2>2, <2>4, <2>5 DEF NumInv
<1>14. RingInv'
  <2>1. PICK p \in 0..(Depth - 1) : p = pos[d]
    BY DEF TimeInv, TimeTypeOK
  <2>2. PICK r \in [0..(Depth - 1) -> Entry \union {Nil}] : r = slots[d]
    BY DEF TimeInv, TimeTypeOK
  <2>3. RingOf(Depth, r, p, h, Nil)
    BY <1>4, <2>1, <2>2 DEF TimeInv, RingInv
  <2>4. RingOf(Depth, [r EXCEPT ![p] = e], (p + 1) % Depth, g, Nil)
    BY <1>7, <2>3, DepthAssumption, RingWritten
  <2>5. slots'[d] = [r EXCEPT ![p] = e] /\ pos'[d] = (p + 1) % Depth
    BY <1>6, <2>1, <2>2 DEF Advance, TimeInv, TimeTypeOK
  <2>6. \A c \in Device : c # d => slots'[c] = slots[c] /\ pos'[c] = pos[c]
    BY <1>6 DEF TimeInv, TimeTypeOK
  <2>7. ASSUME NEW c \in Device
        PROVE  RingOf(Depth, slots'[c], pos'[c], handled'[c], Nil)
    <3>1. CASE c = d
      BY <1>9, <2>4, <2>5, <3>1
    <3>2. CASE c # d
      BY <1>9, <2>6, <3>2 DEF TimeInv, RingInv
    <3>3. QED
      BY <3>1, <3>2
  <2>8. QED
    BY <2>7 DEF RingInv
<1>15. ViewInv'
  <2>1. \A b \in Browser : pc[b] # "new" => dev[b] \in Device
    BY DEF TimeInv, TimeTypeOK
  <2>2. QED
    BY <1>6, <1>10, <2>1 DEF TimeInv, ViewInv
<1>16. WriteInv'
  <2>1. \A b \in busy : hist[b] # <<>>
    BY DEF TimeInv, WriteInv
  <2>2. ASSUME NEW b \in Watchers(d)
        PROVE  /\ b \in clients /\ dev[b] = d /\ e \in Range(handled'[dev[b]])
               /\ Below(Range(shown[b]), {e})
    <3>1. b \in clients /\ dev[b] = d
      BY DEF Watchers
    <3>2. pc[b] # "new" /\ b \in Browser
      BY <3>1 DEF TimeInv, TimeTypeOK, WriteInv
    <3>3. Range(shown[b]) \subseteq Range(handled[d])
      BY <3>1, <3>2 DEF TimeInv, ViewInv
    <3>4. Below(Range(handled[d]), Coming(d))
      BY DEF TimeInv, NumInv
    <3>5. QED
      BY <1>7, <1>9, <1>11, <3>1, <3>3, <3>4 DEF Below
  <2>3. \A b \in clients : pc[b] \in {"reading", "leaving", "gone"}
    BY DEF TimeInv, WriteInv
  <2>4. QED
    BY <1>6, <2>1, <2>2, <2>3 DEF WriteInv
<1>17. StreamInv'
  <2> SUFFICES ASSUME NEW b \in clients \ closed PROVE Streamed(b)'
    BY <1>6 DEF StreamInv
  <2>1. b \in Browser /\ since[b] \in Nat /\ dev[b] \in Device
    BY DEF TimeInv, TimeTypeOK, WriteInv
  <2>2. ASSUME NEW k \in (since[b] + 1)..Len(handled[dev[b]])
        PROVE  handled[dev[b]][k] \in Range(shown[b])
    BY <1>6 DEF TimeInv, StreamInv, Streamed
  <2>3. CASE dev[b] # d
    BY <1>6, <1>9, <2>1, <2>2, <2>3 DEF Streamed
  <2>4. CASE dev[b] = d
    <3>1. ASSUME NEW i \in (since[b] + 1)..(n + 1)
          PROVE  g[i] \in Range(shown[b]) \/ (b \in Watchers(d) /\ g[i] = e)
      <4>1. CASE i <= n
        <5>1. i \in (since[b] + 1)..n /\ i \in 1..n
          BY <2>1, <4>1
        <5>2. h[i] \in Range(shown[b])
          BY <1>4, <1>5, <2>2, <2>4, <5>1
        <5>3. QED
          BY <1>8, <5>1, <5>2
      <4>2. CASE i = n + 1
        BY <1>8, <2>4, <4>2 DEF Watchers
      <4>3. QED
        BY <2>1, <4>1, <4>2
    <3>2. QED
      BY <1>6, <1>8, <1>9, <2>4, <3>1 DEF Streamed
  <2>5. QED
    BY <2>3, <2>4
<1>18. QED
  BY <1>12, <1>13, <1>14, <1>15, <1>16, <1>17 DEF TimeInv

LEMMA SendBeginStep ==
  ASSUME TimeInv, NEW b \in Browser, SendBegin(b)
  PROVE  TimeInv'
<1>1. /\ todo' \union writing' = todo \union writing
      /\ b \in todo /\ todo' = todo \ {b} /\ writing' = {b}
  BY DEF SendBegin
<1>2. TimeTypeOK'
  BY <1>1 DEF SendBegin, serveVars, TimeInv, TimeTypeOK
<1>3. NumInv' /\ RingInv'
  BY DEF SendBegin, TimeInv, NumInv, Coming, RingInv
<1>4. ViewInv'
  BY DEF SendBegin, serveVars, TimeInv, ViewInv
<1>5. WriteInv' /\ StreamInv'
  BY <1>1 DEF SendBegin, serveVars, TimeInv, WriteInv, StreamInv, Streamed
<1>6. QED
  BY <1>2, <1>3, <1>4, <1>5 DEF TimeInv

LEMMA SendOkStep ==
  ASSUME TimeInv, NEW b \in Browser, SendOk(b)
  PROVE  TimeInv'
<1>1. /\ b \in writing /\ b \notin todo /\ pc[b] \in {"reading", "leaving", "gone"}
      /\ entry \in Range(handled[dev[b]]) /\ Below(Range(shown[b]), {entry})
      /\ \A c \in writing : c = b
  BY DEF SendOk, TimeInv, WriteInv
<1>2. hist[b] = <<>> /\ dev[b] \in Device
  BY <1>1 DEF TimeInv, TimeTypeOK, ViewInv
<1>3. PICK s \in Seq(Entry) : s = shown[b]
  BY DEF TimeInv, TimeTypeOK
<1>4. entry \in Entry
  BY <1>1, <1>2, Ranges DEF TimeInv, TimeTypeOK
<1>5. PICK t \in Seq(Entry) : t = Append(s, entry) /\ Range(t) = Range(s) \union {entry}
  BY <1>4, AppendRange
<1>6. Rising(t)
  BY <1>1, <1>3, <1>4, <1>5, AppendRising DEF TimeInv, ViewInv
<1>7. /\ shown' \in [Browser -> Seq(Entry)] /\ shown'[b] = t
      /\ \A c \in Browser : c # b => shown'[c] = shown[c]
  BY <1>3, <1>5 DEF SendOk, TimeInv, TimeTypeOK
<1>8. TimeTypeOK'
  BY <1>7 DEF SendOk, serveVars, TimeInv, TimeTypeOK
<1>9. NumInv' /\ RingInv'
  BY DEF SendOk, TimeInv, NumInv, Coming, RingInv
<1>10. ViewInv'
  <2>1. Below(Range(t), Range(hist[b]))
    BY <1>2, RangeEmpty DEF Below
  <2>2. Range(t) \union Range(hist[b]) \subseteq Range(handled[dev[b]])
    BY <1>1, <1>3, <1>5 DEF TimeInv, ViewInv
  <2>3. QED
    BY <1>1, <1>6, <1>7, <2>1, <2>2 DEF SendOk, serveVars, TimeInv, ViewInv
<1>11. WriteInv'
  <2>1. \A c \in todo : c \in Browser /\ shown'[c] = shown[c]
    BY <1>1, <1>7 DEF TimeInv, TimeTypeOK
  <2>2. QED
    BY <2>1 DEF SendOk, serveVars, TimeInv, WriteInv
<1>12. StreamInv'
  <2> SUFFICES ASSUME NEW c \in clients \ closed PROVE Streamed(c)'
    BY DEF SendOk, StreamInv
  <2>1. c \in Browser /\ Streamed(c)
    BY DEF TimeInv, TimeTypeOK, StreamInv
  <2>2. /\ UNCHANGED <<since, handled, dev, todo, entry>> /\ writing' = {}
    BY DEF SendOk, serveVars
  <2>3. CASE c = b
    BY <1>3, <1>5, <1>7, <2>1, <2>2, <2>3 DEF Streamed
  <2>4. CASE c # b
    BY <1>1, <1>7, <2>1, <2>2, <2>4 DEF Streamed
  <2>5. QED
    BY <2>3, <2>4
<1>13. QED
  BY <1>8, <1>9, <1>10, <1>11, <1>12 DEF TimeInv

LEMMA SendFailsStep ==
  ASSUME TimeInv, NEW b \in Browser, SendFails(b)
  PROVE  TimeInv'
<1>1. \A c \in writing : c = b
  BY DEF SendFails, TimeInv, WriteInv
<1>2. TimeTypeOK'
  BY DEF SendFails, serveVars, TimeInv, TimeTypeOK
<1>3. NumInv' /\ RingInv'
  BY DEF SendFails, TimeInv, NumInv, Coming, RingInv
<1>4. ViewInv'
  BY DEF SendFails, serveVars, TimeInv, ViewInv
<1>5. WriteInv' /\ StreamInv'
  BY <1>1 DEF SendFails, serveVars, TimeInv, WriteInv, StreamInv, Streamed
<1>6. QED
  BY <1>2, <1>3, <1>4, <1>5 DEF TimeInv

LEMMA ConnectStep ==
  ASSUME TimeInv, NEW b \in Browser, NEW d \in Device, Connect(b, d)
  PROVE  TimeInv'
<1>1. /\ b \notin clients \union todo \union writing /\ b \notin busy
      /\ shown[b] = <<>> /\ hist[b] = <<>>
  BY DEF Connect, TimeInv, WriteInv, ViewInv
<1>2. /\ pc'[b] = "upgraded" /\ dev'[b] = d
      /\ \A c \in Browser : c # b => pc'[c] = pc[c] /\ dev'[c] = dev[c]
  BY DEF Connect, TimeInv, TimeTypeOK
<1>3. TimeTypeOK'
  BY <1>2 DEF Connect, loopVars, TimeInv, TimeTypeOK
<1>4. NumInv' /\ RingInv'
  BY DEF Connect, loopVars, TimeInv, NumInv, Coming, RingInv
<1>5. ViewInv'
  BY <1>1, <1>2, RangeEmpty DEF Connect, loopVars, TimeInv, ViewInv
<1>6. \A c \in clients \union todo \union writing :
        pc'[c] \in {"reading", "leaving", "gone"} /\ dev'[c] = dev[c]
  BY <1>1, <1>2 DEF TimeInv, TimeTypeOK, WriteInv
<1>7. WriteInv' /\ StreamInv'
  <2>1. \A c \in busy' : hist'[c] # <<>>
    BY DEF Connect, TimeInv, WriteInv
  <2>2. QED
    BY <1>6, <2>1, Frame DEF Connect, loopVars
<1>8. QED
  BY <1>3, <1>4, <1>5, <1>7 DEF TimeInv

LEMMA ReadHistoryStep ==
  ASSUME TimeInv, NEW b \in Browser, ReadHistory(b)
  PROVE  TimeInv'
<1>1. /\ b \notin clients \union todo \union writing /\ b \notin busy
      /\ shown[b] = <<>> /\ dev[b] \in Device
  BY DEF ReadHistory, TimeInv, TimeTypeOK, WriteInv, ViewInv
<1>2. PICK s \in Seq(Entry) : /\ s = History(dev[b]) /\ Rising(s)
                              /\ Range(s) \subseteq Range(handled[dev[b]])
  BY <1>1, HistoryRising
<1>3. /\ pc'[b] = "history" /\ hist'[b] = s /\ hist' \in [Browser -> Seq(Entry)]
      /\ \A c \in Browser : c # b => pc'[c] = pc[c] /\ hist'[c] = hist[c]
  BY <1>2 DEF ReadHistory, TimeInv, TimeTypeOK
<1>4. TimeTypeOK'
  BY <1>1, <1>3 DEF ReadHistory, loopVars, TimeInv, TimeTypeOK
<1>5. NumInv' /\ RingInv'
  BY DEF ReadHistory, loopVars, TimeInv, NumInv, Coming, RingInv
<1>6. ViewInv'
  <2>1. Range(shown[b]) = {} /\ Below(Range(shown[b]), Range(s)) /\ Rising(shown[b])
    BY <1>1, RangeEmpty DEF Below
  <2>2. QED
    BY <1>2, <1>3, <2>1 DEF ReadHistory, loopVars, TimeInv, ViewInv
<1>7. \A c \in clients \union todo \union writing :
        pc'[c] \in {"reading", "leaving", "gone"}
  BY <1>1, <1>3 DEF TimeInv, TimeTypeOK, WriteInv
<1>8. \A c \in busy' : hist'[c] # <<>>
  BY <1>1, <1>3 DEF ReadHistory, TimeInv, TimeTypeOK, WriteInv
<1>9. WriteInv' /\ StreamInv'
  BY <1>7, <1>8, Frame DEF ReadHistory, loopVars
<1>10. QED
  BY <1>4, <1>5, <1>6, <1>9 DEF TimeInv

LEMMA WriteBeginStep ==
  ASSUME TimeInv, NEW b \in Browser, WriteBegin(b)
  PROVE  TimeInv'
<1>1. TimeTypeOK'
  BY DEF WriteBegin, loopVars, TimeInv, TimeTypeOK
<1>2. NumInv' /\ RingInv'
  BY DEF WriteBegin, loopVars, TimeInv, NumInv, Coming, RingInv
<1>3. ViewInv'
  BY DEF WriteBegin, loopVars, TimeInv, ViewInv
<1>4. WriteInv' /\ StreamInv'
  BY DEF WriteBegin, loopVars, TimeInv, WriteInv, StreamInv, Streamed
<1>5. QED
  BY <1>1, <1>2, <1>3, <1>4 DEF TimeInv

LEMMA WriteOkStep ==
  ASSUME TimeInv, NEW b \in Browser, WriteOk(b)
  PROVE  TimeInv'
<1>1. /\ hist[b] # <<>> /\ pc[b] = "history"
      /\ b \notin clients \union todo \union writing
  BY DEF WriteOk, TimeInv, WriteInv, ViewInv
<1>2. PICK s \in Seq(Entry), r \in Seq(Entry) : s = shown[b] /\ r = hist[b]
  BY DEF TimeInv, TimeTypeOK
<1>3. Rising(s) /\ Rising(r) /\ Below(Range(s), Range(r))
  BY <1>2 DEF TimeInv, ViewInv
<1>4. PICK e \in Entry, u \in Seq(Entry) :
        /\ e = Head(r) /\ u = Tail(r) /\ Range(r) = Range(u) \union {e}
        /\ Rising(u) /\ Below({e}, Range(u))
  BY <1>1, <1>2, <1>3, TailRising
<1>5. PICK t \in Seq(Entry) : t = Append(s, e) /\ Range(t) = Range(s) \union {e}
  BY AppendRange
<1>6. Below(Range(s), {e}) /\ Below(Range(t), Range(u))
  BY <1>3, <1>4, <1>5 DEF Below
<1>7. Rising(t)
  BY <1>3, <1>5, <1>6, AppendRising
<1>8. /\ shown' \in [Browser -> Seq(Entry)] /\ shown'[b] = t
      /\ hist' \in [Browser -> Seq(Entry)] /\ hist'[b] = u
      /\ \A c \in Browser : c # b => shown'[c] = shown[c] /\ hist'[c] = hist[c]
  BY <1>2, <1>4, <1>5 DEF WriteOk, TimeInv, TimeTypeOK
<1>9. TimeTypeOK'
  BY <1>8 DEF WriteOk, loopVars, TimeInv, TimeTypeOK
<1>10. NumInv' /\ RingInv'
  BY DEF WriteOk, loopVars, TimeInv, NumInv, Coming, RingInv
<1>11. ViewInv'
  <2>1. Range(t) \union Range(u) \subseteq Range(handled[dev[b]])
    BY <1>1, <1>2, <1>4, <1>5 DEF TimeInv, ViewInv
  <2>2. QED
    BY <1>1, <1>4, <1>6, <1>7, <1>8, <2>1 DEF WriteOk, loopVars, TimeInv, ViewInv
<1>12. \A c \in clients \union todo \union writing :
         pc[c] \in {"reading", "leaving", "gone"} /\ shown'[c] = shown[c]
  BY <1>1, <1>8 DEF TimeInv, TimeTypeOK, WriteInv
<1>13. \A c \in busy' : hist'[c] # <<>>
  BY <1>8 DEF WriteOk, TimeInv, TimeTypeOK, WriteInv
<1>14. WriteInv' /\ StreamInv'
  BY <1>12, <1>13, Frame DEF WriteOk, loopVars
<1>15. QED
  BY <1>9, <1>10, <1>11, <1>14 DEF TimeInv

LEMMA WriteFailsStep ==
  ASSUME TimeInv, NEW b \in Browser, WriteFails(b)
  PROVE  TimeInv'
<1>1. pc[b] = "history" /\ b \notin clients \union todo \union writing
  BY DEF WriteFails, TimeInv, WriteInv, ViewInv
<1>2. /\ pc'[b] = "gone" /\ hist'[b] = <<>> /\ hist' \in [Browser -> Seq(Entry)]
      /\ \A c \in Browser : c # b => pc'[c] = pc[c] /\ hist'[c] = hist[c]
  BY DEF WriteFails, TimeInv, TimeTypeOK
<1>3. TimeTypeOK'
  BY <1>1, <1>2 DEF WriteFails, loopVars, TimeInv, TimeTypeOK
<1>4. NumInv' /\ RingInv'
  BY DEF WriteFails, loopVars, TimeInv, NumInv, Coming, RingInv
<1>5. ViewInv'
  <2>1. Below(Range(shown[b]), Range(<<>>)) /\ Rising(<<>>) /\ Range(<<>>) = {}
    BY RangeEmpty DEF Below
  <2>2. QED
    BY <1>1, <1>2, <2>1 DEF WriteFails, loopVars, TimeInv, ViewInv
<1>6. \A c \in clients \union todo \union writing :
        pc'[c] \in {"reading", "leaving", "gone"}
  BY <1>1, <1>2 DEF TimeInv, TimeTypeOK, WriteInv
<1>7. \A c \in busy' : hist'[c] # <<>>
  BY <1>2 DEF WriteFails, TimeInv, TimeTypeOK, WriteInv
<1>8. WriteInv' /\ StreamInv'
  BY <1>6, <1>7, Frame DEF WriteFails, loopVars
<1>9. QED
  BY <1>3, <1>4, <1>5, <1>8 DEF TimeInv

LEMMA RegisterStep ==
  ASSUME TimeInv, NEW b \in Browser, Register(b)
  PROVE  TimeInv'
<1>1. b \notin clients \union todo \union writing /\ dev[b] \in Device
  BY DEF Register, TimeInv, TimeTypeOK, WriteInv
<1>2. PICK n \in Nat : n = Len(handled[dev[b]])
  BY <1>1, LenProperties DEF TimeInv, TimeTypeOK
<1>3. /\ pc'[b] = "reading" /\ since' \in [Browser -> Nat] /\ since'[b] = n
      /\ \A c \in Browser : c # b => pc'[c] = pc[c] /\ since'[c] = since[c]
  BY <1>2 DEF Register, TimeInv, TimeTypeOK
<1>4. TimeTypeOK'
  BY <1>1, <1>3 DEF Register, loopVars, TimeInv, TimeTypeOK
<1>5. NumInv' /\ RingInv'
  BY DEF Register, loopVars, TimeInv, NumInv, Coming, RingInv
<1>6. ViewInv'
  BY <1>1, <1>3 DEF Register, loopVars, TimeInv, TimeTypeOK, ViewInv
<1>7. \A c \in clients \union todo \union writing :
        c \in Browser /\ pc'[c] = pc[c] /\ since'[c] = since[c]
  BY <1>1, <1>3 DEF TimeInv, TimeTypeOK
<1>8. WriteInv'
  BY <1>3, <1>7 DEF Register, loopVars, TimeInv, WriteInv
<1>9. StreamInv'
  <2>1. Streamed(b)'
    <3>1. UNCHANGED <<handled, dev>> /\ (n + 1)..n = {}
      BY DEF Register, loopVars
    <3>2. QED
      BY <1>2, <1>3, <3>1 DEF Streamed
  <2>2. ASSUME NEW c \in clients \ closed PROVE Streamed(c)'
    BY <1>7 DEF Register, loopVars, TimeInv, StreamInv, Streamed
  <2>3. QED
    BY <2>1, <2>2 DEF Register, StreamInv
<1>10. QED
  BY <1>4, <1>5, <1>6, <1>8, <1>9 DEF TimeInv

LEMMA DisconnectStep ==
  ASSUME TimeInv, NEW b \in Browser, Disconnect(b)
  PROVE  TimeInv'
<1>1. TimeTypeOK'
  BY DEF Disconnect, loopVars, serveVars, TimeInv, TimeTypeOK
<1>2. NumInv' /\ RingInv'
  BY DEF Disconnect, loopVars, TimeInv, NumInv, Coming, RingInv
<1>3. ViewInv'
  BY DEF Disconnect, loopVars, serveVars, TimeInv, ViewInv
<1>4. WriteInv' /\ StreamInv'
  BY DEF Disconnect, loopVars, serveVars, TimeInv, WriteInv, StreamInv, Streamed
<1>5. QED
  BY <1>1, <1>2, <1>3, <1>4 DEF TimeInv

LEMMA LeaveStep ==
  ASSUME TimeInv, NEW b \in Browser, ReadError(b) \/ Unregister(b)
  PROVE  TimeInv'
<1>1. /\ pc[b] \in {"reading", "leaving"} /\ pc'[b] \in {"leaving", "gone"}
      /\ \A c \in Browser : c # b => pc'[c] = pc[c]
      /\ clients' \subseteq clients
      /\ UNCHANGED <<sent, in, closed, shown, loopVars, dev, hist, busy, since>>
  BY DEF ReadError, Unregister, TimeInv, TimeTypeOK
<1>2. TimeTypeOK'
  <2>1. pc' \in [Browser -> {"new", "upgraded", "history", "reading", "leaving",
                             "gone"}]
    BY DEF ReadError, Unregister, TimeInv, TimeTypeOK
  <2>2. QED
    BY <1>1, <2>1 DEF loopVars, TimeInv, TimeTypeOK
<1>3. NumInv' /\ RingInv'
  BY <1>1 DEF loopVars, TimeInv, NumInv, Coming, RingInv
<1>4. ViewInv'
  BY <1>1 DEF loopVars, TimeInv, ViewInv
<1>5. \A c \in clients \union todo \union writing :
        pc'[c] \in {"reading", "leaving", "gone"}
  BY <1>1 DEF TimeInv, TimeTypeOK, WriteInv
<1>6. WriteInv' /\ StreamInv'
  <2>1. \A c \in busy' : hist'[c] # <<>>
    BY <1>1 DEF TimeInv, WriteInv
  <2>2. QED
    BY <1>1, <1>5, <2>1, Frame DEF loopVars
<1>7. QED
  BY <1>2, <1>3, <1>4, <1>6 DEF TimeInv

LEMMA TimeNext ==
  TimeInv /\ [Next]_vars => TimeInv'
<1> SUFFICES ASSUME TimeInv, [Next]_vars PROVE TimeInv'
  OBVIOUS
<1>1. CASE \E d \in Device : Log(d)
  BY <1>1, LogStep
<1>2. CASE BroadcastLoop
  BY <1>2, TakeStep, SendBeginStep, SendOkStep, SendFailsStep DEF BroadcastLoop
<1>3. CASE \E b \in Browser : Disconnect(b)
  BY <1>3, DisconnectStep
<1>4. ASSUME NEW b \in Browser, ServeWS(b) PROVE TimeInv'
  BY <1>4, ConnectStep, ReadHistoryStep, WriteBeginStep, WriteOkStep,
     WriteFailsStep, RegisterStep, LeaveStep DEF ServeWS
<1>5. CASE UNCHANGED vars
  <2>1. TimeTypeOK' /\ NumInv'
    BY <1>5 DEF vars, TimeInv, TimeTypeOK, NumInv, Coming
  <2>2. RingInv' /\ ViewInv'
    BY <1>5 DEF vars, TimeInv, RingInv, ViewInv
  <2>3. WriteInv' /\ StreamInv'
    BY <1>5 DEF vars, TimeInv, WriteInv, StreamInv, Streamed
  <2>4. QED
    BY <2>1, <2>2, <2>3 DEF TimeInv
<1>6. QED
  BY <1>1, <1>2, <1>3, <1>4, <1>5 DEF Next

----------------------------------------------------------------------------
(* Theorems.                                                               *)

\* The invariant above holds in every state of broadcastLoop and ServeWS.
THEOREM TimeInvariant == Spec => []TimeInv
<1>1. Init => TimeInv
  BY TimeInit
<1>2. TimeInv /\ [Next]_vars => TimeInv'
  BY TimeNext
<1>3. QED
  BY <1>1, <1>2, PTL DEF Spec

\* broadcastLoop and ServeWS never write to one WebSocket at the same time,
\* however many browsers there are.
THEOREM OneWriterSafe == Spec => []OneWriter
<1>1. TimeInv => OneWriter
  BY DEF TimeInv, TimeTypeOK, ViewInv, WriteInv, OneWriter
<1>2. QED
  BY <1>1, TimeInvariant, PTL

\* Whatever is dropped at the full channel, a browser is shown entries of its
\* own device only, each once and in the order of their logging.
THEOREM ShownSafe == Spec => []ShownInOrder
<1>1. TimeInv => ShownInOrder
  <2> SUFFICES ASSUME TimeInv, NEW b \in Browser, NEW i \in DOMAIN shown[b]
               PROVE  /\ shown[b][i].of = dev[b]
                      /\ \A j \in DOMAIN shown[b] :
                           i < j => shown[b][i].no < shown[b][j].no
    BY DEF ShownInOrder
  <2>1. PICK s \in Seq(Entry) : s = shown[b]
    BY DEF TimeInv, TimeTypeOK
  <2>2. DOMAIN s = 1..Len(s) /\ i \in 1..Len(s) /\ s[i] \in Range(s)
    BY <2>1, LenProperties, Ranges
  <2>3. Rising(s)
    BY <2>1 DEF TimeInv, ViewInv
  <2>4. pc[b] # "new" /\ dev[b] \in Device
    BY <2>1, <2>2, RangeEmpty DEF TimeInv, TimeTypeOK, ViewInv
  <2>5. s[i].of = dev[b]
    BY <2>1, <2>2, <2>4 DEF TimeInv, ViewInv, NumInv
  <2>6. QED
    BY <2>1, <2>2, <2>3, <2>5 DEF Rising
<1>2. QED
  BY <1>1, TimeInvariant, PTL

\* The history is the last Depth entries of the device, for every Depth, and
\* a registered browser misses no entry that broadcastLoop takes later.
THEOREM StreamSafe == Spec => []StreamComplete
<1>1. TimeInv => HistoryRecent
  <2> SUFFICES ASSUME TimeInv, NEW d \in Device
               PROVE  History(d) = SubSeq(handled[d],
                                          IF Len(handled[d]) > Depth
                                            THEN Len(handled[d]) - Depth + 1
                                            ELSE 1,
                                          Len(handled[d]))
    BY DEF HistoryRecent
  <2>1. Len(handled[d]) \in Nat
    BY LenProperties DEF TimeInv, TimeTypeOK
  <2>2. QED
    BY <2>1, HistoryIs DEF TimeInv
<1>2. TimeInv => \A b \in clients \ closed :
        {handled[dev[b]][i] : i \in (since[b] + 1)..Len(handled[dev[b]])}
          \subseteq Range(shown[b]) \union
                    (IF b \in todo \union writing THEN {entry} ELSE {})
  BY DEF TimeInv, StreamInv, Streamed
<1>3. TimeInv => StreamComplete
  BY <1>1, <1>2 DEF StreamComplete
<1>4. QED
  BY <1>3, TimeInvariant, PTL
=============================================================================
