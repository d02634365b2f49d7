------------------------- MODULE SubsequencesProofs -------------------------
(***************************************************************************)
(* What the proofs about sequences have in common: SubSeqAt, the rings of  *)
(* container/ring as the two live logs use them, and induction.            *)
(***************************************************************************)
EXTENDS Subsequences, SequencesExt, FiniteSetTheorems, SequenceTheorems,
        WellFoundedInduction, TLAPS

LEMMA Ranges ==
  ASSUME NEW S, NEW s \in Seq(S)
  PROVE  /\ Range(s) \subseteq S /\ Len(s) \in Nat
         /\ \A i \in 1..Len(s) : s[i] \in Range(s)
         /\ \A r \in Range(s) : \E i \in 1..Len(s) : s[i] = r
  BY LenProperties DEF Range

LEMMA EmptyRange == Range(<<>>) = {}
  BY DEF Range

\* Induction over the numbers, with a set instead of a predicate.
LEMMA InductionSet ==
  ASSUME NEW T, 0 \in T, \A i \in Nat : i \in T => i + 1 \in T
  PROVE  Nat \subseteq T
<1> SUFFICES ASSUME NEW x \in Nat, x \notin T PROVE FALSE
  OBVIOUS
<1>1. PICK R : R = OpToRel(<, Nat)
  BY Zenon
<1>2. IsWellFoundedOn(R, Nat)
  BY <1>1, NatLessThanWellFounded, Zenon
<1>3. \A i, j \in Nat : j < i => <<j, i>> \in R
  BY <1>1 DEF OpToRel
<1>4. PICK U \in SUBSET Nat : U = Nat \ T /\ U # {}
  OBVIOUS
<1>5. PICK m \in U : \A i \in U : ~(<<i, m>> \in R)
  BY <1>2, <1>4, WFMin
<1>6. m \in Nat /\ m \notin T /\ m # 0
  BY <1>4, <1>5
<1>7. PICK i \in Nat : m = i + 1 /\ i < m
  <2>1. m - 1 \in Nat /\ m = (m - 1) + 1 /\ m - 1 < m
    BY <1>6
  <2>2. QED
    BY <2>1
<1>8. i \notin U
  BY <1>3, <1>5, <1>6, <1>7
<1>9. QED
  BY <1>4, <1>6, <1>7, <1>8

----------------------------------------------------------------------------
(* The elements of a sequence at given positions.                          *)

\* The ranks of a finite set of positions are 1, 2, ... in their order.
LEMMA Ranks ==
  ASSUME NEW n \in Nat, NEW I \in SUBSET (1..n)
  PROVE  /\ IsFiniteSet(I) /\ Cardinality(I) \in Nat
         /\ \A i, k \in I : i < k => Rank(I, i) < Rank(I, k)
         /\ \A i \in I : Rank(I, i) \in 1..Cardinality(I)
         /\ \A j \in 1..Cardinality(I) : \E i \in I : Rank(I, i) = j
<1>1. IsFiniteSet(I) /\ Cardinality(I) \in Nat
  <2>1. IsFiniteSet(1..n)
    BY FS_Interval
  <2>2. IsFiniteSet(I)
    BY <2>1, FS_Subset
  <2>3. QED
    BY <2>2, FS_CardinalityType
<1>2. ASSUME NEW i \in I
      PROVE  Rank(I, i) \in 1..Cardinality(I)
  <2>1. {k \in I : k <= i} \in SUBSET I /\ i \in {k \in I : k <= i}
    OBVIOUS
  <2>2. /\ IsFiniteSet({k \in I : k <= i})
        /\ Cardinality({k \in I : k <= i}) <= Cardinality(I)
    BY <1>1, <2>1, FS_Subset
  <2>3. /\ Cardinality({k \in I : k <= i}) \in Nat
        /\ Cardinality({k \in I : k <= i}) # 0
    BY <2>1, <2>2, FS_CardinalityType, FS_EmptySet
  <2>4. QED
    BY <1>1, <2>2, <2>3 DEF Rank
<1>3. ASSUME NEW i \in I, NEW k \in I, i < k
      PROVE  Rank(I, i) < Rank(I, k)
  <2>1. PICK A, B : A = {m \in I : m <= i} /\ B = {m \in I : m <= k}
    OBVIOUS
  <2>2. A \in SUBSET B /\ A # B /\ B \in SUBSET I
    <3>1. \A m \in I : m \in Nat
      OBVIOUS
    <3>2. k \in B /\ k \notin A
      BY <1>3, <2>1, <3>1
    <3>3. \A m \in I : m <= i => m <= k
      BY <1>3, <3>1
    <3>4. QED
      BY <2>1, <3>2, <3>3
  <2>3. IsFiniteSet(B)
    BY <1>1, <2>2, FS_Subset
  <2>4. Cardinality(A) <= Cardinality(B) /\ Cardinality(A) # Cardinality(B)
    BY <2>2, <2>3, FS_Subset
  <2>5. Rank(I, i) = Cardinality(A) /\ Rank(I, k) = Cardinality(B)
    BY <2>1 DEF Rank
  <2>6. QED
    BY <1>2, <2>4, <2>5
<1>4. ASSUME NEW j \in 1..Cardinality(I)
      PROVE  \E i \in I : Rank(I, i) = j
  <2>1. PICK N \in Nat : N = Cardinality(I)
    BY <1>1
  <2>2. PICK f : f = [i \in I |-> Rank(I, i)]
    OBVIOUS
  <2>3. f \in [I -> 1..N] /\ \A i \in I : f[i] = Rank(I, i)
    BY <1>2, <2>1, <2>2
  <2>4. \A a, b \in I : f[a] = f[b] => a = b
    <3> SUFFICES ASSUME NEW a \in I, NEW b \in I, f[a] = f[b], a # b
                 PROVE  FALSE
      OBVIOUS
    <3>1. a < b \/ b < a
      OBVIOUS
    <3>2. Rank(I, a) < Rank(I, b) \/ Rank(I, b) < Rank(I, a)
      BY <1>3, <3>1
    <3>3. Rank(I, a) = Rank(I, b) /\ Rank(I, a) \in Nat
      BY <1>2, <2>3
    <3>4. QED
      BY <3>2, <3>3
  <2>5. f \in Injection(I, 1..N)
    BY <2>3, <2>4 DEF Injection, IsInjective
  <2>6. IsFiniteSet(1..N) /\ Cardinality(1..N) = N
    BY FS_Interval
  <2>7. f \in Surjection(I, 1..N)
    BY <2>1, <2>5, <2>6, FS_Injection
  <2>8. QED
    BY <2>1, <2>3, <2>7 DEF Surjection
<1>5. QED
  BY <1>1, <1>2, <1>3, <1>4

\* t has the elements of s at the positions in I, in their order.
Selected(t, s, I) ==
  /\ \A j \in 1..Len(t) : \E i \in I : t[j] = s[i]
  /\ \A i \in I : \E j \in 1..Len(t) : t[j] = s[i]
  /\ \A j, k \in 1..Len(t) : j < k =>
       \E i, l \in I : i < l /\ t[j] = s[i] /\ t[k] = s[l]

\* SubSeqAt keeps the order and drops nothing else.
LEMMA SubSeqAtProperties ==
  ASSUME NEW S, NEW s \in Seq(S), NEW I \in SUBSET (1..Len(s)),
         NEW t, t = SubSeqAt(s, I)
  PROVE  t \in Seq(S) /\ Selected(t, s, I)
<1>1. PICK n \in Nat : n = Len(s)
  BY LenProperties
<1>2. I \in SUBSET (1..n)
  BY <1>1
<1>3. /\ Cardinality(I) \in Nat
      /\ \A i, k \in I : i < k => Rank(I, i) < Rank(I, k)
      /\ \A i \in I : Rank(I, i) \in 1..Cardinality(I)
      /\ \A j \in 1..Cardinality(I) : \E i \in I : Rank(I, i) = j
  BY <1>2, Ranks
<1>4. PICK N \in Nat : N = Cardinality(I)
  BY <1>3
<1>5. PICK f : f = [j \in 1..N |-> CHOOSE i \in I : Rank(I, i) = j]
  OBVIOUS
<1>6. \A j \in 1..N : f[j] \in I /\ Rank(I, f[j]) = j
  BY <1>3, <1>4, <1>5
<1>7. f \in [1..N -> I]
  BY <1>5, <1>6
<1>8. t = [j \in 1..N |-> s[f[j]]]
  BY <1>4, <1>5 DEF SubSeqAt
<1>9. \A j \in 1..N : s[f[j]] \in S
  BY <1>1, <1>2, <1>6, ElementOfSeq
<1>10. t \in Seq(S) /\ Len(t) = N /\ \A j \in 1..N : t[j] = s[f[j]]
  <2>1. t \in [1..N -> S]
    BY <1>8, <1>9
  <2>2. QED
    BY <1>8, <2>1
<1>11. \A i, k \in I : i # k => Rank(I, i) # Rank(I, k)
  <2> SUFFICES ASSUME NEW i \in I, NEW k \in I, i # k
               PROVE  Rank(I, i) # Rank(I, k)
    OBVIOUS
  <2>1. i < k \/ k < i
    BY <1>2
  <2>2. Rank(I, i) \in Nat /\ Rank(I, k) \in Nat
    BY <1>3
  <2>3. QED
    BY <1>3, <2>1, <2>2
<1>12. \A j, k \in 1..N : j < k => f[j] < f[k]
  <2> SUFFICES ASSUME NEW j \in 1..N, NEW k \in 1..N, j < k, ~(f[j] < f[k])
               PROVE  FALSE
    OBVIOUS
  <2>1. f[j] \in 1..n /\ f[k] \in 1..n /\ f[j] \in I /\ f[k] \in I
    BY <1>2, <1>6
  <2>2. f[j] = f[k] \/ f[k] < f[j]
    BY <2>1
  <2>3. Rank(I, f[j]) = j /\ Rank(I, f[k]) = k
    BY <1>6
  <2>4. QED
    BY <1>3, <2>1, <2>2, <2>3
<1>13. \A i \in I : \E j \in 1..N : f[j] = i
  <2> SUFFICES ASSUME NEW i \in I PROVE \E j \in 1..N : f[j] = i
    OBVIOUS
  <2>1. Rank(I, i) \in 1..N
    BY <1>3, <1>4
  <2>2. f[Rank(I, i)] \in I /\ Rank(I, f[Rank(I, i)]) = Rank(I, i)
    BY <1>6, <2>1
  <2>3. f[Rank(I, i)] = i
    BY <1>11, <2>2
  <2>4. QED
    BY <2>1, <2>3
<1>14. \A i \in I : \E j \in 1..N : t[j] = s[i]
  BY <1>10, <1>13
<1>15. \A j, k \in 1..N : j < k =>
         \E i, l \in I : i < l /\ t[j] = s[i] /\ t[k] = s[l]
  BY <1>6, <1>10, <1>12
<1>16. QED
  BY <1>6, <1>10, <1>14, <1>15 DEF Selected

\* N elements of a sequence from a position on.
From(s, a, N) == [j \in 1..N |-> s[a + j - 1]]

LEMMA SubSeqAtInterval ==
  ASSUME NEW s, NEW a \in Nat, NEW b \in Nat, a <= b + 1,
         NEW N \in Nat, N = b - a + 1
  PROVE  SubSeqAt(s, a..b) = From(s, a, N)
<1>1. PICK I : I = a..b
  OBVIOUS
<1>2. ASSUME NEW i \in I PROVE Rank(I, i) = i - a + 1
  <2>1. i \in Nat /\ {k \in I : k <= i} = a..i /\ a <= i
    BY <1>1
  <2>2. Cardinality(a..i) = i - a + 1
    BY <2>1, FS_Interval
  <2>3. QED
    BY <2>1, <2>2 DEF Rank
<1>3. Cardinality(I) = b - a + 1
  BY <1>1, FS_Interval
<1>4. ASSUME NEW j \in 1..(b - a + 1)
      PROVE  (CHOOSE i \in I : Rank(I, i) = j) = a + j - 1
  <2>1. a + j - 1 \in I
    BY <1>1
  <2>2. Rank(I, a + j - 1) = j
    BY <1>2, <2>1
  <2>3. \A i \in I : Rank(I, i) = j => i = a + j - 1
    BY <1>1, <1>2
  <2>4. QED
    BY <2>1, <2>2, <2>3
<1>5. SubSeqAt(s, I) = [j \in 1..N |-> s[CHOOSE i \in I : Rank(I, i) = j]]
  BY <1>3 DEF SubSeqAt
<1>6. \A j \in 1..N : (CHOOSE i \in I : Rank(I, i) = j) = a + j - 1
  BY <1>4
<1>7. SubSeqAt(s, I) = [j \in 1..N |-> s[a + j - 1]]
  BY <1>5, <1>6, Zenon
<1>8. QED
  BY <1>1, <1>7 DEF From

----------------------------------------------------------------------------
(* Rings of a size.                                                        *)

\* Seen from p on, the ring r is empty slots and then the end of h.
RingOf(size, r, p, h, nil) ==
  \A j \in 1..size :
    r[(p + j - 1) % size] = LET k == Len(h) - size + j
                             IN  IF k >= 1 THEN h[k] ELSE nil

Wrapped(size, x) == IF x < size THEN x ELSE x - size

LEMMA Wraps ==
  ASSUME NEW size \in Nat \ {0}, NEW x \in Nat, x < 2 * size
  PROVE  x % size = Wrapped(size, x)
<1>1. CASE x < size
  BY <1>1 DEF Wrapped
<1>2. CASE x >= size
  BY <1>2 DEF Wrapped
<1>3. QED
  BY <1>1, <1>2

\* What Do finds in a ring, without the empty slots: the last size elements.
Visits(size, r, p) == [i \in 1..size |-> r[(p + i - 1) % size]]
Contents(size, r, p, nil) ==
  SubSeqAt(Visits(size, r, p), {i \in 1..size : Visits(size, r, p)[i] # nil})

\* The last elements of a sequence, size at most.
Latest(size, h) ==
  SubSeq(h, IF Len(h) > size THEN Len(h) - size + 1 ELSE 1, Len(h))

LEMMA RingRead ==
  ASSUME NEW size \in Nat \ {0}, NEW S, NEW h \in Seq(S), NEW nil, nil \notin S,
         NEW r, NEW p, RingOf(size, r, p, h, nil)
  PROVE  Contents(size, r, p, nil) = Latest(size, h)
<1>0. PICK n \in Nat : n = Len(h)
  BY LenProperties
<1>1. PICK D \in Nat : D = size /\ D >= 1
  OBVIOUS
<1>2. PICK v, t : v = Visits(size, r, p) /\ t = Contents(size, r, p, nil)
  OBVIOUS
<1>3. v = [i \in 1..D |-> r[(p + i - 1) % size]]
  BY <1>1, <1>2 DEF Visits
<1>4. \A j \in 1..D : v[j] = IF n - D + j >= 1 THEN h[n - D + j] ELSE nil
  BY <1>0, <1>1, <1>3 DEF RingOf
<1>5. \A k \in 1..n : h[k] \in S /\ h[k] # nil
  BY <1>0, ElementOfSeq
<1>6. PICK a \in Nat, m \in Nat :
        /\ n > D => a = 1 /\ m = n - D + 1
        /\ n <= D => a = D - n + 1 /\ m = 1
  <2>1. CASE n > D
    <3>1. n - D + 1 \in Nat /\ 1 \in Nat /\ ~(n <= D)
      BY <2>1
    <3>2. QED
      BY <2>1, <3>1
  <2>2. CASE n <= D
    <3>1. D - n + 1 \in Nat /\ 1 \in Nat /\ ~(n > D)
      BY <2>2
    <3>2. QED
      BY <2>2, <3>1
  <2>3. QED
    BY <2>1, <2>2
<1>7. {i \in 1..D : v[i] # nil} = a..D
  <2>1. ASSUME NEW i \in 1..D, v[i] # nil PROVE i \in a..D
    BY <1>4, <1>6, <2>1
  <2>2. ASSUME NEW i \in a..D PROVE i \in 1..D /\ v[i] # nil
    <3>1. i \in 1..D /\ n - D + i \in 1..n
      BY <1>6
    <3>2. QED
      BY <1>4, <1>5, <3>1
  <2>3. QED
    BY <2>1, <2>2
<1>8. t = SubSeqAt(v, a..D)
  BY <1>1, <1>2, <1>7 DEF Contents
<1>9. PICK N \in Nat : N = D - a + 1 /\ N = n - m + 1
  <2>1. CASE n > D
    <3>1. D - a + 1 \in Nat /\ D - a + 1 = n - m + 1
      BY <1>1, <1>6, <2>1
    <3>2. QED
      BY <3>1
  <2>2. CASE n <= D
    <3>1. D - a + 1 \in Nat /\ D - a + 1 = n - m + 1
      BY <1>1, <1>6, <2>2
    <3>2. QED
      BY <3>1
  <2>3. QED
    BY <2>1, <2>2
<1>10. t = [j \in 1..N |-> v[a + j - 1]]
  <2>1. a <= D + 1 /\ N = D - a + 1
    BY <1>9
  <2>2. SubSeqAt(v, a..D) = From(v, a, N)
    BY <2>1, SubSeqAtInterval
  <2>3. QED
    BY <1>8, <2>2, Zenon DEF From
<1>11. m = IF n > D THEN n - D + 1 ELSE 1
  BY <1>6
<1>12. \A j \in 1..N : v[a + j - 1] = h[m + j - 1] /\ h[m + j - 1] \in S
  <2> SUFFICES ASSUME NEW j \in 1..N
               PROVE  v[a + j - 1] = h[m + j - 1] /\ h[m + j - 1] \in S
    OBVIOUS
  <2>1. a >= 1 /\ m >= 1
    BY <1>1, <1>6
  <2>2. PICK k \in 1..D, l \in 1..n : k = a + j - 1 /\ l = m + j - 1
    <3>1. a + j - 1 \in 1..D /\ m + j - 1 \in 1..n
      BY <1>9, <2>1
    <3>2. QED
      BY <3>1
  <2>3. n - D + k = l /\ l >= 1
    <3>1. l >= 1 /\ n - D = m - a
      BY <1>9
    <3>2. m - a + (a + j - 1) = m + j - 1
      OBVIOUS
    <3>3. QED
      BY <2>2, <3>1, <3>2
  <2>4. v[k] = h[l] /\ h[l] \in S
    BY <1>4, <1>5, <2>3
  <2>5. QED
    BY <2>2, <2>4
<1>14. PICK u : u = SubSeq(h, m, n)
  OBVIOUS
<1>15. /\ u \in Seq(S) /\ Len(u) = N
       /\ \A j \in 1..N : u[j] = h[m + j - 1]
  <2>1. \A i \in m..n : h[i] \in S
    <3>1. m >= 1
      BY <1>1, <1>6
    <3>2. QED
      BY <1>5, <3>1
  <2>2. m \in Int /\ n \in Int /\ (~(m <= n) => N = 0)
    BY <1>9
  <2>3. /\ u \in Seq(S) /\ Len(u) = IF m <= n THEN n - m + 1 ELSE 0
        /\ \A j \in 1..(n - m + 1) : u[j] = h[m + j - 1]
    BY <1>14, <2>1, <2>2, SubSeqProperties
  <2>4. QED
    BY <1>9, <2>2, <2>3
<1>16. u = [j \in 1..N |-> h[m + j - 1]]
  <2>1. u \in [1..N -> S]
    BY <1>15, LenProperties
  <2>2. QED
    BY <1>15, <2>1
<1>17. [j \in 1..N |-> v[a + j - 1]] = [j \in 1..N |-> h[m + j - 1]]
  BY <1>12
<1>18. QED
  BY <1>0, <1>1, <1>2, <1>10, <1>11, <1>14, <1>16, <1>17 DEF Latest

\* The next element takes the place of the oldest one.
LEMMA RingWritten ==
  ASSUME NEW size \in Nat \ {0}, NEW S, NEW h \in Seq(S), NEW e \in S, NEW nil,
         NEW p \in 0..(size - 1), NEW r \in [0..(size - 1) -> S \union {nil}],
         RingOf(size, r, p, h, nil)
  PROVE  RingOf(size, [r EXCEPT ![p] = e], (p + 1) % size, Append(h, e), nil)
<1>1. PICK D \in Nat : D = size /\ D >= 1
  OBVIOUS
<1>2. PICK n \in Nat : n = Len(h)
  BY LenProperties
<1>3. PICK g : g = Append(h, e)
  OBVIOUS
<1>4. Len(g) = n + 1 /\ g[n + 1] = e /\ \A i \in 1..n : g[i] = h[i]
  BY <1>2, <1>3, AppendProperties
<1>5. PICK s : s = [r EXCEPT ![p] = e]
  OBVIOUS
<1>6. s[p] = e /\ \A q \in 0..(D - 1) : q # p => s[q] = r[q]
  BY <1>1, <1>5
<1>7. PICK o : o = (p + 1) % size
  OBVIOUS
<1>8. o = IF p + 1 < D THEN p + 1 ELSE 0
  <2>1. p + 1 \in Nat /\ p + 1 < 2 * size
    BY <1>1
  <2>2. (p + 1) % size = Wrapped(size, p + 1)
    BY <2>1, Wraps
  <2>3. QED
    BY <1>1, <1>7, <2>2 DEF Wrapped
<1>9. ASSUME NEW j \in 1..D
      PROVE  s[(o + j - 1) % size] = IF n + 1 - D + j >= 1 THEN g[n + 1 - D + j]
                                                            ELSE nil
  <2>1. PICK q : q = (o + j - 1) % size
    OBVIOUS
  <2>2. o + j - 1 \in Nat /\ o + j - 1 < 2 * size
    BY <1>1, <1>8
  <2>3. q = Wrapped(size, o + j - 1)
    BY <2>1, <2>2, Wraps
  <2>4. CASE j = D
    <3>1. q = p
      BY <1>1, <1>8, <2>3, <2>4 DEF Wrapped
    <3>2. n + 1 - D + j = n + 1 /\ n + 1 >= 1
      BY <2>4
    <3>3. QED
      BY <1>4, <1>6, <2>1, <3>1, <3>2
  <2>5. CASE j < D
    <3>1. PICK k \in 1..D : k = j + 1
      BY <2>5
    <3>2. p + k - 1 \in Nat /\ p + k - 1 < 2 * size
      BY <1>1, <3>1
    <3>3. (p + k - 1) % size = Wrapped(size, p + k - 1)
      BY <3>2, Wraps
    <3>4. q = (p + k - 1) % size /\ q \in 0..(D - 1) /\ q # p
      BY <1>1, <1>8, <2>3, <2>5, <3>1, <3>3 DEF Wrapped
    <3>5. r[q] = IF n - D + k >= 1 THEN h[n - D + k] ELSE nil
      BY <1>1, <1>2, <3>4 DEF RingOf
    <3>6. n - D + k = n + 1 - D + j /\ (n - D + k >= 1 => n - D + k \in 1..n)
      BY <2>5, <3>1
    <3>7. QED
      BY <1>4, <1>6, <2>1, <3>4, <3>5, <3>6
  <2>6. QED
    BY <2>4, <2>5
<1>10. RingOf(size, s, o, g, nil)
  <2> SUFFICES ASSUME NEW j \in 1..size
               PROVE  s[(o + j - 1) % size] = IF Len(g) - size + j >= 1
                                                 THEN g[Len(g) - size + j] ELSE nil
    BY DEF RingOf
  <2>1. PICK k : k = Len(g) - size + j
    OBVIOUS
  <2>2. j \in 1..D /\ k = n + 1 - D + j
    BY <1>1, <1>4, <2>1
  <2>3. s[(o + j - 1) % size] = IF k >= 1 THEN g[k] ELSE nil
    BY <1>9, <2>2
  <2>4. QED
    BY <2>1, <2>3
<1>11. QED
  BY <1>3, <1>5, <1>7, <1>10

LEMMA RingEmpty ==
  ASSUME NEW size \in Nat \ {0}, NEW nil
  PROVE  RingOf(size, [i \in 0..(size - 1) |-> nil], 0, <<>>, nil)
<1>1. PICK D \in Nat : D = size /\ D >= 1
  OBVIOUS
<1>2. ASSUME NEW j \in 1..D
      PROVE  (0 + j - 1) % D \in 0..(D - 1) /\ ~(0 - D + j >= 1)
  <2>1. 0 + j - 1 \in Int
    OBVIOUS
  <2>2. QED
    BY <1>1, <2>1
<1>3. Len(<<>>) = 0
  OBVIOUS
<1>4. QED
  BY <1>1, <1>2, <1>3 DEF RingOf
=============================================================================
