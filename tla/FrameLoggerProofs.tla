------------------------- MODULE FrameLoggerProofs -------------------------
(***************************************************************************)
(* Proofs about FrameLogger, for any number of connections, devices, lines *)
(* and days, with and without faults of the file system.                   *)
(*                                                                         *)
(* NoLeak: a connection in opened holds one reference at most, and Close   *)
(* of a connection that holds none can only lower the count (RefsInv).     *)
(* RightFolder and SizeKnown: a session has the files of its own day, with *)
(* the path of its own name (Placed), and nobody else writes to them.  The *)
(* last needs that no two names lead to the same file (NamesApart), which  *)
(* part numbers and SanitizeDID do not guarantee for every set of IDs.     *)
(***************************************************************************)
EXTENDS FrameLogger, FiniteSetTheorems, SequenceTheorems, WellFoundedInduction,
        TLAPS

PathElement == STRING \union Nat
Handle == [day : Nat, seq : Nat \ {0}, path : Seq(PathElement), size : Nat,
           err : BOOLEAN]
Session == [refs : Nat \ {0}, day : Nat, file : [Ext -> Handle \union {NoFile}]]

\* The handles of a session are of its day and name.
Placed(s, n) ==
  \A x \in Ext : s.file[x] # NoFile =>
    s.file[x].day = s.day /\ s.file[x].path = Path(n, s.file[x].seq)

\* The size a handle counts is known.
Sized(h, x) == /\ h.size >= Size(File(h, x))
               /\ ~h.err => h.size = Size(File(h, x))

\* No name of a session is another one with a part number.
NamesApart == \A n, m \in Name, i \in Nat : Append(n, i) # m

LogTypeOK ==
  /\ sessions \in [Name -> Session \union {NoSession}]
  /\ today \in Nat
  /\ ph \in [Conn -> {"new", "named", "authed", "opened", "idle", "data", "txt",
                      "gone"}]
  /\ did \in [Conn -> Device \union {NoDev}]
  /\ received \in [Conn -> Nat]
  /\ IsFiniteSet(DOMAIN disk)
  /\ \A f \in DOMAIN disk : disk[f].size \in Nat

PlaceInv == \A n \in Name : sessions[n] # NoSession => Placed(sessions[n], n)

RefsInv ==
  /\ IsFiniteSet(opened) /\ opened \subseteq Conn
  /\ \A c \in opened : ph[c] \notin {"new", "named", "authed"}
  /\ NoLeak

\* What a line bears as its time is not in the future.
ReceivedInv == \A c \in Conn : received[c] <= today

LogInv == LogTypeOK /\ PlaceInv /\ ReceivedInv /\ RightFolder /\ RefsInv

----------------------------------------------------------------------------
(* Files.                                                                  *)

\* A set of natural numbers has a least one.
LEMMA LeastNatural ==
  ASSUME NEW T \in SUBSET Nat, T # {}
  PROVE  \E m \in T : \A n \in T : m <= n
<1>1. PICK R : R = OpToRel(<, Nat)
  BY Zenon
<1>2. IsWellFoundedOn(R, Nat)
  BY <1>1, NatLessThanWellFounded, Zenon
<1>3. \A x, y \in Nat : y < x => <<y, x>> \in R
  BY <1>1 DEF OpToRel
<1>4. PICK m \in T : \A n \in T : ~ (<<n, m>> \in R)
  BY <1>2, WFMin
<1>5. \A n \in T : m <= n
  <2> TAKE n \in T
  <2>1. m \in Nat /\ n \in Nat /\ ~(n < m)
    BY <1>3, <1>4
  <2>2. QED
    BY <2>1
<1>6. QED
  BY <1>5

LEMMA NameType ==
  ASSUME NEW d \in Device \union {NoDev}
  PROVE  Sanitize[d] \in Name
  BY DEF Name

\* The parts of a file have different paths.
LEMMA Paths ==
  ASSUME NEW n \in Name, NEW i \in Nat, NEW j \in Nat
  PROVE  /\ n \in Seq(PathElement) /\ Path(n, i) \in Seq(PathElement)
         /\ Path(n, i) = Path(n, j) => i = j
<1>2. n \in Seq(PathElement) /\ i \in PathElement /\ j \in PathElement
  BY SanitizeAssumption DEF Name, PathElement
<1>3. Append(n, i) \in Seq(PathElement) /\ Len(Append(n, i)) = Len(n) + 1
      /\ Len(Append(n, j)) = Len(n) + 1 /\ Len(n) \in Nat
  BY <1>2, AppendProperties, LenProperties
<1>4. Append(n, i) # n /\ Append(n, j) # n
  BY <1>3
<1>5. Append(n, i) = Append(n, j) => i = j
  BY <1>2, AppendInjective
<1>6. QED
  BY <1>2, <1>3, <1>4, <1>5 DEF Path

\* openLogPart finds a part that has room: as many parts as there are files,
\* and one more, cannot all be full.
LEMMA PartFound ==
  ASSUME LogTypeOK, NEW day \in Nat, NEW n \in Name, NEW x,
         NEW seq \in Nat \ {0},
         NEW s, s = Min({i \in seq..(seq + Cardinality(DOMAIN disk)) :
                           Size(<<day, Path(n, i), x>>) < MaxBytes})
  PROVE  s \in Nat \ {0} /\ Size(<<day, Path(n, s), x>>) < MaxBytes
<1>1. PICK N \in Nat : N = Cardinality(DOMAIN disk)
  BY FS_CardinalityType DEF LogTypeOK
<1>2. PICK T : T = {i \in seq..(seq + N) : Size(<<day, Path(n, i), x>>) < MaxBytes}
  OBVIOUS
<1>3. T # {}
  <2> SUFFICES ASSUME T = {} PROVE FALSE
    OBVIOUS
  <2>1. \A i \in seq..(seq + N) : <<day, Path(n, i), x>> \in DOMAIN disk
    BY <1>2, LineAssumption DEF Size
  <2>2. PICK f \in [seq..(seq + N) -> DOMAIN disk] :
          \A i \in seq..(seq + N) : f[i] = <<day, Path(n, i), x>>
    <3>1. [i \in seq..(seq + N) |-> <<day, Path(n, i), x>>]
            \in [seq..(seq + N) -> DOMAIN disk]
      BY <2>1
    <3>2. QED
      BY <3>1
  <2>3. /\ IsFiniteSet(seq..(seq + N))
        /\ Cardinality(seq..(seq + N)) = N + 1
    BY FS_Interval
  <2>4. \E i, j \in seq..(seq + N) : i # j /\ f[i] = f[j]
    <3>1. IsFiniteSet(DOMAIN disk)
      BY DEF LogTypeOK
    <3>2. Cardinality(DOMAIN disk) < Cardinality(seq..(seq + N))
      BY <1>1, <2>3
    <3>3. QED
      BY <2>3, <3>1, <3>2, FS_PigeonHole
  <2>5. PICK i \in seq..(seq + N), j \in seq..(seq + N) :
          i # j /\ Path(n, i) = Path(n, j)
    BY <2>2, <2>4
  <2>6. QED
    BY <2>5, Paths
<1>4. T \subseteq Nat \ {0}
  BY <1>2
<1>5. \E m \in T : \A k \in T : m <= k
  BY <1>3, <1>4, LeastNatural
<1>6. s = Min(T)
  BY <1>1, <1>2
<1>7. s \in T
  BY <1>5, <1>6 DEF Min
<1>8. QED
  BY <1>2, <1>4, <1>7

LEMMA PartOpened ==
  ASSUME LogTypeOK, NEW day \in Nat, NEW n \in Name, NEW x,
         NEW seq \in Nat \ {0}, NEW h, h = OpenLogPart(day, n, x, seq)
  PROVE  /\ h \in Handle /\ h.day = day /\ h.path = Path(n, h.seq)
         /\ h.size = Size(File(h, x)) /\ Sized(h, x)
<1>1. PICK s : s = Min({i \in seq..(seq + Cardinality(DOMAIN disk)) :
                          Size(<<day, Path(n, i), x>>) < MaxBytes})
  OBVIOUS
<1>2. s \in Nat \ {0}
  BY <1>1, PartFound
<1>3. h = [day |-> day, seq |-> s, path |-> Path(n, s),
           size |-> Size(<<day, Path(n, s), x>>), err |-> FALSE]
  BY <1>1 DEF OpenLogPart
<1>4. Path(n, s) \in Seq(PathElement)
  BY <1>2, Paths
<1>5. Size(<<day, Path(n, s), x>>) \in Nat
  BY DEF Size, LogTypeOK
<1>6. h \in Handle
  BY <1>2, <1>3, <1>4, <1>5 DEF Handle
<1>7. File(h, x) = <<day, Path(n, s), x>>
  BY <1>3 DEF File
<1>8. QED
  BY <1>3, <1>5, <1>6, <1>7 DEF Sized

\* Both files, opened for a day.
LEMMA FilesOpened ==
  ASSUME LogTypeOK, NEW n \in Name, NEW day \in Nat, NEW fs,
         fs = OpenFiles(n, day)
  PROVE  /\ fs \in [Ext -> Handle]
         /\ \A x \in Ext : /\ fs[x].day = day
                           /\ fs[x].path = Path(n, fs[x].seq)
                           /\ Sized(fs[x], x)
<1>1. 1 \in Nat \ {0}
  OBVIOUS
<1>2. ASSUME NEW x \in Ext, NEW h, h = OpenLogPart(day, n, x, 1)
      PROVE  /\ h \in Handle /\ h.day = day /\ h.path = Path(n, h.seq)
             /\ Sized(h, x)
  BY <1>1, <1>2, PartOpened
<1>3. \A x \in Ext : fs[x] = OpenLogPart(day, n, x, 1)
  BY DEF OpenFiles
<1>4. fs = [x \in Ext |-> OpenLogPart(day, n, x, 1)]
  BY DEF OpenFiles
<1>5. QED
  BY <1>2, <1>3, <1>4

----------------------------------------------------------------------------
(* Sessions.                                                               *)

\* After rolloverDay a session that has a file is of a day the clock showed
\* meanwhile, and its files are the ones it had or have just been opened.
LEMMA Rolled ==
  ASSUME LogTypeOK, NEW n \in Name, NEW s \in Session, Placed(s, n),
         NEW check \in Nat, NEW now \in Nat, check <= now,
         NEW fails, NEW t, t = RolledOver(s, n, fails, check, now)
  PROVE  /\ t \in Session /\ t.refs = s.refs /\ Placed(t, n)
         /\ t.day \in check..now \/ (\A x \in Ext : t.file[x] = NoFile)
         /\ \A x \in Ext : t.file[x] # NoFile =>
              Sized(t.file[x], x) \/ t.file[x] = s.file[x]
<1>1. CASE s.day = check
  <2>1. t = s
    BY <1>1 DEF RolledOver
  <2>2. QED
    BY <1>1, <2>1
<1>2. CASE s.day # check /\ fails
  <2>1. t = [s EXCEPT !.day = 0, !.file = NoFiles]
    BY <1>2 DEF RolledOver
  <2>2. NoFiles \in [Ext -> Handle \union {NoFile}] /\ \A x \in Ext : NoFiles[x] = NoFile
    BY DEF NoFiles
  <2>3. t \in Session /\ t.refs = s.refs /\ t.file = NoFiles
    <3>1. PICK z \in Nat, fs \in [Ext -> Handle \union {NoFile}] :
            z = 0 /\ fs = NoFiles
      BY <2>2
    <3>2. t = [s EXCEPT !.day = z, !.file = fs]
      BY <2>1, <3>1
    <3>3. QED
      BY <3>1, <3>2 DEF Session
  <2>4. QED
    BY <2>2, <2>3 DEF Placed
<1>3. CASE s.day # check /\ ~fails
  <2>0. PICK fs : fs = OpenFiles(n, now)
    OBVIOUS
  <2>1. t = [s EXCEPT !.day = now, !.file = fs]
    BY <1>3, <2>0 DEF RolledOver
  <2>2. /\ fs \in [Ext -> Handle]
        /\ \A x \in Ext : /\ fs[x].day = now /\ fs[x].path = Path(n, fs[x].seq)
                          /\ Sized(fs[x], x)
    BY <2>0, FilesOpened
  <2>3. t \in Session /\ t.refs = s.refs /\ t.file = fs /\ t.day = now
    BY <2>1, <2>2 DEF Session
  <2>4. QED
    BY <2>2, <2>3 DEF Placed
<1>4. QED
  BY <1>1, <1>2, <1>3

\* rotate leaves no file, the current handle, or one just opened.
LEMMA RotatedFile ==
  ASSUME LogTypeOK, NEW n \in Name, NEW x, NEW h \in Handle, NEW len,
         h.path = Path(n, h.seq),
         NEW g \in Rotated(h, n, x, len), g # NoFile
  PROVE  /\ g \in Handle /\ g.day = h.day /\ g.path = Path(n, g.seq)
         /\ Sized(g, x) \/ g = h
<1>1. h.day \in Nat /\ h.seq \in Nat \ {0} /\ h.seq + 1 \in Nat \ {0}
  BY DEF Handle
<1>2. \/ g = h
      \/ g = OpenLogPart(h.day, n, x, h.seq + 1)
      \/ g = OpenLogPart(h.day, n, x, h.seq)
  BY Zenon DEF Rotated
<1>3. CASE g = h
  BY <1>3
<1>4. CASE g = OpenLogPart(h.day, n, x, h.seq + 1)
  BY <1>1, <1>4, PartOpened
<1>5. CASE g = OpenLogPart(h.day, n, x, h.seq)
  BY <1>1, <1>5, PartOpened
<1>6. QED
  BY <1>2, <1>3, <1>4, <1>5

\* A write changes the size of one file.
LEMMA WrittenFile ==
  ASSUME LogTypeOK, RightFolder, NEW f, NEW first, NEW last,
         f[1] \in first..last, NEW got \in Nat,
         disk' = Written(f, got, first, last)
  PROVE  /\ IsFiniteSet(DOMAIN disk')
         /\ \A g \in DOMAIN disk' : disk'[g].size \in Nat
         /\ RightFolder'
         /\ \A g : Size(g)' = IF g = f THEN Size(f) + got ELSE Size(g)
<1>1. CASE got = 0
  <2>1. disk' = disk
    BY <1>1 DEF Written
  <2>2. \A g : Size(g)' = Size(g) /\ Size(g) \in Nat
    BY <2>1 DEF Size, LogTypeOK
  <2>3. QED
    BY <1>1, <2>1, <2>2 DEF LogTypeOK, RightFolder
<1>2. CASE got # 0
  <2> DEFINE old == IF f \in DOMAIN disk THEN disk[f]
                                         ELSE [size |-> 0, logged |-> {}]
             new == [size |-> old.size + got,
                     logged |-> old.logged \union {<<first, last>>}]
  <2>1. disk' = [g \in DOMAIN disk \union {f} |-> IF g = f THEN new ELSE disk[g]]
    BY <1>2 DEF Written
  <2>2. /\ new.size = Size(f) + got /\ Size(f) \in Nat
        /\ \A l \in new.logged : f[1] \in l[1]..l[2]
    BY DEF Size, LogTypeOK, RightFolder
  <2> HIDE DEF new
  <2>3. DOMAIN disk' = DOMAIN disk \union {f}
        /\ \A g \in DOMAIN disk' : disk'[g] = IF g = f THEN new ELSE disk[g]
    BY <2>1
  <2>4. IsFiniteSet(DOMAIN disk')
    BY <2>3, FS_AddElement DEF LogTypeOK
  <2>5. RightFolder'
    BY <2>2, <2>3 DEF RightFolder
  <2>6. \A g : Size(g)' = IF g = f THEN Size(f) + got ELSE Size(g)
    BY <2>2, <2>3 DEF Size
  <2>7. \A g \in DOMAIN disk' : disk'[g].size \in Nat
    BY <2>2, <2>3 DEF LogTypeOK
  <2>8. QED
    BY <2>4, <2>5, <2>6, <2>7
<1>3. QED
  BY <1>1, <1>2

----------------------------------------------------------------------------
(* The effect of LogHex and LogTxt.                                        *)

\* The session t that a call leaves has files of its name and day, which are
\* the ones it had, or have just been opened.
Refreshed(t, n) ==
  /\ t \in Session /\ t.refs = sessions[n].refs /\ Placed(t, n)
  /\ sessions' = [sessions EXCEPT ![n] = t]
  /\ \A y \in Ext : t.file[y] # NoFile =>
       Sized(t.file[y], y) \/ t.file[y] = sessions[n].file[y]

\* The call has appended got bytes of a line to the file h for x.
Appended(t, n, x, h, len, got, first) ==
  /\ t \in Session /\ t.refs = sessions[n].refs /\ Placed(t, n)
  /\ sessions' = [sessions EXCEPT ![n] = t]
  /\ h \in Handle /\ h.day \in today..today' /\ h.path = Path(n, h.seq) /\ ~h.err
  /\ h # NoFile
  /\ Sized(h, x) \/ h = sessions[n].file[x]
  /\ got \in 0..len /\ disk' = Written(File(h, x), got, first, today')
  /\ t.file[x] = [h EXCEPT !.size = h.size + len, !.err = got < len]
  /\ \A y \in Ext \ {x} : t.file[y] # NoFile =>
       Sized(t.file[y], y) \/ t.file[y] = sessions[n].file[y]

LEMMA LogStep ==
  ASSUME LogTypeOK, PlaceInv, NEW d \in Device \union {NoDev}, NEW x \in Ext,
         NEW len \in LineLen, NEW fails, NEW first, Log(d, x, len, fails, first),
         NEW n, n = Sanitize[d]
  PROVE  \/ UNCHANGED <<sessions, disk>>
         \/ /\ sessions[n] # NoSession
            /\ \E t : Refreshed(t, n) /\ disk' = disk
         \/ /\ sessions[n] # NoSession
            /\ \E t, h, got : Appended(t, n, x, h, len, got, first)
<1>1. n \in Name /\ len \in Nat
  BY NameType, LineAssumption
<1>check. PICK check \in today..MaxDay : \E now \in check..MaxDay :
            \E last \in now..MaxDay :
              today' = last /\ LogAt(d, x, len, fails, first, check, now, last)
  BY DEF Log
<1>now. PICK now \in check..MaxDay :
          \E last \in now..MaxDay :
            today' = last /\ LogAt(d, x, len, fails, first, check, now, last)
  BY <1>check
<1>log. PICK last \in now..MaxDay :
          today' = last /\ LogAt(d, x, len, fails, first, check, now, last)
  BY <1>now
<1>days. /\ today \in Nat /\ check \in Nat /\ now \in Nat /\ last \in Nat
         /\ today <= check /\ check <= now /\ now <= last
  BY <1>log DEF LogTypeOK
<1>2. SUFFICES ASSUME sessions[n] # NoSession
               PROVE  \/ \E t : Refreshed(t, n) /\ disk' = disk
                      \/ \E t, h, got : Appended(t, n, x, h, len, got, first)
  BY <1>log, Zenon DEF LogAt
<1>3. sessions[n] \in Session /\ Placed(sessions[n], n)
  BY <1>1, <1>2 DEF LogTypeOK, PlaceInv
<1>4. PICK s : s = RolledOver(sessions[n], n, fails, check, now)
  OBVIOUS
<1>5. /\ s \in Session /\ s.refs = sessions[n].refs /\ Placed(s, n)
      /\ s.day \in check..now \/ (\A y \in Ext : s.file[y] = NoFile)
      /\ \A y \in Ext : s.file[y] # NoFile =>
           Sized(s.file[y], y) \/ s.file[y] = sessions[n].file[y]
  BY <1>days, <1>1, <1>3, <1>4, Rolled
<1>6. CASE s.file[x] = NoFile
  <2>1. sessions' = [sessions EXCEPT ![n] = s] /\ disk' = disk
    BY <1>log, <1>2, <1>4, <1>6, Zenon DEF LogAt
  <2>2. Refreshed(s, n)
    BY <1>5, <2>1 DEF Refreshed
  <2>3. QED
    BY <2>1, <2>2
<1>7. CASE s.file[x] # NoFile
  <2>1. PICK h \in Rotated(s.file[x], n, x, len) :
          IF h = NoFile
            THEN /\ sessions' = [sessions EXCEPT ![n] =
                                   [s EXCEPT !.file[x] = NoFile]]
                 /\ UNCHANGED disk
            ELSE WriteString(s, n, x, h, len, first, last)
    BY <1>log, <1>2, <1>4, <1>7, Zenon DEF LogAt
  <2>2. /\ s.file[x] \in Handle /\ s.file[x].day = s.day
        /\ s.file[x].path = Path(n, s.file[x].seq)
        /\ s.day \in today..today'
    <3>1. s.day \in check..now
      BY <1>5, <1>7
    <3>2. s.day \in today..today'
      BY <1>log, <1>days, <3>1
    <3>3. QED
      BY <1>5, <1>7, <3>2 DEF Session, Placed
  <2>3. CASE h = NoFile
    <3>1. PICK t : t = [s EXCEPT !.file[x] = NoFile]
      OBVIOUS
    <3>2. sessions' = [sessions EXCEPT ![n] = t] /\ disk' = disk
      BY <2>1, <2>3, <3>1, Zenon
    <3>3. /\ t \in Session /\ t.refs = s.refs /\ t.day = s.day
          /\ \A y \in Ext : t.file[y] = IF y = x THEN NoFile ELSE s.file[y]
      <4>1. s \in Session /\ NoFile \in Handle \union {NoFile}
        BY <1>5
      <4>2. QED
        BY <3>1, <4>1 DEF Session
    <3>4. Placed(t, n)
      BY <1>5, <3>3 DEF Placed
    <3>5. Refreshed(t, n)
      BY <1>5, <3>2, <3>3, <3>4 DEF Refreshed
    <3>6. QED
      BY <3>2, <3>5
  <2>4. CASE h # NoFile
    <3>1. /\ h \in Handle /\ h.day = s.day /\ h.path = Path(n, h.seq)
          /\ Sized(h, x) \/ h = s.file[x]
      BY <1>1, <2>1, <2>2, <2>4, RotatedFile
    <3>2. Sized(h, x) \/ h = sessions[n].file[x]
      BY <1>5, <1>7, <3>1
    <3>3. WriteString(s, n, x, h, len, first, last)
      BY <2>1, <2>4, Zenon
    <3>4. h.day \in today..today'
      BY <2>2, <3>1
    <3>5. CASE h.err
      <4>1. PICK t : t = [s EXCEPT !.file[x] = h]
        OBVIOUS
      <4>2. sessions' = [sessions EXCEPT ![n] = t] /\ disk' = disk
        BY <3>3, <3>5, <4>1, Zenon DEF WriteString
      <4>3. /\ t \in Session /\ t.refs = s.refs /\ t.day = s.day
            /\ \A y \in Ext : t.file[y] = IF y = x THEN h ELSE s.file[y]
        <5>1. s \in Session /\ h \in Handle \union {NoFile}
          BY <1>5, <3>1
        <5>2. QED
          BY <4>1, <5>1 DEF Session
      <4>4. Placed(t, n)
        BY <1>5, <3>1, <4>3 DEF Placed
      <4>5. Refreshed(t, n)
        BY <1>5, <3>2, <4>2, <4>3, <4>4 DEF Refreshed
      <4>6. QED
        BY <4>2, <4>5
    <3>6. CASE ~h.err
      <4>1. PICK got \in Flushes(len) :
              /\ sessions' = [sessions EXCEPT ![n] = [s EXCEPT !.file[x] =
                    [h EXCEPT !.size = Counted(h, len, got), !.err = got < len]]]
              /\ disk' = Written(File(h, x), got, first, today')
        BY <1>log, <3>3, <3>6, Zenon DEF WriteString
      <4>2. PICK g : g = [h EXCEPT !.size = h.size + len, !.err = got < len]
        OBVIOUS
      <4>3. PICK t : t = [s EXCEPT !.file[x] = g]
        OBVIOUS
      <4>4. sessions' = [sessions EXCEPT ![n] = t]
        BY <4>1, <4>2, <4>3, Zenon DEF Counted
      <4>5. g \in Handle /\ g.day = h.day /\ g.seq = h.seq /\ g.path = h.path
        <5>1. h.size + len \in Nat /\ (got < len) \in BOOLEAN
          BY <1>1, <3>1 DEF Handle
        <5>2. QED
          BY <3>1, <4>2, <5>1 DEF Handle
      <4>6. /\ t \in Session /\ t.refs = s.refs /\ t.day = s.day
            /\ \A y \in Ext : t.file[y] = IF y = x THEN g ELSE s.file[y]
        <5>1. s \in Session /\ g \in Handle \union {NoFile}
          BY <1>5, <4>5
        <5>2. QED
          BY <4>3, <5>1 DEF Session
      <4>7. Placed(t, n)
        BY <1>5, <3>1, <4>5, <4>6 DEF Placed
      <4>8. got \in 0..len
        BY <4>1 DEF Flushes
      <4>9. /\ t.file[x] = [h EXCEPT !.size = h.size + len, !.err = got < len]
            /\ \A y \in Ext \ {x} : t.file[y] # NoFile =>
                 Sized(t.file[y], y) \/ t.file[y] = sessions[n].file[y]
        BY <1>5, <4>2, <4>6
      <4>10. t.refs = sessions[n].refs
        BY <1>5, <4>6
      <4>11. Appended(t, n, x, h, len, got, first)
        BY <2>4, <3>1, <3>2, <3>4, <3>6, <4>1, <4>4, <4>6, <4>7, <4>8, <4>9, <4>10,
           Zenon
        DEF Appended
      <4>12. QED
        BY <4>11
    <3>7. QED
      BY <3>5, <3>6
  <2>5. QED
    BY <2>3, <2>4
<1>8. QED
  BY <1>6, <1>7

\* A session replaced by one that is well placed.
LEMMA SessionPut ==
  ASSUME LogTypeOK, PlaceInv, NEW n \in Name, NEW t \in Session, Placed(t, n),
         sessions' = [sessions EXCEPT ![n] = t]
  PROVE  /\ sessions' \in [Name -> Session \union {NoSession}] /\ PlaceInv'
         /\ \A m \in Name : sessions'[m] = IF m = n THEN t ELSE sessions[m]
<1>1. /\ sessions' \in [Name -> Session \union {NoSession}]
      /\ \A m \in Name : sessions'[m] = IF m = n THEN t ELSE sessions[m]
  BY DEF LogTypeOK
<1>3. PlaceInv'
  BY <1>1 DEF PlaceInv, Placed
<1>4. QED
  BY <1>1, <1>3

\* A call of LogHex or LogTxt keeps the invariants that are not about the
\* connections, and the reference counts.
LEMMA LogKeeps ==
  ASSUME LogTypeOK, PlaceInv, RightFolder,
         NEW d \in Device \union {NoDev}, NEW x \in Ext,
         NEW len \in LineLen, NEW fails, NEW first \in Nat, first <= today,
         Log(d, x, len, fails, first)
  PROVE  /\ today' \in Nat /\ today <= today'
         /\ sessions' \in [Name -> Session \union {NoSession}]
         /\ IsFiniteSet(DOMAIN disk')
         /\ \A f \in DOMAIN disk' : disk'[f].size \in Nat
         /\ PlaceInv' /\ RightFolder'
         /\ \A m \in Name : sessions'[m] # NoSession =>
              sessions[m] # NoSession /\ sessions'[m].refs = sessions[m].refs
<1>1. PICK n \in Name : n = Sanitize[d]
  BY NameType
<1>0. today \in Nat /\ today' \in Nat /\ today <= today'
  BY DEF LogTypeOK, Log
<1>2. CASE UNCHANGED <<sessions, disk>>
  BY <1>0, <1>2 DEF LogTypeOK, PlaceInv, Placed, RightFolder
<1>3. CASE sessions[n] # NoSession /\ \E t : Refreshed(t, n) /\ disk' = disk
  <2>1. PICK t : Refreshed(t, n) /\ disk' = disk
    BY <1>3
  <2>2. /\ t \in Session /\ t.refs = sessions[n].refs /\ Placed(t, n)
        /\ sessions' = [sessions EXCEPT ![n] = t]
    BY <2>1 DEF Refreshed
  <2>3. /\ sessions' \in [Name -> Session \union {NoSession}] /\ PlaceInv'
        /\ \A m \in Name : sessions'[m] = IF m = n THEN t ELSE sessions[m]
    BY <2>2, SessionPut
  <2>4. QED
    BY <1>0, <1>3, <2>1, <2>2, <2>3 DEF LogTypeOK, RightFolder
<1>4. CASE /\ sessions[n] # NoSession
           /\ \E t, h, got : Appended(t, n, x, h, len, got, first)
  <2>1. PICK t, h, got : Appended(t, n, x, h, len, got, first)
    BY <1>4
  <2>2. /\ t \in Session /\ t.refs = sessions[n].refs /\ Placed(t, n)
        /\ sessions' = [sessions EXCEPT ![n] = t]
    BY <2>1 DEF Appended
  <2>3. /\ sessions' \in [Name -> Session \union {NoSession}] /\ PlaceInv'
        /\ \A m \in Name : sessions'[m] = IF m = n THEN t ELSE sessions[m]
    BY <2>2, SessionPut
  <2>4. PICK f : f = File(h, x)
    OBVIOUS
  <2>5. /\ f[1] \in first..today' /\ got \in Nat
        /\ disk' = Written(f, got, first, today')
    <3>1. f[1] \in today..today' /\ disk' = Written(f, got, first, today')
      BY <2>1, <2>4 DEF Appended, File
    <3>2. f[1] \in first..today'
      BY <1>0, <3>1
    <3>3. got \in Nat
      BY <2>1, LineAssumption DEF Appended
    <3>4. QED
      BY <3>1, <3>2, <3>3
  <2>6. /\ IsFiniteSet(DOMAIN disk') /\ RightFolder'
        /\ \A g \in DOMAIN disk' : disk'[g].size \in Nat
    BY <2>5, WrittenFile
  <2>7. QED
    BY <1>0, <1>4, <2>2, <2>3, <2>6
<1>5. QED
  BY <1>1, <1>2, <1>3, <1>4, LogStep

\* After Open the sessions are well placed; the session of the name has one
\* reference more, or is new and has one.
LEMMA OpenStep ==
  ASSUME LogTypeOK, PlaceInv, NEW d \in Device \union {NoDev}, NEW fails,
         Open(d, fails), NEW n, n = Sanitize[d]
  PROVE  /\ sessions' \in [Name -> Session \union {NoSession}] /\ PlaceInv'
         /\ \A m \in Name \ {n} : sessions'[m] = sessions[m]
         /\ \/ sessions' = sessions /\ ~OpenSucceeds(d, fails)
            \/ /\ OpenSucceeds(d, fails) /\ sessions[n] # NoSession
               /\ sessions'[n].refs = sessions[n].refs + 1
               /\ sessions'[n].file = sessions[n].file
            \/ /\ OpenSucceeds(d, fails) /\ sessions'[n].refs = 1
               /\ sessions'[n].file = OpenFiles(n, today)
<1>1. n \in Name
  BY NameType
<1>2. CASE sessions[n] # NoSession
  <2>1. PICK t : t = [sessions[n] EXCEPT !.refs = sessions[n].refs + 1]
    OBVIOUS
  <2>2. sessions[n] \in Session /\ Placed(sessions[n], n)
    BY <1>1, <1>2 DEF LogTypeOK, PlaceInv
  <2>3. /\ t \in Session /\ t.refs = sessions[n].refs + 1
        /\ t.day = sessions[n].day /\ t.file = sessions[n].file
    BY <2>1, <2>2 DEF Session
  <2>4. Placed(t, n)
    BY <2>2, <2>3 DEF Placed
  <2>5. sessions' = [sessions EXCEPT ![n] = t]
    BY <1>2, <2>1, Zenon DEF Open
  <2>6. OpenSucceeds(d, fails)
    BY <1>2, Zenon DEF OpenSucceeds
  <2>7. QED
    BY <1>1, <1>2, <2>3, <2>4, <2>5, <2>6, SessionPut
<1>3. CASE sessions[n] = NoSession /\ fails
  <2>1. sessions' = sessions /\ ~OpenSucceeds(d, fails)
    BY <1>3, Zenon DEF Open, OpenSucceeds
  <2>2. QED
    BY <2>1 DEF LogTypeOK, PlaceInv, Placed
<1>4. CASE sessions[n] = NoSession /\ ~fails
  <2>0. PICK fs : fs = OpenFiles(n, today)
    OBVIOUS
  <2>1. PICK t : t = [refs |-> 1, day |-> today, file |-> fs]
    OBVIOUS
  <2>2. sessions' = [sessions EXCEPT ![n] = t] /\ OpenSucceeds(d, fails)
    BY <1>4, <2>0, <2>1, Zenon DEF Open, OpenSucceeds
  <2>3. /\ today \in Nat /\ fs \in [Ext -> Handle]
        /\ \A x \in Ext : fs[x].day = today /\ fs[x].path = Path(n, fs[x].seq)
    BY <1>1, <2>0, FilesOpened DEF LogTypeOK
  <2>4. t \in Session /\ t.refs = 1 /\ t.day = today /\ t.file = fs
    BY <2>1, <2>3 DEF Session
  <2>5. Placed(t, n)
    BY <2>3, <2>4 DEF Placed
  <2>6. QED
    BY <1>1, <2>0, <2>2, <2>4, <2>5, SessionPut
<1>5. QED
  BY <1>2, <1>3, <1>4

\* After Close the session of the name has one reference less or is gone.
LEMMA CloseStep ==
  ASSUME LogTypeOK, PlaceInv, NEW d \in Device \union {NoDev}, Close(d),
         NEW n, n = Sanitize[d]
  PROVE  /\ sessions' \in [Name -> Session \union {NoSession}] /\ PlaceInv'
         /\ \A m \in Name \ {n} : sessions'[m] = sessions[m]
         /\ sessions'[n] # NoSession =>
              /\ sessions[n] # NoSession
              /\ sessions'[n].refs = sessions[n].refs - 1
              /\ sessions'[n].file = sessions[n].file
<1>1. n \in Name
  BY NameType
<1>2. CASE sessions[n] = NoSession
  <2>1. sessions' = sessions
    BY <1>2, Zenon DEF Close
  <2>2. QED
    BY <1>2, <2>1 DEF LogTypeOK, PlaceInv, Placed
<1>3. CASE sessions[n] # NoSession /\ sessions[n].refs > 1
  <2>1. PICK t : t = [sessions[n] EXCEPT !.refs = sessions[n].refs - 1]
    OBVIOUS
  <2>2. sessions[n] \in Session /\ Placed(sessions[n], n)
    BY <1>1, <1>3 DEF LogTypeOK, PlaceInv
  <2>3. /\ t \in Session /\ t.refs = sessions[n].refs - 1
        /\ t.day = sessions[n].day /\ t.file = sessions[n].file
    BY <1>3, <2>1, <2>2 DEF Session
  <2>4. Placed(t, n)
    BY <2>2, <2>3 DEF Placed
  <2>5. sessions' = [sessions EXCEPT ![n] = t]
    BY <1>3, <2>1, Zenon DEF Close
  <2>6. QED
    BY <1>1, <1>3, <2>3, <2>4, <2>5, SessionPut
<1>4. CASE sessions[n] # NoSession /\ ~(sessions[n].refs > 1)
  <2>1. sessions' = [sessions EXCEPT ![n] = NoSession]
    BY <1>4, Zenon DEF Close
  <2>2. /\ sessions' \in [Name -> Session \union {NoSession}]
        /\ \A m \in Name : sessions'[m] = IF m = n THEN NoSession ELSE sessions[m]
    BY <2>1 DEF LogTypeOK
  <2>3. PlaceInv'
    BY <2>2 DEF PlaceInv, Placed
  <2>4. QED
    BY <1>1, <2>2, <2>3
<1>5. QED
  BY <1>2, <1>3, <1>4

----------------------------------------------------------------------------
(* The invariant.                                                          *)

\* Connections that use the same sessions leave NoLeak as it is.
LEMMA RefsKept ==
  ASSUME RefsInv, opened' = opened, did' = did,
         \A c \in opened : ph[c] # "gone" => ph'[c] # "gone",
         \A c \in opened : ph'[c] \notin {"new", "named", "authed"},
         \A c \in opened : ph[c] = "gone" => ph'[c] = "gone",
         \A m \in Name : sessions'[m] # NoSession =>
            sessions[m] # NoSession /\ sessions'[m].refs = sessions[m].refs
  PROVE  RefsInv'
<1>1. \A m \in Name : Users(m)' = Users(m)
  BY DEF Users
<1>2. NoLeak'
  BY <1>1 DEF RefsInv, NoLeak
<1>3. QED
  BY <1>2 DEF RefsInv

LEMMA LogInit ==
  Init => LogInv
<1> SUFFICES ASSUME Init PROVE LogInv
  OBVIOUS
<1>1. \A n \in Name : sessions[n] = NoSession
  BY DEF Init
<1>2. DOMAIN disk = {}
  BY DEF Init
<1>3. LogTypeOK
  BY <1>1, <1>2, FS_EmptySet DEF LogTypeOK, Init
<1>4. RefsInv
  BY <1>1, FS_EmptySet DEF RefsInv, NoLeak, Init
<1>5. ReceivedInv
  BY DEF Init, ReceivedInv
<1>6. QED
  BY <1>1, <1>2, <1>3, <1>4, <1>5 DEF LogInv, PlaceInv, RightFolder

\* Either call that logs a line, of the connection c.
LEMMA LineStep ==
  ASSUME LogInv, NEW c \in Conn, NEW x \in Ext, NEW len \in LineLen, NEW fails,
         NEW first \in {today, received[c]}, Log(did[c], x, len, fails, first),
         ph[c] \in {"opened", "idle", "txt"},
         NEW next \in {"idle", "data"}, ph' = [ph EXCEPT ![c] = next],
         received' = received \/ received' = [received EXCEPT ![c] = 0],
         UNCHANGED <<did, opened>>
  PROVE  LogInv'
<1>1. did[c] \in Device \union {NoDev} /\ first \in Nat /\ first <= today
  BY DEF LogInv, LogTypeOK, ReceivedInv
<1>2. /\ today' \in Nat /\ today <= today'
      /\ sessions' \in [Name -> Session \union {NoSession}]
      /\ IsFiniteSet(DOMAIN disk')
      /\ \A f \in DOMAIN disk' : disk'[f].size \in Nat
      /\ PlaceInv' /\ RightFolder'
      /\ \A m \in Name : sessions'[m] # NoSession =>
           sessions[m] # NoSession /\ sessions'[m].refs = sessions[m].refs
  BY <1>1, LogKeeps DEF LogInv
<1>3. LogTypeOK' /\ ReceivedInv'
  <2>1. /\ received' \in [Conn -> Nat]
        /\ \A k \in Conn : received'[k] <= received[k]
    BY DEF LogInv, LogTypeOK
  <2>2. ASSUME NEW k \in Conn
        PROVE  received'[k] <= today'
    <3>1. today \in Nat /\ received[k] \in Nat /\ received[k] <= today
      BY DEF LogInv, LogTypeOK, ReceivedInv
    <3>2. received'[k] \in Nat /\ received'[k] <= received[k]
      BY <2>1
    <3>3. QED
      BY <1>2, <3>1, <3>2
  <2>3. QED
    BY <1>2, <2>1, <2>2 DEF LogInv, LogTypeOK, ReceivedInv
<1>4. /\ \A k \in Conn : ph'[k] = IF k = c THEN next ELSE ph[k]
      /\ opened \subseteq Conn
      /\ \A k \in opened : ph[k] \notin {"new", "named", "authed"}
  BY DEF LogInv, LogTypeOK, RefsInv
<1>5. /\ \A k \in opened : ph[k] # "gone" => ph'[k] # "gone"
      /\ \A k \in opened : ph'[k] \notin {"new", "named", "authed"}
      /\ \A k \in opened : ph[k] = "gone" => ph'[k] = "gone"
  BY <1>4
<1>6. RefsInv'
  BY <1>2, <1>5, RefsKept DEF LogInv
<1>7. QED
  BY <1>2, <1>3, <1>6 DEF LogInv

LEMMA LogInvStep ==
  LogInv /\ [Next]_vars => LogInv'
<1> SUFFICES ASSUME LogInv, [Next]_vars PROVE LogInv'
  OBVIOUS
<1> USE DEF LogInv
<1>0. /\ IsFiniteSet(opened) /\ opened \subseteq Conn
      /\ \A k \in opened : ph[k] \notin {"new", "named", "authed"}
  BY DEF RefsInv
<1>1. ASSUME NEW c \in Conn, NEW d \in Device, ParamRequest(c, d)
      PROVE  LogInv'
  <2>1. /\ \A k \in Conn : ph'[k] = IF k = c THEN "named" ELSE ph[k]
        /\ \A k \in Conn : did'[k] = IF k = c THEN d ELSE did[k]
        /\ c \notin opened
    BY <1>0, <1>1 DEF ParamRequest, LogTypeOK
  <2>2. \A m \in Name : Users(m)' = Users(m)
    BY <1>0, <1>1, <2>1 DEF Users, ParamRequest
  <2>3. NoLeak'
    BY <1>1, <2>2 DEF NoLeak, RefsInv, ParamRequest
  <2>4. RefsInv'
    BY <1>0, <1>1, <2>1, <2>3 DEF RefsInv, ParamRequest
  <2>5. LogTypeOK'
    BY <1>1 DEF ParamRequest, LogTypeOK
  <2>6. PlaceInv' /\ RightFolder' /\ ReceivedInv'
    BY <1>1 DEF ParamRequest, PlaceInv, Placed, RightFolder, ReceivedInv
  <2>7. QED
    BY <2>4, <2>5, <2>6
<1>2. ASSUME NEW c \in Conn, Authorize(c)
      PROVE  LogInv'
  <2>1. /\ \A k \in Conn : ph'[k] = IF k = c THEN "authed" ELSE ph[k]
        /\ c \notin opened
    BY <1>0, <1>2 DEF Authorize, LogTypeOK
  <2>2. RefsInv'
    BY <1>0, <1>2, <2>1, RefsKept DEF Authorize
  <2>3. LogTypeOK'
    BY <1>2 DEF Authorize, LogTypeOK
  <2>4. PlaceInv' /\ RightFolder' /\ ReceivedInv'
    BY <1>2 DEF Authorize, PlaceInv, Placed, RightFolder, ReceivedInv
  <2>5. QED
    BY <2>2, <2>3, <2>4
<1>3. ASSUME NEW c \in Conn, FirstFrame(c)
      PROVE  LogInv'
  <2>1. PICK fails \in IoFaults :
          /\ Open(did[c], fails)
          /\ opened' = IF OpenSucceeds(did[c], fails) THEN opened \union {c}
                                                      ELSE opened
    BY <1>3 DEF FirstFrame
  <2>2. did[c] \in Device \union {NoDev}
    BY DEF LogTypeOK
  <2>3. PICK n \in Name : n = Sanitize[did[c]]
    BY <2>2, NameType
  <2>4. /\ sessions' \in [Name -> Session \union {NoSession}] /\ PlaceInv'
        /\ \A m \in Name \ {n} : sessions'[m] = sessions[m]
        /\ \/ sessions' = sessions /\ ~OpenSucceeds(did[c], fails)
           \/ /\ OpenSucceeds(did[c], fails) /\ sessions[n] # NoSession
              /\ sessions'[n].refs = sessions[n].refs + 1
           \/ /\ OpenSucceeds(did[c], fails) /\ sessions'[n].refs = 1
    BY <2>1, <2>2, <2>3, OpenStep
  <2>5. /\ \A k \in Conn : ph'[k] = IF k = c THEN "opened" ELSE ph[k]
        /\ c \notin opened /\ did' = did
    BY <1>0, <1>3 DEF FirstFrame, LogTypeOK
  <2>6. CASE ~OpenSucceeds(did[c], fails)
    <3>1. sessions' = sessions /\ opened' = opened
      BY <2>1, <2>4, <2>6
    <3>2. RefsInv'
      BY <1>0, <2>5, <3>1, RefsKept
    <3>3. LogTypeOK' /\ RightFolder' /\ ReceivedInv'
      BY <1>3, <2>4 DEF FirstFrame, LogTypeOK, RightFolder, ReceivedInv
    <3>4. QED
      BY <2>4, <3>2, <3>3
  <2>7. CASE OpenSucceeds(did[c], fails)
    <3>1. opened' = opened \union {c}
      BY <2>1, <2>7
    <3>2. \A m \in Name \ {n} : Users(m)' = Users(m)
      BY <1>0, <2>3, <2>5, <3>1 DEF Users
    <3>3. Users(n)' = Users(n) \union {c} /\ c \notin Users(n)
      BY <1>0, <2>3, <2>5, <3>1 DEF Users
    <3>4. IsFiniteSet(Users(n))
      BY <1>0, FS_Subset DEF Users
    <3>5. /\ Cardinality(Users(n)') = Cardinality(Users(n)) + 1
          /\ Cardinality(Users(n)) \in Nat
      BY <3>3, <3>4, FS_AddElement, FS_CardinalityType
    <3>6. sessions'[n].refs <= Cardinality(Users(n)')
      <4>1. CASE sessions'[n].refs = 1
        BY <3>5, <4>1
      <4>2. CASE /\ sessions[n] # NoSession
                 /\ sessions'[n].refs = sessions[n].refs + 1
        <5>1. /\ sessions[n].refs <= Cardinality(Users(n))
              /\ sessions[n].refs \in Nat
          BY <4>2 DEF RefsInv, NoLeak, LogTypeOK, Session
        <5>2. QED
          BY <3>5, <4>2, <5>1
      <4>3. QED
        BY <2>4, <2>7, <4>1, <4>2
    <3>7. NoLeak'
      BY <2>4, <3>2, <3>6 DEF RefsInv, NoLeak
    <3>8. IsFiniteSet(opened') /\ opened' \subseteq Conn
      BY <1>0, <3>1, FS_AddElement
    <3>9. RefsInv'
      BY <1>0, <2>5, <3>1, <3>7, <3>8 DEF RefsInv
    <3>10. LogTypeOK' /\ RightFolder' /\ ReceivedInv'
      BY <1>3, <2>4 DEF FirstFrame, LogTypeOK, RightFolder, ReceivedInv
    <3>11. QED
      BY <2>4, <3>9, <3>10
  <2>8. QED
    BY <2>6, <2>7
<1>4. ASSUME NEW c \in Conn, LogHex(c)
      PROVE  LogInv'
  <2>1. PICK len \in LineLen, fails \in IoFaults :
          Log(did[c], ".hex", len, fails, today)
    BY <1>4 DEF LogHex
  <2>2. PICK next \in {"idle", "data"} : ph' = [ph EXCEPT ![c] = next]
    BY <1>4 DEF LogHex
  <2>3. /\ ph[c] \in {"opened", "idle", "txt"} /\ UNCHANGED <<did, opened, received>>
        /\ ".hex" \in Ext
    BY <1>4, ExtAssumption DEF LogHex
  <2>4. QED
    BY <2>1, <2>2, <2>3, LineStep
<1>5. ASSUME NEW c \in Conn, LogTxt(c)
      PROVE  LogInv'
  <2>1. PICK len \in LineLen, fails \in IoFaults :
          Log(did[c], ".txt", len, fails, received[c])
    BY <1>5 DEF LogTxt
  <2>2. PICK next \in {"idle", "data"} : ph' = [ph EXCEPT ![c] = next]
    BY <1>5 DEF LogTxt
  <2>3. /\ ph[c] \in {"opened", "idle", "txt"} /\ UNCHANGED <<did, opened>>
        /\ received' = [received EXCEPT ![c] = 0] /\ ".txt" \in Ext
    BY <1>5, ExtAssumption DEF LogTxt
  <2>4. QED
    BY <2>1, <2>2, <2>3, LineStep
<1>6. ASSUME NEW c \in Conn, End(c)
      PROVE  LogInv'
  <2>1. Close(did[c]) /\ did' = did /\ opened' = opened
    BY <1>6 DEF End
  <2>2. did[c] \in Device \union {NoDev}
    BY DEF LogTypeOK
  <2>3. PICK n \in Name : n = Sanitize[did[c]]
    BY <2>2, NameType
  <2>4. /\ sessions' \in [Name -> Session \union {NoSession}] /\ PlaceInv'
        /\ \A m \in Name \ {n} : sessions'[m] = sessions[m]
        /\ sessions'[n] # NoSession =>
             /\ sessions[n] # NoSession
             /\ sessions'[n].refs = sessions[n].refs - 1
    BY <2>1, <2>2, <2>3, CloseStep
  <2>5. \A k \in Conn : ph'[k] = IF k = c THEN "gone" ELSE ph[k]
    BY <1>6 DEF End, LogTypeOK
  <2>6. \A m \in Name \ {n} : Users(m)' = Users(m)
    BY <1>0, <2>1, <2>3, <2>5 DEF Users
  <2>7. Users(n)' = Users(n) \ {c}
    BY <1>0, <2>1, <2>3, <2>5 DEF Users
  <2>8. IsFiniteSet(Users(n))
    BY <1>0, FS_Subset DEF Users
  <2>9. /\ Cardinality(Users(n)) \in Nat /\ Cardinality(Users(n)') \in Nat
        /\ Cardinality(Users(n)') >= Cardinality(Users(n)) - 1
    <3>1. Cardinality(Users(n)) \in Nat
      BY <2>8, FS_CardinalityType
    <3>2. Cardinality(Users(n) \ {c}) = IF c \in Users(n)
            THEN Cardinality(Users(n)) - 1 ELSE Cardinality(Users(n))
      BY <2>8, FS_RemoveElement
    <3>3. IsFiniteSet(Users(n) \ {c})
      BY <2>8, FS_RemoveElement
    <3>4. Cardinality(Users(n) \ {c}) \in Nat
      BY <3>3, FS_CardinalityType
    <3>5. QED
      BY <2>7, <3>1, <3>2, <3>4
  <2>10. ASSUME sessions'[n] # NoSession
         PROVE  sessions'[n].refs <= Cardinality(Users(n)')
    <3>1. /\ sessions[n].refs <= Cardinality(Users(n))
          /\ sessions[n].refs \in Nat
      BY <2>4, <2>10 DEF RefsInv, NoLeak, LogTypeOK, Session
    <3>2. QED
      BY <2>4, <2>9, <2>10, <3>1
  <2>11. NoLeak'
    BY <2>4, <2>6, <2>10 DEF RefsInv, NoLeak
  <2>12. RefsInv'
    BY <1>0, <2>1, <2>5, <2>11 DEF RefsInv
  <2>13. LogTypeOK' /\ RightFolder' /\ ReceivedInv'
    BY <1>6, <2>4 DEF End, LogTypeOK, RightFolder, ReceivedInv
  <2>14. QED
    BY <2>4, <2>12, <2>13
<1>7. CASE Midnight
  <2>1. RefsInv'
    BY <1>0, <1>7, RefsKept DEF Midnight
  <2>2. LogTypeOK' /\ PlaceInv' /\ RightFolder' /\ ReceivedInv'
    BY <1>7 DEF Midnight, LogTypeOK, PlaceInv, Placed, RightFolder, ReceivedInv
  <2>3. QED
    BY <2>1, <2>2
<1>8. CASE UNCHANGED vars
  <2>1. RefsInv'
    BY <1>0, <1>8, RefsKept DEF vars
  <2>2. LogTypeOK' /\ PlaceInv' /\ RightFolder' /\ ReceivedInv'
    BY <1>8 DEF vars, LogTypeOK, PlaceInv, Placed, RightFolder, ReceivedInv
  <2>3. QED
    BY <2>1, <2>2
<1>9. ASSUME NEW c \in Conn, Decoded(c)
      PROVE  LogInv'
  <2>1. /\ \A k \in Conn : ph'[k] = IF k = c THEN "txt" ELSE ph[k]
        /\ ph[c] = "data"
    BY <1>9 DEF Decoded, LogTypeOK
  <2>2. RefsInv'
    BY <1>0, <1>9, <2>1, RefsKept DEF Decoded
  <2>3. LogTypeOK' /\ ReceivedInv'
    BY <1>9 DEF Decoded, LogTypeOK, ReceivedInv
  <2>4. PlaceInv' /\ RightFolder'
    BY <1>9 DEF Decoded, PlaceInv, Placed, RightFolder
  <2>5. QED
    BY <2>2, <2>3, <2>4
<1>10. QED
  BY <1>1, <1>2, <1>3, <1>4, <1>5, <1>6, <1>7, <1>8, <1>9 DEF Next

\* The inductive invariant of the file logs.
THEOREM LogInvariant ==
  Spec => []LogInv
  BY LogInit, LogInvStep, PTL DEF Spec

\* The files of a device are closed at the latest with its last connection:
\* the reference count never exceeds the connections that have opened the
\* session and not ended.
THEOREM NoLeakSafe ==
  Spec => []NoLeak
<1>1. LogInv => NoLeak
  BY DEF LogInv, RefsInv
<1>2. QED
  BY <1>1, LogInvariant, PTL

\* Every line is in the folder of a day on which it was being logged, however
\* changes of day, failed ones too, meet the calls of the connections and the
\* reads of the clock within a call.
THEOREM RightFolderSafe ==
  Spec => []RightFolder
<1>1. LogInv => RightFolder
  BY DEF LogInv
<1>2. QED
  BY <1>1, LogInvariant, PTL

----------------------------------------------------------------------------
(* The sizes of the open files.                                            *)

\* Sessions of different names have different files.
LEMMA PathsApart ==
  ASSUME NamesApart, NEW n \in Name, NEW m \in Name, n # m,
         NEW i \in Nat, NEW j \in Nat
  PROVE  Path(n, i) # Path(m, j)
<1>1. n \in Seq(PathElement) /\ m \in Seq(PathElement)
      /\ i \in PathElement /\ j \in PathElement
  BY Paths DEF PathElement
<1>2. Append(n, i) = Append(m, j) => n = m
  BY <1>1, AppendInjective
<1>3. Append(n, i) # m /\ Append(m, j) # n
  BY DEF NamesApart
<1>4. QED
  BY <1>2, <1>3 DEF Path

\* Calls that write nothing keep the sizes, if the files a session has
\* afterwards are ones it had or are of known size.
LEMMA SizeKept ==
  ASSUME SizeKnown, disk' = disk,
         \A m \in Name, y \in Ext :
            sessions'[m] # NoSession /\ sessions'[m].file[y] # NoFile =>
              \/ Sized(sessions'[m].file[y], y)
              \/ /\ sessions[m] # NoSession
                 /\ sessions'[m].file[y] = sessions[m].file[y]
  PROVE  SizeKnown'
<1>1. \A f : Size(f)' = Size(f)
  BY DEF Size
<1>2. ASSUME NEW m \in Name, NEW y \in Ext, sessions'[m] # NoSession,
             sessions'[m].file[y] # NoFile
      PROVE  Sized(sessions'[m].file[y], y)
  BY <1>2 DEF SizeKnown, Sized
<1>3. QED
  BY <1>1, <1>2 DEF SizeKnown, Sized, File

\* A call that appends bytes to a file of one session.
LEMMA SizeAppended ==
  ASSUME NamesApart, LogTypeOK, PlaceInv, RightFolder, SizeKnown,
         NEW n \in Name, sessions[n] # NoSession, NEW x \in Ext, NEW t, NEW h,
         NEW len \in Nat, NEW got, NEW first \in Nat, first <= today,
         Appended(t, n, x, h, len, got, first)
  PROVE  SizeKnown'
<1>1. /\ t \in Session /\ Placed(t, n) /\ sessions' = [sessions EXCEPT ![n] = t]
      /\ h \in Handle /\ h.day \in today..today' /\ h.path = Path(n, h.seq)
      /\ ~h.err /\ h # NoFile
      /\ Sized(h, x) \/ h = sessions[n].file[x]
      /\ got \in 0..len /\ disk' = Written(File(h, x), got, first, today')
      /\ t.file[x] = [h EXCEPT !.size = h.size + len, !.err = got < len]
      /\ \A y \in Ext \ {x} : t.file[y] # NoFile =>
           Sized(t.file[y], y) \/ t.file[y] = sessions[n].file[y]
  BY DEF Appended
<1>2. /\ sessions' \in [Name -> Session \union {NoSession}] /\ PlaceInv'
      /\ \A m \in Name : sessions'[m] = IF m = n THEN t ELSE sessions[m]
  BY <1>1, SessionPut
<1>3. PICK f : f = File(h, x)
  OBVIOUS
<1>4. f = <<h.day, Path(n, h.seq), x>> /\ f[1] \in first..today' /\ h.seq \in Nat
  <2>1. f = <<h.day, Path(n, h.seq), x>> /\ h.seq \in Nat /\ h.day \in today..today'
    BY <1>1, <1>3 DEF File, Handle
  <2>2. h.day \in first..today'
    BY <2>1 DEF LogTypeOK
  <2>3. QED
    BY <2>1, <2>2
<1>5. \A g : Size(g)' = IF g = f THEN Size(f) + got ELSE Size(g)
  <2>1. got \in Nat /\ disk' = Written(f, got, first, today')
    BY <1>1, <1>3
  <2>2. QED
    BY <1>4, <2>1, WrittenFile
<1>6. Sized(h, x)
  BY <1>1 DEF SizeKnown, Sized
<1>7. h.size = Size(f) /\ Size(f) \in Nat
  BY <1>1, <1>3, <1>6 DEF Sized, Size, LogTypeOK
<1>8. SUFFICES ASSUME NEW m \in Name, NEW y \in Ext, sessions'[m] # NoSession,
                      sessions'[m].file[y] # NoFile,
                      NEW g, g = sessions'[m].file[y]
               PROVE  /\ g.size >= Size(File(g, y))'
                      /\ ~g.err => g.size = Size(File(g, y))'
  BY DEF SizeKnown
<1>9. g \in Handle /\ g.path = Path(m, g.seq) /\ g.seq \in Nat
  BY <1>2, <1>8 DEF PlaceInv, Placed, Session, Handle
<1>10. File(g, y) = <<g.day, Path(m, g.seq), y>>
  BY <1>9 DEF File
<1>11. CASE m = n /\ y = x
  <2>1. g = [h EXCEPT !.size = h.size + len, !.err = got < len]
    BY <1>1, <1>2, <1>8, <1>11
  <2>2. /\ g.size = h.size + len /\ g.day = h.day /\ g.path = h.path
        /\ ~g.err => ~(got < len)
    BY <1>1, <2>1 DEF Handle
  <2>3. File(g, y) = f
    BY <1>3, <1>11, <2>2 DEF File
  <2>4. Size(f)' = Size(f) + got
    BY <1>5
  <2>5. /\ g.size >= Size(f)'
        /\ ~(got < len) => g.size = Size(f)'
    BY <1>1, <1>7, <2>2, <2>4
  <2>6. Size(File(g, y))' = Size(f)'
    BY <1>5, <2>3
  <2>7. QED
    BY <2>2, <2>5, <2>6
<1>12. CASE ~(m = n /\ y = x)
  <2>1. File(g, y) # f
    <3>1. CASE m # n
      BY <1>4, <1>9, <1>10, <3>1, PathsApart
    <3>2. CASE y # x
      BY <1>4, <1>10, <3>2
    <3>3. QED
      BY <1>12, <3>1, <3>2
  <2>2. Size(File(g, y))' = Size(File(g, y))
    BY <1>5, <2>1
  <2>3. Sized(g, y)
    <3>1. CASE m # n
      BY <1>2, <1>8, <3>1 DEF SizeKnown, Sized
    <3>2. CASE m = n
      BY <1>1, <1>2, <1>8, <1>12, <3>2 DEF SizeKnown, Sized
    <3>3. QED
      BY <3>1, <3>2
  <2>4. QED
    BY <2>2, <2>3 DEF Sized
<1>13. QED
  BY <1>11, <1>12

LEMMA SizeLine ==
  ASSUME NamesApart, LogInv, SizeKnown, NEW d \in Device \union {NoDev},
         NEW x \in Ext, NEW len \in LineLen, NEW fails,
         NEW first \in Nat, first <= today, Log(d, x, len, fails, first)
  PROVE  SizeKnown'
<1>1. PICK n \in Name : n = Sanitize[d]
  BY NameType
<1>2. CASE UNCHANGED <<sessions, disk>>
  BY <1>2, SizeKept
<1>3. CASE sessions[n] # NoSession /\ \E t : Refreshed(t, n) /\ disk' = disk
  <2>1. PICK t : Refreshed(t, n) /\ disk' = disk
    BY <1>3
  <2>2. /\ t \in Session /\ Placed(t, n) /\ sessions' = [sessions EXCEPT ![n] = t]
        /\ \A y \in Ext : t.file[y] # NoFile =>
             Sized(t.file[y], y) \/ t.file[y] = sessions[n].file[y]
    BY <2>1 DEF Refreshed
  <2>3. \A m \in Name : sessions'[m] = IF m = n THEN t ELSE sessions[m]
    BY <2>2, SessionPut DEF LogInv
  <2>4. QED
    BY <1>3, <2>1, <2>2, <2>3, SizeKept
<1>4. CASE /\ sessions[n] # NoSession
           /\ \E t, h, got : Appended(t, n, x, h, len, got, first)
  <2>1. PICK t, h, got : Appended(t, n, x, h, len, got, first)
    BY <1>4
  <2>2. len \in Nat
    BY LineAssumption
  <2>3. QED
    BY <1>4, <2>1, <2>2, SizeAppended DEF LogInv
<1>5. QED
  BY <1>1, <1>2, <1>3, <1>4, LogStep DEF LogInv

LEMMA SizeStep ==
  ASSUME NamesApart, LogInv, SizeKnown, [Next]_vars
  PROVE  SizeKnown'
<1>0. did \in [Conn -> Device \union {NoDev}]
  BY DEF LogInv, LogTypeOK
<1>1. ASSUME NEW c \in Conn, FirstFrame(c)
      PROVE  SizeKnown'
  <2>1. PICK fails : Open(did[c], fails)
    BY <1>1 DEF FirstFrame
  <2>2. PICK n \in Name : n = Sanitize[did[c]]
    BY <1>0, NameType
  <2>3. disk' = disk
    BY <1>1 DEF FirstFrame
  <2>4. /\ \A m \in Name \ {n} : sessions'[m] = sessions[m]
        /\ \/ sessions' = sessions
           \/ /\ sessions[n] # NoSession
              /\ sessions'[n].file = sessions[n].file
           \/ sessions'[n].file = OpenFiles(n, today)
    BY <1>0, <2>1, <2>2, OpenStep DEF LogInv
  <2>5. \A y \in Ext : Sized(OpenFiles(n, today)[y], y)
    BY FilesOpened DEF LogInv, LogTypeOK
  <2>6. QED
    BY <2>3, <2>4, <2>5, SizeKept
<1>2. ASSUME NEW c \in Conn, End(c)
      PROVE  SizeKnown'
  <2>1. PICK n \in Name : n = Sanitize[did[c]]
    BY <1>0, NameType
  <2>2. disk' = disk /\ Close(did[c])
    BY <1>2 DEF End
  <2>3. /\ \A m \in Name \ {n} : sessions'[m] = sessions[m]
        /\ sessions'[n] # NoSession => /\ sessions[n] # NoSession
                                       /\ sessions'[n].file = sessions[n].file
    BY <1>0, <2>1, <2>2, CloseStep DEF LogInv
  <2>4. QED
    BY <2>2, <2>3, SizeKept
<1>3. ASSUME NEW c \in Conn, LogHex(c)
      PROVE  SizeKnown'
  <2>1. PICK len \in LineLen, fails \in IoFaults :
          Log(did[c], ".hex", len, fails, today)
    BY <1>3 DEF LogHex
  <2>2. today \in Nat /\ today <= today
    BY DEF LogInv, LogTypeOK
  <2>3. QED
    BY <1>0, <2>1, <2>2, SizeLine, ExtAssumption
<1>4. ASSUME NEW c \in Conn, LogTxt(c)
      PROVE  SizeKnown'
  <2>1. PICK len \in LineLen, fails \in IoFaults :
          Log(did[c], ".txt", len, fails, received[c])
    BY <1>4 DEF LogTxt
  <2>2. received[c] \in Nat /\ received[c] <= today
    BY DEF LogInv, LogTypeOK, ReceivedInv
  <2>3. QED
    BY <1>0, <2>1, <2>2, SizeLine, ExtAssumption
<1>5. CASE UNCHANGED <<sessions, disk>>
  BY <1>5, SizeKept
<1>6. QED
  BY <1>1, <1>2, <1>3, <1>4, <1>5
  DEF Next, ParamRequest, Authorize, Decoded, Midnight, vars

\* The size an open handle counts is the size of its file, or after a failed
\* write no less, whatever rotations, reconnections and changes of day led to
\* it: for every set of device IDs of which none leads to the part of another.
THEOREM SizeKnownSafe ==
  ASSUME NamesApart
  PROVE  Spec => []SizeKnown
<1>1. Init => SizeKnown
  BY DEF Init, SizeKnown
<1>2. LogInv /\ SizeKnown /\ [Next]_vars => SizeKnown'
  BY SizeStep
<1>3. QED
  BY <1>1, <1>2, LogInvariant, PTL DEF Spec
=============================================================================
