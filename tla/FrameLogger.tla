---------------------------- MODULE FrameLogger ----------------------------
(***************************************************************************)
(* internal/tcp/framelog.go: the per-device log files, shared by all       *)
(* connections of a device through a reference count, with the calls       *)
(* handleConnection (crypto_server.go) and cmd0x59 make to it.             *)
(*                                                                         *)
(* Every exported method runs under FrameLogger.mu, so a call is one step; *)
(* between two calls of one connection the other connections run.  ph[c]   *)
(* is what a connection still has to do:                                   *)
(*   "new"    no device ID yet         "named"  a device ID, not authorized *)
(*   "authed" authorized, no frame yet "opened" Open done, LogHex is due   *)
(*   "idle"   waiting for a frame      "data"   a 0x59 is to be decoded    *)
(*   "txt"    LogTxt of its line is due "gone"  ended, Close done          *)
(*                                                                         *)
(* A file name without its extension is a sequence: part n > 1 of a file   *)
(* appends n to the name, as ".n" does in the code.  Of a file the model   *)
(* keeps its size and when its lines were logged.  LogHex and LogTxt read  *)
(* the clock several times, and midnight may come between any two reads.   *)
(* An open handle is a logFile: its size field and whether its             *)
(* bufio.Writer holds an error, which it keeps for good.                   *)
(***************************************************************************)
EXTENDS Integers, Sequences, FiniteSets, FiniteSetsExt

CONSTANTS Conn, Device,
          NoDev,        \* the empty ctx.DeviceID
          Sanitize,     \* SanitizeDID: device IDs (and NoDev) to file names
          Ext,          \* the files of a session: ".hex", ".txt"
          MaxBytes,     \* limit of one file
          LineLen,      \* lengths of log lines
          IoFaults,     \* {FALSE}, or BOOLEAN if opens and writes may fail
          MaxLines,     \* bound: with so many lines no further frame comes in
          MaxDay,       \* bound: last day
          NoSession, NoFile

ASSUME LineAssumption == MaxBytes \in Nat \ {0} /\ LineLen \subseteq 1..MaxBytes
ASSUME SanitizeAssumption ==
  Sanitize \in [Device \union {NoDev} -> Seq(STRING \union Nat)]
ASSUME ExtAssumption == {".hex", ".txt"} \subseteq Ext

VARIABLES sessions,  \* FrameLogger.sessions
          disk,      \* the files that are not empty
          today,     \* the day of the clock
          ph, did,   \* per connection
          opened,    \* connections whose Open succeeded
          received,  \* the day a line of "txt" bears, 0 for none
          lines      \* lines written so far, and lines due

vars == <<sessions, disk, today, ph, did, opened, received, lines>>

Name == {Sanitize[d] : d \in Device \union {NoDev}}

----------------------------------------------------------------------------
(* Files.                                                                  *)

\* fmt.Sprintf("%s.%d%s", did, seq, ext); part 1 has the plain name.
Path(n, seq) == IF seq = 1 THEN n ELSE Append(n, seq)
File(h, x) == <<h.day, h.path, x>>
Size(f) == IF f \in DOMAIN disk THEN disk[f].size ELSE 0

\* openLogPart: the first part from seq on that is not full; one of so many
\* does not exist yet.
OpenLogPart(day, n, x, seq) ==
  LET s == Min({i \in seq..(seq + Cardinality(DOMAIN disk)) :
                  Size(<<day, Path(n, i), x>>) < MaxBytes})
  IN  [day |-> day, seq |-> s, path |-> Path(n, s),
       size |-> Size(<<day, Path(n, s), x>>), err |-> FALSE]

NoFiles == [x \in Ext |-> NoFile]

\* logSession.open for a day: part 1 onwards of both files.
OpenFiles(n, day) == [x \in Ext |-> OpenLogPart(day, n, x, 1)]

\* Mutation of the next definition: the session keeps the files it has.
RolledOverNever(s, n, fails, check, now) == s

\* rolloverDay: the session after the change of day.  The clock is read for
\* the check and once more for the folder to open.  A failure leaves the
\* session without files and without a day, so that the next line tries again.
RolledOver(s, n, fails, check, now) ==
  IF s.day = check THEN s
  ELSE IF fails THEN [s EXCEPT !.day = 0, !.file = NoFiles]
  ELSE [s EXCEPT !.day = now, !.file = OpenFiles(n, now)]

\* rotate: the handles a line of length len may find after the size check.
\* If the next part cannot be opened the current one is opened again, and if
\* that fails too the session has no file.
Rotated(h, n, x, len) ==
  IF h.size + len <= MaxBytes THEN {h}
  ELSE {OpenLogPart(h.day, n, x, h.seq + 1)} \union
       (IF TRUE \in IoFaults THEN {OpenLogPart(h.day, n, x, h.seq), NoFile}
                             ELSE {})

\* The files after len bytes of a line, logged from day first to day last,
\* have been appended to f.
Written(f, len, first, last) ==
  LET old == IF f \in DOMAIN disk THEN disk[f]
                                  ELSE [size |-> 0, logged |-> {}]
      new == [size |-> old.size + len,
              logged |-> old.logged \union {<<first, last>>}]
  IN  IF len = 0 THEN disk
      ELSE [g \in DOMAIN disk \union {f} |-> IF g = f THEN new ELSE disk[g]]

\* Mutation of the next definition: the size grows after the flush, and only
\* if that succeeds.
CountedFlushed(h, len, n) == h.size + IF n = len THEN len ELSE 0

\* f.size += len(line): before the flush, whose result is ignored.
Counted(h, len, n) == h.size + len

\* How many bytes of a line reach the file: a flush that fails stops
\* anywhere.
Flushes(len) == {n \in 0..len : TRUE \in IoFaults \/ n = len}

\* The end of writeLine, with a file.  A writer that holds an error refuses
\* the line.  WriteString into the empty buffer succeeds; then comes Flush.
WriteString(s, n, x, h, len, first, last) ==
  IF h.err
  THEN /\ sessions' = [sessions EXCEPT ![n] = [s EXCEPT !.file[x] = h]]
       /\ UNCHANGED disk
  ELSE \E got \in Flushes(len) :
    /\ sessions' = [sessions EXCEPT ![n] = [s EXCEPT !.file[x] =
                      [h EXCEPT !.size = Counted(h, len, got),
                                !.err = got < len]]]
    /\ disk' = Written(File(h, x), got, first, last)

----------------------------------------------------------------------------
(* The methods.                                                            *)

\* Open: joins the session of the name or starts one.
Open(d, fails) ==
  LET n == Sanitize[d] IN
  IF sessions[n] # NoSession
    THEN sessions' = [sessions EXCEPT ![n].refs = @ + 1]
    ELSE IF fails THEN UNCHANGED sessions
    ELSE sessions' = [sessions EXCEPT ![n] =
                        [refs |-> 1, day |-> today,
                         file |-> OpenFiles(n, today)]]

OpenSucceeds(d, fails) == sessions[Sanitize[d]] # NoSession \/ ~fails

\* Mutation of the next definition: only the last reference counts.
CloseUncounted(d) ==
  LET n == Sanitize[d] IN
  sessions' = IF sessions[n] = NoSession \/ sessions[n].refs > 1
                THEN sessions
                ELSE [sessions EXCEPT ![n] = NoSession]

\* Close: leaves the session, which ends with its last reference.
Close(d) ==
  LET n == Sanitize[d] IN
  sessions' = IF sessions[n] = NoSession THEN sessions
              ELSE IF sessions[n].refs > 1
                THEN [sessions EXCEPT ![n].refs = @ - 1]
                ELSE [sessions EXCEPT ![n] = NoSession]

\* LogHex and LogTxt when the clock shows check and now in rolloverDay and
\* last in the end: rolloverDay, then writeLine.
LogAt(d, x, len, fails, first, check, now, last) ==
  LET n == Sanitize[d] IN
  IF sessions[n] = NoSession THEN UNCHANGED <<sessions, disk>>
  ELSE LET s == RolledOver(sessions[n], n, fails, check, now) IN
    IF s.file[x] = NoFile
      THEN /\ sessions' = [sessions EXCEPT ![n] = s]
           /\ UNCHANGED disk
      ELSE \E h \in Rotated(s.file[x], n, x, len) :
             IF h = NoFile
               THEN /\ sessions' = [sessions EXCEPT ![n] =
                                      [s EXCEPT !.file[x] = NoFile]]
                    /\ UNCHANGED disk
               ELSE WriteString(s, n, x, h, len, first, last)

\* The days may go by while the call holds the mutex; nobody else logs then.
Log(d, x, len, fails, first) ==
  \E check \in today..MaxDay :
    \E now \in check..MaxDay :
      \E last \in now..MaxDay :
        /\ today' = last
        /\ LogAt(d, x, len, fails, first, check, now, last)

----------------------------------------------------------------------------
(* The connections.                                                        *)
Init ==
  /\ sessions = [n \in Name |-> NoSession]
  /\ disk = <<>> /\ today = 1 /\ lines = 0
  /\ ph = [c \in Conn |-> "new"] /\ did = [c \in Conn |-> NoDev]
  /\ opened = {} /\ received = [c \in Conn |-> 0]

\* The parameter request names a device; nothing is verified yet.
ParamRequest(c, d) ==
  /\ ph[c] = "new"
  /\ did' = [did EXCEPT ![c] = d]
  /\ ph' = [ph EXCEPT ![c] = "named"]
  /\ UNCHANGED <<sessions, disk, today, opened, received, lines>>

Authorize(c) ==
  /\ ph[c] = "named"
  /\ ph' = [ph EXCEPT ![c] = "authed"]
  /\ UNCHANGED <<sessions, disk, today, did, opened, received, lines>>

\* The first frame after the authorization opens the logs.
FirstFrame(c) ==
  /\ ph[c] = "authed" /\ lines < MaxLines
  /\ \E fails \in IoFaults :
       /\ Open(did[c], fails)
       /\ opened' = IF OpenSucceeds(did[c], fails) THEN opened \union {c}
                                                   ELSE opened
  /\ ph' = [ph EXCEPT ![c] = "opened"]
  /\ UNCHANGED <<disk, today, did, received, lines>>

\* Every frame is logged as hex, with a time read under the mutex; a 0x59
\* message then also as text.
LogHex(c) ==
  /\ ph[c] \in {"opened", "idle"} /\ lines < MaxLines
  /\ \E len \in LineLen, fails \in IoFaults :
       Log(did[c], ".hex", len, fails, today)
  /\ \E next \in {"idle", "data"} :
       /\ ph' = [ph EXCEPT ![c] = next]
       /\ lines' = lines + IF next = "data" THEN 2 ELSE 1
  /\ UNCHANGED <<did, opened, received>>

\* The handler reads the clock and formats the line before it calls LogTxt.
Decoded(c) ==
  /\ ph[c] = "data"
  /\ received' = [received EXCEPT ![c] = today]
  /\ ph' = [ph EXCEPT ![c] = "txt"]
  /\ UNCHANGED <<sessions, disk, today, did, opened, lines>>

LogTxt(c) ==
  /\ ph[c] = "txt"
  /\ \E len \in LineLen, fails \in IoFaults :
       Log(did[c], ".txt", len, fails, received[c])
  /\ ph' = [ph EXCEPT ![c] = "idle"]
  /\ received' = [received EXCEPT ![c] = 0]
  /\ UNCHANGED <<did, opened, lines>>

\* The deferred Close runs for every connection, with whatever ID it has.
End(c) ==
  /\ ph[c] \in {"new", "named", "authed", "idle"}
  /\ Close(did[c])
  /\ ph' = [ph EXCEPT ![c] = "gone"]
  /\ UNCHANGED <<disk, today, did, opened, received, lines>>

Midnight ==
  /\ today < MaxDay
  /\ today' = today + 1
  /\ UNCHANGED <<sessions, disk, ph, did, opened, received, lines>>

Next == \/ \E c \in Conn : \/ \E d \in Device : ParamRequest(c, d)
                           \/ Authorize(c) \/ FirstFrame(c)
                           \/ LogHex(c) \/ Decoded(c) \/ LogTxt(c) \/ End(c)
        \/ Midnight

Spec == Init /\ [][Next]_vars

----------------------------------------------------------------------------
(* Properties.                                                             *)

Users(n) == {c \in opened : Sanitize[did[c]] = n /\ ph[c] # "gone"}

\* No session outlives its users: the count never exceeds the connections
\* that have opened the session and not ended, so the files of a device are
\* closed at the latest with its last connection, in whatever order
\* connections open, fail to open and end.
NoLeak ==
  \A n \in Name : sessions[n] # NoSession =>
    sessions[n].refs <= Cardinality(Users(n))

\* Every line is in the folder of a day on which it was being logged, also
\* after a failed change of day and when another connection of the device
\* has already switched the session over: a .hex line from its call of LogHex
\* to the time it bears, a .txt line from the time it bears to the end of
\* LogTxt.  So a line that bears another day than its folder is one that
\* midnight met on the way; no later line goes to the old folder.
RightFolder ==
  \A f \in DOMAIN disk : \A l \in disk[f].logged : f[1] \in l[1]..l[2]

\* The size an open handle counts is the size of its file, whatever sequence
\* of rotations, failed rotations, reconnections and changes of day led to
\* it, as long as its writes succeed; after a failed write it is not less, so
\* that a part is never taken to have room that it has not.  (No other
\* session has the file.)
SizeKnown ==
  \A n \in Name, x \in Ext :
    sessions[n] # NoSession /\ sessions[n].file[x] # NoFile =>
    LET h == sessions[n].file[x]
    IN  /\ h.size >= Size(File(h, x))
        /\ ~h.err => h.size = Size(File(h, x))

\* framelog.go:114-115: the files of a device are closed when all parallel
\* connections of the device are closed; so a connection that has opened
\* them and not ended has them.
OpenWhileUsed ==
  \A c \in opened : ph[c] # "gone" => sessions[Sanitize[did[c]]] # NoSession
=============================================================================
