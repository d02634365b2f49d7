---------------------------- MODULE Measurements ----------------------------
(***************************************************************************)
(* internal/store/measurement_store.go: the queue of 0x59 measurements,    *)
(* the goroutine insertLoop that writes them to the database in batches,   *)
(* the goroutine cleanupLoop that removes old rows, and Close.             *)
(*                                                                         *)
(* A measurement is named by its connection, its number there and the day  *)
(* it was received; the other columns are copied without being looked at.  *)
(* The connection reads its clock first and calls Enqueue later            *)
(* (cmd0x59/handler.go), so other connections run in between.  A statement *)
(* of the database ends within its context's timeout: with success, with   *)
(* an error, or with an error although the rows were committed (the answer *)
(* was lost).  Ticks of the two tickers may come at any time.  Close is    *)
(* called by main while connections may still be served: run may return    *)
(* before the TCP server is shut down (web.NewServer fails), and a         *)
(* connection accepted during Shutdown is not waited for.                  *)
(***************************************************************************)
EXTENDS Integers, Sequences, FiniteSets, SequencesExt, Subsequences

CONSTANTS Conn,           \* connections that send measurements
          QueueSize,      \* measurementQueueSize
          BatchSize,      \* measurementBatchSize
          RetentionDays,  \* MeasurementStore.retentionDays
          MaxMsg,         \* bound: measurements of each connection
          MaxDay,         \* bound: last day of the clock
          NoDay           \* no clock reading

ASSUME QueueAssumption == QueueSize \in Nat
ASSUME BatchAssumption == BatchSize \in Nat \ {0}
ASSUME BoundAssumption == MaxMsg \in [Conn -> Nat]
\* NewMeasurementStore replaces a smaller value by 7.
ASSUME RetentionAssumption == RetentionDays \in Nat \ {0}

VARIABLES today,           \* the day of the clocks
          sent,            \* measurements handed to Enqueue, per connection
          hand,            \* the clock reading of a handler about to enqueue
          ch, dropped,     \* the queue; the measurements it had no room for
          loop, batch,     \* insertLoop: where it is, its batch
          table,           \* the rows of measurements, in order of id
          lost, expired,   \* not stored because of an error; cleaned up
          cleaner,         \* cleanupLoop: where it is
          quit, closer     \* the quit channel is closed; the caller of Close

vars == <<today, sent, hand, ch, dropped, loop, batch, table, lost, expired,
          cleaner, quit, closer>>

Number == 1..Max(Range(MaxMsg))
Measurement == [from : Conn, no : Number, at : 0..MaxDay]

Init ==
  /\ today = 0
  /\ sent = [c \in Conn |-> 0]
  /\ hand = [c \in Conn |-> NoDay]
  /\ ch = <<>> /\ dropped = {}
  /\ loop = "select" /\ batch = <<>>
  /\ table = <<>> /\ lost = {} /\ expired = {}
  /\ cleaner = "cleanup"
  /\ quit = FALSE /\ closer = "no"

Day == /\ today < MaxDay
       /\ today' = today + 1
       /\ UNCHANGED <<sent, hand, ch, dropped, loop, batch, table, lost,
                      expired, cleaner, quit, closer>>

----------------------------------------------------------------------------
(* The handler of command 0x59.                                            *)

\* A frame was decoded: now := time.Now().
Decoded(c) ==
  /\ hand[c] = NoDay
  /\ sent[c] < MaxMsg[c]
  /\ hand' = [hand EXCEPT ![c] = today]
  /\ UNCHANGED <<today, sent, ch, dropped, loop, batch, table, lost, expired,
                 cleaner, quit, closer>>

\* select with a default: the measurement is queued or counted as dropped.
Enqueue(c) ==
  LET m == [from |-> c, no |-> sent[c] + 1, at |-> hand[c]]
  IN  /\ hand[c] # NoDay
      /\ sent' = [sent EXCEPT ![c] = @ + 1]
      /\ hand' = [hand EXCEPT ![c] = NoDay]
      /\ \/ /\ Len(ch) < QueueSize
            /\ ch' = Append(ch, m)
            /\ UNCHANGED dropped
         \/ /\ Len(ch) >= QueueSize
            /\ dropped' = dropped \union {m}
            /\ UNCHANGED ch
      /\ UNCHANGED <<today, loop, batch, table, lost, expired, cleaner, quit,
                     closer>>

----------------------------------------------------------------------------
(* insertLoop.  In "select" it waits; "copy" and "last copy" are a running *)
(* insertBatch, after which it goes on or returns.                         *)

BatchFull(b) == Len(b) >= BatchSize

\* case m := <-s.ch
TakeOne ==
  /\ loop = "select"
  /\ ch # <<>>
  /\ ch' = Tail(ch)
  /\ batch' = Append(batch, Head(ch))
  /\ loop' = IF BatchFull(batch') THEN "copy" ELSE "select"
  /\ UNCHANGED <<today, sent, hand, dropped, table, lost, expired, cleaner,
                 quit, closer>>

\* Mutation of the next definition: a tick flushes full batches only.
TickFull ==
  /\ loop = "select"
  /\ BatchFull(batch)
  /\ loop' = "copy"
  /\ UNCHANGED <<today, sent, hand, ch, dropped, batch, table, lost, expired,
                 cleaner, quit, closer>>

\* case <-ticker.C (a tick with an empty batch changes nothing)
TickFlush ==
  /\ loop = "select"
  /\ batch # <<>>
  /\ loop' = "copy"
  /\ UNCHANGED <<today, sent, hand, ch, dropped, batch, table, lost, expired,
                 cleaner, quit, closer>>

\* case <-s.quit
LastFlush ==
  /\ loop = "select"
  /\ quit
  /\ loop' = IF batch = <<>> THEN "done" ELSE "last copy"
  /\ UNCHANGED <<today, sent, hand, ch, dropped, batch, table, lost, expired,
                 cleaner, quit, closer>>

\* insertBatch returned; the caller logs an error.
AfterCopy == loop' = IF loop = "copy" THEN "select" ELSE "done"

\* COPY is one statement: all rows of the batch or none.
Copied == table' = table \o batch

\* Mutation of the next definition: the batch is not reset.
EmptiedNot == UNCHANGED batch

\* batch = batch[:0], after success and error alike.
Emptied == batch' = <<>>

\* insertBatch without an error, or with one that came after the commit.
InsertBatch ==
  /\ loop \in {"copy", "last copy"}
  /\ Copied
  /\ Emptied
  /\ AfterCopy
  /\ UNCHANGED <<today, sent, hand, ch, dropped, lost, expired, cleaner, quit,
                 closer>>

\* Mutation of the next definition: a batch that failed is queued again.
InsertFailsRequeues ==
  /\ loop \in {"copy", "last copy"}
  /\ ch' = ch \o batch
  /\ Emptied
  /\ AfterCopy
  /\ UNCHANGED <<today, sent, hand, dropped, table, lost, expired, cleaner,
                 quit, closer>>

\* insertBatch with an error and nothing stored.
InsertFails ==
  /\ loop \in {"copy", "last copy"}
  /\ lost' = lost \union Range(batch)
  /\ Emptied
  /\ AfterCopy
  /\ UNCHANGED <<today, sent, hand, ch, dropped, table, expired, cleaner,
                 quit, closer>>

----------------------------------------------------------------------------
(* cleanupLoop and Close.                                                  *)

\* received_at < now() - retentionDays
Old(r) == r.at < today - RetentionDays

\* The DELETE of cleanup.
Cleanup ==
  /\ cleaner = "cleanup"
  /\ table' = SubSeqAt(table, {i \in DOMAIN table : ~Old(table[i])})
  /\ expired' = expired \union {r \in Range(table) : Old(r)}
  /\ cleaner' = "select"
  /\ UNCHANGED <<today, sent, hand, ch, dropped, loop, batch, lost, quit,
                 closer>>

CleanupFails ==
  /\ cleaner = "cleanup"
  /\ cleaner' = "select"
  /\ UNCHANGED <<today, sent, hand, ch, dropped, loop, batch, table, lost,
                 expired, quit, closer>>

\* The hourly tick.
CleanupTick ==
  /\ cleaner = "select"
  /\ cleaner' = "cleanup"
  /\ UNCHANGED <<today, sent, hand, ch, dropped, loop, batch, table, lost,
                 expired, quit, closer>>

\* Mutation of the next definition: the quit channel is not looked at.
CleanupNeverQuits == cleaner = "done" /\ UNCHANGED vars

CleanupQuit ==
  /\ cleaner = "select"
  /\ quit
  /\ cleaner' = "done"
  /\ UNCHANGED <<today, sent, hand, ch, dropped, loop, batch, table, lost,
                 expired, quit, closer>>

\* close(s.quit), then wg.Wait.  A second Close would return at once.
Close ==
  /\ closer = "no"
  /\ quit' = TRUE
  /\ closer' = "waiting"
  /\ UNCHANGED <<today, sent, hand, ch, dropped, loop, batch, table, lost,
                 expired, cleaner>>

\* Mutation of the next definition: wg.Add(1) for the two goroutines.
WaitOne == loop = "done" \/ cleaner = "done"

\* wg.Wait returns.
WaitDone == loop = "done" /\ cleaner = "done"

CloseReturn ==
  /\ closer = "waiting"
  /\ WaitDone
  /\ closer' = "returned"
  /\ UNCHANGED <<today, sent, hand, ch, dropped, loop, batch, table, lost,
                 expired, cleaner, quit>>

----------------------------------------------------------------------------
InsertLoop == TakeOne \/ TickFlush \/ LastFlush \/ InsertBatch \/ InsertFails
CleanupLoop == Cleanup \/ CleanupFails \/ CleanupTick \/ CleanupQuit

Next == \/ Day
        \/ \E c \in Conn : Decoded(c) \/ Enqueue(c)
        \/ InsertLoop
        \/ CleanupLoop
        \/ Close \/ CloseReturn

\* The goroutines run.  A select takes each ready case sooner or later: it
\* chooses at random, and the tickers tick for ever.  Statements end, by
\* their timeout at the latest.
Fairness ==
  /\ WF_vars(InsertLoop) /\ WF_vars(CleanupLoop) /\ WF_vars(CloseReturn)
  /\ SF_vars(TakeOne) /\ SF_vars(TickFlush) /\ SF_vars(LastFlush)
  /\ SF_vars(CleanupQuit)

Spec == Init /\ [][Next]_vars /\ Fairness

----------------------------------------------------------------------------
(* Properties.                                                             *)

Ways == <<Range(ch), Range(batch), Range(table), dropped, lost, expired>>

\* Every measurement a connection handed to Enqueue is in exactly one place:
\* queued, in the batch, stored once, or lost for one known reason (no room
\* in the queue, a failed insertBatch, cleanup).
Accounted ==
  /\ \A c \in Conn : \A n \in 1..MaxMsg[c] :
       Cardinality({p \in (1..6) \X UNION Range(Ways) :
                      /\ p[2] \in Ways[p[1]]
                      /\ p[2].from = c /\ p[2].no = n})
         = IF n <= sent[c] THEN 1 ELSE 0
  /\ IsInjective(ch) /\ IsInjective(batch) /\ IsInjective(table)

\* The measurements of one connection go through the queue and the batch and
\* are stored in the order in which they were received, whatever is dropped,
\* fails or is cleaned up in between.
StoredInOrder ==
  LET s == table \o batch \o ch
  IN  \A i, j \in DOMAIN s :
        i < j /\ s[i].from = s[j].from => /\ s[i].no < s[j].no
                                          /\ s[i].at <= s[j].at

\* After Close returned nothing is left in the batch and the goroutines do
\* not touch the database any more: main closes the pool next.
QuietAfterClose ==
  [][closer = "returned" => /\ batch = <<>>
                            /\ UNCHANGED <<table, batch, lost>>]_vars

\* Close returns, however many measurements keep coming in.
CloseReturns == closer = "waiting" ~> closer = "returned"

\* A measurement that is waiting leaves the queue and the batch in the end,
\* without further ones to fill the batch; only a Close may leave it in the
\* queue.
Flushed ==
  \A c \in Conn : \A n \in Number :
    (\E m \in Range(ch \o batch) : m.from = c /\ m.no = n)
      ~> (\/ \A m \in Range(ch \o batch) : ~(m.from = c /\ m.no = n)
          \/ loop = "done" /\ batch = <<>>)
=============================================================================
