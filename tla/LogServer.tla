----------------------------- MODULE LogServer -----------------------------
(***************************************************************************)
(* internal/web/logs.go: the live log of events in the browser.  The       *)
(* goroutines of the device connections put messages into logChan,         *)
(* broadcastLoop keeps the last ones in a ring and writes each to all      *)
(* browsers, and one goroutine per browser (ServeWS) registers the         *)
(* browser, sends the history and waits until it disconnects.  Unlike in   *)
(* TimeLogServer the browser is registered before the history is sent, and *)
(* broadcastLoop keeps the read lock of clientsMu while it writes.         *)
(*                                                                         *)
(* broadcastLoop is at                                                     *)
(*   "idle"   waiting for logChan        "failed" a write failed, the read *)
(*   "fan"    in its loop, read-locked            lock given back          *)
(* and ServeWS of a browser at                                             *)
(*   "new"        before the upgrade     "reading" in its read loop        *)
(*   "registered" history not yet read   "leaving" waiting for the lock    *)
(*   "history"    sending the history    "gone"    returned, conn closed   *)
(* A write to a WebSocket is two steps, its begin and its end; it fails on *)
(* a closed connection, may fail on any other, and need not end at all.    *)
(* Two writes at once on one connection are a data race: gorilla/websocket *)
(* panics where it notices, otherwise what the browser gets is garbled.  A *)
(* panic ends ServeWS only, recovered by net/http, but in broadcastLoop it *)
(* ends the server.  The model ends where main closes logChan, its last    *)
(* act before it returns.                                                  *)
(***************************************************************************)
EXTENDS Integers, Sequences, Subsequences

CONSTANTS Browser,
          ChanSize,   \* capacity of logChan (main.go)
          MaxLogs,    \* defaultMaxLogs
          MaxMsg,     \* bound: messages logged
          Empty,      \* the empty string, in an empty slot
          NoOne

ASSUME MaxLogsAssumption == MaxLogs \in Nat \ {0}
ASSUME MaxMsgAssumption == MaxMsg \in Nat
ASSUME EmptyAssumption == Empty \notin Nat
ASSUME NoOneAssumption == NoOne \notin Browser

VARIABLES sent,            \* messages logged, dropped ones included
          logChan,         \* the channel
          ring, pos,       \* history: contents and current element
          clients,         \* registered browsers
          loop, msg,       \* broadcastLoop: place and message
          rlocked,         \* it holds the read lock of clientsMu
          must, visited,   \* its range over clients: to be visited, visited
          writing,         \* browser broadcastLoop writes to, or NoOne
          pc, hist,        \* ServeWS: place and rest of the history
          busy,            \* browsers whose ServeWS has a write in progress
          closed,          \* connections closed by the server or the browser
          garbled,         \* connections that had two writes at once
          crashed,         \* broadcastLoop panicked
          handled,         \* history variable: what broadcastLoop took
          since, died,     \* positions in handled: where the stream of the
                           \* browser begins; at the return of ServeWS
          shown            \* the messages written to the browser

loopVars == <<logChan, ring, pos, loop, msg, rlocked, must, visited, writing,
              handled>>
serveVars == <<pc, hist, busy, since, died>>
logVars == <<sent, clients, closed, garbled, crashed, shown, loopVars,
             serveVars>>

LogInit ==
  /\ sent = 0 /\ logChan = <<>>
  /\ ring = [i \in 0..(MaxLogs - 1) |-> Empty] /\ pos = 0
  /\ clients = {}
  /\ loop = "idle" /\ msg = Empty /\ rlocked = FALSE
  /\ must = {} /\ visited = {}
  /\ writing = NoOne
  /\ pc = [b \in Browser |-> "new"]
  /\ hist = [b \in Browser |-> <<>>]
  /\ busy = {} /\ closed = {} /\ garbled = {} /\ crashed = FALSE
  /\ handled = <<>>
  /\ since = [b \in Browser |-> 0] /\ died = [b \in Browser |-> 0]
  /\ shown = [b \in Browser |-> {}]

\* logEvent, logRawFrame: sent if there is room.
LogEvent ==
  /\ sent < MaxMsg
  /\ sent' = sent + 1
  /\ logChan' = IF Len(logChan) < ChanSize THEN Append(logChan, sent + 1)
                                           ELSE logChan
  /\ UNCHANGED <<clients, closed, garbled, crashed, shown, ring, pos,
                 loop, msg, rlocked, must, visited, writing, handled,
                 serveVars>>

----------------------------------------------------------------------------
(* The ring; its current element is the oldest one.                        *)

\* addToHistory
AddToHistory(m) ==
  /\ ring' = [ring EXCEPT ![pos] = m]
  /\ pos' = (pos + 1) % MaxLogs

\* getHistory
GetHistory ==
  LET entries == [i \in 1..MaxLogs |-> ring[(pos + i - 1) % MaxLogs]]
  IN  SubSeqAt(entries, {i \in 1..MaxLogs : entries[i] # Empty})

\* Of the messages handled, the history or the stream of a browser
\* registered after the first n of them begins behind this one.
Oldest(n) == LET h == Len(handled) - MaxLogs
             IN  IF h < 0 THEN 0 ELSE IF h < n THEN h ELSE n

----------------------------------------------------------------------------
(* broadcastLoop.                                                          *)

\* The next message goes into the ring, and the range over clients begins
\* under the read lock.
Take ==
  /\ loop = "idle" /\ logChan # <<>>
  /\ logChan' = Tail(logChan)
  /\ AddToHistory(Head(logChan))
  /\ loop' = "fan" /\ msg' = Head(logChan)
  /\ rlocked' = TRUE /\ must' = clients /\ visited' = {}
  /\ handled' = Append(handled, Head(logChan))
  /\ UNCHANGED <<sent, clients, closed, garbled, crashed, shown, writing,
                 serveVars>>

\* client.WriteMessage; one writer at a time, or a data race.
SendBegin(b) ==
  /\ loop = "fan" /\ writing = NoOne
  /\ b \in clients \ visited
  /\ visited' = visited \union {b}
  /\ \/ /\ writing' = b
        /\ garbled' = IF b \in busy THEN garbled \union {b} ELSE garbled
        /\ UNCHANGED crashed
     \/ /\ b \in busy
        /\ crashed' = TRUE
        /\ UNCHANGED <<writing, garbled>>
  /\ UNCHANGED <<sent, clients, closed, shown, logChan, ring, pos, loop, msg,
                 rlocked, must, handled, serveVars>>

SendOk(b) ==
  /\ loop = "fan" /\ writing = b /\ b \notin closed
  /\ writing' = NoOne
  /\ shown' = [shown EXCEPT ![b] = @ \union {msg}]
  /\ UNCHANGED <<sent, clients, closed, garbled, crashed, logChan, ring, pos,
                 loop, msg, rlocked, must, visited, handled, serveVars>>

\* Mutation of the next definition: RUnlock is forgotten.
SendFailsLocked(b) ==
  /\ loop = "fan" /\ writing = b
  /\ closed' = closed \union {b}
  /\ loop' = "failed"
  /\ UNCHANGED <<sent, clients, garbled, crashed, shown, logChan, ring, pos,
                 msg, rlocked, must, visited, writing, handled, serveVars>>

\* client.Close and RUnlock.
SendFails(b) ==
  /\ loop = "fan" /\ writing = b
  /\ closed' = closed \union {b}
  /\ loop' = "failed" /\ rlocked' = FALSE
  /\ UNCHANGED <<sent, clients, garbled, crashed, shown, logChan, ring, pos,
                 msg, must, visited, writing, handled, serveVars>>

\* Mutation of Forget: the browser is left to its ServeWS.
ForgetNot(b) ==
  /\ loop = "failed" /\ ~rlocked /\ writing = b
  /\ loop' = "fan" /\ rlocked' = TRUE /\ writing' = NoOne
  /\ UNCHANGED <<sent, clients, closed, garbled, crashed, shown, logChan, ring,
                 pos, msg, must, visited, handled, serveVars>>

\* Mutation of the next definition: the range ends with the first error.
ForgetStops(b) ==
  /\ loop = "failed" /\ ~rlocked /\ writing = b
  /\ clients' = clients \ {b}
  /\ loop' = "idle" /\ writing' = NoOne /\ msg' = Empty
  /\ must' = {} /\ visited' = {}
  /\ UNCHANGED <<sent, closed, garbled, crashed, shown, logChan, ring, pos,
                 rlocked, handled, serveVars>>

\* Lock, delete, Unlock, RLock: the range goes on over the changed map.
Forget(b) ==
  /\ loop = "failed" /\ ~rlocked /\ writing = b
  /\ clients' = clients \ {b}
  /\ loop' = "fan" /\ rlocked' = TRUE /\ writing' = NoOne
  /\ UNCHANGED <<sent, closed, garbled, crashed, shown, logChan, ring, pos, msg,
                 must, visited, handled, serveVars>>

\* The range ends: what was in the map from the beginning and still is has
\* been visited; an entry added meanwhile may or may not have been.
FanOutEnd ==
  /\ loop = "fan" /\ writing = NoOne
  /\ must \intersect clients \subseteq visited
  /\ loop' = "idle" /\ rlocked' = FALSE
  /\ msg' = Empty /\ must' = {} /\ visited' = {}
  /\ UNCHANGED <<sent, clients, closed, garbled, crashed, shown, logChan, ring,
                 pos, writing, handled, serveVars>>

----------------------------------------------------------------------------
(* ServeWS.                                                                *)

\* The upgraded connection is put into the map.
Register(b) ==
  /\ pc[b] = "new" /\ ~rlocked
  /\ clients' = clients \union {b}
  /\ pc' = [pc EXCEPT ![b] = "registered"]
  /\ since' = [since EXCEPT ![b] = Len(handled)]
  /\ UNCHANGED <<sent, closed, garbled, crashed, shown, loopVars, hist,
                 busy, died>>

ReadHistory(b) ==
  /\ pc[b] = "registered"
  /\ pc' = [pc EXCEPT ![b] = "history"]
  /\ hist' = [hist EXCEPT ![b] = GetHistory]
  /\ since' = [since EXCEPT ![b] = Oldest(@)]
  /\ UNCHANGED <<sent, clients, closed, garbled, crashed, shown, loopVars,
                 busy, died>>

\* ServeWS returns: the deferred conn.Close.
Return(b) ==
  /\ pc' = [pc EXCEPT ![b] = "gone"]
  /\ hist' = [hist EXCEPT ![b] = <<>>]
  /\ closed' = closed \union {b} /\ garbled' = garbled \ {b}
  /\ died' = [died EXCEPT ![b] = Len(handled)]
  /\ since' = [since EXCEPT ![b] = 0] /\ shown' = [shown EXCEPT ![b] = {}]
  /\ UNCHANGED <<sent, crashed, loopVars>>

\* conn.WriteMessage of the next entry; a panic is recovered by net/http.
WriteBegin(b) ==
  /\ pc[b] = "history" /\ hist[b] # <<>> /\ b \notin busy
  /\ \/ /\ busy' = busy \union {b}
        /\ garbled' = IF writing = b THEN garbled \union {b} ELSE garbled
        /\ UNCHANGED <<sent, clients, closed, crashed, shown, loopVars,
                       pc, hist, since, died>>
     \/ /\ writing = b
        /\ Return(b)
        /\ UNCHANGED <<clients, busy>>

WriteOk(b) ==
  /\ b \in busy \ closed
  /\ busy' = busy \ {b}
  /\ hist' = [hist EXCEPT ![b] = Tail(@)]
  /\ shown' = [shown EXCEPT ![b] = @ \union {Head(hist[b])}]
  /\ UNCHANGED <<sent, clients, closed, garbled, crashed, loopVars, pc,
                 since, died>>

\* The history could not be sent: return, and leave the entry in the map.
WriteFails(b) ==
  /\ b \in busy
  /\ busy' = busy \ {b}
  /\ Return(b)
  /\ UNCHANGED clients

ReadLoop(b) ==
  /\ pc[b] = "history" /\ hist[b] = <<>>
  /\ pc' = [pc EXCEPT ![b] = "reading"]
  /\ UNCHANGED <<sent, clients, closed, garbled, crashed, shown,
                 loopVars, hist, busy, since, died>>

\* The browser goes away.
Disconnect(b) ==
  /\ pc[b] \in {"registered", "history", "reading"}
  /\ b \notin closed
  /\ closed' = closed \union {b}
  /\ UNCHANGED <<sent, clients, garbled, crashed, shown, loopVars,
                 serveVars>>

ReadError(b) ==
  /\ pc[b] = "reading" /\ b \in closed
  /\ pc' = [pc EXCEPT ![b] = "leaving"]
  /\ UNCHANGED <<sent, clients, closed, garbled, crashed, shown,
                 loopVars, hist, busy, since, died>>

\* Lock, delete, Unlock, return.
Unregister(b) ==
  /\ pc[b] = "leaving" /\ ~rlocked
  /\ clients' = clients \ {b}
  /\ Return(b)
  /\ UNCHANGED busy

----------------------------------------------------------------------------
BroadcastLoop ==
  \/ Take \/ FanOutEnd
  \/ \E b \in Browser : SendBegin(b) \/ SendOk(b) \/ SendFails(b) \/ Forget(b)

ServeWS(b) ==
  \/ Register(b) \/ ReadHistory(b)
  \/ WriteBegin(b) \/ WriteOk(b) \/ WriteFails(b)
  \/ ReadLoop(b) \/ ReadError(b) \/ Unregister(b)

Step == \/ LogEvent
        \/ BroadcastLoop
        \/ \E b \in Browser : ServeWS(b) \/ Disconnect(b)

\* The panic of broadcastLoop ends the program.
LogNext == \/ ~crashed /\ Step
           \/ crashed /\ UNCHANGED logVars

\* The goroutines run, and a read of a closed connection returns.  Nothing
\* makes a write end while the connection is open: it has no deadline.
Fairness ==
  /\ WF_logVars(~crashed /\ (Take \/ FanOutEnd))
  /\ \A b \in Browser :
       /\ WF_logVars(~crashed /\ (SendBegin(b) \/ Forget(b)))
       /\ WF_logVars(~crashed /\ SendFails(b) /\ b \in closed)
       /\ WF_logVars(~crashed /\ (Register(b) \/ Unregister(b)))
       /\ WF_logVars(~crashed /\ (ReadHistory(b) \/ WriteBegin(b) \/ ReadLoop(b)))
       /\ WF_logVars(~crashed /\ WriteFails(b) /\ b \in closed)
       /\ WF_logVars(~crashed /\ ReadError(b))

LogSpec == LogInit /\ [][LogNext]_logVars /\ Fairness

----------------------------------------------------------------------------
(* Properties.                                                             *)

\* History and live stream leave no gap: a browser that is still there, on a
\* connection that never had two writers, has got every message that
\* broadcastLoop took since it was registered and the MaxLogs messages
\* before the history was read, whatever happens to the other browsers.
NothingMissed ==
  \A b \in Browser \ (closed \union garbled) :
    pc[b] = "reading" =>
      LET due == {handled[i] : i \in (since[b] + 1)..Len(handled)}
      IN  due \subseteq shown[b] \union
            (IF loop # "idle" /\ (writing = b \/ b \notin visited)
               THEN {msg} ELSE {})

\* A browser that ServeWS left in the map (its history could not be sent) is
\* removed by the next complete fan-out: none is older than the last message.
ZombiesSwept ==
  loop = "idle" =>
    \A b \in clients : pc[b] = "gone" => died[b] = Len(handled)

\* Registration and departure wait for broadcastLoop, which writes under the
\* lock: if no write to a browser lasts for ever, every browser in the read
\* loop that disconnects leaves the map and its goroutine ends.  (Those that
\* do not get as far as the read loop are the subject of ZombiesSwept.)
LeavesUnlessStalled ==
  []<>(writing = NoOne \/ loop = "failed")
    => \A b \in Browser :
         (pc[b] = "reading" /\ b \in closed)
           ~> (crashed \/ (b \notin clients /\ pc[b] = "gone"))

\* timelog.go:107-109, of the other log server, says why: the history first,
\* then the registration, or broadcastLoop may write to the connection at the
\* same time as ServeWS, and gorilla/websocket allows one writer only.
OneWriter == garbled = {} /\ ~crashed
=============================================================================
