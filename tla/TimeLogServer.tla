--------------------------- MODULE TimeLogServer ---------------------------
(***************************************************************************)
(* internal/web/timelog.go: the live log of heartbeats in the browser.     *)
(* Heartbeat handlers put entries into a channel, broadcastLoop keeps the  *)
(* last ones of every device in a ring and writes each to the browsers     *)
(* that watch the device, and one goroutine per browser (ServeWS) sends    *)
(* the history, registers the browser and waits until it disconnects.      *)
(*                                                                         *)
(* A section under s.mu is one step.  A write to a WebSocket is two, its   *)
(* begin and its end, since gorilla/websocket allows one writer at a time; *)
(* it fails on a closed connection, may fail on any other, and need not    *)
(* end at all while the browser does not read.  An entry is its device and *)
(* its number among the entries sent for the device.  ServeWS of a browser *)
(* is at                                                                   *)
(*   "new"      before the upgrade      "history" sending the history      *)
(*   "upgraded" history not yet read    "reading" registered, in its loop  *)
(*   "leaving"  the loop has ended      "gone"    returned, conn closed    *)
(***************************************************************************)
EXTENDS Integers, Sequences, FiniteSets, SequencesExt, Subsequences

CONSTANTS Browser, Device,
          ChanSize,   \* capacity of the channel of entries (main.go)
          Depth,      \* maxTimeLogsPerDevice
          MaxEntry,   \* bound: entries sent for each device
          Nil,        \* an empty slot of a ring
          NoDev

ASSUME DepthAssumption == Depth \in Nat \ {0}
ASSUME BoundAssumption == MaxEntry \in [Device -> Nat]

Entry == [of : Device, no : Nat]

ASSUME NilAssumption == Nil \notin Entry

VARIABLES sent,          \* entries sent per device, dropped ones included
          in,            \* the channel
          slots, pos,    \* rings: contents and current element, per device
          clients,       \* registered browsers
          todo, entry,   \* broadcastLoop: browsers left to write to, entry
          writing,       \* browsers broadcastLoop has a write to in progress
          pc, dev, hist, \* ServeWS: place, device, rest of the history
          busy,          \* browsers whose ServeWS has a write in progress
          closed,        \* connections closed by the server or the browser
          handled,       \* history variable: what broadcastLoop took
          since, shown   \* Len(handled[dev]) at registration; what was sent

vars == <<sent, in, slots, pos, clients, todo, entry, writing, pc, dev, hist,
          busy, closed, handled, since, shown>>

loopVars == <<slots, pos, todo, entry, writing, handled>>
serveVars == <<pc, dev, hist, busy, since>>

Init ==
  /\ sent = [d \in Device |-> 0]
  /\ in = <<>>
  /\ slots = [d \in Device |-> [i \in 0..(Depth - 1) |-> Nil]]
  /\ pos = [d \in Device |-> 0]
  /\ clients = {}
  /\ todo = {} /\ entry = Nil /\ writing = {}
  /\ pc = [b \in Browser |-> "new"]
  /\ dev = [b \in Browser |-> NoDev]
  /\ hist = [b \in Browser |-> <<>>]
  /\ busy = {} /\ closed = {}
  /\ handled = [d \in Device |-> <<>>]
  /\ since = [b \in Browser |-> 0]
  /\ shown = [b \in Browser |-> <<>>]

\* handleHeartbeat: each of its two entries is sent if there is room.
Log(d) ==
  /\ sent[d] < MaxEntry[d]
  /\ sent' = [sent EXCEPT ![d] = @ + 1]
  /\ in' = IF Len(in) < ChanSize
             THEN Append(in, [of |-> d, no |-> sent[d] + 1])
             ELSE in
  /\ UNCHANGED <<clients, closed, shown, loopVars, serveVars>>

----------------------------------------------------------------------------
(* The ring of a device: the current element is the oldest one.            *)

\* history: Do visits the ring from the current element on.
History(d) ==
  LET visited == [i \in 1..Depth |-> slots[d][(pos[d] + i - 1) % Depth]]
  IN  SubSeqAt(visited, {i \in 1..Depth : visited[i] # Nil})

\* r.Next()
Advance(p) == (p + 1) % Depth

----------------------------------------------------------------------------
(* broadcastLoop.                                                          *)

\* Mutation of the next definition: every browser gets every entry.
WatchersAll(d) == clients

\* The browsers copied into conns.
Watchers(d) == {b \in clients : dev[b] = d}

\* The next entry goes into its ring; the browsers to write to are copied
\* under the same lock.
Take ==
  LET e == Head(in)
      d == e.of
  IN  /\ todo = {} /\ writing = {}
      /\ in # <<>>
      /\ in' = Tail(in)
      /\ slots' = [slots EXCEPT ![d][pos[d]] = e]
      /\ pos' = [pos EXCEPT ![d] = Advance(@)]
      /\ todo' = Watchers(d)
      /\ entry' = e
      /\ handled' = [handled EXCEPT ![d] = Append(@, e)]
      /\ UNCHANGED <<sent, clients, writing, closed, shown, serveVars>>

\* conn.WriteJSON(e), without the lock.
SendBegin(b) ==
  /\ b \in todo /\ writing = {}
  /\ todo' = todo \ {b}
  /\ writing' = {b}
  /\ UNCHANGED <<sent, in, slots, pos, clients, entry, closed, handled, shown,
                 serveVars>>

SendOk(b) ==
  /\ b \in writing \ closed
  /\ writing' = {}
  /\ shown' = [shown EXCEPT ![b] = Append(@, entry)]
  /\ UNCHANGED <<sent, in, slots, pos, clients, todo, entry, closed, handled,
                 serveVars>>

\* Mutation of the next definition: the error ends the loop over conns.
SendFailsStops(b) ==
  /\ b \in writing
  /\ writing' = {} /\ todo' = {}
  /\ closed' = closed \union {b}
  /\ clients' = clients \ {b}
  /\ UNCHANGED <<sent, in, slots, pos, entry, handled, shown, serveVars>>

\* Close the connection and forget the browser; ServeWS notices later.
SendFails(b) ==
  /\ b \in writing
  /\ writing' = {}
  /\ closed' = closed \union {b}
  /\ clients' = clients \ {b}
  /\ UNCHANGED <<sent, in, slots, pos, todo, entry, handled, shown, serveVars>>

----------------------------------------------------------------------------
(* ServeWS.                                                                *)

Connect(b, d) ==
  /\ pc[b] = "new"
  /\ pc' = [pc EXCEPT ![b] = "upgraded"]
  /\ dev' = [dev EXCEPT ![b] = d]
  /\ UNCHANGED <<sent, in, clients, closed, shown, loopVars, hist, busy, since>>

ReadHistory(b) ==
  /\ pc[b] = "upgraded"
  /\ pc' = [pc EXCEPT ![b] = "history"]
  /\ hist' = [hist EXCEPT ![b] = History(dev[b])]
  /\ UNCHANGED <<sent, in, clients, closed, shown, loopVars, dev, busy, since>>

WriteBegin(b) ==
  /\ hist[b] # <<>> /\ b \notin busy
  /\ busy' = busy \union {b}
  /\ UNCHANGED <<sent, in, clients, closed, shown, loopVars, pc, dev, hist,
                 since>>

WriteOk(b) ==
  /\ b \in busy \ closed
  /\ busy' = busy \ {b}
  /\ hist' = [hist EXCEPT ![b] = Tail(@)]
  /\ shown' = [shown EXCEPT ![b] = Append(@, Head(hist[b]))]
  /\ UNCHANGED <<sent, in, clients, closed, loopVars, pc, dev, since>>

\* The history could not be sent: return, with the deferred conn.Close.
WriteFails(b) ==
  /\ b \in busy
  /\ busy' = busy \ {b}
  /\ hist' = [hist EXCEPT ![b] = <<>>]
  /\ pc' = [pc EXCEPT ![b] = "gone"]
  /\ closed' = closed \union {b}
  /\ UNCHANGED <<sent, in, clients, shown, loopVars, dev, since>>

\* Mutation of the next definition: registered first, as in LogServer.
RegisterEarly(b) ==
  /\ pc[b] = "history" /\ b \notin clients
  /\ pc' = [pc EXCEPT ![b] = IF hist[b] = <<>> THEN "reading" ELSE @]
  /\ clients' = clients \union {b}
  /\ since' = [since EXCEPT ![b] = Len(handled[dev[b]])]
  /\ UNCHANGED <<sent, in, closed, shown, loopVars, dev, hist, busy>>

Register(b) ==
  /\ pc[b] = "history" /\ hist[b] = <<>>
  /\ pc' = [pc EXCEPT ![b] = "reading"]
  /\ clients' = clients \union {b}
  /\ since' = [since EXCEPT ![b] = Len(handled[dev[b]])]
  /\ UNCHANGED <<sent, in, closed, shown, loopVars, dev, hist, busy>>

\* The browser goes away.
Disconnect(b) ==
  /\ pc[b] \in {"upgraded", "history", "reading"} /\ b \notin closed
  /\ closed' = closed \union {b}
  /\ UNCHANGED <<sent, in, clients, shown, loopVars, serveVars>>

ReadError(b) ==
  /\ pc[b] = "reading" /\ b \in closed
  /\ pc' = [pc EXCEPT ![b] = "leaving"]
  /\ UNCHANGED <<sent, in, clients, closed, shown, loopVars, dev, hist, busy,
                 since>>

\* Mutation of the next definition: broadcastLoop keeps s.mu while it writes.
UnregisterLocked(b) ==
  /\ pc[b] = "leaving"
  /\ todo = {} /\ writing = {}
  /\ pc' = [pc EXCEPT ![b] = "gone"]
  /\ clients' = clients \ {b}
  /\ UNCHANGED <<sent, in, closed, shown, loopVars, dev, hist, busy, since>>

\* delete(s.clients, conn), then the deferred conn.Close.
Unregister(b) ==
  /\ pc[b] = "leaving"
  /\ pc' = [pc EXCEPT ![b] = "gone"]
  /\ clients' = clients \ {b}
  /\ UNCHANGED <<sent, in, closed, shown, loopVars, dev, hist, busy, since>>

----------------------------------------------------------------------------
BroadcastLoop ==
  Take \/ \E b \in Browser : SendBegin(b) \/ SendOk(b) \/ SendFails(b)

ServeWS(b) ==
  \/ \E d \in Device : Connect(b, d)
  \/ ReadHistory(b) \/ WriteBegin(b) \/ WriteOk(b) \/ WriteFails(b)
  \/ Register(b) \/ ReadError(b) \/ Unregister(b)

Next == \/ \E d \in Device : Log(d)
        \/ BroadcastLoop
        \/ \E b \in Browser : ServeWS(b) \/ Disconnect(b)

\* The goroutines run, and a read of a closed connection returns.  Nothing
\* makes a write end while the connection is open: it has no deadline.
Fairness ==
  /\ WF_vars(Take)
  /\ \A b \in Browser :
       /\ WF_vars(SendBegin(b)) /\ WF_vars(SendFails(b) /\ b \in closed)
       /\ WF_vars(ReadHistory(b)) /\ WF_vars(WriteBegin(b))
       /\ WF_vars(WriteFails(b) /\ b \in closed)
       /\ WF_vars(Register(b))
       /\ WF_vars(ReadError(b)) /\ WF_vars(Unregister(b))

Spec == Init /\ [][Next]_vars /\ Fairness

----------------------------------------------------------------------------
(* Properties.                                                             *)

\* broadcastLoop and ServeWS never write to one connection at the same time:
\* a browser is registered after the last write of its history.
OneWriter == writing \intersect busy = {}

\* A browser sees entries of its own device only, each once and in the order
\* in which they were logged, over history and live stream together.
ShownInOrder ==
  \A b \in Browser : \A i \in DOMAIN shown[b] :
    /\ shown[b][i].of = dev[b]
    /\ \A j \in DOMAIN shown[b] : i < j => shown[b][i].no < shown[b][j].no

\* The history is the last Depth entries of the device, oldest first.
HistoryRecent ==
  \A d \in Device :
    LET n == Len(handled[d])
    IN  History(d) = SubSeq(handled[d],
                            IF n > Depth THEN n - Depth + 1 ELSE 1, n)

\* A new browser is offered the most recent entries, and one that stays
\* connected misses nothing that was logged after it was registered, whatever
\* happens to the other browsers.
StreamComplete ==
  /\ HistoryRecent
  /\ \A b \in clients \ closed :
       LET got == Range(shown[b])
           seq == handled[dev[b]]
           due == {seq[i] : i \in (since[b] + 1)..Len(seq)}
       IN  due \subseteq got \union (IF b \in todo \union writing
                                       THEN {entry} ELSE {})

\* A browser that disconnected leaves the map and its goroutine ends, even
\* if broadcastLoop is stuck in a write to another browser.
DisconnectedLeave ==
  \A b \in Browser : b \in closed ~> (b \notin clients /\ pc[b] = "gone")
=============================================================================
