-------------------------------- MODULE Hub --------------------------------
(***************************************************************************)
(* internal/hub/hub.go: the in-memory publish/subscribe hub, together with *)
(* the two goroutines internal/tcp/crypto_server.go runs against it for    *)
(* every authorized connection:                                            *)
(*                                                                         *)
(*   rl[c]  the read loop of connection c, which calls Subscribe once and  *)
(*          then Broadcast any number of times;                            *)
(*   sg[c]  the subscriber goroutine of c, which drains sub.C into the     *)
(*          socket and calls Unsubscribe when it ends;                     *)
(*   run    the single Run goroutine that owns the subscriber map.         *)
(*                                                                         *)
(* register, unregister and broadcast are unbuffered channels, so a send   *)
(* and Run's receive of it are one step.  Everything else interleaves: the *)
(* fan-out visits one subscriber per step, so consumers drain, connections *)
(* end and Stop is called in the middle of it.                             *)
(*                                                                         *)
(* A message is its position in log, the order in which Run took messages  *)
(* from the broadcast channel (msgCount = Len(log)).                       *)
(***************************************************************************)
EXTENDS Integers, Sequences, FiniteSets, Functions

CONSTANTS Client,    \* the connections that use the hub
          Buffer,    \* subscriberBuffer
          MaxMsg,    \* bound: messages given to the hub
          None       \* no reply in the reply channel

ASSUME BufferAssumption == Buffer \in Nat \ {0}
ASSUME MaxMsgAssumption == MaxMsg \in Nat
ASSUME ClientAssumption == IsFiniteSet(Client)

VARIABLES
  nextID,        \* Hub.nextID
  id,            \* Subscriber.id of each client, 0 before Subscribe
  subscribers,   \* Run's map, as the set of its values (keyed by id)
  subCount,      \* Hub.subCount
  acc,           \* acc[c]: every message c's channel C ever accepted
  rd,            \* rd[c]: how many of them were received from C
  wr,            \* wr[c]: how many of them were written to the socket
  closed,        \* clients whose C is closed
  since,         \* since[c]: Len(log) when c was registered
  log,           \* messages Run has taken: [from, sender]
  run,           \* control state of Run
  pend,          \* subscribers the current fan-out has still to visit
  sent,          \* BroadcastResult.Sent of the current fan-out
  delivered,     \* BroadcastResult.Delivered of the current fan-out
  reply,         \* reply[c]: contents of the reply channel of c's call
  quit,          \* the quit channel is closed
  rl, sg,        \* control states of the two goroutines of a connection
  panicked       \* a send on, or a close of, a closed channel happened

hubVars    == <<subscribers, subCount, since, log, run, pend, sent, delivered>>
chanVars   == <<acc, rd, wr, closed, panicked>>
vars == <<nextID, id, subscribers, subCount, acc, rd, wr, closed, since, log,
          run, pend, sent, delivered, reply, quit, rl, sg, panicked>>

----------------------------------------------------------------------------
\* The message the current fan-out is about.
Current == Len(log)

\* The sender id the message carries.  Mutation: it is not passed on.
SenderLost == 0
Sender == log[Current].sender

\* Free room in the buffered channel of c.
HasRoom(c) == Len(acc[c]) - rd[c] < Buffer

Init ==
  /\ nextID = 0
  /\ id = [c \in Client |-> 0]
  /\ subscribers = {} /\ subCount = 0
  /\ acc = [c \in Client |-> <<>>]
  /\ rd = [c \in Client |-> 0] /\ wr = [c \in Client |-> 0]
  /\ closed = {} /\ since = [c \in Client |-> 0]
  /\ log = <<>>
  /\ run = "select" /\ pend = {} /\ sent = {} /\ delivered = {}
  /\ reply = [c \in Client |-> None]
  /\ quit = FALSE
  /\ rl = [c \in Client |-> "idle"] /\ sg = [c \in Client |-> "none"]
  /\ panicked = FALSE

----------------------------------------------------------------------------
(* The read loop of a connection: Subscribe, Broadcast, the end.           *)

\* nextID.Add(1).  Mutation: two calls draw the same id.
SameID == 1
FreshID == nextID + 1

\* Subscribe up to its send: the id comes from an atomic counter.
Subscribe(c) ==
  /\ rl[c] = "idle"
  /\ nextID' = nextID + 1
  /\ id' = [id EXCEPT ![c] = FreshID]
  /\ rl' = [rl EXCEPT ![c] = "register"]
  /\ UNCHANGED <<hubVars, chanVars, reply, quit, sg>>

\* The map insertion: an entry with the same key would be replaced.
Inserted(c) == {d \in subscribers : id[d] # id[c]} \union {c}

\* Run receives from register; Subscribe returns and the subscriber
\* goroutine is started.  There is no quit case in Subscribe.
Register(c) ==
  /\ run = "select" /\ rl[c] = "register"
  /\ subscribers' = Inserted(c)
  /\ subCount' = subCount + 1
  /\ since' = [since EXCEPT ![c] = Len(log)]
  /\ rl' = [rl EXCEPT ![c] = "ready"]
  /\ sg' = [sg EXCEPT ![c] = "loop"]
  /\ UNCHANGED <<nextID, id, chanVars, log, run, pend, sent, delivered,
                 reply, quit>>

Pending == {c \in Client : rl[c] = "sending"}

\* Broadcast is called by the connection, with its own subscriber id.
Broadcast(c) ==
  /\ rl[c] = "ready"
  /\ Len(log) + Cardinality(Pending) < MaxMsg
  /\ rl' = [rl EXCEPT ![c] = "sending"]
  /\ UNCHANGED <<nextID, id, hubVars, chanVars, reply, quit, sg>>

\* Mutation of the next action: Delivered of the previous message is kept.
AcceptKeepsDelivered(c) ==
  /\ run = "select" /\ rl[c] = "sending"
  /\ log' = Append(log, [from |-> c, sender |-> id[c]])
  /\ run' = "fanout"
  /\ pend' = subscribers /\ sent' = {} /\ delivered' = delivered
  /\ rl' = [rl EXCEPT ![c] = "await"]
  /\ UNCHANGED <<nextID, id, subscribers, subCount, since, chanVars, reply,
                 quit, sg>>

\* Run receives from broadcast and starts the fan-out over the map.
AcceptBroadcast(c) ==
  /\ run = "select" /\ rl[c] = "sending"
  /\ log' = Append(log, [from |-> c, sender |-> id[c]])
  /\ run' = "fanout"
  /\ pend' = subscribers /\ sent' = {} /\ delivered' = {}
  /\ rl' = [rl EXCEPT ![c] = "await"]
  /\ UNCHANGED <<nextID, id, subscribers, subCount, since, chanVars, reply,
                 quit, sg>>

\* Broadcast returns the reply.
Return(c) ==
  /\ rl[c] = "await" /\ reply[c] # None
  /\ reply' = [reply EXCEPT ![c] = None]
  /\ rl' = [rl EXCEPT ![c] = "ready"]
  /\ UNCHANGED <<nextID, id, hubVars, chanVars, quit, sg>>

\* Mutation of the next action: the send to Run has no quit case.
ReturnEmptyLate(c) ==
  /\ rl[c] = "await" /\ quit
  /\ reply' = [reply EXCEPT ![c] = None]
  /\ rl' = [rl EXCEPT ![c] = "ready"]
  /\ UNCHANGED <<nextID, id, hubVars, chanVars, quit, sg>>

\* Either select of Broadcast may take the quit case; the call's own reply
\* channel is dropped with it.
ReturnEmpty(c) ==
  /\ rl[c] \in {"sending", "await"} /\ quit
  /\ reply' = [reply EXCEPT ![c] = None]
  /\ rl' = [rl EXCEPT ![c] = "ready"]
  /\ UNCHANGED <<nextID, id, hubVars, chanVars, quit, sg>>

\* The read loop ends: connDone and the socket are closed.
Disconnect(c) ==
  /\ rl[c] = "ready"
  /\ rl' = [rl EXCEPT ![c] = "gone"]
  /\ UNCHANGED <<nextID, id, hubVars, chanVars, reply, quit, sg>>

----------------------------------------------------------------------------
(* Run.                                                                    *)

\* The range over the map goes on after d.  Mutation: it may come back to d.
VisitedAgain(d) == pend
Visited(d) == pend \ {d}

\* The iteration at which the map's range yields the sender itself.
SkipSender(d) ==
  /\ run = "fanout" /\ d \in pend
  /\ id[d] = Sender
  /\ pend' = Visited(d)
  /\ UNCHANGED <<nextID, id, subscribers, subCount, since, log, run, sent,
                 delivered, chanVars, reply, quit, rl, sg>>

\* The non-blocking send.
TrySend(d) ==
  IF HasRoom(d)
    THEN /\ acc' = [acc EXCEPT ![d] = Append(@, Current)]
         /\ delivered' = delivered \union {d}
    ELSE UNCHANGED <<acc, delivered>>

\* The iteration for another subscriber.
Offer(d) ==
  /\ run = "fanout" /\ d \in pend
  /\ id[d] # Sender
  /\ pend' = Visited(d)
  /\ sent' = sent \union {d}
  /\ panicked' = (panicked \/ d \in closed)
  /\ TrySend(d)
  /\ UNCHANGED <<nextID, id, subscribers, subCount, since, log, run, rd, wr,
                 closed, reply, quit, rl, sg>>

\* The end of the fan-out: the buffered reply, if the caller still waits.
FinishBroadcast ==
  /\ run = "fanout" /\ pend = {}
  /\ run' = "select"
  /\ LET c == log[Current].from IN
       reply' = IF rl[c] = "await"
                  THEN [reply EXCEPT ![c] = [msg |-> Current, sent |-> sent,
                                             delivered |-> delivered]]
                  ELSE reply
  /\ UNCHANGED <<nextID, id, subscribers, subCount, since, log, pend, sent,
                 delivered, chanVars, quit, rl, sg>>

Stop ==
  /\ ~quit
  /\ quit' = TRUE
  /\ UNCHANGED <<nextID, id, hubVars, chanVars, reply, rl, sg>>

\* Mutation of the next action: the channels stay open.
RunQuitSilently ==
  /\ run = "select" /\ quit
  /\ run' = "stopped"
  /\ UNCHANGED <<nextID, id, subscribers, subCount, since, log, pend, sent,
                 delivered, chanVars, reply, quit, rl, sg>>

\* Run takes its quit case: every channel still in the map is closed.
RunQuit ==
  /\ run = "select" /\ quit
  /\ run' = "stopped"
  /\ panicked' = (panicked \/ subscribers \intersect closed # {})
  /\ closed' = closed \union subscribers
  /\ UNCHANGED <<nextID, id, subscribers, subCount, since, log, pend, sent,
                 delivered, acc, rd, wr, reply, quit, rl, sg>>

----------------------------------------------------------------------------
(* The subscriber goroutine of a connection.                               *)

\* A message is received from C and is about to be written.
Receive(c) ==
  /\ sg[c] = "loop" /\ rd[c] < Len(acc[c])
  /\ rd' = [rd EXCEPT ![c] = @ + 1]
  /\ sg' = [sg EXCEPT ![c] = "write"]
  /\ UNCHANGED <<nextID, id, hubVars, acc, wr, closed, panicked, reply, quit,
                 rl>>

WriteOk(c) ==
  /\ sg[c] = "write" /\ rl[c] # "gone"
  /\ wr' = [wr EXCEPT ![c] = @ + 1]
  /\ sg' = [sg EXCEPT ![c] = "loop"]
  /\ UNCHANGED <<nextID, id, hubVars, acc, rd, closed, panicked, reply, quit,
                 rl>>

\* The write fails; once the socket is closed it always does.
WriteError(c) ==
  /\ sg[c] = "write"
  /\ sg' = [sg EXCEPT ![c] = "unsub"]
  /\ UNCHANGED <<nextID, id, hubVars, chanVars, reply, quit, rl>>

\* The goroutine sees connDone.  Mutation: nobody closes connDone.
ConnDoneNever(c) == FALSE
ConnDone(c) ==
  /\ sg[c] = "loop" /\ rl[c] = "gone"
  /\ sg' = [sg EXCEPT ![c] = "unsub"]
  /\ UNCHANGED <<nextID, id, hubVars, chanVars, reply, quit, rl>>

\* The goroutine sees C closed and drained.
ChanClosed(c) ==
  /\ sg[c] = "loop" /\ c \in closed /\ rd[c] = Len(acc[c])
  /\ sg' = [sg EXCEPT ![c] = "unsub"]
  /\ UNCHANGED <<nextID, id, hubVars, chanVars, reply, quit, rl>>

\* delete(subscribers, s.id).  Mutation: it is forgotten.
RemovedNot(c) == subscribers
Removed(c) == {d \in subscribers : id[d] # id[c]}

\* Run receives from unregister.
Unregister(c) ==
  /\ run = "select" /\ sg[c] = "unsub"
  /\ IF \E d \in subscribers : id[d] = id[c]
       THEN /\ subscribers' = Removed(c)
            /\ panicked' = (panicked \/ c \in closed)
            /\ closed' = closed \union {c}
            /\ subCount' = subCount - 1
       ELSE UNCHANGED <<subscribers, panicked, closed, subCount>>
  /\ sg' = [sg EXCEPT ![c] = "done"]
  /\ UNCHANGED <<nextID, id, since, log, run, pend, sent, delivered, acc, rd,
                 wr, reply, quit, rl>>

\* Unsubscribe takes its quit case.
UnsubscribeQuit(c) ==
  /\ sg[c] = "unsub" /\ quit
  /\ sg' = [sg EXCEPT ![c] = "done"]
  /\ UNCHANGED <<nextID, id, hubVars, chanVars, reply, quit, rl>>

----------------------------------------------------------------------------
ReadLoop(c)  == \/ Subscribe(c) \/ Register(c) \/ Broadcast(c)
                \/ AcceptBroadcast(c) \/ Return(c) \/ ReturnEmpty(c)
                \/ Disconnect(c)
Writer(c)    == \/ Receive(c) \/ WriteOk(c) \/ WriteError(c) \/ ConnDone(c)
                \/ ChanClosed(c) \/ Unregister(c) \/ UnsubscribeQuit(c)
Fanout       == \/ \E d \in Client : SkipSender(d) \/ Offer(d)
                \/ FinishBroadcast

Next == \/ \E c \in Client : ReadLoop(c) \/ Writer(c)
        \/ Fanout \/ Stop \/ RunQuit

(***************************************************************************)
(* Fairness, per goroutine.  Goroutines that can run do run (WF).  A case  *)
(* of a select that is ready again and again is eventually chosen, because *)
(* Go chooses uniformly among the ready cases (SF).  Nothing forces a      *)
(* connection to subscribe, send or end, nothing forces Stop, and a write  *)
(* to a peer that does not read may block until the socket is closed.      *)
(***************************************************************************)
CallProgress(c)   == \/ Register(c) \/ AcceptBroadcast(c)
                     \/ Return(c) \/ ReturnEmpty(c)
WriterProgress(c) == \/ Receive(c) \/ ConnDone(c) \/ ChanClosed(c)
                     \/ WriteError(c) /\ rl[c] = "gone"
                     \/ Unregister(c) \/ UnsubscribeQuit(c)

Fairness ==
  /\ WF_vars(Fanout)
  /\ SF_vars(RunQuit)
  /\ \A c \in Client : SF_vars(CallProgress(c)) /\ SF_vars(WriterProgress(c))

Spec == Init /\ [][Next]_vars /\ Fairness
----------------------------------------------------------------------------
(* Properties.                                                             *)

Reply == [msg : Nat, sent : SUBSET Client, delivered : SUBSET Client]

MapTypeOK ==
  /\ nextID \in Nat /\ id \in [Client -> Nat]
  /\ subscribers \subseteq Client /\ subCount \in Int
  /\ closed \subseteq Client /\ since \in [Client -> Nat]
  /\ pend \subseteq Client /\ sent \subseteq Client /\ delivered \subseteq Client
ChanTypeOK ==
  /\ acc \in [Client -> Seq(Nat)]
  /\ rd \in [Client -> Nat] /\ wr \in [Client -> Nat]
  /\ \A c \in Client : /\ Len(acc[c]) - rd[c] \in 0..Buffer
                       /\ wr[c] <= rd[c]
                       /\ sg[c] = "write" => wr[c] < rd[c]
LogTypeOK ==
  /\ log \in Seq([from : Client, sender : Nat])
  /\ reply \in [Client -> Reply \union {None}]
ControlTypeOK ==
  /\ run \in {"select", "fanout", "stopped"}
  /\ rl \in [Client -> {"idle", "register", "ready", "sending", "await", "gone"}]
  /\ sg \in [Client -> {"none", "loop", "write", "unsub", "done"}]
FlagTypeOK == quit \in BOOLEAN /\ panicked \in BOOLEAN

\* Type invariant: every variable has its type; a channel of the hub holds
\* between 0 and subscriberBuffer messages, and what was written was
\* received before.
TypeOK == MapTypeOK /\ ChanTypeOK /\ LogTypeOK /\ ControlTypeOK /\ FlagTypeOK

\* All connections see the broadcasts in one common order: what a channel
\* accepted is a strictly increasing sequence of hub positions, all newer
\* than the subscription (Run's fan-out; nothing duplicated, reordered or
\* replayed, whatever the interleaving of consumers and connections).
CommonOrder ==
  \A c \in Client :
    /\ \A i, j \in DOMAIN acc[c] : i < j => acc[c][i] < acc[c][j]
    /\ \A i \in DOMAIN acc[c] : since[c] < acc[c][i] /\ acc[c][i] <= Len(log)

\* A message never comes back to the connection that sent it ("don't echo
\* back to the sender").
NoEcho ==
  \A c \in Client : \A i \in DOMAIN acc[c] : log[acc[c][i]].from # c

\* While a message is fanned out, nobody but its sender is left out: every
\* subscriber has been addressed or is still to be visited.  This rests on
\* the uniqueness of the ids that Subscribe draws concurrently.
EveryoneAddressed ==
  run = "fanout" =>
    (sent \union pend) \ {log[Current].from} = subscribers \ {log[Current].from}

\* The result Broadcast reports is exact: Delivered are precisely the
\* connections whose channel has accepted the message, all of them in Sent,
\* even when connections came, went or drained during the fan-out.
ReplyExact ==
  \A c \in Client : reply[c] # None =>
    /\ log[reply[c].msg].from = c
    /\ reply[c].delivered = {d \in Client : reply[c].msg \in Range(acc[d])}
    /\ reply[c].delivered \subseteq reply[c].sent

\* SubCount, which the health monitor reports, is the size of the map.
SubCountExact == subCount = Cardinality(subscribers)

\* Run never sends on a closed channel and never closes one twice, whichever
\* of Unsubscribe, a write error and Stop ends a subscription first.
NoPanic == ~panicked

\* Broadcast always returns: neither a slow consumer, nor a connection that
\* ends, nor Stop can block the connection that sends.
BroadcastReturns ==
  \A c \in Client : rl[c] \in {"sending", "await"} ~> rl[c] = "ready"

\* Subscribe returns unless the hub is stopped meanwhile.
SubscribeReturns ==
  \A c \in Client : rl[c] = "register" ~> (rl[c] = "ready" \/ quit)

\* The subscription of a connection that has ended is eventually removed and
\* its goroutine ends, also when it was blocked in a write.
DeadConnectionsLeave ==
  \A c \in Client :
    rl[c] = "gone" ~> (sg[c] = "done" /\ (c \notin subscribers \/ quit))

\* Stop "shuts down the hub and closes all subscriber channels": Run ends
\* and the channel of every connection that ever subscribed is closed.
StopClosesAll ==
  quit ~> (run = "stopped" /\ \A c \in Client : sg[c] # "none" => c \in closed)

\* The hub implements the abstract multicast.
Joined(c)  == sg[c] # "none"
Cursor(c)  == IF acc[c] = <<>> THEN since[c] ELSE acc[c][Len(acc[c])]
Abs == INSTANCE PubSub WITH
         published <- [i \in 1..Len(log) |-> log[i].from],
         member <- [c \in Client |-> IF ~Joined(c) THEN "new"
                                     ELSE IF c \in closed THEN "out" ELSE "in"],
         cursor <- [c \in Client |-> Cursor(c)],
         box <- acc

\* Refinement: every step of the hub is a step of PubSub or leaves its state
\* unchanged, so the connections may rely on PubSub alone.
ImplementsPubSub == Abs!PSSpec
=============================================================================
