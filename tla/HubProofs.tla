----------------------------- MODULE HubProofs -----------------------------
(***************************************************************************)
(* Proofs about Hub, for every set of connections, buffer size and number  *)
(* of messages.  The inductive invariant is built up in two layers: the    *)
(* types, and HubInv, which says how ids, map, channels and the fan-out    *)
(* that is under way hang together.                                        *)
(***************************************************************************)
EXTENDS Hub, FiniteSetTheorems, TLAPS

\* TypeOK is an invariant of the hub; in particular no channel ever holds
\* more than subscriberBuffer messages.
THEOREM TypeCorrect == Spec => []TypeOK
<1> USE DEF TypeOK, MapTypeOK, ChanTypeOK, LogTypeOK, ControlTypeOK,
            FlagTypeOK, hubVars, chanVars
<1>1. Init => TypeOK
  <2> SUFFICES ASSUME Init PROVE TypeOK
    OBVIOUS
  <2>1. MapTypeOK
    BY DEF Init
  <2>2. ChanTypeOK
    BY BufferAssumption DEF Init
  <2>3. LogTypeOK
    BY DEF Init
  <2>4. ControlTypeOK
    BY DEF Init
  <2>5. FlagTypeOK
    BY DEF Init
  <2>6. QED
    BY <2>1, <2>2, <2>3, <2>4, <2>5
<1>2. TypeOK /\ [Next]_vars => TypeOK'
  <2> SUFFICES ASSUME TypeOK, [Next]_vars PROVE TypeOK'
    OBVIOUS
  <2>1. ASSUME NEW c \in Client, Subscribe(c) PROVE TypeOK'
    <3>1. ChanTypeOK' /\ LogTypeOK'
      BY <2>1 DEF Subscribe, FreshID
    <3>2. MapTypeOK' /\ ControlTypeOK' /\ FlagTypeOK'
      BY <2>1 DEF Subscribe, FreshID
    <3>3. QED
      BY <3>1, <3>2
  <2>2. ASSUME NEW c \in Client, Register(c) PROVE TypeOK'
    <3>1. ChanTypeOK' /\ LogTypeOK'
      BY <2>2 DEF Register, Inserted
    <3>2. MapTypeOK' /\ ControlTypeOK' /\ FlagTypeOK'
      BY <2>2 DEF Register, Inserted
    <3>3. QED
      BY <3>1, <3>2
  <2>3. ASSUME NEW c \in Client, Broadcast(c) PROVE TypeOK'
    <3>1. ChanTypeOK' /\ LogTypeOK'
      BY <2>3 DEF Broadcast
    <3>2. MapTypeOK' /\ ControlTypeOK' /\ FlagTypeOK'
      BY <2>3 DEF Broadcast
    <3>3. QED
      BY <3>1, <3>2
  <2>4. ASSUME NEW c \in Client, AcceptBroadcast(c) PROVE TypeOK'
    <3>1. LogTypeOK'
      BY <2>4 DEF AcceptBroadcast
    <3>2. MapTypeOK' /\ ChanTypeOK' /\ ControlTypeOK' /\ FlagTypeOK'
      BY <2>4 DEF AcceptBroadcast
    <3>3. QED
      BY <3>1, <3>2
  <2>5. ASSUME NEW c \in Client, Return(c) PROVE TypeOK'
    <3>1. ChanTypeOK' /\ LogTypeOK'
      BY <2>5 DEF Return
    <3>2. MapTypeOK' /\ ControlTypeOK' /\ FlagTypeOK'
      BY <2>5 DEF Return
    <3>3. QED
      BY <3>1, <3>2
  <2>6. ASSUME NEW c \in Client, ReturnEmpty(c) PROVE TypeOK'
    <3>1. ChanTypeOK' /\ LogTypeOK'
      BY <2>6 DEF ReturnEmpty
    <3>2. MapTypeOK' /\ ControlTypeOK' /\ FlagTypeOK'
      BY <2>6 DEF ReturnEmpty
    <3>3. QED
      BY <3>1, <3>2
  <2>7. ASSUME NEW c \in Client, Disconnect(c) PROVE TypeOK'
    <3>1. ChanTypeOK' /\ LogTypeOK'
      BY <2>7 DEF Disconnect
    <3>2. MapTypeOK' /\ ControlTypeOK' /\ FlagTypeOK'
      BY <2>7 DEF Disconnect
    <3>3. QED
      BY <3>1, <3>2
  <2>8. ASSUME NEW c \in Client, Receive(c) PROVE TypeOK'
    <3>1. Len(acc[c]) \in Nat
      OBVIOUS
    <3>2. ASSUME NEW d \in Client
          PROVE  /\ Len(acc'[d]) - rd'[d] \in 0..Buffer
                 /\ wr'[d] <= rd'[d]
                 /\ sg'[d] = "write" => wr'[d] < rd'[d]
      <4>1. CASE d = c
        BY <2>8, <3>1, <4>1, BufferAssumption DEF Receive
      <4>2. CASE d # c
        BY <2>8, <4>2 DEF Receive
      <4>3. QED
        BY <4>1, <4>2
    <3>3. ChanTypeOK'
      BY <2>8, <3>2 DEF Receive
    <3>4. MapTypeOK' /\ LogTypeOK' /\ ControlTypeOK' /\ FlagTypeOK'
      BY <2>8 DEF Receive
    <3>5. QED
      BY <3>3, <3>4
  <2>9. ASSUME NEW c \in Client, WriteOk(c) PROVE TypeOK'
    <3>1. ChanTypeOK' /\ LogTypeOK'
      BY <2>9 DEF WriteOk
    <3>2. MapTypeOK' /\ ControlTypeOK' /\ FlagTypeOK'
      BY <2>9 DEF WriteOk
    <3>3. QED
      BY <3>1, <3>2
  <2>10. ASSUME NEW c \in Client, WriteError(c) PROVE TypeOK'
    <3>1. ChanTypeOK' /\ LogTypeOK'
      BY <2>10 DEF WriteError
    <3>2. MapTypeOK' /\ ControlTypeOK' /\ FlagTypeOK'
      BY <2>10 DEF WriteError
    <3>3. QED
      BY <3>1, <3>2
  <2>11. ASSUME NEW c \in Client, ConnDone(c) PROVE TypeOK'
    <3>1. ChanTypeOK' /\ LogTypeOK'
      BY <2>11 DEF ConnDone
    <3>2. MapTypeOK' /\ ControlTypeOK' /\ FlagTypeOK'
      BY <2>11 DEF ConnDone
    <3>3. QED
      BY <3>1, <3>2
  <2>12. ASSUME NEW c \in Client, ChanClosed(c) PROVE TypeOK'
    <3>1. ChanTypeOK' /\ LogTypeOK'
      BY <2>12 DEF ChanClosed
    <3>2. MapTypeOK' /\ ControlTypeOK' /\ FlagTypeOK'
      BY <2>12 DEF ChanClosed
    <3>3. QED
      BY <3>1, <3>2
  <2>13. ASSUME NEW c \in Client, Unregister(c) PROVE TypeOK'
    <3>1. MapTypeOK'
      <4>1. Removed(c) \subseteq Client
        BY DEF Removed
      <4>2. /\ subscribers' \subseteq Client /\ closed' \subseteq Client
            /\ subCount' \in Int
        BY <2>13, <4>1 DEF Unregister
      <4>3. QED
        BY <2>13, <4>2 DEF Unregister
    <3>2. ChanTypeOK' /\ LogTypeOK' /\ ControlTypeOK' /\ FlagTypeOK'
      BY <2>13 DEF Unregister
    <3>3. QED
      BY <3>1, <3>2
  <2>14. ASSUME NEW c \in Client, UnsubscribeQuit(c) PROVE TypeOK'
    <3>1. ChanTypeOK' /\ LogTypeOK'
      BY <2>14 DEF UnsubscribeQuit
    <3>2. MapTypeOK' /\ ControlTypeOK' /\ FlagTypeOK'
      BY <2>14 DEF UnsubscribeQuit
    <3>3. QED
      BY <3>1, <3>2
  <2>15. ASSUME NEW d \in Client, SkipSender(d) PROVE TypeOK'
    <3>1. ChanTypeOK' /\ LogTypeOK'
      BY <2>15 DEF SkipSender, Visited
    <3>2. MapTypeOK' /\ ControlTypeOK' /\ FlagTypeOK'
      BY <2>15 DEF SkipSender, Visited
    <3>3. QED
      BY <3>1, <3>2
  <2>16. ASSUME NEW d \in Client, Offer(d) PROVE TypeOK'
    <3>1. Current \in Nat
      BY DEF Current
    <3>2. acc' \in [Client -> Seq(Nat)]
      <4>1. Append(acc[d], Current) \in Seq(Nat)
        BY <3>1
      <4>2. acc' = acc \/ acc' = [acc EXCEPT ![d] = Append(@, Current)]
        BY <2>16 DEF Offer, TrySend
      <4>3. QED
        BY <4>1, <4>2
    <3>3. ASSUME NEW c \in Client PROVE Len(acc'[c]) - rd'[c] \in 0..Buffer
      <4>1. CASE c = d /\ HasRoom(d)
        <5>1. Len(acc'[c]) = Len(acc[c]) + 1
          BY <2>16, <3>1, <4>1 DEF Offer, TrySend
        <5>2. Len(acc[c]) \in Nat
          OBVIOUS
        <5>3. QED
          BY <2>16, <4>1, <5>1, <5>2, BufferAssumption DEF Offer, HasRoom
      <4>2. CASE ~(c = d /\ HasRoom(d))
        BY <2>16, <4>2 DEF Offer, TrySend
      <4>3. QED
        BY <4>1, <4>2
    <3>4. ChanTypeOK'
      BY <2>16, <3>2, <3>3 DEF Offer
    <3>5. MapTypeOK'
      BY <2>16 DEF Offer, Visited, TrySend
    <3>6. LogTypeOK' /\ ControlTypeOK' /\ FlagTypeOK'
      BY <2>16 DEF Offer
    <3>7. QED
      BY <3>4, <3>5, <3>6
  <2>17. CASE FinishBroadcast
    <3> DEFINE r == [msg |-> Current, sent |-> sent, delivered |-> delivered]
    <3>1. r \in Reply
      BY DEF Reply, Current
    <3>2. reply' \in [Client -> Reply \union {None}]
      <4> HIDE DEF r
      <4>1. reply' = reply \/ \E c : reply' = [reply EXCEPT ![c] = r]
        BY <2>17 DEF FinishBroadcast, r
      <4>2. QED
        BY <3>1, <4>1
    <3>3. LogTypeOK'
      BY <2>17, <3>2 DEF FinishBroadcast
    <3>4. MapTypeOK' /\ ChanTypeOK' /\ ControlTypeOK' /\ FlagTypeOK'
      BY <2>17 DEF FinishBroadcast
    <3>5. QED
      BY <3>3, <3>4
  <2>18. CASE Stop
    <3>1. ChanTypeOK' /\ LogTypeOK'
      BY <2>18 DEF Stop
    <3>2. MapTypeOK' /\ ControlTypeOK' /\ FlagTypeOK'
      BY <2>18 DEF Stop
    <3>3. QED
      BY <3>1, <3>2
  <2>19. CASE RunQuit
    <3>1. ChanTypeOK' /\ LogTypeOK'
      BY <2>19 DEF RunQuit
    <3>2. MapTypeOK' /\ ControlTypeOK' /\ FlagTypeOK'
      BY <2>19 DEF RunQuit
    <3>3. QED
      BY <3>1, <3>2
  <2>20. CASE UNCHANGED vars
    BY <2>20 DEF vars
  <2>21. QED
    BY <2>1, <2>2, <2>3, <2>4, <2>5, <2>6, <2>7, <2>8, <2>9, <2>10,
       <2>11, <2>12, <2>13, <2>14, <2>15, <2>16, <2>17, <2>18,
       <2>19, <2>20
       DEF Next, ReadLoop, Writer, Fanout
<1>3. QED
  BY <1>1, <1>2, PTL DEF Spec

----------------------------------------------------------------------------
(***************************************************************************)
(* The inductive invariant behind the safety properties.                   *)
(***************************************************************************)

\* Ids: drawn by Subscribe, from the counter, never twice.
IdInv ==
  /\ \A c \in Client : (id[c] = 0 <=> rl[c] = "idle") /\ id[c] <= nextID
  /\ \A c, d \in Client : id[c] # 0 /\ id[c] = id[d] => c = d

\* The map, the channels and the goroutines: a connection in the map or
\* with a closed channel has registered; as long as Run lives the map holds
\* open channels only.
MapInv ==
  /\ \A c \in Client : sg[c] # "none" <=> rl[c] \notin {"idle", "register"}
  /\ \A c \in subscribers \union closed : sg[c] # "none"
  /\ run # "stopped" => subscribers \intersect closed = {}
  /\ ~panicked

\* The fan-out: it visits current subscribers only, on behalf of a logged
\* message, which carries the id of the connection it came from.
FanInv ==
  /\ pend \subseteq subscribers
  /\ run # "fanout" => pend = {}
  /\ run = "fanout" => Len(log) > 0
  /\ \A i \in 1..Len(log) : log[i].sender = id[log[i].from] /\ id[log[i].from] # 0

\* The channels: what was accepted is older than a message that is still to
\* be offered.
OrderInv ==
  /\ \A c \in Client : since[c] <= Len(log)
  /\ \A c \in Client : sg[c] = "none" => acc[c] = <<>>
  /\ \A c \in pend : since[c] < Len(log)
  /\ \A c \in pend : \A i \in DOMAIN acc[c] : acc[c][i] < Len(log)
  /\ CommonOrder

\* The results: those waiting in a reply channel are about older messages
\* than the one fanned out, whose own result is exact so far.
ReplyInv ==
  /\ \A c \in Client : reply[c] # None =>
       /\ reply[c].msg \in 1..Len(log)
       /\ run = "fanout" => reply[c].msg < Len(log)
  /\ run = "fanout" => /\ delivered = {d \in Client : Current \in Range(acc[d])}
                       /\ delivered \subseteq sent
  /\ ReplyExact

HubInv == /\ IdInv /\ MapInv /\ FanInv /\ OrderInv
          /\ NoEcho /\ EveryoneAddressed /\ ReplyInv /\ SubCountExact


\* Elements of a sequence, and of one that was appended to.
LEMMA ElementOfSeq ==
  ASSUME NEW S, NEW s \in Seq(S), NEW i \in 1..Len(s)
  PROVE  s[i] \in S /\ DOMAIN s = 1..Len(s)
  OBVIOUS

LEMMA AppendElement ==
  ASSUME NEW s \in Seq(Nat), NEW m \in Nat, NEW i \in DOMAIN Append(s, m)
  PROVE  \/ i \in DOMAIN s /\ Append(s, m)[i] = s[i]
         \/ i = Len(s) + 1 /\ Append(s, m)[i] = m
  OBVIOUS

\* What a channel has accepted is in the log.
LEMMA AcceptedLogged ==
  ASSUME TypeOK, OrderInv, NEW c \in Client, NEW i \in DOMAIN acc[c]
  PROVE  acc[c][i] \in 1..Len(log)
<1>1. acc[c] \in Seq(Nat) /\ since[c] \in Nat /\ Len(log) \in Nat
  BY DEF TypeOK, ChanTypeOK, MapTypeOK, LogTypeOK
<1>2. acc[c][i] \in Nat
  BY <1>1, ElementOfSeq
<1>3. since[c] < acc[c][i] /\ acc[c][i] <= Len(log)
  BY DEF OrderInv, CommonOrder
<1>4. QED
  BY <1>1, <1>2, <1>3

\* What a channel has accepted after one more send.
LEMMA AppendRange ==
  ASSUME NEW s \in Seq(Nat), NEW m \in Nat
  PROVE  Range(Append(s, m)) = Range(s) \union {m}
<1>1. ASSUME NEW x \in Range(Append(s, m)) PROVE x \in Range(s) \union {m}
  BY DEF Range
<1>2. ASSUME NEW x \in Range(s) PROVE x \in Range(Append(s, m))
  <2>1. PICK i \in DOMAIN s : s[i] = x
    BY DEF Range
  <2>2. i \in DOMAIN Append(s, m) /\ Append(s, m)[i] = x
    BY <2>1
  <2>3. QED
    BY <2>2 DEF Range
<1>3. m \in Range(Append(s, m))
  <2>1. Len(s) + 1 \in DOMAIN Append(s, m) /\ Append(s, m)[Len(s) + 1] = m
    OBVIOUS
  <2>2. QED
    BY <2>1 DEF Range
<1>4. QED
  BY <1>1, <1>2, <1>3

\* A step that neither logs nor accepts a message, and at most empties reply
\* channels, keeps the results exact.
LEMMA ReplyFrame ==
  ASSUME ReplyInv, UNCHANGED <<log, acc>>, run' = "fanout" => run = "fanout",
         run' = "fanout" => UNCHANGED <<sent, delivered>>,
         \A c \in Client : reply'[c] \in {reply[c], None}
  PROVE  ReplyInv'
  BY DEF ReplyInv, ReplyExact, Current

\* The inductive step: one case per action of the hub and of the two
\* goroutines of a connection.
LEMMA HubStep == TypeOK /\ TypeOK' /\ HubInv /\ [Next]_vars => HubInv'
<1> SUFFICES ASSUME TypeOK, TypeOK', HubInv, [Next]_vars PROVE HubInv'
  OBVIOUS
<1> USE DEF TypeOK, HubInv, hubVars, chanVars
<1>1. ASSUME NEW c \in Client, Subscribe(c) PROVE HubInv'
  <2>1. IdInv'
    BY <1>1 DEF Subscribe, FreshID, IdInv, MapTypeOK, ControlTypeOK
  <2>2. MapInv'
    BY <1>1
       DEF Subscribe, FreshID, MapInv, IdInv, FanInv, MapTypeOK,
           ControlTypeOK, FlagTypeOK
  <2>3. FanInv'
    BY <1>1
       DEF Subscribe, FreshID, FanInv, IdInv, MapInv, MapTypeOK,
           LogTypeOK, ControlTypeOK
  <2>4. ReplyInv'
    BY <1>1, ReplyFrame DEF Subscribe, LogTypeOK
  <2>5. SubCountExact'
    BY <1>1
       DEF Subscribe, Current, CommonOrder, SubCountExact, IdInv,
           MapTypeOK, ControlTypeOK
  <2>6. OrderInv' /\ NoEcho' /\ EveryoneAddressed'
    BY <1>1
       DEF Subscribe, Current, CommonOrder, OrderInv, NoEcho,
           EveryoneAddressed, IdInv, MapTypeOK, ControlTypeOK
  <2>7. QED
    BY <2>1, <2>2, <2>3, <2>4, <2>5, <2>6
<1>2. ASSUME NEW c \in Client, Register(c) PROVE HubInv'
  <2>1. MapInv'
    BY <1>2
       DEF Register, Inserted, MapInv, IdInv, FanInv, MapTypeOK,
           ControlTypeOK, FlagTypeOK
  <2>2. FanInv'
    BY <1>2
       DEF Register, Inserted, FanInv, IdInv, MapInv, MapTypeOK,
           LogTypeOK, ControlTypeOK
  <2>3. OrderInv'
    BY <1>2
       DEF Register, Inserted, OrderInv, CommonOrder, FanInv, MapInv,
           MapTypeOK, ChanTypeOK, LogTypeOK, ControlTypeOK
  <2>4. EveryoneAddressed'
    BY <1>2
       DEF Register, Inserted, EveryoneAddressed, Current, FanInv,
           IdInv, MapTypeOK, LogTypeOK
  <2>5. SubCountExact'
    <3>1. IsFiniteSet(subscribers)
      BY ClientAssumption, FS_Subset DEF MapTypeOK
    <3>2. c \notin subscribers /\ Inserted(c) = subscribers \union {c}
      BY <1>2 DEF Register, Inserted, IdInv, MapInv, MapTypeOK
    <3>3. QED
      BY <1>2, <3>1, <3>2, FS_AddElement DEF Register, SubCountExact
  <2>6. ReplyInv'
    BY <1>2, ReplyFrame DEF Register, LogTypeOK
  <2>7. IdInv'
    BY <1>2
       DEF Register, Current, CommonOrder, IdInv, MapTypeOK,
           ControlTypeOK
  <2>8. NoEcho'
    BY <1>2
       DEF Register, Current, CommonOrder, NoEcho, IdInv, MapTypeOK,
           ControlTypeOK
  <2>9. QED
    BY <2>1, <2>2, <2>3, <2>4, <2>5, <2>6, <2>7, <2>8
<1>3. ASSUME NEW c \in Client, Broadcast(c) PROVE HubInv'
  <2>1. ReplyInv'
    BY <1>3, ReplyFrame DEF Broadcast, LogTypeOK
  <2>2. IdInv' /\ MapInv' /\ FanInv' /\ SubCountExact'
    BY <1>3
       DEF Broadcast, Current, CommonOrder, IdInv, MapInv, FanInv,
           SubCountExact, MapTypeOK, ControlTypeOK
  <2>3. OrderInv' /\ NoEcho' /\ EveryoneAddressed'
    BY <1>3
       DEF Broadcast, Current, CommonOrder, OrderInv, NoEcho,
           EveryoneAddressed, IdInv, MapTypeOK, ControlTypeOK
  <2>4. QED
    BY <2>1, <2>2, <2>3
<1>4. ASSUME NEW c \in Client, AcceptBroadcast(c) PROVE HubInv'
  <2>1. FanInv'
    BY <1>4
       DEF AcceptBroadcast, Current, FanInv, IdInv, MapInv, MapTypeOK,
           LogTypeOK, ControlTypeOK
  <2>2. OrderInv'
    <3>1. Len(log') = Len(log) + 1 /\ Len(log) \in Nat
      BY <1>4 DEF AcceptBroadcast, LogTypeOK
    <3>2. QED
      BY <1>4, <3>1, AcceptedLogged
         DEF AcceptBroadcast, OrderInv, CommonOrder, MapTypeOK
  <2>3. NoEcho'
    <3> SUFFICES ASSUME NEW e \in Client, NEW i \in DOMAIN acc[e]
                 PROVE  log'[acc[e][i]].from # e
      BY <1>4 DEF AcceptBroadcast, NoEcho
    <3>1. acc[e][i] \in 1..Len(log)
      BY AcceptedLogged
    <3>2. log'[acc[e][i]] = log[acc[e][i]]
      BY <1>4, <3>1 DEF AcceptBroadcast, LogTypeOK
    <3>3. QED
      BY <3>2 DEF NoEcho
  <2>4. EveryoneAddressed'
    BY <1>4
       DEF AcceptBroadcast, Current, EveryoneAddressed, FanInv, IdInv,
           MapTypeOK, LogTypeOK
  <2>5. ReplyInv'
    <3>1. Len(log') = Len(log) + 1 /\ Len(log) \in Nat
      BY <1>4 DEF AcceptBroadcast, LogTypeOK
    <3>2. ASSUME NEW e \in Client PROVE Len(log') \notin Range(acc[e])
      BY <3>1, AcceptedLogged DEF Range
    <3>3. ASSUME NEW e \in Client, reply[e] # None
          PROVE  /\ reply[e].msg \in 1..Len(log) /\ reply[e].msg < Len(log')
                 /\ log'[reply[e].msg] = log[reply[e].msg]
      BY <1>4, <3>1, <3>3 DEF AcceptBroadcast, ReplyInv, LogTypeOK
    <3>4. ReplyExact'
      BY <1>4, <3>3 DEF AcceptBroadcast, ReplyInv, ReplyExact
    <3>5. delivered' = {e \in Client : Current' \in Range(acc'[e])}
      BY <1>4, <3>2 DEF AcceptBroadcast, Current
    <3>6. QED
      BY <1>4, <3>1, <3>3, <3>4, <3>5 DEF AcceptBroadcast, ReplyInv
  <2>6. IdInv' /\ MapInv' /\ SubCountExact'
    BY <1>4
       DEF AcceptBroadcast, Current, CommonOrder, IdInv, MapInv,
           SubCountExact, MapTypeOK, ControlTypeOK
  <2>7. QED
    BY <2>1, <2>2, <2>3, <2>4, <2>5, <2>6
<1>5. ASSUME NEW c \in Client, Return(c) PROVE HubInv'
  <2>1. ReplyInv'
    BY <1>5, ReplyFrame DEF Return, LogTypeOK
  <2>2. IdInv' /\ MapInv' /\ FanInv' /\ SubCountExact'
    BY <1>5
       DEF Return, Current, CommonOrder, IdInv, MapInv, FanInv,
           SubCountExact, MapTypeOK, ControlTypeOK
  <2>3. OrderInv' /\ NoEcho' /\ EveryoneAddressed'
    BY <1>5
       DEF Return, Current, CommonOrder, OrderInv, NoEcho,
           EveryoneAddressed, IdInv, MapTypeOK, ControlTypeOK
  <2>4. QED
    BY <2>1, <2>2, <2>3
<1>6. ASSUME NEW c \in Client, ReturnEmpty(c) PROVE HubInv'
  <2>1. ReplyInv'
    BY <1>6, ReplyFrame DEF ReturnEmpty, LogTypeOK
  <2>2. IdInv' /\ MapInv' /\ FanInv' /\ SubCountExact'
    BY <1>6
       DEF ReturnEmpty, Current, CommonOrder, IdInv, MapInv, FanInv,
           SubCountExact, MapTypeOK, ControlTypeOK
  <2>3. OrderInv' /\ NoEcho' /\ EveryoneAddressed'
    BY <1>6
       DEF ReturnEmpty, Current, CommonOrder, OrderInv, NoEcho,
           EveryoneAddressed, IdInv, MapTypeOK, ControlTypeOK
  <2>4. QED
    BY <2>1, <2>2, <2>3
<1>7. ASSUME NEW c \in Client, Disconnect(c) PROVE HubInv'
  <2>1. ReplyInv'
    BY <1>7, ReplyFrame DEF Disconnect, LogTypeOK
  <2>2. IdInv' /\ MapInv' /\ FanInv' /\ SubCountExact'
    BY <1>7
       DEF Disconnect, Current, CommonOrder, IdInv, MapInv, FanInv,
           SubCountExact, MapTypeOK, ControlTypeOK
  <2>3. OrderInv' /\ NoEcho' /\ EveryoneAddressed'
    BY <1>7
       DEF Disconnect, Current, CommonOrder, OrderInv, NoEcho,
           EveryoneAddressed, IdInv, MapTypeOK, ControlTypeOK
  <2>4. QED
    BY <2>1, <2>2, <2>3
<1>8. ASSUME NEW c \in Client, Receive(c) PROVE HubInv'
  <2>1. ReplyInv'
    BY <1>8, ReplyFrame DEF Receive, LogTypeOK
  <2>2. IdInv' /\ MapInv' /\ FanInv' /\ SubCountExact'
    BY <1>8
       DEF Receive, Current, CommonOrder, IdInv, MapInv, FanInv,
           SubCountExact, MapTypeOK, ControlTypeOK
  <2>3. OrderInv' /\ NoEcho' /\ EveryoneAddressed'
    BY <1>8
       DEF Receive, Current, CommonOrder, OrderInv, NoEcho,
           EveryoneAddressed, IdInv, MapTypeOK, ControlTypeOK
  <2>4. QED
    BY <2>1, <2>2, <2>3
<1>9. ASSUME NEW c \in Client, WriteOk(c) PROVE HubInv'
  <2>1. ReplyInv'
    BY <1>9, ReplyFrame DEF WriteOk, LogTypeOK
  <2>2. IdInv' /\ MapInv' /\ FanInv' /\ SubCountExact'
    BY <1>9
       DEF WriteOk, Current, CommonOrder, IdInv, MapInv, FanInv,
           SubCountExact, MapTypeOK, ControlTypeOK
  <2>3. OrderInv' /\ NoEcho' /\ EveryoneAddressed'
    BY <1>9
       DEF WriteOk, Current, CommonOrder, OrderInv, NoEcho,
           EveryoneAddressed, IdInv, MapTypeOK, ControlTypeOK
  <2>4. QED
    BY <2>1, <2>2, <2>3
<1>10. ASSUME NEW c \in Client, WriteError(c) PROVE HubInv'
  <2>1. ReplyInv'
    BY <1>10, ReplyFrame DEF WriteError, LogTypeOK
  <2>2. IdInv' /\ MapInv' /\ FanInv' /\ SubCountExact'
    BY <1>10
       DEF WriteError, Current, CommonOrder, IdInv, MapInv, FanInv,
           SubCountExact, MapTypeOK, ControlTypeOK
  <2>3. OrderInv' /\ NoEcho' /\ EveryoneAddressed'
    BY <1>10
       DEF WriteError, Current, CommonOrder, OrderInv, NoEcho,
           EveryoneAddressed, IdInv, MapTypeOK, ControlTypeOK
  <2>4. QED
    BY <2>1, <2>2, <2>3
<1>11. ASSUME NEW c \in Client, ConnDone(c) PROVE HubInv'
  <2>1. ReplyInv'
    BY <1>11, ReplyFrame DEF ConnDone, LogTypeOK
  <2>2. IdInv' /\ MapInv' /\ FanInv' /\ SubCountExact'
    BY <1>11
       DEF ConnDone, Current, CommonOrder, IdInv, MapInv, FanInv,
           SubCountExact, MapTypeOK, ControlTypeOK
  <2>3. OrderInv' /\ NoEcho' /\ EveryoneAddressed'
    BY <1>11
       DEF ConnDone, Current, CommonOrder, OrderInv, NoEcho,
           EveryoneAddressed, IdInv, MapTypeOK, ControlTypeOK
  <2>4. QED
    BY <2>1, <2>2, <2>3
<1>12. ASSUME NEW c \in Client, ChanClosed(c) PROVE HubInv'
  <2>1. ReplyInv'
    BY <1>12, ReplyFrame DEF ChanClosed, LogTypeOK
  <2>2. IdInv' /\ MapInv' /\ FanInv' /\ SubCountExact'
    BY <1>12
       DEF ChanClosed, Current, CommonOrder, IdInv, MapInv, FanInv,
           SubCountExact, MapTypeOK, ControlTypeOK
  <2>3. OrderInv' /\ NoEcho' /\ EveryoneAddressed'
    BY <1>12
       DEF ChanClosed, Current, CommonOrder, OrderInv, NoEcho,
           EveryoneAddressed, IdInv, MapTypeOK, ControlTypeOK
  <2>4. QED
    BY <2>1, <2>2, <2>3
<1>13. ASSUME NEW c \in Client, Unregister(c) PROVE HubInv'
  <2>1. MapInv'
    BY <1>13
       DEF Unregister, Removed, MapInv, IdInv, FanInv, MapTypeOK,
           ControlTypeOK, FlagTypeOK
  <2>2. FanInv'
    BY <1>13
       DEF Unregister, Removed, FanInv, IdInv, MapInv, MapTypeOK,
           LogTypeOK, ControlTypeOK
  <2>3. EveryoneAddressed'
    BY <1>13
       DEF Unregister, Removed, EveryoneAddressed, Current, FanInv,
           IdInv, MapTypeOK, LogTypeOK
  <2>4. SubCountExact'
    <3>1. IsFiniteSet(subscribers)
      BY ClientAssumption, FS_Subset DEF MapTypeOK
    <3>2. Removed(c) = subscribers \ {c}
      BY <1>13 DEF Unregister, Removed, IdInv, MapInv, MapTypeOK
    <3>3. (\E d \in subscribers : id[d] = id[c]) <=> c \in subscribers
      BY <1>13 DEF Unregister, IdInv, MapInv, MapTypeOK
    <3>4. QED
      BY <1>13, <3>1, <3>2, <3>3, FS_RemoveElement
         DEF Unregister, SubCountExact, MapTypeOK
  <2>5. ReplyInv'
    BY <1>13, ReplyFrame DEF Unregister, LogTypeOK
  <2>6. IdInv'
    BY <1>13
       DEF Unregister, Current, CommonOrder, IdInv, MapTypeOK,
           ControlTypeOK
  <2>7. OrderInv' /\ NoEcho'
    BY <1>13
       DEF Unregister, Current, CommonOrder, OrderInv, NoEcho, IdInv,
           MapTypeOK, ControlTypeOK
  <2>8. QED
    BY <2>1, <2>2, <2>3, <2>4, <2>5, <2>6, <2>7
<1>14. ASSUME NEW c \in Client, UnsubscribeQuit(c) PROVE HubInv'
  <2>1. ReplyInv'
    BY <1>14, ReplyFrame DEF UnsubscribeQuit, LogTypeOK
  <2>2. IdInv' /\ MapInv' /\ FanInv' /\ SubCountExact'
    BY <1>14
       DEF UnsubscribeQuit, Current, CommonOrder, IdInv, MapInv,
           FanInv, SubCountExact, MapTypeOK, ControlTypeOK
  <2>3. OrderInv' /\ NoEcho' /\ EveryoneAddressed'
    BY <1>14
       DEF UnsubscribeQuit, Current, CommonOrder, OrderInv, NoEcho,
           EveryoneAddressed, IdInv, MapTypeOK, ControlTypeOK
  <2>4. QED
    BY <2>1, <2>2, <2>3
<1>15. ASSUME NEW d \in Client, SkipSender(d) PROVE HubInv'
  <2>1. FanInv'
    BY <1>15
       DEF SkipSender, Visited, Sender, Current, FanInv, IdInv, MapInv,
           MapTypeOK, LogTypeOK, ControlTypeOK
  <2>2. OrderInv'
    BY <1>15
       DEF SkipSender, Visited, Sender, Current, OrderInv, CommonOrder,
           FanInv, MapInv, MapTypeOK, ChanTypeOK, LogTypeOK,
           ControlTypeOK
  <2>3. EveryoneAddressed'
    <3>1. d = log[Current].from
      <4>1. Current \in 1..Len(log)
        BY <1>15 DEF SkipSender, FanInv, Current, LogTypeOK
      <4>2. log[Current].from \in Client
        <5>1. log[Current] \in [from : Client, sender : Nat]
          BY <4>1, ElementOfSeq DEF LogTypeOK
        <5>2. QED
          BY <5>1
      <4>3. QED
        BY <1>15, <4>1, <4>2 DEF SkipSender, Sender, FanInv, IdInv
    <3>2. QED
      BY <1>15, <3>1 DEF SkipSender, Visited, EveryoneAddressed, Current
  <2>4. ReplyInv'
    BY <1>15, ReplyFrame DEF SkipSender, LogTypeOK
  <2>5. IdInv' /\ MapInv' /\ SubCountExact'
    BY <1>15
       DEF SkipSender, Current, CommonOrder, IdInv, MapInv,
           SubCountExact, MapTypeOK, ControlTypeOK
  <2>6. NoEcho'
    BY <1>15
       DEF SkipSender, Current, CommonOrder, NoEcho, IdInv, MapTypeOK,
           ControlTypeOK
  <2>7. QED
    BY <2>1, <2>2, <2>3, <2>4, <2>5, <2>6
<1>16. ASSUME NEW d \in Client, Offer(d) PROVE HubInv'
  <2>1. MapInv'
    BY <1>16
       DEF Offer, Visited, Sender, Current, TrySend, MapInv, IdInv,
           FanInv, MapTypeOK, ControlTypeOK, FlagTypeOK
  <2>2. FanInv'
    BY <1>16
       DEF Offer, Visited, Sender, Current, TrySend, FanInv, IdInv,
           MapInv, MapTypeOK, LogTypeOK, ControlTypeOK
  <2>3. OrderInv'
    <3>1. CASE HasRoom(d)
      <4>1. /\ acc' = [acc EXCEPT ![d] = Append(acc[d], Len(log))]
            /\ Len(log) \in Nat /\ acc[d] \in Seq(Nat)
        BY <1>16, <3>1 DEF Offer, TrySend, Current, LogTypeOK, ChanTypeOK
      <4>2. ASSUME NEW i \in DOMAIN acc'[d]
            PROVE  \/ i \in DOMAIN acc[d] /\ acc'[d][i] = acc[d][i]
                   \/ i = Len(acc[d]) + 1 /\ acc'[d][i] = Len(log)
        BY <4>1, AppendElement DEF ChanTypeOK
      <4>3. since[d] < Len(log) /\ \A i \in DOMAIN acc[d] : acc[d][i] < Len(log)
        BY <1>16 DEF Offer, OrderInv
      <4>4. /\ \A i, j \in DOMAIN acc'[d] : i < j => acc'[d][i] < acc'[d][j]
            /\ \A i \in DOMAIN acc'[d] :
                 since[d] < acc'[d][i] /\ acc'[d][i] <= Len(log)
        <5>1. /\ since[d] \in Nat /\ DOMAIN acc[d] = 1..Len(acc[d])
              /\ \A i \in DOMAIN acc[d] : acc[d][i] \in Nat
          BY <4>1, ElementOfSeq DEF MapTypeOK
        <5>2. /\ \A i, j \in DOMAIN acc[d] : i < j => acc[d][i] < acc[d][j]
              /\ \A i \in DOMAIN acc[d] : since[d] < acc[d][i]
          BY DEF OrderInv, CommonOrder
        <5>3. Len(acc[d]) \in Nat
          BY <4>1
        <5> HIDE DEF TypeOK, HubInv
        <5>4. ASSUME NEW i \in DOMAIN acc'[d]
              PROVE  since[d] < acc'[d][i] /\ acc'[d][i] <= Len(log)
          BY <4>1, <4>2, <4>3, <5>1, <5>2
        <5>5. ASSUME NEW i \in DOMAIN acc'[d], NEW j \in DOMAIN acc'[d], i < j
              PROVE  acc'[d][i] < acc'[d][j]
          <6>1. CASE j \in DOMAIN acc[d] /\ acc'[d][j] = acc[d][j]
            BY <4>2, <5>1, <5>2, <5>3, <5>5, <6>1
          <6>2. CASE j = Len(acc[d]) + 1 /\ acc'[d][j] = Len(log)
            BY <4>2, <4>3, <5>1, <5>3, <5>5, <6>2
          <6>3. QED
            BY <4>2, <6>1, <6>2
        <5>6. QED
          BY <5>4, <5>5
      <4>5. \A e \in Client \ {d} : acc'[e] = acc[e]
        BY <4>1 DEF ChanTypeOK
      <4>6. CommonOrder'
        BY <1>16, <4>4, <4>5 DEF Offer, OrderInv, CommonOrder
      <4>7. sg[d] # "none"
        BY <1>16 DEF Offer, FanInv, MapInv
      <4>8. QED
        BY <1>16, <4>5, <4>6, <4>7 DEF Offer, Visited, OrderInv, MapTypeOK
    <3>2. CASE ~HasRoom(d)
      BY <1>16, <3>2 DEF Offer, TrySend, Visited, OrderInv, CommonOrder
    <3>3. QED
      BY <3>1, <3>2
  <2>4. NoEcho'
    <3>1. CASE HasRoom(d)
      <4>1. acc' = [acc EXCEPT ![d] = Append(acc[d], Current)]
        BY <1>16, <3>1 DEF Offer, TrySend
      <4>2. log[Current].from # d
        BY <1>16 DEF Offer, Sender, FanInv, Current, LogTypeOK
      <4>3. ASSUME NEW i \in DOMAIN acc'[d]
            PROVE  \/ i \in DOMAIN acc[d] /\ acc'[d][i] = acc[d][i]
                   \/ acc'[d][i] = Current
        <5>1. acc'[d] = Append(acc[d], Current) /\ acc[d] \in Seq(Nat)
          BY <4>1 DEF ChanTypeOK
        <5>2. Current \in Nat
          BY DEF Current, LogTypeOK
        <5>3. QED
          BY <5>1, <5>2, AppendElement
      <4>4. \A e \in Client \ {d} : acc'[e] = acc[e]
        BY <4>1 DEF ChanTypeOK
      <4>5. QED
        BY <1>16, <4>2, <4>3, <4>4 DEF Offer, NoEcho
    <3>2. CASE ~HasRoom(d)
      BY <1>16, <3>2 DEF Offer, TrySend, NoEcho
    <3>3. QED
      BY <3>1, <3>2
  <2>5. EveryoneAddressed'
    BY <1>16
       DEF Offer, Visited, Sender, Current, TrySend, EveryoneAddressed,
           FanInv, IdInv, MapTypeOK, LogTypeOK
  <2>6. ReplyInv'
    <3>1. CASE HasRoom(d)
      <4>1. /\ acc' = [acc EXCEPT ![d] = Append(acc[d], Current)]
            /\ delivered' = delivered \union {d} /\ sent' = sent \union {d}
            /\ Current \in Nat /\ acc[d] \in Seq(Nat)
        BY <1>16, <3>1 DEF Offer, TrySend, Current, LogTypeOK, ChanTypeOK
      <4>2. Range(acc'[d]) = Range(acc[d]) \union {Current}
        <5>1. acc'[d] = Append(acc[d], Current)
          BY <4>1 DEF ChanTypeOK
        <5>2. QED
          BY <4>1, <5>1, AppendRange
      <4>3. \A e \in Client \ {d} : acc'[e] = acc[e]
        BY <4>1 DEF ChanTypeOK
      <4>4. delivered' = {e \in Client : Current' \in Range(acc'[e])}
        BY <1>16, <4>1, <4>2, <4>3 DEF Offer, ReplyInv, Current
      <4>5. ASSUME NEW e \in Client, reply[e] # None
            PROVE  {x \in Client : reply[e].msg \in Range(acc'[x])}
                     = {x \in Client : reply[e].msg \in Range(acc[x])}
        <5>1. reply[e].msg # Current
          BY <1>16, <4>1, <4>5 DEF Offer, ReplyInv, Current
        <5>2. QED
          BY <4>2, <4>3, <5>1
      <4>6. ReplyExact'
        BY <1>16, <4>5 DEF Offer, ReplyInv, ReplyExact
      <4>7. delivered' \subseteq sent'
        BY <1>16, <4>1 DEF Offer, ReplyInv
      <4>8. QED
        BY <1>16, <4>4, <4>6, <4>7 DEF Offer, ReplyInv
    <3>2. CASE ~HasRoom(d)
      <4>1. UNCHANGED <<acc, delivered, log, run, reply>>
        BY <1>16, <3>2 DEF Offer, TrySend
      <4>2. sent \subseteq sent' /\ run = "fanout"
        BY <1>16 DEF Offer
      <4>3. QED
        BY <4>1, <4>2 DEF ReplyInv, ReplyExact, Current
    <3>3. QED
      BY <3>1, <3>2
  <2>7. IdInv' /\ SubCountExact'
    BY <1>16
       DEF Offer, Current, CommonOrder, IdInv, SubCountExact,
           MapTypeOK, ControlTypeOK
  <2>8. QED
    BY <2>1, <2>2, <2>3, <2>4, <2>5, <2>6, <2>7
<1>17. CASE FinishBroadcast
  <2>1. ReplyInv'
    <3> DEFINE f == log[Current].from
               r == [msg |-> Current, sent |-> sent, delivered |-> delivered]
    <3>1. Current \in 1..Len(log)
      BY <1>17 DEF FinishBroadcast, FanInv, Current, LogTypeOK
    <3>2. /\ run = "fanout" /\ run' = "select" /\ UNCHANGED <<log, acc>>
          /\ reply' = reply \/ reply' = [reply EXCEPT ![f] = r]
      BY <1>17 DEF FinishBroadcast
    <3>3. /\ r.msg = Current /\ r.sent = sent /\ r.delivered = delivered
      OBVIOUS
    <3>4. /\ r.delivered = {e \in Client : r.msg \in Range(acc[e])}
          /\ r.delivered \subseteq r.sent
      BY <3>2, <3>3 DEF ReplyInv
    <3>5. ASSUME NEW e \in Client
          PROVE  reply'[e] = reply[e] \/ (e = f /\ reply'[e] = r)
      <4>1. reply \in [Client -> Reply \union {None}]
        BY DEF LogTypeOK
      <4> HIDE DEF r, f, TypeOK, HubInv
      <4>2. CASE e = f
        BY <3>2, <4>1, <4>2
      <4>3. CASE e # f
        BY <3>2, <4>1, <4>3
      <4>4. QED
        BY <4>2, <4>3
    <3>6. ASSUME NEW e \in Client, reply'[e] # None
          PROVE  /\ reply'[e].msg \in 1..Len(log)
                 /\ log[reply'[e].msg].from = e
                 /\ reply'[e].delivered
                      = {x \in Client : reply'[e].msg \in Range(acc[x])}
                 /\ reply'[e].delivered \subseteq reply'[e].sent
      <4>1. CASE reply'[e] = reply[e]
        BY <3>6, <4>1 DEF ReplyInv, ReplyExact
      <4>2. CASE e = f /\ reply'[e] = r
        <5>1. log[r.msg].from = e /\ r.msg \in 1..Len(log)
          BY <3>1, <3>3, <4>2
        <5> HIDE DEF r
        <5>2. QED
          BY <3>4, <4>2, <5>1
      <4>3. QED
        BY <3>5, <4>1, <4>2
    <3>7. QED
      BY <3>2, <3>6 DEF ReplyInv, ReplyExact
  <2>2. IdInv' /\ MapInv' /\ FanInv' /\ SubCountExact'
    BY <1>17
       DEF FinishBroadcast, Current, CommonOrder, IdInv, MapInv,
           FanInv, SubCountExact, MapTypeOK, ControlTypeOK
  <2>3. OrderInv' /\ NoEcho' /\ EveryoneAddressed'
    BY <1>17
       DEF FinishBroadcast, Current, CommonOrder, OrderInv, NoEcho,
           EveryoneAddressed, IdInv, MapTypeOK, ControlTypeOK
  <2>4. QED
    BY <2>1, <2>2, <2>3
<1>18. CASE Stop
  <2>1. ReplyInv'
    BY <1>18, ReplyFrame DEF Stop, LogTypeOK
  <2>2. IdInv' /\ MapInv' /\ FanInv' /\ SubCountExact'
    BY <1>18
       DEF Stop, Current, CommonOrder, IdInv, MapInv, FanInv,
           SubCountExact, MapTypeOK, ControlTypeOK
  <2>3. OrderInv' /\ NoEcho' /\ EveryoneAddressed'
    BY <1>18
       DEF Stop, Current, CommonOrder, OrderInv, NoEcho,
           EveryoneAddressed, IdInv, MapTypeOK, ControlTypeOK
  <2>4. QED
    BY <2>1, <2>2, <2>3
<1>19. CASE RunQuit
  <2>1. MapInv'
    BY <1>19
       DEF RunQuit, MapInv, IdInv, FanInv, MapTypeOK, ControlTypeOK,
           FlagTypeOK
  <2>2. ReplyInv'
    BY <1>19, ReplyFrame DEF RunQuit, LogTypeOK
  <2>3. IdInv' /\ FanInv' /\ SubCountExact'
    BY <1>19
       DEF RunQuit, Current, CommonOrder, IdInv, FanInv, SubCountExact,
           MapTypeOK, ControlTypeOK
  <2>4. OrderInv' /\ NoEcho' /\ EveryoneAddressed'
    BY <1>19
       DEF RunQuit, Current, CommonOrder, OrderInv, NoEcho,
           EveryoneAddressed, IdInv, MapTypeOK, ControlTypeOK
  <2>5. QED
    BY <2>1, <2>2, <2>3, <2>4
<1>20. CASE UNCHANGED vars
  <2>1. ReplyInv'
    BY <1>20, ReplyFrame DEF vars, LogTypeOK
  <2>2. IdInv' /\ MapInv' /\ FanInv' /\ SubCountExact'
    BY <1>20
       DEF vars, Current, CommonOrder, IdInv, MapInv, FanInv,
           SubCountExact, MapTypeOK, ControlTypeOK
  <2>3. OrderInv' /\ NoEcho' /\ EveryoneAddressed'
    BY <1>20
       DEF vars, Current, CommonOrder, OrderInv, NoEcho,
           EveryoneAddressed, IdInv, MapTypeOK, ControlTypeOK
  <2>4. QED
    BY <2>1, <2>2, <2>3
<1>21. QED
  BY <1>1, <1>2, <1>3, <1>4, <1>5, <1>6, <1>7, <1>8, <1>9, <1>10,
     <1>11, <1>12, <1>13, <1>14, <1>15, <1>16, <1>17, <1>18, <1>19, <1>20
     DEF Next, ReadLoop, Writer, Fanout

\* HubInv is an invariant of the hub.
THEOREM HubInvariant == Spec => []HubInv
<1>1. Init => HubInv
  <2> SUFFICES ASSUME Init PROVE HubInv
    OBVIOUS
  <2>1. IdInv /\ MapInv /\ FanInv
    BY DEF Init, IdInv, MapInv, FanInv
  <2>2. OrderInv /\ NoEcho /\ EveryoneAddressed
    BY DEF Init, OrderInv, CommonOrder, NoEcho, EveryoneAddressed
  <2>3. ReplyInv
    BY DEF Init, ReplyInv, ReplyExact
  <2>4. SubCountExact
    BY FS_EmptySet DEF Init, SubCountExact
  <2>5. QED
    BY <2>1, <2>2, <2>3, <2>4 DEF HubInv
<1>2. QED
  BY <1>1, TypeCorrect, HubStep, PTL DEF Spec

\* Broadcasts reach every connection in one common order, once, and only
\* those newer than its subscription.
THEOREM OrderSafe == Spec => []CommonOrder
<1>1. HubInv => CommonOrder
  BY DEF HubInv, OrderInv
<1>2. QED
  BY <1>1, HubInvariant, PTL

\* No connection gets its own message back.
THEOREM EchoSafe == Spec => []NoEcho
<1>1. HubInv => NoEcho
  BY DEF HubInv
<1>2. QED
  BY <1>1, HubInvariant, PTL

\* A fan-out leaves out nobody but the sender.
THEOREM AddressedSafe == Spec => []EveryoneAddressed
<1>1. HubInv => EveryoneAddressed
  BY DEF HubInv
<1>2. QED
  BY <1>1, HubInvariant, PTL

\* The delivery result Broadcast returns is exact.
THEOREM ReplySafe == Spec => []ReplyExact
<1>1. HubInv => ReplyExact
  BY DEF HubInv, ReplyInv
<1>2. QED
  BY <1>1, HubInvariant, PTL

\* SubCount is the number of subscribers.
THEOREM SubCountSafe == Spec => []SubCountExact
<1>1. HubInv => SubCountExact
  BY DEF HubInv
<1>2. QED
  BY <1>1, HubInvariant, PTL

\* Run never sends on a closed channel nor closes one twice.
THEOREM PanicSafe == Spec => []NoPanic
<1>1. HubInv => NoPanic
  BY DEF HubInv, MapInv, NoPanic
<1>2. QED
  BY <1>1, HubInvariant, PTL

----------------------------------------------------------------------------
(* The hub implements PubSub.  Members are the connections with an open    *)
(* channel, a message is published when Run takes it, and delivered when a *)
(* channel accepts it.                                                     *)

\* The state of PubSub that a state of the hub stands for.
Published == [i \in 1..Len(log) |-> log[i].from]
Membership(c) == IF ~Joined(c) THEN "new" ELSE IF c \in closed THEN "out" ELSE "in"
Member == [c \in Client |-> Membership(c)]
Cursors == [c \in Client |-> Cursor(c)]

LEMMA PublishedSeq ==
  ASSUME TypeOK
  PROVE  Published \in Seq(Client) /\ Len(Published) = Len(log)
<1>1. log \in Seq([from : Client, sender : Nat]) /\ Len(log) \in Nat
  BY DEF TypeOK, LogTypeOK
<1>2. \A i \in 1..Len(log) : log[i].from \in Client
  <2>1. PICK R : R = [from : Client, sender : Nat]
    OBVIOUS
  <2>2. \A i \in 1..Len(log) : log[i] \in R
    BY <1>1, <2>1, ElementOfSeq
  <2>3. QED
    BY <2>1, <2>2
<1>3. QED
  BY <1>1, <1>2 DEF Published

\* Steps that publish and deliver nothing, and by which nobody joins or
\* leaves.
LEMMA Stutters ==
  ASSUME UNCHANGED <<log, acc, since, closed>>,
         \A c \in Client : sg'[c] = "none" <=> sg[c] = "none"
  PROVE  UNCHANGED Abs!psVars
<1>1. UNCHANGED <<Published, acc>>
  BY DEF Published
<1>2. \A c \in Client : Membership(c)' = Membership(c) /\ Cursor(c)' = Cursor(c)
  BY DEF Membership, Joined, Cursor
<1>3. UNCHANGED <<Member, Cursors>>
  BY <1>2 DEF Member, Cursors
<1>4. QED
  BY <1>1, <1>3 DEF Abs!psVars, Published, Member, Membership, Cursors

LEMMA RegisterJoins ==
  ASSUME TypeOK, HubInv, NEW c \in Client, Register(c)
  PROVE  Abs!Join(c)
<1>1. sg[c] = "none" /\ c \notin closed /\ acc[c] = <<>>
  BY DEF Register, HubInv, MapInv, OrderInv
<1>2. /\ since'[c] = Len(log) /\ sg'[c] = "loop"
      /\ \A d \in Client : d # c => since'[d] = since[d] /\ sg'[d] = sg[d]
      /\ UNCHANGED <<log, acc, closed>>
  BY DEF Register, chanVars, TypeOK, MapTypeOK, ControlTypeOK
<1>3. Membership(c) = "new" /\ Membership(c)' = "in" /\ Cursor(c)' = Len(log)
  BY <1>1, <1>2 DEF Membership, Joined, Cursor
<1>4. \A d \in Client : d # c => Membership(d)' = Membership(d) /\ Cursor(d)' = Cursor(d)
  BY <1>2 DEF Membership, Joined, Cursor
<1>5. Member' = [Member EXCEPT ![c] = "in"] /\ Member[c] = "new"
  BY <1>3, <1>4 DEF Member
<1>6. Cursors' = [Cursors EXCEPT ![c] = Len(Published)]
  BY <1>3, <1>4, PublishedSeq DEF Cursors
<1>7. UNCHANGED <<Published, acc>>
  BY <1>2 DEF Published
<1>8. QED
  BY <1>5, <1>6, <1>7 DEF Abs!Join, Published, Member, Membership, Cursors

LEMMA AcceptPublishes ==
  ASSUME TypeOK, HubInv, NEW c \in Client, AcceptBroadcast(c)
  PROVE  Abs!Publish(c)
<1>1. sg[c] # "none" /\ UNCHANGED <<acc, since, closed, sg>>
  BY DEF AcceptBroadcast, chanVars, HubInv, MapInv
<1>2. UNCHANGED <<Member, Cursors>>
  BY <1>1 DEF Member, Membership, Joined, Cursors, Cursor
<1>3. Member[c] # "new"
  BY <1>1 DEF Member, Membership, Joined
<1>4. Published' = Append(Published, c)
  <2>1. PICK n \in Nat : n = Len(log) /\ Len(log') = n + 1
    BY DEF AcceptBroadcast, TypeOK, LogTypeOK
  <2>2. log'[n + 1].from = c /\ \A i \in 1..n : log'[i] = log[i]
    BY <2>1 DEF AcceptBroadcast, TypeOK, LogTypeOK
  <2>3. Published' = [i \in 1..(n + 1) |-> IF i = n + 1 THEN c ELSE log[i].from]
    BY <2>1, <2>2 DEF Published
  <2>4. Append(Published, c) = [i \in 1..(n + 1) |-> IF i = n + 1 THEN c ELSE Published[i]]
    <3>1. PICK p \in Seq(Client) : p = Published /\ Len(p) = n
      BY <2>1, PublishedSeq
    <3>2. PICK q \in Seq(Client) : q = Append(p, c) /\ Len(q) = n + 1
      <4>1. Append(p, c) \in Seq(Client) /\ Len(Append(p, c)) = Len(p) + 1
        OBVIOUS
      <4>2. QED
        BY <3>1, <4>1, Zenon
    <3>3. q \in [1..(n + 1) -> Client]
      <4>1. q \in [1..Len(q) -> Client]
        OBVIOUS
      <4>2. QED
        BY <3>2, <4>1, Zenon
    <3>4. q[n + 1] = c /\ \A i \in 1..(n + 1) : i # n + 1 => q[i] = p[i]
      BY <3>1, <3>2
    <3>5. q = [i \in 1..(n + 1) |-> IF i = n + 1 THEN c ELSE p[i]]
      BY <3>3, <3>4
    <3>6. QED
      BY <3>1, <3>2, <3>5
  <2>5. \A i \in 1..(n + 1) : i # n + 1 => Published[i] = log[i].from
    BY <2>1 DEF Published
  <2>6. QED
    BY <2>3, <2>4, <2>5
<1>5. QED
  BY <1>1, <1>2, <1>3, <1>4
     DEF Abs!Publish, Published, Member, Membership, Cursors

\* A send that finds no room is a loss, which PubSub does not see.
LEMMA OfferDelivers ==
  ASSUME TypeOK, HubInv, NEW d \in Client, Offer(d)
  PROVE  Abs!Deliver(d) \/ UNCHANGED Abs!psVars
<1>1. CASE ~HasRoom(d)
  BY <1>1, Stutters DEF Offer, TrySend
<1>2. CASE HasRoom(d)
  <2>1. PICK n \in Nat : n = Len(log) /\ n >= 1 /\ n = Len(Published)
    BY PublishedSeq DEF Offer, HubInv, FanInv, TypeOK, LogTypeOK
  <2>2. Membership(d) = "in"
    BY DEF Offer, HubInv, FanInv, MapInv, Membership, Joined
  <2>3. Published[n] # d
    <3>1. log[n].sender = id[log[n].from]
      BY <2>1 DEF HubInv, FanInv
    <3>2. log[n].from # d
      BY <2>1, <3>1 DEF Offer, Sender, Current
    <3>3. QED
      BY <2>1, <3>2 DEF Published
  <2>4. PICK s \in Seq(Nat) : s = acc[d]
    BY DEF TypeOK, ChanTypeOK
  <2>5. Cursor(d) < n
    <3>1. d \in pend /\ since[d] < n /\ \A i \in DOMAIN s : s[i] < n
      BY <2>1, <2>4 DEF Offer, HubInv, OrderInv
    <3>2. s # <<>> => Len(s) \in DOMAIN s
      BY <2>4
    <3>3. QED
      BY <2>4, <3>1, <3>2 DEF Cursor
  <2>6. /\ acc' = [acc EXCEPT ![d] = Append(@, n)]
        /\ UNCHANGED <<since, closed, sg, log>>
    BY <1>2, <2>1 DEF Offer, TrySend, Current
  <2>7. acc'[d] = Append(s, n) /\ \A c \in Client : c # d => acc'[c] = acc[c]
    BY <2>4, <2>6 DEF TypeOK, ChanTypeOK
  <2>8. Cursor(d)' = n
    <3>1. Append(s, n) # <<>> /\ Append(s, n)[Len(Append(s, n))] = n
      BY <2>4
    <3>2. QED
      BY <2>7, <3>1 DEF Cursor
  <2>9. Cursors[d] < n /\ Cursors' = [Cursors EXCEPT ![d] = n]
    <3>1. \A c \in Client : c # d => Cursor(c)' = Cursor(c)
      BY <2>6, <2>7 DEF Cursor
    <3>2. QED
      BY <2>5, <2>8, <3>1 DEF Cursors
  <2>10. UNCHANGED <<Published, Member>> /\ Member[d] = "in"
    BY <2>2, <2>6 DEF Published, Member, Membership, Joined
  <2>11. Abs!Deliver(d)
    BY <2>1, <2>3, <2>6, <2>9, <2>10
       DEF Abs!Deliver, Published, Member, Membership, Cursors
  <2>12. QED
    BY <2>11
<1>3. QED
  BY <1>1, <1>2

\* Closing the channels of subscribers.
LEMMA CloseLeaves ==
  ASSUME HubInv, NEW S \in SUBSET subscribers, S # {}, run = "select",
         TypeOK, closed' = closed \union S,
         \A c \in Client : sg'[c] = "none" <=> sg[c] = "none",
         UNCHANGED <<acc, since, log>>
  PROVE  S \in SUBSET Client /\ Abs!Leave(S)
<1>1. S \in SUBSET Client
  BY DEF TypeOK, MapTypeOK
<1>2. \A c \in S : c \notin closed /\ sg[c] # "none" /\ c \in Client
  BY <1>1 DEF HubInv, MapInv
<1>3. \A c \in S : Member[c] = "in"
  BY <1>2 DEF Member, Membership, Joined
<1>4. Member' = [c \in Client |-> IF c \in S THEN "out" ELSE Member[c]]
  <2>1. \A c \in Client : Membership(c)' = IF c \in S THEN "out" ELSE Membership(c)
    BY <1>2 DEF Membership, Joined
  <2>2. QED
    BY <2>1 DEF Member
<1>5. UNCHANGED <<Published, Cursors, acc>>
  BY DEF Published, Cursors, Cursor
<1>6. QED
  BY <1>1, <1>3, <1>4, <1>5
     DEF Abs!Leave, Published, Member, Membership, Cursors

LEMMA UnregisterLeaves ==
  ASSUME TypeOK, HubInv, NEW c \in Client, Unregister(c)
  PROVE  Abs!PSNext \/ UNCHANGED Abs!psVars
<1>1. \A d \in Client : sg'[d] = "none" <=> sg[d] = "none"
  BY DEF Unregister, TypeOK, ControlTypeOK
<1>2. CASE \E d \in subscribers : id[d] = id[c]
  <2>1. PICK d \in subscribers : id[d] = id[c]
    BY <1>2
  <2>2. id[c] # 0 /\ d \in Client
    BY DEF Unregister, HubInv, IdInv, MapInv, TypeOK, MapTypeOK
  <2>3. c \in subscribers
    BY <2>1, <2>2 DEF HubInv, IdInv
  <2>4. {c} \in SUBSET Client /\ Abs!Leave({c})
    BY <1>1, <1>2, <2>3, CloseLeaves DEF Unregister
  <2>5. QED
    BY <2>4 DEF Abs!PSNext
<1>3. CASE ~\E d \in subscribers : id[d] = id[c]
  BY <1>1, <1>3, Stutters DEF Unregister
<1>4. QED
  BY <1>2, <1>3

LEMMA RunQuitLeaves ==
  ASSUME TypeOK, HubInv, RunQuit
  PROVE  Abs!PSNext \/ UNCHANGED Abs!psVars
<1>1. CASE subscribers = {}
  BY <1>1, Stutters DEF RunQuit
<1>2. CASE subscribers # {}
  <2>1. PICK S : S = subscribers
    OBVIOUS
  <2>2. S \in SUBSET Client /\ Abs!Leave(S)
    BY <1>2, <2>1, CloseLeaves DEF RunQuit
  <2>3. QED
    BY <2>2 DEF Abs!PSNext
<1>3. QED
  BY <1>1, <1>2

LEMMA RefinementStep ==
  TypeOK /\ HubInv /\ [Next]_vars => [Abs!PSNext]_(Abs!psVars)
<1> SUFFICES ASSUME TypeOK, HubInv, [Next]_vars
             PROVE  Abs!PSNext \/ UNCHANGED Abs!psVars
  OBVIOUS
<1>1. ASSUME NEW c \in Client, Register(c) PROVE Abs!PSNext
  BY <1>1, RegisterJoins DEF Abs!PSNext
<1>2. ASSUME NEW c \in Client, AcceptBroadcast(c) PROVE Abs!PSNext
  BY <1>2, AcceptPublishes DEF Abs!PSNext
<1>3. ASSUME NEW d \in Client, Offer(d)
      PROVE  Abs!PSNext \/ UNCHANGED Abs!psVars
  BY <1>3, OfferDelivers DEF Abs!PSNext
<1>4. ASSUME NEW c \in Client,
             \/ Subscribe(c) \/ Broadcast(c) \/ Return(c) \/ ReturnEmpty(c)
             \/ Disconnect(c)
      PROVE  UNCHANGED Abs!psVars
  BY <1>4, Stutters
     DEF Subscribe, Broadcast, Return, ReturnEmpty, Disconnect, hubVars, chanVars
<1>5. ASSUME NEW c \in Client,
             \/ Receive(c) \/ WriteOk(c) \/ WriteError(c) \/ ConnDone(c)
             \/ ChanClosed(c) \/ UnsubscribeQuit(c)
      PROVE  UNCHANGED Abs!psVars
  <2>1. UNCHANGED <<log, acc, since, closed>>
    BY <1>5 DEF Receive, WriteOk, WriteError, ConnDone, ChanClosed,
                UnsubscribeQuit, hubVars, chanVars
  <2>2. \A d \in Client : sg'[d] = "none" <=> sg[d] = "none"
    BY <1>5 DEF Receive, WriteOk, WriteError, ConnDone, ChanClosed,
                UnsubscribeQuit, TypeOK, ControlTypeOK
  <2>3. QED
    BY <2>1, <2>2, Stutters
<1>6. CASE FinishBroadcast \/ Stop \/ \E d \in Client : SkipSender(d)
  BY <1>6, Stutters DEF FinishBroadcast, Stop, SkipSender, hubVars, chanVars
<1>7. CASE UNCHANGED vars
  BY <1>7, Stutters DEF vars
<1>8. QED
  BY <1>1, <1>2, <1>3, <1>4, <1>5, <1>6, <1>7, UnregisterLeaves, RunQuitLeaves
     DEF Next, ReadLoop, Writer, Fanout

\* The hub is a PubSub: whatever the goroutines do, the connections see an
\* ordered multicast without duplicates and echoes, and a connection that
\* left gets nothing more.
THEOREM HubImplements == Spec => ImplementsPubSub
<1>1. Init => Abs!PSInit
  <2> SUFFICES ASSUME Init PROVE Abs!PSInit
    OBVIOUS
  <2>1. Published = <<>> /\ Member = [c \in Client |-> "new"]
    BY DEF Init, Published, Member, Membership, Joined
  <2>2. Cursors = [c \in Client |-> 0] /\ acc = [c \in Client |-> <<>>]
    BY DEF Init, Cursors, Cursor
  <2>3. QED
    BY <2>1, <2>2 DEF Abs!PSInit, Published, Member, Membership, Cursors
<1>2. TypeOK /\ HubInv /\ [Next]_vars => [Abs!PSNext]_(Abs!psVars)
  BY RefinementStep
<1>3. QED
  BY <1>1, <1>2, TypeCorrect, HubInvariant, PTL
     DEF Spec, ImplementsPubSub, Abs!PSSpec
=============================================================================
