------------------------- MODULE CryptoServerProofs -------------------------
(***************************************************************************)
(* Proofs about CryptoServer, for any number of connections, devices, keys *)
(* and challenges and any behaviour of the peers and of the web interface. *)
(*                                                                         *)
(* Authentic is not inductive.  It holds because of what the goroutine of  *)
(* a connection knows at every point (ConnInv): the key it checks against  *)
(* was that of a live device with the ID it was told, and the challenge    *)
(* went out when the device was in service (hist keeps what the table said *)
(* since then, TableKnown); and because a signature that exists was made   *)
(* by the peer of the one connection its nonce was sent to (NoncesFresh,   *)
(* SignaturesMade), so one over the nonce of c with the key of c is a      *)
(* signature of the peer of c, however often others replay what they saw.  *)
(*                                                                         *)
(* The second part is about Frame, the bytes in which its messages come.   *)
(***************************************************************************)
EXTENDS CryptoServer, Frame, SubsequencesProofs

Reply == {"SpecError", "DataLenError", "CmdExecError", "Challenge",
          "TimeoutError", "OK", "DataValueError", "Authorized", "Time",
          "Broadcast"}
Message == [conn : Conn, did : Device]

CryptoTypeOK ==
  /\ pc \in [Conn -> {"new", "read", "getkey", "service", "seen", "subscribe",
                      "broadcast", "done"}]
  /\ did \in [Conn -> Device \union {NoDev}]
  /\ step \in [Conn -> {"WaitParam", "WaitAuth", "Done"}]
  /\ key \in [Conn -> Key \union {NoKey}]
  /\ nonce \in [Conn -> Nat] /\ nonces \in Nat
  /\ authed \in [Conn -> BOOLEAN]
  /\ hold \in [Conn -> Key]
  /\ out \in [Conn -> Seq(Reply)]
  /\ published \in Seq(Message)
  /\ measured \subseteq Conn \X Device

\* What a connection knows at each point of the handshake.
Handshake(c) ==
  /\ pc[c] \in {"new", "read"} /\ step[c] = "WaitParam" => did[c] = NoDev
  /\ pc[c] \in {"new", "read", "getkey"} /\ step[c] = "WaitParam" => key[c] = NoKey
  /\ pc[c] \in {"new", "getkey", "service"} => step[c] = "WaitParam"
  /\ pc[c] = "service" => key[c] # NoKey
  /\ step[c] = "WaitParam" <=> nonce[c] = 0
  /\ authed[c] <=> step[c] = "Done" \/ pc[c] = "seen"
  /\ pc[c] = "seen" => step[c] = "WaitAuth"
  /\ pc[c] \in {"subscribe", "broadcast"} => step[c] = "Done"
  /\ c \in subscribed => authed[c]

\* What its device ID and key were checked against.
Checked(c) ==
  /\ key[c] # NoKey => /\ did[c] \in Device
                       /\ \E s \in BOOLEAN : <<did[c], key[c], s>> \in hist
  /\ step[c] # "WaitParam" => /\ key[c] # NoKey
                              /\ \E k \in Key : <<did[c], k, TRUE>> \in hist
  /\ authed[c] => hold[c] = key[c]

\* What has been written to it.
Greeted(c) ==
  /\ step[c] = "WaitParam" /\ pc[c] # "done" => Len(out[c]) = 0
  /\ step[c] = "WaitAuth" /\ ~authed[c] /\ pc[c] # "done" =>
       Len(out[c]) = 1 /\ out[c][1] = "Challenge"
  /\ authed[c] => /\ Len(out[c]) >= 3 /\ out[c][1] = "Challenge"
                  /\ out[c][2] = "OK" /\ out[c][3] = "Authorized"
  /\ ~authed[c] => \A i \in 1..Len(out[c]) : out[c][i] \notin {"Broadcast", "Time"}

ConnInv == \A c \in Conn : Handshake(c) /\ Checked(c) /\ Greeted(c)

\* hist knows every live device.
TableKnown ==
  \A d \in Device : Live(d) => <<d, devices[d].key, devices[d].inService>> \in hist

\* A nonce is sent to one connection only.
NoncesFresh ==
  /\ \A c \in Conn : nonce[c] <= nonces
  /\ \A c, d \in Conn : nonce[c] # 0 /\ nonce[c] = nonce[d] => c = d

\* The signatures that exist answer challenges, each with the peer's own key.
SignaturesMade ==
  \A s \in signed : \E c \in Conn : nonce[c] # 0 /\ s = <<hold[c], nonce[c]>>

CryptoInv == /\ StoreTypeOK /\ CryptoTypeOK
             /\ ConnInv /\ TableKnown /\ NoncesFresh /\ SignaturesMade
             /\ Attributed

----------------------------------------------------------------------------
LEMMA CryptoInit == Init => CryptoInv
<1> SUFFICES ASSUME Init PROVE CryptoInv
  OBVIOUS
<1>1. StoreTypeOK
  BY MaxRowsAssumption DEF Init, StoreInit, StoreTypeOK
<1>2. CryptoTypeOK
  BY DEF Init, CryptoTypeOK, Message
<1>3. \A c \in Conn : Handshake(c) /\ Checked(c) /\ Greeted(c)
  BY <1>2 DEF Init, CryptoTypeOK, Handshake, Checked, Greeted
<1>4. TableKnown /\ NoncesFresh /\ SignaturesMade /\ Attributed
  BY <1>2 DEF Init, StoreInit, TableKnown, Live, Exists, NoncesFresh,
              SignaturesMade, Attributed, CryptoTypeOK
<1>5. QED
  BY <1>1, <1>2, <1>3, <1>4 DEF CryptoInv, ConnInv

\* A frame has the fields its handler reads.
LEMMA FrameFields ==
  ASSUME NEW c \in Conn, NEW f \in Frames(c)
  PROVE  /\ f.addr = AddrParamRequest => f.did \in Device \union {NoDev}
         /\ f.addr = AddrAuthCommand => f.sig \in Presentable(c)
  BY DEF Frames, Presentable, AddrParamRequest, AddrAuthCommand,
         AddrTimeRequest, AddrDeviceRegular, AddrOther

\* Conn.Write appends.
LEMMA Written ==
  ASSUME CryptoTypeOK, NEW c \in Conn, NEW fr \in Seq(Reply), Write(c, fr)
  PROVE  /\ out' \in [Conn -> Seq(Reply)]
         /\ \A d \in Conn \ {c} : out'[d] = out[d]
         /\ Len(out'[c]) = Len(out[c]) + Len(fr)
         /\ \A i \in 1..Len(out[c]) : out'[c][i] = out[c][i]
         /\ \A i \in 1..Len(fr) : out'[c][Len(out[c]) + i] = fr[i]
<1>1. out[c] \in Seq(Reply) /\ out'[c] = out[c] \o fr
  BY DEF CryptoTypeOK, Write
<1>2. /\ out'[c] \in Seq(Reply)
      /\ Len(out'[c]) = Len(out[c]) + Len(fr)
      /\ \A i \in 1..Len(out'[c]) :
           out'[c][i] = IF i <= Len(out[c]) THEN out[c][i] ELSE fr[i - Len(out[c])]
  BY <1>1, ConcatProperties
<1>3. Len(out[c]) \in Nat /\ Len(fr) \in Nat
  BY <1>1, LenProperties
<1>4. \A i \in 1..Len(out[c]) : out'[c][i] = out[c][i]
  BY <1>2, <1>3
<1>5. ASSUME NEW i \in 1..Len(fr)
      PROVE  out'[c][Len(out[c]) + i] = fr[i]
  <2>1. PICK j \in Nat : j = Len(out[c]) + i
    BY <1>3
  <2>2. j \in 1..Len(out'[c]) /\ ~(j <= Len(out[c])) /\ j - Len(out[c]) = i
    BY <1>2, <1>3, <2>1
  <2>3. out'[c][j] = fr[j - Len(out[c])]
    BY <1>2, <2>2
  <2>4. QED
    BY <2>1, <2>2, <2>3
<1>6. out' \in [Conn -> Seq(Reply)] /\ \A d \in Conn \ {c} : out'[d] = out[d]
  BY <1>1, <1>2 DEF CryptoTypeOK, Write
<1>7. QED
  BY <1>2, <1>4, <1>5, <1>6

\* A step of one connection does not touch what the others know.
Others(c) ==
  \A d \in Conn \ {c} :
    /\ pc'[d] = pc[d] /\ did'[d] = did[d] /\ step'[d] = step[d]
    /\ key'[d] = key[d] /\ nonce'[d] = nonce[d] /\ authed'[d] = authed[d]
    /\ out'[d] = out[d] /\ (d \in subscribed' => d \in subscribed)

LEMMA OthersKept ==
  ASSUME ConnInv, NEW c \in Conn, Others(c), hist \subseteq hist', hold' = hold,
         Handshake(c)', Checked(c)', Greeted(c)'
  PROVE  ConnInv'
<1> SUFFICES ASSUME NEW d \in Conn \ {c}
             PROVE  (Handshake(d) /\ Checked(d) /\ Greeted(d))'
  BY DEF ConnInv
<1>1. Handshake(d) /\ Checked(d) /\ Greeted(d)
  BY DEF ConnInv
<1>2. Handshake(d)'
  BY <1>1 DEF Others, Handshake
<1>3. Checked(d)'
  BY <1>1 DEF Others, Checked
<1>4. Greeted(d)'
  BY <1>1 DEF Others, Greeted
<1>5. QED
  BY <1>2, <1>3, <1>4

\* What a step keeps of the history keeps what was attributed.
LEMMA AttributedKept ==
  ASSUME Attributed, hist \subseteq hist', hold' = hold, published' = published,
         measured' = measured
  PROVE  Attributed'
  BY DEF Attributed, Registered

\* UpdateLastSeen changes nothing that the handshake asks for.
LEMMA SeenKept ==
  ASSUME StoreTypeOK, TableKnown, NEW d \in Device, devices' = Seen(d),
         hist' = hist
  PROVE  TableKnown'
<1>1. CASE Live(d)
  <2>1. devices[d] \in Row
    BY <1>1 DEF Live, Exists, StoreTypeOK
  <2>2. \A e \in Device : devices'[e] = IF e = d THEN [devices[d] EXCEPT !.seen = TRUE]
                                                 ELSE devices[e]
    BY <1>1 DEF Seen, StoreTypeOK
  <2>3. \A e \in Device : Live(e)' =>
          /\ Live(e) /\ devices'[e].key = devices[e].key
          /\ devices'[e].inService = devices[e].inService
    BY <1>1, <2>1, <2>2 DEF Live, Exists, Row
  <2>4. QED
    BY <2>3 DEF TableKnown
<1>2. CASE ~Live(d)
  BY <1>2 DEF Seen, TableKnown, Live, Exists
<1>3. QED
  BY <1>1, <1>2

----------------------------------------------------------------------------
(* Each part of the invariant, over all the actions that could disturb it. *)

\* An authenticated connection, and one past the first query, has a device
\* that the table may know.
LEMMA Identified ==
  ASSUME CryptoInv, NEW c \in Conn, authed[c] \/ pc[c] = "service"
  PROVE  did[c] \in Device
  BY DEF CryptoInv, ConnInv, Handshake, Checked, CryptoTypeOK

\* Only the web interface and UpdateLastSeen write to the devices table; the
\* server itself never changes a key or takes a device out of service.
LEMMA TableStep ==
  ASSUME CryptoInv, [Next]_vars
  PROVE  /\ [StoreNext]_dsVars /\ TableKnown'
         /\ hist \subseteq hist' /\ hold' = hold
<1>1. ASSUME NEW c \in Conn, NEW f \in Frames(c), Handle(c, f)
      PROVE  /\ [StoreNext]_dsVars /\ TableKnown'
             /\ hist \subseteq hist' /\ hold' = hold
  <2>1. Receives(c, f)
    BY <1>1 DEF Handle, Ignored, ParamRefused, ParamRequest, AuthRefused,
                Authorize, Heartbeat, Regular
  <2>2. CASE authed[c]
    <3>1. did[c] \in Device /\ UpdateLastSeen(did[c])
      BY <2>1, <2>2, Identified DEF Receives, UpdateLastSeen
    <3>2. TableKnown'
      BY <2>1, <3>1, SeenKept DEF CryptoInv, UpdateLastSeen, Receives
    <3>3. QED
      BY <2>1, <3>1, <3>2 DEF Receives, StoreNext
  <2>3. CASE ~authed[c]
    BY <2>1, <2>3 DEF Receives, dsVars, CryptoInv, TableKnown, Live, Exists
  <2>4. QED
    BY <2>2, <2>3
<1>2. ASSUME NEW c \in Conn, Authorized(c)
      PROVE  /\ [StoreNext]_dsVars /\ TableKnown'
             /\ hist \subseteq hist' /\ hold' = hold
  <2>1. did[c] \in Device
    BY <1>2, Identified DEF Authorized, CryptoInv, ConnInv, Handshake
  <2>2. UpdateLastSeen(did[c])
    BY <1>2 DEF Authorized, UpdateLastSeen
  <2>3. TableKnown'
    BY <1>2, <2>1, SeenKept DEF CryptoInv, Authorized
  <2>4. QED
    BY <1>2, <2>1, <2>2, <2>3 DEF Authorized, StoreNext
<1>3. CASE Web
  <2>1. TableKnown'
    BY <1>3 DEF Web, TableKnown, Eligible
  <2>2. QED
    BY <1>3, <2>1 DEF Web, StoreNext
<1>4. ASSUME UNCHANGED <<devices, rows, hist, hold>>
      PROVE  /\ [StoreNext]_dsVars /\ TableKnown'
             /\ hist \subseteq hist' /\ hold' = hold
  BY <1>4 DEF dsVars, CryptoInv, TableKnown, Live, Exists
<1>5. ASSUME NEW c \in Conn,
             \/ Accept(c) \/ ReadError(c) \/ Expire(c) \/ GetKey(c)
             \/ Denied(c) \/ Challenge(c) \/ ChallengeFails(c)
             \/ Subscribe(c) \/ Broadcast(c) \/ Forward(c) \/ Unsubscribe(c)
      PROVE  UNCHANGED <<devices, rows, hist, hold>>
  BY <1>5 DEF Accept, ReadError, Expire, GetKey, Denied, Challenge,
              ChallengeFails, Subscribe, Broadcast, Forward, Unsubscribe, dsVars
<1>6. CASE UNCHANGED vars
  BY <1>4, <1>6 DEF vars
<1>7. QED
  BY <1>1, <1>2, <1>3, <1>4, <1>5, <1>6 DEF Next, Continue

\* The challenge of a connection is a new nonce; nothing else changes one.
LEMMA NonceStep ==
  ASSUME CryptoInv, [Next]_vars
  PROVE  \/ nonce' = nonce /\ nonces' = nonces
         \/ \E c \in Conn : Challenge(c)
<1>1. ASSUME NEW c \in Conn, NEW f \in Frames(c), Handle(c, f)
      PROVE  nonce' = nonce /\ nonces' = nonces
  BY <1>1 DEF Handle, Ignored, ParamRefused, ParamRequest, AuthRefused,
              Authorize, Heartbeat, Regular, connVars
<1>2. ASSUME NEW c \in Conn,
             \/ Accept(c) \/ ReadError(c) \/ Expire(c) \/ GetKey(c)
             \/ Denied(c) \/ ChallengeFails(c) \/ Authorized(c)
             \/ Subscribe(c) \/ Broadcast(c) \/ Forward(c) \/ Unsubscribe(c)
      PROVE  nonce' = nonce /\ nonces' = nonces
  BY <1>2 DEF Accept, ReadError, Expire, GetKey, Denied, ChallengeFails,
              Authorized, Subscribe, Broadcast, Forward, Unsubscribe, connVars
<1>3. CASE Web \/ UNCHANGED vars
  BY <1>3 DEF Web, connVars, vars
<1>4. QED
  BY <1>1, <1>2, <1>3 DEF Next, Continue

LEMMA NoncesFreshStep ==
  ASSUME CryptoInv, [Next]_vars
  PROVE  NoncesFresh'
<1>1. CASE nonce' = nonce /\ nonces' = nonces
  BY <1>1 DEF CryptoInv, NoncesFresh
<1>2. ASSUME NEW c \in Conn, Challenge(c)
      PROVE  NoncesFresh'
  <2>1. /\ nonces' = nonces + 1 /\ nonces \in Nat
        /\ \A d \in Conn : nonce'[d] = IF d = c THEN nonces + 1 ELSE nonce[d]
        /\ \A d \in Conn : nonce[d] \in Nat /\ nonce[d] <= nonces
    BY <1>2 DEF Challenge, CryptoInv, CryptoTypeOK, NoncesFresh
  <2>2. QED
    BY <2>1 DEF CryptoInv, NoncesFresh
<1>3. QED
  BY <1>1, <1>2, NonceStep

\* What a peer can present is what it was shown or what it can sign.
LEMMA PresentableMade ==
  ASSUME CryptoInv, NEW c \in Conn, NEW s \in Presentable(c), s # Garbage
  PROVE  \E d \in Conn : nonce[d] # 0 /\ s = <<hold[d], nonce[d]>>
  BY DEF Presentable, CryptoInv, SignaturesMade

LEMMA SignaturesStep ==
  ASSUME CryptoInv, [Next]_vars
  PROVE  SignaturesMade'
<1>1. \A d \in Conn : nonce[d] # 0 => nonce'[d] = nonce[d]
  <2>1. ASSUME NEW c \in Conn, Challenge(c)
        PROVE  \A d \in Conn : nonce[d] # 0 => nonce'[d] = nonce[d]
    <3>1. nonce[c] = 0
      BY <2>1 DEF Challenge, CryptoInv, ConnInv, Handshake
    <3>2. QED
      BY <2>1, <3>1 DEF Challenge, CryptoInv, CryptoTypeOK
  <2>2. QED
    BY <2>1, NonceStep
<1>2. hold' = hold
  BY TableStep
<1>3. ASSUME NEW c \in Conn, NEW f \in Frames(c), Presented(c, f)
      PROVE  \A s \in signed' : s \in signed \/ (s # Garbage /\ s \in Presentable(c))
  BY <1>3, FrameFields DEF Presented
<1>4. ASSUME NEW c \in Conn, NEW f \in Frames(c), Handle(c, f)
      PROVE  signed' = signed \/ Presented(c, f)
  BY <1>4 DEF Handle, Ignored, ParamRefused, ParamRequest, AuthRefused,
              Authorize, Heartbeat, Regular
<1>5. ASSUME NEW c \in Conn,
             \/ Accept(c) \/ ReadError(c) \/ Expire(c) \/ GetKey(c)
             \/ Denied(c) \/ Challenge(c) \/ ChallengeFails(c) \/ Authorized(c)
             \/ Subscribe(c) \/ Broadcast(c) \/ Forward(c) \/ Unsubscribe(c)
      PROVE  signed' = signed
  BY <1>5 DEF Accept, ReadError, Expire, GetKey, Denied, Challenge,
              ChallengeFails, Authorized, Subscribe, Broadcast, Forward,
              Unsubscribe
<1>6. CASE Web \/ UNCHANGED vars
  BY <1>1, <1>2, <1>6 DEF Web, vars, CryptoInv, SignaturesMade
<1>7. ASSUME NEW c \in Conn,
             \A s \in signed' : s \in signed \/ (s # Garbage /\ s \in Presentable(c))
      PROVE  SignaturesMade'
  <2>1. \A s \in signed' : \E d \in Conn : nonce[d] # 0 /\ s = <<hold[d], nonce[d]>>
    BY <1>7, PresentableMade DEF CryptoInv, SignaturesMade
  <2>2. QED
    BY <1>1, <1>2, <2>1 DEF SignaturesMade
<1>8. QED
  BY <1>3, <1>4, <1>5, <1>6, <1>7 DEF Next, Continue

\* One or two status frames.
LEMMA WrittenOne ==
  ASSUME CryptoTypeOK, NEW c \in Conn, NEW a \in Reply, Write(c, <<a>>)
  PROVE  /\ out' \in [Conn -> Seq(Reply)]
         /\ \A d \in Conn \ {c} : out'[d] = out[d]
         /\ Len(out'[c]) = Len(out[c]) + 1
         /\ \A i \in 1..Len(out[c]) : out'[c][i] = out[c][i]
         /\ out'[c][Len(out[c]) + 1] = a
<1>0. <<a>> \in Seq(Reply)
  OBVIOUS
<1>1. PICK fr \in Seq(Reply) : fr = <<a>>
  BY <1>0, Zenon
<1>2. Len(fr) = 1 /\ fr[1] = a /\ 1 \in 1..Len(fr) /\ Write(c, fr)
  BY <1>1
<1>3. QED
  BY <1>2, Written

LEMMA WrittenTwo ==
  ASSUME CryptoTypeOK, NEW c \in Conn, NEW a \in Reply, NEW b \in Reply,
         Write(c, <<a, b>>)
  PROVE  /\ out' \in [Conn -> Seq(Reply)]
         /\ \A d \in Conn \ {c} : out'[d] = out[d]
         /\ Len(out'[c]) = Len(out[c]) + 2
         /\ \A i \in 1..Len(out[c]) : out'[c][i] = out[c][i]
         /\ out'[c][Len(out[c]) + 1] = a /\ out'[c][Len(out[c]) + 2] = b
<1>0. <<a, b>> \in Seq(Reply)
  OBVIOUS
<1>1. PICK fr \in Seq(Reply) : fr = <<a, b>>
  BY <1>0, Zenon
<1>2. Len(fr) = 2 /\ fr[1] = a /\ fr[2] = b /\ 1 \in 1..Len(fr)
      /\ 2 \in 1..Len(fr) /\ Write(c, fr)
  BY <1>1
<1>3. /\ Len(out'[c]) = Len(out[c]) + Len(fr)
      /\ out'[c][Len(out[c]) + 1] = fr[1] /\ out'[c][Len(out[c]) + 2] = fr[2]
  BY <1>2, Written
<1>4. QED
  BY <1>2, <1>3, Written

\* handleAuth answers with status frames only, and with "Authorized" only
\* when the signature is one over this connection's challenge, made with the
\* key it was read.
LEMMA Replies ==
  ASSUME NEW c \in Conn, NEW f
  PROVE  /\ \/ \E a \in {"SpecError", "DataLenError"} : AuthReply(c, f) = <<a>>
            \/ \E b \in {"DataValueError", "CmdExecError", "TimeoutError",
                         "Authorized"} : AuthReply(c, f) = <<"OK", b>>
         /\ AuthReply(c, f) = <<"OK", "Authorized">> =>
              f.addr = AddrAuthCommand /\ f.sig = <<key[c], nonce[c]>>
  BY DEF AuthReply, Verifies

\* The peer of a connection that gets "Authorized" holds the key it was
\* checked against: only it can have signed this nonce.
LEMMA OwnSignature ==
  ASSUME CryptoInv, NEW c \in Conn, NEW f \in Frames(c), step[c] = "WaitAuth",
         AuthReply(c, f) = <<"OK", "Authorized">>
  PROVE  hold[c] = key[c]
<1>1. f.sig = <<key[c], nonce[c]>> /\ f.sig \in Presentable(c)
  BY Replies, FrameFields
<1>2. key[c] \in Key /\ nonce[c] \in Nat /\ nonce[c] # 0
  BY DEF CryptoInv, ConnInv, Handshake, Checked, CryptoTypeOK
<1>3. f.sig # Garbage
  BY <1>1, <1>2, ValuesAssumption
<1>4. PICK d \in Conn : nonce[d] # 0 /\ f.sig = <<hold[d], nonce[d]>>
  BY <1>1, <1>3, PresentableMade
<1>5. nonce[d] = nonce[c] /\ hold[d] = key[c]
  BY <1>1, <1>4
<1>6. QED
  BY <1>2, <1>5 DEF CryptoInv, NoncesFresh

----------------------------------------------------------------------------
\* What the goroutine of a connection knows stays true, action by action.
LEMMA HandleStep ==
  ASSUME CryptoInv, NEW c \in Conn, NEW f \in Frames(c), Handle(c, f),
         hist \subseteq hist', hold' = hold
  PROVE  CryptoTypeOK' /\ ConnInv' /\ Attributed'
<1>0. /\ CryptoTypeOK /\ ConnInv /\ Attributed
      /\ Handshake(c) /\ Checked(c) /\ Greeted(c)
  BY DEF CryptoInv, ConnInv
<1>1. CASE Ignored(c, f)
  <2>1. CryptoTypeOK' /\ Others(c)
    BY <1>0, <1>1 DEF Ignored, Receives, CryptoTypeOK, Others, connVars, ioVars
  <2>2. Handshake(c)' /\ Checked(c)' /\ Greeted(c)'
    BY <1>0, <1>1 DEF Ignored, connVars, ioVars, Handshake, Checked, Greeted
  <2>3. QED
    BY <1>0, <1>1, <2>1, <2>2, OthersKept, AttributedKept DEF Ignored, ioVars
<1>2. CASE ParamRefused(c, f)
  <2>1. PICK a \in {"SpecError", "DataLenError"} : Write(c, <<a>>)
    BY <1>2 DEF ParamRefused
  <2>2. /\ out' \in [Conn -> Seq(Reply)] /\ \A d \in Conn \ {c} : out'[d] = out[d]
        /\ Len(out'[c]) = Len(out[c]) + 1
        /\ \A i \in 1..Len(out[c]) : out'[c][i] = out[c][i]
        /\ out'[c][Len(out[c]) + 1] = a
    BY <1>0, <2>1, WrittenOne DEF Reply
  <2>3. CryptoTypeOK' /\ Others(c)
    BY <1>0, <1>2, <2>2 DEF ParamRefused, Receives, CryptoTypeOK, Others
  <2>4. ~authed[c] /\ ~authed'[c] /\ pc'[c] = "done" /\ Len(out[c]) = 0
    BY <1>0, <1>2 DEF ParamRefused, Receives, Handshake, Greeted, CryptoTypeOK
  <2>5. Greeted(c)'
    BY <2>1, <2>2, <2>4 DEF Greeted
  <2>6. Handshake(c)' /\ Checked(c)'
    BY <1>0, <1>2, <2>4 DEF ParamRefused, Receives, Handshake, Checked
  <2>7. QED
    BY <1>0, <1>2, <2>3, <2>5, <2>6, OthersKept, AttributedKept DEF ParamRefused
<1>3. CASE ParamRequest(c, f)
  <2>1. f.did \in Device \union {NoDev}
    BY <1>3, FrameFields DEF ParamRequest
  <2>2. CryptoTypeOK' /\ Others(c)
    BY <1>0, <1>3, <2>1 DEF ParamRequest, Receives, CryptoTypeOK, Others, ioVars
  <2>3. pc'[c] = "getkey" /\ pc[c] = "read" /\ key[c] = NoKey
    BY <1>0, <1>3 DEF ParamRequest, Receives, Handshake, CryptoTypeOK
  <2>4. Handshake(c)' /\ Checked(c)' /\ Greeted(c)'
    BY <1>0, <1>3, <2>3
    DEF ParamRequest, Receives, Handshake, Checked, Greeted, ioVars
  <2>5. QED
    BY <1>0, <1>3, <2>2, <2>4, OthersKept, AttributedKept DEF ParamRequest, ioVars
<1>4. CASE AuthRefused(c, f)
  <2>1. /\ Len(out[c]) = 1 /\ ~authed[c] /\ ~authed'[c] /\ pc'[c] = "done"
        /\ step[c] = "WaitAuth" /\ step'[c] = "WaitAuth"
    BY <1>0, <1>4 DEF AuthRefused, Receives, Handshake, Greeted, CryptoTypeOK
  <2>2. /\ out' \in [Conn -> Seq(Reply)] /\ \A d \in Conn \ {c} : out'[d] = out[d]
        /\ \A i \in 1..Len(out'[c]) : out'[c][i] \notin {"Broadcast", "Time"}
    <3>1. ASSUME NEW a \in {"SpecError", "DataLenError"}, AuthReply(c, f) = <<a>>
          PROVE  /\ out' \in [Conn -> Seq(Reply)]
                 /\ \A d \in Conn \ {c} : out'[d] = out[d]
                 /\ \A i \in 1..Len(out'[c]) : out'[c][i] \notin {"Broadcast", "Time"}
      <4>1. a \in Reply /\ Write(c, <<a>>)
        BY <1>4, <3>1 DEF AuthRefused, Reply
      <4>2. /\ Len(out'[c]) = Len(out[c]) + 1
            /\ out'[c][Len(out[c]) + 1] = a
            /\ \A i \in 1..Len(out[c]) : out'[c][i] = out[c][i]
        BY <1>0, <4>1, WrittenOne
      <4>3. QED
        BY <1>0, <2>1, <4>1, <4>2, WrittenOne DEF Greeted
    <3>2. ASSUME NEW b \in {"DataValueError", "CmdExecError", "TimeoutError",
                            "Authorized"}, AuthReply(c, f) = <<"OK", b>>
          PROVE  /\ out' \in [Conn -> Seq(Reply)]
                 /\ \A d \in Conn \ {c} : out'[d] = out[d]
                 /\ \A i \in 1..Len(out'[c]) : out'[c][i] \notin {"Broadcast", "Time"}
      <4>1. b \in Reply /\ "OK" \in Reply /\ Write(c, <<"OK", b>>)
        BY <1>4, <3>2 DEF AuthRefused, Reply
      <4>2. /\ Len(out'[c]) = Len(out[c]) + 2
            /\ out'[c][Len(out[c]) + 1] = "OK" /\ out'[c][Len(out[c]) + 2] = b
            /\ \A i \in 1..Len(out[c]) : out'[c][i] = out[c][i]
        BY <1>0, <4>1, WrittenTwo
      <4>3. QED
        BY <1>0, <2>1, <4>1, <4>2, WrittenTwo DEF Greeted
    <3>3. QED
      BY <3>1, <3>2, Replies
  <2>4. CryptoTypeOK' /\ Others(c)
    BY <1>0, <1>4, <2>2 DEF AuthRefused, Receives, CryptoTypeOK, Others
  <2>6. Greeted(c)'
    BY <2>1, <2>2 DEF Greeted
  <2>7. Handshake(c)' /\ Checked(c)'
    BY <1>0, <1>4, <2>1 DEF AuthRefused, Receives, Handshake, Checked
  <2>8. QED
    BY <1>0, <1>4, <2>4, <2>6, <2>7, OthersKept, AttributedKept DEF AuthRefused
<1>5. CASE Authorize(c, f)
  <2>1. /\ Len(out[c]) = 1 /\ out[c][1] = "Challenge" /\ authed'[c]
        /\ pc'[c] = "seen" /\ step[c] = "WaitAuth" /\ step'[c] = "WaitAuth"
    BY <1>0, <1>5 DEF Authorize, Receives, Handshake, Greeted, CryptoTypeOK
  <2>2. /\ out' \in [Conn -> Seq(Reply)] /\ \A d \in Conn \ {c} : out'[d] = out[d]
        /\ Len(out'[c]) = Len(out[c]) + 2
        /\ \A i \in 1..Len(out[c]) : out'[c][i] = out[c][i]
        /\ out'[c][Len(out[c]) + 1] = "OK" /\ out'[c][Len(out[c]) + 2] = "Authorized"
    BY <1>0, <1>5, WrittenTwo DEF Authorize, Reply
  <2>3. CryptoTypeOK' /\ Others(c)
    BY <1>0, <1>5, <2>2 DEF Authorize, Receives, CryptoTypeOK, Others
  <2>4. Greeted(c)'
    BY <2>1, <2>2 DEF Greeted
  <2>5. Handshake(c)'
    BY <1>0, <1>5, <2>1 DEF Authorize, Handshake
  <2>6. Checked(c)'
    BY <1>0, <1>5, <2>1, OwnSignature DEF Authorize, Checked
  <2>7. QED
    BY <1>0, <1>5, <2>3, <2>4, <2>5, <2>6, OthersKept, AttributedKept
    DEF Authorize
<1>6. CASE Heartbeat(c, f)
  <2>1. PICK a \in Reply : Write(c, <<a>>)
    BY <1>6 DEF Heartbeat, Reply
  <2>2. /\ out' \in [Conn -> Seq(Reply)] /\ \A d \in Conn \ {c} : out'[d] = out[d]
        /\ Len(out'[c]) = Len(out[c]) + 1
        /\ \A i \in 1..Len(out[c]) : out'[c][i] = out[c][i]
    BY <1>0, <2>1, WrittenOne
  <2>3. CryptoTypeOK' /\ Others(c)
    BY <1>0, <1>6, <2>2 DEF Heartbeat, Receives, CryptoTypeOK, Others, connVars
  <2>4. authed[c] /\ authed'[c] /\ step'[c] = "Done"
    BY <1>0, <1>6 DEF Heartbeat, Handshake, connVars
  <2>5. Greeted(c)'
    BY <1>0, <2>2, <2>4 DEF Greeted
  <2>6. Handshake(c)' /\ Checked(c)'
    BY <1>0, <1>6 DEF Heartbeat, connVars, Handshake, Checked
  <2>7. QED
    BY <1>0, <1>6, <2>3, <2>5, <2>6, OthersKept, AttributedKept DEF Heartbeat
<1>7. CASE Regular(c, f)
  <2>1. authed[c] /\ did[c] \in Device
    BY <1>7, Identified DEF Regular, GateOpen
  <2>2. CryptoTypeOK' /\ Others(c)
    BY <1>0, <1>7, <2>1 DEF Regular, Receives, CryptoTypeOK, Others
  <2>3. pc[c] = "read" /\ pc'[c] = "broadcast" /\ step[c] = "Done"
    BY <1>0, <1>7, <2>1 DEF Regular, Receives, Handshake, CryptoTypeOK
  <2>4. Handshake(c)' /\ Checked(c)' /\ Greeted(c)'
    BY <1>0, <1>7, <2>1, <2>3 DEF Regular, Handshake, Checked, Greeted
  <2>5. Registered(c, did[c])'
    BY <1>0, <1>7, <2>1, <2>3 DEF Regular, Registered, Checked
  <2>6. Attributed'
    <3>1. \A e \in Conn, d \in Device : Registered(e, d) => Registered(e, d)'
      BY DEF Registered
    <3>2. \A i \in DOMAIN published : published[i] \in Message
      BY <1>0 DEF CryptoTypeOK
    <3>3. \A i \in DOMAIN published' :
            Registered(published[i].conn, published[i].did)'
      BY <1>0, <1>7, <3>1, <3>2 DEF Regular, Attributed, Message
    <3>4. \A m \in measured' : m \in measured \/ m = <<c, did[c]>>
      BY <1>7 DEF Regular
    <3>5. \A m \in measured' : Registered(m[1], m[2])'
      <4> TAKE m \in measured'
      <4>1. CASE m \in measured
        <5>1. m[1] \in Conn /\ m[2] \in Device /\ Registered(m[1], m[2])
          BY <1>0, <4>1 DEF CryptoTypeOK, Attributed
        <5>2. QED
          BY <3>1, <5>1
      <4>2. CASE m = <<c, did[c]>>
        <5>1. m[1] = c /\ m[2] = did[c] /\ did' = did
          BY <1>7, <4>2 DEF Regular
        <5>2. QED
          BY <2>5, <5>1 DEF Registered
      <4>3. QED
        BY <3>4, <4>1, <4>2
    <3>6. QED
      BY <1>7, <3>3, <3>5 DEF Regular, Attributed
  <2>7. QED
    BY <1>0, <2>2, <2>4, <2>6, OthersKept
<1>8. QED
  BY <1>1, <1>2, <1>3, <1>4, <1>5, <1>6, <1>7 DEF Handle

LEMMA ContinueStep ==
  ASSUME CryptoInv, NEW c \in Conn,
         \/ Accept(c) \/ ReadError(c) \/ Expire(c) \/ Continue(c)
         \/ Forward(c) \/ Unsubscribe(c),
         hist \subseteq hist', hold' = hold
  PROVE  CryptoTypeOK' /\ ConnInv' /\ Attributed'
<1>0. /\ CryptoTypeOK /\ ConnInv /\ Attributed
      /\ Handshake(c) /\ Checked(c) /\ Greeted(c)
  BY DEF CryptoInv, ConnInv
<1>1. CASE Accept(c) \/ ReadError(c) \/ Expire(c)
  <2>1. CryptoTypeOK' /\ Others(c)
    BY <1>0, <1>1 DEF Accept, ReadError, Expire, CryptoTypeOK, Others, ioVars
  <2>2. pc'[c] = pc[c] \/ (pc[c] = "new" /\ pc'[c] = "read")
        \/ (pc[c] = "read" /\ pc'[c] = "done")
    BY <1>0, <1>1 DEF Accept, ReadError, Expire, CryptoTypeOK
  <2>3. Handshake(c)' /\ Checked(c)' /\ Greeted(c)'
    BY <1>0, <1>1, <2>2
    DEF Accept, ReadError, Expire, Handshake, Checked, Greeted, ioVars
  <2>4. QED
    BY <1>0, <1>1, <2>1, <2>3, OthersKept, AttributedKept
    DEF Accept, ReadError, Expire, ioVars
<1>2. CASE GetKey(c)
  <2>1. devices[did[c]] \in Row
    BY <1>2 DEF GetKey, Live, Exists, CryptoInv, StoreTypeOK
  <2>2. /\ devices[did[c]].key \in Key /\ devices[did[c]].inService \in BOOLEAN
        /\ did[c] \in Device
    BY <1>2, <2>1 DEF Row, GetKey
  <2>3. CryptoTypeOK' /\ Others(c)
    BY <1>0, <1>2, <2>2
    DEF GetKey, GetPublicKey, CryptoTypeOK, Others, ioVars
  <2>4. <<did[c], devices[did[c]].key, devices[did[c]].inService>> \in hist
    BY <1>2, <2>2 DEF GetKey, CryptoInv, TableKnown
  <2>5. /\ key'[c] = devices[did[c]].key /\ key'[c] # NoKey
        /\ pc'[c] = "service" /\ pc[c] = "getkey"
    BY <1>0, <1>2, <2>2, ValuesAssumption DEF GetKey, GetPublicKey, CryptoTypeOK
  <2>6. Checked(c)'
    BY <1>0, <1>2, <2>2, <2>4, <2>5 DEF GetKey, Checked, Handshake
  <2>7. Handshake(c)' /\ Greeted(c)'
    BY <1>0, <1>2, <2>5 DEF GetKey, Handshake, Greeted, ioVars
  <2>8. QED
    BY <1>0, <1>2, <2>3, <2>6, <2>7, OthersKept, AttributedKept
    DEF GetKey, ioVars
<1>3. CASE Denied(c) \/ ChallengeFails(c)
  <2>1. /\ pc[c] \in {"getkey", "service"} /\ step[c] = "WaitParam"
        /\ ~authed[c] /\ Len(out[c]) = 0
    BY <1>0, <1>3 DEF Denied, ChallengeFails, Handshake, Greeted, CryptoTypeOK
  <2>2. /\ out' \in [Conn -> Seq(Reply)] /\ \A d \in Conn \ {c} : out'[d] = out[d]
        /\ \A i \in 1..Len(out'[c]) : out'[c][i] \notin {"Broadcast", "Time"}
    <3>1. ASSUME NEW a \in {"CmdExecError", "TimeoutError"}, Write(c, <<a>>)
          PROVE  /\ out' \in [Conn -> Seq(Reply)]
                 /\ \A d \in Conn \ {c} : out'[d] = out[d]
                 /\ \A i \in 1..Len(out'[c]) : out'[c][i] \notin {"Broadcast", "Time"}
      <4>1. a \in Reply
        BY DEF Reply
      <4>2. Len(out'[c]) = Len(out[c]) + 1 /\ out'[c][Len(out[c]) + 1] = a
        BY <1>0, <3>1, <4>1, WrittenOne
      <4>3. QED
        BY <1>0, <2>1, <3>1, <4>1, <4>2, WrittenOne
    <3>2. CASE UNCHANGED out
      BY <1>0, <2>1, <3>2 DEF CryptoTypeOK
    <3>3. QED
      BY <1>3, <3>1, <3>2 DEF Denied, ChallengeFails
  <2>3. CryptoTypeOK' /\ Others(c)
    BY <1>0, <1>3, <2>2 DEF Denied, ChallengeFails, CryptoTypeOK, Others
  <2>4. pc'[c] = "done" /\ authed'[c] = authed[c] /\ step'[c] = step[c]
    BY <1>0, <1>3 DEF Denied, ChallengeFails, CryptoTypeOK
  <2>5. Greeted(c)'
    BY <2>1, <2>2, <2>4 DEF Greeted
  <2>6. Handshake(c)' /\ Checked(c)'
    BY <1>0, <1>3, <2>1, <2>4 DEF Denied, ChallengeFails, Handshake, Checked
  <2>7. QED
    BY <1>0, <1>3, <2>3, <2>5, <2>6, OthersKept, AttributedKept
    DEF Denied, ChallengeFails
<1>4. CASE Challenge(c)
  <2>1. did[c] \in Device /\ devices[did[c]] \in Row /\ devices[did[c]].key \in Key
    <3>1. did[c] \in Device
      BY <1>4, Identified DEF Challenge
    <3>2. devices[did[c]] \in Row
      BY <1>4, <3>1 DEF Challenge, IsInService, Live, Exists, CryptoInv, StoreTypeOK
    <3>3. QED
      BY <3>1, <3>2 DEF Row
  <2>2. \E k \in Key : <<did[c], k, TRUE>> \in hist
    <3>1. devices[did[c]].inService = TRUE
      BY <1>4, <2>1 DEF Challenge, IsInService, Row
    <3>2. QED
      BY <1>4, <2>1, <3>1 DEF Challenge, IsInService, CryptoInv, TableKnown
  <2>3. /\ out' \in [Conn -> Seq(Reply)] /\ \A d \in Conn \ {c} : out'[d] = out[d]
        /\ Len(out'[c]) = Len(out[c]) + 1
        /\ out'[c][Len(out[c]) + 1] = "Challenge"
    BY <1>0, <1>4, WrittenOne DEF Challenge, Reply
  <2>4. CryptoTypeOK' /\ Others(c)
    <3>1. nonces' \in Nat /\ nonce' \in [Conn -> Nat]
      BY <1>0, <1>4 DEF Challenge, CryptoTypeOK
    <3>2. QED
      BY <1>0, <1>4, <2>3, <3>1 DEF Challenge, CryptoTypeOK, Others
  <2>5. /\ pc[c] = "service" /\ step[c] = "WaitParam" /\ Len(out[c]) = 0
        /\ pc'[c] = "read" /\ step'[c] = "WaitAuth" /\ nonce'[c] # 0
        /\ ~authed[c] /\ authed'[c] = authed[c]
    BY <1>0, <1>4 DEF Challenge, Handshake, Greeted, CryptoTypeOK
  <2>6. Handshake(c)'
    BY <1>0, <1>4, <2>5 DEF Challenge, Handshake
  <2>7. Checked(c)'
    BY <1>0, <1>4, <2>2, <2>5 DEF Challenge, Checked, Handshake
  <2>8. Greeted(c)'
    BY <2>3, <2>5 DEF Greeted
  <2>9. QED
    BY <1>0, <1>4, <2>4, <2>6, <2>7, <2>8, OthersKept, AttributedKept
    DEF Challenge
<1>5. CASE Authorized(c) \/ Subscribe(c)
  <2>1. CryptoTypeOK' /\ Others(c)
    BY <1>0, <1>5 DEF Authorized, Subscribe, CryptoTypeOK, Others, ioVars
  <2>2. \/ /\ pc[c] = "seen" /\ pc'[c] = "subscribe" /\ step'[c] = "Done"
           /\ subscribed' = subscribed
        \/ /\ pc[c] = "subscribe" /\ pc'[c] = "read" /\ step'[c] = step[c]
           /\ subscribed' = subscribed \union {c}
    BY <1>0, <1>5 DEF Authorized, Subscribe, CryptoTypeOK, ioVars
  <2>3. Handshake(c)' /\ Checked(c)' /\ Greeted(c)'
    BY <1>0, <1>5, <2>2
    DEF Authorized, Subscribe, Handshake, Checked, Greeted, ioVars
  <2>4. QED
    BY <1>0, <1>5, <2>1, <2>3, OthersKept, AttributedKept
    DEF Authorized, Subscribe, ioVars
<1>6. CASE Broadcast(c)
  <2>1. authed[c] /\ did[c] \in Device
    BY <1>0, <1>6, Identified DEF Broadcast, Handshake
  <2>2. [conn |-> c, did |-> did[c]] \in Message
    BY <2>1 DEF Message
  <2>3. CryptoTypeOK' /\ Others(c)
    <3>1. published' \in Seq(Message)
      BY <1>0, <1>6, <2>2 DEF Broadcast, CryptoTypeOK
    <3>2. QED
      BY <1>0, <1>6, <3>1 DEF Broadcast, CryptoTypeOK, Others
  <2>4. Handshake(c)' /\ Checked(c)' /\ Greeted(c)'
    <3>1. pc[c] = "broadcast" /\ pc'[c] = "read" /\ step[c] = "Done"
      BY <1>0, <1>6 DEF Broadcast, CryptoTypeOK, Handshake
    <3>2. QED
      BY <1>0, <1>6, <3>1 DEF Broadcast, Handshake, Checked, Greeted
  <2>5. Attributed'
    <3>1. \A e \in Conn, d \in Device : Registered(e, d) => Registered(e, d)'
      BY DEF Registered
    <3>2. Registered(c, did[c])
      BY <1>0, <2>1 DEF Registered, Checked, CryptoTypeOK, Handshake
    <3>3. \A m \in measured' : m[1] \in Conn /\ m[2] \in Device /\ m \in measured
      BY <1>0, <1>6 DEF Broadcast, CryptoTypeOK
    <3>4. \A i \in DOMAIN published' :
            \/ i \in DOMAIN published /\ published'[i] = published[i]
            \/ published'[i] = [conn |-> c, did |-> did[c]]
      BY <1>0, <1>6, <2>2 DEF Broadcast, CryptoTypeOK
    <3>5. \A i \in DOMAIN published : published[i] \in Message
      BY <1>0 DEF CryptoTypeOK
    <3>6. ASSUME NEW i \in DOMAIN published'
          PROVE  Registered(published[i].conn, published[i].did)'
      <4>1. CASE i \in DOMAIN published /\ published'[i] = published[i]
        <5>1. /\ published[i].conn \in Conn /\ published[i].did \in Device
              /\ Registered(published[i].conn, published[i].did)
          BY <1>0, <3>5, <4>1 DEF Message, Attributed
        <5>2. QED
          BY <3>1, <4>1, <5>1 DEF Registered
      <4>2. CASE published'[i] = [conn |-> c, did |-> did[c]]
        <5>1. published'[i].conn = c /\ published'[i].did = did[c]
          BY <4>2
        <5>2. QED
          BY <2>1, <3>1, <3>2, <5>1 DEF Registered
      <4>3. QED
        BY <3>4, <4>1, <4>2
    <3>7. \A m \in measured' : Registered(m[1], m[2])'
      BY <1>0, <3>1, <3>3 DEF Attributed
    <3>8. QED
      BY <3>6, <3>7 DEF Attributed
  <2>6. QED
    BY <1>0, <2>3, <2>4, <2>5, OthersKept
<1>7. CASE Forward(c)
  <2>1. authed[c]
    BY <1>0, <1>7 DEF Forward, Handshake
  <2>2. /\ out' \in [Conn -> Seq(Reply)] /\ \A d \in Conn \ {c} : out'[d] = out[d]
        /\ Len(out'[c]) = Len(out[c]) + 1
        /\ \A i \in 1..Len(out[c]) : out'[c][i] = out[c][i]
    BY <1>0, <1>7, WrittenOne DEF Forward, Reply
  <2>3. CryptoTypeOK' /\ Others(c)
    BY <1>0, <1>7, <2>2 DEF Forward, CryptoTypeOK, Others, connVars
  <2>4. Greeted(c)'
    <3>1. step'[c] = step[c] /\ authed'[c] /\ pc'[c] = pc[c]
      BY <1>7, <2>1 DEF Forward, connVars
    <3>2. step[c] = "Done" \/ step[c] = "WaitAuth"
      BY <1>0, <2>1 DEF Handshake
    <3>3. QED
      BY <1>0, <2>1, <2>2, <3>1, <3>2 DEF Greeted
  <2>5. Handshake(c)' /\ Checked(c)'
    BY <1>0, <1>7 DEF Forward, connVars, Handshake, Checked
  <2>6. QED
    BY <1>0, <1>7, <2>3, <2>4, <2>5, OthersKept, AttributedKept DEF Forward
<1>8. CASE Unsubscribe(c)
  <2>1. CryptoTypeOK' /\ Others(c)
    BY <1>0, <1>8 DEF Unsubscribe, CryptoTypeOK, Others, connVars
  <2>2. Handshake(c)' /\ Checked(c)' /\ Greeted(c)'
    BY <1>0, <1>8 DEF Unsubscribe, connVars, Handshake, Checked, Greeted
  <2>3. QED
    BY <1>0, <1>8, <2>1, <2>2, OthersKept, AttributedKept DEF Unsubscribe
<1>9. QED
  BY <1>1, <1>2, <1>3, <1>4, <1>5, <1>6, <1>7, <1>8 DEF Continue

\* Every statement on the devices table leaves rows of their type.
LEMMA TableTyped ==
  ASSUME StoreTypeOK, [StoreNext]_dsVars
  PROVE  StoreTypeOK'
<1>1. ASSUME NEW d \in Device, NEW r \in Row \union {NoRow}, rows' = rows,
             devices' = [devices EXCEPT ![d] = r]
      PROVE  StoreTypeOK'
  BY <1>1 DEF StoreTypeOK
<1>2. \A d \in Device : Exists(d) => devices[d] \in Row
  BY DEF Exists, StoreTypeOK
<1>3. ASSUME NEW d \in Device, NEW k \in Key, NEW s \in BOOLEAN, Add(d, k, s)
      PROVE  StoreTypeOK'
  BY <1>3, MaxRowsAssumption DEF Add, StoreTypeOK, Row
<1>4. ASSUME NEW d \in Device, SoftDelete(d) \/ Restore(d) PROVE StoreTypeOK'
  BY <1>1, <1>2, <1>4 DEF SoftDelete, Restore, Live, Row
<1>5. ASSUME NEW d \in Device, HardDelete(d) PROVE StoreTypeOK'
  BY <1>1, <1>5 DEF HardDelete
<1>6. ASSUME NEW d \in Device, NEW s \in BOOLEAN, SetInService(d, s)
      PROVE  StoreTypeOK'
  BY <1>1, <1>2, <1>6 DEF SetInService, Live, Row
<1>7. ASSUME NEW d \in Device, NEW k \in Key, SetPublicKey(d, k)
      PROVE  StoreTypeOK'
  BY <1>1, <1>2, <1>7 DEF SetPublicKey, Live, Row
<1>8. ASSUME NEW d \in Device, NEW e \in Device, Rename(d, e) PROVE StoreTypeOK'
  BY <1>8 DEF Rename, StoreTypeOK
<1>9. ASSUME NEW d \in Device, UpdateLastSeen(d) PROVE StoreTypeOK'
  BY <1>1, <1>2, <1>9 DEF UpdateLastSeen, Seen, Live, Row, StoreTypeOK
<1>10. CASE UNCHANGED dsVars
  BY <1>10 DEF dsVars, StoreTypeOK
<1>11. QED
  BY <1>3, <1>4, <1>5, <1>6, <1>7, <1>8, <1>9, <1>10
  DEF StoreNext, WebRequest, WebEdit, WebPurge

LEMMA CryptoStep == CryptoInv /\ [Next]_vars => CryptoInv'
<1> SUFFICES ASSUME CryptoInv, [Next]_vars PROVE CryptoInv'
  OBVIOUS
<1>1. hist \subseteq hist' /\ hold' = hold /\ TableKnown' /\ StoreTypeOK'
  BY TableStep, TableTyped DEF CryptoInv
<1>2. NoncesFresh' /\ SignaturesMade'
  BY NoncesFreshStep, SignaturesStep
<1>3. CASE Web \/ UNCHANGED vars
  <2>1. UNCHANGED <<connVars, ioVars, nonces>>
    BY <1>3 DEF Web, vars, connVars, ioVars
  <2>2. CryptoTypeOK'
    BY <1>1, <2>1 DEF CryptoInv, CryptoTypeOK, connVars, ioVars
  <2>3. Attributed'
    BY <1>1, <2>1, AttributedKept DEF CryptoInv, ioVars
  <2>4. ASSUME NEW c \in Conn
        PROVE  Handshake(c)' /\ Checked(c)' /\ Greeted(c)'
    <3>1. Handshake(c) /\ Checked(c) /\ Greeted(c)
      BY DEF CryptoInv, ConnInv
    <3>2. QED
      BY <1>1, <2>1, <3>1 DEF connVars, ioVars, Handshake, Checked, Greeted
  <2>5. QED
    BY <1>1, <1>2, <2>2, <2>3, <2>4 DEF CryptoInv, ConnInv
<1>4. CASE Next /\ ~Web
  <2>1. CryptoTypeOK' /\ ConnInv' /\ Attributed'
    BY <1>1, <1>4, HandleStep, ContinueStep DEF Next
  <2>2. QED
    BY <1>1, <1>2, <2>1 DEF CryptoInv
<1>5. QED
  BY <1>3, <1>4

\* The inductive invariant: what every connection knows at every point of
\* its handshake, and who made which signature.
THEOREM CryptoInvariant == Spec => []CryptoInv
  BY CryptoInit, CryptoStep, PTL DEF Spec

\* The read loops and the web interface together use the devices table only
\* through the statements of the store: what holds of StoreSpec holds here.
THEOREM ServerUsesStore == Spec => StoreSpec
<1>1. Init => StoreInit
  BY DEF Init
<1>2. CryptoInv /\ [Next]_vars => [StoreNext]_dsVars
  BY TableStep
<1>3. QED
  BY <1>1, <1>2, CryptoInvariant, PTL DEF Spec, StoreSpec

\* A connection is authenticated only when its peer holds the private half of
\* a key that was registered for the device ID it carries, of a device that
\* has been in service (handleAuth).
THEOREM AuthenticSafe == Spec => []Authentic
<1>1. CryptoInv => Authentic
  BY DEF CryptoInv, ConnInv, CryptoTypeOK, Handshake, Checked, Authentic,
         Registered
<1>2. QED
  BY <1>1, CryptoInvariant, PTL

\* Every broadcast and every measurement carries a device ID that its sender
\* has proved (the auth gate and cmd0x59).
THEOREM AttributedSafe == Spec => []Attributed
<1>1. CryptoInv => Attributed
  BY DEF CryptoInv
<1>2. QED
  BY <1>1, CryptoInvariant, PTL

\* No broadcast and no time is written to a connection before the challenge,
\* the OK and the "Authorized" of its handshake (Subscribe comes last).
THEOREM HandshakeFirstSafe == Spec => []HandshakeFirst
<1>1. CryptoInv => HandshakeFirst
  <2> SUFFICES ASSUME CryptoInv, NEW c \in Conn, NEW i \in DOMAIN out[c],
                      out[c][i] \in {"Broadcast", "Time"}
               PROVE  i > 3 /\ out[c][1] = "Challenge" /\ out[c][2] = "OK"
                      /\ out[c][3] = "Authorized"
    BY DEF HandshakeFirst
  <2>1. i \in 1..Len(out[c]) /\ Greeted(c)
    BY DEF CryptoInv, CryptoTypeOK, ConnInv
  <2>2. QED
    BY <2>1 DEF Greeted
<1>2. QED
  BY <1>1, CryptoInvariant, PTL

\* No frame and no request of the web interface changes the device ID, the
\* key or the challenge of a connection once it has one, or takes its
\* authorization away.
THEOREM IdentitySafe == Spec => IdentityFixed
<1> DEFINE Fixed(c) == /\ did[c] # NoDev => did'[c] = did[c]
                       /\ key[c] # NoKey => key'[c] = key[c]
                       /\ nonce[c] # 0 => nonce'[c] = nonce[c]
                       /\ authed[c] => authed'[c]
<1>1. CryptoInv /\ [Next]_vars => \A d \in Conn : Fixed(d)
  <2> SUFFICES ASSUME CryptoInv, [Next]_vars, NEW d \in Conn PROVE Fixed(d)
    OBVIOUS
  <2>0. CryptoTypeOK /\ \A c \in Conn : Handshake(c)
    BY DEF CryptoInv, ConnInv
  <2>1. ASSUME NEW c \in Conn, NEW f \in Frames(c), Handle(c, f)
        PROVE  Fixed(d)
    <3>1. CASE ParamRequest(c, f)
      <4>1. did[c] = NoDev
        BY <2>0, <3>1 DEF ParamRequest, Receives, Handshake
      <4>2. QED
        BY <2>0, <3>1, <4>1 DEF ParamRequest, CryptoTypeOK
    <3>2. CASE Authorize(c, f)
      BY <2>0, <3>2 DEF Authorize, CryptoTypeOK
    <3>3. CASE Ignored(c, f) \/ ParamRefused(c, f) \/ AuthRefused(c, f)
               \/ Heartbeat(c, f) \/ Regular(c, f)
      BY <3>3 DEF Ignored, ParamRefused, AuthRefused, Heartbeat, Regular, connVars
    <3>4. QED
      BY <2>1, <3>1, <3>2, <3>3 DEF Handle
  <2>2. ASSUME NEW c \in Conn, GetKey(c)
        PROVE  Fixed(d)
    <3>1. key[c] = NoKey
      BY <2>0, <2>2 DEF GetKey, Handshake
    <3>2. QED
      BY <2>0, <2>2, <3>1 DEF GetKey, CryptoTypeOK
  <2>3. ASSUME NEW c \in Conn, Challenge(c)
        PROVE  Fixed(d)
    <3>1. nonce[c] = 0
      BY <2>0, <2>3 DEF Challenge, Handshake
    <3>2. QED
      BY <2>0, <2>3, <3>1 DEF Challenge, CryptoTypeOK
  <2>4. ASSUME NEW c \in Conn,
               \/ Accept(c) \/ ReadError(c) \/ Expire(c) \/ Denied(c)
               \/ ChallengeFails(c) \/ Authorized(c) \/ Subscribe(c)
               \/ Broadcast(c) \/ Forward(c) \/ Unsubscribe(c)
        PROVE  Fixed(d)
    BY <2>4 DEF Accept, ReadError, Expire, Denied, ChallengeFails, Authorized,
                Subscribe, Broadcast, Forward, Unsubscribe, connVars
  <2>5. CASE Web \/ UNCHANGED vars
    BY <2>5 DEF Web, connVars, vars
  <2>6. QED
    BY <2>1, <2>2, <2>3, <2>4, <2>5 DEF Next, Continue
<1>2. CryptoInv /\ [Next]_vars =>
        [\A c \in Conn : /\ did[c] # NoDev => did'[c] = did[c]
                         /\ key[c] # NoKey => key'[c] = key[c]
                         /\ nonce[c] # 0 => nonce'[c] = nonce[c]
                         /\ authed[c] => authed'[c]]_vars
  BY <1>1
<1>3. QED
  BY <1>2, CryptoInvariant, PTL DEF Spec, IdentityFixed

----------------------------------------------------------------------------
(* The frames (Frame).                                                     *)
(*                                                                         *)
(* A change of one byte changes the CRC: so it does in each step of the    *)
(* loop from that byte on, because ^ is injective (CrcDiffers).  What is   *)
(* read from a stream is right because the frames still to be read lie one *)
(* behind the other in buf \o wire, without a preamble outside of them     *)
(* (Layout): the reader stands before the first of them, or within it.     *)

\* c has the values of crc in crcCalc after each of the first n bytes.
Runs(c, raw, n) ==
  c[1] = raw[1] /\ \A i \in 2..n : c[i] = XorByte(c[i - 1], raw[i])

LEMMA RunExists ==
  ASSUME NEW raw, NEW N \in Nat, N >= 1,
         \A i \in 1..N : raw[i] \in Byte
  PROVE  \E c \in [1..N -> Byte] : Runs(c, raw, N)
<1> DEFINE B == Byte
           T == {n \in Nat : n + 1 <= N =>
                               \E c \in [1..(n + 1) -> B] : Runs(c, raw, n + 1)}
<1> HIDE DEF B
<1>0. \A i \in 1..N : raw[i] \in B
  BY DEF B
<1>1. \A a, b \in B : XorByte(a, b) \in B
  BY XorAssumption DEF B
<1>2. 0 \in T
  <2>1. PICK c : c = [i \in 1..1 |-> raw[1]]
    OBVIOUS
  <2>2. c \in [1..(0 + 1) -> B] /\ Runs(c, raw, 0 + 1)
    BY <1>0, <2>1 DEF Runs
  <2>3. QED
    BY <2>2
<1>3. ASSUME NEW n \in Nat, n \in T PROVE n + 1 \in T
  <2> SUFFICES ASSUME n + 1 + 1 <= N
               PROVE  \E d \in [1..(n + 1 + 1) -> B] : Runs(d, raw, n + 1 + 1)
    OBVIOUS
  <2>1. PICK c \in [1..(n + 1) -> B] : Runs(c, raw, n + 1)
    BY <1>3
  <2>2. PICK x : x = XorByte(c[n + 1], raw[n + 2])
    OBVIOUS
  <2>3. x \in B
    <3>1. c[n + 1] \in B /\ raw[n + 2] \in B
      BY <1>0, <2>1
    <3>2. QED
      BY <1>1, <2>2, <3>1
  <2>4. PICK d : d = [i \in 1..(n + 1 + 1) |-> IF i = n + 2 THEN x ELSE c[i]]
    OBVIOUS
  <2>5. d \in [1..(n + 1 + 1) -> B]
    BY <2>1, <2>3, <2>4
  <2>6. /\ \A i \in 1..(n + 1) : d[i] = c[i]
        /\ d[n + 2] = x
    BY <2>4
  <2>7. ASSUME NEW i \in 2..(n + 1 + 1) PROVE d[i] = XorByte(d[i - 1], raw[i])
    <3>1. i - 1 \in 1..(n + 1)
      OBVIOUS
    <3>2. CASE i = n + 2
      BY <2>2, <2>6, <3>1, <3>2
    <3>3. CASE i # n + 2
      BY <2>1, <2>6, <3>1, <3>3 DEF Runs
    <3>4. QED
      BY <3>2, <3>3
  <2>8. d[1] = raw[1]
    BY <2>1, <2>6 DEF Runs
  <2>9. QED
    BY <2>5, <2>7, <2>8 DEF Runs
<1> HIDE DEF T
<1>4. Nat \subseteq T
  BY <1>2, <1>3, InductionSet
<1>5. N - 1 \in T /\ (N - 1) + 1 = N
  BY <1>4
<1>6. QED
  BY <1>5 DEF T, B

\* What crcCalc computes: the last value of crc.
LEMMA CrcIs ==
  ASSUME NEW raw \in Seq(Byte), NEW N \in Nat, N = Len(raw),
         N >= 1
  PROVE  \E c : /\ Runs(c, raw, N) /\ \A i \in 1..N : c[i] \in Byte
                /\ CrcCalc(raw) = c[N]
<1> DEFINE Step(g) == [i \in 1..N |-> IF i = 1 THEN raw[1]
                                               ELSE XorByte(g[i - 1], raw[i])]
           f == CHOOSE g : g = Step(g)
           T == {n \in Nat : n + 1 <= N => f[n + 1] \in Byte}
<1>1. \A i \in 1..N : raw[i] \in Byte
  BY ElementOfSeq
<1>2. PICK c \in [1..N -> Byte] : Runs(c, raw, N)
  BY <1>1, RunExists
<1>3. c = Step(c)
  BY <1>2 DEF Runs
<1>4. f = Step(f)
  BY <1>3, Zenon
<1>5. CrcCalc(raw) = f[N]
  <2>1. raw # <<>>
    BY EmptySeq
  <2>2. QED
    BY <2>1 DEF CrcCalc
<1> HIDE DEF f
<1>6. Runs(f, raw, N)
  BY <1>4 DEF Runs
<1>7. 0 \in T
  BY <1>1, <1>6 DEF Runs
<1>8. ASSUME NEW n \in Nat, n \in T PROVE n + 1 \in T
  <2> SUFFICES ASSUME n + 1 + 1 <= N PROVE f[n + 1 + 1] \in Byte
    OBVIOUS
  <2>1. f[n + 1] \in Byte /\ raw[n + 2] \in Byte
    BY <1>1, <1>8
  <2>2. n + 2 \in 2..N /\ (n + 2) - 1 = n + 1
    OBVIOUS
  <2>3. f[n + 2] = XorByte(f[n + 1], raw[n + 2])
    BY <1>6, <2>2 DEF Runs
  <2>4. QED
    BY <2>1, <2>3, XorAssumption
<1> HIDE DEF T
<1>9. Nat \subseteq T
  BY <1>7, <1>8, InductionSet
<1>10. ASSUME NEW i \in 1..N PROVE f[i] \in Byte
  <2>1. i - 1 \in T /\ (i - 1) + 1 = i
    BY <1>9
  <2>2. QED
    BY <2>1 DEF T
<1>11. QED
  BY <1>5, <1>6, <1>10

\* XOR notices every change of one byte.
LEMMA CrcDiffers ==
  ASSUME NEW raw \in Seq(Byte), NEW other \in Seq(Byte),
         NEW N \in Nat, N = Len(raw), N = Len(other), NEW k \in 1..N,
         raw[k] # other[k], \A i \in 1..N : i # k => raw[i] = other[i]
  PROVE  CrcCalc(raw) # CrcCalc(other)
<1>0. N >= 1
  OBVIOUS
<1>1. PICK c : /\ Runs(c, raw, N) /\ \A i \in 1..N : c[i] \in Byte
               /\ CrcCalc(raw) = c[N]
  BY <1>0, CrcIs
<1>2. PICK d : /\ Runs(d, other, N) /\ \A i \in 1..N : d[i] \in Byte
               /\ CrcCalc(other) = d[N]
  BY <1>0, CrcIs
<1>3. \A i \in 1..N : raw[i] \in Byte /\ other[i] \in Byte
  BY ElementOfSeq
<1> DEFINE Same(i) == IF i < k THEN c[i] = d[i] ELSE c[i] # d[i]
           T == {n \in Nat : n + 1 <= N => Same(n + 1)}
<1>4. 0 \in T
  BY <1>1, <1>2 DEF Runs
<1>5. ASSUME NEW n \in Nat, n \in T PROVE n + 1 \in T
  <2> SUFFICES ASSUME n + 1 + 1 <= N PROVE Same(n + 1 + 1)
    OBVIOUS
  <2>1. n + 2 \in 2..N /\ (n + 2) - 1 = n + 1
    OBVIOUS
  <2>2. /\ c[n + 2] = XorByte(c[n + 1], raw[n + 2])
        /\ d[n + 2] = XorByte(d[n + 1], other[n + 2])
    BY <1>1, <1>2, <2>1 DEF Runs
  <2>3. /\ c[n + 1] \in Byte /\ d[n + 1] \in Byte
        /\ raw[n + 2] \in Byte /\ other[n + 2] \in Byte
    <3>1. n + 1 \in 1..N /\ n + 2 \in 1..N
      OBVIOUS
    <3>2. QED
      BY <1>1, <1>2, <1>3, <3>1
  <2>4. Same(n + 1)
    BY <1>5
  <2>5. CASE n + 2 < k
    BY <2>2, <2>4, <2>5
  <2>6. CASE n + 2 = k
    <3>1. c[n + 1] = d[n + 1] /\ raw[n + 2] # other[n + 2]
      BY <2>4, <2>6
    <3>2. d[n + 2] = XorByte(c[n + 1], other[n + 2])
      BY <2>2, <3>1
    <3>3. c[n + 2] # d[n + 2]
      BY <2>2, <2>3, <3>1, <3>2, XorAssumption, Zenon
    <3>4. QED
      BY <2>6, <3>3
  <2>7. CASE n + 2 > k
    <3>1. c[n + 1] # d[n + 1] /\ raw[n + 2] = other[n + 2]
      BY <2>4, <2>7
    <3>2. c[n + 2] # d[n + 2]
      BY <2>2, <2>3, <3>1, XorAssumption
    <3>3. QED
      BY <2>7, <3>2
  <2>8. QED
    BY <2>5, <2>6, <2>7
<1> HIDE DEF T
<1>6. Nat \subseteq T
  BY <1>4, <1>5, InductionSet
<1>7. N - 1 \in T /\ (N - 1) + 1 = N
  BY <1>6
<1>8. c[N] # d[N]
  BY <1>7 DEF T
<1>9. QED
  BY <1>1, <1>2, <1>8

\* The bytes of f on the wire.
Coded(raw, f) ==
  /\ raw \in Seq(Byte) /\ Len(raw) = Len(f.data) + 6
  /\ raw[1] = Preamble /\ raw[2] = f.addr /\ raw[3] = f.cmd
  /\ raw[4] = Len(f.data) % Base /\ raw[5] = Len(f.data) \div Base
  /\ \A i \in 1..Len(f.data) : raw[i + 5] = f.data[i]
  /\ raw[Len(f.data) + 6] = CrcCalc(SubSeq(raw, 1, Len(f.data) + 5))

LEMMA WireFacts ==
  ASSUME NEW f \in WireFrame
  PROVE  /\ f.addr \in Byte /\ f.cmd \in Byte /\ f.data \in Seq(Byte)
         /\ Len(f.data) \in Nat /\ Len(f.data) <= MaxDataLen
         /\ f = [addr |-> f.addr, cmd |-> f.cmd, data |-> f.data]
         /\ f \in Frame
<1>1. f \in Frame /\ Len(f.data) <= MaxDataLen
  BY FramesAssumption
<1>2. f \in [addr : Byte, cmd : Byte, data : Seq(Byte)]
  BY <1>1 DEF Frame
<1>3. Len(f.data) \in Nat
  BY <1>2, LenProperties
<1>4. QED
  BY <1>1, <1>2, <1>3

\* Two bytes hold the length.
LEMMA LengthBytes ==
  ASSUME NEW n \in Nat, n <= MaxDataLen
  PROVE  /\ n % Base \in Byte /\ n \div Base \in Byte
         /\ GetLen(n % Base, n \div Base) = n
         /\ \A b \in Byte : /\ GetLen(b, n \div Base) = n => b = n % Base
                            /\ GetLen(n % Base, b) = n => b = n \div Base
<1>1. PICK B \in Nat : B = Base /\ B >= 1
  BY BaseAssumption
<1>2. n < B * B
  BY <1>1, LimitAssumption
<1>3. PICK q \in Int, r \in Int : q = n \div B /\ r = n % B
  BY <1>1
<1>4. r \in 0..(B - 1) /\ q >= 0 /\ n = B * q + r
  BY <1>1, <1>3
<1>5. q < B
  <2> SUFFICES ASSUME q >= B PROVE FALSE
    BY <1>1, <1>3
  <2>1. B * q >= B * B
    BY <1>1
  <2>2. QED
    BY <1>1, <1>2, <1>4, <2>1
<1>6. ASSUME NEW b \in 0..(B - 1), r + B * b = n PROVE b = q
  <2>1. B * b = B * q /\ B # 0
    BY <1>1, <1>4, <1>6
  <2>2. b < q => B * (q - b) >= B
    BY <1>1
  <2>3. b > q => B * (b - q) >= B
    BY <1>1
  <2>4. B * (q - b) = B * q - B * b /\ B * (b - q) = B * b - B * q
    BY <1>1
  <2>5. QED
    BY <1>1, <2>1, <2>2, <2>3, <2>4
<1>7. Byte = 0..(B - 1)
  BY <1>1 DEF Byte
<1>8. \A x, y : GetLen(x, y) = x + B * y
  BY <1>1 DEF GetLen
<1>9. \A b \in 0..(B - 1) : b + B * q = n => b = r
  BY <1>1, <1>4
<1>10. q \in 0..(B - 1) /\ r + B * q = n
  BY <1>1, <1>4, <1>5
<1>11. /\ r \in Byte /\ q \in Byte
       /\ GetLen(r, q) = n
       /\ \A b \in Byte : /\ GetLen(b, q) = n => b = r
                          /\ GetLen(r, b) = n => b = q
  BY <1>4, <1>6, <1>7, <1>8, <1>9, <1>10
<1>12. QED
  BY <1>1, <1>3, <1>11

LEMMA Encoded ==
  ASSUME NEW f \in WireFrame
  PROVE  Coded(EncodeFrame(f), f)
<1> DEFINE B == Byte
<1> HIDE DEF B
<1>1. PICK L \in Nat : L = Len(f.data) /\ L <= MaxDataLen
  BY WireFacts
<1>2. PICK d \in Seq(B) : d = f.data
  BY WireFacts DEF B
<1>3. Preamble \in B /\ f.addr \in B /\ f.cmd \in B /\ L % Base \in B /\ L \div Base \in B
  <2>1. Preamble \in B
    BY BaseAssumption DEF B
  <2>2. QED
    BY <1>1, <2>1, WireFacts, LengthBytes DEF B
<1>4. PICK x \in Seq(B) : x = <<Preamble, f.addr, f.cmd>>
  <2>1. <<Preamble, f.addr, f.cmd>> \in Seq(B)
    BY <1>3
  <2>2. QED
    BY <2>1, Zenon
<1>5. PICK y \in Seq(B) : y = <<L % Base, L \div Base>>
  <2>1. <<L % Base, L \div Base>> \in Seq(B)
    BY <1>3
  <2>2. QED
    BY <2>1, Zenon
<1>6. PICK z \in Seq(B) : z = x \o y
  BY ConcatProperties
<1>7. Len(x) = 3 /\ Len(y) = 2 /\ Len(z) = 5
  BY <1>4, <1>5, <1>6, ConcatProperties
<1>8. /\ z[1] = Preamble /\ z[2] = f.addr /\ z[3] = f.cmd
      /\ z[4] = L % Base /\ z[5] = L \div Base
  <2>1. \A i \in 1..5 : z[i] = IF i <= 3 THEN x[i] ELSE y[i - 3]
    BY <1>6, <1>7, ConcatProperties
  <2>2. z[1] = x[1] /\ z[2] = x[2] /\ z[3] = x[3] /\ z[4] = y[1] /\ z[5] = y[2]
    BY <2>1
  <2>3. QED
    BY <1>4, <1>5, <2>2
<1>9. PICK w \in Seq(B) : w = z \o d
  BY ConcatProperties
<1>10. /\ Len(w) = L + 5
       /\ \A i \in 1..(L + 5) : w[i] = IF i <= 5 THEN z[i] ELSE d[i - 5]
  <2>1. /\ Len(w) = Len(z) + Len(d)
        /\ \A i \in 1..(Len(z) + Len(d)) : w[i] = IF i <= Len(z) THEN z[i]
                                                                 ELSE d[i - Len(z)]
    BY <1>9, ConcatProperties
  <2>2. Len(d) = L /\ Len(z) = 5 /\ 5 + L = L + 5
    BY <1>1, <1>2, <1>7
  <2>3. QED
    BY <2>1, <2>2
<1>11. PICK c \in B : c = CrcCalc(w)
  <2>1. PICK m \in Nat : m = Len(w) /\ m >= 1
    <3>1. L + 5 \in Nat /\ L + 5 >= 1
      OBVIOUS
    <3>2. QED
      BY <1>10, <3>1
  <2>2. PICK e : /\ \A i \in 1..m : e[i] \in Byte
                 /\ CrcCalc(w) = e[m]
    BY <2>1, CrcIs DEF B
  <2>3. QED
    BY <2>1, <2>2 DEF B
<1>12. PICK raw \in Seq(B) : raw = Append(w, c)
  BY AppendProperties
<1>13. /\ Len(raw) = L + 6 /\ raw[L + 6] = c
       /\ \A i \in 1..(L + 5) : raw[i] = w[i]
  BY <1>10, <1>12, AppendProperties
<1>14. EncodeFrame(f) = raw
  BY <1>1, <1>2, <1>4, <1>5, <1>6, <1>9, <1>11, <1>12
     DEF EncodeFrame, PutLen
<1>15. SubSeq(raw, 1, L + 5) = w
  <2>1. \A i \in 1..(L + 5) : raw[i] \in B
    BY <1>13, ElementOfSeq
  <2>2. /\ SubSeq(raw, 1, L + 5) \in Seq(B) /\ Len(SubSeq(raw, 1, L + 5)) = L + 5
        /\ \A i \in 1..(L + 5) : SubSeq(raw, 1, L + 5)[i] = raw[i]
    <3>1. L + 5 \in Int /\ 1 \in Int /\ 1 <= L + 5
      OBVIOUS
    <3>2. PICK s : s = SubSeq(raw, 1, L + 5)
      OBVIOUS
    <3>3. /\ s \in Seq(B) /\ Len(s) = IF 1 <= L + 5 THEN L + 5 - 1 + 1 ELSE 0
          /\ \A i \in 1..(L + 5 - 1 + 1) : s[i] = raw[1 + i - 1]
      BY <2>1, <3>1, <3>2, SubSeqProperties
    <3>4. QED
      BY <3>2, <3>3
  <2>3. QED
    BY <1>10, <1>13, <2>2, SeqEqual
<1>16. ASSUME NEW i \in 1..L PROVE raw[i + 5] = d[i]
  <2>1. i + 5 \in 1..(L + 5) /\ ~(i + 5 <= 5) /\ (i + 5) - 5 = i
    OBVIOUS
  <2>2. QED
    BY <1>10, <1>13, <2>1
<1>17. /\ raw[1] = Preamble /\ raw[2] = f.addr /\ raw[3] = f.cmd
       /\ raw[4] = L % Base /\ raw[5] = L \div Base
  BY <1>8, <1>10, <1>13
<1>18. QED
  BY <1>1, <1>2, <1>11, <1>13, <1>14, <1>15, <1>16, <1>17 DEF Coded, B

\* DecodeFrame takes back what EncodeFrame made.
LEMMA Decoded ==
  ASSUME NEW f \in WireFrame, NEW raw, Coded(raw, f)
  PROVE  DecodeFrame(raw) = f
<1>1. PICK L \in Nat : L = Len(f.data) /\ L <= MaxDataLen
  BY WireFacts
<1>2. /\ Len(raw) = L + 6 /\ raw[1] = Preamble /\ raw[2] = f.addr /\ raw[3] = f.cmd
      /\ raw[4] = L % Base /\ raw[5] = L \div Base
      /\ raw[L + 6] = CrcCalc(SubSeq(raw, 1, L + 5))
  BY <1>1 DEF Coded
<1>3. GetLen(raw[4], raw[5]) = L
  BY <1>1, <1>2, LengthBytes
<1>4. Front(raw) = SubSeq(raw, 1, L + 5) /\ Last(raw) = raw[L + 6]
  <2>1. L + 6 - 1 = L + 5
    OBVIOUS
  <2>2. QED
    BY <1>2, <2>1 DEF Front, Last
<1>5. SubSeq(raw, 6, L + 5) = f.data
  <2>1. PICK d \in Seq(Byte) : d = f.data /\ Len(d) = L
    BY <1>1, WireFacts
  <2>2. \A i \in 6..(L + 5) : raw[i] \in Byte
    <3>1. raw \in Seq(Byte)
      BY DEF Coded
    <3>2. QED
      BY <1>2, <3>1, ElementOfSeq
  <2>3. PICK s : s = SubSeq(raw, 6, L + 5)
    OBVIOUS
  <2>4. L + 5 \in Int /\ 6 \in Int
    OBVIOUS
  <2>5. /\ s \in Seq(Byte) /\ Len(s) = IF 6 <= L + 5 THEN L + 5 - 6 + 1 ELSE 0
        /\ \A i \in 1..(L + 5 - 6 + 1) : s[i] = raw[6 + i - 1]
    BY <2>2, <2>3, <2>4, SubSeqProperties
  <2>6. Len(s) = L /\ \A i \in 1..L : s[i] = raw[i + 5]
    BY <2>5
  <2>7. \A i \in 1..L : s[i] = d[i]
    BY <1>1, <2>1, <2>6 DEF Coded
  <2>8. s = d
    BY <2>1, <2>5, <2>6, <2>7, SeqEqual
  <2>9. QED
    BY <2>1, <2>3, <2>8
<1>6. L + 6 >= 6 /\ L + 6 - 1 = L + 5 /\ 6 + L = L + 6
  OBVIOUS
<1>7. f = [addr |-> raw[2], cmd |-> raw[3], data |-> SubSeq(raw, 6, L + 5)]
  BY <1>2, <1>5, WireFacts
<1>8. QED
  BY <1>1, <1>2, <1>3, <1>4, <1>6, <1>7 DEF DecodeFrame, MinLen

\* DecodeFrame refuses a frame with one byte changed.
LEMMA Refused ==
  ASSUME NEW f \in WireFrame, NEW raw, Coded(raw, f),
         NEW i \in 1..Len(raw), NEW b \in Byte, b # raw[i]
  PROVE  DecodeFrame([raw EXCEPT ![i] = b]) = Bad
<1>1. PICK L \in Nat : L = Len(f.data) /\ L <= MaxDataLen
  BY WireFacts
<1>2. /\ Len(raw) = L + 6 /\ raw[1] = Preamble
      /\ raw[4] = L % Base /\ raw[5] = L \div Base
      /\ raw[L + 6] = CrcCalc(SubSeq(raw, 1, L + 5))
  BY <1>1 DEF Coded
<1>3. PICK s \in Seq(Byte) : s = raw
  BY DEF Coded
<1>4. i \in 1..(L + 6)
  BY <1>2
<1>5. PICK t : t = [s EXCEPT ![i] = b]
  OBVIOUS
<1>6. /\ t \in Seq(Byte) /\ Len(t) = L + 6
      /\ \A j \in 1..(L + 6) : t[j] = IF j = i THEN b ELSE s[j]
  BY <1>2, <1>3, <1>5, ExceptSeq
<1>7. t[i] = b /\ \A j \in 1..(L + 6) : j # i => t[j] = s[j]
  BY <1>4, <1>6
<1> DEFINE Good == /\ t[1] = Preamble
                   /\ L + 6 = 6 + GetLen(t[4], t[5])
                   /\ CrcCalc(SubSeq(t, 1, L + 5)) = t[L + 6]
<1>8. DecodeFrame(t) = Bad \/ Good
  <2>1. Front(t) = SubSeq(t, 1, L + 5) /\ Last(t) = t[L + 6]
    <3>1. L + 6 - 1 = L + 5
      OBVIOUS
    <3>2. QED
      BY <1>6, <3>1 DEF Front, Last
  <2>2. QED
    BY <1>6, <2>1 DEF DecodeFrame, MinLen
<1>9. ~Good
  <2>1. CASE i = 1
    BY <1>2, <1>3, <1>7, <2>1
  <2>2. CASE i \in {4, 5}
    <3>1. t[1] = Preamble /\ (i = 4 => t[5] = L \div Base) /\ (i = 5 => t[4] = L % Base)
      BY <1>2, <1>3, <1>7, <2>2
    <3>2. GetLen(t[4], t[5]) # L
      <4>1. CASE i = 4
        BY <1>1, <1>2, <1>3, <1>7, <3>1, <4>1, LengthBytes
      <4>2. CASE i = 5
        BY <1>1, <1>2, <1>3, <1>7, <3>1, <4>2, LengthBytes
      <4>3. QED
        BY <2>2, <4>1, <4>2
    <3>3. QED
      <4>1. ASSUME NEW x, L + 6 = 6 + x, GetLen(t[4], t[5]) = x PROVE x \in Int
        <5>1. PICK B \in Nat : B = Base /\ B >= 1
          BY BaseAssumption
        <5>2. t[4] \in Byte /\ t[5] \in Byte
          BY <1>6, ElementOfSeq
        <5>3. t[4] \in Int /\ t[5] \in Int
          BY <5>1, <5>2 DEF Byte
        <5>4. QED
          BY <4>1, <5>1, <5>3 DEF GetLen
      <4>2. QED
        BY <3>2, <4>1
  <2>3. CASE i \in 1..(L + 5) /\ i \notin {1, 4, 5}
    <3>1. PICK u, v : u = SubSeq(s, 1, L + 5) /\ v = SubSeq(t, 1, L + 5)
      OBVIOUS
    <3>2. \A j \in 1..(L + 5) : s[j] \in Byte /\ t[j] \in Byte
      <4>1. Len(s) = L + 6 /\ Len(t) = L + 6
        BY <1>2, <1>3, <1>6
      <4>2. QED
        BY <1>6, <4>1, ElementOfSeq
    <3>3. L + 5 \in Int /\ 1 \in Int /\ L + 5 \in Nat /\ 1 <= L + 5 /\ L + 5 - 1 + 1 = L + 5
      OBVIOUS
    <3>4. /\ u \in Seq(Byte) /\ Len(u) = L + 5
          /\ \A j \in 1..(L + 5) : u[j] = s[1 + j - 1]
      BY <3>1, <3>2, <3>3, SubSeqProperties
    <3>5. /\ v \in Seq(Byte) /\ Len(v) = L + 5
          /\ \A j \in 1..(L + 5) : v[j] = t[1 + j - 1]
      BY <3>1, <3>2, <3>3, SubSeqProperties
    <3>6. \A j \in 1..(L + 5) : u[j] = s[j] /\ v[j] = t[j]
      BY <3>4, <3>5
    <3>7. u[i] # v[i] /\ \A j \in 1..(L + 5) : j # i => u[j] = v[j]
      BY <1>3, <1>7, <2>3, <3>6
    <3>8. CrcCalc(u) # CrcCalc(v)
      BY <2>3, <3>3, <3>4, <3>5, <3>7, CrcDiffers
    <3>9. t[L + 6] = CrcCalc(u)
      BY <1>2, <1>3, <1>7, <2>3, <3>1
    <3>10. QED
      BY <3>1, <3>8, <3>9
  <2>4. CASE i = L + 6
    <3>1. SubSeq(t, 1, L + 5) = SubSeq(s, 1, L + 5)
      <4>1. \A j \in 1..(L + 5) : t[j] = s[j]
        BY <1>7, <2>4
      <4>2. QED
        BY <4>1
    <3>2. t[L + 6] # s[L + 6]
      BY <1>3, <1>7, <2>4
    <3>3. QED
      BY <1>2, <1>3, <3>1, <3>2
  <2>5. QED
    BY <1>4, <2>1, <2>2, <2>3, <2>4
<1>10. QED
  BY <1>3, <1>5, <1>8, <1>9

\* What may be on the wire is what EncodeFrame makes of frames.
LEMMA CodecWorks ==
  ASSUME NEW f \in WireFrame
  PROVE  LET raw == EncodeFrame(f)
         IN  /\ DecodeFrame(raw) = f
             /\ \A i \in DOMAIN raw, b \in Byte :
                  b # raw[i] => DecodeFrame([raw EXCEPT ![i] = b]) = Bad
<1>1. PICK raw : raw = EncodeFrame(f) /\ Coded(raw, f)
  BY Encoded
<1>2. DOMAIN raw = 1..Len(raw)
  BY <1>1, LenProperties DEF Coded
<1>3. DecodeFrame(raw) = f
  BY <1>1, Decoded
<1>4. \A i \in 1..Len(raw), b \in Byte :
        b # raw[i] => DecodeFrame([raw EXCEPT ![i] = b]) = Bad
  BY <1>1, Refused
<1>5. QED
  BY <1>1, <1>2, <1>3, <1>4

\* The length of f on the wire.
Extent(f) == Len(f.data) + 6

LEMMA ExtentFacts ==
  ASSUME NEW f \in WireFrame
  PROVE  Extent(f) \in Nat /\ Extent(f) >= 6
<1>1. PICK L \in Nat : L = Len(f.data)
  BY WireFacts
<1>2. L + 6 \in Nat /\ L + 6 >= 6
  OBVIOUS
<1>3. QED
  BY <1>1, <1>2 DEF Extent

\* Bytes in the place of f: all as sent, or with a damaged one behind which
\* the reader will refuse the frame but not lose its end.
Arriving(raw, f, dam) ==
  /\ raw \in Seq(Byte) /\ Len(raw) = Extent(f)
  /\ raw[1] = Preamble /\ GetLen(raw[4], raw[5]) = Len(f.data)
  /\ DecodeFrame(raw) = f \/ (DecodeFrame(raw) = Bad /\ dam # "none")

LEMMA ArrivesWhole ==
  ASSUME NEW f \in WireFrame, NEW dam
  PROVE  Arriving(EncodeFrame(f), f, dam)
<1>1. PICK raw : raw = EncodeFrame(f) /\ Coded(raw, f)
  BY Encoded
<1>2. DecodeFrame(raw) = f
  BY <1>1, Decoded
<1>3. GetLen(raw[4], raw[5]) = Len(f.data)
  BY <1>1, WireFacts, LengthBytes DEF Coded
<1>4. QED
  BY <1>1, <1>2, <1>3 DEF Arriving, Coded, Extent

LEMMA ArrivesDamaged ==
  ASSUME NEW f \in WireFrame, NEW i \in DOMAIN EncodeFrame(f),
         NEW b \in Byte, b # EncodeFrame(f)[i], Field(i) = "content"
  PROVE  Arriving([EncodeFrame(f) EXCEPT ![i] = b], f, "content")
<1>1. PICK raw : raw = EncodeFrame(f) /\ Coded(raw, f)
  BY Encoded
<1>2. PICK s \in Seq(Byte) : s = raw
  BY <1>1 DEF Coded
<1>3. i \in 1..Len(s) /\ b # s[i]
  BY <1>1, <1>2, LenProperties
<1>4. PICK t : t = [s EXCEPT ![i] = b]
  OBVIOUS
<1>5. /\ t \in Seq(Byte) /\ Len(t) = Len(s)
      /\ \A j \in 1..Len(s) : t[j] = IF j = i THEN b ELSE s[j]
  BY <1>3, <1>4, ExceptSeq
<1>6. i # 1 /\ i # 4 /\ i # 5
  BY DEF Field
<1>7. t[1] = s[1] /\ t[4] = s[4] /\ t[5] = s[5]
  <2>1. PICK L \in Nat : L = Len(f.data) /\ Len(s) = L + 6
    BY <1>1, <1>2, WireFacts DEF Coded
  <2>2. 1 \in 1..Len(s) /\ 4 \in 1..Len(s) /\ 5 \in 1..Len(s)
    BY <2>1
  <2>3. QED
    BY <1>5, <1>6, <2>2
<1>8. DecodeFrame(t) = Bad
  BY <1>1, <1>2, <1>3, <1>4, Refused
<1>9. Arriving(s, f, "content")
  BY <1>1, <1>2, ArrivesWhole
<1>10. QED
  BY <1>1, <1>2, <1>4, <1>5, <1>7, <1>8, <1>9 DEF Arriving

\* Where the frames behind the k-th begin in the stream s: p[j] bytes are before
\* the j-th.  No preamble is outside of frames.
Placed(s, p, f, dam) ==
  \E raw : /\ Arriving(raw, f, dam)
           /\ \A i \in 1..Extent(f) : s[p + i] = raw[i]

Layout(p, s, S, k, dam) ==
  LET J == (k + 1)..Len(S)
  IN  /\ \A j \in J : /\ p[j] \in Nat /\ p[j] + Extent(S[j]) <= Len(s)
                      /\ Placed(s, p[j], S[j], dam)
      /\ \A i, j \in J : i < j => p[i] + Extent(S[i]) <= p[j]
      /\ \A q \in 1..Len(s) : s[q] = Preamble =>
           \E j \in J : p[j] < q /\ q <= p[j] + Extent(S[j])

\* t is what is left of s behind its first n bytes.
Behind(t, s, n, l) ==
  Len(s) = l + n /\ Len(t) = l /\ \A i \in 1..l : t[i] = s[i + n]

\* The beginning of the stream has been read: n bytes outside of frames, or
\* the first frame.
LEMMA LayoutRead ==
  ASSUME NEW S \in Seq(WireFrame), NEW k \in Nat, NEW h \in Nat,
         k <= h, NEW p, NEW s, NEW dam, Layout(p, s, S, k, dam),
         NEW n \in Nat, NEW l \in Nat, NEW t, Behind(t, s, n, l),
         \A j \in (h + 1)..Len(S) : p[j] >= n,
         \A j \in (k + 1)..Len(S) : j <= h => p[j] + Extent(S[j]) <= n
  PROVE  \E r : Layout(r, t, S, h, dam)
<1>1. PICK m \in Nat : m = Len(S)
  BY LenProperties
<1>2. \A j \in 1..m : S[j] \in WireFrame /\ Extent(S[j]) \in Nat /\ Extent(S[j]) >= 6
  <2>1. \A j \in 1..m : S[j] \in WireFrame
    BY <1>1, ElementOfSeq
  <2>2. QED
    BY <2>1, ExtentFacts
<1>3. PICK r : r = [j \in (h + 1)..m |-> p[j] - n]
  OBVIOUS
<1>4. \A j \in (h + 1)..m : j \in (k + 1)..m /\ j \in 1..m
  OBVIOUS
<1>5. \A j \in (k + 1)..m : p[j] \in Nat /\ p[j] + Extent(S[j]) <= l + n
  BY <1>1 DEF Layout, Behind
<1>6. ASSUME NEW j \in (h + 1)..m
      PROVE  /\ r[j] \in Nat /\ r[j] = p[j] - n /\ r[j] + Extent(S[j]) <= l
             /\ Placed(t, r[j], S[j], dam)
  <2>1. PICK L \in Nat : L = Extent(S[j])
    BY <1>2, <1>4
  <2>2. PICK u \in Nat : u = p[j] /\ u + L <= l + n /\ u >= n
    BY <1>1, <1>4, <1>5, <2>1
  <2>3. r[j] = u - n /\ u - n \in Nat /\ u - n + L <= l
    <3>1. r[j] = u - n
      BY <1>3, <2>2
    <3>2. u - n \in Nat /\ u - n + L <= l
      BY <2>2
    <3>3. QED
      BY <3>1, <3>2
  <2>4. PICK raw : /\ Arriving(raw, S[j], dam)
                   /\ \A i \in 1..L : s[u + i] = raw[i]
    BY <1>1, <1>4, <2>1, <2>2 DEF Layout, Placed
  <2>5. ASSUME NEW i \in 1..L PROVE t[(u - n) + i] = raw[i]
    <3>1. (u - n) + i \in 1..l /\ ((u - n) + i) + n = u + i
      BY <2>3
    <3>2. t[(u - n) + i] = s[u + i]
      BY <3>1 DEF Behind
    <3>3. QED
      BY <2>4, <3>2
  <2>6. Placed(t, r[j], S[j], dam)
    BY <2>1, <2>3, <2>4, <2>5 DEF Placed
  <2>7. QED
    BY <2>1, <2>2, <2>3, <2>6
<1>7. ASSUME NEW i \in (h + 1)..m, NEW j \in (h + 1)..m, i < j
      PROVE  r[i] + Extent(S[i]) <= r[j]
  <2>1. p[i] + Extent(S[i]) <= p[j]
    BY <1>1, <1>4, <1>7 DEF Layout
  <2>2. PICK a \in Nat, b \in Nat, L \in Nat : a = p[i] /\ b = p[j] /\ L = Extent(S[i])
    BY <1>2, <1>4, <1>5
  <2>3. r[i] = a - n /\ r[j] = b - n
    BY <1>6, <2>2
  <2>4. a + L <= b => (a - n) + L <= b - n
    OBVIOUS
  <2>5. QED
    BY <2>1, <2>2, <2>3, <2>4
<1>8. ASSUME NEW q \in 1..l, t[q] = Preamble
      PROVE  \E j \in (h + 1)..m : r[j] < q /\ q <= r[j] + Extent(S[j])
  <2>1. q + n \in 1..Len(s) /\ s[q + n] = Preamble
    BY <1>8 DEF Behind
  <2>2. PICK j \in (k + 1)..m : p[j] < q + n /\ q + n <= p[j] + Extent(S[j])
    BY <1>1, <2>1 DEF Layout
  <2>3. PICK L \in Nat, u \in Nat : L = Extent(S[j]) /\ u = p[j]
    BY <1>2, <1>5
  <2>4. u < q + n /\ q + n <= u + L
    BY <2>2, <2>3
  <2>5. j \in (h + 1)..m
    <3>1. j <= h => u + L <= n
      BY <1>1, <2>3
    <3>2. ~(j <= h)
      BY <2>4, <3>1
    <3>3. QED
      BY <3>2
  <2>6. r[j] < q /\ q <= r[j] + Extent(S[j])
    <3>1. r[j] = u - n
      BY <1>3, <2>3, <2>5
    <3>2. u - n < q /\ q <= (u - n) + L
      BY <2>4
    <3>3. QED
      BY <2>3, <3>1, <3>2
  <2>7. QED
    BY <2>5, <2>6
<1>9. QED
  BY <1>1, <1>6, <1>7, <1>8 DEF Layout, Behind

\* The next preamble begins the next frame.
LEMMA LayoutStart ==
  ASSUME NEW S \in Seq(WireFrame), NEW k \in Nat, k <= Len(S),
         NEW p, NEW s, NEW dam, Layout(p, s, S, k, dam), NEW l \in Nat, Len(s) = l, l > 0
  PROVE  /\ s[1] = Preamble => k < Len(S) /\ p[k + 1] = 0
         /\ s[1] # Preamble => \A j \in (k + 1)..Len(S) : p[j] >= 1
<1>1. PICK m \in Nat : m = Len(S)
  BY LenProperties
<1>2. \A j \in 1..m : S[j] \in WireFrame /\ Extent(S[j]) \in Nat /\ Extent(S[j]) >= 6
  <2>1. \A j \in 1..m : S[j] \in WireFrame
    BY <1>1, ElementOfSeq
  <2>2. QED
    BY <2>1, ExtentFacts
<1>3. \A j \in (k + 1)..m : p[j] \in Nat /\ Extent(S[j]) \in Nat /\ Extent(S[j]) >= 6
  BY <1>1, <1>2 DEF Layout
<1>4. ASSUME s[1] = Preamble PROVE k < m /\ p[k + 1] = 0
  <2>1. PICK j \in (k + 1)..m : p[j] < 1
    BY <1>1, <1>4 DEF Layout
  <2>2. k < m /\ k + 1 \in (k + 1)..m /\ p[j] = 0
    BY <1>3, <2>1
  <2>3. k + 1 < j => p[k + 1] + Extent(S[k + 1]) <= p[j]
    BY <1>1, <2>2 DEF Layout
  <2>4. ~(k + 1 < j)
    BY <1>3, <2>2, <2>3
  <2>5. QED
    BY <2>2, <2>4
<1>5. ASSUME NEW j \in (k + 1)..m, p[j] = 0 PROVE s[1] = Preamble
  <2>1. PICK raw : /\ Arriving(raw, S[j], dam)
                   /\ \A i \in 1..Extent(S[j]) : s[p[j] + i] = raw[i]
    BY <1>1 DEF Layout, Placed
  <2>2. 1 \in 1..Extent(S[j]) /\ p[j] + 1 = 1
    BY <1>3, <1>5
  <2>3. s[1] = raw[1]
    BY <2>1, <2>2
  <2>4. QED
    BY <2>1, <2>3 DEF Arriving
<1>6. QED
  BY <1>1, <1>3, <1>4, <1>5

\* t has the l bytes of s, c bytes that are no preamble, and the e bytes of raw.
Continues(t, s, l, c, raw, e) ==
  /\ Len(t) = l + c + e
  /\ \A i \in 1..l : t[i] = s[i]
  /\ \A i \in 1..c : t[l + i] # Preamble
  /\ \A i \in 1..e : t[l + c + i] = raw[i]

\* Another frame is sent behind bytes that are no preamble.
LEMMA LayoutSent ==
  ASSUME NEW S \in Seq(WireFrame), NEW k \in Nat, k <= Len(S),
         NEW p, NEW s, NEW dam, Layout(p, s, S, k, dam), NEW l \in Nat, Len(s) = l,
         NEW f \in WireFrame, NEW raw, NEW new, Arriving(raw, f, new),
         new = "none" => dam = "none",
         NEW c \in Nat, NEW e \in Nat, e = Extent(f),
         NEW t, Continues(t, s, l, c, raw, e)
  PROVE  \E r : /\ Layout(r, t, Append(S, f), k, new)
                /\ k < Len(S) => r[k + 1] = p[k + 1]
<1>1. PICK m \in Nat : m = Len(S)
  BY LenProperties
<1>2. \A j \in 1..m : S[j] \in WireFrame /\ Extent(S[j]) \in Nat
  <2>1. \A j \in 1..m : S[j] \in WireFrame
    BY <1>1, ElementOfSeq
  <2>2. QED
    BY <2>1, ExtentFacts
<1>3. PICK U : U = Append(S, f)
  OBVIOUS
<1>4. Len(U) = m + 1 /\ U[m + 1] = f /\ \A j \in 1..m : U[j] = S[j]
  BY <1>1, <1>3, AppendProperties
<1>5. PICK r : r = [j \in (k + 1)..(m + 1) |-> IF j = m + 1 THEN l + c ELSE p[j]]
  OBVIOUS
<1>6. \A j \in (k + 1)..m : j \in 1..m /\ r[j] = p[j] /\ U[j] = S[j]
  BY <1>4, <1>5
<1>7. r[m + 1] = l + c
  BY <1>1, <1>5
<1>8. \A j \in (k + 1)..m : /\ p[j] \in Nat /\ Extent(S[j]) \in Nat
                            /\ p[j] + Extent(S[j]) <= l
                            /\ Placed(s, p[j], S[j], dam)
  BY <1>1, <1>2 DEF Layout
<1>9. Extent(f) \in Nat
  BY ExtentFacts
<1>10. ASSUME NEW j \in (k + 1)..m PROVE Placed(t, p[j], S[j], new)
  <2>1. PICK L \in Nat, u \in Nat : L = Extent(S[j]) /\ u = p[j] /\ u + L <= l
    BY <1>8
  <2>2. PICK w : /\ Arriving(w, S[j], dam)
                 /\ \A i \in 1..L : s[u + i] = w[i]
    BY <1>8, <2>1 DEF Placed
  <2>3. Arriving(w, S[j], new)
    BY <2>2 DEF Arriving
  <2>4. ASSUME NEW i \in 1..L PROVE t[u + i] = w[i]
    <3>1. u + i \in 1..l
      BY <2>1
    <3>2. QED
      BY <2>2, <3>1 DEF Continues
  <2>5. QED
    BY <2>1, <2>3, <2>4 DEF Placed
<1>11. Placed(t, l + c, f, new)
  <2>1. \A i \in 1..Extent(f) : t[l + c + i] = raw[i]
    BY DEF Continues
  <2>2. QED
    BY <2>1 DEF Placed
<1>12. ASSUME NEW j \in (k + 1)..(m + 1)
       PROVE  /\ r[j] \in Nat /\ r[j] + Extent(U[j]) <= l + c + e
              /\ Placed(t, r[j], U[j], new)
  <2>1. CASE j = m + 1
    BY <1>4, <1>7, <1>9, <1>11, <2>1
  <2>2. CASE j # m + 1
    <3>1. j \in (k + 1)..m
      BY <2>2
    <3>2. PICK L \in Nat, u \in Nat : L = Extent(S[j]) /\ u = p[j] /\ u + L <= l
      BY <1>8, <3>1
    <3>3. u + L <= l + c + e
      BY <3>2
    <3>4. QED
      BY <1>6, <1>10, <3>1, <3>2, <3>3
  <2>3. QED
    BY <2>1, <2>2
<1>13. ASSUME NEW i \in (k + 1)..(m + 1), NEW j \in (k + 1)..(m + 1), i < j
       PROVE  r[i] + Extent(U[i]) <= r[j]
  <2>1. i \in (k + 1)..m
    BY <1>13
  <2>2. PICK L \in Nat, u \in Nat : L = Extent(S[i]) /\ u = p[i] /\ u + L <= l
    BY <1>8, <2>1
  <2>3. CASE j = m + 1
    <3>1. u + L <= l + c
      BY <2>2
    <3>2. QED
      BY <1>6, <1>7, <2>1, <2>2, <2>3, <3>1
  <2>4. CASE j # m + 1
    <3>1. j \in (k + 1)..m
      BY <2>4
    <3>2. p[i] + Extent(S[i]) <= p[j]
      BY <1>1, <1>13, <2>1, <3>1 DEF Layout
    <3>3. QED
      BY <1>6, <2>1, <3>1, <3>2
  <2>5. QED
    BY <2>3, <2>4
<1>14. ASSUME NEW q \in 1..(l + c + e), t[q] = Preamble
       PROVE  \E j \in (k + 1)..(m + 1) : r[j] < q /\ q <= r[j] + Extent(U[j])
  <2>1. CASE q <= l
    <3>1. q \in 1..l /\ s[q] = Preamble
      BY <1>14, <2>1 DEF Continues
    <3>2. PICK j \in (k + 1)..m : p[j] < q /\ q <= p[j] + Extent(S[j])
      BY <1>1, <3>1 DEF Layout
    <3>3. j \in (k + 1)..(m + 1)
      OBVIOUS
    <3>4. QED
      BY <1>6, <3>2, <3>3
  <2>2. CASE q > l /\ q <= l + c
    <3>1. q - l \in 1..c /\ l + (q - l) = q
      BY <2>2
    <3>2. QED
      BY <1>14, <3>1 DEF Continues
  <2>3. CASE q > l + c
    <3>1. m + 1 \in (k + 1)..(m + 1)
      BY <1>1
    <3>2. l + c < q /\ q <= l + c + e
      BY <2>3
    <3>3. r[m + 1] < q /\ q <= r[m + 1] + Extent(U[m + 1])
      BY <1>4, <1>7, <3>2
    <3>4. QED
      BY <3>1, <3>3
  <2>4. QED
    BY <2>1, <2>2, <2>3
<1>15. Layout(r, t, U, k, new)
  BY <1>4, <1>12, <1>13, <1>14 DEF Layout, Continues
<1>16. k < m => r[k + 1] = p[k + 1]
  BY <1>6
<1>17. QED
  BY <1>1, <1>3, <1>15, <1>16

\* The bytes of the next frame that have been read.
LEMMA LayoutBegun ==
  ASSUME NEW S \in Seq(WireFrame), NEW k \in Nat, k < Len(S),
         NEW p, NEW s, NEW dam, Layout(p, s, S, k, dam), p[k + 1] = 0
  PROVE  /\ S[k + 1] \in WireFrame /\ Extent(S[k + 1]) \in Nat
         /\ Extent(S[k + 1]) <= Len(s)
         /\ \E raw : /\ Arriving(raw, S[k + 1], dam)
                     /\ \A i \in 1..Extent(S[k + 1]) : s[i] = raw[i]
<1>1. k + 1 \in (k + 1)..Len(S) /\ k + 1 \in 1..Len(S)
  BY LenProperties
<1>2. S[k + 1] \in WireFrame
  BY <1>1, ElementOfSeq
<1>3. PICK L \in Nat : L = Extent(S[k + 1])
  BY <1>2, ExtentFacts
<1>4. 0 + L <= Len(s) /\ Placed(s, 0, S[k + 1], dam)
  BY <1>1, <1>3 DEF Layout
<1>5. PICK raw : /\ Arriving(raw, S[k + 1], dam)
                 /\ \A i \in 1..L : s[0 + i] = raw[i]
  BY <1>3, <1>4 DEF Placed
<1>6. 0 + L = L /\ \A i \in 1..L : 0 + i = i
  OBVIOUS
<1>7. \A i \in 1..L : s[i] = raw[i]
  BY <1>5, <1>6
<1>8. QED
  BY <1>2, <1>3, <1>4, <1>5, <1>6, <1>7

\* The reader is between frames, or has a part of the next one.
Reading(p) ==
  /\ at = "scan" => buf = <<>>
  /\ at # "scan" => /\ Len(got) < Len(sent) /\ p[Len(got) + 1] = 0
                    /\ Len(buf) < Extent(sent[Len(got) + 1])
                    /\ at = "header" => 1 <= Len(buf) /\ Len(buf) <= 4
                    /\ at = "rest" => 5 <= Len(buf)

Awaited == \E p : Layout(p, buf \o wire, sent, Len(got), damage) /\ Reading(p)

Taken ==
  /\ got \in Seq(WireFrame) /\ Len(got) <= Len(sent)
  /\ \A i \in 1..Len(got) : got[i] = sent[i]

StreamTypeOK ==
  /\ sent \in Seq(WireFrame) /\ wire \in Seq(Byte) /\ buf \in Seq(Byte)
  /\ at \in {"scan", "header", "rest", "closed", "ended"}
  /\ damage \in {"none", "content", "preamble", "length"}

\* The inductive invariant of the frames on a connection.  A damaged preamble
\* or length makes the reader lose its place, and nothing is claimed.
StreamInv ==
  /\ StreamTypeOK
  /\ damage \in {"none", "content"} => /\ Taken
                                       /\ damage = "none" => at # "closed"
                                       /\ Connected => Awaited

LEMMA StreamInit == FrameInit => StreamInv
<1> SUFFICES ASSUME FrameInit PROVE StreamInv
  OBVIOUS
<1>1. /\ sent = <<>> /\ got = <<>> /\ wire = <<>> /\ damage = "none"
      /\ at = "scan" /\ buf = <<>>
  BY DEF FrameInit
<1>2. StreamTypeOK
  BY <1>1, EmptySeq DEF StreamTypeOK
<1>3. Taken
  BY <1>1, EmptySeq DEF Taken
<1>4. PICK s : s = buf \o wire
  OBVIOUS
<1>5. Len(s) = 0
  <2>1. wire \in Seq({}) /\ buf \in Seq({})
    BY <1>1, EmptySeq
  <2>2. Len(s) = Len(buf) + Len(wire)
    BY <1>4, <2>1, ConcatProperties
  <2>3. QED
    BY <1>1, <2>2, EmptySeq
<1>6. Layout(<<>>, s, sent, Len(got), damage)
  <2>1. Len(sent) = 0 /\ Len(got) = 0
    BY <1>1, EmptySeq
  <2>2. QED
    BY <1>5, <2>1 DEF Layout
<1>7. Reading(<<>>)
  BY <1>1 DEF Reading
<1>8. Awaited
  BY <1>4, <1>6, <1>7 DEF Awaited
<1>9. QED
  BY <1>1, <1>2, <1>3, <1>8 DEF StreamInv

\* A byte taken from the wire.
LEMMA StreamKept ==
  ASSUME NEW B, NEW b \in Seq(B), NEW w \in Seq(B), w # <<>>
  PROVE  /\ Append(b, Head(w)) \o Tail(w) = b \o w
         /\ Append(b, Head(w)) \in Seq(B) /\ Len(Append(b, Head(w))) = Len(b) + 1
         /\ Tail(w) \in Seq(B) /\ Head(w) \in B
         /\ Len(w) \in Nat /\ Len(w) >= 1 /\ Len(Tail(w)) = Len(w) - 1
<1>1. PICK m \in Nat, n \in Nat : m = Len(b) /\ n = Len(w) /\ n >= 1
  BY EmptySeq, LenProperties
<1>2. PICK h, t : h = Head(w) /\ t = Tail(w)
  OBVIOUS
<1>3. /\ h \in B /\ t \in Seq(B) /\ Len(t) = n - 1 /\ h = w[1]
      /\ \A i \in 1..(n - 1) : t[i] = w[i + 1]
  BY <1>1, <1>2, HeadTailProperties
<1>4. PICK a \in Seq(B) : a = Append(b, h)
  BY <1>3, AppendProperties
<1>5. Len(a) = m + 1 /\ a[m + 1] = h /\ \A i \in 1..m : a[i] = b[i]
  BY <1>1, <1>3, <1>4, AppendProperties
<1>6. PICK u \in Seq(B), v \in Seq(B) : u = a \o t /\ v = b \o w
  BY <1>3, ConcatProperties
<1>7. /\ Len(u) = m + n
      /\ \A i \in 1..(m + n) : u[i] = IF i <= m + 1 THEN a[i] ELSE t[i - (m + 1)]
  <2>1. /\ Len(u) = Len(a) + Len(t)
        /\ \A i \in 1..(Len(a) + Len(t)) : u[i] = IF i <= Len(a) THEN a[i]
                                                                 ELSE t[i - Len(a)]
    BY <1>3, <1>6, ConcatProperties
  <2>2. Len(a) = m + 1 /\ Len(t) = n - 1 /\ (m + 1) + (n - 1) = m + n
    BY <1>3, <1>5
  <2>3. QED
    BY <2>1, <2>2
<1>8. /\ Len(v) = m + n
      /\ \A i \in 1..(m + n) : v[i] = IF i <= m THEN b[i] ELSE w[i - m]
  BY <1>1, <1>6, ConcatProperties
<1>9. ASSUME NEW i \in 1..(m + n) PROVE u[i] = v[i]
  <2>1. CASE i <= m
    BY <1>5, <1>7, <1>8, <2>1
  <2>2. CASE i = m + 1
    <3>1. i - m = 1
      BY <2>2
    <3>2. QED
      BY <1>3, <1>5, <1>7, <1>8, <2>2, <3>1
  <2>3. CASE i > m + 1
    <3>1. i - (m + 1) \in 1..(n - 1) /\ (i - (m + 1)) + 1 = i - m
      BY <2>3
    <3>2. t[i - (m + 1)] = w[i - m]
      BY <1>3, <3>1
    <3>3. QED
      BY <1>7, <1>8, <2>3, <3>2
  <2>4. QED
    BY <2>1, <2>2, <2>3
<1>10. u = v
  BY <1>6, <1>7, <1>8, <1>9, SeqEqual
<1>11. QED
  BY <1>1, <1>2, <1>3, <1>4, <1>5, <1>6, <1>10

\* The first bytes of what begins with b are those of b, the others follow.
LEMMA StreamSplit ==
  ASSUME NEW B, NEW b \in Seq(B), NEW w \in Seq(B)
  PROVE  /\ \A i \in 1..Len(b) : (b \o w)[i] = b[i]
         /\ Behind(w, b \o w, Len(b), Len(w))
<1>1. PICK m \in Nat, n \in Nat : m = Len(b) /\ n = Len(w)
  BY LenProperties
<1>2. PICK s : s = b \o w
  OBVIOUS
<1>3. /\ Len(s) = m + n
      /\ \A i \in 1..(m + n) : s[i] = IF i <= m THEN b[i] ELSE w[i - m]
  BY <1>1, <1>2, ConcatProperties
<1>4. \A i \in 1..m : s[i] = b[i]
  BY <1>3
<1>5. ASSUME NEW i \in 1..n PROVE w[i] = s[i + m]
  <2>1. i + m \in 1..(m + n) /\ ~(i + m <= m) /\ (i + m) - m = i
    OBVIOUS
  <2>2. QED
    BY <1>3, <2>1
<1>6. m + n = n + m
  OBVIOUS
<1>7. Behind(w, s, m, n)
  BY <1>1, <1>3, <1>5, <1>6 DEF Behind
<1>8. QED
  BY <1>1, <1>2, <1>4, <1>7

Grouped(b, w, n, r) == b \o ((w \o n) \o r) = ((b \o w) \o n) \o r

LEMMA Regroup ==
  ASSUME NEW B, NEW b \in Seq(B), NEW w \in Seq(B), NEW n \in Seq(B), NEW r \in Seq(B)
  PROVE  Grouped(b, w, n, r)
<1>1. PICK z \in Seq(B) : z = w \o n
  BY ConcatProperties
<1>2. b \o (z \o r) = (b \o z) \o r
  OBVIOUS
<1>3. b \o (w \o n) = (b \o w) \o n
  OBVIOUS
<1>4. QED
  BY <1>1, <1>2, <1>3, Zenon DEF Grouped

\* The stream with another frame.
LEMMA StreamSent ==
  ASSUME NEW B, NEW b \in Seq(B), NEW w \in Seq(B), NEW noise \in Seq(B), NEW raw \in Seq(B),
         \A i \in 1..Len(noise) : noise[i] # Preamble, NEW x, x = (w \o noise) \o raw
  PROVE  /\ x \in Seq(B)
         /\ Continues(b \o x, b \o w, Len(b \o w), Len(noise), raw, Len(raw))
<1>1. PICK s \in Seq(B) : s = b \o w
  BY ConcatProperties
<1>2. PICK l \in Nat, c \in Nat, e \in Nat : l = Len(s) /\ c = Len(noise) /\ e = Len(raw)
  BY LenProperties
<1>3. PICK y \in Seq(B) : y = s \o noise
  BY ConcatProperties
<1>4. PICK t \in Seq(B) : t = y \o raw
  BY ConcatProperties
<1>5. PICK z \in Seq(B) : z = w \o noise
  BY ConcatProperties
<1>6. x = z \o raw /\ x \in Seq(B)
  BY <1>5, ConcatProperties
<1>7. t = b \o x
  <2>1. Grouped(b, w, noise, raw)
    BY Regroup, Zenon
  <2>2. QED
    BY <1>1, <1>3, <1>4, <2>1, Zenon DEF Grouped
<1>8. /\ Len(y) = l + c
      /\ \A i \in 1..(l + c) : y[i] = IF i <= l THEN s[i] ELSE noise[i - l]
  BY <1>2, <1>3, ConcatProperties
<1>9. PICK k \in Nat : k = l + c /\ k = Len(y)
  BY <1>8
<1>10. /\ Len(t) = k + e
       /\ \A i \in 1..(k + e) : t[i] = IF i <= k THEN y[i] ELSE raw[i - k]
  <2>1. /\ Len(t) = Len(y) + Len(raw)
        /\ \A i \in 1..(Len(y) + Len(raw)) : t[i] = IF i <= Len(y) THEN y[i]
                                                                   ELSE raw[i - Len(y)]
    BY <1>4, ConcatProperties
  <2>2. QED
    BY <1>2, <1>9, <2>1
<1>11. ASSUME NEW i \in 1..l PROVE t[i] = s[i]
  <2>1. i \in 1..k /\ i \in 1..(k + e) /\ i <= k /\ i <= l /\ i \in 1..(l + c)
    BY <1>9
  <2>2. QED
    BY <1>8, <1>10, <2>1
<1>12. ASSUME NEW i \in 1..c PROVE t[l + i] # Preamble
  <2>1. /\ l + i \in 1..(k + e) /\ l + i <= k /\ l + i \in 1..(l + c)
        /\ ~(l + i <= l) /\ (l + i) - l = i
    BY <1>9
  <2>2. t[l + i] = y[l + i] /\ y[l + i] = noise[i]
    BY <1>8, <1>10, <2>1
  <2>3. QED
    BY <1>2, <2>2
<1>13. ASSUME NEW i \in 1..e PROVE t[l + c + i] = raw[i]
  <2>1. /\ k + i \in 1..(k + e) /\ ~(k + i <= k) /\ (k + i) - k = i
    OBVIOUS
  <2>2. t[k + i] = raw[i]
    BY <1>10, <2>1
  <2>3. QED
    BY <1>9, <2>2
<1>14. Len(t) = l + c + e
  BY <1>9, <1>10
<1>15. Continues(t, s, l, c, raw, e)
  BY <1>11, <1>12, <1>13, <1>14 DEF Continues
<1>16. QED
  BY <1>1, <1>2, <1>6, <1>7, <1>15

\* A frame sent, damaged or not, is one more to come.
LEMMA SentAwaited ==
  ASSUME StreamTypeOK, Taken, Awaited, NEW f \in WireFrame, NEW raw,
         NEW noise \in Seq(Byte), \A i \in 1..Len(noise) : noise[i] # Preamble,
         Arriving(raw, f, damage'), damage' = "none" => damage = "none",
         sent' = Append(sent, f), wire' = wire \o noise \o raw,
         UNCHANGED <<got, at, buf>>
  PROVE  wire' \in Seq(Byte) /\ sent' \in Seq(WireFrame) /\ Taken' /\ Awaited'
<1> DEFINE B == Byte
<1> HIDE DEF B
<1>1. /\ sent \in Seq(WireFrame) /\ wire \in Seq(B) /\ buf \in Seq(B)
      /\ noise \in Seq(B) /\ raw \in Seq(B)
  BY DEF StreamTypeOK, Arriving, B
<1>2. PICK m \in Nat, k \in Nat : m = Len(sent) /\ k = Len(got) /\ k <= m
  BY <1>1, LenProperties DEF Taken
<1>3. PICK p : Layout(p, buf \o wire, sent, k, damage) /\ Reading(p)
  BY <1>2 DEF Awaited
<1>4. PICK s \in Seq(B) : s = buf \o wire
  BY <1>1, ConcatProperties
<1>5. PICK l \in Nat, c \in Nat, e \in Nat : l = Len(s) /\ c = Len(noise) /\ e = Len(raw)
  BY <1>1, LenProperties
<1>6. e = Extent(f)
  BY <1>5 DEF Arriving
<1>7. PICK t : t = buf \o wire'
  OBVIOUS
<1>8. wire' \in Seq(B) /\ Continues(t, s, l, c, raw, e)
  <2>1. PICK x : x = (wire \o noise) \o raw
    OBVIOUS
  <2>2. x \in Seq(B) /\ Continues(buf \o x, s, l, c, raw, e)
    BY <1>1, <1>4, <1>5, <2>1, StreamSent
  <2>3. QED
    BY <1>7, <2>1, <2>2
<1>11. PICK r : /\ Layout(r, t, Append(sent, f), k, damage')
                /\ k < Len(sent) => r[k + 1] = p[k + 1]
  <2>1. PICK S \in Seq(WireFrame) : S = sent /\ k <= Len(S)
    BY <1>1, <1>2
  <2>2. PICK new, old : new = damage' /\ old = damage
    OBVIOUS
  <2>3. Layout(p, s, S, k, old)
    BY <1>3, <1>4, <2>1, <2>2
  <2>4. Arriving(raw, f, new) /\ (new = "none" => old = "none")
    BY <2>2
  <2>5. PICK r : /\ Layout(r, t, Append(S, f), k, new)
                 /\ k < Len(S) => r[k + 1] = p[k + 1]
    BY <1>5, <1>6, <1>8, <2>1, <2>3, <2>4, LayoutSent
  <2>6. Layout(r, t, Append(sent, f), k, damage')
    BY <2>1, <2>2, <2>5
  <2>7. k < Len(sent) => r[k + 1] = p[k + 1]
    BY <2>1, <2>5
  <2>8. QED
    BY <2>6, <2>7
<1>12. /\ sent' \in Seq(WireFrame) /\ Len(sent') = m + 1
       /\ \A i \in 1..m : sent'[i] = sent[i]
  BY <1>1, <1>2, AppendProperties
<1>13. Taken'
  <2>1. got' \in Seq(WireFrame) /\ Len(got') = k /\ k <= m + 1
    BY <1>2 DEF Taken
  <2>2. \A i \in 1..k : got'[i] = sent'[i]
    BY <1>2, <1>12 DEF Taken
  <2>3. QED
    BY <1>12, <2>1, <2>2 DEF Taken
<1>14. Reading(r)'
  <2>1. CASE at = "scan"
    BY <1>3, <2>1 DEF Reading
  <2>2. CASE at # "scan"
    <3>1. k < m /\ k + 1 \in 1..m /\ p[k + 1] = 0
      BY <1>2, <1>3, <2>2 DEF Reading
    <3>2. r[k + 1] = 0 /\ sent'[k + 1] = sent[k + 1] /\ k < m + 1
      BY <1>2, <1>11, <1>12, <3>1
    <3>3. QED
      BY <1>2, <1>3, <1>12, <2>2, <3>2 DEF Reading
  <2>3. QED
    BY <2>1, <2>2
<1>15. Layout(r, buf' \o wire', sent', Len(got'), damage')
  BY <1>2, <1>7, <1>11
<1>16. Awaited'
  BY <1>14, <1>15 DEF Awaited
<1>17. QED
  BY <1>8, <1>12, <1>13, <1>16 DEF B

LEMMA StreamSend ==
  ASSUME StreamInv, NEW f \in WireFrame, NEW noise \in Noise,
         Send(f, noise)
  PROVE  StreamInv'
<1>1. /\ Connected /\ sent' = Append(sent, f)
      /\ wire' = wire \o noise \o EncodeFrame(f)
      /\ UNCHANGED <<got, damage, at, buf>>
  BY DEF Send
<1>2. PICK raw : raw = EncodeFrame(f) /\ Arriving(raw, f, damage')
  BY ArrivesWhole
<1>3. noise \in Seq(Byte) /\ \A i \in 1..Len(noise) : noise[i] # Preamble
  <2>1. noise \in Seq(Byte \ {Preamble})
    BY NoiseAssumption
  <2>2. noise \in Seq(Byte)
    BY <2>1, SeqMonotonic
  <2>3. \A i \in 1..Len(noise) : noise[i] \in Byte \ {Preamble}
    BY <2>1, ElementOfSeq
  <2>4. QED
    BY <2>2, <2>3
<1>4. StreamTypeOK'
  <2>1. raw \in Seq(Byte)
    BY <1>2 DEF Arriving
  <2>2. sent \in Seq(WireFrame) /\ wire \in Seq(Byte)
    BY DEF StreamInv, StreamTypeOK
  <2>3. sent' \in Seq(WireFrame)
    BY <1>1, <2>2, AppendProperties
  <2>4. PICK x \in Seq(Byte) : x = wire \o noise
    BY <1>3, <2>2, ConcatProperties
  <2>5. x \o raw \in Seq(Byte)
    BY <2>1, <2>4, ConcatProperties
  <2>6. wire' \in Seq(Byte)
    BY <1>1, <1>2, <2>4, <2>5
  <2>7. QED
    BY <1>1, <2>3, <2>6 DEF StreamInv, StreamTypeOK
<1>5. ASSUME damage \in {"none", "content"} PROVE Taken' /\ Awaited'
  BY <1>1, <1>2, <1>3, <1>5, SentAwaited DEF StreamInv
<1>6. at' # "closed"
  BY <1>1 DEF Connected
<1>7. QED
  BY <1>1, <1>4, <1>5, <1>6 DEF StreamInv

LEMMA StreamSendDamaged ==
  ASSUME StreamInv, NEW f \in WireFrame, NEW i, NEW b \in Byte,
         SendDamaged(f, i, b)
  PROVE  StreamInv'
<1>1. PICK raw : raw = EncodeFrame(f) /\ Coded(raw, f)
  BY Encoded
<1>2. PICK bent : bent = [raw EXCEPT ![i] = b]
  OBVIOUS
<1>3. /\ Connected /\ damage = "none" /\ i \in DOMAIN raw /\ b # raw[i]
      /\ sent' = Append(sent, f) /\ wire' = wire \o bent
      /\ damage' = Field(i)
      /\ UNCHANGED <<got, at, buf>>
  BY <1>1, <1>2 DEF SendDamaged
<1>4. bent \in Seq(Byte)
  <2>1. raw \in Seq(Byte)
    BY <1>1 DEF Coded
  <2>2. i \in 1..Len(raw)
    BY <1>3, <2>1, LenProperties
  <2>3. QED
    BY <1>2, <2>1, <2>2, ExceptSeq
<1>5. wire \in Seq(Byte) /\ sent \in Seq(WireFrame)
  BY DEF StreamInv, StreamTypeOK
<1>6. wire' \in Seq(Byte) /\ sent' \in Seq(WireFrame)
  BY <1>3, <1>4, <1>5, ConcatProperties, AppendProperties
<1>7. damage' \in {"preamble", "length", "content"}
  BY <1>3 DEF Field
<1>8. StreamTypeOK'
  BY <1>3, <1>6, <1>7 DEF StreamInv, StreamTypeOK
<1>9. ASSUME damage' = "content" PROVE Taken' /\ Awaited'
  <2>1. Arriving(bent, f, damage')
    BY <1>1, <1>2, <1>3, <1>9, ArrivesDamaged
  <2>2. PICK none \in Seq(Byte) : none = <<>> /\ Len(none) = 0
    BY EmptySeq
  <2>3. wire' = wire \o none \o bent
    BY <1>3, <1>5, <2>2, ConcatEmptySeq
  <2>4. \A j \in 1..Len(none) : none[j] # Preamble
    BY <2>2
  <2>5. StreamTypeOK /\ Taken /\ Awaited
    BY <1>3 DEF StreamInv
  <2>6. damage' = "none" => damage = "none"
    BY <1>9
  <2>7. QED
    BY <1>3, <2>1, <2>2, <2>3, <2>4, <2>5, <2>6, SentAwaited
<1>10. at' # "closed"
  BY <1>3 DEF Connected
<1>11. QED
  BY <1>7, <1>8, <1>9, <1>10 DEF StreamInv

\* What the reader knows of a good connection before it takes a byte.
LEMMA ReaderKnows ==
  ASSUME StreamInv, Connected, damage \in {"none", "content"}
  PROVE  /\ sent \in Seq(WireFrame) /\ wire \in Seq(Byte) /\ buf \in Seq(Byte)
         /\ Len(got) \in Nat /\ Len(got) <= Len(sent) /\ Taken
         /\ \E p : Layout(p, buf \o wire, sent, Len(got), damage) /\ Reading(p)
<1>1. Taken /\ Awaited /\ StreamTypeOK
  BY DEF StreamInv
<1>2. Len(got) \in Nat
  BY <1>1, LenProperties DEF Taken
<1>3. QED
  BY <1>1, <1>2 DEF Taken, Awaited, StreamTypeOK

LEMMA StreamScanByte ==
  ASSUME StreamInv, ScanByte
  PROVE  StreamInv'
<1>1. /\ at = "scan" /\ wire # <<>> /\ wire' = Tail(wire)
      /\ UNCHANGED <<sent, got, damage>>
      /\ \/ Head(wire) = Preamble /\ at' = "header" /\ buf' = <<Preamble>>
         \/ Head(wire) # Preamble /\ UNCHANGED <<at, buf>>
  BY DEF ScanByte
<1>2. wire \in Seq(Byte) /\ buf \in Seq(Byte) /\ Preamble \in Byte
  BY BaseAssumption DEF StreamInv, StreamTypeOK
<1>3. /\ Tail(wire) \in Seq(Byte) /\ Len(wire) \in Nat /\ Len(wire) >= 1
      /\ Len(Tail(wire)) = Len(wire) - 1
  BY <1>1, <1>2, StreamKept
<1>4. <<Preamble>> \in Seq(Byte) /\ Len(<<Preamble>>) = 1
  BY <1>2
<1>5. StreamTypeOK'
  BY <1>1, <1>3, <1>4 DEF StreamInv, StreamTypeOK
<1>6. ASSUME damage \in {"none", "content"} PROVE Taken' /\ Awaited'
  <2>1. Connected
    BY <1>1 DEF Connected
  <2>2. PICK S \in Seq(WireFrame), k \in Nat, d \in {damage} :
          S = sent /\ k = Len(got) /\ k <= Len(S) /\ d = damage
    BY <1>6, <2>1, ReaderKnows
  <2>3. PICK p : Layout(p, buf \o wire, S, k, d) /\ Reading(p)
    BY <1>6, <2>1, <2>2, ReaderKnows
  <2>4. buf = <<>>
    BY <1>1, <2>3 DEF Reading
  <2>5. PICK w \in Seq(Byte) : w = wire /\ w # <<>>
    BY <1>1, <1>2
  <2>6. <<>> \o w = w
    BY <2>5, ConcatEmptySeq
  <2>7. Layout(p, w, S, k, d)
    BY <2>3, <2>4, <2>5, <2>6
  <2>8. PICK l \in Nat : l = Len(w) /\ l > 0
    <3>1. Len(w) \in Nat /\ Len(w) >= 1
      BY <1>3, <2>5
    <3>2. QED
      BY <3>1
  <2>9. /\ w[1] = Preamble => k < Len(S) /\ p[k + 1] = 0
        /\ w[1] # Preamble => \A j \in (k + 1)..Len(S) : p[j] >= 1
    BY <2>2, <2>7, <2>8, LayoutStart
  <2>10. Head(wire) = w[1]
    BY <2>5
  <2>11. Taken'
    BY <1>1, <1>6, <2>1, ReaderKnows DEF Taken
  <2>12. CASE Head(wire) = Preamble
    <3>1. k < Len(S) /\ p[k + 1] = 0
      BY <2>9, <2>10, <2>12
    <3>2. buf' = <<Preamble>> /\ at' = "header" /\ Len(buf') = 1
      BY <1>1, <1>4, <2>12
    <3>3. buf' \o wire' = w
      <4>1. PICK e \in Seq(Byte) : e = <<>>
        BY EmptySeq
      <4>2. Append(e, Head(w)) \o Tail(w) = e \o w
        BY <2>5, <4>1, StreamKept
      <4>3. Append(e, Head(w)) = <<Preamble>>
        BY <2>5, <2>12, <4>1
      <4>4. QED
        BY <1>1, <2>5, <2>6, <3>2, <4>1, <4>2, <4>3
    <3>4. PICK f : f = S[k + 1] /\ 1 < Extent(f)
      <4>1. k + 1 \in 1..Len(S)
        BY <2>2, <3>1, LenProperties
      <4>2. PICK f \in WireFrame : f = S[k + 1]
        BY <4>1, ElementOfSeq
      <4>3. Extent(f) \in Nat /\ Extent(f) >= 6
        BY <4>2, ExtentFacts
      <4>4. QED
        BY <4>2, <4>3
    <3>5. Reading(p)'
      BY <1>1, <2>2, <3>1, <3>2, <3>4 DEF Reading
    <3>6. Layout(p, buf' \o wire', sent', Len(got'), damage')
      BY <1>1, <2>2, <2>7, <3>3
    <3>7. QED
      BY <2>11, <3>5, <3>6 DEF Awaited
  <2>13. CASE Head(wire) # Preamble
    <3>1. buf' = <<>> /\ at' = "scan"
      BY <1>1, <2>4, <2>13
    <3>2. PICK t \in Seq(Byte) : t = Tail(w)
      BY <1>3, <2>5
    <3>3. buf' \o wire' = t
      BY <1>1, <2>5, <3>1, <3>2, ConcatEmptySeq
    <3>4. PICK n \in Nat : n = l - 1 /\ l = n + 1
      <4>1. l - 1 \in Nat /\ l = (l - 1) + 1
        BY <2>8
      <4>2. QED
        BY <4>1
    <3>5. Behind(t, w, 1, n)
      <4>1. Len(t) = n /\ \A i \in 1..n : t[i] = w[i + 1]
        BY <2>5, <2>8, <3>2, <3>4, HeadTailProperties
      <4>2. QED
        BY <2>8, <3>4, <4>1 DEF Behind
    <3>6. \A j \in (k + 1)..Len(S) : p[j] >= 1
      BY <2>9, <2>10, <2>13
    <3>7. \A j \in (k + 1)..Len(S) : j <= k => p[j] + Extent(S[j]) <= 1
      BY <2>2, LenProperties
    <3>8. PICK r : Layout(r, t, S, k, d)
      BY <2>2, <2>7, <3>5, <3>6, <3>7, LayoutRead
    <3>9. Reading(r)'
      BY <3>1 DEF Reading
    <3>10. Layout(r, buf' \o wire', sent', Len(got'), damage')
      BY <1>1, <2>2, <3>3, <3>8
    <3>11. QED
      BY <2>11, <3>9, <3>10 DEF Awaited
  <2>14. QED
    BY <2>12, <2>13
<1>7. at' # "closed"
  BY <1>1
<1>8. QED
  BY <1>1, <1>5, <1>6, <1>7 DEF StreamInv

\* The part b of frame f that has been read, w behind it.
Part(b, w, p, f, raw) ==
  /\ f \in WireFrame /\ Len(got) < Len(sent) /\ f = sent[Len(got) + 1]
  /\ Layout(p, b \o w, sent, Len(got), damage) /\ p[Len(got) + 1] = 0
  /\ Arriving(raw, f, damage)
  /\ b \in Seq(Byte) /\ w \in Seq(Byte)
  /\ Len(b) <= Extent(f) /\ \A i \in 1..Len(b) : b[i] = raw[i]

LEMMA PartRead ==
  ASSUME StreamInv, damage \in {"none", "content"},
         at \in {"header", "rest"}, wire # <<>>
  PROVE  \E p, f, raw : Part(Append(buf, Head(wire)), Tail(wire), p, f, raw)
<1>1. Connected
  BY DEF Connected
<1>2. PICK S \in Seq(WireFrame), k \in Nat, d \in {damage} :
        S = sent /\ k = Len(got) /\ d = damage
  BY <1>1, ReaderKnows
<1>3. PICK p : Layout(p, buf \o wire, S, k, d) /\ Reading(p)
  BY <1>1, <1>2, ReaderKnows
<1>4. PICK u \in Seq(Byte), w \in Seq(Byte) : u = buf /\ w = wire /\ w # <<>>
  BY DEF StreamInv, StreamTypeOK
<1>5. PICK b \in Seq(Byte), t \in Seq(Byte) :
        b = Append(u, Head(w)) /\ t = Tail(w) /\ b \o t = u \o w /\ Len(b) = Len(u) + 1
  <2>1. /\ Append(u, Head(w)) \o Tail(w) = u \o w
        /\ Append(u, Head(w)) \in Seq(Byte) /\ Len(Append(u, Head(w))) = Len(u) + 1
        /\ Tail(w) \in Seq(Byte)
    BY <1>4, StreamKept
  <2>2. QED
    BY <2>1, Zenon
<1>6. PICK s : s = b \o t
  OBVIOUS
<1>7. Layout(p, s, S, k, d)
  BY <1>3, <1>4, <1>5, <1>6
<1>8. k < Len(S) /\ p[k + 1] = 0 /\ Len(u) < Extent(S[k + 1])
  BY <1>2, <1>3, <1>4 DEF Reading
<1>9. PICK f \in WireFrame, e \in Nat : f = S[k + 1] /\ e = Extent(f)
  <2>1. S[k + 1] \in WireFrame
    BY <1>7, <1>8, LayoutBegun
  <2>2. QED
    BY <2>1, ExtentFacts
<1>10. PICK raw : Arriving(raw, f, d) /\ \A i \in 1..e : s[i] = raw[i]
  BY <1>7, <1>8, <1>9, LayoutBegun
<1>11. PICK n \in Nat : n = Len(b) /\ n <= e
  <2>1. PICK n \in Nat : n = Len(u)
    BY LenProperties
  <2>2. n < e /\ Len(b) = n + 1
    BY <1>5, <1>8, <1>9, <2>1
  <2>3. QED
    BY <2>2
<1>12. ASSUME NEW i \in 1..n PROVE b[i] = raw[i]
  <2>1. i \in 1..e /\ i \in 1..Len(b)
    BY <1>11
  <2>2. s[i] = b[i]
    BY <1>6, <2>1, StreamSplit
  <2>3. QED
    BY <1>10, <2>1, <2>2
<1>13. Part(b, t, p, f, raw)
  BY <1>2, <1>6, <1>7, <1>8, <1>9, <1>10, <1>11, <1>12 DEF Part
<1>14. QED
  BY <1>4, <1>5, <1>13

LEMMA StreamHeaderByte ==
  ASSUME StreamInv, HeaderByte
  PROVE  StreamInv'
<1>1. PICK b : b = Append(buf, Head(wire))
  OBVIOUS
<1>2. /\ at = "header" /\ wire # <<>> /\ wire' = Tail(wire) /\ buf' = b
      /\ at' = IF Len(b) < 5 THEN "header"
               ELSE IF GetLen(b[4], b[5]) > MaxDataLen THEN "closed" ELSE "rest"
      /\ UNCHANGED <<sent, got, damage>>
  BY <1>1 DEF HeaderByte
<1>3. b \in Seq(Byte) /\ Tail(wire) \in Seq(Byte) /\ Len(b) = Len(buf) + 1
  BY <1>1, <1>2, StreamKept DEF StreamInv, StreamTypeOK
<1>4. StreamTypeOK'
  BY <1>2, <1>3 DEF StreamInv, StreamTypeOK
<1>5. ASSUME damage \in {"none", "content"} PROVE Taken' /\ Awaited' /\ at' # "closed"
  <2>1. Connected
    BY <1>2 DEF Connected
  <2>2. PICK p, f, raw : Part(b, Tail(wire), p, f, raw)
    BY <1>1, <1>2, <1>5, PartRead
  <2>3. PICK n \in Nat : n = Len(b) /\ 2 <= n /\ n <= 5
    <3>1. PICK q : Reading(q)
      BY <1>5, <2>1, ReaderKnows
    <3>2. PICK m \in Nat : m = Len(buf) /\ 1 <= m /\ m <= 4
      <4>1. Len(buf) \in Nat
        BY LenProperties DEF StreamInv, StreamTypeOK
      <4>2. QED
        BY <1>2, <3>1, <4>1 DEF Reading
    <3>3. QED
      BY <1>3, <3>2
  <2>4. PICK e \in Nat : e = Extent(f) /\ e >= 6
    BY <2>2, ExtentFacts DEF Part
  <2>5. Taken'
    BY <1>2, <1>5, <2>1, ReaderKnows DEF Taken
  <2>6. at' = IF n < 5 THEN "header" ELSE "rest"
    <3>1. CASE n < 5
      BY <1>2, <2>3, <3>1
    <3>2. CASE n = 5
      <4>1. 4 \in 1..Len(b) /\ 5 \in 1..Len(b)
        BY <2>3, <3>2
      <4>2. b[4] = raw[4] /\ b[5] = raw[5]
        BY <2>2, <4>1 DEF Part
      <4>3. GetLen(b[4], b[5]) = Len(f.data)
        BY <2>2, <4>2 DEF Part, Arriving
      <4>4. Len(f.data) \in Nat /\ Len(f.data) <= MaxDataLen /\ MaxDataLen \in Nat
        BY <2>2, WireFacts, LimitAssumption DEF Part
      <4>5. ~(GetLen(b[4], b[5]) > MaxDataLen)
        BY <4>3, <4>4
      <4>6. QED
        BY <1>2, <2>3, <3>2, <4>5
    <3>3. QED
      BY <2>3, <3>1, <3>2
  <2>7. n < e
    BY <2>3, <2>4
  <2>8. Reading(p)'
    <3>1. /\ Len(got') < Len(sent') /\ p[Len(got') + 1] = 0
          /\ Len(buf') < Extent(sent'[Len(got') + 1])
      BY <1>2, <2>2, <2>3, <2>4, <2>7 DEF Part
    <3>2. /\ at' = "header" => 1 <= Len(buf') /\ Len(buf') <= 4
          /\ at' = "rest" => 5 <= Len(buf')
      BY <1>2, <2>3, <2>6
    <3>3. at' # "scan"
      BY <2>6
    <3>4. QED
      BY <3>1, <3>2, <3>3 DEF Reading
  <2>9. Layout(p, buf' \o wire', sent', Len(got'), damage')
    BY <1>2, <2>2 DEF Part
  <2>10. Awaited'
    BY <2>8, <2>9 DEF Awaited
  <2>11. at' # "closed"
    BY <2>6
  <2>12. QED
    BY <2>5, <2>10, <2>11
<1>6. QED
  BY <1>2, <1>4, <1>5 DEF StreamInv

LEMMA StreamRestByte ==
  ASSUME StreamInv, RestByte
  PROVE  StreamInv'
<1>1. PICK b : b = Append(buf, Head(wire))
  OBVIOUS
<1>2. /\ at = "rest" /\ wire # <<>> /\ wire' = Tail(wire)
      /\ UNCHANGED <<sent, damage>>
      /\ \/ Len(b) < RestLen /\ buf' = b /\ UNCHANGED <<at, got>>
         \/ /\ ~(Len(b) < RestLen) /\ buf' = <<>>
            /\ at' = IF DecodeFrame(b) = Bad THEN "closed" ELSE "scan"
            /\ got' = IF DecodeFrame(b) = Bad THEN got
                      ELSE Append(got, DecodeFrame(b))
  BY <1>1 DEF RestByte
<1>3. b \in Seq(Byte) /\ Tail(wire) \in Seq(Byte) /\ Len(b) = Len(buf) + 1
  BY <1>1, <1>2, StreamKept DEF StreamInv, StreamTypeOK
<1>4. StreamTypeOK'
  BY <1>2, <1>3, EmptySeq DEF StreamInv, StreamTypeOK
<1>5. ASSUME damage \in {"none", "content"}
      PROVE  /\ Taken' /\ (damage = "none" => at' # "closed")
             /\ at' # "closed" => Awaited'
  <2>1. Connected
    BY <1>2 DEF Connected
  <2>2. PICK p, f, raw : Part(b, Tail(wire), p, f, raw)
    BY <1>1, <1>2, <1>5, PartRead
  <2>3. PICK n \in Nat : n = Len(b) /\ 6 <= n
    <3>1. PICK q : Reading(q)
      BY <1>5, <2>1, ReaderKnows
    <3>2. PICK m \in Nat : m = Len(buf) /\ 5 <= m
      <4>1. Len(buf) \in Nat
        BY LenProperties DEF StreamInv, StreamTypeOK
      <4>2. QED
        BY <1>2, <3>1, <4>1 DEF Reading
    <3>3. QED
      BY <1>3, <3>2
  <2>4. PICK e \in Nat : e = Extent(f) /\ e >= 6 /\ n <= e
    BY <2>2, <2>3, ExtentFacts DEF Part
  <2>5. Taken
    BY <1>5, <2>1, ReaderKnows
  <2>6. RestLen = e
    <3>1. buf \in Seq(Byte) /\ Head(wire) \in Byte /\ 4 \in 1..Len(buf)
          /\ 5 \in 1..Len(buf)
      <4>1. buf \in Seq(Byte) /\ wire \in Seq(Byte)
        BY DEF StreamInv, StreamTypeOK
      <4>2. PICK m \in Nat : m = Len(buf)
        BY <4>1, LenProperties
      <4>3. m + 1 >= 6
        BY <1>3, <2>3, <4>2
      <4>4. QED
        BY <1>2, <4>1, <4>2, <4>3, StreamKept
    <3>2. buf[4] = b[4] /\ buf[5] = b[5]
      BY <1>1, <3>1, AppendProperties
    <3>3. 4 \in 1..Len(b) /\ 5 \in 1..Len(b)
      BY <2>3
    <3>4. b[4] = raw[4] /\ b[5] = raw[5]
      BY <2>2, <3>3 DEF Part
    <3>5. GetLen(buf[4], buf[5]) = Len(f.data)
      BY <2>2, <3>2, <3>4 DEF Part, Arriving
    <3>6. Len(f.data) \in Nat
      BY <2>2, WireFacts DEF Part
    <3>7. QED
      BY <2>4, <3>5, <3>6 DEF RestLen, MinLen, Extent
  <2>7. CASE n < e
    <3>1. buf' = b /\ UNCHANGED <<at, got>>
      BY <1>2, <2>3, <2>6, <2>7
    <3>2. Taken'
      BY <1>2, <2>5, <3>1 DEF Taken
    <3>3. Reading(p)'
      <4>1. /\ Len(got') < Len(sent') /\ p[Len(got') + 1] = 0
            /\ Len(buf') < Extent(sent'[Len(got') + 1])
        BY <1>2, <2>2, <2>3, <2>4, <2>7, <3>1 DEF Part
      <4>2. at' = "rest" /\ 5 <= Len(buf')
        BY <1>2, <2>3, <3>1
      <4>3. QED
        BY <4>1, <4>2 DEF Reading
    <3>4. Layout(p, buf' \o wire', sent', Len(got'), damage')
      BY <1>2, <2>2, <3>1 DEF Part
    <3>5. Awaited'
      BY <3>3, <3>4 DEF Awaited
    <3>6. at' # "closed"
      BY <1>2, <3>1
    <3>7. QED
      BY <3>2, <3>5, <3>6
  <2>8. CASE n = e
    <3>1. b = raw
      <4>1. raw \in Seq(Byte) /\ Len(raw) = n /\ \A i \in 1..n : b[i] = raw[i]
        BY <2>2, <2>3, <2>4, <2>8 DEF Part, Arriving
      <4>2. QED
        BY <1>3, <2>3, <4>1, SeqEqual
    <3>2. /\ buf' = <<>>
          /\ at' = IF DecodeFrame(b) = Bad THEN "closed" ELSE "scan"
          /\ got' = IF DecodeFrame(b) = Bad THEN got
                    ELSE Append(got, DecodeFrame(b))
      BY <1>2, <2>3, <2>6, <2>8
    <3>3. DecodeFrame(b) = f \/ (DecodeFrame(b) = Bad /\ damage # "none")
      BY <2>2, <3>1 DEF Part, Arriving
    <3>4. CASE DecodeFrame(b) = Bad
      <4>1. f # Bad
        BY <2>2, WireFacts, BadAssumption DEF Part
      <4>2. damage # "none" /\ at' = "closed" /\ got' = got
        BY <3>2, <3>3, <3>4, <4>1
      <4>3. Taken'
        BY <1>2, <2>5, <4>2 DEF Taken
      <4>4. QED
        BY <4>2, <4>3
    <3>5. CASE DecodeFrame(b) # Bad
      <4>1. at' = "scan" /\ got' = Append(got, f)
        BY <3>2, <3>3, <3>5
      <4>2. PICK S \in Seq(WireFrame), k \in Nat, m \in Nat, d \in {damage} :
              /\ S = sent /\ k = Len(got) /\ m = Len(S) /\ d = damage
              /\ k < m /\ f = S[k + 1]
        <5>1. sent \in Seq(WireFrame) /\ got \in Seq(WireFrame)
          BY <2>5 DEF Taken, StreamInv, StreamTypeOK
        <5>2. Len(sent) \in Nat /\ Len(got) \in Nat
          BY <5>1, LenProperties
        <5>3. Len(got) < Len(sent) /\ f = sent[Len(got) + 1]
          BY <2>2 DEF Part
        <5>4. QED
          BY <5>1, <5>2, <5>3
      <4>3. Taken'
        <5>1. PICK g \in Seq(WireFrame) : g = got /\ Len(g) = k
          BY <2>5, <4>2 DEF Taken
        <5>2. f \in WireFrame
          BY <2>2 DEF Part
        <5>3. /\ got' \in Seq(WireFrame) /\ Len(got') = k + 1
              /\ \A i \in 1..k : got'[i] = g[i]
              /\ got'[k + 1] = f
          BY <4>1, <5>1, <5>2, AppendProperties
        <5>4. \A i \in 1..k : g[i] = S[i]
          BY <2>5, <4>2, <5>1 DEF Taken
        <5>5. \A i \in 1..(k + 1) : got'[i] = S[i]
          <6> TAKE i \in 1..(k + 1)
          <6>1. CASE i = k + 1
            BY <4>2, <5>3, <6>1
          <6>2. CASE i # k + 1
            BY <5>3, <5>4, <6>2
          <6>3. QED
            BY <6>1, <6>2
        <5>6. k + 1 <= m
          BY <4>2
        <5>7. QED
          BY <1>2, <4>2, <5>3, <5>5, <5>6 DEF Taken
      <4>4. PICK t \in Seq(Byte), l \in Nat : t = Tail(wire) /\ l = Len(t)
        BY <1>3, LenProperties
      <4>5. PICK s : s = b \o t
        OBVIOUS
      <4>6. Layout(p, s, S, k, d) /\ p[k + 1] = 0
        BY <2>2, <4>2, <4>4, <4>5 DEF Part
      <4>7. Behind(t, s, e, l)
        BY <1>3, <2>3, <2>8, <4>4, <4>5, StreamSplit
      <4>8. \A j \in (k + 1 + 1)..Len(S) : p[j] >= e
        <5> TAKE j \in (k + 1 + 1)..Len(S)
        <5>1. j \in (k + 1)..m /\ k + 1 \in (k + 1)..m /\ k + 1 < j
          BY <4>2
        <5>2. p[k + 1] + Extent(S[k + 1]) <= p[j] /\ p[j] \in Nat
          BY <4>2, <4>6, <5>1 DEF Layout
        <5>3. 0 + e <= p[j]
          BY <2>4, <4>2, <4>6, <5>2
        <5>4. QED
          BY <5>2, <5>3
      <4>9. \A j \in (k + 1)..Len(S) : j <= k + 1 => p[j] + Extent(S[j]) <= e
        <5> SUFFICES ASSUME NEW j \in (k + 1)..m, j <= k + 1
                     PROVE  p[j] + Extent(S[j]) <= e
          BY <4>2
        <5>1. j = k + 1
          OBVIOUS
        <5>2. QED
          BY <2>4, <4>2, <4>6, <5>1
      <4>10. k + 1 \in Nat /\ k <= k + 1
        OBVIOUS
      <4>11. PICK r : Layout(r, t, S, k + 1, d)
        BY <4>6, <4>7, <4>8, <4>9, <4>10, LayoutRead
      <4>12. buf' \o wire' = t
        BY <1>2, <3>2, <4>4, ConcatEmptySeq
      <4>13. Len(got') = k + 1
        <5>1. got \in Seq(WireFrame) /\ f \in WireFrame
          BY <2>2, <2>5 DEF Part, Taken
        <5>2. QED
          BY <4>1, <4>2, <5>1, AppendProperties
      <4>14. Layout(r, buf' \o wire', sent', Len(got'), damage')
        BY <1>2, <4>2, <4>11, <4>12, <4>13
      <4>15. Reading(r)'
        BY <3>2, <4>1 DEF Reading
      <4>16. QED
        BY <4>1, <4>3, <4>14, <4>15 DEF Awaited
    <3>6. QED
      BY <3>4, <3>5
  <2>9. QED
    BY <2>4, <2>7, <2>8
<1>6. at' = "closed" => ~Connected'
  BY DEF Connected
<1>7. QED
  BY <1>2, <1>4, <1>5, <1>6 DEF StreamInv

LEMMA StreamStep ==
  ASSUME StreamInv, [FrameNext]_frameVars
  PROVE  StreamInv'
<1>1. CASE FrameNext
  <2>1. ASSUME NEW f \in WireFrame, NEW n \in Noise, Send(f, n) PROVE StreamInv'
    BY <2>1, StreamSend
  <2>2. ASSUME NEW f \in WireFrame, NEW i, NEW b \in Byte, SendDamaged(f, i, b)
        PROVE  StreamInv'
    BY <2>2, StreamSendDamaged
  <2>3. CASE ScanByte
    BY <2>3, StreamScanByte
  <2>4. CASE HeaderByte
    BY <2>4, StreamHeaderByte
  <2>5. CASE RestByte
    BY <2>5, StreamRestByte
  <2>6. CASE Disconnect
    <3>1. /\ at' = "ended" /\ buf' = <<>> /\ wire' = <<>>
          /\ UNCHANGED <<sent, got, damage>>
      BY <2>6 DEF Disconnect
    <3>2. StreamTypeOK'
      BY <3>1, EmptySeq DEF StreamInv, StreamTypeOK
    <3>3. Taken => Taken'
      BY <3>1 DEF Taken
    <3>4. ~Connected'
      BY <3>1 DEF Connected
    <3>5. QED
      BY <3>1, <3>2, <3>3, <3>4 DEF StreamInv
  <2>7. QED
    BY <1>1, <2>1, <2>2, <2>3, <2>4, <2>5, <2>6 DEF FrameNext
<1>2. CASE UNCHANGED frameVars
  <2>1. UNCHANGED <<sent, got, wire, damage, at, buf>>
    BY <1>2 DEF frameVars
  <2>2. StreamTypeOK' /\ (Taken => Taken') /\ (Awaited => Awaited')
        /\ Connected' = Connected
    BY <2>1 DEF StreamInv, StreamTypeOK, Taken, Awaited, Reading, Connected
  <2>3. QED
    BY <2>1, <2>2 DEF StreamInv
<1>3. QED
  BY <1>1, <1>2

\* Nothing is left of the frames when the wire is empty and none has been
\* refused.
LEMMA AllRead ==
  ASSUME StreamInv, damage = "none", wire = <<>>, Connected
  PROVE  got = sent
<1>1. PICK S \in Seq(WireFrame), g \in Seq(WireFrame) : S = sent /\ g = got
  BY DEF StreamInv, StreamTypeOK, Taken
<1>2. PICK m \in Nat, k \in Nat : m = Len(S) /\ k = Len(g) /\ k <= m
  BY <1>1, LenProperties DEF StreamInv, Taken
<1>3. PICK p : Layout(p, buf \o wire, S, k, damage) /\ Reading(p)
  BY <1>1, <1>2, ReaderKnows
<1>4. PICK u \in Seq(Byte), n \in Nat : u = buf /\ n = Len(u)
  BY LenProperties DEF StreamInv, StreamTypeOK
<1>5. buf \o wire = u
  BY <1>4, ConcatEmptySeq
<1>6. Layout(p, u, S, k, damage)
  BY <1>3, <1>5
<1>7. ~(k < m)
  <2> SUFFICES ASSUME k < m PROVE FALSE
    OBVIOUS
  <2>1. k + 1 \in (k + 1)..m /\ k + 1 \in 1..m
    OBVIOUS
  <2>2. S[k + 1] \in WireFrame
    BY <1>2, <2>1, ElementOfSeq
  <2>3. PICK e \in Nat : e = Extent(S[k + 1]) /\ e >= 6
    BY <2>2, ExtentFacts
  <2>4. PICK a \in Nat : a = p[k + 1] /\ a + e <= n
    BY <1>2, <1>4, <1>6, <2>1, <2>3 DEF Layout
  <2>5. CASE at = "scan"
    <3>1. n = 0
      BY <1>3, <1>4, <2>5, EmptySeq DEF Reading
    <3>2. QED
      BY <2>3, <2>4, <3>1
  <2>6. CASE at # "scan"
    <3>1. n < e
      BY <1>1, <1>2, <1>3, <1>4, <2>3, <2>6 DEF Reading
    <3>2. QED
      BY <2>4, <3>1
  <2>7. QED
    BY <2>5, <2>6
<1>8. k = m
  BY <1>2, <1>7
<1>9. \A i \in 1..k : g[i] = S[i]
  BY <1>1, <1>2 DEF StreamInv, Taken
<1>10. g = S
  BY <1>2, <1>8, <1>9, SeqEqual
<1>11. QED
  BY <1>1, <1>10

LEMMA PrefixRead ==
  ASSUME StreamTypeOK, Taken
  PROVE  IsPrefix(got, sent)
<1>1. PICK S \in Seq(WireFrame), g \in Seq(WireFrame) : S = sent /\ g = got
  BY DEF StreamTypeOK, Taken
<1>2. PICK m \in Nat, k \in Nat : m = Len(S) /\ k = Len(g) /\ k <= m
  BY <1>1, LenProperties DEF Taken
<1>3. \A i \in 1..k : g[i] = S[i]
  BY <1>1, <1>2 DEF Taken
<1>4. SubSeq(g, 1, k) = SubSeq(S, 1, k)
  BY <1>3
<1>5. QED
  BY <1>1, <1>2, <1>4 DEF IsPrefix

\* The inductive invariant of the frames on a connection: the frames still to
\* be read lie in order in the bytes buffered and on the wire, with no
\* preamble outside of them, and the reader stands before the first of them or
\* within it.
THEOREM StreamInvariant == FrameSpec => []StreamInv
<1>1. FrameInit => StreamInv
  BY StreamInit
<1>2. StreamInv /\ [FrameNext]_frameVars => StreamInv'
  BY StreamStep
<1>3. QED
  BY <1>1, <1>2, PTL DEF FrameSpec

\* The frames read are the frames sent, in order and without loss, while no
\* preamble and no length is damaged: ReadFrame loses no frame and invents
\* none, however frames and noise are sent and whatever the data contain.
THEOREM FramesIntact == FrameSpec => []StreamIntact
<1>1. StreamInv => StreamIntact
  <2> SUFFICES ASSUME StreamInv PROVE StreamIntact
    OBVIOUS
  <2>1. damage \in {"none", "content"} => IsPrefix(got, sent)
    BY PrefixRead DEF StreamInv
  <2>2. damage = "none" => at # "closed"
    BY DEF StreamInv
  <2>3. damage = "none" /\ wire = <<>> /\ Connected => got = sent
    BY AllRead
  <2>4. QED
    BY <2>1, <2>2, <2>3 DEF StreamIntact
<1>2. QED
  BY <1>1, StreamInvariant, PTL

\* DecodeFrame takes back what EncodeFrame makes of any frame and refuses it
\* with any one byte changed, for every size of a byte and every limit on the
\* length.
THEOREM CodecRoundTrip == FrameSpec => []CodecSound
<1>1. StreamInv => CodecSound
  <2> SUFFICES ASSUME StreamInv PROVE CodecSound
    OBVIOUS
  <2>1. ASSUME NEW f \in Range(sent) PROVE f \in WireFrame
    <3>1. PICK S \in Seq(WireFrame) : S = sent
      BY DEF StreamInv, StreamTypeOK
    <3>2. PICK i \in DOMAIN S : f = S[i]
      BY <3>1 DEF Range
    <3>3. i \in 1..Len(S)
      BY <3>2, LenProperties
    <3>4. QED
      BY <3>2, <3>3, ElementOfSeq
  <2>2. QED
    BY <2>1, CodecWorks DEF CodecSound
<1>2. QED
  BY <1>1, StreamInvariant, PTL
=============================================================================
