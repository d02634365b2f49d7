---------------------------- MODULE CryptoServer ----------------------------
(***************************************************************************)
(* internal/tcp/crypto_server.go: the per-connection read loop, with the   *)
(* middleware pipeline (middleware.go) and the command handlers            *)
(* cmd0x65 (handler.go, heartbeat.go) and cmd0x59 (handler.go) it          *)
(* dispatches to, running concurrently with the web interface that changes *)
(* the devices table (DeviceStore).                                        *)
(*                                                                         *)
(* pc[c] is where the goroutine of connection c stands: "read" is the      *)
(* blocking ReadFrame; the other states are the points between two         *)
(* accesses to state it shares with others (a query, the hub).  A frame    *)
(* that arrives is a record with the fields its handler looks at; len is   *)
(* the data length, of which only the comparisons with the protocol's      *)
(* sizes matter.  A signature over nonce n with the private key of k is    *)
(* the pair <<k, n>>, and Garbage is any other 256 bytes.                  *)
(*                                                                         *)
(* The hub appears as PubSub describes it (Hub implements PubSub): a lossy *)
(* multicast to the other subscribed connections.                          *)
(***************************************************************************)
EXTENDS DeviceStore, Sequences

CONSTANTS Conn,       \* connections
          BadKey,     \* stored PEM texts that ParsePublicKey rejects
          NoDev,      \* the empty ctx.DeviceID
          NoKey,      \* no key read yet
          Garbage,    \* a signature no key has made
          MaxMsg,     \* bound: regular messages published
          MaxOut,     \* bound: frames written to one connection
          MaxWeb      \* bound: requests of the web interface

ASSUME BoundsAssumption == MaxMsg \in Nat /\ MaxOut \in Nat /\ MaxWeb \in Nat
ASSUME ValuesAssumption ==
  /\ BadKey \subseteq Key /\ NoKey \notin Key /\ NoDev \notin Device
  /\ Garbage \notin Key \X Nat

VARIABLES
  pc,         \* control state of handleConnection
  did,        \* ctx.DeviceID = Handler.deviceID
  step,       \* Handler.step
  key,        \* pubKeyPEM, kept in Handler.pubKeyPEM
  nonce,      \* Handler.challenge; 0: none
  expired,    \* ChallengeTTL has passed since the challenge was made
  authed,     \* ctx.Authenticated
  subscribed, \* the hub's subscribers
  box,        \* messages waiting in sub.C
  out,        \* frames given to conn.Write (errors of status writes are ignored)
  published,  \* messages given to the hub: [conn, did]
  measured,   \* device IDs of the measurements enqueued
  nonces,     \* number of challenges made
  hold,       \* the key whose private half the peer of the connection holds
  signed,     \* signatures made so far
  hist,       \* <<d, k, s>>: d was live with key k and in_service s
  webOps      \* requests served by the web interface

connVars == <<pc, did, step, key, nonce, expired, authed>>
ioVars   == <<subscribed, box, out, published, measured>>
vars == <<devices, rows, pc, did, step, key, nonce, expired, authed,
          subscribed, box, out, published, measured, nonces, hold, signed,
          hist, webOps>>

----------------------------------------------------------------------------
(* Constants of frame.go.                                                  *)
CmdAuth == "0x65"
CmdRegular == "0x59"
CmdOther == "unregistered"

AddrAuthCommand == "0x60"
AddrParamRequest == "0x61"
AddrTimeRequest == "0x66"
AddrDeviceRegular == "0x76"
AddrOther == "other"

DeviceIDSize == 14
AuthLen == DeviceIDSize + 1 + 256
TimeDataLen == 8
DataLen == 44
AuthProtocolVersion == 1

\* Signatures the peer of c can present: any signature made so far, its own
\* over the challenge it was sent, or bytes that are no signature.
Presentable(c) ==
  signed \union {Garbage} \union
    (IF nonce[c] # 0 THEN {<<hold[c], nonce[c]>>} ELSE {})

\* The frames that may arrive.  TrimDeviceID turns a blank ID into the empty
\* one, which no row of the table has (the web interface refuses it).  The
\* fields behind a wrong length or version are not looked at: one value each.
Frames(c) ==
  [cmd : {CmdAuth}, addr : {AddrParamRequest}, len : {0, DeviceIDSize},
   did : Device \union {NoDev}]
  \union
  [cmd : {CmdAuth}, addr : {AddrAuthCommand}, len : {AuthLen},
   did : Device \union {NoDev}, ver : {AuthProtocolVersion},
   sig : Presentable(c)]
  \union
  [cmd : {CmdAuth}, addr : {AddrAuthCommand}, len : {AuthLen - 1, AuthLen},
   did : {NoDev}, ver : {AuthProtocolVersion + 1}, sig : {Garbage}]
  \union
  [cmd : {CmdAuth}, addr : {AddrTimeRequest}, len : {TimeDataLen, TimeDataLen + 1}]
  \union
  [cmd : {CmdRegular}, addr : {AddrDeviceRegular, AddrOther},
   len : {DataLen - 1, DataLen}]
  \union
  [cmd : {CmdOther}, addr : {AddrOther}, len : {0}]

\* What the table says now of every live device: recorded in hist.
Eligible == {<<d, devices[d].key, devices[d].inService>> : d \in {e \in Device : Live(e)}}

Init ==
  /\ StoreInit
  /\ pc = [c \in Conn |-> "new"] /\ did = [c \in Conn |-> NoDev]
  /\ step = [c \in Conn |-> "WaitParam"]
  /\ key = [c \in Conn |-> NoKey] /\ nonce = [c \in Conn |-> 0]
  /\ expired = [c \in Conn |-> FALSE] /\ authed = [c \in Conn |-> FALSE]
  /\ subscribed = {} /\ box = [c \in Conn |-> <<>>]
  /\ out = [c \in Conn |-> <<>>] /\ published = <<>> /\ measured = {}
  /\ nonces = 0 /\ hold \in [Conn -> Key \ BadKey] /\ signed = {}
  /\ hist = {} /\ webOps = 0

----------------------------------------------------------------------------
(* The frame of the read loop.                                             *)

\* Accept: handleConnection starts.
Accept(c) ==
  /\ pc[c] = "new"
  /\ pc' = [pc EXCEPT ![c] = "read"]
  /\ UNCHANGED <<dsVars, did, step, key, nonce, expired, authed, ioVars,
                 nonces, hold, signed, hist, webOps>>

\* ReadFrame fails: end of stream, a frame that is too long or has a wrong
\* CRC, or the five-minute read deadline.
ReadError(c) ==
  /\ pc[c] = "read"
  /\ pc' = [pc EXCEPT ![c] = "done"]
  /\ UNCHANGED <<dsVars, did, step, key, nonce, expired, authed, ioVars,
                 nonces, hold, signed, hist, webOps>>

\* ReadFrame yields frame f.  An authenticated connection refreshes the last
\* activity of its device before the frame is looked at.
Receives(c, f) ==
  /\ pc[c] = "read" /\ Len(out[c]) < MaxOut
  /\ devices' = IF authed[c] THEN Seen(did[c]) ELSE devices
  /\ UNCHANGED <<rows, webOps, hold, hist>>

Write(c, frames) == out' = [out EXCEPT ![c] = @ \o frames]

\* The auth gate for commands other than 0x65.  Mutation: it is satisfied
\* with a device ID.
GateOnName(c) == did[c] # NoDev
GateOpen(c) == authed[c]

\* A frame that changes nothing: no handler for its command, the auth gate
\* drops it, or cmd0x59 does not know its address.
Ignored(c, f) ==
  /\ Receives(c, f)
  /\ \/ f.cmd = CmdOther
     \/ ~GateOpen(c) /\ f.cmd # CmdAuth
     \/ GateOpen(c) /\ f.cmd = CmdRegular /\ f.addr # AddrDeviceRegular
  /\ UNCHANGED <<connVars, ioVars, nonces, signed>>

----------------------------------------------------------------------------
(* cmd0x65, first message: the parameter request.                          *)

\* Gates 1 and 2: address and length.  The error closes the connection,
\* because it is not authenticated.
ParamRefused(c, f) ==
  /\ Receives(c, f) /\ f.cmd = CmdAuth /\ step[c] = "WaitParam"
  /\ \/ f.addr # AddrParamRequest /\ Write(c, <<"SpecError">>)
     \/ /\ f.addr = AddrParamRequest /\ f.len < DeviceIDSize
        /\ Write(c, <<"DataLenError">>)
  /\ pc' = [pc EXCEPT ![c] = "done"]
  /\ UNCHANGED <<did, step, key, nonce, expired, authed, subscribed, box,
                 published, measured, nonces, signed>>

\* Mutation of the next action: it is taken in every step of the handler.
ParamRequestAnytime(c, f) ==
  /\ Receives(c, f) /\ f.cmd = CmdAuth
  /\ f.addr = AddrParamRequest /\ f.len >= DeviceIDSize
  /\ did' = [did EXCEPT ![c] = f.did]
  /\ pc' = [pc EXCEPT ![c] = "getkey"]
  /\ UNCHANGED <<step, key, nonce, expired, authed, ioVars, nonces, signed>>

\* Gate 3: from here on the connection carries the device ID it was told.
ParamRequest(c, f) ==
  /\ Receives(c, f) /\ f.cmd = CmdAuth /\ step[c] = "WaitParam"
  /\ f.addr = AddrParamRequest /\ f.len >= DeviceIDSize
  /\ did' = [did EXCEPT ![c] = f.did]
  /\ pc' = [pc EXCEPT ![c] = "getkey"]
  /\ UNCHANGED <<step, key, nonce, expired, authed, ioVars, nonces, signed>>

\* Gate 4: the first query.
GetKey(c) ==
  /\ pc[c] = "getkey" /\ did[c] \in Device /\ Live(did[c])
  /\ key' = [key EXCEPT ![c] = GetPublicKey(did[c])]
  /\ pc' = [pc EXCEPT ![c] = "service"]
  /\ UNCHANGED <<dsVars, did, step, nonce, expired, authed, ioVars, nonces,
                 hold, signed, hist, webOps>>

\* Gates 4 and 5 refuse: the device is unknown, deleted or out of service,
\* or the query fails.
Denied(c) ==
  /\ \/ pc[c] = "getkey"
     \/ pc[c] = "service"
  /\ Write(c, <<"CmdExecError">>)
  /\ pc' = [pc EXCEPT ![c] = "done"]
  /\ UNCHANGED <<dsVars, did, step, key, nonce, expired, authed, subscribed,
                 box, published, measured, nonces, hold, signed, hist, webOps>>

\* Gates 5 and 6: the second query, then the challenge, which is a fresh
\* random nonce with the time it was made.
Challenge(c) ==
  /\ pc[c] = "service" /\ IsInService(did[c])
  /\ nonces' = nonces + 1
  /\ nonce' = [nonce EXCEPT ![c] = nonces + 1]
  /\ Write(c, <<"Challenge">>)
  /\ step' = [step EXCEPT ![c] = "WaitAuth"]
  /\ pc' = [pc EXCEPT ![c] = "read"]
  /\ UNCHANGED <<dsVars, did, key, expired, authed, subscribed, box,
                 published, measured, hold, signed, hist, webOps>>

\* Gate 6 refuses (no randomness), or the challenge cannot be written.
ChallengeFails(c) ==
  /\ pc[c] = "service" /\ IsInService(did[c])
  /\ \/ Write(c, <<"TimeoutError">>)
     \/ UNCHANGED out
  /\ pc' = [pc EXCEPT ![c] = "done"]
  /\ UNCHANGED <<dsVars, did, step, key, nonce, expired, authed, subscribed,
                 box, published, measured, nonces, hold, signed, hist, webOps>>

----------------------------------------------------------------------------
(* cmd0x65, second message: the signed challenge.                          *)

\* IsChallengeExpired becomes true; only handleAuth will ask for it.
Expire(c) ==
  /\ pc[c] = "read" /\ step[c] = "WaitAuth" /\ ~expired[c]
  /\ expired' = [expired EXCEPT ![c] = TRUE]
  /\ UNCHANGED <<dsVars, pc, did, step, key, nonce, authed, ioVars, nonces,
                 hold, signed, hist, webOps>>

\* VerifyChallengeResponse.  Mutation: any challenge will do.
VerifiesAny(k, n, sig) == sig # Garbage /\ sig[1] = k
Verifies(k, n, sig) == sig = <<k, n>>

\* The status frames handleAuth answers with, gate by gate.
AuthReply(c, f) ==
  IF f.addr # AddrAuthCommand THEN <<"SpecError">>
  ELSE IF f.len < AuthLen THEN <<"DataLenError">>
  ELSE IF f.ver # AuthProtocolVersion THEN <<"OK", "DataValueError">>
  ELSE IF f.did # did[c] THEN <<"OK", "DataValueError">>
  ELSE IF expired[c] THEN <<"OK", "CmdExecError">>
  ELSE IF key[c] \in BadKey THEN <<"OK", "TimeoutError">>
  ELSE IF ~Verifies(key[c], nonce[c], f.sig) THEN <<"OK", "DataValueError">>
  ELSE <<"OK", "Authorized">>

\* A signature the peer presents has been made, and may be presented again.
Presented(c, f) ==
  signed' = IF f.addr = AddrAuthCommand /\ f.sig # Garbage
              THEN signed \union {f.sig} ELSE signed

AuthRefused(c, f) ==
  /\ Receives(c, f) /\ f.cmd = CmdAuth /\ step[c] = "WaitAuth"
  /\ AuthReply(c, f) # <<"OK", "Authorized">>
  /\ Write(c, AuthReply(c, f)) /\ Presented(c, f)
  /\ pc' = [pc EXCEPT ![c] = "done"]
  /\ UNCHANGED <<did, step, key, nonce, expired, authed, subscribed, box,
                 published, measured, nonces>>

Authorize(c, f) ==
  /\ Receives(c, f) /\ f.cmd = CmdAuth /\ step[c] = "WaitAuth"
  /\ AuthReply(c, f) = <<"OK", "Authorized">>
  /\ Write(c, AuthReply(c, f)) /\ Presented(c, f)
  /\ authed' = [authed EXCEPT ![c] = TRUE]
  /\ pc' = [pc EXCEPT ![c] = "seen"]
  /\ UNCHANGED <<did, step, key, nonce, expired, subscribed, box, published,
                 measured, nonces>>

\* The end of handleAuth: the moment of authorization is recorded.
Authorized(c) ==
  /\ pc[c] = "seen"
  /\ devices' = Seen(did[c])
  /\ step' = [step EXCEPT ![c] = "Done"]
  /\ pc' = [pc EXCEPT ![c] = "subscribe"]
  /\ UNCHANGED <<rows, did, key, nonce, expired, authed, ioVars, nonces, hold,
                 signed, hist, webOps>>

\* Back in the read loop: the connection joins the hub.
Subscribe(c) ==
  /\ pc[c] = "subscribe"
  /\ subscribed' = subscribed \union {c}
  /\ pc' = [pc EXCEPT ![c] = "read"]
  /\ UNCHANGED <<dsVars, did, step, key, nonce, expired, authed, box, out,
                 published, measured, nonces, hold, signed, hist, webOps>>

----------------------------------------------------------------------------
(* After authorization.                                                    *)

\* Mutation of the next action: the time is told to everybody.
HeartbeatAnytime(c, f) ==
  /\ Receives(c, f) /\ f.cmd = CmdAuth
  /\ f.addr = AddrTimeRequest /\ Write(c, <<"Time">>)
  /\ UNCHANGED <<connVars, subscribed, box, published, measured, nonces,
                 signed>>

\* cmd0x65 in stepDone: the heartbeat.  An error keeps the connection open.
Heartbeat(c, f) ==
  /\ Receives(c, f) /\ f.cmd = CmdAuth /\ step[c] = "Done"
  /\ Write(c, << IF f.addr # AddrTimeRequest THEN "SpecError"
                 ELSE IF f.len # TimeDataLen THEN "DataLenError"
                 ELSE "Time" >>)
  /\ UNCHANGED <<connVars, subscribed, box, published, measured, nonces,
                 signed>>

\* cmd0x59: the measurement is enqueued when the data can be decoded; the
\* message goes to the hub in any case.
Regular(c, f) ==
  /\ Receives(c, f) /\ GateOpen(c) /\ f.cmd = CmdRegular
  /\ f.addr = AddrDeviceRegular
  /\ measured' = IF f.len >= DataLen THEN measured \union {<<c, did[c]>>}
                                     ELSE measured
  /\ pc' = [pc EXCEPT ![c] = "broadcast"]
  /\ UNCHANGED <<did, step, key, nonce, expired, authed, subscribed, box, out,
                 published, nonces, signed>>

\* hub.Broadcast: any of the other subscribers may be too slow to get it.
Broadcast(c) ==
  /\ pc[c] = "broadcast" /\ Len(published) < MaxMsg
  /\ published' = Append(published, [conn |-> c, did |-> did[c]])
  /\ \E R \in SUBSET (subscribed \ {c}) :
       box' = [d \in Conn |-> IF d \in R THEN Append(box[d], Len(published) + 1)
                                         ELSE box[d]]
  /\ pc' = [pc EXCEPT ![c] = "read"]
  /\ UNCHANGED <<dsVars, did, step, key, nonce, expired, authed, subscribed,
                 out, measured, nonces, hold, signed, hist, webOps>>

\* The subscriber goroutine writes a message to the connection, also while
\* the read loop is in the middle of something else.
Forward(c) ==
  /\ c \in subscribed /\ pc[c] # "done"
  /\ box[c] # <<>> /\ Len(out[c]) < MaxOut
  /\ Write(c, <<"Broadcast">>)
  /\ box' = [box EXCEPT ![c] = Tail(@)]
  /\ UNCHANGED <<dsVars, connVars, subscribed, published, measured, nonces,
                 hold, signed, hist, webOps>>

\* The subscriber goroutine ends: the connection did, or a write failed.
Unsubscribe(c) ==
  /\ c \in subscribed
  /\ subscribed' = subscribed \ {c}
  /\ UNCHANGED <<dsVars, connVars, box, out, published, measured, nonces,
                 hold, signed, hist, webOps>>

----------------------------------------------------------------------------
\* A request of the web interface.
Web ==
  /\ webOps < MaxWeb /\ webOps' = webOps + 1
  /\ WebRequest
  /\ hist' = hist \union Eligible'
  /\ UNCHANGED <<connVars, ioVars, nonces, hold, signed>>

Handle(c, f) == \/ Ignored(c, f) \/ ParamRefused(c, f) \/ ParamRequest(c, f)
                \/ AuthRefused(c, f) \/ Authorize(c, f)
                \/ Heartbeat(c, f) \/ Regular(c, f)

Continue(c) == \/ GetKey(c) \/ Denied(c) \/ Challenge(c) \/ ChallengeFails(c)
               \/ Authorized(c) \/ Subscribe(c) \/ Broadcast(c)

Next == \/ \E c \in Conn : \/ Accept(c) \/ ReadError(c) \/ Expire(c)
                           \/ Continue(c) \/ Forward(c) \/ Unsubscribe(c)
                           \/ \E f \in Frames(c) : Handle(c, f)
        \/ Web

Spec == Init /\ [][Next]_vars

----------------------------------------------------------------------------
(* Properties.                                                             *)

\* The key under which the peer of c was registered for device d at some time.
Registered(c, d) == \E s \in BOOLEAN : <<d, hold[c], s>> \in hist

\* Authenticity: the peer of an authenticated connection holds the private
\* half of a key that was registered for the device ID the connection
\* carries, and that device has been in service; signatures recorded on other
\* connections, answers to other challenges and changes of the table during
\* the handshake do not help.
Authentic ==
  \A c \in Conn : authed[c] =>
    /\ hold[c] = key[c]
    /\ Registered(c, did[c])
    /\ \E k \in Key : <<did[c], k, TRUE>> \in hist

\* Everything the server distributes or stores on behalf of a device ID came
\* from such a peer: broadcasts and measurements carry a verified ID.
Attributed ==
  /\ \A i \in DOMAIN published : Registered(published[i].conn, published[i].did)
  /\ \A m \in measured : Registered(m[1], m[2])

\* Broadcasts reach a connection only after "Authorized" has been written to
\* it, which follows the challenge: the frames of the subscriber goroutine
\* never come between or before those of the handshake.
HandshakeFirst ==
  \A c \in Conn : \A i \in DOMAIN out[c] :
    out[c][i] \in {"Broadcast", "Time"} =>
      i > 3 /\ out[c][1] = "Challenge" /\ out[c][2] = "OK"
      /\ out[c][3] = "Authorized"

\* The identity of a connection is settled once: no later frame, and no
\* request of the web interface, changes the device ID it carries, the key
\* it is checked against, its challenge, or takes its authorization away.
IdentityFixed ==
  [][\A c \in Conn : /\ did[c] # NoDev => did'[c] = did[c]
                     /\ key[c] # NoKey => key'[c] = key[c]
                     /\ nonce[c] # 0 => nonce'[c] = nonce[c]
                     /\ authed[c] => authed'[c]]_vars
=============================================================================
