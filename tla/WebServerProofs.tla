-------------------------- MODULE WebServerProofs --------------------------
(***************************************************************************)
(* Proofs about the web interface: the devices table (DeviceStore), for    *)
(* any IDs and keys and any number of rows; users, sessions and requests   *)
(* (WebServer), for any number of them; the live log of events             *)
(* (LogServer), for any number of browsers and messages and any depth.     *)
(***************************************************************************)
EXTENDS WebServer, LogServer, SubsequencesProofs

----------------------------------------------------------------------------
(* The devices table (DeviceStore).                                        *)
(*                                                                         *)
(* RowsDistinct needs the type invariant, no more: a new row gets a uid    *)
(* above all that exist because these are below rows (Uids), and Rename    *)
(* moves a row to an ID that has none.                                     *)

LEMMA InitGood == StoreInit => StoreTypeOK /\ RowsDistinct
  BY MaxRowsAssumption
  DEF StoreInit, StoreTypeOK, RowsDistinct, Exists, Uids

\* A request that leaves the uids where they are keeps RowsDistinct: all of
\* them except Add and Rename.
LEMMA UidsKept ==
  ASSUME StoreTypeOK, StoreTypeOK', RowsDistinct, rows' = rows,
         \A d \in Device : devices'[d] # NoRow =>
           devices[d] # NoRow /\ devices'[d].uid = devices[d].uid
  PROVE  RowsDistinct'
  BY DEF RowsDistinct, Exists, Uids, StoreTypeOK

LEMMA ChangeOne ==
  ASSUME StoreTypeOK, RowsDistinct, NEW d \in Device, NEW r,
         rows' = rows, devices' = [devices EXCEPT ![d] = r],
         r = NoRow \/ (/\ r \in Row /\ devices[d] # NoRow
                       /\ r.uid = devices[d].uid)
  PROVE  StoreTypeOK' /\ RowsDistinct'
<1>1. StoreTypeOK'
  BY DEF StoreTypeOK
<1>2. \A e \in Device : devices'[e] # NoRow =>
        devices[e] # NoRow /\ devices'[e].uid = devices[e].uid
  BY DEF StoreTypeOK
<1>3. QED
  BY <1>1, <1>2, UidsKept

LEMMA StoreStep ==
  ASSUME StoreTypeOK, RowsDistinct, [StoreNext]_dsVars
  PROVE  StoreTypeOK' /\ RowsDistinct'
<1>1. ASSUME NEW d \in Device, NEW k \in Key, NEW s \in BOOLEAN, Add(d, k, s)
      PROVE  StoreTypeOK' /\ RowsDistinct'
  <2> DEFINE r == [uid |-> rows + 1, key |-> k, inService |-> s,
                   deleted |-> FALSE, seen |-> FALSE]
  <2>1. /\ rows \in Nat /\ rows < MaxRows /\ rows' = rows + 1
        /\ devices' = [devices EXCEPT ![d] = r] /\ devices[d] = NoRow
    BY <1>1, MaxRowsAssumption DEF Add, Exists, StoreTypeOK
  <2>2. r \in Row /\ r.uid = rows + 1
    BY <2>1 DEF Row
  <2>3. StoreTypeOK'
    BY <2>1, <2>2, MaxRowsAssumption DEF StoreTypeOK
  <2>4. \A e \in Device : devices'[e] = IF e = d THEN r ELSE devices[e]
    BY <2>1 DEF StoreTypeOK
  <2>5. \A e \in Device : Exists(e) => devices[e].uid \in 1..rows
    BY DEF RowsDistinct, Uids
  <2>6. \A e \in Device : Exists(e)' => devices'[e].uid \in 1..rows'
    BY <2>1, <2>2, <2>4, <2>5 DEF Exists
  <2>7. \A e, f \in Device :
          Exists(e)' /\ Exists(f)' /\ devices'[e].uid = devices'[f].uid => e = f
    BY <2>1, <2>2, <2>4, <2>5 DEF Exists, RowsDistinct
  <2>8. RowsDistinct'
    BY <2>6, <2>7 DEF RowsDistinct, Uids
  <2>9. QED
    BY <2>3, <2>8
<1>2. ASSUME NEW d \in Device,
             SoftDelete(d) \/ Restore(d) \/ HardDelete(d)
             \/ (\E s \in BOOLEAN : SetInService(d, s))
             \/ (\E k \in Key : SetPublicKey(d, k))
      PROVE  StoreTypeOK' /\ RowsDistinct'
  <2>1. devices[d] # NoRow /\ devices[d] \in Row /\ rows' = rows
    BY <1>2 DEF StoreTypeOK, SoftDelete, Restore, HardDelete, SetInService,
                SetPublicKey, Live, Exists
  <2>2. CASE SoftDelete(d)
    BY <2>1, <2>2, ChangeOne DEF SoftDelete, Row
  <2>3. CASE Restore(d)
    BY <2>1, <2>3, ChangeOne DEF Restore, Row
  <2>4. CASE HardDelete(d)
    BY <2>1, <2>4, ChangeOne DEF HardDelete
  <2>5. CASE \E s \in BOOLEAN : SetInService(d, s)
    BY <2>1, <2>5, ChangeOne DEF SetInService, Row
  <2>6. CASE \E k \in Key : SetPublicKey(d, k)
    BY <2>1, <2>6, ChangeOne DEF SetPublicKey, Row
  <2>7. QED
    BY <1>2, <2>2, <2>3, <2>4, <2>5, <2>6
<1>3. ASSUME NEW d \in Device, NEW e \in Device, Rename(d, e)
      PROVE  StoreTypeOK' /\ RowsDistinct'
  <2>1. /\ devices[d] # NoRow /\ devices[e] = NoRow /\ rows' = rows
        /\ devices' = [devices EXCEPT ![e] = devices[d], ![d] = NoRow]
    BY <1>3 DEF Rename, Live, Exists
  <2>2. \A f \in Device : devices'[f] = IF f = d THEN NoRow
                                        ELSE IF f = e THEN devices[d]
                                        ELSE devices[f]
    BY <2>1 DEF StoreTypeOK
  <2>3. StoreTypeOK'
    BY <2>1, <2>2 DEF StoreTypeOK
  <2>4. \A f \in Device : Exists(f) => devices[f].uid \in 1..rows
    BY DEF RowsDistinct, Uids
  <2>5. \A f \in Device : Exists(f)' => devices'[f].uid \in 1..rows'
    BY <2>1, <2>2, <2>4 DEF Exists
  <2>6. \A f, g \in Device :
          Exists(f)' /\ Exists(g)' /\ devices'[f].uid = devices'[g].uid => f = g
    BY <2>1, <2>2 DEF Exists, RowsDistinct
  <2>7. RowsDistinct'
    BY <2>5, <2>6 DEF RowsDistinct, Uids
  <2>8. QED
    BY <2>3, <2>7
<1>4. ASSUME NEW d \in Device, UpdateLastSeen(d)
      PROVE  StoreTypeOK' /\ RowsDistinct'
  <2>1. CASE Live(d)
    <3>1. devices[d] # NoRow /\ devices[d] \in Row /\ rows' = rows
      BY <1>4, <2>1 DEF UpdateLastSeen, Live, Exists, StoreTypeOK
    <3>2. QED
      BY <3>1, <1>4, <2>1, ChangeOne DEF UpdateLastSeen, Seen, Row
  <2>2. CASE ~Live(d)
    BY <1>4, <2>2 DEF UpdateLastSeen, Seen, StoreTypeOK, RowsDistinct, Exists,
                      Uids
  <2>3. QED
    BY <2>1, <2>2
<1>5. CASE UNCHANGED dsVars
  BY <1>5 DEF dsVars, StoreTypeOK, RowsDistinct, Exists, Uids
<1>6. QED
  BY <1>1, <1>2, <1>3, <1>4, <1>5 DEF StoreNext, WebRequest, WebEdit, WebPurge

\* What a step does to one row: it stays at its ID with its uid, moves to an
\* ID that had no row, or is purged after it was soft-deleted.
LEMMA RowStep ==
  ASSUME StoreTypeOK, [StoreNext]_dsVars, NEW d \in Device, Exists(d)
  PROVE  \/ devices'[d] # NoRow /\ devices'[d].uid = devices[d].uid
         \/ Live(d) /\ \E e \in Device : devices'[e] = devices[d]
         \/ devices[d].deleted /\ devices'[d] = NoRow
<1> USE NoRowAssumption
<1>0. devices[d] \in Row
  BY DEF StoreTypeOK, Exists
<1>1. ASSUME NEW c \in Device, NEW k \in Key, NEW s \in BOOLEAN, Add(c, k, s)
      PROVE  devices'[d] = devices[d]
  BY <1>1 DEF Add, Exists, StoreTypeOK
<1>2. ASSUME NEW c \in Device, NEW r \in Row, c = d => r.uid = devices[d].uid,
             devices' = [devices EXCEPT ![c] = r]
      PROVE  devices'[d] # NoRow /\ devices'[d].uid = devices[d].uid
  <2>1. r # NoRow
    BY DEF Row
  <2>2. QED
    BY <1>2, <2>1 DEF StoreTypeOK, Exists
<1>3. ASSUME NEW c \in Device, Exists(c)
      PROVE  devices[c] \in Row
  BY <1>3 DEF Exists, StoreTypeOK
<1>4. ASSUME NEW c \in Device, SoftDelete(c)
      PROVE  devices'[d] # NoRow /\ devices'[d].uid = devices[d].uid
  BY <1>2, <1>3, <1>4 DEF SoftDelete, Live, Row
<1>5. ASSUME NEW c \in Device, Restore(c)
      PROVE  devices'[d] # NoRow /\ devices'[d].uid = devices[d].uid
  BY <1>2, <1>3, <1>5 DEF Restore, Row
<1>6. ASSUME NEW c \in Device, HardDelete(c)
      PROVE  \/ devices'[d] # NoRow /\ devices'[d].uid = devices[d].uid
             \/ devices[d].deleted /\ devices'[d] = NoRow
  BY <1>6 DEF HardDelete, Exists, StoreTypeOK
<1>7. ASSUME NEW c \in Device, NEW s \in BOOLEAN, SetInService(c, s)
      PROVE  devices'[d] # NoRow /\ devices'[d].uid = devices[d].uid
  BY <1>2, <1>3, <1>7 DEF SetInService, Live, Row
<1>8. ASSUME NEW c \in Device, NEW k \in Key, SetPublicKey(c, k)
      PROVE  devices'[d] # NoRow /\ devices'[d].uid = devices[d].uid
  BY <1>2, <1>3, <1>8 DEF SetPublicKey, Live, Row
<1>9. ASSUME NEW c \in Device, NEW e \in Device, Rename(c, e)
      PROVE  \/ devices'[d] = devices[d]
             \/ Live(d) /\ devices'[e] = devices[d]
  BY <1>9 DEF Rename, Live, Exists, StoreTypeOK
<1>10. ASSUME NEW c \in Device, UpdateLastSeen(c)
       PROVE  devices'[d] # NoRow /\ devices'[d].uid = devices[d].uid
  <2>1. CASE Live(c)
    BY <1>2, <1>3, <1>10, <2>1 DEF UpdateLastSeen, Seen, Live, Row
  <2>2. CASE ~Live(c)
    BY <1>10, <2>2 DEF UpdateLastSeen, Seen, Exists
  <2>3. QED
    BY <2>1, <2>2
<1>11. CASE UNCHANGED dsVars
  BY <1>11 DEF dsVars, Exists
<1>12. QED
  BY <1>1, <1>4, <1>5, <1>6, <1>7, <1>8, <1>9, <1>10, <1>11
  DEF StoreNext, WebRequest, WebEdit, WebPurge, Exists

\* The rows of the devices table keep their type, and no more rows than were
\* inserted have ever been counted.
THEOREM StoreTypeCorrect == StoreSpec => []StoreTypeOK
<1>1. StoreInit => StoreTypeOK /\ RowsDistinct
  BY InitGood
<1>2. StoreTypeOK /\ RowsDistinct /\ [StoreNext]_dsVars
        => (StoreTypeOK /\ RowsDistinct)'
  BY StoreStep
<1>3. QED
  BY <1>1, <1>2, PTL DEF StoreSpec

\* No sequence of statements on the devices table duplicates a device or
\* brings a purged one back.
THEOREM RowsSafe == StoreSpec => []RowsDistinct
<1>1. StoreInit => StoreTypeOK /\ RowsDistinct
  BY InitGood
<1>2. StoreTypeOK /\ RowsDistinct /\ [StoreNext]_dsVars
        => (StoreTypeOK /\ RowsDistinct)'
  BY StoreStep
<1>3. QED
  BY <1>1, <1>2, PTL DEF StoreSpec

\* A device that is not soft-deleted never disappears from the table: no Add
\* and no Rename overwrites it, and HardDelete refuses it.
THEOREM RowsKept == StoreSpec => OnlyPurgedRowsVanish
<1>1. StoreTypeOK /\ [StoreNext]_dsVars
        => [\A d \in Device :
              Live(d) => \E e \in Device : devices'[e] # NoRow
                                           /\ devices'[e].uid = devices[d].uid]_dsVars
  BY RowStep DEF Live, Exists
<1>2. QED
  BY <1>1, StoreTypeCorrect, PTL DEF StoreSpec, OnlyPurgedRowsVanish

----------------------------------------------------------------------------
(* Users, sessions and requests (WebServer).                               *)
(*                                                                         *)
(* A request acts on what was true when it began.  Why that is enough is   *)
(* ReqInv: ids of users are never used again and roles never change, so    *)
(* the user of a request is who he was or is gone; and an administrator is *)
(* never gone, because nobody is deleted who was one when looked up.       *)

UserRow == [name : Name, role : Role]
SessionRow == [user : User, expired : BOOLEAN]
RequestState ==
  [at : {"idle", "verified", "device", "add", "target", "delete"},
   user : 0..MaxUser, target : 0..MaxUser]

WebTypeOK ==
  /\ users \in [User -> UserRow \union {NoUser}]
  /\ made \in 1..MaxUser
  /\ sessions \in [Token -> SessionRow \union {NoSession}]
  /\ issued \in 0..MaxSession
  /\ req \in [Request -> RequestState]

\* No user has an id that was not given out.
IdsGiven == \A u \in User : u > made => users[u] = NoUser

ReqInv ==
  \A r \in Request :
    /\ req[r].at # "idle" => req[r].user \in 1..made
    /\ req[r].at \in {"add", "target", "delete"} => IsAdmin(req[r].user)
    /\ req[r].at = "device" /\ IsUser(req[r].user) => Privileged(req[r].user)
    /\ req[r].at \in {"target", "delete"} => req[r].target \in 1..made
    /\ req[r].at = "delete" => ~IsAdmin(req[r].target)

WebInv == WebTypeOK /\ IdsGiven /\ SessionsOwned /\ ReqInv

LEMMA WebInit == Init => WebInv
  BY BootstrapAssumption, WebBoundAssumption
  DEF Init, WebInv, WebTypeOK, IdsGiven, SessionsOwned, ReqInv, UserRow,
      SessionRow, RequestState, Role, User, Token, Idle, IsUser

\* A step that changes one request only, and to idle.
LEMMA Ended ==
  ASSUME WebInv, NEW r \in Request, req' = [req EXCEPT ![r] = Idle],
         users' = users, made' = made
  PROVE  /\ req' \in [Request -> RequestState]
         /\ IdsGiven' /\ ReqInv'
<1>1. Idle \in RequestState
  BY WebBoundAssumption DEF Idle, RequestState
<1>2. QED
  BY <1>1
  DEF WebInv, WebTypeOK, IdsGiven, ReqInv, Idle, IsUser, IsAdmin, Privileged

\* A request that begins for a user who exists.
LEMMA Began ==
  ASSUME WebInv, NEW r \in Request, NEW u \in User, NEW v \in 0..made,
         NEW at \in {"verified", "device", "add", "target"},
         Goes(r, at, u, v), users' = users, made' = made,
         sessions' = sessions, issued' = issued,
         IsUser(u), at \in {"add", "target"} => IsAdmin(u),
         at = "device" => Privileged(u), at = "target" => v \in 1..made
  PROVE  WebInv'
<1>1. u \in 1..made
  BY DEF WebInv, WebTypeOK, IdsGiven, IsUser, User
<1>2. WebTypeOK'
  <2>1. [at |-> at, user |-> u, target |-> v] \in RequestState
    <3>1. made \in 1..MaxUser /\ u \in 0..MaxUser /\ v \in 0..MaxUser
      BY <1>1, WebBoundAssumption DEF WebInv, WebTypeOK
    <3>2. QED
      BY <3>1 DEF RequestState
  <2>2. QED
    BY <2>1 DEF WebInv, WebTypeOK, Goes
<1>3. \A q \in Request : req'[q] = IF q = r
                                     THEN [at |-> at, user |-> u, target |-> v]
                                     ELSE req[q]
  BY DEF Goes, WebInv, WebTypeOK
<1>4. ReqInv'
  BY <1>1, <1>3 DEF WebInv, ReqInv, IsUser, IsAdmin, Privileged
<1>5. QED
  BY <1>2, <1>4 DEF WebInv, IdsGiven, SessionsOwned, IsUser

\* Every step of the web server keeps WebInv.
LEMMA WebStep == WebInv /\ [Next]_vars => WebInv'
<1> SUFFICES ASSUME WebInv, [Next]_vars PROVE WebInv'
  OBVIOUS
<1>1. ASSUME NEW r \in Request, NEW u \in User, VerifyUser(r, u)
      PROVE  WebInv'
  BY <1>1, Began DEF VerifyUser, WebInv, WebTypeOK
<1>2. ASSUME NEW r \in Request, CreateSession(r)
      PROVE  WebInv'
  <2>1. /\ req[r].user \in 1..made /\ IsUser(req[r].user)
        /\ issued + 1 \in Token
    BY <1>2, WebBoundAssumption
    DEF CreateSession, WebInv, WebTypeOK, ReqInv, Token
  <2>2. req[r].user \in User
    BY <2>1, WebBoundAssumption DEF WebInv, WebTypeOK, User
  <2>3. IdsGiven' /\ ReqInv'
    BY <1>2, Ended DEF CreateSession
  <2>4. sessions' \in [Token -> SessionRow \union {NoSession}]
    BY <1>2, <2>2 DEF CreateSession, SessionRow, WebInv, WebTypeOK
  <2>5. WebTypeOK'
    <3>1. req' \in [Request -> RequestState]
      BY <1>2, Ended DEF CreateSession
    <3>2. issued' \in 0..MaxSession
      BY <1>2, <2>1, WebBoundAssumption DEF CreateSession, Token
    <3>3. QED
      BY <1>2, <2>4, <3>1, <3>2 DEF CreateSession, WebInv, WebTypeOK
  <2>6. SessionsOwned'
    BY <1>2, <2>1 DEF CreateSession, WebInv, WebTypeOK, SessionsOwned, IsUser
  <2>7. QED
    BY <2>3, <2>5, <2>6 DEF WebInv
<1>3. ASSUME NEW t \in Token, Logout(t) \/ Expire(t)
      PROVE  WebInv'
  <2>1. \A s \in Token :
          \/ sessions'[s] = NoSession
          \/ /\ sessions[s] # NoSession /\ sessions'[s] \in SessionRow
             /\ sessions'[s].user = sessions[s].user
    <3>1. CASE Logout(t)
      BY <3>1 DEF Logout, WebInv, WebTypeOK, SessionRow
    <3>2. CASE Expire(t)
      <4>1. sessions[t] \in SessionRow /\ sessions[t] # NoSession
        BY <3>2 DEF Expire, WebInv, WebTypeOK
      <4>2. QED
        BY <3>2, <4>1 DEF Expire, WebInv, WebTypeOK, SessionRow
    <3>3. QED
      BY <1>3, <3>1, <3>2
  <2>2. WebTypeOK'
    BY <1>3, <2>1 DEF Logout, Expire, WebInv, WebTypeOK
  <2>3. QED
    BY <1>3, <2>1, <2>2
    DEF Logout, Expire, WebInv, SessionsOwned, IdsGiven, ReqInv, IsUser,
        IsAdmin, Privileged
<1>4. CASE CleanupExpired
  BY <1>4 DEF CleanupExpired, WebInv, WebTypeOK, SessionsOwned, IdsGiven,
              ReqInv, IsUser, IsAdmin, Privileged
<1>5. ASSUME NEW t \in Token, Valid(t)
      PROVE  sessions[t].user \in User
  BY <1>5 DEF Valid, WebInv, WebTypeOK, SessionRow
<1>6. ASSUME NEW r \in Request, NEW t \in Token, BeginDevice(r, t)
      PROVE  WebInv'
  BY <1>5, <1>6, Began DEF BeginDevice, Valid, WebInv, WebTypeOK
<1>7. ASSUME NEW r \in Request, NEW t \in Token, BeginUserAdd(r, t)
      PROVE  WebInv'
  BY <1>5, <1>7, Began DEF BeginUserAdd, Valid, WebInv, WebTypeOK
<1>8. ASSUME NEW r \in Request, NEW t \in Token, NEW v \in User,
             BeginUserDelete(r, t, v)
      PROVE  WebInv'
  <2>1. v \in 1..made
    BY <1>8 DEF BeginUserDelete, User, WebInv, WebTypeOK
  <2>2. QED
    <3>1. v \in 0..made /\ Valid(t)
      BY <1>8, <2>1 DEF BeginUserDelete, WebInv, WebTypeOK
    <3>2. QED
      BY <1>5, <1>8, <2>1, <3>1, Began DEF BeginUserDelete, IsAdmin
<1>9. ASSUME NEW r \in Request, End(r) \/ DeviceEdit(r) \/ DevicePurge(r)
      PROVE  WebInv'
  BY <1>9, Ended
  DEF End, DeviceEdit, DevicePurge, WebInv, WebTypeOK, SessionsOwned, IsUser
<1>10. ASSUME NEW r \in Request, NEW n \in Name, NEW role \in Role,
              UserAdd(r, n, role)
       PROVE  WebInv'
  <2> DEFINE u == made + 1
  <2>1. u \in User /\ u \in 1..MaxUser /\ made' = u /\ made \in Nat
    BY <1>10, WebBoundAssumption DEF UserAdd, WebInv, WebTypeOK, User
  <2>2. /\ users[u] = NoUser
        /\ \A w \in User : w # u => users'[w] = users[w]
        /\ users' \in [User -> UserRow \union {NoUser}]
    BY <1>10, <2>1 DEF UserAdd, WebInv, WebTypeOK, IdsGiven, UserRow, User
  <2>3. req' \in [Request -> RequestState]
    <3>1. Idle \in RequestState
      BY WebBoundAssumption DEF Idle, RequestState
    <3>2. QED
      BY <1>10, <3>1 DEF UserAdd, WebInv, WebTypeOK
  <2>4. WebTypeOK'
    BY <1>10, <2>1, <2>2, <2>3 DEF UserAdd, WebInv, WebTypeOK
  <2>5. IdsGiven'
    BY <2>1, <2>2 DEF WebInv, IdsGiven, User
  <2>6. \A t \in Token : sessions[t] # NoSession => sessions[t].user # u
    BY <2>2 DEF WebInv, SessionsOwned, IsUser
  <2>7. SessionsOwned'
    <3>1. \A t \in Token : sessions[t] # NoSession => sessions[t].user \in User
      BY DEF WebInv, WebTypeOK, SessionRow
    <3>2. QED
      BY <1>10, <2>2, <2>6, <3>1 DEF UserAdd, WebInv, SessionsOwned, IsUser
  <2>8. \A w \in 1..made : /\ w \in User /\ w # u /\ w \in 1..made'
                           /\ users'[w] = users[w]
    BY <2>1, <2>2, WebBoundAssumption DEF User
  <2>9. \A q \in Request : req'[q] = IF q = r THEN Idle ELSE req[q]
    BY <1>10 DEF UserAdd, WebInv, WebTypeOK
  <2>10. ReqInv'
    BY <2>8, <2>9 DEF WebInv, ReqInv, Idle, IsUser, IsAdmin, Privileged
  <2>11. QED
    BY <2>4, <2>5, <2>7, <2>10 DEF WebInv
<1>11. ASSUME NEW r \in Request, UserLookup(r)
       PROVE  WebInv'
  <2>1. \A q \in Request :
          /\ req'[q].user = req[q].user /\ req'[q].target = req[q].target
          /\ req'[q].at = IF q = r THEN "delete" ELSE req[q].at
    BY <1>11 DEF UserLookup, WebInv, WebTypeOK, RequestState
  <2>2. WebTypeOK'
    <3>1. req[r] \in RequestState
      BY DEF WebInv, WebTypeOK
    <3>2. [req[r] EXCEPT !.at = "delete"] \in RequestState
      BY <3>1 DEF RequestState
    <3>3. QED
      BY <1>11, <3>2 DEF UserLookup, WebInv, WebTypeOK
  <2>3. ReqInv'
    BY <1>11, <2>1 DEF UserLookup, WebInv, ReqInv, IsUser, IsAdmin, Privileged
  <2>4. QED
    BY <1>11, <2>2, <2>3
    DEF UserLookup, WebInv, IdsGiven, SessionsOwned, IsUser
<1>12. ASSUME NEW r \in Request, UserDelete(r)
       PROVE  WebInv'
  <2> DEFINE v == req[r].target
  <2>1. v \in User /\ ~IsAdmin(v)
    <3>1. v \in 1..made /\ ~IsAdmin(v)
      BY <1>12 DEF UserDelete, WebInv, ReqInv
    <3>2. QED
      BY <3>1, WebBoundAssumption DEF WebInv, WebTypeOK, User
  <2>2. \A u \in User : users'[u] = IF u = v THEN NoUser ELSE users[u]
    BY <1>12, <2>1 DEF UserDelete, WebInv, WebTypeOK
  <2>3. \A t \in Token :
          \/ sessions'[t] = NoSession
          \/ /\ sessions'[t] = sessions[t] /\ sessions[t] # NoSession
             /\ sessions[t].user \in User \ {v}
    BY <1>12 DEF UserDelete, WebInv, WebTypeOK, SessionRow
  <2>4. \A q \in Request : req'[q] = IF q = r THEN Idle ELSE req[q]
    BY <1>12 DEF UserDelete, WebInv, WebTypeOK
  <2>5. WebTypeOK'
    <3>1. Idle \in RequestState
      BY WebBoundAssumption DEF Idle, RequestState
    <3>2. users' \in [User -> UserRow \union {NoUser}]
      BY <1>12 DEF UserDelete, WebInv, WebTypeOK
    <3>3. sessions' \in [Token -> SessionRow \union {NoSession}]
      BY <1>12 DEF UserDelete, WebInv, WebTypeOK
    <3>4. QED
      BY <1>12, <3>1, <3>2, <3>3 DEF UserDelete, WebInv, WebTypeOK
  <2>6. IdsGiven' /\ SessionsOwned'
    BY <1>12, <2>2, <2>3
    DEF UserDelete, WebInv, IdsGiven, SessionsOwned, IsUser
  <2>7. \A u \in 1..made : u \in User
    BY WebBoundAssumption DEF WebInv, WebTypeOK, User
  <2>8. ReqInv'
    BY <1>12, <2>1, <2>2, <2>4, <2>7
    DEF UserDelete, WebInv, ReqInv, Idle, IsUser, IsAdmin, Privileged
  <2>9. QED
    BY <2>5, <2>6, <2>8 DEF WebInv
<1>13. CASE UNCHANGED vars
  BY <1>13 DEF vars, webVars, WebInv, WebTypeOK, IdsGiven, SessionsOwned,
               ReqInv, IsUser, IsAdmin, Privileged
<1>14. QED
  BY <1>1, <1>2, <1>3, <1>4, <1>6, <1>7, <1>8, <1>9, <1>10, <1>11, <1>12,
     <1>13
  DEF Next, Handler

\* The web server uses the device table as StoreSpec allows.
THEOREM WebUsesStore == Spec => StoreSpec
<1>1. Init => StoreInit
  BY DEF Init
<1>2. [Next]_vars => [StoreNext]_dsVars
  BY DEF Next, Handler, vars, StoreNext, WebRequest, VerifyUser,
         CreateSession, Logout, Expire, CleanupExpired, BeginDevice,
         BeginUserAdd, BeginUserDelete, End, DeviceEdit, DevicePurge, UserAdd,
         UserLookup, UserDelete
<1>3. QED
  BY <1>1, <1>2, PTL DEF Spec, StoreSpec

\* So no interleaving of requests duplicates a device.
THEOREM WebRowsSafe == Spec => []RowsDistinct
  BY WebUsesStore, RowsSafe, PTL

\* Nor does one lose a device that was not soft-deleted.
THEOREM WebRowsKept == Spec => OnlyPurgedRowsVanish
  BY WebUsesStore, RowsKept, PTL

\* WebInv is an invariant.
THEOREM WebInvariant == Spec => []WebInv
  BY WebInit, WebStep, PTL DEF Spec

\* A session always belongs to a user who exists, also when the user is deleted
\* while handleLogin is between the password and the session.
THEOREM SessionsSafe == Spec => []SessionsOwned
<1>1. WebInv => SessionsOwned
  BY DEF WebInv
<1>2. QED
  BY <1>1, WebInvariant, PTL

\* Users are added and deleted only by requests of current administrators.
THEOREM UsersSafe == Spec => UsersByAdmins
<1> DEFINE A == users' # users =>
                  \E r \in Request : req[r] # req'[r] /\ IsAdmin(req[r].user)
<1>1. WebInv /\ [Next]_vars => [A]_vars
  <2> SUFFICES ASSUME WebInv, Next, users' # users PROVE A
    OBVIOUS
  <2>1. \E r \in Request :
          \/ \E n \in Name, role \in Role : UserAdd(r, n, role)
          \/ UserDelete(r)
    BY DEF Next, Handler, VerifyUser, CreateSession, Logout, Expire,
           CleanupExpired, BeginDevice, BeginUserAdd, BeginUserDelete, End,
           DeviceEdit, DevicePurge, UserLookup
  <2>2. PICK r \in Request : /\ req[r].at \in {"add", "delete"}
                             /\ req' = [req EXCEPT ![r] = Idle]
    BY <2>1 DEF UserAdd, UserDelete
  <2>3. req'[r] = Idle /\ IsAdmin(req[r].user)
    BY <2>2 DEF WebInv, WebTypeOK, ReqInv
  <2>4. QED
    BY <2>2, <2>3 DEF Idle
<1>2. QED
  BY <1>1, WebInvariant, PTL DEF Spec, UsersByAdmins

\* Devices are changed only by requests of users who may change them at that
\* moment, but for the purge of one who was deleted.
THEOREM EditsSafe == Spec => EditsByPrivileged
<1> DEFINE A == devices' # devices =>
                  \E r \in Request :
                    /\ req[r] # req'[r]
                    /\ \/ Privileged(req[r].user)
                       \/ ~IsUser(req[r].user) /\ WebPurge
<1>1. WebInv /\ [Next]_vars => [A]_vars
  <2> SUFFICES ASSUME WebInv, Next, devices' # devices PROVE A
    OBVIOUS
  <2>1. \E r \in Request : DeviceEdit(r) \/ DevicePurge(r)
    BY DEF Next, Handler, VerifyUser, CreateSession, Logout, Expire,
           CleanupExpired, BeginDevice, BeginUserAdd, BeginUserDelete, End,
           UserAdd, UserLookup, UserDelete, dsVars
  <2>2. PICK r \in Request : /\ req[r].at = "device"
                             /\ req' = [req EXCEPT ![r] = Idle]
                             /\ IsUser(req[r].user) \/ WebPurge
    BY <2>1 DEF DeviceEdit, DevicePurge
  <2>3. req'[r] = Idle /\ (IsUser(req[r].user) => Privileged(req[r].user))
    BY <2>2 DEF WebInv, WebTypeOK, ReqInv
  <2>4. QED
    BY <2>2, <2>3 DEF Idle
<1>2. QED
  BY <1>1, WebInvariant, PTL DEF Spec, EditsByPrivileged

----------------------------------------------------------------------------
(* The live log of events (LogServer).                                     *)
(*                                                                         *)
(* NothingMissed: at every point a registered browser was shown, or has in *)
(* the rest of its history, or is owed by the fan-out in progress, all that*)
(* was handled since it was registered (Complete); and it is owed only if  *)
(* it was in the map when the fan-out began, for then the range must visit *)
(* it (Awaited).  One that came later read a history with the message.     *)
(* ZombiesSwept: a browser left in the map before the message in hand was  *)
(* taken is still owed it; the write will fail, and it is removed.         *)

EventTypeOK ==
  /\ sent \in Nat /\ logChan \in Seq(Nat)
  /\ ring \in [0..(MaxLogs - 1) -> Nat \union {Empty}] /\ pos \in 0..(MaxLogs - 1)
  /\ clients \subseteq Browser /\ busy \subseteq Browser
  /\ pc \in [Browser -> {"new", "registered", "history", "reading", "leaving",
                         "gone"}]
  /\ hist \in [Browser -> Seq(Nat)] /\ handled \in Seq(Nat)
  /\ since \in [Browser -> Nat] /\ died \in [Browser -> Nat]
  /\ shown \in [Browser -> SUBSET Nat]

\* broadcastLoop holds the read lock in its loop; the last message taken is
\* the one in hand; who could not be written to is closed.
LoopInv ==
  /\ loop \in {"idle", "fan", "failed"} /\ (rlocked <=> loop = "fan")
  /\ loop = "idle" => writing = NoOne
  /\ loop = "failed" => writing \in closed
  /\ loop # "idle" => Len(handled) >= 1 /\ msg = handled[Len(handled)]

\* The range over clients has yet to visit b, or visits it.
Awaited(b) == loop # "idle" /\ b \in must /\ (writing = b \/ b \notin visited)

Served(b) ==
  /\ pc[b] \in {"leaving", "gone"} => b \in closed
  /\ pc[b] = "new" => b \notin clients
  /\ pc[b] \in {"registered", "history", "reading"} /\ b \notin closed => b \in clients
  /\ hist[b] # <<>> => pc[b] = "history"
  /\ b \in busy => hist[b] # <<>>
  /\ since[b] <= Len(handled)

Complete(b) ==
  \A i \in (since[b] + 1)..Len(handled) :
    \/ handled[i] \in shown[b] \union Range(hist[b])
    \/ Awaited(b) /\ handled[i] = msg

\* After a panic of broadcastLoop the browser it was to write to is behind.
CompleteInv(b) ==
  /\ pc[b] \in {"registered", "history", "reading"} /\ b \notin closed
  /\ crashed => b \notin busy
  => Complete(b)

ZombieInv(b) ==
  b \in clients /\ pc[b] = "gone" /\ died[b] # Len(handled) => Awaited(b)

BrowserInv(b) == Served(b) /\ CompleteInv(b) /\ ZombieInv(b)

EventInv ==
  /\ EventTypeOK /\ RingOf(MaxLogs, ring, pos, handled, Empty) /\ LoopInv
  /\ \A b \in Browser : BrowserInv(b)

LEMMA EventInit ==
  LogInit => EventInv
<1> SUFFICES ASSUME LogInit PROVE EventInv
  OBVIOUS
<1>1. EventTypeOK
  <2>1. 0 \in 0..(MaxLogs - 1) /\ <<>> \in Seq(Nat) /\ 0 \in Nat
    BY MaxLogsAssumption
  <2>2. QED
    BY <2>1, Zenon DEF LogInit, EventTypeOK
<1>2. RingOf(MaxLogs, ring, pos, handled, Empty)
  BY MaxLogsAssumption, RingEmpty DEF LogInit
<1>3. LoopInv
  BY DEF LogInit, LoopInv
<1>4. \A b \in Browser : BrowserInv(b)
  BY DEF LogInit, BrowserInv, Served, CompleteInv, ZombieInv
<1>5. QED
  BY <1>1, <1>2, <1>3, <1>4 DEF EventInv

\* A step that does nothing to b.
LEMMA LeftAlone ==
  ASSUME NEW b \in Browser, BrowserInv(b), ~crashed,
         handled' = handled, msg' = msg, Awaited(b) => Awaited(b)',
         pc'[b] = pc[b], hist'[b] = hist[b], since'[b] = since[b],
         died'[b] = died[b], shown'[b] = shown[b],
         b \in clients' <=> b \in clients, b \in closed => b \in closed',
         b \in busy' => b \in busy
  PROVE  BrowserInv(b)'
<1>1. Served(b)'
  BY DEF BrowserInv, Served
<1>2. CompleteInv(b)'
  <2> SUFFICES ASSUME pc[b] \in {"registered", "history", "reading"},
                      b \notin closed
               PROVE  Complete(b)'
    BY DEF CompleteInv
  <2>1. Complete(b)
    BY DEF BrowserInv, CompleteInv
  <2>2. QED
    BY <2>1 DEF Complete
<1>3. ZombieInv(b)'
  BY DEF BrowserInv, ZombieInv
<1>4. QED
  BY <1>1, <1>2, <1>3 DEF BrowserInv

LEMMA EventLogged ==
  ASSUME EventInv, ~crashed, LogEvent
  PROVE  EventInv'
<1> USE DEF EventInv
<1>1. /\ UNCHANGED <<clients, closed, garbled, crashed, shown, ring, pos, loop, msg,
                     rlocked, must, visited, writing, handled, pc, hist, busy,
                     since, died>>
      /\ sent' = sent + 1
      /\ logChan' = logChan \/ logChan' = Append(logChan, sent + 1)
  BY DEF LogEvent, serveVars
<1>2. logChan' \in Seq(Nat)
  <2>1. sent + 1 \in Nat /\ logChan \in Seq(Nat)
    BY DEF EventTypeOK
  <2>2. QED
    BY <1>1, <2>1, AppendProperties
<1>3. EventTypeOK' /\ LoopInv'
  BY <1>1, <1>2 DEF EventTypeOK, LoopInv
<1>4. \A b \in Browser : BrowserInv(b)'
  <2> SUFFICES ASSUME NEW b \in Browser PROVE BrowserInv(b)'
    OBVIOUS
  <2>1. Awaited(b) => Awaited(b)'
    BY <1>1 DEF Awaited
  <2>2. QED
    BY <1>1, <2>1, LeftAlone
<1>5. QED
  BY <1>1, <1>3, <1>4

LEMMA EventTaken ==
  ASSUME EventInv, ~crashed, Take
  PROVE  EventInv'
<1> USE DEF EventInv
<1>1. PICK m : m = Head(logChan)
  OBVIOUS
<1>2. /\ loop = "idle" /\ logChan # <<>> /\ logChan' = Tail(logChan)
      /\ ring' = [ring EXCEPT ![pos] = m] /\ pos' = (pos + 1) % MaxLogs
      /\ loop' = "fan" /\ msg' = m /\ rlocked' = TRUE /\ must' = clients
      /\ visited' = {} /\ handled' = Append(handled, m)
      /\ UNCHANGED <<sent, clients, closed, garbled, crashed, shown, writing, pc,
                     hist, busy, since, died>>
  BY <1>1 DEF Take, AddToHistory, serveVars
<1>3. m \in Nat /\ logChan' \in Seq(Nat)
  <2>1. logChan \in Seq(Nat)
    BY DEF EventTypeOK
  <2>2. QED
    BY <1>1, <1>2, <2>1, HeadTailProperties
<1>4. PICK h \in Seq(Nat) : h = handled
  BY DEF EventTypeOK
<1>5. PICK n \in Nat : n = Len(h)
  BY LenProperties
<1>6. PICK g \in Seq(Nat) : /\ g = handled' /\ Len(g) = n + 1 /\ g[n + 1] = m
                            /\ \A i \in 1..n : g[i] = h[i]
  <2>1. handled' = Append(h, m)
    BY <1>2, <1>4
  <2>2. PICK g : g = Append(h, m)
    OBVIOUS
  <2>3. /\ g \in Seq(Nat) /\ Len(g) = n + 1 /\ g[n + 1] = m
        /\ \A i \in 1..n : g[i] = h[i]
    BY <1>3, <1>5, <2>2, AppendProperties
  <2>4. QED
    BY <2>1, <2>2, <2>3
<1>7. EventTypeOK'
  <2>1. pos' \in 0..(MaxLogs - 1)
    BY <1>2, MaxLogsAssumption DEF EventTypeOK
  <2>2. ring' \in [0..(MaxLogs - 1) -> Nat \union {Empty}]
    BY <1>2, <1>3 DEF EventTypeOK
  <2>3. QED
    BY <1>2, <1>3, <1>6, <2>1, <2>2 DEF EventTypeOK
<1>8. RingOf(MaxLogs, ring', pos', handled', Empty)
  <2>1. PICK p \in 0..(MaxLogs - 1), r \in [0..(MaxLogs - 1) -> Nat \union {Empty}] :
          p = pos /\ r = ring
    BY DEF EventTypeOK
  <2>2. RingOf(MaxLogs, r, p, h, Empty)
    BY <1>4, <2>1
  <2>3. RingOf(MaxLogs, [r EXCEPT ![p] = m], (p + 1) % MaxLogs, Append(h, m), Empty)
    BY <1>3, <2>2, MaxLogsAssumption, RingWritten
  <2>4. QED
    BY <1>2, <1>4, <2>1, <2>3
<1>9. LoopInv'
  <2>1. msg' = handled'[Len(handled')] /\ Len(handled') >= 1
    BY <1>2, <1>6
  <2>2. QED
    BY <1>2, <2>1 DEF LoopInv
<1>10. ASSUME NEW b \in Browser PROVE BrowserInv(b)'
  <2>1. Served(b) /\ CompleteInv(b) /\ ZombieInv(b) /\ ~Awaited(b)
    BY <1>2 DEF BrowserInv, Awaited
  <2>2. b \in clients => Awaited(b)'
    BY <1>2 DEF Awaited
  <2>3. since[b] \in Nat /\ since[b] <= n
    BY <1>4, <1>5, <2>1 DEF EventTypeOK, Served
  <2>4. Served(b)'
    <3>1. since'[b] <= Len(handled')
      BY <1>2, <1>6, <2>3
    <3>2. QED
      BY <1>2, <2>1, <3>1 DEF Served
  <2>5. CompleteInv(b)'
    <3> SUFFICES ASSUME pc[b] \in {"registered", "history", "reading"},
                        b \notin closed
                 PROVE  Complete(b)'
      BY <1>2 DEF CompleteInv
    <3>1. Complete(b) /\ b \in clients
      BY <2>1 DEF CompleteInv, Served
    <3>2. ASSUME NEW i \in (since[b] + 1)..(n + 1)
          PROVE  \/ g[i] \in shown[b] \union Range(hist[b])
                 \/ Awaited(b)' /\ g[i] = m
      <4>1. CASE i = n + 1
        BY <1>6, <2>2, <3>1, <4>1
      <4>2. CASE i # n + 1
        <5>1. i \in (since[b] + 1)..n /\ i \in 1..n
          BY <2>3, <4>2
        <5>2. h[i] \in shown[b] \union Range(hist[b])
          BY <1>4, <1>5, <2>1, <3>1, <5>1 DEF Complete
        <5>3. QED
          BY <1>6, <5>1, <5>2
      <4>3. QED
        BY <4>1, <4>2
    <3>3. QED
      BY <1>2, <1>6, <3>2 DEF Complete
  <2>6. ZombieInv(b)'
    BY <1>2, <2>2 DEF ZombieInv
  <2>7. QED
    BY <2>4, <2>5, <2>6 DEF BrowserInv
<1>11. QED
  BY <1>7, <1>8, <1>9, <1>10

LEMMA EventSendBegins ==
  ASSUME EventInv, ~crashed, NEW b \in Browser,
         SendBegin(b)
  PROVE  EventInv'
<1> USE DEF EventInv
<1>1. /\ loop = "fan" /\ writing = NoOne /\ visited' = visited \union {b}
      /\ \/ writing' = b
         \/ b \in busy /\ crashed' = TRUE /\ writing' = writing
      /\ UNCHANGED <<sent, clients, closed, shown, logChan, ring, pos, loop, msg,
                     rlocked, must, handled, pc, hist, busy, since, died>>
  BY DEF SendBegin, serveVars
<1>2. EventTypeOK' /\ LoopInv'
  BY <1>1 DEF EventTypeOK, LoopInv
<1>3. ASSUME NEW c \in Browser PROVE BrowserInv(c)'
  <2>1. CASE c # b \/ writing' = b
    <3>1. Awaited(c) => Awaited(c)'
      BY <1>1, <2>1, NoOneAssumption DEF Awaited
    <3>2. QED
      BY <1>1, <3>1, LeftAlone
  <2>2. CASE c = b /\ writing' # b
    <3>1. Served(b) /\ pc[b] = "history" /\ b \in busy /\ crashed'
      BY <1>1, <2>2 DEF BrowserInv, Served
    <3>2. Served(b)' /\ CompleteInv(b)' /\ ZombieInv(b)'
      BY <1>1, <3>1 DEF Served, CompleteInv, ZombieInv
    <3>3. QED
      BY <2>2, <3>2 DEF BrowserInv
  <2>3. QED
    BY <2>1, <2>2
<1>4. QED
  BY <1>1, <1>2, <1>3

LEMMA EventSent ==
  ASSUME EventInv, ~crashed, NEW b \in Browser,
         SendOk(b)
  PROVE  EventInv'
<1> USE DEF EventInv
<1>1. /\ loop = "fan" /\ writing = b /\ b \notin closed /\ writing' = NoOne
      /\ shown' = [shown EXCEPT ![b] = @ \union {msg}]
      /\ UNCHANGED <<sent, clients, closed, garbled, crashed, logChan, ring, pos,
                     loop, msg, rlocked, must, visited, handled, pc, hist, busy,
                     since, died>>
  BY DEF SendOk, serveVars
<1>2. msg \in Nat
  <2>1. PICK h \in Seq(Nat) : h = handled
    BY DEF EventTypeOK
  <2>2. Len(h) \in 1..Len(h) /\ msg = h[Len(h)]
    BY <1>1, <2>1, LenProperties DEF LoopInv
  <2>3. QED
    BY <2>2, ElementOfSeq
<1>3. /\ shown' \in [Browser -> SUBSET Nat] /\ shown'[b] = shown[b] \union {msg}
      /\ \A c \in Browser : c # b => shown'[c] = shown[c]
  BY <1>1, <1>2 DEF EventTypeOK
<1>4. EventTypeOK' /\ LoopInv'
  BY <1>1, <1>3 DEF EventTypeOK, LoopInv
<1>5. ASSUME NEW c \in Browser PROVE BrowserInv(c)'
  <2>1. CASE c # b
    <3>1. Awaited(c) => Awaited(c)'
      BY <1>1, <2>1 DEF Awaited
    <3>2. QED
      BY <1>1, <1>3, <2>1, <3>1, LeftAlone
  <2>2. CASE c = b
    <3>1. Served(b) /\ CompleteInv(b) /\ pc[b] # "gone"
      BY <1>1 DEF BrowserInv, Served
    <3>2. Served(b)' /\ ZombieInv(b)'
      BY <1>1, <3>1 DEF Served, ZombieInv
    <3>3. CompleteInv(b)'
      <4> SUFFICES ASSUME Complete(b) PROVE Complete(b)'
        BY <1>1, <3>1 DEF CompleteInv
      <4>1. QED
        BY <1>1, <1>3 DEF Complete
    <3>4. QED
      BY <2>2, <3>2, <3>3 DEF BrowserInv
  <2>3. QED
    BY <2>1, <2>2
<1>6. QED
  BY <1>1, <1>4, <1>5

LEMMA EventSendFails ==
  ASSUME EventInv, ~crashed, NEW b \in Browser, SendFails(b)
  PROVE  EventInv'
<1> USE DEF EventInv
<1>1. /\ loop = "fan" /\ writing = b /\ closed' = closed \union {b}
      /\ loop' = "failed" /\ rlocked' = FALSE
      /\ UNCHANGED <<sent, clients, garbled, crashed, shown, logChan, ring, pos, msg,
                     must, visited, writing, handled, pc, hist, busy, since, died>>
  BY DEF SendFails, serveVars
<1>2. EventTypeOK' /\ LoopInv'
  BY <1>1 DEF EventTypeOK, LoopInv
<1>3. ASSUME NEW c \in Browser PROVE BrowserInv(c)'
  <2>1. Awaited(c) => Awaited(c)'
    BY <1>1 DEF Awaited
  <2>2. QED
    BY <1>1, <2>1, LeftAlone
<1>4. QED
  BY <1>1, <1>2, <1>3

LEMMA EventForgotten ==
  ASSUME EventInv, ~crashed, NEW b \in Browser, Forget(b)
  PROVE  EventInv'
<1> USE DEF EventInv
<1>1. /\ loop = "failed" /\ writing = b /\ clients' = clients \ {b}
      /\ loop' = "fan" /\ rlocked' = TRUE /\ writing' = NoOne
      /\ UNCHANGED <<sent, closed, garbled, crashed, shown, logChan, ring, pos, msg,
                     must, visited, handled, pc, hist, busy, since, died>>
  BY DEF Forget, serveVars
<1>2. EventTypeOK' /\ LoopInv'
  BY <1>1 DEF EventTypeOK, LoopInv
<1>3. ASSUME NEW c \in Browser PROVE BrowserInv(c)'
  <2>1. CASE c # b
    <3>1. Awaited(c) => Awaited(c)'
      BY <1>1, <2>1 DEF Awaited
    <3>2. QED
      BY <1>1, <2>1, <3>1, LeftAlone
  <2>2. CASE c = b
    <3>1. Served(b) /\ b \in closed
      BY <1>1 DEF BrowserInv, LoopInv
    <3>2. Served(b)' /\ CompleteInv(b)' /\ ZombieInv(b)'
      BY <1>1, <3>1 DEF Served, CompleteInv, ZombieInv
    <3>3. QED
      BY <2>2, <3>2 DEF BrowserInv
  <2>3. QED
    BY <2>1, <2>2
<1>4. QED
  BY <1>1, <1>2, <1>3

LEMMA EventFannedOut ==
  ASSUME EventInv, ~crashed, FanOutEnd
  PROVE  EventInv'
<1> USE DEF EventInv
<1>1. /\ loop = "fan" /\ writing = NoOne /\ must \intersect clients \subseteq visited
      /\ loop' = "idle" /\ rlocked' = FALSE
      /\ UNCHANGED <<sent, clients, closed, garbled, crashed, shown, logChan, ring,
                     pos, writing, handled, pc, hist, busy, since, died>>
  BY DEF FanOutEnd, serveVars
<1>2. EventTypeOK' /\ LoopInv'
  BY <1>1 DEF EventTypeOK, LoopInv
<1>3. ASSUME NEW c \in Browser PROVE BrowserInv(c)'
  <2>1. c \in clients => ~Awaited(c)
    BY <1>1, NoOneAssumption DEF Awaited
  <2>2. Served(c) /\ CompleteInv(c) /\ ZombieInv(c)
    BY DEF BrowserInv
  <2>3. Served(c)' /\ ZombieInv(c)'
    BY <1>1, <2>1, <2>2 DEF Served, ZombieInv
  <2>4. CompleteInv(c)'
    <3> SUFFICES ASSUME Complete(c), c \in clients PROVE Complete(c)'
      BY <1>1, <2>2 DEF CompleteInv, Served
    <3>1. QED
      BY <1>1, <2>1 DEF Complete
  <2>5. QED
    BY <2>3, <2>4 DEF BrowserInv
<1>4. QED
  BY <1>1, <1>2, <1>3

\* The history read now has the last MaxLogs messages.
LEMMA EventHistory ==
  ASSUME EventInv
  PROVE  /\ GetHistory \in Seq(Nat)
         /\ \A i \in 1..Len(handled) :
              i > Len(handled) - MaxLogs => handled[i] \in Range(GetHistory)
<1>1. PICK h \in Seq(Nat) : h = handled
  BY DEF EventInv, EventTypeOK
<1>2. PICK n \in Nat : n = Len(h)
  BY LenProperties
<1>3. PICK D \in Nat : D = MaxLogs /\ D >= 1
  BY MaxLogsAssumption
<1>4. PICK m \in Nat : m >= 1 /\ m = IF n > D THEN n - D + 1 ELSE 1
  <2>1. CASE n > D
    <3>1. n - D + 1 \in Nat /\ n - D + 1 >= 1
      BY <2>1
    <3>2. QED
      BY <2>1, <3>1
  <2>2. QED
    BY <2>1
<1>5. PICK t : t = SubSeq(h, m, n)
  OBVIOUS
<1>6. GetHistory = t
  <2>1. GetHistory = Contents(MaxLogs, ring, pos, Empty)
    BY DEF GetHistory, Contents, Visits
  <2>2. PICK r, p : r = ring /\ p = pos
    OBVIOUS
  <2>3. RingOf(MaxLogs, r, p, h, Empty)
    BY <1>1, <2>2 DEF EventInv
  <2>4. Empty \notin Nat
    BY EmptyAssumption
  <2>5. Contents(MaxLogs, r, p, Empty) = Latest(MaxLogs, h)
    BY <2>3, <2>4, MaxLogsAssumption, RingRead
  <2>6. m = IF n > MaxLogs THEN n - MaxLogs + 1 ELSE 1
    BY <1>3, <1>4
  <2>7. Contents(MaxLogs, r, p, Empty) = t
    BY <1>2, <1>5, <2>5, <2>6 DEF Latest
  <2>8. QED
    BY <2>1, <2>2, <2>7
<1>7. \A i \in m..n : h[i] \in Nat
  BY <1>2, <1>4, ElementOfSeq
<1>8. /\ t \in Seq(Nat) /\ Len(t) = IF m <= n THEN n - m + 1 ELSE 0
      /\ \A j \in 1..(n - m + 1) : t[j] = h[m + j - 1]
  BY <1>5, <1>7, SubSeqProperties
<1>9. ASSUME NEW i \in 1..n, i > n - D PROVE h[i] \in Range(t)
  <2>1. PICK j \in Nat : j = i - m + 1 /\ j >= 1 /\ j <= n - m + 1
    <3>1. i >= m
      BY <1>3, <1>4, <1>9
    <3>2. i - m + 1 \in Nat /\ i - m + 1 >= 1 /\ i - m + 1 <= n - m + 1
      BY <3>1
    <3>3. QED
      BY <3>2
  <2>2. j \in 1..(n - m + 1) /\ m + j - 1 = i /\ j \in 1..Len(t)
    BY <1>8, <2>1
  <2>3. t[j] = h[i]
    BY <1>8, <2>2
  <2>4. QED
    BY <1>8, <2>2, <2>3, Ranges
<1>10. QED
  BY <1>1, <1>2, <1>3, <1>6, <1>8, <1>9

LEMMA HeadAndTail ==
  ASSUME NEW S, NEW s \in Seq(S), s # <<>>
  PROVE  Head(s) \in S /\ Tail(s) \in Seq(S) /\ Range(s) = Range(Tail(s)) \union {Head(s)}
<1>1. PICK u \in Seq(S), v \in Seq(S) : u = <<Head(s)>> /\ v = Tail(s)
  <2>1. Head(s) \in S /\ Tail(s) \in Seq(S)
    BY HeadTailProperties
  <2>2. <<Head(s)>> \in Seq(S)
    BY <2>1
  <2>3. QED
    BY <2>1, <2>2, Zenon
<1>2. s = u \o v
  BY <1>1, HeadTailProperties
<1>3. Range(s) = Range(u) \union Range(v)
  BY <1>2, RangeConcatenation
<1>4. Range(u) = {Head(s)}
  BY <1>1 DEF Range
<1>5. QED
  BY <1>1, <1>3, <1>4, HeadTailProperties

LEMMA EventRegistered ==
  ASSUME EventInv, ~crashed, NEW b \in Browser, Register(b)
  PROVE  EventInv'
<1> USE DEF EventInv
<1>1. /\ pc[b] = "new" /\ clients' = clients \union {b}
      /\ pc' = [pc EXCEPT ![b] = "registered"]
      /\ since' = [since EXCEPT ![b] = Len(handled)]
      /\ UNCHANGED <<sent, closed, garbled, crashed, shown, logChan, ring, pos, loop,
                     msg, rlocked, must, visited, writing, handled, hist, busy, died>>
  BY DEF Register, loopVars
<1>2. PICK n \in Nat : n = Len(handled)
  BY LenProperties DEF EventTypeOK
<1>3. /\ pc'[b] = "registered" /\ since' \in [Browser -> Nat] /\ since'[b] = n
      /\ \A c \in Browser : c # b => pc'[c] = pc[c] /\ since'[c] = since[c]
  BY <1>1, <1>2 DEF EventTypeOK
<1>4. EventTypeOK' /\ LoopInv'
  BY <1>1, <1>3 DEF EventTypeOK, LoopInv
<1>5. ASSUME NEW c \in Browser PROVE BrowserInv(c)'
  <2>1. CASE c # b
    <3>1. Awaited(c) => Awaited(c)'
      BY <1>1 DEF Awaited
    <3>2. QED
      BY <1>1, <1>3, <2>1, <3>1, LeftAlone
  <2>2. CASE c = b
    <3>1. Served(b) /\ hist[b] = <<>> /\ b \notin busy
      BY <1>1 DEF BrowserInv, Served
    <3>2. Served(b)' /\ ZombieInv(b)'
      BY <1>1, <1>2, <1>3, <3>1 DEF Served, ZombieInv
    <3>3. CompleteInv(b)'
      <4>1. (n + 1)..n = {} /\ Len(handled') = n
        BY <1>1, <1>2
      <4>2. QED
        BY <1>3, <4>1 DEF CompleteInv, Complete
    <3>4. QED
      BY <2>2, <3>2, <3>3 DEF BrowserInv
  <2>3. QED
    BY <2>1, <2>2
<1>6. QED
  BY <1>1, <1>4, <1>5

LEMMA EventHistoryRead ==
  ASSUME EventInv, ~crashed, NEW b \in Browser,
         ReadHistory(b)
  PROVE  EventInv'
<1> USE DEF EventInv
<1>1. PICK t, o : t = GetHistory /\ o = Oldest(since[b])
  OBVIOUS
<1>2. /\ pc[b] = "registered" /\ pc' = [pc EXCEPT ![b] = "history"]
      /\ hist' = [hist EXCEPT ![b] = t] /\ since' = [since EXCEPT ![b] = o]
      /\ UNCHANGED <<sent, clients, closed, garbled, crashed, shown, logChan, ring,
                     pos, loop, msg, rlocked, must, visited, writing, handled, busy,
                     died>>
  BY <1>1 DEF ReadHistory, loopVars, EventTypeOK
<1>3. PICK n \in Nat : n = Len(handled)
  BY LenProperties DEF EventTypeOK
<1>4. PICK D \in Nat : D = MaxLogs
  BY MaxLogsAssumption
<1>5. /\ t \in Seq(Nat)
      /\ \A i \in 1..n : i > n - D => handled[i] \in Range(t)
  BY <1>1, <1>3, <1>4, EventHistory
<1>6. since[b] \in Nat /\ since[b] <= n
  BY <1>3 DEF EventTypeOK, BrowserInv, Served
<1>7. o \in Nat /\ o <= since[b] /\ (o < since[b] => o >= n - D)
  BY <1>1, <1>3, <1>4, <1>6 DEF Oldest
<1>8. /\ pc'[b] = "history" /\ hist' \in [Browser -> Seq(Nat)] /\ hist'[b] = t
      /\ since' \in [Browser -> Nat] /\ since'[b] = o
      /\ \A c \in Browser : c # b => /\ pc'[c] = pc[c] /\ hist'[c] = hist[c]
                                     /\ since'[c] = since[c]
  BY <1>2, <1>5, <1>7 DEF EventTypeOK
<1>9. EventTypeOK' /\ LoopInv'
  BY <1>2, <1>8 DEF EventTypeOK, LoopInv
<1>10. ASSUME NEW c \in Browser PROVE BrowserInv(c)'
  <2>1. CASE c # b
    <3>1. Awaited(c) => Awaited(c)'
      BY <1>2 DEF Awaited
    <3>2. QED
      BY <1>2, <1>8, <2>1, <3>1, LeftAlone
  <2>2. CASE c = b
    <3>1. Served(b) /\ CompleteInv(b) /\ hist[b] = <<>> /\ b \notin busy
      BY <1>2 DEF BrowserInv, Served
    <3>2. Served(b)' /\ ZombieInv(b)'
      BY <1>2, <1>3, <1>6, <1>7, <1>8, <3>1 DEF Served, ZombieInv
    <3>3. CompleteInv(b)'
      <4> SUFFICES ASSUME b \notin closed PROVE Complete(b)'
        BY <1>2 DEF CompleteInv
      <4>1. Complete(b)
        BY <1>2, <3>1 DEF CompleteInv
      <4>2. ASSUME NEW i \in (o + 1)..n
            PROVE  \/ handled[i] \in shown[b] \union Range(t)
                   \/ Awaited(b) /\ handled[i] = msg
        <5>1. CASE i > since[b]
          <6>1. i \in (since[b] + 1)..n
            BY <1>6, <1>7, <5>1
          <6>2. Range(hist[b]) = {}
            BY <3>1, EmptyRange
          <6>3. QED
            BY <1>3, <4>1, <6>1, <6>2 DEF Complete
        <5>2. CASE ~(i > since[b])
          <6>1. i \in 1..n /\ i > n - D
            BY <1>6, <1>7, <5>2
          <6>2. QED
            BY <1>5, <6>1
        <5>3. QED
          BY <5>1, <5>2
      <4>3. Awaited(b) => Awaited(b)'
        BY <1>2 DEF Awaited
      <4>4. QED
        BY <1>2, <1>3, <1>8, <4>2, <4>3 DEF Complete
    <3>4. QED
      BY <2>2, <3>2, <3>3 DEF BrowserInv
  <2>3. QED
    BY <2>1, <2>2
<1>11. QED
  BY <1>2, <1>9, <1>10

\* ServeWS returns: it leaves b in the map, or removes it.
LEMMA EventReturned ==
  ASSUME EventInv, ~crashed, NEW b \in Browser, Return(b), pc[b] # "new",
         busy' \subseteq busy \ {b}, clients' \subseteq clients,
         \A c \in Browser : c # b => (c \in clients => c \in clients')
  PROVE  EventInv'
<1> USE DEF EventInv
<1>1. /\ pc' = [pc EXCEPT ![b] = "gone"] /\ hist' = [hist EXCEPT ![b] = <<>>]
      /\ closed' = closed \union {b} /\ died' = [died EXCEPT ![b] = Len(handled)]
      /\ since' = [since EXCEPT ![b] = 0] /\ shown' = [shown EXCEPT ![b] = {}]
      /\ UNCHANGED <<sent, crashed, logChan, ring, pos, loop, msg, rlocked, must,
                     visited, writing, handled>>
  BY DEF Return, loopVars
<1>2. PICK n \in Nat : n = Len(handled)
  BY LenProperties DEF EventTypeOK
<1>3. <<>> \in Seq(Nat) /\ 0 \in Nat /\ {} \in SUBSET Nat
  OBVIOUS
<1>4. /\ pc'[b] = "gone" /\ hist'[b] = <<>> /\ died'[b] = n /\ since'[b] = 0
      /\ \A c \in Browser : c # b =>
           /\ pc'[c] = pc[c] /\ hist'[c] = hist[c] /\ died'[c] = died[c]
           /\ since'[c] = since[c] /\ shown'[c] = shown[c]
  BY <1>1, <1>2 DEF EventTypeOK
<1>5. EventTypeOK'
  <2>1. hist' \in [Browser -> Seq(Nat)]
    BY <1>1, <1>3 DEF EventTypeOK
  <2>2. died' \in [Browser -> Nat] /\ since' \in [Browser -> Nat]
    BY <1>1, <1>2 DEF EventTypeOK
  <2>3. shown' \in [Browser -> SUBSET Nat]
    BY <1>1, <1>3 DEF EventTypeOK
  <2>4. QED
    BY <1>1, <2>1, <2>2, <2>3 DEF EventTypeOK
<1>6. LoopInv'
  BY <1>1 DEF LoopInv
<1>7. ASSUME NEW c \in Browser PROVE BrowserInv(c)'
  <2>1. CASE c # b
    <3>1. Awaited(c) => Awaited(c)'
      BY <1>1 DEF Awaited
    <3>2. QED
      BY <1>1, <1>4, <2>1, <3>1, LeftAlone
  <2>2. CASE c = b
    <3>1. Served(b)' /\ CompleteInv(b)' /\ ZombieInv(b)'
      BY <1>1, <1>2, <1>4 DEF Served, CompleteInv, ZombieInv
    <3>2. QED
      BY <2>2, <3>1 DEF BrowserInv
  <2>3. QED
    BY <2>1, <2>2
<1>8. QED
  BY <1>1, <1>5, <1>6, <1>7

LEMMA EventWriteBegins ==
  ASSUME EventInv, ~crashed, NEW b \in Browser, WriteBegin(b)
  PROVE  EventInv'
<1>1. pc[b] = "history" /\ hist[b] # <<>> /\ b \notin busy
  BY DEF WriteBegin
<1>2. CASE Return(b) /\ UNCHANGED <<clients, busy>>
  BY <1>1, <1>2, EventReturned
<1>3. CASE /\ busy' = busy \union {b}
           /\ UNCHANGED <<sent, clients, closed, crashed, shown, loopVars, pc,
                          hist, since, died>>
  <2> USE DEF EventInv
  <2>1. /\ busy' = busy \union {b}
        /\ UNCHANGED <<sent, clients, closed, crashed, shown, logChan, ring, pos,
                       loop, msg, rlocked, must, visited, writing, handled, pc, hist,
                       since, died>>
    BY <1>3 DEF loopVars
  <2>2. EventTypeOK' /\ LoopInv'
    BY <2>1 DEF EventTypeOK, LoopInv
  <2>3. ASSUME NEW c \in Browser PROVE BrowserInv(c)'
    <3>1. Awaited(c) => Awaited(c)'
      BY <2>1 DEF Awaited
    <3>2. CASE c # b
      BY <2>1, <3>1, <3>2, LeftAlone
    <3>3. CASE c = b
      <4>1. Served(b) /\ CompleteInv(b) /\ ZombieInv(b)
        BY DEF BrowserInv
      <4>2. Served(b)' /\ ZombieInv(b)'
        BY <1>1, <2>1, <4>1 DEF Served, ZombieInv
      <4>3. CompleteInv(b)'
        <5> SUFFICES ASSUME Complete(b) PROVE Complete(b)'
          BY <2>1, <4>1 DEF CompleteInv
        <5>1. QED
          BY <2>1, <3>1, <3>3 DEF Complete
      <4>4. QED
        BY <3>3, <4>2, <4>3 DEF BrowserInv
    <3>4. QED
      BY <3>2, <3>3
  <2>4. QED
    BY <2>1, <2>2, <2>3
<1>4. QED
  BY <1>2, <1>3 DEF WriteBegin

LEMMA EventWritten ==
  ASSUME EventInv, ~crashed, NEW b \in Browser, WriteOk(b)
  PROVE  EventInv'
<1> USE DEF EventInv
<1>1. PICK r \in Seq(Nat) : r = hist[b]
  BY DEF EventTypeOK
<1>2. PICK e, u : e = Head(r) /\ u = Tail(r)
  OBVIOUS
<1>3. /\ b \in busy \ closed /\ busy' = busy \ {b}
      /\ hist' = [hist EXCEPT ![b] = u]
      /\ shown' = [shown EXCEPT ![b] = @ \union {e}]
      /\ UNCHANGED <<sent, clients, closed, garbled, crashed, logChan, ring, pos, loop,
                     msg, rlocked, must, visited, writing, handled, pc, since, died>>
  BY <1>1, <1>2 DEF WriteOk, loopVars, EventTypeOK
<1>4. Served(b) /\ CompleteInv(b) /\ r # <<>> /\ pc[b] = "history"
  BY <1>1, <1>3 DEF BrowserInv, Served
<1>5. e \in Nat /\ u \in Seq(Nat) /\ Range(r) = Range(u) \union {e}
  BY <1>1, <1>2, <1>4, HeadAndTail
<1>6. /\ hist' \in [Browser -> Seq(Nat)] /\ hist'[b] = u
      /\ shown' \in [Browser -> SUBSET Nat] /\ shown'[b] = shown[b] \union {e}
      /\ \A c \in Browser : c # b => hist'[c] = hist[c] /\ shown'[c] = shown[c]
  BY <1>3, <1>5 DEF EventTypeOK
<1>7. EventTypeOK' /\ LoopInv'
  BY <1>3, <1>6 DEF EventTypeOK, LoopInv
<1>8. ASSUME NEW c \in Browser PROVE BrowserInv(c)'
  <2>1. Awaited(c) => Awaited(c)'
    BY <1>3 DEF Awaited
  <2>2. CASE c # b
    BY <1>3, <1>6, <2>1, <2>2, LeftAlone
  <2>3. CASE c = b
    <3>1. Served(b)' /\ ZombieInv(b)'
      BY <1>3, <1>4, <1>6 DEF Served, ZombieInv
    <3>2. CompleteInv(b)'
      <4>1. Complete(b)
        BY <1>3, <1>4 DEF CompleteInv
      <4>2. shown[b] \union Range(hist[b]) = shown'[b] \union Range(hist'[b])
        BY <1>1, <1>5, <1>6
      <4>3. Complete(b)'
        BY <1>3, <2>1, <2>3, <4>1, <4>2 DEF Complete
      <4>4. QED
        BY <4>3 DEF CompleteInv
    <3>3. QED
      BY <2>3, <3>1, <3>2 DEF BrowserInv
  <2>4. QED
    BY <2>2, <2>3
<1>9. QED
  BY <1>3, <1>7, <1>8

\* ReadLoop and ReadError, which change pc only, and what the browser does.
LEMMA EventReads ==
  ASSUME EventInv, ~crashed, NEW b \in Browser,
         \/ ReadLoop(b) \/ ReadError(b)
         \/ Disconnect(b)
  PROVE  EventInv'
<1> USE DEF EventInv
<1>1. /\ UNCHANGED <<sent, clients, garbled, crashed, shown, logChan, ring, pos, loop,
                     msg, rlocked, must, visited, writing, handled, hist, busy, since,
                     died>>
      /\ \/ /\ pc[b] = "history" /\ hist[b] = <<>>
            /\ pc' = [pc EXCEPT ![b] = "reading"] /\ closed' = closed
         \/ /\ pc[b] = "reading" /\ b \in closed
            /\ pc' = [pc EXCEPT ![b] = "leaving"] /\ closed' = closed
         \/ pc' = pc /\ closed' = closed \union {b}
  BY DEF ReadLoop, ReadError, Disconnect, loopVars,
         serveVars
<1>2. EventTypeOK' /\ \A c \in Browser : c # b => pc'[c] = pc[c]
  BY <1>1 DEF EventTypeOK
<1>3. LoopInv'
  BY <1>1 DEF LoopInv
<1>4. ASSUME NEW c \in Browser PROVE BrowserInv(c)'
  <2>1. Awaited(c) => Awaited(c)'
    BY <1>1 DEF Awaited
  <2>2. CASE pc'[c] = pc[c]
    BY <1>1, <2>1, <2>2, LeftAlone
  <2>3. CASE pc'[c] # pc[c]
    <3>1. c = b /\ closed' = closed
      BY <1>1, <1>2, <2>3
    <3>2. /\ \/ pc[b] = "history" /\ pc'[b] = "reading" /\ hist[b] = <<>>
             \/ pc[b] = "reading" /\ pc'[b] = "leaving" /\ b \in closed
    BY <1>1, <2>3, <3>1 DEF EventTypeOK
    <3>3. Served(b) /\ CompleteInv(b)
      BY DEF BrowserInv
    <3>4. Served(b)' /\ ZombieInv(b)'
      BY <1>1, <3>1, <3>2, <3>3 DEF Served, ZombieInv
    <3>5. CompleteInv(b)'
      <4> SUFFICES ASSUME Complete(b) PROVE Complete(b)'
        BY <1>1, <3>1, <3>2, <3>3 DEF CompleteInv
      <4>1. QED
        BY <1>1, <2>1, <3>1 DEF Complete
    <3>6. QED
      BY <3>1, <3>4, <3>5 DEF BrowserInv
  <2>4. QED
    BY <2>2, <2>3
<1>5. QED
  BY <1>1, <1>2, <1>3, <1>4

LEMMA EventStep ==
  ASSUME EventInv, [LogNext]_logVars
  PROVE  EventInv'
<1>1. CASE UNCHANGED logVars
  <2>1. UNCHANGED <<sent, clients, closed, garbled, crashed, shown, logChan, ring, pos,
                    loop, msg, rlocked, must, visited, writing, handled, pc, hist,
                    busy, since, died>>
    BY <1>1 DEF logVars, loopVars, serveVars
  <2>2. EventTypeOK' /\ LoopInv' /\ RingOf(MaxLogs, ring, pos, handled, Empty)'
    BY <2>1 DEF EventInv, EventTypeOK, LoopInv
  <2>3. ASSUME NEW b \in Browser PROVE BrowserInv(b)'
    BY <2>1 DEF EventInv, BrowserInv, Served, CompleteInv, Complete, ZombieInv,
                Awaited
  <2>4. QED
    BY <2>2, <2>3 DEF EventInv
<1>2. CASE ~crashed /\ LogEvent
  BY <1>2, EventLogged
<1>3. CASE ~crashed /\ BroadcastLoop
  BY <1>3, EventTaken, EventSendBegins, EventSent, EventSendFails, EventForgotten,
     EventFannedOut DEF BroadcastLoop
<1>4. ASSUME ~crashed, NEW b \in Browser, ServeWS(b) PROVE EventInv'
  <2>1. CASE WriteFails(b)
    <3>1. b \in busy /\ busy' = busy \ {b} /\ Return(b) /\ clients' = clients
      BY <2>1 DEF WriteFails
    <3>2. pc[b] # "new"
      BY <3>1 DEF EventInv, BrowserInv, Served
    <3>3. QED
      BY <1>4, <3>1, <3>2, EventReturned
  <2>2. CASE Unregister(b)
    <3>1. /\ pc[b] = "leaving" /\ clients' = clients \ {b} /\ Return(b)
          /\ busy' = busy
      BY <2>2 DEF Unregister
    <3>2. b \notin busy
      BY <3>1 DEF EventInv, BrowserInv, Served
    <3>3. QED
      BY <1>4, <3>1, <3>2, EventReturned
  <2>3. QED
    BY <1>4, <2>1, <2>2, EventRegistered, EventHistoryRead, EventWriteBegins,
       EventWritten, EventReads DEF ServeWS
<1>5. CASE ~crashed /\ \E b \in Browser : Disconnect(b)
  BY <1>5, EventReads
<1>6. QED
  BY <1>1, <1>2, <1>3, <1>4, <1>5 DEF LogNext, Step

----------------------------------------------------------------------------
(* Theorems on LogServer.                                                  *)

\* The invariant above holds in every state of the live log of events.
THEOREM EventInvariant == LogSpec => []EventInv
<1>1. LogInit => EventInv
  BY EventInit
<1>2. EventInv /\ [LogNext]_logVars => EventInv'
  BY EventStep
<1>3. QED
  BY <1>1, <1>2, PTL DEF LogSpec

\* History and live stream of the event log leave no gap, although they are
\* sent by two goroutines at the same time, and although the map changes under
\* the range over it whenever a write fails.
THEOREM MissedNothing == LogSpec => []NothingMissed
<1>1. EventInv => NothingMissed
  <2> SUFFICES ASSUME EventInv, NEW b \in Browser \ (closed \union garbled),
                      pc[b] = "reading",
                      NEW i \in (since[b] + 1)..Len(handled)
               PROVE  \/ handled[i] \in shown[b]
                      \/ /\ loop # "idle" /\ (writing = b \/ b \notin visited)
                         /\ handled[i] = msg
    BY DEF NothingMissed
  <2>1. BrowserInv(b)
    BY DEF EventInv
  <2>2. hist[b] = <<>> /\ b \notin busy
    BY <2>1 DEF BrowserInv, Served
  <2>3. Complete(b) /\ Range(hist[b]) = {}
    BY <2>1, <2>2, EmptyRange DEF BrowserInv, CompleteInv
  <2>4. QED
    BY <2>3 DEF Complete, Awaited
<1>2. QED
  BY <1>1, EventInvariant, PTL

\* A browser that ServeWS left in the map is removed by the next complete
\* fan-out, however many browsers come and go meanwhile.
THEOREM ZombiesGo == LogSpec => []ZombiesSwept
<1>1. EventInv => ZombiesSwept
  BY DEF EventInv, EventTypeOK, BrowserInv, ZombieInv, Awaited, ZombiesSwept
<1>2. QED
  BY <1>1, EventInvariant, PTL
=============================================================================
