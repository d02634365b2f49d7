----------------------------- MODULE WebServer -----------------------------
(***************************************************************************)
(* The HTTP side: users and sessions (internal/store/user_store.go,        *)
(* session_store.go), the authorization of requests                        *)
(* (internal/web/auth.go, server.go) and the handlers that change users    *)
(* (handlers_users.go) or, through DeviceStore, devices.                   *)
(*                                                                         *)
(* A request resolves its session once, at its beginning (withUser); the   *)
(* role is checked then (requireRoleOrAdmin, requireAdmin), and what the   *)
(* handler does to the database later is done for the user found then.     *)
(* Every statement is a step, so other requests come between.  Requests    *)
(* that are refused change nothing and are not steps.  A request is at     *)
(*   "idle"                                                                *)
(*   "verified"  password checked, session not yet created (handleLogin)   *)
(*   "device"    allowed to change a device                                *)
(*   "add"       allowed to add a user                                     *)
(*   "target"    allowed to delete a user, who is to be looked up          *)
(*   "delete"    looked up and found to be no administrator.               *)
(* Users are numbered in the order of their creation: an id is a UUID,     *)
(* never used again, while a name is free again when its user is deleted.  *)
(* The role of a user never changes.                                       *)
(***************************************************************************)
EXTENDS DeviceStore

CONSTANTS Request,     \* requests in progress at the same time
          Name,        \* user names
          Bootstrap,   \* BootstrapAdminUser
          NoUser, NoSession,
          MaxUser,     \* bound: users ever created
          MaxSession   \* bound: sessions ever created

ASSUME BootstrapAssumption == Bootstrap \in Name
ASSUME WebBoundAssumption == MaxUser \in Nat \ {0} /\ MaxSession \in Nat

VARIABLES users, made,        \* table of users; number of users ever created
          sessions, issued,   \* table of sessions; number of tokens issued
          req                 \* the requests

webVars == <<users, made, sessions, issued, req>>
vars == <<dsVars, webVars>>

Role == {"user", "privileged", "admin"}
User == 1..MaxUser
Token == 1..MaxSession

IsUser(u) == users[u] # NoUser
IsAdmin(u) == IsUser(u) /\ users[u].role = "admin"

Idle == [at |-> "idle", user |-> 0, target |-> 0]

\* run has executed EnsureBootstrap on an empty database.
Init ==
  /\ StoreInit
  /\ users = [u \in User |-> IF u = 1 THEN [name |-> Bootstrap, role |-> "admin"]
                                      ELSE NoUser]
  /\ made = 1
  /\ sessions = [t \in Token |-> NoSession] /\ issued = 0
  /\ req = [r \in Request |-> Idle]

Goes(r, at, u, v) == req' = [req EXCEPT ![r] = [at |-> at, user |-> u,
                                                target |-> v]]

----------------------------------------------------------------------------
(* Login and logout.                                                       *)

\* handleLogin: VerifyUser finds the user and the password is right.
VerifyUser(r, u) ==
  /\ req[r] = Idle /\ IsUser(u)
  /\ Goes(r, "verified", u, 0)
  /\ UNCHANGED <<dsVars, users, made, sessions, issued>>

\* Mutation of the next definition: no foreign key.
CreateSessionAnyway(r) ==
  /\ req[r].at = "verified" /\ issued < MaxSession
  /\ issued' = issued + 1
  /\ sessions' = [sessions EXCEPT ![issued + 1] =
                    [user |-> req[r].user, expired |-> FALSE]]
  /\ req' = [req EXCEPT ![r] = Idle]
  /\ UNCHANGED <<dsVars, users, made>>

\* handleLogin: Create; the foreign key refuses a user deleted meanwhile.
CreateSession(r) ==
  /\ req[r].at = "verified" /\ IsUser(req[r].user) /\ issued < MaxSession
  /\ issued' = issued + 1
  /\ sessions' = [sessions EXCEPT ![issued + 1] =
                    [user |-> req[r].user, expired |-> FALSE]]
  /\ req' = [req EXCEPT ![r] = Idle]
  /\ UNCHANGED <<dsVars, users, made>>

\* handleLogout: who has the token may delete the session.
Logout(t) ==
  /\ sessions[t] # NoSession
  /\ sessions' = [sessions EXCEPT ![t] = NoSession]
  /\ UNCHANGED <<dsVars, users, made, issued, req>>

\* SessionTTL is over.
Expire(t) ==
  /\ sessions[t] # NoSession /\ ~sessions[t].expired
  /\ sessions' = [sessions EXCEPT ![t].expired = TRUE]
  /\ UNCHANGED <<dsVars, users, made, issued, req>>

\* The hourly CleanupExpired.
CleanupExpired ==
  /\ \E t \in Token : sessions[t] # NoSession /\ sessions[t].expired
  /\ sessions' = [t \in Token |-> IF sessions[t] # NoSession
                                     /\ sessions[t].expired
                                    THEN NoSession ELSE sessions[t]]
  /\ UNCHANGED <<dsVars, users, made, issued, req>>

----------------------------------------------------------------------------
(* Authorization.                                                          *)

\* SessionStore.Get: session, not expired, joined with its user.
Valid(t) == /\ sessions[t] # NoSession /\ ~sessions[t].expired
            /\ IsUser(sessions[t].user)

\* requireRoleOrAdmin(models.RolePrivileged, ...)
Privileged(u) == IsUser(u) /\ users[u].role \in {"privileged", "admin"}

\* withUser and the check of the route of a device page.
BeginDevice(r, t) ==
  /\ req[r] = Idle /\ Valid(t) /\ Privileged(sessions[t].user)
  /\ Goes(r, "device", sessions[t].user, 0)
  /\ UNCHANGED <<dsVars, users, made, sessions, issued>>

\* withUser and requireAdmin, POST /users/add.
BeginUserAdd(r, t) ==
  /\ req[r] = Idle /\ Valid(t) /\ IsAdmin(sessions[t].user)
  /\ Goes(r, "add", sessions[t].user, 0)
  /\ UNCHANGED <<dsVars, users, made, sessions, issued>>

\* withUser and requireAdmin, POST /users/{id}/delete; not oneself.
BeginUserDelete(r, t, v) ==
  /\ req[r] = Idle /\ Valid(t) /\ IsAdmin(sessions[t].user)
  /\ sessions[t].user # v /\ v <= made
  /\ Goes(r, "target", sessions[t].user, v)
  /\ UNCHANGED <<dsVars, users, made, sessions, issued>>

\* The request ends without an effect: refused by the database, given up by
\* the browser (its context is cancelled), or lost in a restart.
End(r) ==
  /\ req[r] # Idle
  /\ req' = [req EXCEPT ![r] = Idle]
  /\ UNCHANGED <<dsVars, users, made, sessions, issued>>

----------------------------------------------------------------------------
(* The handlers.                                                           *)

\* Mutation of the next definition: no foreign key fk_devices_updated_by.
DeviceEditAnyway(r) ==
  /\ req[r].at = "device"
  /\ WebEdit
  /\ req' = [req EXCEPT ![r] = Idle]
  /\ UNCHANGED <<users, made, sessions, issued>>

\* A statement that writes updated_by; the foreign key refuses a user who was
\* deleted since the request began.
DeviceEdit(r) ==
  /\ req[r].at = "device" /\ IsUser(req[r].user)
  /\ WebEdit
  /\ req' = [req EXCEPT ![r] = Idle]
  /\ UNCHANGED <<users, made, sessions, issued>>

\* handleDevicePurge writes no updated_by.
DevicePurge(r) ==
  /\ req[r].at = "device"
  /\ WebPurge
  /\ req' = [req EXCEPT ![r] = Idle]
  /\ UNCHANGED <<users, made, sessions, issued>>

\* handleUserAdd: the name must be free.
UserAdd(r, n, role) ==
  /\ req[r].at = "add" /\ made < MaxUser
  /\ \A u \in User : IsUser(u) => users[u].name # n
  /\ made' = made + 1
  /\ users' = [users EXCEPT ![made + 1] = [name |-> n, role |-> role]]
  /\ req' = [req EXCEPT ![r] = Idle]
  /\ UNCHANGED <<dsVars, sessions, issued>>

\* Mutation of the next definition: administrators can be deleted.
UserLookupAny(r) ==
  /\ req[r].at = "target" /\ IsUser(req[r].target)
  /\ req' = [req EXCEPT ![r].at = "delete"]
  /\ UNCHANGED <<dsVars, users, made, sessions, issued>>

\* handleUserDelete: Get; an administrator is not deleted.
UserLookup(r) ==
  /\ req[r].at = "target" /\ IsUser(req[r].target) /\ ~IsAdmin(req[r].target)
  /\ req' = [req EXCEPT ![r].at = "delete"]
  /\ UNCHANGED <<dsVars, users, made, sessions, issued>>

\* handleUserDelete: Delete, which cascades to the sessions.
UserDelete(r) ==
  /\ req[r].at = "delete" /\ IsUser(req[r].target)
  /\ users' = [users EXCEPT ![req[r].target] = NoUser]
  /\ sessions' = [t \in Token |->
                    IF sessions[t] # NoSession
                       /\ sessions[t].user = req[r].target
                      THEN NoSession ELSE sessions[t]]
  /\ req' = [req EXCEPT ![r] = Idle]
  /\ UNCHANGED <<dsVars, made, issued>>

----------------------------------------------------------------------------
Handler(r) ==
  \/ CreateSession(r) \/ End(r)
  \/ DeviceEdit(r) \/ DevicePurge(r)
  \/ \E n \in Name, role \in Role : UserAdd(r, n, role)
  \/ UserLookup(r) \/ UserDelete(r)

Next ==
  \/ \E r \in Request : \/ Handler(r)
                        \/ \E u \in User : VerifyUser(r, u)
                        \/ \E t \in Token : BeginDevice(r, t)
                        \/ \E t \in Token : BeginUserAdd(r, t)
                        \/ \E t \in Token, v \in User : BeginUserDelete(r, t, v)
  \/ \E t \in Token : Logout(t) \/ Expire(t)
  \/ CleanupExpired

Spec == Init /\ [][Next]_vars

----------------------------------------------------------------------------
(* Properties.                                                             *)

\* Every session belongs to a user who exists, although a user may be deleted
\* between the check of the password and the creation of the session: a
\* deleted user cannot begin another request, nor can a new user of the same
\* name inherit the session.
SessionsOwned ==
  \A t \in Token : sessions[t] # NoSession => IsUser(sessions[t].user)

\* The role is checked once, at the beginning of a request, but a user is
\* added or deleted only by someone who is an administrator at that moment.
UsersByAdmins ==
  [][users' # users =>
       \E r \in Request : req[r] # req'[r] /\ IsAdmin(req[r].user)]_vars

\* A device is changed only on behalf of a user who may change devices at
\* that moment; only a purge may come from a user deleted meanwhile.
EditsByPrivileged ==
  [][devices' # devices =>
       \E r \in Request :
         /\ req[r] # req'[r]
         /\ \/ Privileged(req[r].user)
            \/ ~IsUser(req[r].user) /\ WebPurge]_vars
=============================================================================
