---------------------------- MODULE UserSessions ----------------------------
(***************************************************************************)
(* Login sessions: modules/auth/services/auth-session.service.ts over      *)
(* repositories/user-session.repository.ts, with the parts of              *)
(* auth.service.ts, account.service.ts and users.service.ts that create,   *)
(* end or gate sessions, and the hourly cleanup.                           *)
(*                                                                         *)
(* A request is a Node.js async handler: it runs from one await to the     *)
(* next, and every other request, the cron and the clock may move while it *)
(* waits.  req[r].pc names the await it stands at, req[r].row the entity   *)
(* object it holds in memory.  All lasting state is in PostgreSQL and      *)
(* Redis, so a crash of the process is the Abort of the requests it ran.   *)
(*                                                                         *)
(* Left out: device metadata, roles and permissions in the tokens, the     *)
(* audit log, websocket events and mail, none of which is read back here.  *)
(***************************************************************************)
EXTENDS Naturals

CONSTANTS
  Users,
  SessionIds,   \* the values randomUUID may return
  Requests,     \* slots for requests in progress at the same time
  RefreshTTL,   \* jwt.refreshExpiresIn, in ticks of the clock
  AccessTTL,    \* jwt.accessExpiresIn, in ticks of the clock
  MaxVersion,   \* bound: a session is rotated up to this tokenVersion
  MaxClock,     \* bound: the clock stops here
  None          \* no row, no token, no session

Versions == 0 .. MaxVersion
Times    == 0 .. MaxClock
Expiries == 0 .. MaxClock + RefreshTTL

(* user_sessions: the columns the handlers decide on.                      *)
Row == [owner: Users, version: Versions, expiresAt: Expiries, revoked: BOOLEAN]

(* The claims of a token pair: the access token carries sub and sessionId, *)
(* the refresh token tokenVersion as well, and both lapse a fixed time     *)
(* after they are signed.  A request on behalf of a user who presented no  *)
(* session token is the pair with sid = None.                              *)
Token == [sid: SessionIds \cup {None}, user: Users, version: Versions,
          issued: Times]

PCs == {"idle", "user.save", "user.revoke", "login.user", "login.draw",
        "login.save", "refresh.user", "refresh.save", "reuse.revoke", "reply",
        "touch.gate", "touch.read", "touch.save", "touch.set", "authorized",
        "reset.user", "reset.revoke", "remove.revoke", "remove.user",
        "remove.soft"}

(* One request: its await, the token it presented or is about to return,   *)
(* the session object and the user object it holds; of the latter only     *)
(* isActive matters: on is {user} if it is set and {} if it is not.        *)
Request == [pc: PCs, token: Token \cup {None}, row: Row \cup {None},
            on: SUBSET Users]

ASSUME BoundsAssumption ==
  /\ RefreshTTL \in Nat /\ AccessTTL \in Nat
  /\ MaxVersion \in Nat /\ MaxClock \in Nat
  /\ MaxVersion > 0

ASSUME NoneAssumption ==
  /\ None \notin Users /\ None \notin SessionIds
  /\ None \notin Row /\ None \notin Token

VARIABLES
  sessions,   \* [SessionIds -> Row or None], the table user_sessions
  active,     \* the users whose row has is_active and is not soft-deleted
  deleted,    \* the users whose row has deleted_at set
  throttled,  \* sessions whose auth:session-touch key is set
  issued,     \* token pairs that reached a client
  drawn,      \* session ids randomUUID has returned
  req,        \* [Requests -> Request]
  now,        \* the clock
  peak        \* history: the highest tokenVersion ever saved for a session

vars == <<sessions, active, deleted, throttled, issued, drawn, req, now, peak>>

Idle == [pc |-> "idle", token |-> None, row |-> None, on |-> {}]

Init ==
  /\ sessions = [s \in SessionIds |-> None]
  /\ active = Users
  /\ deleted = {}
  /\ throttled = {}
  /\ issued = {}
  /\ drawn = {}
  /\ req = [r \in Requests |-> Idle]
  /\ now = 0
  /\ peak = [s \in SessionIds |-> 0]

-----------------------------------------------------------------------------
(* Helpers.                                                                *)

Staff(u) == [sid |-> None, user |-> u, version |-> 0, issued |-> 0]

(* A session that authorizes requests.                                     *)
Live(s) ==
  /\ sessions[s] # None
  /\ ~ sessions[s].revoked
  /\ sessions[s].expiresAt > now

FindActiveById(s) ==
  IF sessions[s] # None /\ ~ sessions[s].revoked THEN sessions[s] ELSE None

(* The session a token names is live and belongs to the user it names.     *)
LiveFor(t) == Live(t.sid) /\ sessions[t.sid].owner = t.user

Move(r, from, to) ==
  /\ req[r].pc = from
  /\ req' = [req EXCEPT ![r].pc = to]

(* The handler stops using the session object it read.                     *)
Release(r, from, to) ==
  /\ req[r].pc = from
  /\ req' = [req EXCEPT ![r].pc = to, ![r].row = None]

Finish(r, from) ==
  /\ req[r].pc = from
  /\ req' = [req EXCEPT ![r] = Idle]

(* TypeORM save(entity): it loads the row by primary key, then writes      *)
(* every column in which the entity differs, or inserts the entity if the  *)
(* row is gone.  The row ends up equal to the entity, however old that is. *)
Save(s, row) ==
  /\ sessions' = [sessions EXCEPT ![s] = row]
  /\ peak' = [peak EXCEPT ![s] = IF row.version > @ THEN row.version ELSE @]

(* UPDATE user_sessions SET revoked_at ... WHERE revoked_at IS NULL.       *)
RevokeWhere(S) ==
  sessions' = [s \in SessionIds |->
                 IF s \in S /\ sessions[s] # None
                   THEN [sessions[s] EXCEPT !.revoked = TRUE]
                   ELSE sessions[s]]

SessionsOf(u) == {s \in SessionIds : sessions[s] # None /\ sessions[s].owner = u}

-----------------------------------------------------------------------------
(* The users table: the handlers that read a user row and later write all  *)
(* of it back, is_active included.                                         *)

(* users.update and account.updateProfile read the user; the copy keeps    *)
(* is_active as read, or takes the value the request sets.  Deactivating,  *)
(* removing, or changing a password revokes sessions before the user is    *)
(* saved.                                                                  *)
UserRead(r, u) ==
  /\ req[r].pc = "idle"
  /\ u \notin deleted
  /\ \E pc \in {"user.save", "user.revoke"}, on \in {{}, {u}} :
       /\ on = {} /\ u \in active => pc = "user.revoke"
       /\ req' = [req EXCEPT ![r] = [Idle EXCEPT !.pc = pc, !.on = on,
                                                 !.token = Staff(u)]]
  /\ UNCHANGED <<sessions, active, deleted, throttled, issued, drawn, now, peak>>

(* users.remove, from an authorized request of somebody else.              *)
RemoveUser(r, u) ==
  /\ req[r].pc = "authorized"
  /\ u # req[r].token.user /\ u \notin deleted
  /\ req' = [req EXCEPT ![r] = [Idle EXCEPT !.pc = "remove.revoke",
                                            !.token = Staff(u)]]
  /\ UNCHANGED <<sessions, active, deleted, throttled, issued, drawn, now, peak>>

(* updateProfile with a new password, from an authorized request: the      *)
(* revocation spares the session of the request.                           *)
PasswordChange(r) ==
  /\ req[r].pc = "authorized"
  /\ req[r].token.user \notin deleted
  /\ req' = [req EXCEPT ![r].pc = "user.revoke",
                        ![r].on = {req[r].token.user} \cap active]
  /\ UNCHANGED <<sessions, active, deleted, throttled, issued, drawn, now, peak>>

UserRevoke(r) ==
  /\ \/ Move(r, "user.revoke", "user.save")
     \/ Move(r, "remove.revoke", "remove.user")
  /\ RevokeWhere(SessionsOf(req[r].token.user) \ {req[r].token.sid})
  /\ UNCHANGED <<active, deleted, throttled, issued, drawn, now, peak>>

(* resetPassword: the token is consumed and the user read; the user is     *)
(* saved first, and only then are the sessions revoked.                    *)
ResetPassword(r, u) ==
  /\ req[r].pc = "idle"
  /\ u \notin deleted
  /\ req' = [req EXCEPT ![r] = [Idle EXCEPT !.pc = "reset.user",
                                            !.on = {u} \cap active,
                                            !.token = Staff(u)]]
  /\ UNCHANGED <<sessions, active, deleted, throttled, issued, drawn, now, peak>>

ResetRevoke(r) ==
  /\ Finish(r, "reset.revoke")
  /\ RevokeWhere(SessionsOf(req[r].token.user))
  /\ UNCHANGED <<active, deleted, throttled, issued, drawn, now, peak>>

(* userRepository.save(user) in each of these handlers and in login.  The  *)
(* object was read with no deleted_at, so a removal is undone, too.        *)
UserSave(r) ==
  /\ \/ Finish(r, "user.save")
     \/ Move(r, "reset.user", "reset.revoke")
     \/ Move(r, "login.user", "login.draw")
     \/ Move(r, "remove.user", "remove.soft")
  /\ active' = (active \ {req[r].token.user}) \cup req[r].on
  /\ deleted' = deleted \ {req[r].token.user}
  /\ UNCHANGED <<sessions, throttled, issued, drawn, now, peak>>

(* userRepository.softRemove(user), which ends users.remove.               *)
UserSoftRemove(r) ==
  /\ Finish(r, "remove.soft")
  /\ active' = active \ {req[r].token.user}
  /\ deleted' = deleted \cup {req[r].token.user}
  /\ UNCHANGED <<sessions, throttled, issued, drawn, now, peak>>

-----------------------------------------------------------------------------
(* Login.                                                                  *)

(* auth.service login: the user is found active and the password matches.  *)
Login(r, u) ==
  /\ req[r].pc = "idle"
  /\ u \in active
  /\ req' = [req EXCEPT ![r] = [Idle EXCEPT !.pc = "login.user", !.on = {u},
                                            !.token = Staff(u)]]
  /\ UNCHANGED <<sessions, active, deleted, throttled, issued, drawn, now, peak>>

(* Mutant: the session id is not fresh (one id per device, say).           *)
CreateLoginSession_ReusedId(r, s) ==
  /\ req[r].pc = "login.draw"
  /\ drawn' = drawn \cup {s}
  /\ LET u == req[r].token.user IN
       req' = [req EXCEPT ![r] =
                 [pc |-> "login.save", on |-> {},
                  token |-> [sid |-> s, user |-> u, version |-> 1, issued |-> now],
                  row |-> [owner |-> u, version |-> 1,
                           expiresAt |-> now + RefreshTTL, revoked |-> FALSE]]]
  /\ UNCHANGED <<sessions, active, deleted, throttled, issued, now, peak>>

(* createLoginSession up to its save: an id, version 1, an expiry and the  *)
(* signed pair.                                                            *)
CreateLoginSession(r, s) ==
  /\ req[r].pc = "login.draw"
  /\ s \notin drawn
  /\ drawn' = drawn \cup {s}
  /\ LET u == req[r].token.user IN
       req' = [req EXCEPT ![r] =
                 [pc |-> "login.save", on |-> {},
                  token |-> [sid |-> s, user |-> u, version |-> 1, issued |-> now],
                  row |-> [owner |-> u, version |-> 1,
                           expiresAt |-> now + RefreshTTL, revoked |-> FALSE]]]
  /\ UNCHANGED <<sessions, active, deleted, throttled, issued, now, peak>>

(* The save that ends createLoginSession and the one that ends refresh.    *)
SaveIssued(r) ==
  /\ Release(r, "login.save", "reply") \/ Release(r, "refresh.save", "reply")
  /\ Save(req[r].token.sid, req[r].row)
  /\ UNCHANGED <<active, deleted, throttled, issued, drawn, now>>

(* The response reaches the client.                                        *)
Reply(r) ==
  /\ Finish(r, "reply")
  /\ issued' = issued \cup {req[r].token}
  /\ UNCHANGED <<sessions, active, deleted, throttled, drawn, now, peak>>

-----------------------------------------------------------------------------
(* Refresh.                                                                *)

(* Mutant: the expiry of the row is not tested, only that of the token.    *)
RefreshRead_NoExpiryTest(r, t) ==
  /\ req[r].pc = "idle"
  /\ t.issued + RefreshTTL > now
  /\ FindActiveById(t.sid) # None
  /\ req' = [req EXCEPT ![r] =
               [Idle EXCEPT !.pc = IF t.version = sessions[t.sid].version
                                     THEN "refresh.user" ELSE "reuse.revoke",
                            !.token = t, !.row = sessions[t.sid]]]
  /\ UNCHANGED <<sessions, active, deleted, throttled, issued, drawn, now, peak>>

(* The refresh token and its session are read and compared.  The bcrypt    *)
(* comparison of lines 103-107 is part of the version test: bcrypt reads   *)
(* the first 72 bytes of its argument, which in these tokens are the       *)
(* header and the start of sub, so it succeeds once the owner agrees.      *)
RefreshRead(r, t) ==
  /\ req[r].pc = "idle"
  /\ t.issued + RefreshTTL > now
  /\ LiveFor(t)
  /\ req' = [req EXCEPT ![r] =
               [Idle EXCEPT !.pc = IF t.version = sessions[t.sid].version
                                     THEN "refresh.user" ELSE "reuse.revoke",
                            !.token = t, !.row = sessions[t.sid]]]
  /\ UNCHANGED <<sessions, active, deleted, throttled, issued, drawn, now, peak>>

(* Mutant: the throw after the revocation is missing.                      *)
HandleRefreshTokenReuse_NoThrow(r) ==
  /\ Move(r, "reuse.revoke", "refresh.user")
  /\ RevokeWhere(SessionsOf(req[r].token.user))
  /\ UNCHANGED <<active, deleted, throttled, issued, drawn, now, peak>>

(* handleRefreshTokenReuse, and the 401 that follows it.                   *)
HandleRefreshTokenReuse(r) ==
  /\ Finish(r, "reuse.revoke")
  /\ RevokeWhere(SessionsOf(req[r].token.user))
  /\ UNCHANGED <<active, deleted, throttled, issued, drawn, now, peak>>

(* Mutants: the version is not incremented; only the token's is; it is     *)
(* incremented twice.                                                      *)
RefreshRotate_SameVersion(r) ==
  /\ req[r].pc = "refresh.user"
  /\ req[r].token.user \in active
  /\ req' = [req EXCEPT
               ![r].pc = "refresh.save",
               ![r].token = [@ EXCEPT !.issued = now],
               ![r].row = [@ EXCEPT !.expiresAt = now + RefreshTTL]]
  /\ UNCHANGED <<sessions, active, deleted, throttled, issued, drawn, now, peak>>

RefreshRotate_TokenOnly(r) ==
  /\ req[r].pc = "refresh.user"
  /\ req[r].token.user \in active
  /\ req[r].row.version < MaxVersion
  /\ req' = [req EXCEPT
               ![r].pc = "refresh.save",
               ![r].token = [@ EXCEPT !.version = req[r].row.version + 1,
                                      !.issued = now],
               ![r].row = [@ EXCEPT !.expiresAt = now + RefreshTTL]]
  /\ UNCHANGED <<sessions, active, deleted, throttled, issued, drawn, now, peak>>

RefreshRotate_Twice(r) ==
  /\ req[r].pc = "refresh.user"
  /\ req[r].token.user \in active
  /\ req[r].row.version < MaxVersion
  /\ LET v == req[r].row.version + 2 IN
       req' = [req EXCEPT
                 ![r].pc = "refresh.save",
                 ![r].token = [@ EXCEPT !.version = v, !.issued = now],
                 ![r].row = [@ EXCEPT !.version = v,
                                      !.expiresAt = now + RefreshTTL]]
  /\ UNCHANGED <<sessions, active, deleted, throttled, issued, drawn, now, peak>>

(* The user is found active; the session object in memory is moved to the  *)
(* next version and a pair is signed for it.  (If the user is inactive the *)
(* request ends: Abort.)                                                   *)
RefreshRotate(r) ==
  /\ req[r].pc = "refresh.user"
  /\ req[r].token.user \in active
  /\ req[r].row.version < MaxVersion
  /\ LET v == req[r].row.version + 1 IN
       req' = [req EXCEPT
                 ![r].pc = "refresh.save",
                 ![r].token = [@ EXCEPT !.version = v, !.issued = now],
                 ![r].row = [@ EXCEPT !.version = v,
                                      !.expiresAt = now + RefreshTTL]]
  /\ UNCHANGED <<sessions, active, deleted, throttled, issued, drawn, now, peak>>

-----------------------------------------------------------------------------
(* Authorization of a request by its access token, and the touch.          *)

(* AccessTokenGuard, JwtStrategy and authorizeRequestUser.                 *)
Authorize(r, t) ==
  /\ req[r].pc = "idle"
  /\ t.issued + AccessTTL > now
  /\ LiveFor(t)
  /\ req' = [req EXCEPT ![r] = [Idle EXCEPT !.pc = "touch.gate", !.token = t]]
  /\ UNCHANGED <<sessions, active, deleted, throttled, issued, drawn, now, peak>>

(* touchSession: the throttle key, the session read again (unrevoked,      *)
(* expired or not), the save of the whole row, the throttle key set.       *)
TouchGate(r) ==
  /\ req[r].pc = "touch.gate"
  /\ \/ req[r].token.sid \in throttled /\ Move(r, "touch.gate", "authorized")
     \/ req[r].token.sid \notin throttled /\ Move(r, "touch.gate", "touch.read")
  /\ UNCHANGED <<sessions, active, deleted, throttled, issued, drawn, now, peak>>

(* Mutant: the test that the row was found is missing.                     *)
TouchRead_NoNullTest(r) ==
  /\ req[r].pc = "touch.read"
  /\ req' = [req EXCEPT ![r].pc = "touch.save",
                        ![r].row = FindActiveById(req[r].token.sid)]
  /\ UNCHANGED <<sessions, active, deleted, throttled, issued, drawn, now, peak>>

TouchRead(r) ==
  /\ req[r].pc = "touch.read"
  /\ LET row == FindActiveById(req[r].token.sid) IN
       req' = [req EXCEPT
                 ![r].pc = IF row = None THEN "touch.set" ELSE "touch.save",
                 ![r].row = row]
  /\ UNCHANGED <<sessions, active, deleted, throttled, issued, drawn, now, peak>>

TouchSave(r) ==
  /\ Release(r, "touch.save", "touch.set")
  /\ Save(req[r].token.sid, req[r].row)
  /\ UNCHANGED <<active, deleted, throttled, issued, drawn, now>>

TouchSet(r) ==
  /\ Move(r, "touch.set", "authorized")
  /\ throttled' = throttled \cup {req[r].token.sid}
  /\ UNCHANGED <<sessions, active, deleted, issued, drawn, now, peak>>

-----------------------------------------------------------------------------
(* What an authorized request does to sessions.                            *)

LogoutCurrent(r) ==
  /\ Finish(r, "authorized")
  /\ RevokeWhere({req[r].token.sid})
  /\ UNCHANGED <<active, deleted, throttled, issued, drawn, now, peak>>

LogoutAll(r) ==
  /\ Finish(r, "authorized")
  /\ RevokeWhere(SessionsOf(req[r].token.user))
  /\ UNCHANGED <<active, deleted, throttled, issued, drawn, now, peak>>

(* Mutant: the owner of the session is not compared with the caller.       *)
RevokeSpecificSession_AnyOwner(r, s) ==
  /\ Finish(r, "authorized")
  /\ sessions[s] # None
  /\ RevokeWhere({s})
  /\ UNCHANGED <<active, deleted, throttled, issued, drawn, now, peak>>

(* The owner of a row never changes, so the read and the update of lines   *)
(* 171-176 are one step.                                                   *)
RevokeSpecificSession(r, s) ==
  /\ Finish(r, "authorized")
  /\ s \in SessionsOf(req[r].token.user)
  /\ RevokeWhere({s})
  /\ UNCHANGED <<active, deleted, throttled, issued, drawn, now, peak>>

(* Any handler that leaves sessions and users alone.                       *)
Serve(r) ==
  /\ Finish(r, "authorized")
  /\ UNCHANGED <<sessions, active, deleted, throttled, issued, drawn, now, peak>>

-----------------------------------------------------------------------------
(* The environment.                                                        *)

(* An exception at an await, a dropped connection or a crash of the        *)
(* process: what was written stays written, what was in memory is lost.    *)
Abort(r) ==
  /\ req[r].pc # "idle"
  /\ req' = [req EXCEPT ![r] = Idle]
  /\ UNCHANGED <<sessions, active, deleted, throttled, issued, drawn, now, peak>>

(* The hourly cron (auth-session-cleanup.cron.ts).                         *)
Reapable(s) ==
  /\ sessions[s] # None
  /\ sessions[s].revoked \/ sessions[s].expiresAt < now

(* Mutant: only expired rows are deleted.                                  *)
CleanupExpiredOrRevoked_ExpiredOnly ==
  /\ \E s \in SessionIds : Reapable(s) /\ sessions[s].expiresAt < now
  /\ sessions' = [s \in SessionIds |->
                    IF Reapable(s) /\ sessions[s].expiresAt < now
                      THEN None ELSE sessions[s]]
  /\ UNCHANGED <<active, deleted, throttled, issued, drawn, req, now, peak>>

CleanupExpiredOrRevoked ==
  /\ \E s \in SessionIds : Reapable(s)
  /\ sessions' = [s \in SessionIds |-> IF Reapable(s) THEN None ELSE sessions[s]]
  /\ UNCHANGED <<active, deleted, throttled, issued, drawn, req, now, peak>>

(* Redis drops a throttle key after auth.sessionTouchThrottleSeconds.      *)
ExpireThrottle(s) ==
  /\ s \in throttled
  /\ throttled' = throttled \ {s}
  /\ UNCHANGED <<sessions, active, deleted, issued, drawn, req, now, peak>>

Tick ==
  /\ now < MaxClock
  /\ now' = now + 1
  /\ UNCHANGED <<sessions, active, deleted, throttled, issued, drawn, req, peak>>

-----------------------------------------------------------------------------
RequestStep(r) ==
  \/ \E u \in Users : \/ UserRead(r, u) \/ RemoveUser(r, u)
                       \/ ResetPassword(r, u) \/ Login(r, u)
  \/ UserRevoke(r) \/ ResetRevoke(r) \/ UserSave(r) \/ UserSoftRemove(r)
  \/ \E s \in SessionIds : CreateLoginSession(r, s) \/ RevokeSpecificSession(r, s)
  \/ SaveIssued(r) \/ Reply(r)
  \/ \E t \in issued : RefreshRead(r, t) \/ Authorize(r, t)
  \/ HandleRefreshTokenReuse(r) \/ RefreshRotate(r)
  \/ TouchGate(r) \/ TouchRead(r) \/ TouchSave(r) \/ TouchSet(r)
  \/ PasswordChange(r) \/ LogoutCurrent(r) \/ LogoutAll(r) \/ Serve(r)
  \/ Abort(r)

Next ==
  \/ \E r \in Requests : RequestStep(r)
  \/ CleanupExpiredOrRevoked
  \/ \E s \in SessionIds : ExpireThrottle(s)
  \/ Tick

Spec == Init /\ [][Next]_vars

(* @nestjs/schedule runs the cleanup every hour for as long as the process *)
(* is up, whether or not an earlier run failed: weak fairness on it.       *)
(* Nothing obliges a client to make or to finish a request.                *)
FairSpec == Spec /\ WF_vars(CleanupExpiredOrRevoked)

-----------------------------------------------------------------------------
Equipped(q) ==
  /\ q.pc # "idle" => q.token # None
  /\ q.pc \in {"login.save", "refresh.user", "refresh.save", "reuse.revoke",
               "touch.save"} => q.row # None
  /\ q.pc \in {"login.save", "refresh.user", "refresh.save", "reuse.revoke",
               "reply", "touch.gate", "touch.read", "touch.save", "touch.set",
               "authorized"} => q.token.sid # None

(* Type invariant: every variable keeps its shape, and a request at an     *)
(* await that uses a session row or a session id holds one.                *)
TypeOK ==
  /\ sessions \in [SessionIds -> Row \cup {None}]
  /\ active \subseteq Users /\ deleted \subseteq Users
  /\ throttled \subseteq SessionIds
  /\ issued \subseteq {t \in Token : t.sid # None}
  /\ drawn \subseteq SessionIds
  /\ req \in [Requests -> Request]
  /\ now \in Times
  /\ peak \in [SessionIds -> Versions]
  /\ \A r \in Requests : Equipped(req[r])

(* Versions follow the saves: a row, and a copy of it in a request, has a  *)
(* version the session reached, and a rotation about to be saved is at     *)
(* most one ahead of the highest version the session ever had, however     *)
(* the refreshes and touches of the session interleave.                    *)
RequestVersionOK(q) ==
  LET seen == 1 .. peak[q.token.sid] IN
  /\ q.pc = "login.save" => q.row.version = 1
  /\ q.pc \in {"refresh.user", "touch.save"} => q.row.version \in seen
  /\ q.pc = "refresh.save" => q.row.version - 1 \in seen

VersionsFollowSaves ==
  /\ \A s \in SessionIds :
       sessions[s] # None => sessions[s].version \in 1 .. peak[s]
  /\ \A r \in Requests : req[r].pc # "idle" => RequestVersionOK(req[r])

(* A request whose pending save can still make session s live: it holds a  *)
(* copy of the row taken while s was live, or the row of a new session.    *)
Engaged(r, s) ==
  /\ req[r].pc \in {"login.save", "refresh.user", "refresh.save", "touch.save"}
  /\ req[r].token.sid = s
  /\ req[r].pc = "touch.save" => req[r].row.expiresAt > now

(* Dead and left alone: nothing in progress can bring the session back.    *)
Settled(s) ==
  /\ s \in drawn
  /\ ~ Live(s)
  /\ \A r \in Requests : ~ Engaged(r, s)

(* A session that has ended (logged out, revoked, expired or cleaned up)   *)
(* and that no request in progress still has a copy of never works again,  *)
(* whatever tokens clients keep and whatever is retried.                   *)
DeadStaysDead ==
  [][\A s \in SessionIds : Settled(s) => Settled(s)']_vars

(* The detailed module implements the abstract one: a session is closed    *)
(* once it has been saved and is settled, and its generation is the        *)
(* highest version ever saved.                                             *)
Phase(s) ==
  IF peak[s] = 0 THEN "fresh" ELSE IF Settled(s) THEN "closed" ELSE "open"

Registry == INSTANCE SessionRegistry WITH
  phase <- [s \in SessionIds |-> Phase(s)],
  generation <- peak

RegistrySpec == Registry!Spec

(* A request that passed the guard ends the sessions of its own user and   *)
(* of nobody else, and a password change keeps the session it came from.   *)
OwnSessionsOnly ==
  [][\A r \in Requests, s \in SessionIds :
       /\ req'[r] # req[r]
       /\ req[r].pc \in {"authorized", "user.revoke"}
       /\ sessions'[s] # sessions[s]
       => /\ sessions[s].owner = req[r].token.user
          /\ req[r].pc = "user.revoke" => s # req[r].token.sid]_vars

(* The row of a dead session goes for good (auth-session-cleanup.cron.ts): *)
(* a touch that read it before it expired puts it back after the cleanup   *)
(* deleted it, but from some time on there is no row to clean up, because  *)
(* the guard and refresh let no further request get hold of it.            *)
GoneForGood == \A s \in SessionIds : <>[](Settled(s) => ~ Reapable(s))

(* auth.controller.ts, logout: "Revokes the currently authenticated device *)
(* session."  A session whose row is revoked does not become live.  True   *)
(* of requests handled one at a time.                                      *)
RevokedStaysRevoked ==
  [][\A s \in SessionIds :
       sessions[s] # None /\ sessions[s].revoked => ~ Live(s)']_vars

(* "We detected reuse of a refresh token": a token is treated as reused    *)
(* only if the session has moved to a later version than the token's.      *)
(* True of requests handled one at a time.                                 *)
ReuseVerdictSound ==
  \A r \in Requests :
    req[r].pc = "reuse.revoke" => req[r].token.version < peak[req[r].token.sid]

(* refresh "rotates" the token: a save that follows a rotation takes the   *)
(* session to a version it never had, so no refresh token is exchanged     *)
(* twice.  True of requests handled one at a time.                         *)
RotatedOnce ==
  [][\A r \in Requests :
       req[r].pc = "refresh.save" /\ req'[r].pc = "reply"
         => req[r].row.version > peak[req[r].token.sid]]_vars
=============================================================================
