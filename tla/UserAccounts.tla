---------------------------- MODULE UserAccounts ----------------------------
(***************************************************************************)
(* The rows of users: password, failed logins and lock, is_active,         *)
(* deleted_at.  Many handlers read a user, wait (for bcrypt most of all)   *)
(* and save the whole entity: login, failed login, reset, profile,         *)
(* verification, and the administrator's update and removal.               *)
(*                                                                         *)
(* Addresses are in ActionTokens, sessions in UserSessions, roles in       *)
(* AccessControl.                                                          *)
(***************************************************************************)
EXTENDS Integers

CONSTANTS
  Users, Passwords, Requests, None,
  MaxFailed,   \* auth.maxFailedLogins
  LockTime,    \* auth.lockMinutes, in units of the clock
  MaxTime,     \* bound of the clock
  MaxGuesses   \* bound of the wrong guesses for one user

VARIABLES
  account,   \* [Users -> Row or None]
  removed,   \* the users whose row has deleted_at set
  now,
  req,       \* [Requests -> Request]
  serial,    \* no request begins while another one is in progress
  guesses,   \* history: wrong guesses for a user, ever
  wrong,     \* history: those since failed_login_count was last reset
  lastWrong, \* history: when the last one was saved
  intended   \* history: what the requests that were saved asked for

history == <<guesses, wrong, lastWrong, intended>>
vars == <<account, removed, now, req, serial, history>>

ASSUME AccountAssumption ==
  /\ MaxFailed \in Nat \ {0} /\ LockTime \in Nat \ {0}
  /\ MaxTime \in Nat \ {0} /\ MaxGuesses \in Nat
  /\ None \notin Users /\ None \notin Passwords /\ None \notin BOOLEAN

(* locked: locked_until, 0 for null.                                       *)
Row == [password: Passwords, failed: Nat, locked: Nat, active: BOOLEAN]

ASSUME NoRow == None \notin Row

(* What was asked for a user; live: not to be removed.                     *)
Intent == [password: Passwords, active: BOOLEAN, live: BOOLEAN]

ASSUME NoIntent == None \notin Intent

(* A request: its await, its user, the entity in memory, and what the      *)
(* request set in it ("counter": failed and locked were reset); of a       *)
(* login, whether the password matched.                                    *)
Request == [pc: {"idle", "login", "save", "remove.save", "remove.soft"},
            user: Users \cup {None}, row: Row \cup {None},
            set: SUBSET {"password", "active", "counter"}, matches: BOOLEAN]

Idle == [pc |-> "idle", user |-> None, row |-> None, set |-> {},
         matches |-> FALSE]

Init ==
  /\ account = [u \in Users |-> None]
  /\ removed = {}
  /\ now = 1
  /\ req = [r \in Requests |-> Idle]
  /\ serial \in BOOLEAN
  /\ guesses = [u \in Users |-> 0]
  /\ wrong = [u \in Users |-> 0]
  /\ lastWrong = [u \in Users |-> 0]
  /\ intended = [u \in Users |-> None]

(* What findOne, findById and findByEmail return.                          *)
Live(u) == account[u] # None /\ u \notin removed

Start(r, u, request) ==
  /\ req[r].pc = "idle"
  /\ serial => \A x \in Requests : req[x].pc = "idle"
  /\ Live(u)
  /\ req' = [req EXCEPT ![r] = request]
  /\ UNCHANGED <<account, removed, now, serial, history>>

Begin(r, pc, u, row, set) ==
  Start(r, u, [Idle EXCEPT !.pc = pc, !.user = u, !.row = row, !.set = set])

(* save(entity): every column, deleted_at of the row read included.        *)
Write(u, row) ==
  /\ account' = [account EXCEPT ![u] = row]
  /\ removed' = removed \ {u}

(* UsersService.create, once the address was checked: a new row.           *)
CreateUser(r, u, p, active) ==
  /\ req[r].pc = "idle"
  /\ serial => \A x \in Requests : req[x].pc = "idle"
  /\ account[u] = None
  /\ account' = [account EXCEPT ![u] = [password |-> p, failed |-> 0,
                                       locked |-> 0, active |-> active]]
  /\ intended' = [intended EXCEPT ![u] = [password |-> p, active |-> active,
                                         live |-> TRUE]]
  /\ UNCHANGED <<removed, now, req, serial, guesses, wrong, lastWrong>>

-----------------------------------------------------------------------------
(* Login.                                                                  *)

(* Mutant: the lock is not looked at.                                      *)
LoginRead_AnyTime(r, u, guess) ==
  /\ Live(u) /\ account[u].active
  /\ Start(r, u, [Idle EXCEPT !.pc = "login", !.user = u, !.row = account[u],
                              !.matches = (guess = account[u].password)])

(* The user is read and tested; the comparison that follows is with the    *)
(* hash that was read.                                                     *)
LoginRead(r, u, guess) ==
  /\ Live(u) /\ account[u].active /\ account[u].locked <= now
  /\ Start(r, u, [Idle EXCEPT !.pc = "login", !.user = u, !.row = account[u],
                              !.matches = (guess = account[u].password)])

LoginSucceeds(r) ==
  LET u == req[r].user IN
    /\ req[r].pc = "login" /\ req[r].matches
    /\ Write(u, [req[r].row EXCEPT !.failed = 0, !.locked = 0])
    /\ req' = [req EXCEPT ![r] = Idle]
    /\ wrong' = [wrong EXCEPT ![u] = 0]
    /\ UNCHANGED <<now, serial, guesses, lastWrong, intended>>

(* Mutant: every failure locks.                                            *)
HandleFailedLogin_AtOnce(r) ==
  LET u == req[r].user
      failed == req[r].row.failed + 1 IN
    /\ req[r].pc = "login" /\ ~ req[r].matches /\ guesses[u] < MaxGuesses
    /\ Write(u, [req[r].row EXCEPT !.failed = failed,
                                   !.locked = now + LockTime])
    /\ req' = [req EXCEPT ![r] = Idle]
    /\ guesses' = [guesses EXCEPT ![u] = @ + 1]
    /\ wrong' = [wrong EXCEPT ![u] = @ + 1]
    /\ lastWrong' = [lastWrong EXCEPT ![u] = now]
    /\ UNCHANGED <<now, serial, intended>>

HandleFailedLogin(r) ==
  LET u == req[r].user
      failed == req[r].row.failed + 1
      locked == IF failed >= MaxFailed THEN now + LockTime
                ELSE req[r].row.locked IN
    /\ req[r].pc = "login" /\ ~ req[r].matches /\ guesses[u] < MaxGuesses
    /\ Write(u, [req[r].row EXCEPT !.failed = failed, !.locked = locked])
    /\ req' = [req EXCEPT ![r] = Idle]
    /\ guesses' = [guesses EXCEPT ![u] = @ + 1]
    /\ wrong' = [wrong EXCEPT ![u] = @ + 1]
    /\ lastWrong' = [lastWrong EXCEPT ![u] = now]
    /\ UNCHANGED <<now, serial, intended>>

-----------------------------------------------------------------------------
(* Handlers that read a user and save it later.                            *)

(* resetPassword, once its token is consumed: the counters go to zero in   *)
(* the entity (wrong follows in SaveUser).                                 *)
ResetPassword(r, u, p) ==
  Begin(r, "save", u,
        [account[u] EXCEPT !.password = p, !.failed = 0, !.locked = 0],
        {"password", "counter"})

(* updateProfile: a new password takes the current one.                    *)
UpdateProfile(r, u, current, p) ==
  /\ Live(u) /\ current = account[u].password
  /\ Begin(r, "save", u, [account[u] EXCEPT !.password = p], {"password"})

(* updateProfile without a password, resendVerificationEmail, verifyEmail: *)
(* none of the columns here is set, all of them are saved.                 *)
UpdateOther(r, u) == Begin(r, "save", u, account[u], {})

(* Mutant: is_active is assigned even if the dto has none.                 *)
UpdateUser_Undefined(r, u, active, p) ==
  /\ Live(u)
  /\ Begin(r, "save", u,
           [account[u] EXCEPT !.active = active,
                              !.password = IF p = None THEN @ ELSE p],
           {"active"} \cup (IF p = None THEN {} ELSE {"password"}))

(* UsersService.update: active and password are None where the dto has no  *)
(* such field.                                                             *)
UpdateUser(r, u, active, p) ==
  /\ Live(u)
  /\ Begin(r, "save", u,
           [account[u] EXCEPT !.active = IF active = None THEN @ ELSE active,
                              !.password = IF p = None THEN @ ELSE p],
           (IF active = None THEN {} ELSE {"active"})
             \cup (IF p = None THEN {} ELSE {"password"}))

(* A seeder that finds its user sets its password and is_active.           *)
SeedUser(r, u, p) == UpdateUser(r, u, TRUE, p)

BeginRemove(r, u) ==
  /\ Live(u)
  /\ Begin(r, "remove.save", u, [account[u] EXCEPT !.active = FALSE],
           {"active"})

Intended(r) ==
  LET q == req[r]
      old == intended[q.user] IN
    [intended EXCEPT ![q.user] =
       [old EXCEPT !.password = IF "password" \in q.set THEN q.row.password
                                ELSE old.password,
                   !.active = IF "active" \in q.set THEN q.row.active
                              ELSE old.active]]

SaveUser(r) ==
  LET u == req[r].user IN
    /\ req[r].pc \in {"save", "remove.save"}
    /\ Write(u, req[r].row)
    /\ req' = [req EXCEPT ![r] = IF @.pc = "save" THEN Idle
                                 ELSE [@ EXCEPT !.pc = "remove.soft"]]
    /\ wrong' = IF "counter" \in req[r].set THEN [wrong EXCEPT ![u] = 0]
                ELSE wrong
    /\ intended' = Intended(r)
    /\ UNCHANGED <<now, serial, guesses, lastWrong>>

(* Mutant: softRemove followed by the save of the same entity.             *)
SoftRemove_SavedAgain(r) ==
  LET u == req[r].user IN
    /\ req[r].pc = "remove.soft"
    /\ Write(u, req[r].row)
    /\ req' = [req EXCEPT ![r] = Idle]
    /\ intended' = [intended EXCEPT ![u].live = FALSE]
    /\ UNCHANGED <<now, serial, guesses, wrong, lastWrong>>

SoftRemove(r) ==
  LET u == req[r].user IN
    /\ req[r].pc = "remove.soft"
    /\ removed' = removed \cup {u}
    /\ req' = [req EXCEPT ![r] = Idle]
    /\ intended' = [intended EXCEPT ![u].live = FALSE]
    /\ UNCHANGED <<account, now, serial, guesses, wrong, lastWrong>>

-----------------------------------------------------------------------------
(* A request fails, or its process dies, at any await.                     *)
Abort(r) ==
  /\ req[r].pc # "idle"
  /\ req' = [req EXCEPT ![r] = Idle]
  /\ UNCHANGED <<account, removed, now, serial, history>>

Tick ==
  /\ now < MaxTime
  /\ now' = now + 1
  /\ UNCHANGED <<account, removed, req, serial, history>>

Next ==
  \/ Tick
  \/ \E r \in Requests :
       \/ LoginSucceeds(r) \/ HandleFailedLogin(r)
       \/ SaveUser(r) \/ SoftRemove(r) \/ Abort(r)
       \/ \E u \in Users :
            \/ UpdateOther(r, u) \/ BeginRemove(r, u)
            \/ \E p \in Passwords :
                 \/ LoginRead(r, u, p) \/ ResetPassword(r, u, p)
                 \/ SeedUser(r, u, p)
                 \/ \E active \in BOOLEAN : CreateUser(r, u, p, active)
                 \/ \E current \in Passwords : UpdateProfile(r, u, current, p)
            \/ \E active \in BOOLEAN \cup {None}, p \in Passwords \cup {None} :
                 UpdateUser(r, u, active, p)

Spec == Init /\ [][Next]_vars

-----------------------------------------------------------------------------
(* The rows and requests keep their shape: a request past its first await  *)
(* holds a user and the entity it read.                                    *)
TypeOK ==
  /\ account \in [Users -> Row \cup {None}]
  /\ removed \subseteq {u \in Users : account[u] # None}
  /\ now \in 1 .. MaxTime
  /\ req \in [Requests -> Request]
  /\ \A r \in Requests : req[r].pc # "idle" => req[r].row # None
  /\ serial \in BOOLEAN
  /\ guesses \in [Users -> 0 .. MaxGuesses]
  /\ wrong \in [Users -> 0 .. MaxGuesses]
  /\ lastWrong \in [Users -> 0 .. MaxTime]
  /\ intended \in [Users -> Intent \cup {None}]

(* handleFailedLogin and every save of a stale row: whatever overlaps, a   *)
(* row - stored or in memory - counts no more failures than there were,    *)
(* and a user is locked only after MaxFailed wrong guesses.                *)
NoUnearnedLock ==
  LET earned(row, u) == /\ row.failed <= guesses[u]
                        /\ row.locked # 0 => guesses[u] >= MaxFailed IN
    /\ \A u \in Users : account[u] # None => earned(account[u], u)
    /\ \A r \in Requests :
         req[r].pc # "idle" => earned(req[r].row, req[r].user)

(* login and handleFailedLogin: as long as requests do not overlap,        *)
(* MaxFailed wrong guesses shut the account: until LockTime has passed     *)
(* since the last of them nobody gets to compare another password.         *)
LockoutHolds ==
  serial => \A r \in Requests :
    req[r].pc = "login" =>
      LET u == req[r].user IN
        wrong[u] >= MaxFailed => now >= lastWrong[u] + LockTime

(* save(entity) writes all columns: as long as requests do not overlap,    *)
(* whatever fails in between, the password, is_active and deleted_at of a  *)
(* row are those the last request that set each of them asked for.         *)
RowsAsIntended ==
  serial => \A u \in Users :
    /\ (account[u] = None) = (intended[u] = None)
    /\ account[u] # None =>
         /\ account[u].password = intended[u].password
         /\ account[u].active = intended[u].active
         /\ (u \notin removed) = intended[u].live
=============================================================================
