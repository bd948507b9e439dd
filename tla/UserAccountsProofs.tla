-------------------------- MODULE UserAccountsProofs --------------------------
(***************************************************************************)
(* Proofs about UserAccounts, for any users, passwords, requests, limits   *)
(* and bounds; the last two theorems are about behaviours whose requests   *)
(* do not overlap.                                                         *)
(***************************************************************************)
EXTENDS UserAccounts, TLAPS

USE AccountAssumption, NoRow, NoIntent

-----------------------------------------------------------------------------
(* Type correctness.  TypeOK is not inductive: that wrong stays within its *)
(* bound is due to guesses, and a request that saves a user needs one that *)
(* has a row.                                                              *)

Counted == \A u \in Users : wrong[u] <= guesses[u]

Recorded == \A u \in Users : (account[u] = None) = (intended[u] = None)

OfAUser == \A r \in Requests :
  req[r].pc # "idle" =>
    req[r].user \in Users /\ account[req[r].user] # None

Busy(r) == req[r].pc # "idle"

TypeInv == TypeOK /\ Counted /\ Recorded /\ OfAUser

(* How every handler but creation begins: with a request that has read a   *)
(* live user and put in its entity what it was asked to.                   *)
Begun(u, q) ==
  /\ q \in Request /\ q.user = u /\ q.pc \in {"login", "save", "remove.save"}
  /\ q.row \in Row /\ Live(u)
  /\ "password" \notin q.set => q.row.password = account[u].password
  /\ "active" \notin q.set => q.row.active = account[u].active
  /\ IF "counter" \in q.set THEN q.row.failed = 0 /\ q.row.locked = 0
     ELSE q.row.failed = account[u].failed /\ q.row.locked = account[u].locked
  /\ q.pc = "login" => q.set = {} /\ q.row.locked <= now

Reads(r, u) ==
  \/ UpdateOther(r, u) \/ BeginRemove(r, u)
  \/ \E p \in Passwords :
       \/ LoginRead(r, u, p) \/ ResetPassword(r, u, p) \/ SeedUser(r, u, p)
       \/ \E current \in Passwords : UpdateProfile(r, u, current, p)
  \/ \E active \in BOOLEAN \cup {None}, p \in Passwords \cup {None} :
       UpdateUser(r, u, active, p)

LEMMA RowOf ==
  ASSUME TypeOK, NEW u \in Users, Live(u)
  PROVE  account[u] \in Row
BY DEF TypeOK, Live

LEMMA BeginReads ==
  ASSUME TypeOK, NEW r \in Requests, NEW u \in Users,
         NEW pc \in {"save", "remove.save"}, NEW row,
         NEW set \in SUBSET {"password", "active", "counter"},
         Begin(r, pc, u, row, set), row \in Row,
         "password" \notin set => row.password = account[u].password,
         "active" \notin set => row.active = account[u].active,
         IF "counter" \in set THEN row.failed = 0 /\ row.locked = 0
         ELSE row.failed = account[u].failed /\ row.locked = account[u].locked
  PROVE  \E q : Start(r, u, q) /\ Begun(u, q)
<1> DEFINE q == [Idle EXCEPT !.pc = pc, !.user = u, !.row = row, !.set = set]
<1>1. /\ q \in Request /\ q.pc = pc /\ q.user = u /\ q.row = row /\ q.set = set
  BY DEF Idle, Request
<1>2. Start(r, u, q) /\ Live(u)
  BY DEF Begin, Start
<1> HIDE DEF q
<1>3. Begun(u, q)
  BY <1>1, <1>2 DEF Begun
<1> QED
  BY <1>2, <1>3

LEMMA UpdateReads ==
  ASSUME TypeOK, NEW r \in Requests, NEW u \in Users,
         NEW active \in BOOLEAN \cup {None}, NEW p \in Passwords \cup {None},
         UpdateUser(r, u, active, p)
  PROVE  \E q : Start(r, u, q) /\ Begun(u, q)
<1> DEFINE row == [account[u] EXCEPT
                     !.active = IF active = None THEN @ ELSE active,
                     !.password = IF p = None THEN @ ELSE p]
           set == (IF active = None THEN {} ELSE {"active"})
                    \cup (IF p = None THEN {} ELSE {"password"})
<1>1. Live(u) /\ Begin(r, "save", u, row, set)
  BY DEF UpdateUser
<1>2. account[u] \in Row
  BY <1>1, RowOf
<1>3. /\ row \in Row /\ row.failed = account[u].failed
      /\ row.locked = account[u].locked
      /\ active = None => row.active = account[u].active
      /\ p = None => row.password = account[u].password
  BY <1>2 DEF Row
<1>4. /\ set \in SUBSET {"password", "active", "counter"} /\ "counter" \notin set
      /\ "active" \notin set => active = None
      /\ "password" \notin set => p = None
  OBVIOUS
<1> HIDE DEF row, set
<1> QED
  BY <1>1, <1>3, <1>4, BeginReads

LEMMA LoginReads ==
  ASSUME TypeOK, NEW r \in Requests, NEW u \in Users, NEW p \in Passwords,
         LoginRead(r, u, p)
  PROVE  \E q : Start(r, u, q) /\ Begun(u, q)
<1> DEFINE q == [Idle EXCEPT !.pc = "login", !.user = u, !.row = account[u],
                             !.matches = (p = account[u].password)]
<1>1. /\ Live(u) /\ account[u].locked <= now /\ Start(r, u, q)
  BY DEF LoginRead
<1>2. account[u] \in Row
  BY <1>1, RowOf
<1>3. /\ q \in Request /\ q.pc = "login" /\ q.user = u /\ q.row = account[u]
      /\ q.set = {}
  BY <1>2 DEF Idle, Request
<1> HIDE DEF q
<1>4. Begun(u, q)
  BY <1>1, <1>2, <1>3 DEF Begun
<1> QED
  BY <1>1, <1>4

LEMMA Beginnings ==
  ASSUME TypeOK, NEW r \in Requests, NEW u \in Users, Reads(r, u)
  PROVE  \E q : Start(r, u, q) /\ Begun(u, q)
<1> DEFINE old == account[u]
<1>1. Live(u) /\ old \in Row
  <2>1. Live(u)
    BY DEF Reads, UpdateOther, BeginRemove, LoginRead, ResetPassword, SeedUser,
           UpdateProfile, UpdateUser, Begin, Start
  <2> QED
    BY <2>1, RowOf
<1>2. CASE UpdateOther(r, u)
  <2>1. Begin(r, "save", u, account[u], {})
    BY <1>2 DEF UpdateOther
  <2> QED
    BY <1>1, <2>1, BeginReads
<1>3. CASE BeginRemove(r, u)
  <2> DEFINE row == [old EXCEPT !.active = FALSE]
  <2>1. /\ row \in Row /\ row.failed = old.failed /\ row.locked = old.locked
        /\ row.password = old.password
    BY <1>1 DEF Row
  <2>2. Begin(r, "remove.save", u, row, {"active"})
    BY <1>3 DEF BeginRemove
  <2> HIDE DEF row
  <2> QED
    BY <2>1, <2>2, BeginReads
<1>4. ASSUME NEW p \in Passwords, ResetPassword(r, u, p)
      PROVE  \E q : Start(r, u, q) /\ Begun(u, q)
  <2> DEFINE row == [old EXCEPT !.password = p, !.failed = 0, !.locked = 0]
  <2>1. row \in Row /\ row.failed = 0 /\ row.locked = 0 /\ row.active = old.active
    BY <1>1 DEF Row
  <2>2. Begin(r, "save", u, row, {"password", "counter"})
    BY <1>4 DEF ResetPassword
  <2> HIDE DEF row
  <2> QED
    BY <2>1, <2>2, BeginReads
<1>5. ASSUME NEW p \in Passwords, NEW current, UpdateProfile(r, u, current, p)
      PROVE  \E q : Start(r, u, q) /\ Begun(u, q)
  <2> DEFINE row == [old EXCEPT !.password = p]
  <2>1. /\ row \in Row /\ row.failed = old.failed /\ row.locked = old.locked
        /\ row.active = old.active
    BY <1>1 DEF Row
  <2>2. Begin(r, "save", u, row, {"password"})
    BY <1>5 DEF UpdateProfile
  <2> HIDE DEF row
  <2> QED
    BY <2>1, <2>2, BeginReads
<1>6. ASSUME NEW p \in Passwords, SeedUser(r, u, p)
      PROVE  \E q : Start(r, u, q) /\ Begun(u, q)
  BY <1>6, UpdateReads DEF SeedUser
<1> QED
  BY <1>2, <1>3, <1>4, <1>5, <1>6, LoginReads, UpdateReads DEF Reads

(* The steps, with those that begin taken together.                        *)
LEMMA Steps ==
  ASSUME TypeOK, [Next]_vars
  PROVE  \/ Tick \/ UNCHANGED vars
         \/ \E r \in Requests :
              \/ LoginSucceeds(r) \/ HandleFailedLogin(r)
              \/ SaveUser(r) \/ SoftRemove(r) \/ Abort(r)
              \/ \E u \in Users : \E q : Start(r, u, q) /\ Begun(u, q)
              \/ \E u \in Users, p \in Passwords, active \in BOOLEAN :
                   CreateUser(r, u, p, active)
<1>1. CASE Tick \/ UNCHANGED vars
  BY <1>1
<1>2. ASSUME NEW r \in Requests, NEW u \in Users, Reads(r, u)
      PROVE  \E q : Start(r, u, q) /\ Begun(u, q)
  BY <1>2, Beginnings
<1>3. CASE \E r \in Requests : \/ LoginSucceeds(r) \/ HandleFailedLogin(r)
                               \/ SaveUser(r) \/ SoftRemove(r) \/ Abort(r)
  BY <1>3
<1>4. CASE \E r \in Requests, u \in Users : Reads(r, u)
  BY <1>2, <1>4
<1>5. CASE \E r \in Requests, u \in Users, p \in Passwords, active \in BOOLEAN :
             CreateUser(r, u, p, active)
  BY <1>5
<1> QED
  BY <1>1, <1>3, <1>4, <1>5 DEF Next, Reads

LEMMA WorkType ==
  ASSUME TypeInv, NEW r \in Requests, Busy(r)
  PROVE  /\ req[r] \in Request /\ req[r].user \in Users
         /\ account[req[r].user] \in Row /\ account[req[r].user] # None
         /\ req[r].row \in Row /\ req[r].row # None
         /\ intended[req[r].user] \in Intent
<1>1. /\ req[r] \in Request /\ req[r].user \in Users /\ req[r].row # None
      /\ account[req[r].user] # None
  BY DEF TypeInv, TypeOK, OfAUser, Busy
<1>2. req[r].row \in Row
  BY <1>1 DEF Request
<1>3. account[req[r].user] \in Row
  BY <1>1 DEF TypeInv, TypeOK
<1>4. intended[req[r].user] # None
  BY <1>1 DEF TypeInv, Recorded
<1>5. intended[req[r].user] \in Intent
  BY <1>1, <1>4 DEF TypeInv, TypeOK
<1> QED
  BY <1>1, <1>2, <1>3, <1>5

LEMMA IdleType == Idle \in Request /\ Idle.pc = "idle"
BY DEF Idle, Request

LEMMA Ended ==
  ASSUME TypeInv, NEW r \in Requests, req' = [req EXCEPT ![r] = Idle],
         \A u \in Users : account[u] # None => account'[u] # None
  PROVE  /\ req' \in [Requests -> Request] /\ OfAUser'
         /\ \A x \in Requests : req'[x].pc # "idle" => req'[x].row # None
<1>1. req'[r].pc = "idle" /\ \A x \in Requests : x # r => req'[x] = req[x]
  BY IdleType DEF TypeInv, TypeOK
<1>2. req' \in [Requests -> Request]
  BY IdleType DEF TypeInv, TypeOK
<1>3. /\ \A x \in Requests : req[x].pc # "idle" => req[x].row # None
      /\ OfAUser
  BY DEF TypeInv, TypeOK
<1> QED
  BY <1>1, <1>2, <1>3 DEF OfAUser

LEMMA Written ==
  ASSUME TypeInv, NEW u \in Users, account[u] # None, NEW row \in Row,
         Write(u, row)
  PROVE  /\ account' \in [Users -> Row \cup {None}] /\ account'[u] = row
         /\ \A w \in Users : w # u => account'[w] = account[w]
         /\ \A w \in Users : (account'[w] = None) = (account[w] = None)
         /\ removed' \subseteq {w \in Users : account'[w] # None}
<1>1. account' \in [Users -> Row \cup {None}] /\ account'[u] = row
  BY DEF TypeInv, TypeOK, Write
<1>2. /\ \A w \in Users : w # u => account'[w] = account[w]
      /\ removed' = removed \ {u}
  BY DEF TypeInv, TypeOK, Write
<1>3. removed \subseteq {w \in Users : account[w] # None}
  BY DEF TypeInv, TypeOK
<1> QED
  BY <1>1, <1>2, <1>3

(* handleFailedLogin writes a row like the others.                         *)
LEMMA FailedWrites ==
  ASSUME TypeInv, NEW r \in Requests, HandleFailedLogin(r)
  PROVE  \E row \in Row :
           /\ Write(req[r].user, row)
           /\ row.failed = req[r].row.failed + 1
           /\ row.locked = IF row.failed >= MaxFailed THEN now + LockTime
                           ELSE req[r].row.locked
           /\ row.password = req[r].row.password
           /\ row.active = req[r].row.active
<1> DEFINE old == req[r].row
           locked == IF old.failed + 1 >= MaxFailed THEN now + LockTime
                     ELSE old.locked
           row == [old EXCEPT !.failed = old.failed + 1, !.locked = locked]
<1>1. old \in Row /\ now \in Nat
  BY WorkType DEF HandleFailedLogin, Busy, TypeInv, TypeOK
<1>2. locked \in Nat /\ old.failed + 1 \in Nat
  BY <1>1 DEF Row
<1>3. Write(req[r].user, row)
  BY DEF HandleFailedLogin
<1> HIDE DEF locked
<1>4. /\ row \in Row /\ row.failed = old.failed + 1 /\ row.locked = locked
      /\ row.password = old.password /\ row.active = old.active
  BY <1>1, <1>2 DEF Row
<1> HIDE DEF row
<1> QED
  BY <1>3, <1>4 DEF locked

LEMMA IntendedType ==
  ASSUME TypeInv, NEW r \in Requests, Busy(r)
  PROVE  /\ Intended(r) \in [Users -> Intent \cup {None}]
         /\ \A w \in Users : (Intended(r)[w] = None) = (intended[w] = None)
         /\ \A w \in Users : w # req[r].user => Intended(r)[w] = intended[w]
         /\ LET q == req[r]
                old == intended[q.user]
                new == Intended(r)[q.user] IN
              /\ new.password = IF "password" \in q.set THEN q.row.password
                                ELSE old.password
              /\ new.active = IF "active" \in q.set THEN q.row.active
                              ELSE old.active
              /\ new.live = old.live
<1> DEFINE q == req[r]
           old == intended[q.user]
           password == IF "password" \in q.set THEN q.row.password
                       ELSE old.password
           active == IF "active" \in q.set THEN q.row.active ELSE old.active
           new == [old EXCEPT !.password = password, !.active = active]
<1>1. q.user \in Users /\ q.row \in Row /\ old \in Intent
  BY WorkType
<1>2. password \in Passwords /\ active \in BOOLEAN
  BY <1>1 DEF Row, Intent
<1>5. intended \in [Users -> Intent \cup {None}]
  BY DEF TypeInv, TypeOK
<1>3. Intended(r) = [intended EXCEPT ![q.user] = new]
  BY <1>1, <1>5 DEF Intended
<1> HIDE DEF password, active
<1>4. /\ new \in Intent /\ new.password = password /\ new.active = active
      /\ new.live = old.live
  BY <1>1, <1>2 DEF Intent
<1> HIDE DEF new
<1>6. /\ Intended(r) \in [Users -> Intent \cup {None}]
      /\ Intended(r)[q.user] = new
      /\ \A w \in Users : w # q.user => Intended(r)[w] = intended[w]
  BY <1>1, <1>3, <1>4, <1>5
<1>7. \A w \in Users : (Intended(r)[w] = None) = (intended[w] = None)
  <2>1. new # None /\ old # None
    BY <1>1, <1>4
  <2>2. ASSUME NEW w \in Users
        PROVE  (Intended(r)[w] = None) = (intended[w] = None)
    <3>1. CASE w = q.user
      BY <1>6, <2>1, <3>1
    <3>2. CASE w # q.user
      BY <1>6, <3>2
    <3> QED
      BY <3>1, <3>2
  <2> QED
    BY <2>2
<1> QED
  BY <1>4, <1>6, <1>7 DEF password, active

LEMMA SavedRequests ==
  ASSUME TypeInv, NEW r \in Requests, SaveUser(r),
         \A w \in Users : (account'[w] = None) = (account[w] = None)
  PROVE  /\ req' \in [Requests -> Request] /\ OfAUser'
         /\ \A x \in Requests : req'[x].pc # "idle" => req'[x].row # None
<1>1. CASE req[r].pc = "save"
  <2>1. req' = [req EXCEPT ![r] = Idle]
    BY <1>1 DEF SaveUser
  <2> QED
    BY <2>1, Ended
<1>2. CASE req[r].pc = "remove.save"
  <2> DEFINE q == [req[r] EXCEPT !.pc = "remove.soft"]
  <2>1. req' = [req EXCEPT ![r] = q]
    BY <1>2 DEF SaveUser
  <2>2. req[r] \in Request
    BY DEF TypeInv, TypeOK
  <2>3. q \in Request /\ q.user = req[r].user /\ q.row = req[r].row
    BY <2>2 DEF Request
  <2> HIDE DEF q
  <2>4. /\ req' \in [Requests -> Request] /\ req'[r] = q
        /\ \A x \in Requests : x # r => req'[x] = req[x]
    BY <2>1, <2>3 DEF TypeInv, TypeOK
  <2> QED
    BY <1>2, <2>3, <2>4 DEF TypeInv, TypeOK, OfAUser
<1> QED
  BY <1>1, <1>2 DEF SaveUser

LEMMA Forgotten ==
  ASSUME TypeInv, NEW u, UNCHANGED guesses, wrong' = [wrong EXCEPT ![u] = 0]
  PROVE  wrong' \in [Users -> 0 .. MaxGuesses] /\ Counted'
<1>1. 0 \in 0 .. MaxGuesses /\ wrong \in [Users -> 0 .. MaxGuesses]
  BY DEF TypeInv, TypeOK
<1>2. wrong' \in [Users -> 0 .. MaxGuesses]
  BY <1>1
<1>3. \A w \in Users : wrong'[w] = wrong[w] \/ wrong'[w] = 0
  BY <1>1
<1>4. \A w \in Users : guesses[w] \in Nat /\ wrong[w] <= guesses[w]
  BY DEF TypeInv, TypeOK, Counted
<1> QED
  BY <1>2, <1>3, <1>4 DEF Counted

LEMMA TypeInit == Init => TypeInv
<1> SUFFICES ASSUME Init PROVE TypeInv
  OBVIOUS
<1>1. \A r \in Requests : req[r] = Idle
  BY DEF Init
<1>2. TypeOK
  BY IdleType, <1>1 DEF Init, TypeOK
<1>3. Counted /\ Recorded /\ OfAUser
  BY IdleType, <1>1 DEF Init, Counted, Recorded, OfAUser
<1> QED
  BY <1>2, <1>3 DEF TypeInv

LEMMA TypeStep == TypeInv /\ [Next]_vars => TypeInv'
<1> SUFFICES ASSUME TypeInv, [Next]_vars PROVE TypeInv'
  OBVIOUS
<1>1. CASE UNCHANGED vars
  BY <1>1 DEF TypeInv, TypeOK, Counted, Recorded, OfAUser, vars, history
<1>2. CASE Tick
  <2>1. now' \in 1 .. MaxTime
    BY <1>2 DEF Tick, TypeInv, TypeOK
  <2> QED
    BY <1>2, <2>1 DEF Tick, TypeInv, TypeOK, Counted, Recorded, OfAUser, history
<1>3. ASSUME NEW r \in Requests, NEW u \in Users, NEW q,
             Start(r, u, q), Begun(u, q)
      PROVE  TypeInv'
  <2>1. q \in Request /\ q.row # None /\ q.user = u /\ account[u] # None
    BY <1>3 DEF Begun, Live
  <2>2. /\ req' \in [Requests -> Request] /\ req'[r] = q
        /\ \A x \in Requests : x # r => req'[x] = req[x]
    BY <1>3, <2>1 DEF Start, TypeInv, TypeOK
  <2>3. UNCHANGED <<account, removed, now, serial, guesses, wrong, lastWrong,
                    intended>>
    BY <1>3 DEF Start, history
  <2>4. TypeOK'
    BY <2>1, <2>2, <2>3 DEF TypeInv, TypeOK
  <2> QED
    BY <2>1, <2>2, <2>3, <2>4 DEF TypeInv, Counted, Recorded, OfAUser
<1>4. ASSUME NEW r \in Requests, NEW u \in Users, NEW p \in Passwords,
             NEW active \in BOOLEAN, CreateUser(r, u, p, active)
      PROVE  TypeInv'
  <2> DEFINE row == [password |-> p, failed |-> 0, locked |-> 0,
                     active |-> active]
             asked == [password |-> p, active |-> active, live |-> TRUE]
  <2>1. row \in Row /\ row # None
    BY DEF Row
  <2>2. account' = [account EXCEPT ![u] = row] /\ account[u] = None
    BY <1>4 DEF CreateUser
  <2>3. intended' = [intended EXCEPT ![u] = asked]
    BY <1>4 DEF CreateUser
  <2>4. asked \in Intent
    BY DEF Intent
  <2> HIDE DEF row, asked
  <2>8. asked # None
    BY <2>4
  <2>5. /\ account' \in [Users -> Row \cup {None}]
        /\ \A w \in Users : account[w] # None => account'[w] # None
        /\ removed' \subseteq {w \in Users : account'[w] # None}
    BY <1>4, <2>1, <2>2 DEF TypeInv, TypeOK, CreateUser
  <2>6. intended' \in [Users -> Intent \cup {None}] /\ Recorded'
    BY <2>1, <2>2, <2>3, <2>4, <2>8 DEF TypeInv, TypeOK, Recorded
  <2>7. UNCHANGED <<now, req, serial, guesses, wrong, lastWrong>>
    BY <1>4 DEF CreateUser
  <2> QED
    BY <2>5, <2>6, <2>7 DEF TypeInv, TypeOK, Counted, OfAUser
<1>5. ASSUME NEW r \in Requests, LoginSucceeds(r)
      PROVE  TypeInv'
  <2> DEFINE u == req[r].user
             row == [req[r].row EXCEPT !.failed = 0, !.locked = 0]
  <2>1. Busy(r) /\ Write(u, row) /\ req' = [req EXCEPT ![r] = Idle]
    BY <1>5 DEF LoginSucceeds, Busy
  <2>2. u \in Users /\ account[u] # None /\ row \in Row
    BY <2>1, WorkType DEF Row
  <2> HIDE DEF row
  <2>3. wrong' = [wrong EXCEPT ![u] = 0]
        /\ UNCHANGED <<now, serial, guesses, lastWrong, intended>>
    BY <1>5 DEF LoginSucceeds
  <2>4. wrong' \in [Users -> 0 .. MaxGuesses] /\ Counted'
    BY <2>3, Forgotten DEF TypeInv
  <2> QED
    BY <2>1, <2>2, <2>3, <2>4, Written, Ended DEF TypeInv, TypeOK, Recorded
<1>6. ASSUME NEW r \in Requests, HandleFailedLogin(r)
      PROVE  TypeInv'
  <2> DEFINE u == req[r].user
  <2>1. Busy(r) /\ req' = [req EXCEPT ![r] = Idle] /\ guesses[u] < MaxGuesses
    BY <1>6 DEF HandleFailedLogin, Busy
  <2>2. u \in Users /\ account[u] # None
    BY <2>1, WorkType
  <2>3. PICK row \in Row : Write(u, row)
    BY <1>6, <2>1, FailedWrites
  <2>4. /\ guesses' = [guesses EXCEPT ![u] = @ + 1]
        /\ wrong' = [wrong EXCEPT ![u] = @ + 1]
        /\ lastWrong' = [lastWrong EXCEPT ![u] = now]
        /\ UNCHANGED <<now, serial, intended>>
    BY <1>6 DEF HandleFailedLogin
  <2>5. /\ guesses' \in [Users -> 0 .. MaxGuesses] /\ Counted'
        /\ wrong' \in [Users -> 0 .. MaxGuesses]
    BY <2>1, <2>2, <2>4 DEF TypeInv, TypeOK, Counted
  <2>6. lastWrong' \in [Users -> 0 .. MaxTime]
    BY <2>2, <2>4 DEF TypeInv, TypeOK
  <2> QED
    BY <2>1, <2>2, <2>3, <2>4, <2>5, <2>6, Written, Ended
    DEF TypeInv, TypeOK, Recorded
<1>7. ASSUME NEW r \in Requests, SaveUser(r)
      PROVE  TypeInv'
  <2> DEFINE u == req[r].user
  <2>1. Busy(r) /\ Write(u, req[r].row)
    BY <1>7 DEF SaveUser, Busy
  <2>2. u \in Users /\ account[u] # None /\ req[r].row \in Row
    BY <2>1, WorkType
  <2>3. /\ intended' \in [Users -> Intent \cup {None}]
        /\ \A w \in Users : (intended'[w] = None) = (intended[w] = None)
    BY <1>7, <2>1, IntendedType DEF SaveUser
  <2>4. UNCHANGED <<now, serial, guesses, lastWrong>>
    BY <1>7 DEF SaveUser
  <2>5. wrong' \in [Users -> 0 .. MaxGuesses] /\ Counted'
    BY <1>7, <2>4, Forgotten DEF SaveUser, TypeInv, TypeOK, Counted
  <2>6. \A w \in Users : (account'[w] = None) = (account[w] = None)
    BY <2>1, <2>2, Written
  <2>7. /\ req' \in [Requests -> Request] /\ OfAUser'
        /\ \A x \in Requests : req'[x].pc # "idle" => req'[x].row # None
    BY <1>7, <2>2, <2>6, SavedRequests
  <2> QED
    BY <2>1, <2>2, <2>3, <2>4, <2>5, <2>6, <2>7, Written
    DEF TypeInv, TypeOK, Recorded
<1>8. ASSUME NEW r \in Requests, SoftRemove(r)
      PROVE  TypeInv'
  <2> DEFINE u == req[r].user
  <2>1. Busy(r) /\ req' = [req EXCEPT ![r] = Idle]
    BY <1>8 DEF SoftRemove, Busy
  <2>2. u \in Users /\ account[u] # None /\ intended[u] \in Intent
    BY <2>1, WorkType
  <2>3. /\ intended' = [intended EXCEPT ![u] = [@ EXCEPT !.live = FALSE]]
        /\ removed' = removed \cup {u}
        /\ UNCHANGED <<account, now, serial, guesses, wrong, lastWrong>>
    BY <1>8 DEF SoftRemove
  <2> DEFINE asked == [intended[u] EXCEPT !.live = FALSE]
  <2>4. asked \in Intent
    BY <2>2 DEF Intent
  <2>5. intended' = [intended EXCEPT ![u] = asked]
    BY <2>3
  <2> HIDE DEF asked
  <2>6. intended' \in [Users -> Intent \cup {None}] /\ Recorded'
    <3>1. \A w \in Users : (intended'[w] = None) = (intended[w] = None)
      BY <2>2, <2>4, <2>5 DEF TypeInv, TypeOK
    <3> QED
      BY <2>2, <2>3, <2>4, <2>5, <3>1 DEF TypeInv, TypeOK, Recorded
  <2> QED
    BY <2>1, <2>2, <2>3, <2>6, Ended DEF TypeInv, TypeOK, Counted
<1>9. ASSUME NEW r \in Requests, Abort(r)
      PROVE  TypeInv'
  <2>1. /\ req' = [req EXCEPT ![r] = Idle]
        /\ UNCHANGED <<account, removed, now, serial, guesses, wrong,
                       lastWrong, intended>>
    BY <1>9 DEF Abort, history
  <2> QED
    BY <2>1, Ended DEF TypeInv, TypeOK, Counted, Recorded
<1> QED
  BY <1>1, <1>2, <1>3, <1>4, <1>5, <1>6, <1>7, <1>8, <1>9, Steps DEF TypeInv

(* users: type correctness.                                                *)
THEOREM TypeCorrect == Spec => []TypeOK
<1>1. TypeInv => TypeOK
  BY DEF TypeInv
<1> QED
  BY <1>1, TypeInit, TypeStep, PTL DEF Spec

-----------------------------------------------------------------------------
(* Locks are earned.  The invariant is inductive next to TypeInv: a guess  *)
(* is counted when the failure it stands for is saved.                     *)

Earned(row, n) == row.failed <= n /\ (row.locked # 0 => n >= MaxFailed)

AllEarned ==
  /\ \A u \in Users : account[u] # None => Earned(account[u], guesses[u])
  /\ \A r \in Requests : Busy(r) => Earned(req[r].row, guesses[req[r].user])

LEMMA EndedOne ==
  ASSUME TypeInv, NEW r \in Requests, req' = [req EXCEPT ![r] = Idle]
  PROVE  /\ req'[r].pc = "idle"
         /\ \A x \in Requests : x # r => req'[x] = req[x]
BY IdleType DEF TypeInv, TypeOK

LEMMA SavedOne ==
  ASSUME TypeInv, NEW r \in Requests, SaveUser(r)
  PROVE  /\ req'[r].pc \in {"idle", "remove.soft"}
         /\ \A x \in Requests : x # r => req'[x] = req[x]
<1> DEFINE next == IF req[r].pc = "save" THEN Idle
                   ELSE [req[r] EXCEPT !.pc = "remove.soft"]
<1>1. req' = [req EXCEPT ![r] = next]
  BY DEF SaveUser
<1>2. req \in [Requests -> Request] /\ req[r] \in Request
  BY DEF TypeInv, TypeOK
<1>3. next.pc \in {"idle", "remove.soft"}
  BY <1>2, IdleType DEF Request
<1> HIDE DEF next
<1> QED
  BY <1>1, <1>2, <1>3

(* No other request or row is touched by the write of an earned row.       *)
LEMMA EarnedWrite ==
  ASSUME TypeInv, AllEarned, NEW r \in Requests, Busy(r), NEW row \in Row,
         Write(req[r].user, row), Earned(row, guesses'[req[r].user]),
         \A w \in Users : guesses[w] <= guesses'[w] /\ guesses'[w] \in Nat,
         \A x \in Requests : x # r => req'[x] = req[x],
         req'[r].pc = "idle" \/ /\ req'[r].row = req[r].row
                                /\ req'[r].user = req[r].user
  PROVE  AllEarned'
<1> DEFINE u == req[r].user
<1>1. u \in Users /\ account[u] # None /\ req[r].row \in Row
  BY WorkType
<1>2. /\ account'[u] = row
      /\ \A w \in Users : w # u => account'[w] = account[w]
  BY <1>1, Written
<1>3. ASSUME NEW old \in Row, NEW w \in Users, Earned(old, guesses[w])
      PROVE  Earned(old, guesses'[w])
  <2>1. old.failed \in Nat /\ guesses[w] \in Nat /\ guesses'[w] \in Nat
    BY DEF Row, TypeInv, TypeOK
  <2> QED
    BY <1>3, <2>1 DEF Earned
<1>4. ASSUME NEW w \in Users, account'[w] # None
      PROVE  Earned(account'[w], guesses'[w])
  BY <1>1, <1>2, <1>3, <1>4 DEF AllEarned, TypeInv, TypeOK
<1>5. ASSUME NEW x \in Requests, req'[x].pc # "idle"
      PROVE  Earned(req'[x].row, guesses'[req'[x].user])
  <2>1. Busy(x) /\ req'[x].row = req[x].row /\ req'[x].user = req[x].user
    BY <1>5 DEF Busy
  <2>2. req[x].row \in Row /\ req[x].user \in Users
    BY <2>1, WorkType
  <2>3. Earned(req[x].row, guesses[req[x].user])
    BY <2>1 DEF AllEarned
  <2> QED
    BY <1>3, <2>1, <2>2, <2>3
<1> QED
  BY <1>4, <1>5 DEF AllEarned, Busy

LEMMA EarnedStep == TypeInv /\ AllEarned /\ [Next]_vars => AllEarned'
<1> SUFFICES ASSUME TypeInv, AllEarned, [Next]_vars PROVE AllEarned'
  OBVIOUS
<1>0. \A w \in Users : guesses[w] \in Nat
  BY DEF TypeInv, TypeOK
<1>1. CASE UNCHANGED <<account, req, guesses>>
  BY <1>1 DEF AllEarned, Earned, Busy
<1>2. ASSUME NEW r \in Requests, req' = [req EXCEPT ![r] = Idle],
             UNCHANGED <<account, guesses>>
      PROVE  AllEarned'
  BY <1>2, EndedOne DEF AllEarned, Earned, Busy
<1>3. ASSUME NEW r \in Requests, NEW u \in Users, NEW q,
             Start(r, u, q), Begun(u, q)
      PROVE  AllEarned'
  <2>1. /\ req'[r] = q /\ \A x \in Requests : x # r => req'[x] = req[x]
        /\ UNCHANGED <<account, guesses>>
    BY <1>3 DEF Start, history, TypeInv, TypeOK
  <2>2. account[u] \in Row /\ Earned(account[u], guesses[u])
    BY <1>3, RowOf DEF Begun, Live, TypeInv, AllEarned
  <2>3. q.user = u /\ Earned(q.row, guesses[u])
    BY <1>0, <1>3, <2>2 DEF Begun, Earned
  <2> QED
    BY <2>1, <2>3 DEF AllEarned, Earned, Busy
<1>4. ASSUME NEW r \in Requests, NEW u \in Users, NEW p \in Passwords,
             NEW active \in BOOLEAN, CreateUser(r, u, p, active)
      PROVE  AllEarned'
  <2> DEFINE row == [password |-> p, failed |-> 0, locked |-> 0,
                     active |-> active]
  <2>1. account' = [account EXCEPT ![u] = row] /\ UNCHANGED <<req, guesses>>
    BY <1>4 DEF CreateUser
  <2>2. row.failed = 0 /\ row.locked = 0
    OBVIOUS
  <2> HIDE DEF row
  <2>3. /\ account'[u] = row
        /\ \A w \in Users : w # u => account'[w] = account[w]
    BY <2>1 DEF TypeInv, TypeOK
  <2>4. Earned(row, guesses[u])
    BY <1>0, <2>2 DEF Earned
  <2> QED
    BY <2>1, <2>3, <2>4 DEF AllEarned, Earned, Busy
<1>5. ASSUME NEW r \in Requests, LoginSucceeds(r)
      PROVE  AllEarned'
  <2> DEFINE u == req[r].user
             row == [req[r].row EXCEPT !.failed = 0, !.locked = 0]
  <2>1. /\ Busy(r) /\ Write(u, row) /\ req' = [req EXCEPT ![r] = Idle]
        /\ UNCHANGED guesses
    BY <1>5 DEF LoginSucceeds, Busy
  <2>2. u \in Users /\ row \in Row /\ row.failed = 0 /\ row.locked = 0
    BY <2>1, WorkType DEF Row
  <2> HIDE DEF row
  <2>3. Earned(row, guesses'[u])
    BY <1>0, <2>1, <2>2 DEF Earned
  <2> QED
    <3>1. \A w \in Users : guesses[w] <= guesses'[w] /\ guesses'[w] \in Nat
      BY <1>0, <2>1
    <3> HIDE DEF u
    <3> QED
      BY <2>1, <2>2, <2>3, <3>1, EndedOne, EarnedWrite DEF u
<1>6. ASSUME NEW r \in Requests, HandleFailedLogin(r)
      PROVE  AllEarned'
  <2> DEFINE u == req[r].user
             old == req[r].row
  <2>1. Busy(r) /\ req' = [req EXCEPT ![r] = Idle]
    BY <1>6 DEF HandleFailedLogin, Busy
  <2>2. u \in Users /\ old \in Row /\ Earned(old, guesses[u])
    BY <2>1, WorkType DEF AllEarned
  <2>3. PICK row \in Row :
          /\ Write(u, row)
          /\ row.failed = old.failed + 1
          /\ row.locked = IF row.failed >= MaxFailed THEN now + LockTime
                          ELSE old.locked
    BY <1>6, FailedWrites
  <2>4. /\ guesses'[u] = guesses[u] + 1
        /\ \A w \in Users : guesses'[w] \in Nat /\ guesses[w] <= guesses'[w]
    BY <1>0, <1>6, <2>2 DEF HandleFailedLogin, TypeInv, TypeOK
  <2>5. Earned(row, guesses'[u])
    <3>1. old.failed \in Nat /\ old.failed <= guesses[u] /\ guesses[u] \in Nat
      BY <1>0, <2>2 DEF Earned, Row
    <3>2. row.failed <= guesses'[u]
      BY <2>3, <2>4, <3>1
    <3>3. ASSUME row.locked # 0 PROVE guesses'[u] >= MaxFailed
      BY <2>2, <2>3, <2>4, <3>1, <3>2, <3>3 DEF Earned
    <3> QED
      BY <3>2, <3>3 DEF Earned
  <2> QED
    BY <2>1, <2>3, <2>4, <2>5, EndedOne, EarnedWrite
<1>7. ASSUME NEW r \in Requests, SaveUser(r)
      PROVE  AllEarned'
  <2>1. Busy(r) /\ Write(req[r].user, req[r].row) /\ UNCHANGED guesses
    BY <1>7 DEF SaveUser, Busy
  <2>2. req[r] \in Request /\ req[r].row \in Row
    BY <2>1, WorkType
  <2>3. Earned(req[r].row, guesses'[req[r].user])
    BY <2>1 DEF AllEarned
  <2>4. req'[r].pc = "idle" \/ /\ req'[r].row = req[r].row
                               /\ req'[r].user = req[r].user
    BY <1>7, <2>2, IdleType DEF SaveUser, TypeInv, TypeOK, Request
  <2>5. \A x \in Requests : x # r => req'[x] = req[x]
    BY <1>7, SavedOne
  <2>6. \A w \in Users : guesses[w] <= guesses'[w] /\ guesses'[w] \in Nat
    BY <1>0, <2>1
  <2> QED
    BY <2>1, <2>2, <2>3, <2>4, <2>5, <2>6, EarnedWrite
<1>8. ASSUME NEW r \in Requests, SoftRemove(r) \/ Abort(r)
      PROVE  req' = [req EXCEPT ![r] = Idle] /\ UNCHANGED <<account, guesses>>
  BY <1>8 DEF SoftRemove, Abort, history
<1>9. ASSUME Tick \/ UNCHANGED vars PROVE UNCHANGED <<account, req, guesses>>
  BY <1>9 DEF Tick, vars, history
<1> QED
  BY <1>1, <1>2, <1>3, <1>4, <1>5, <1>6, <1>7, <1>8, <1>9, Steps DEF TypeInv

(* handleFailedLogin: however saves of stale rows overlap, no user is      *)
(* locked with fewer than MaxFailed wrong guesses.                         *)
THEOREM LocksEarned == Spec => []NoUnearnedLock
<1>1. Init => AllEarned
  BY IdleType DEF Init, AllEarned, Busy
<1>2. AllEarned => NoUnearnedLock
  BY DEF AllEarned, Earned, Busy, NoUnearnedLock
<1> QED
  BY <1>1, <1>2, TypeInit, TypeStep, EarnedStep, PTL DEF Spec

-----------------------------------------------------------------------------
(* Requests that do not overlap: at most one is in progress, and what it   *)
(* read is still what the row says.                                        *)

Alone == \A r, s \in Requests : Busy(r) /\ Busy(s) => r = s

(* The columns of the lock are what the history asks for.                  *)
LockRecorded(u) ==
  IF account[u] = None THEN wrong[u] = 0
  ELSE /\ account[u].failed = wrong[u]
       /\ wrong[u] >= MaxFailed => account[u].locked = lastWrong[u] + LockTime

(* What a request that is going to save row sets, and leaves.              *)
Current(r) ==
  LET q == req[r]
      now_ == account[q.user] IN
    /\ "password" \notin q.set => q.row.password = now_.password
    /\ "active" \notin q.set => q.row.active = now_.active
    /\ IF "counter" \in q.set THEN q.row.failed = 0 /\ q.row.locked = 0
       ELSE q.row.failed = now_.failed /\ q.row.locked = now_.locked

Follows(r) ==
  /\ req[r].pc \in {"login", "save", "remove.save"} =>
       Current(r) /\ req[r].user \notin removed
  /\ req[r].pc = "login" => req[r].set = {} /\ req[r].row.locked <= now

SerialInv ==
  serial => /\ Alone
            /\ \A u \in Users : LockRecorded(u)
            /\ \A r \in Requests : Follows(r)

LEMMA SerialInit == Init => SerialInv
<1> SUFFICES ASSUME Init PROVE SerialInv
  OBVIOUS
<1>1. /\ \A r \in Requests : req[r].pc = "idle"
      /\ \A u \in Users : account[u] = None /\ wrong[u] = 0
  BY IdleType DEF Init
<1> QED
  BY <1>1 DEF SerialInv, Alone, Busy, LockRecorded, Follows

(* Where requests do not overlap, a step of a request in progress that     *)
(* ends it, or leaves it its last write, leaves none with a row to save.   *)
LEMMA NoneLeft ==
  ASSUME TypeInv, SerialInv, serial, NEW r \in Requests, Busy(r),
         req'[r].pc \in {"idle", "remove.soft"},
         \A x \in Requests : x # r => req'[x] = req[x]
  PROVE  Alone' /\ \A x \in Requests : Follows(x)'
<1>1. \A x \in Requests : x # r => req[x].pc = "idle"
  BY DEF SerialInv, Alone, Busy
<1>2. \A x \in Requests : req'[x].pc \in {"idle", "remove.soft"}
  BY <1>1
<1> QED
  BY <1>1, <1>2 DEF Alone, Busy, Follows

LEMMA SerialKept ==
  ASSUME TypeInv, [Next]_vars
  PROVE  serial' = serial
BY Steps DEF TypeInv, vars, Tick, LoginSucceeds, HandleFailedLogin, SaveUser,
             SoftRemove, Abort, Start, CreateUser

LEMMA SerialStep == TypeInv /\ SerialInv /\ [Next]_vars => SerialInv'
<1> SUFFICES ASSUME TypeInv, SerialInv, [Next]_vars, serial' PROVE SerialInv'
  BY DEF SerialInv
<1>0. /\ serial
      /\ Alone /\ \A u \in Users : LockRecorded(u)
      /\ \A x \in Requests : Follows(x)
  <2>1. serial
    BY SerialKept
  <2> QED
    BY <2>1 DEF SerialInv
<1>1. CASE UNCHANGED vars
  BY <1>0, <1>1
  DEF SerialInv, Alone, Busy, LockRecorded, Follows, Current, vars, history
<1>2. CASE Tick
  <2>1. /\ now' = now + 1 /\ now \in Nat
        /\ UNCHANGED <<account, removed, req, wrong, lastWrong>>
    BY <1>2 DEF Tick, history, TypeInv, TypeOK
  <2>2. Alone' /\ \A u \in Users : LockRecorded(u)'
    BY <1>0, <2>1 DEF Alone, Busy, LockRecorded
  <2>3. ASSUME NEW x \in Requests PROVE Follows(x)'
    <3>1. req[x].pc = "login" => req[x].row.locked \in Nat
      BY WorkType DEF Busy, Row
    <3> QED
      BY <1>0, <2>1, <3>1 DEF Follows, Current
  <2> QED
    BY <2>2, <2>3 DEF SerialInv
<1>3. ASSUME NEW r \in Requests, NEW u \in Users, NEW q,
             Start(r, u, q), Begun(u, q)
      PROVE  SerialInv'
  <2>1. /\ req'[r] = q /\ \A x \in Requests : x # r => req'[x].pc = "idle"
        /\ UNCHANGED <<account, removed, now, wrong, lastWrong>>
    BY <1>0, <1>3 DEF Start, history, TypeInv, TypeOK
  <2>2. Alone' /\ \A w \in Users : LockRecorded(w)'
    BY <1>0, <2>1 DEF Alone, Busy, LockRecorded
  <2>3. Follows(r)'
    BY <1>3, <2>1 DEF Begun, Follows, Current, Live
  <2>4. ASSUME NEW x \in Requests, x # r PROVE Follows(x)'
    BY <2>1, <2>4 DEF Follows
  <2> QED
    BY <2>2, <2>3, <2>4 DEF SerialInv
<1>4. ASSUME NEW r \in Requests, NEW u \in Users, NEW p \in Passwords,
             NEW active \in BOOLEAN, CreateUser(r, u, p, active)
      PROVE  SerialInv'
  <2> DEFINE row == [password |-> p, failed |-> 0, locked |-> 0,
                     active |-> active]
  <2>1. /\ \A x \in Requests : req'[x].pc = "idle"
        /\ account' = [account EXCEPT ![u] = row] /\ account[u] = None
        /\ UNCHANGED <<wrong, lastWrong>>
    BY <1>0, <1>4 DEF CreateUser
  <2>2. row.failed = 0
    OBVIOUS
  <2> HIDE DEF row
  <2>3. /\ account'[u] = row /\ wrong[u] = 0
        /\ \A w \in Users : w # u => account'[w] = account[w]
    BY <1>0, <2>1 DEF TypeInv, TypeOK, LockRecorded
  <2>4. row # None
    BY DEF row, Row
  <2>5. \A w \in Users : LockRecorded(w)'
    BY <1>0, <2>1, <2>2, <2>3, <2>4 DEF LockRecorded
  <2> QED
    BY <2>1, <2>5 DEF SerialInv, Alone, Busy, Follows
<1>5. ASSUME NEW r \in Requests, LoginSucceeds(r)
      PROVE  SerialInv'
  <2> DEFINE u == req[r].user
             row == [req[r].row EXCEPT !.failed = 0, !.locked = 0]
  <2>1. Busy(r) /\ Write(u, row) /\ req' = [req EXCEPT ![r] = Idle]
    BY <1>5 DEF LoginSucceeds, Busy
  <2>2. u \in Users /\ account[u] # None /\ row \in Row /\ row.failed = 0
    BY <2>1, WorkType DEF Row
  <2> HIDE DEF row
  <2>3. /\ wrong'[u] = 0 /\ UNCHANGED lastWrong
        /\ \A w \in Users : w # u => wrong'[w] = wrong[w]
    BY <1>5, <2>2 DEF LoginSucceeds, TypeInv, TypeOK
  <2>4. \A w \in Users : LockRecorded(w)'
    BY <1>0, <2>1, <2>2, <2>3, Written DEF LockRecorded
  <2> QED
    BY <1>0, <2>1, <2>4, EndedOne, NoneLeft DEF SerialInv
<1>6. ASSUME NEW r \in Requests, HandleFailedLogin(r)
      PROVE  SerialInv'
  <2> DEFINE u == req[r].user
  <2>1. Busy(r) /\ req' = [req EXCEPT ![r] = Idle]
    BY <1>6 DEF HandleFailedLogin, Busy
  <2>2. u \in Users /\ account[u] # None
    BY <2>1, WorkType
  <2>3. PICK row \in Row :
          /\ Write(u, row)
          /\ row.failed = req[r].row.failed + 1
          /\ row.locked = IF row.failed >= MaxFailed THEN now + LockTime
                          ELSE req[r].row.locked
    BY <1>6, FailedWrites
  <2>4. /\ wrong'[u] = wrong[u] + 1 /\ lastWrong'[u] = now
        /\ \A w \in Users : w # u => wrong'[w] = wrong[w]
                                     /\ lastWrong'[w] = lastWrong[w]
    BY <1>6, <2>2 DEF HandleFailedLogin, TypeInv, TypeOK
  <2>5. req[r].row.failed = wrong[u]
    BY <1>0, <1>6, <2>2
    DEF HandleFailedLogin, Follows, Current, LockRecorded
  <2>6. \A w \in Users : LockRecorded(w)'
    BY <1>0, <2>2, <2>3, <2>4, <2>5, Written DEF LockRecorded
  <2> QED
    BY <1>0, <2>1, <2>6, EndedOne, NoneLeft DEF SerialInv
<1>7. ASSUME NEW r \in Requests, SaveUser(r)
      PROVE  SerialInv'
  <2> DEFINE u == req[r].user
             row == req[r].row
  <2>1. Busy(r) /\ Write(u, row) /\ UNCHANGED lastWrong
    BY <1>7 DEF SaveUser, Busy
  <2>2. u \in Users /\ account[u] # None /\ row \in Row
    BY <2>1, WorkType
  <2>3. Current(r)
    BY <1>0, <1>7 DEF SaveUser, Follows
  <2>4. /\ \A w \in Users : w # u => wrong'[w] = wrong[w]
        /\ wrong'[u] = IF "counter" \in req[r].set THEN 0 ELSE wrong[u]
    BY <1>7, <2>2 DEF SaveUser, TypeInv, TypeOK
  <2>5. \A w \in Users : w = u => LockRecorded(w)'
    BY <1>0, <2>1, <2>2, <2>3, <2>4, Written DEF LockRecorded, Current
  <2>6. \A w \in Users : LockRecorded(w)'
    BY <1>0, <2>1, <2>2, <2>4, <2>5, Written DEF LockRecorded
  <2> QED
    BY <1>0, <1>7, <2>1, <2>6, SavedOne, NoneLeft DEF SerialInv
<1>8. ASSUME NEW r \in Requests, SoftRemove(r) \/ Abort(r)
      PROVE  SerialInv'
  <2>1. /\ Busy(r) /\ req' = [req EXCEPT ![r] = Idle]
        /\ UNCHANGED <<account, wrong, lastWrong>>
    BY <1>8 DEF SoftRemove, Abort, Busy, history
  <2>2. \A w \in Users : LockRecorded(w)'
    BY <1>0, <2>1 DEF LockRecorded
  <2> QED
    BY <1>0, <2>1, <2>2, EndedOne, NoneLeft DEF SerialInv
<1> QED
  BY <1>1, <1>2, <1>3, <1>4, <1>5, <1>6, <1>7, <1>8, Steps DEF TypeInv

(* login, handleFailedLogin: as long as requests do not overlap, MaxFailed *)
(* wrong guesses shut the account for LockTime.                            *)
THEOREM LockoutKept == Spec => []LockoutHolds
<1>1. TypeInv /\ SerialInv => LockoutHolds
  <2> SUFFICES ASSUME TypeInv, SerialInv, serial, NEW r \in Requests,
                      req[r].pc = "login", wrong[req[r].user] >= MaxFailed
               PROVE  now >= lastWrong[req[r].user] + LockTime
    BY DEF LockoutHolds
  <2> DEFINE u == req[r].user
  <2>1. u \in Users /\ account[u] # None /\ req[r].row \in Row
    BY WorkType DEF Busy
  <2>2. /\ Current(r) /\ LockRecorded(u)
        /\ req[r].set = {} /\ req[r].row.locked <= now
    BY <2>1 DEF SerialInv, Follows
  <2>3. req[r].row.locked = lastWrong[u] + LockTime
    BY <2>1, <2>2 DEF Current, LockRecorded
  <2>4. lastWrong[u] + LockTime \in Nat /\ now \in Nat
    BY <2>1 DEF TypeInv, TypeOK
  <2> QED
    BY <2>2, <2>3, <2>4
<1> QED
  BY <1>1, TypeInit, TypeStep, SerialInit, SerialStep, PTL DEF Spec

-----------------------------------------------------------------------------
(* The columns that were asked for.                                        *)

LEMMA IntendedStep ==
  TypeInv /\ SerialInv /\ RowsAsIntended /\ [Next]_vars => RowsAsIntended'
<1> DEFINE Kept(u) ==
      account[u] # None =>
        /\ account[u].password = intended[u].password
        /\ account[u].active = intended[u].active
        /\ (u \notin removed) = intended[u].live
<1> SUFFICES ASSUME TypeInv, TypeInv', SerialInv, RowsAsIntended, serial',
                    [Next]_vars
             PROVE  \A u \in Users : Kept(u)'
  BY TypeStep DEF RowsAsIntended, TypeInv, Recorded
<1>0. /\ serial /\ \A u \in Users : Kept(u)
      /\ Alone /\ \A x \in Requests : Follows(x)
  <2>1. serial
    BY SerialKept
  <2> QED
    BY <2>1 DEF SerialInv, RowsAsIntended
<1>1. CASE UNCHANGED <<account, removed, intended>>
  BY <1>0, <1>1
<1>2. ASSUME NEW r \in Requests, NEW u \in Users, NEW p \in Passwords,
             NEW active \in BOOLEAN, CreateUser(r, u, p, active)
      PROVE  \A w \in Users : Kept(w)'
  <2> DEFINE row == [password |-> p, failed |-> 0, locked |-> 0,
                     active |-> active]
             asked == [password |-> p, active |-> active, live |-> TRUE]
  <2>1. /\ account' = [account EXCEPT ![u] = row] /\ account[u] = None
        /\ intended' = [intended EXCEPT ![u] = asked] /\ UNCHANGED removed
    BY <1>2 DEF CreateUser
  <2>2. /\ row.password = asked.password /\ row.active = asked.active
        /\ asked.live = TRUE
    OBVIOUS
  <2> HIDE DEF row, asked
  <2>3. /\ account'[u] = row /\ intended'[u] = asked /\ u \notin removed'
        /\ \A w \in Users : w # u => account'[w] = account[w]
                                     /\ intended'[w] = intended[w]
    BY <2>1 DEF TypeInv, TypeOK
  <2> QED
    <3>1. Kept(u)'
      BY <2>1, <2>2, <2>3
    <3>2. ASSUME NEW w \in Users, w # u PROVE Kept(w)'
      BY <1>0, <2>1, <2>3, <3>2
    <3> HIDE DEF Kept
    <3> QED
      BY <3>1, <3>2
<1>3. ASSUME NEW r \in Requests, NEW row \in Row, req[r].pc = "login",
             Write(req[r].user, row), UNCHANGED intended,
             row.password = req[r].row.password,
             row.active = req[r].row.active
      PROVE  \A w \in Users : Kept(w)'
  <2> DEFINE u == req[r].user
  <2>1. /\ u \in Users /\ account[u] # None /\ req[r].row \in Row
        /\ intended[u] \in Intent
    BY <1>3, WorkType DEF Busy
  <2>2. /\ row.password = account[u].password
        /\ row.active = account[u].active
        /\ u \notin removed
    BY <1>0, <1>3 DEF Follows, Current
  <2>3. /\ account'[u] = row /\ removed' = removed
        /\ \A w \in Users : w # u => account'[w] = account[w]
    <3>1. removed' = removed
      BY <1>3, <2>2 DEF Write
    <3> QED
      BY <1>3, <2>1, <3>1, Written
  <2> QED
    BY <1>0, <1>3, <2>1, <2>2, <2>3
<1>4. ASSUME NEW r \in Requests, LoginSucceeds(r)
      PROVE  \A w \in Users : Kept(w)'
  <2> DEFINE row == [req[r].row EXCEPT !.failed = 0, !.locked = 0]
  <2>1. req[r].row \in Row
    BY <1>4, WorkType DEF LoginSucceeds, Busy
  <2>2. /\ row \in Row /\ row.password = req[r].row.password
        /\ row.active = req[r].row.active
    BY <2>1 DEF Row
  <2>3. /\ req[r].pc = "login" /\ Write(req[r].user, row)
        /\ UNCHANGED intended
    BY <1>4 DEF LoginSucceeds
  <2> HIDE DEF row
  <2> QED
    BY <1>3, <2>2, <2>3
<1>5. ASSUME NEW r \in Requests, HandleFailedLogin(r)
      PROVE  \A w \in Users : Kept(w)'
  <2>1. req[r].pc = "login" /\ UNCHANGED intended
    BY <1>5 DEF HandleFailedLogin
  <2> QED
    BY <1>3, <1>5, <2>1, FailedWrites
<1>6. ASSUME NEW r \in Requests, SaveUser(r)
      PROVE  \A w \in Users : Kept(w)'
  <2> DEFINE u == req[r].user
             row == req[r].row
  <2>1. Busy(r) /\ Write(u, row) /\ intended' = Intended(r)
    BY <1>6 DEF SaveUser, Busy
  <2>2. /\ u \in Users /\ account[u] # None /\ row \in Row
        /\ intended[u] \in Intent
    BY <2>1, WorkType
  <2>3. Current(r) /\ u \notin removed
    BY <1>0, <1>6 DEF SaveUser, Follows
  <2>4. /\ account'[u] = row /\ removed' = removed
        /\ \A w \in Users : w # u => account'[w] = account[w]
    <3>1. removed' = removed
      BY <2>1, <2>3 DEF Write
    <3> QED
      BY <2>1, <2>2, <3>1, Written
  <2>5. /\ intended'[u].password = IF "password" \in req[r].set
                                   THEN row.password
                                   ELSE intended[u].password
        /\ intended'[u].active = IF "active" \in req[r].set THEN row.active
                                 ELSE intended[u].active
        /\ intended'[u].live = intended[u].live
        /\ \A w \in Users : w # u => intended'[w] = intended[w]
    BY <2>1, IntendedType
  <2>6. \A w \in Users : w = u => Kept(w)'
    BY <1>0, <2>2, <2>3, <2>4, <2>5 DEF Current
  <2> QED
    <3>1. ASSUME NEW w \in Users, w # u PROVE Kept(w)'
      BY <1>0, <2>4, <2>5, <3>1
    <3> HIDE DEF Kept
    <3> QED
      BY <2>6, <3>1
<1>7. ASSUME NEW r \in Requests, SoftRemove(r)
      PROVE  \A w \in Users : Kept(w)'
  <2> DEFINE u == req[r].user
             asked == [intended[u] EXCEPT !.live = FALSE]
  <2>1. u \in Users /\ account[u] # None /\ intended[u] \in Intent
    BY <1>7, WorkType DEF SoftRemove, Busy
  <2>2. /\ UNCHANGED account /\ removed' = removed \cup {u}
        /\ intended' = [intended EXCEPT ![u] = asked]
    BY <1>7 DEF SoftRemove
  <2>3. /\ asked.password = intended[u].password
        /\ asked.active = intended[u].active /\ asked.live = FALSE
    BY <2>1 DEF Intent
  <2> HIDE DEF asked
  <2>4. /\ intended'[u] = asked
        /\ \A w \in Users : w # u => intended'[w] = intended[w]
    BY <2>1, <2>2 DEF TypeInv, TypeOK
  <2>5. ASSUME NEW w \in Users, w # u PROVE Kept(w)'
    BY <1>0, <2>2, <2>4, <2>5
  <2>6. ASSUME NEW w \in Users, w = u PROVE Kept(w)'
    BY <1>0, <2>1, <2>2, <2>3, <2>4, <2>6
  <2> HIDE DEF Kept
  <2> QED
    BY <2>5, <2>6
<1>8. ASSUME Tick \/ UNCHANGED vars \/ \E r \in Requests : Abort(r)
      PROVE  UNCHANGED <<account, removed, intended>>
  BY <1>8 DEF Tick, Abort, vars, history
<1>9. ASSUME NEW r \in Requests, NEW u, NEW q, Start(r, u, q)
      PROVE  UNCHANGED <<account, removed, intended>>
  BY <1>9 DEF Start, history
<1> HIDE DEF Kept
<1> QED
  BY <1>1, <1>2, <1>4, <1>5, <1>6, <1>7, <1>8, <1>9, Steps DEF TypeInv

(* save(entity) of users: as long as requests do not overlap, the columns  *)
(* of a row are those the last request that set each of them asked for.    *)
THEOREM RowsAsAsked == Spec => []RowsAsIntended
<1>1. Init => RowsAsIntended
  BY DEF Init, RowsAsIntended
<1> QED
  BY <1>1, TypeInit, TypeStep, SerialInit, SerialStep, IntendedStep, PTL
  DEF Spec
=============================================================================
