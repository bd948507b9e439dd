------------------------- MODULE UserSessionsProofs -------------------------
(***************************************************************************)
(* Proofs about UserSessions, for any users, sessions, requests and        *)
(* bounds.                                                                 *)
(***************************************************************************)
EXTENDS UserSessions, TLAPS

USE BoundsAssumption, NoneAssumption

-----------------------------------------------------------------------------
(* Type correctness.                                                       *)

LEMMA RevokeWhereType ==
  ASSUME TypeOK, NEW S, RevokeWhere(S)
  PROVE  sessions' \in [SessionIds -> Row \cup {None}]
<1>1. \A s \in SessionIds : sessions[s] # None =>
        [sessions[s] EXCEPT !.revoked = TRUE] \in Row
  BY DEF TypeOK, Row
<1> QED
  BY <1>1 DEF TypeOK, RevokeWhere

LEMMA SaveType ==
  ASSUME TypeOK, NEW s \in SessionIds, NEW row \in Row, Save(s, row)
  PROVE  /\ sessions' \in [SessionIds -> Row \cup {None}]
         /\ peak' \in [SessionIds -> Versions]
<1>1. row.version \in Versions
  BY DEF Row
<1> QED
  BY <1>1 DEF TypeOK, Save

(* A step replaces the state of one request by another of the right shape. *)
LEMMA ReqType ==
  ASSUME TypeOK, NEW r \in Requests, NEW q, q \in Request, Equipped(q),
         req' = [req EXCEPT ![r] = q]
  PROVE  /\ req' \in [Requests -> Request]
         /\ \A x \in Requests : Equipped(req'[x])
BY DEF TypeOK

LEMMA IdleType ==
  /\ Idle \in Request /\ Equipped(Idle)
  /\ Idle.pc = "idle" /\ Idle.row = None /\ Idle.token = None
BY DEF Idle, Request, Equipped, PCs

(* The shapes of the steps that touch only a request's own state.          *)
LEMMA MoveType ==
  ASSUME TypeOK, NEW r \in Requests, NEW from \in PCs, NEW to \in PCs,
         Move(r, from, to), Equipped([req[r] EXCEPT !.pc = to])
  PROVE  /\ req' \in [Requests -> Request]
         /\ \A x \in Requests : Equipped(req'[x])
<1> DEFINE q == [req[r] EXCEPT !.pc = to]
<1>1. q \in Request /\ req' = [req EXCEPT ![r] = q]
  BY DEF TypeOK, Move, Request
<1> QED
  BY <1>1, ReqType

LEMMA FinishType ==
  ASSUME TypeOK, NEW r \in Requests, NEW from, Finish(r, from)
  PROVE  /\ req' \in [Requests -> Request]
         /\ \A x \in Requests : Equipped(req'[x])
BY IdleType, ReqType DEF Finish

(* A request that drops its session object is still a request.             *)
LEMMA ReleaseType ==
  ASSUME NEW p \in Request, NEW to \in PCs
  PROVE  LET q == [p EXCEPT !.pc = to, !.row = None] IN
           q \in Request /\ q.pc = to /\ q.token = p.token
BY DEF Request

(* The invariant is kept by every step, one action at a time.              *)
LEMMA TypeStep == TypeOK /\ [Next]_vars => TypeOK'
<1> SUFFICES ASSUME TypeOK, [Next]_vars PROVE TypeOK'
  OBVIOUS
<1> USE DEF TypeOK
<1>1. ASSUME NEW r \in Requests, NEW u \in Users,
             UserRead(r, u) \/ ResetPassword(r, u) \/ Login(r, u)
               \/ RemoveUser(r, u)
      PROVE  TypeOK'
  <2>1. Staff(u) \in Token /\ Staff(u) # None
    BY DEF Staff, Token, Versions, Times
  <2>2. PICK q : /\ req' = [req EXCEPT ![r] = q]
                 /\ q.token = Staff(u) /\ q.row = None
                 /\ q.pc \in {"user.save", "user.revoke", "reset.user",
                              "login.user", "remove.revoke"}
                 /\ q \in Request
    <3>1. ASSUME NEW pc \in PCs, NEW on \in {{}, {u}, {u} \cap active},
                 NEW q, q = [Idle EXCEPT !.pc = pc, !.on = on,
                                         !.token = Staff(u)]
          PROVE  q \in Request /\ q.pc = pc /\ q.token = Staff(u) /\ q.row = None
      BY <2>1, <3>1, IdleType DEF Request
    <3>2. ASSUME NEW q, q = [Idle EXCEPT !.pc = "remove.revoke",
                                         !.token = Staff(u)]
          PROVE  /\ q \in Request /\ q.pc = "remove.revoke"
                 /\ q.token = Staff(u) /\ q.row = None
      BY <2>1, <3>2, IdleType DEF Request, PCs
    <3> QED
      BY <1>1, <3>1, <3>2 DEF UserRead, ResetPassword, Login, RemoveUser, PCs
  <2>3. Equipped(q)
    BY <2>1, <2>2 DEF Equipped
  <2>4. /\ req' \in [Requests -> Request]
        /\ \A x \in Requests : Equipped(req'[x])
    BY <2>2, <2>3, ReqType
  <2> QED
    BY <1>1, <2>4 DEF UserRead, ResetPassword, Login, RemoveUser
<1>2. ASSUME NEW r \in Requests,
             ResetRevoke(r) \/ HandleRefreshTokenReuse(r)
                \/ LogoutCurrent(r) \/ LogoutAll(r)
                \/ \E s \in SessionIds : RevokeSpecificSession(r, s)
      PROVE  TypeOK'
  <2>1. PICK S, pc : RevokeWhere(S) /\ Finish(r, pc)
    BY <1>2 DEF ResetRevoke, HandleRefreshTokenReuse, LogoutCurrent, LogoutAll,
                RevokeSpecificSession
  <2>2. sessions' \in [SessionIds -> Row \cup {None}]
    BY <2>1, RevokeWhereType
  <2> QED
    BY <1>2, <2>1, <2>2, FinishType DEF ResetRevoke, HandleRefreshTokenReuse,
       LogoutCurrent, LogoutAll, RevokeSpecificSession
<1>3. ASSUME NEW r \in Requests, UserRevoke(r) PROVE TypeOK'
  <2>1. sessions' \in [SessionIds -> Row \cup {None}]
    BY <1>3, RevokeWhereType DEF UserRevoke
  <2>2. ASSUME NEW from \in {"user.revoke", "remove.revoke"},
               NEW to \in {"user.save", "remove.user"}, Move(r, from, to)
        PROVE  /\ req' \in [Requests -> Request]
               /\ \A x \in Requests : Equipped(req'[x])
    <3>1. Equipped([req[r] EXCEPT !.pc = to])
      BY <2>2 DEF Move, Equipped, Request
    <3>2. from \in PCs /\ to \in PCs
      BY DEF PCs
    <3> QED
      BY ONLY <1>3, <2>2, <3>1, <3>2, TypeOK, MoveType
  <2> QED
    BY <1>3, <2>1, <2>2 DEF UserRevoke
<1>4. ASSUME NEW r \in Requests, UserSave(r) PROVE TypeOK'
  <2>1. /\ req' \in [Requests -> Request]
        /\ \A x \in Requests : Equipped(req'[x])
    <3>1. CASE Finish(r, "user.save")
      BY <3>1, FinishType
    <3>2. ASSUME NEW from \in {"reset.user", "login.user", "remove.user"},
                 NEW to \in {"reset.revoke", "login.draw", "remove.soft"},
                 Move(r, from, to)
          PROVE  /\ req' \in [Requests -> Request]
                 /\ \A x \in Requests : Equipped(req'[x])
      <4>1. Equipped([req[r] EXCEPT !.pc = to])
        BY <3>2 DEF Move, Equipped, Request
      <4>2. from \in PCs /\ to \in PCs
        BY DEF PCs
      <4> QED
        BY ONLY <1>4, <3>2, <4>1, <4>2, TypeOK, MoveType
    <3> QED
      BY <1>4, <3>1, <3>2 DEF UserSave
  <2>2. active' \subseteq Users /\ deleted' \subseteq Users
    BY <1>4 DEF UserSave, Request
  <2> QED
    BY <1>4, <2>1, <2>2 DEF UserSave
<1>5. ASSUME NEW r \in Requests, NEW s \in SessionIds, CreateLoginSession(r, s)
      PROVE  TypeOK'
  <2> DEFINE u == req[r].token.user
             tk == [sid |-> s, user |-> u, version |-> 1, issued |-> now]
             row == [owner |-> u, version |-> 1, expiresAt |-> now + RefreshTTL,
                     revoked |-> FALSE]
             q == [pc |-> "login.save", token |-> tk, row |-> row, on |-> {}]
  <2>1. u \in Users
    BY <1>5 DEF CreateLoginSession, Equipped, Request, Token
  <2>2. tk \in Token /\ tk.sid = s
    BY <2>1 DEF Token, Versions
  <2>3. row \in Row
    BY <2>1 DEF Row, Versions, Expiries, Times
  <2>4. q \in Request
    BY <2>2, <2>3 DEF Request, PCs
  <2>5. Equipped(q)
    BY <2>2, <2>3 DEF Equipped
  <2>6. req' = [req EXCEPT ![r] = q]
    BY <1>5 DEF CreateLoginSession
  <2>7. /\ req' \in [Requests -> Request]
        /\ \A x \in Requests : Equipped(req'[x])
    BY <2>4, <2>5, <2>6, ReqType
  <2> QED
    BY <1>5, <2>7 DEF CreateLoginSession
<1>6. ASSUME NEW r \in Requests, SaveIssued(r) \/ TouchSave(r) PROVE TypeOK'
  <2>1. req[r].token.sid \in SessionIds /\ req[r].row \in Row
    BY <1>6 DEF SaveIssued, TouchSave, Release, Request, Token, Equipped
  <2>2. /\ sessions' \in [SessionIds -> Row \cup {None}]
        /\ peak' \in [SessionIds -> Versions]
    BY <1>6, <2>1, SaveType DEF SaveIssued, TouchSave
  <2>3. PICK to \in {"reply", "touch.set"} :
          req' = [req EXCEPT ![r] = [req[r] EXCEPT !.pc = to, !.row = None]]
    BY <1>6 DEF SaveIssued, TouchSave, Release
  <2> DEFINE q == [req[r] EXCEPT !.pc = to, !.row = None]
  <2>4. q \in Request /\ q.pc = to /\ q.token = req[r].token
    <3>1. req[r] \in Request /\ to \in PCs
      BY DEF PCs
    <3> QED
      BY <3>1, ReleaseType
  <2>5. Equipped(q)
    BY <1>6, <2>1, <2>4 DEF Equipped, SaveIssued, TouchSave, Release
  <2>6. /\ req' \in [Requests -> Request]
        /\ \A x \in Requests : Equipped(req'[x])
    BY <2>3, <2>4, <2>5, ReqType
  <2> QED
    BY <1>6, <2>2, <2>6 DEF SaveIssued, TouchSave
<1>7. ASSUME NEW r \in Requests, Reply(r) PROVE TypeOK'
  <2>1. req[r].token \in {t \in Token : t.sid # None}
    BY <1>7 DEF Reply, Finish, Equipped, Request
  <2> QED
    BY <1>7, <2>1, FinishType DEF Reply
<1>8. ASSUME NEW r \in Requests, NEW t \in issued,
             RefreshRead(r, t) \/ Authorize(r, t)
      PROVE  TypeOK'
  <2>1. t \in Token /\ t.sid \in SessionIds /\ sessions[t.sid] \in Row
    BY <1>8 DEF RefreshRead, Authorize, LiveFor, Live, Token
  <2>2. PICK q : /\ req' = [req EXCEPT ![r] = q]
                 /\ q \in Request /\ q.token = t
                 /\ q.pc # "touch.gate" => q.row = sessions[t.sid]
                 /\ q.pc \in {"refresh.user", "reuse.revoke", "touch.gate"}
    <3>1. CASE RefreshRead(r, t)
      <4>1. PICK pc \in {"refresh.user", "reuse.revoke"} :
              req' = [req EXCEPT ![r] = [Idle EXCEPT !.pc = pc, !.token = t,
                                                     !.row = sessions[t.sid]]]
        BY <3>1 DEF RefreshRead
      <4> DEFINE q == [Idle EXCEPT !.pc = pc, !.token = t, !.row = sessions[t.sid]]
      <4>2. q \in Request /\ q.pc = pc /\ q.token = t /\ q.row = sessions[t.sid]
        BY <2>1, IdleType DEF Request, PCs
      <4> QED
        BY <4>1, <4>2
    <3>2. CASE Authorize(r, t)
      <4> DEFINE q == [Idle EXCEPT !.pc = "touch.gate", !.token = t]
      <4>1. q \in Request /\ q.pc = "touch.gate" /\ q.token = t
        BY <2>1, IdleType DEF Request, PCs
      <4> QED
        BY <3>2, <4>1 DEF Authorize
    <3> QED
      BY <1>8, <3>1, <3>2
  <2>3. Equipped(q)
    BY <2>1, <2>2 DEF Equipped
  <2>4. /\ req' \in [Requests -> Request]
        /\ \A x \in Requests : Equipped(req'[x])
    BY <2>2, <2>3, ReqType
  <2> QED
    BY <1>8, <2>4 DEF RefreshRead, Authorize
<1>9. ASSUME NEW r \in Requests, RefreshRotate(r) PROVE TypeOK'
  <2> DEFINE v == req[r].row.version + 1
             tk == [req[r].token EXCEPT !.version = v, !.issued = now]
             row == [req[r].row EXCEPT !.version = v,
                                       !.expiresAt = now + RefreshTTL]
             q == [req[r] EXCEPT !.pc = "refresh.save", !.token = tk,
                                 !.row = row]
  <2>1. req[r].row \in Row /\ req[r].token \in Token /\ req[r].token.sid # None
    BY <1>9 DEF RefreshRotate, Request, Equipped
  <2>2. v \in Versions /\ now + RefreshTTL \in Expiries
    BY <1>9, <2>1 DEF RefreshRotate, Row, Versions, Times, Expiries
  <2> HIDE DEF v
  <2>3. tk \in Token /\ tk.sid # None /\ row \in Row
    BY <2>1, <2>2 DEF Token, Row
  <2>4. req' = [req EXCEPT ![r] = q]
    BY <1>9 DEF RefreshRotate, v
  <2> HIDE DEF tk, row
  <2>5. q \in Request /\ q.token = tk /\ q.row = row
    <3>1. "refresh.save" \in PCs
      BY DEF PCs
    <3> QED
      BY <2>3, <3>1 DEF Request
  <2>6. Equipped(q)
    BY <2>3, <2>5 DEF Equipped
  <2> HIDE DEF q
  <2>7. /\ req' \in [Requests -> Request]
        /\ \A x \in Requests : Equipped(req'[x])
    BY <2>4, <2>5, <2>6, ReqType
  <2> QED
    BY <1>9, <2>7 DEF RefreshRotate
<1>10. ASSUME NEW r \in Requests, TouchGate(r) \/ TouchSet(r) PROVE TypeOK'
  <2>1. req[r].token.sid \in SessionIds
    BY <1>10 DEF TouchGate, TouchSet, Move, Equipped, Request, Token
  <2>2. PICK from \in {"touch.gate", "touch.set"},
             to \in {"touch.read", "authorized"} : Move(r, from, to)
    BY <1>10 DEF TouchGate, TouchSet
  <2>3. Equipped([req[r] EXCEPT !.pc = to])
    BY <2>1, <2>2 DEF Move, Equipped, Request
  <2>4. from \in PCs /\ to \in PCs
    BY DEF PCs
  <2>5. UNCHANGED <<active, deleted, issued, drawn, now, peak, sessions>>
        /\ throttled' \subseteq SessionIds
    BY <1>10, <2>1 DEF TouchGate, TouchSet
  <2> QED
    BY <2>2, <2>3, <2>4, <2>5, MoveType
<1>11. ASSUME NEW r \in Requests, TouchRead(r) PROVE TypeOK'
  <2> DEFINE row == FindActiveById(req[r].token.sid)
             to == IF row = None THEN "touch.set" ELSE "touch.save"
             q == [req[r] EXCEPT !.pc = to, !.row = row]
  <2>1. req[r].token.sid \in SessionIds
    BY <1>11 DEF TouchRead, Equipped, Request, Token
  <2>2. row \in Row \cup {None} /\ to \in PCs
    BY <2>1 DEF FindActiveById, PCs
  <2>3. req' = [req EXCEPT ![r] = q]
    BY <1>11 DEF TouchRead
  <2>4. q \in Request /\ q.pc = to /\ q.token = req[r].token /\ q.row = row
    BY <2>2 DEF Request
  <2>5. Equipped(q)
    <3>1. to = "touch.set" \/ (to = "touch.save" /\ row # None)
      OBVIOUS
    <3>2. req[r].token # None /\ req[r].token.sid # None
      BY <1>11 DEF TouchRead, Equipped
    <3> HIDE DEF row, to, q
    <3> QED
      BY <2>4, <3>1, <3>2 DEF Equipped
  <2>6. /\ req' \in [Requests -> Request]
        /\ \A x \in Requests : Equipped(req'[x])
    BY <2>3, <2>4, <2>5, ReqType
  <2> QED
    BY <1>11, <2>6 DEF TouchRead
<1>12. ASSUME NEW r \in Requests, PasswordChange(r) PROVE TypeOK'
  <2> DEFINE q == [req[r] EXCEPT !.pc = "user.revoke",
                                 !.on = {req[r].token.user} \cap active]
  <2>1. req' = [req EXCEPT ![r] = q]
    BY <1>12 DEF PasswordChange
  <2>2. q \in Request /\ q.pc = "user.revoke" /\ q.token = req[r].token
    <3>1. "user.revoke" \in PCs
      BY DEF PCs
    <3> QED
      BY <3>1 DEF Request
  <2>3. Equipped(q)
    BY <1>12, <2>2 DEF PasswordChange, Equipped
  <2>4. /\ req' \in [Requests -> Request]
        /\ \A x \in Requests : Equipped(req'[x])
    BY <2>1, <2>2, <2>3, ReqType
  <2> QED
    BY <1>12, <2>4 DEF PasswordChange
<1>13. ASSUME NEW r \in Requests, Serve(r) \/ Abort(r) PROVE TypeOK'
  BY <1>13, FinishType DEF Serve, Abort, Finish
<1>14. ASSUME NEW r \in Requests, UserSoftRemove(r) PROVE TypeOK'
  <2>1. req[r].token.user \in Users
    BY <1>14 DEF UserSoftRemove, Finish, Equipped, Request, Token, Staff
  <2> QED
    BY <1>14, <2>1, FinishType DEF UserSoftRemove
<1>15. CASE CleanupExpiredOrRevoked
  BY <1>15 DEF CleanupExpiredOrRevoked
<1>16. CASE Tick
  BY <1>16 DEF Tick, Times
<1>17. ASSUME NEW s \in SessionIds, ExpireThrottle(s) PROVE TypeOK'
  BY <1>17 DEF ExpireThrottle
<1>18. CASE UNCHANGED vars
  BY <1>18 DEF vars
<1> QED
  BY <1>1, <1>2, <1>3, <1>4, <1>5, <1>6, <1>7, <1>8, <1>9, <1>10, <1>11, <1>12,
     <1>13, <1>14, <1>15, <1>16, <1>17, <1>18 DEF Next, RequestStep

(* Every variable keeps its shape, and every request at an await holds the *)
(* row and the session id that the rest of its handler uses.               *)
THEOREM TypeCorrect == Spec => []TypeOK
<1>1. Init => TypeOK
  BY IdleType DEF Init, TypeOK, Times, Versions
<1> QED
  BY <1>1, TypeStep, PTL DEF Spec

-----------------------------------------------------------------------------
(* The steps of requests, sorted by what they do to rows and copies.       *)

Quiet(q) ==
  q.pc \notin {"login.save", "refresh.user", "refresh.save", "touch.save"}

(* No write: the request ends up without a copy it might save.             *)
PassStep(r) ==
  /\ sessions' = sessions
  /\ Quiet(req'[r])
  /\ UNCHANGED <<drawn, now, peak>>

RevokeStep(r) ==
  /\ \E S : RevokeWhere(S)
  /\ Quiet(req'[r])
  /\ UNCHANGED <<drawn, now, peak>>

LEMMA StepKinds ==
  ASSUME TypeOK, NEW r \in Requests, RequestStep(r)
  PROVE  \/ PassStep(r) \/ RevokeStep(r)
         \/ \E s \in SessionIds : CreateLoginSession(r, s)
         \/ SaveIssued(r) \/ TouchSave(r)
         \/ \E t \in issued : RefreshRead(r, t)
         \/ RefreshRotate(r) \/ TouchRead(r)
<1> USE DEF TypeOK
<1>1. ASSUME NEW u \in Users,
             \/ UserRead(r, u) \/ ResetPassword(r, u)
             \/ Login(r, u) \/ RemoveUser(r, u)
      PROVE  PassStep(r)
  <2>1. PICK q : req' = [req EXCEPT ![r] = q] /\ Quiet(q)
    <3>1. ASSUME NEW pc \in {"user.save", "user.revoke", "reset.user",
                             "login.user"}, NEW on
          PROVE  Quiet([Idle EXCEPT !.pc = pc, !.on = on, !.token = Staff(u)])
      BY IdleType DEF Request, Quiet
    <3>2. Quiet([Idle EXCEPT !.pc = "remove.revoke", !.token = Staff(u)])
      BY IdleType DEF Request, Quiet
    <3>3. CASE UserRead(r, u)
      BY <3>1, <3>3 DEF UserRead
    <3>4. CASE ResetPassword(r, u)
      BY <3>1, <3>4 DEF ResetPassword
    <3>5. CASE Login(r, u)
      BY <3>1, <3>5 DEF Login
    <3>6. CASE RemoveUser(r, u)
      BY <3>2, <3>6 DEF RemoveUser
    <3> QED
      BY <1>1, <3>3, <3>4, <3>5, <3>6
  <2> QED
    BY <1>1, <2>1 DEF UserRead, ResetPassword, Login, RemoveUser, PassStep
<1>2. ASSUME Reply(r) \/ Serve(r) \/ Abort(r) PROVE PassStep(r)
  BY <1>2, IdleType DEF Reply, Serve, Abort, Finish, PassStep, Quiet
<1>3. ASSUME UserSave(r) \/ UserSoftRemove(r) PROVE PassStep(r)
  BY <1>3, IdleType DEF UserSave, UserSoftRemove, Finish, Move, PassStep, Quiet,
                        Request
<1>4. ASSUME TouchGate(r) \/ TouchSet(r) \/ PasswordChange(r) PROVE PassStep(r)
  BY <1>4 DEF TouchGate, TouchSet, PasswordChange, Move, PassStep, Quiet, Request
<1>5. ASSUME NEW t \in issued, Authorize(r, t) PROVE PassStep(r)
  BY <1>5, IdleType DEF Authorize, PassStep, Quiet, Request
<1>6. ASSUME \/ ResetRevoke(r) \/ HandleRefreshTokenReuse(r)
             \/ LogoutCurrent(r) \/ LogoutAll(r)
             \/ \E s \in SessionIds : RevokeSpecificSession(r, s)
      PROVE  RevokeStep(r)
  <2>1. PICK S, pc : RevokeWhere(S) /\ Finish(r, pc) /\ UNCHANGED <<drawn, now, peak>>
    BY <1>6 DEF ResetRevoke, HandleRefreshTokenReuse, LogoutCurrent, LogoutAll,
                RevokeSpecificSession
  <2> QED
    BY <2>1, IdleType DEF Finish, RevokeStep, Quiet
<1>7. ASSUME UserRevoke(r) PROVE RevokeStep(r)
  <2>1. Quiet(req'[r])
    BY <1>7 DEF UserRevoke, Move, Quiet, Request
  <2> QED
    BY <1>7, <2>1 DEF UserRevoke, RevokeStep
<1> QED
  BY <1>1, <1>2, <1>3, <1>4, <1>5, <1>6, <1>7 DEF RequestStep

LEMMA OtherRequests ==
  ASSUME TypeOK, NEW r \in Requests, RequestStep(r)
  PROVE  \A x \in Requests : x # r => req'[x] = req[x]
<1>1. \E q : req' = [req EXCEPT ![r] = q]
  BY DEF RequestStep, UserRead, RemoveUser, ResetPassword, Login, UserRevoke, ResetRevoke,
     UserSoftRemove,
     UserSave, CreateLoginSession, RevokeSpecificSession, SaveIssued, Reply,
     RefreshRead, Authorize, HandleRefreshTokenReuse, RefreshRotate, TouchGate,
     TouchRead, TouchSave, TouchSet, PasswordChange, LogoutCurrent, LogoutAll,
     Serve, Abort, Move, Finish, Release
<1> QED
  BY <1>1 DEF TypeOK

-----------------------------------------------------------------------------
(* Versions.                                                               *)

LEMMA SavePeak ==
  ASSUME TypeOK, NEW s \in SessionIds, NEW row \in Row, Save(s, row)
  PROVE  /\ sessions'[s] = row
         /\ peak'[s] >= peak[s] /\ peak'[s] >= row.version
         /\ peak'[s] = peak[s] \/ peak'[s] = row.version
         /\ \A x \in SessionIds : x # s => /\ sessions'[x] = sessions[x]
                                          /\ peak'[x] = peak[x]
BY DEF TypeOK, Save, Row, Versions

(* A request that does not move keeps its versions as the peaks grow.      *)
LEMMA VersionFrame ==
  ASSUME TypeOK, TypeOK', VersionsFollowSaves, NEW r \in Requests,
         \A x \in Requests : x # r => req'[x] = req[x],
         \A s \in SessionIds : peak'[s] >= peak[s],
         \A s \in SessionIds :
           sessions'[s] # None => sessions'[s].version \in 1 .. peak'[s],
         req'[r].pc # "idle" => RequestVersionOK(req[r])'
  PROVE  VersionsFollowSaves'
<1>1. ASSUME NEW x \in Requests, x # r, req[x].pc # "idle"
      PROVE  RequestVersionOK(req[x])'
  <2>1. RequestVersionOK(req[x])
    BY <1>1 DEF VersionsFollowSaves
  <2>2. CASE Quiet(req[x])
    BY <1>1, <2>2 DEF RequestVersionOK, Quiet
  <2>3. CASE ~ Quiet(req[x])
    <3>1. req[x].token.sid \in SessionIds /\ req[x].row \in Row
      BY <2>3 DEF TypeOK, Equipped, Request, Token, Quiet
    <3>2. 1 .. peak[req[x].token.sid] \subseteq 1 .. peak'[req[x].token.sid]
      BY <3>1 DEF TypeOK, Versions
    <3> QED
      BY <1>1, <2>1, <3>2 DEF RequestVersionOK
  <2> QED
    BY <2>2, <2>3
<1> QED
  BY <1>1 DEF VersionsFollowSaves

LEMMA RevokeKeepsVersions ==
  ASSUME TypeOK, NEW S, RevokeWhere(S), NEW s \in SessionIds
  PROVE  /\ sessions'[s] = None <=> sessions[s] = None
         /\ sessions[s] # None => /\ sessions'[s].version = sessions[s].version
                                  /\ sessions'[s].expiresAt = sessions[s].expiresAt
                                  /\ sessions'[s].revoked = TRUE \/ sessions'[s] = sessions[s]
<1>1. CASE s \in S /\ sessions[s] # None
  <2> DEFINE row == [sessions[s] EXCEPT !.revoked = TRUE]
  <2>1. sessions'[s] = row /\ sessions[s] \in Row
    BY <1>1 DEF RevokeWhere, TypeOK
  <2>2. /\ row \in Row /\ row.version = sessions[s].version
        /\ row.expiresAt = sessions[s].expiresAt /\ row.revoked = TRUE
    BY <2>1 DEF Row
  <2> QED
    BY <1>1, <2>1, <2>2
<1>2. CASE ~ (s \in S /\ sessions[s] # None)
  BY <1>2 DEF RevokeWhere
<1> QED
  BY <1>1, <1>2

LEMMA VersionStep ==
  TypeOK /\ TypeOK' /\ VersionsFollowSaves /\ [Next]_vars => VersionsFollowSaves'
<1> SUFFICES ASSUME TypeOK, TypeOK', VersionsFollowSaves, [Next]_vars
             PROVE  VersionsFollowSaves'
  OBVIOUS
<1>1. ASSUME NEW r \in Requests, RequestStep(r) PROVE VersionsFollowSaves'
  <2>1. \A x \in Requests : x # r => req'[x] = req[x]
    BY <1>1, OtherRequests
  <2>2. \A s \in SessionIds : peak[s] \in Nat
    BY DEF TypeOK, Versions
  <2>3. CASE PassStep(r)
    BY <2>1, <2>2, <2>3, VersionFrame
       DEF PassStep, Quiet, RequestVersionOK, VersionsFollowSaves
  <2>4. CASE RevokeStep(r)
    <3>1. \A s \in SessionIds :
            sessions'[s] # None => sessions'[s].version \in 1 .. peak'[s]
      BY <2>4, RevokeKeepsVersions DEF RevokeStep, VersionsFollowSaves
    <3>2. RequestVersionOK(req[r])'
      BY <2>4 DEF RevokeStep, Quiet, RequestVersionOK
    <3> QED
      BY <2>1, <2>2, <2>4, <3>1, <3>2, VersionFrame DEF RevokeStep
  <2>5. ASSUME NEW s \in SessionIds, CreateLoginSession(r, s)
        PROVE  VersionsFollowSaves'
    <3>1. req'[r].pc = "login.save" /\ req'[r].row.version = 1
      BY <2>5 DEF CreateLoginSession, TypeOK
    <3>2. RequestVersionOK(req[r])'
      BY <3>1 DEF RequestVersionOK
    <3>3. UNCHANGED <<sessions, peak>>
      BY <2>5 DEF CreateLoginSession
    <3> QED
      BY <2>1, <2>2, <3>2, <3>3, VersionFrame DEF VersionsFollowSaves
  <2>6. CASE SaveIssued(r) \/ TouchSave(r)
    <3> DEFINE s == req[r].token.sid
    <3>1. /\ s \in SessionIds /\ req[r].row \in Row
          /\ req[r].pc \in {"login.save", "refresh.save", "touch.save"}
          /\ Save(s, req[r].row)
      BY <2>6 DEF SaveIssued, TouchSave, Release, TypeOK, Equipped, Request, Token
    <3>2. req[r].row.version \in Nat /\ req[r].row.version >= 1
      BY <3>1, <2>2 DEF VersionsFollowSaves, RequestVersionOK, Row, Versions
    <3>3. /\ sessions'[s] = req[r].row
          /\ peak'[s] >= peak[s] /\ peak'[s] >= req[r].row.version
          /\ \A x \in SessionIds : x # s => /\ sessions'[x] = sessions[x]
                                           /\ peak'[x] = peak[x]
      BY <3>1, SavePeak
    <3>4. \A x \in SessionIds : peak'[x] \in Nat
      BY DEF TypeOK, Versions
    <3> HIDE DEF s
    <3>5. \A x \in SessionIds :
            sessions'[x] # None => sessions'[x].version \in 1 .. peak'[x]
      <4> SUFFICES ASSUME NEW x \in SessionIds, sessions'[x] # None
                   PROVE  sessions'[x].version \in 1 .. peak'[x]
        OBVIOUS
      <4>1. CASE x = s
        BY <4>1, <3>1, <3>2, <3>3, <3>4
      <4>2. CASE x # s
        BY <4>2, <3>3 DEF VersionsFollowSaves
      <4> QED
        BY <4>1, <4>2
    <3>6. RequestVersionOK(req[r])'
      BY <2>6 DEF SaveIssued, TouchSave, Release, TypeOK, Request, RequestVersionOK
    <3>7. \A x \in SessionIds : peak'[x] >= peak[x]
      BY <2>2, <3>1, <3>3
    <3> QED
      BY <2>1, <3>5, <3>6, <3>7, VersionFrame
  <2>7. ASSUME NEW t \in issued, RefreshRead(r, t) PROVE VersionsFollowSaves'
    <3>1. /\ sessions[t.sid] # None /\ t.sid \in SessionIds
          /\ UNCHANGED <<sessions, peak>>
      BY <2>7 DEF RefreshRead, LiveFor, Live, TypeOK, Token
    <3>2. /\ req'[r].pc \in {"refresh.user", "reuse.revoke"}
          /\ req'[r].token = t /\ req'[r].row = sessions[t.sid]
      BY <2>7, IdleType DEF RefreshRead, TypeOK, Request
    <3>3. RequestVersionOK(req[r])'
      BY <3>1, <3>2 DEF RequestVersionOK, VersionsFollowSaves
    <3> QED
      BY <2>1, <2>2, <3>1, <3>3, VersionFrame DEF VersionsFollowSaves
  <2>8. CASE RefreshRotate(r)
    <3>1. /\ req[r].row \in Row /\ req[r].token \in Token
          /\ req[r].pc = "refresh.user"
          /\ UNCHANGED <<sessions, peak>>
      BY <2>8 DEF RefreshRotate, TypeOK, Equipped, Request
    <3>2. /\ req'[r].pc = "refresh.save"
          /\ req'[r].token.sid = req[r].token.sid
          /\ req'[r].row.version = req[r].row.version + 1
      BY <2>8, <3>1 DEF RefreshRotate, TypeOK, Request, Row, Token
    <3>3. req[r].row.version \in 1 .. peak[req[r].token.sid]
      BY <3>1 DEF VersionsFollowSaves, RequestVersionOK
    <3>4. req[r].row.version \in Nat
      BY <3>1 DEF Row, Versions
    <3>5. RequestVersionOK(req[r])'
      BY <3>1, <3>2, <3>3, <3>4 DEF RequestVersionOK
    <3> QED
      BY <2>1, <2>2, <3>1, <3>5, VersionFrame DEF VersionsFollowSaves
  <2>9. CASE TouchRead(r)
    <3> DEFINE s == req[r].token.sid
               row == FindActiveById(s)
    <3>1. s \in SessionIds /\ UNCHANGED <<sessions, peak>>
      BY <2>9 DEF TouchRead, TypeOK, Equipped, Request, Token
    <3>2. /\ req'[r].pc \in {"touch.save", "touch.set"}
          /\ req'[r].pc = "touch.save" => row # None
          /\ req'[r].token.sid = s /\ req'[r].row = row
      BY <2>9 DEF TouchRead, TypeOK, Request
    <3>3. row # None => row = sessions[s] /\ sessions[s] # None
      BY DEF FindActiveById
    <3>4. RequestVersionOK(req[r])'
      BY <3>1, <3>2, <3>3 DEF RequestVersionOK, VersionsFollowSaves
    <3> QED
      BY <2>1, <2>2, <3>1, <3>4, VersionFrame DEF VersionsFollowSaves
  <2> QED
    BY <1>1, <2>3, <2>4, <2>5, <2>6, <2>7, <2>8, <2>9, StepKinds
<1>2. CASE CleanupExpiredOrRevoked
  BY <1>2 DEF CleanupExpiredOrRevoked, VersionsFollowSaves, RequestVersionOK
<1>3. CASE Tick \/ \E s \in SessionIds : ExpireThrottle(s)
  BY <1>3 DEF Tick, ExpireThrottle, VersionsFollowSaves, RequestVersionOK
<1>4. CASE UNCHANGED vars
  BY <1>4 DEF vars, VersionsFollowSaves, RequestVersionOK
<1> QED
  BY <1>1, <1>2, <1>3, <1>4 DEF Next

(* The versions in rows and in memory stay within one of the highest       *)
(* version saved, however refreshes and touches interleave: what the       *)
(* generation of the registry rests on.                                    *)
THEOREM VersionsCorrect == Spec => []VersionsFollowSaves
<1>1. Init => VersionsFollowSaves
  BY IdleType DEF Init, VersionsFollowSaves
<1> QED
  BY <1>1, TypeCorrect, VersionStep, PTL DEF Spec

-----------------------------------------------------------------------------
(* A settled session stays settled.  A row changes for the better only in  *)
(* the save of a request that was engaged with it, and a request becomes   *)
(* engaged with a session only by drawing it or by reading it live.        *)

LEMMA SettledRequest ==
  ASSUME TypeOK, TypeOK', NEW s \in SessionIds, Settled(s), NEW r \in Requests,
         RequestStep(r)
  PROVE  Settled(s)'
<1>1. \A x \in Requests : x # r => req'[x] = req[x]
  BY OtherRequests
<1>2. ASSUME drawn \subseteq drawn', now' = now, ~ Live(s)', ~ Engaged(r, s)'
      PROVE  Settled(s)'
  BY <1>1, <1>2 DEF Settled, Engaged
<1>3. CASE PassStep(r)
  BY <1>2, <1>3 DEF PassStep, Settled, Live, Engaged, Quiet
<1>4. CASE RevokeStep(r)
  <2>1. ~ Live(s)'
    BY <1>4, RevokeKeepsVersions DEF RevokeStep, Settled, Live
  <2> QED
    BY <1>2, <1>4, <2>1 DEF RevokeStep, Engaged, Quiet
<1>5. ASSUME NEW x \in SessionIds, CreateLoginSession(r, x) PROVE Settled(s)'
  <2>1. x # s
    BY <1>5 DEF CreateLoginSession, Settled
  <2>2. req'[r].token.sid = x
    BY <1>5 DEF CreateLoginSession, TypeOK
  <2> QED
    BY <1>2, <1>5, <2>1, <2>2 DEF CreateLoginSession, Settled, Live, Engaged
<1>6. CASE SaveIssued(r) \/ TouchSave(r)
  <2> DEFINE x == req[r].token.sid
             row == req[r].row
  <2>1. /\ x \in SessionIds /\ row \in Row /\ Save(x, row)
        /\ UNCHANGED <<drawn, now>>
    BY <1>6 DEF SaveIssued, TouchSave, Release, TypeOK, Equipped, Request, Token
  <2>2. req'[r].pc \in {"reply", "touch.set"}
    BY <1>6 DEF SaveIssued, TouchSave, Release, TypeOK, Request
  <2>3. ~ Engaged(r, s)'
    BY <2>2 DEF Engaged
  <2>4. x = s => ~ (row.expiresAt > now)
    BY <1>6 DEF SaveIssued, TouchSave, Release, Settled, Engaged
  <2>5. ~ Live(s)'
    BY <2>1, <2>4, SavePeak DEF Settled, Live
  <2> QED
    BY <1>2, <2>1, <2>3, <2>5
<1>7. ASSUME NEW t \in issued, RefreshRead(r, t) PROVE Settled(s)'
  <2>1. t.sid # s /\ UNCHANGED <<sessions, drawn, now>>
    BY <1>7 DEF RefreshRead, LiveFor, Settled
  <2>2. req'[r].token = t
    BY <1>7, IdleType DEF RefreshRead, TypeOK, Request
  <2> QED
    BY <1>2, <2>1, <2>2 DEF Settled, Live, Engaged
<1>8. CASE RefreshRotate(r)
  <2>0. req[r].pc = "refresh.user" /\ req[r].token \in Token
    BY <1>8 DEF RefreshRotate, TypeOK, Equipped, Request
  <2>1. req'[r].token.sid = req[r].token.sid
    BY <1>8, <2>0 DEF RefreshRotate, TypeOK, Request, Token
  <2>2. UNCHANGED <<sessions, drawn, now>>
    BY <1>8 DEF RefreshRotate
  <2> QED
    BY <1>2, <2>0, <2>1, <2>2 DEF Settled, Live, Engaged
<1>9. CASE TouchRead(r)
  <2>1. /\ req'[r].token.sid = req[r].token.sid
        /\ req'[r].row = FindActiveById(req[r].token.sid)
        /\ req'[r].pc = "touch.set" \/ req'[r].row # None
        /\ req'[r].pc \in {"touch.set", "touch.save"}
    BY <1>9 DEF TouchRead, TypeOK, Request
  <2>2. UNCHANGED <<sessions, drawn, now>>
    BY <1>9 DEF TouchRead
  <2>3. ~ Engaged(r, s)'
    BY <2>1, <2>2 DEF Engaged, FindActiveById, Settled, Live
  <2> QED
    BY <1>2, <2>2, <2>3 DEF Settled, Live
<1> QED
  BY <1>3, <1>4, <1>5, <1>6, <1>7, <1>8, <1>9, StepKinds

LEMMA SettledStep ==
  ASSUME TypeOK, TypeOK', [Next]_vars, NEW s \in SessionIds, Settled(s)
  PROVE  Settled(s)'
<1>1. ASSUME NEW r \in Requests, RequestStep(r) PROVE Settled(s)'
  BY <1>1, SettledRequest
<1>2. CASE CleanupExpiredOrRevoked
  BY <1>2 DEF CleanupExpiredOrRevoked, Settled, Live, Engaged
<1>3. ASSUME NEW x \in SessionIds, ExpireThrottle(x) PROVE Settled(s)'
  BY <1>3 DEF ExpireThrottle, Settled, Live, Engaged
<1>4. CASE Tick
  <2>1. /\ now' = now + 1 /\ now \in Nat
        /\ UNCHANGED <<sessions, drawn, req>>
    BY <1>4 DEF Tick, TypeOK, Times
  <2>2. ~ Live(s)'
    <3>1. sessions[s] # None => sessions[s].expiresAt \in Nat
      BY DEF TypeOK, Row, Expiries
    <3> QED
      BY <2>1, <3>1 DEF Settled, Live
  <2>3. ASSUME NEW r \in Requests PROVE ~ Engaged(r, s)'
    <3>1. req[r].row # None => req[r].row.expiresAt \in Nat
      BY DEF TypeOK, Request, Row, Expiries
    <3>2. req[r].pc = "touch.save" => req[r].row # None
      BY DEF TypeOK, Equipped
    <3> QED
      BY <2>1, <3>1, <3>2 DEF Settled, Engaged
  <2> QED
    BY <2>1, <2>2, <2>3 DEF Settled
<1>5. CASE UNCHANGED vars
  BY <1>5 DEF vars, Settled, Live, Engaged
<1> QED
  BY <1>1, <1>2, <1>3, <1>4, <1>5 DEF Next

(* A session that has ended and that no request in progress still holds a  *)
(* copy of never works again, for any number of requests and sessions.     *)
THEOREM DeadSessionsStayDead == Spec => DeadStaysDead
<1>1. TypeOK /\ TypeOK' /\ [Next]_vars
        => [\A s \in SessionIds : Settled(s) => Settled(s)']_vars
  BY SettledStep
<1> QED
  BY <1>1, TypeCorrect, PTL DEF Spec, DeadStaysDead

-----------------------------------------------------------------------------
(* Implementation of SessionRegistry.                                      *)

(* Only a save that brings a new version changes a peak.                   *)
LEMMA PeakStep ==
  ASSUME TypeOK, [Next]_vars
  PROVE  \/ peak' = peak
         \/ \E r \in Requests : SaveIssued(r) \/ TouchSave(r)
<1>1. ASSUME NEW r \in Requests, RequestStep(r)
      PROVE  peak' = peak \/ SaveIssued(r) \/ TouchSave(r)
  BY <1>1, StepKinds DEF PassStep, RevokeStep, CreateLoginSession, RefreshRead,
                         RefreshRotate, TouchRead
<1> QED
  BY <1>1 DEF Next, CleanupExpiredOrRevoked, ExpireThrottle, Tick, vars

(* A step that saves no new version closes some open sessions, if any.     *)
LEMMA CloseStep ==
  ASSUME TypeOK, TypeOK', [Next]_vars, peak' = peak
  PROVE  Registry!Next
<1> DEFINE S == {s \in SessionIds : Phase(s)' # Phase(s)}
<1>1. ASSUME NEW s \in SessionIds, Phase(s)' # Phase(s)
      PROVE  Phase(s) = "open" /\ Phase(s)' = "closed"
  BY <1>1, SettledStep DEF Phase
<1>2. Registry!Close(S)
  BY <1>1 DEF Registry!Close
<1> QED
  BY <1>2 DEF Registry!Next

(* A save that brings a new version opens or rotates one session.          *)
LEMMA SaveStep ==
  ASSUME TypeOK, TypeOK', VersionsFollowSaves, NEW r \in Requests,
         SaveIssued(r) \/ TouchSave(r), peak' # peak
  PROVE  Registry!Next
<1>0. PICK s \in SessionIds : s = req[r].token.sid
  BY DEF SaveIssued, TouchSave, Release, TypeOK, Equipped, Request, Token
<1> DEFINE row == req[r].row
<1>1. /\ row \in Row /\ Save(s, row)
      /\ req[r].pc \in {"login.save", "refresh.save", "touch.save"}
      /\ req'[r].pc \in {"reply", "touch.set"}
      /\ \A x \in Requests : x # r => req'[x] = req[x]
      /\ UNCHANGED <<drawn, now>>
  BY <1>0 DEF SaveIssued, TouchSave, Release, TypeOK, Equipped, Request, Token
<1>2. /\ peak'[s] >= peak[s]
      /\ peak'[s] = peak[s] \/ peak'[s] = row.version
      /\ \A x \in SessionIds : x # s => sessions'[x] = sessions[x] /\ peak'[x] = peak[x]
  BY <1>1, SavePeak
<1>3. peak'[s] = row.version /\ row.version > peak[s]
  <2>1. peak'[s] # peak[s]
    BY <1>1, <1>2 DEF TypeOK
  <2>2. peak[s] \in Nat /\ row.version \in Nat
    BY <1>1 DEF TypeOK, Versions, Row
  <2> QED
    BY <1>2, <2>1, <2>2
<1>4. row.version = peak[s] + 1 /\ (peak[s] > 0 => req[r].pc = "refresh.save")
  <2>1. peak[s] \in Nat /\ row.version \in Nat
    BY <1>1 DEF TypeOK, Versions, Row
  <2>2. RequestVersionOK(req[r])
    BY <1>1 DEF VersionsFollowSaves
  <2> QED
    BY <1>0, <1>1, <1>3, <2>1, <2>2 DEF RequestVersionOK
<1>5. ASSUME NEW x \in SessionIds, x # s PROVE Phase(x)' = Phase(x)
  <2>1. ~ Engaged(r, x) /\ ~ Engaged(r, x)'
    BY <1>0, <1>1, <1>5 DEF Engaged
  <2>2. \A y \in Requests : Engaged(y, x)' <=> Engaged(y, x)
    BY <1>1, <2>1 DEF Engaged
  <2>3. Settled(x)' <=> Settled(x)
    BY <1>1, <1>2, <1>5, <2>2 DEF Settled, Live
  <2> QED
    BY <1>2, <1>5, <2>3 DEF Phase
<1>6. Phase(s)' \in {"open", "closed"}
  <2>1. peak[s] \in Nat
    BY <1>1 DEF TypeOK, Versions
  <2>2. peak'[s] # 0
    BY <1>3, <1>4, <2>1
  <2> QED
    BY <2>2 DEF Phase
<1>7. peak[s] > 0 => Phase(s) = "open"
  BY <1>0, <1>1, <1>4 DEF Phase, Settled, Engaged
<1>8. peak[s] \in Nat /\ peak' = [peak EXCEPT ![s] = peak[s] + 1]
  BY <1>1, <1>2, <1>3, <1>4 DEF TypeOK, Versions
<1> HIDE DEF row
<1> DEFINE ph == [x \in SessionIds |-> Phase(x)]
<1>9. [x \in SessionIds |-> Phase(x)'] = [ph EXCEPT ![s] = Phase(s)']
  <2>1. \A x \in SessionIds : x # s => Phase(x)' = ph[x]
    BY <1>5
  <2> HIDE DEF ph
  <2>2. ph = [x \in SessionIds |-> ph[x]]
    BY DEF ph
  <2> QED
    BY <1>1, <2>1, <2>2
<1>10. CASE peak[s] = 0
  <2>1. ph[s] = "fresh" /\ peak' = [peak EXCEPT ![s] = 1]
    BY <1>1, <1>8, <1>10 DEF Phase
  <2>2. Registry!Open(s)
    BY <1>1, <1>6, <1>9, <2>1 DEF Registry!Open
  <2> QED
    BY <1>1, <2>2 DEF Registry!Next
<1>11. CASE peak[s] > 0
  <2>1. Registry!Rotate(s)
    BY <1>1, <1>6, <1>7, <1>8, <1>9, <1>11 DEF Registry!Rotate
  <2> QED
    BY <1>1, <2>1 DEF Registry!Next
<1> QED
  BY <1>8, <1>10, <1>11

(* The detailed module implements the abstract one, for every number of    *)
(* users, sessions and concurrent requests: closed sessions stay closed    *)
(* and credentials follow each other one generation at a time.             *)
THEOREM ImplementsRegistry == Spec => RegistrySpec
<1>1. Init => Registry!Init
  BY DEF Init, Registry!Init, Phase
<1>2. TypeOK /\ TypeOK' /\ VersionsFollowSaves /\ [Next]_vars
        => [Registry!Next]_(Registry!registryVars)
  BY PeakStep, CloseStep, SaveStep
<1> QED
  BY <1>1, <1>2, TypeCorrect, VersionsCorrect, PTL
     DEF Spec, RegistrySpec, Registry!Spec

-----------------------------------------------------------------------------
(* Whose sessions a request ends.  A session id is drawn once, for one     *)
(* user: every token that names it is that user's, and so is its row.      *)

Names(t, o) == t.sid # None => t.sid \in drawn /\ o[t.sid] = t.user

OwnedBy(o) ==
  /\ \A t \in issued : Names(t, o)
  /\ \A r \in Requests : req[r].pc # "idle" =>
       /\ Names(req[r].token, o)
       /\ req[r].row # None => req[r].row.owner = req[r].token.user
  /\ \A s \in SessionIds :
       sessions[s] # None => s \in drawn /\ sessions[s].owner = o[s]

OwnerInv == \E o \in [SessionIds -> Users \cup {None}] : OwnedBy(o)

(* What a revocation leaves of a row.                                      *)
LEMMA RevokeKeepsOwners ==
  ASSUME TypeOK, NEW S, RevokeWhere(S), NEW s \in SessionIds
  PROVE  /\ sessions'[s] # None =>
              sessions[s] # None /\ sessions'[s].owner = sessions[s].owner
         /\ sessions'[s] # sessions[s] => s \in S /\ sessions[s] # None
<1>1. CASE s \in S /\ sessions[s] # None
  <2> DEFINE row == [sessions[s] EXCEPT !.revoked = TRUE]
  <2>1. sessions'[s] = row /\ sessions[s] \in Row
    BY <1>1 DEF RevokeWhere, TypeOK
  <2>2. row.owner = sessions[s].owner
    BY <2>1 DEF Row
  <2> QED
    BY <1>1, <2>1, <2>2
<1>2. CASE ~ (s \in S /\ sessions[s] # None)
  BY <1>2 DEF RevokeWhere
<1> QED
  BY <1>1, <1>2

(* A request keeps its token's name and the owner of the row it holds,     *)
(* ends, or begins for a user without a session.                           *)
Keeps(r) ==
  LET q == req'[r] IN
    \/ q.pc = "idle"
    \/ q.token.sid = None /\ q.row = None
    \/ /\ req[r].pc # "idle"
       /\ q.token.sid = req[r].token.sid /\ q.token.user = req[r].token.user
       /\ q.row # None => /\ req[r].row # None
                          /\ q.row.owner = req[r].row.owner

LEMMA KeepsName ==
  ASSUME TypeOK, NEW r \in Requests, RequestStep(r)
  PROVE  \/ Keeps(r) /\ UNCHANGED drawn
         \/ \E s \in SessionIds : CreateLoginSession(r, s)
         \/ \E t \in issued : RefreshRead(r, t) \/ Authorize(r, t)
         \/ TouchRead(r)
<1>1. ASSUME NEW u \in Users,
             \/ UserRead(r, u) \/ ResetPassword(r, u)
             \/ Login(r, u) \/ RemoveUser(r, u)
      PROVE  Keeps(r) /\ UNCHANGED drawn
  <2>1. PICK pc, on : req' = [req EXCEPT ![r] =
                        [Idle EXCEPT !.pc = pc, !.on = on, !.token = Staff(u)]]
    <3>1. RemoveUser(r, u) =>
            req' = [req EXCEPT ![r] = [Idle EXCEPT !.pc = "remove.revoke",
                                        !.on = Idle.on, !.token = Staff(u)]]
      BY DEF RemoveUser, Idle
    <3> QED
      BY <1>1, <3>1 DEF UserRead, ResetPassword, Login
  <2>2. req'[r].token = Staff(u) /\ req'[r].row = None
    BY <2>1, IdleType DEF TypeOK, Request
  <2> QED
    BY <1>1, <2>2
    DEF UserRead, ResetPassword, Login, RemoveUser, Keeps, Staff
<1>2. ASSUME \/ Reply(r) \/ Serve(r) \/ Abort(r) \/ UserSoftRemove(r)
             \/ ResetRevoke(r) \/ HandleRefreshTokenReuse(r)
             \/ LogoutCurrent(r) \/ LogoutAll(r)
             \/ \E s \in SessionIds : RevokeSpecificSession(r, s)
      PROVE  Keeps(r) /\ UNCHANGED drawn
  <2>1. req' = [req EXCEPT ![r] = Idle] /\ UNCHANGED drawn
    BY <1>2 DEF Reply, Serve, Abort, UserSoftRemove, ResetRevoke, LogoutAll,
                HandleRefreshTokenReuse, LogoutCurrent, RevokeSpecificSession,
                Finish
  <2> QED
    BY <2>1, IdleType DEF TypeOK, Keeps
<1>3. ASSUME \/ UserSave(r) \/ UserRevoke(r) \/ PasswordChange(r)
             \/ TouchGate(r) \/ TouchSet(r)
             \/ SaveIssued(r) \/ TouchSave(r)
      PROVE  Keeps(r) /\ UNCHANGED drawn
  <2>1. \/ req' = [req EXCEPT ![r] = Idle]
        \/ /\ req'[r].token = req[r].token /\ req[r].pc # "idle"
           /\ req'[r].row \in {None, req[r].row}
    BY <1>3 DEF UserSave, UserRevoke, PasswordChange, TouchGate, TouchSet,
                SaveIssued, TouchSave, Release, Move, Finish, TypeOK, Request
  <2>2. UNCHANGED drawn
    BY <1>3 DEF UserSave, UserRevoke, PasswordChange, TouchGate, TouchSet,
                SaveIssued, TouchSave
  <2> QED
    BY <2>1, <2>2, IdleType DEF TypeOK, Keeps
<1>4. ASSUME RefreshRotate(r) PROVE Keeps(r) /\ UNCHANGED drawn
  <2>1. /\ req[r].row \in Row /\ req[r].token \in Token
        /\ req[r].pc = "refresh.user" /\ UNCHANGED drawn
    BY <1>4 DEF RefreshRotate, TypeOK, Equipped, Request
  <2>2. /\ req'[r].token.sid = req[r].token.sid
        /\ req'[r].token.user = req[r].token.user
        /\ req'[r].row.owner = req[r].row.owner
    BY <1>4, <2>1 DEF RefreshRotate, TypeOK, Request, Row, Token
  <2> QED
    BY <2>1, <2>2 DEF Keeps
<1> QED
  BY <1>1, <1>2, <1>3, <1>4 DEF RequestStep

(* Rows change by a save of the request's row, or keep their owner.        *)
LEMMA RowsOf ==
  ASSUME TypeOK, NEW r \in Requests, RequestStep(r), NEW s \in SessionIds,
         sessions'[s] # None
  PROVE  \/ sessions[s] # None /\ sessions'[s].owner = sessions[s].owner
         \/ /\ s = req[r].token.sid /\ sessions'[s] = req[r].row
            /\ SaveIssued(r) \/ TouchSave(r)
<1>1. CASE sessions' = sessions
  BY <1>1
<1>2. CASE SaveIssued(r) \/ TouchSave(r)
  <2>1. /\ req[r].token.sid \in SessionIds /\ req[r].row \in Row
        /\ Save(req[r].token.sid, req[r].row)
    BY <1>2 DEF SaveIssued, TouchSave, Release, TypeOK, Equipped, Request, Token
  <2> QED
    BY <1>2, <2>1, SavePeak
<1>3. CASE RevokeStep(r)
  BY <1>3, RevokeKeepsOwners DEF RevokeStep
<1> QED
  BY <1>1, <1>2, <1>3, StepKinds
  DEF PassStep, CreateLoginSession, RefreshRead, RefreshRotate, TouchRead

LEMMA IssuedStep ==
  ASSUME NEW r \in Requests, RequestStep(r)
  PROVE  \/ issued' = issued
         \/ issued' = issued \cup {req[r].token} /\ Reply(r)
<1>1. ASSUME NEW u \in Users,
             \/ UserRead(r, u) \/ RemoveUser(r, u)
             \/ ResetPassword(r, u) \/ Login(r, u)
      PROVE  issued' = issued
  BY <1>1 DEF UserRead, RemoveUser, ResetPassword, Login
<1>2. ASSUME \/ UserRevoke(r) \/ ResetRevoke(r) \/ UserSave(r)
             \/ UserSoftRemove(r) \/ SaveIssued(r)
             \/ \E s \in SessionIds :
                  CreateLoginSession(r, s) \/ RevokeSpecificSession(r, s)
             \/ \E t \in issued : RefreshRead(r, t) \/ Authorize(r, t)
      PROVE  issued' = issued
  BY <1>2 DEF UserRevoke, ResetRevoke, UserSave, UserSoftRemove, SaveIssued,
              CreateLoginSession, RevokeSpecificSession, RefreshRead, Authorize
<1>3. ASSUME \/ HandleRefreshTokenReuse(r) \/ RefreshRotate(r)
             \/ TouchGate(r) \/ TouchRead(r) \/ TouchSave(r) \/ TouchSet(r)
             \/ PasswordChange(r) \/ LogoutCurrent(r) \/ LogoutAll(r)
             \/ Serve(r) \/ Abort(r)
      PROVE  issued' = issued
  BY <1>3 DEF HandleRefreshTokenReuse, RefreshRotate, TouchGate, TouchRead,
              TouchSave, TouchSet, PasswordChange, LogoutCurrent, LogoutAll,
              Serve, Abort
<1>4. Reply(r) => issued' = issued \cup {req[r].token}
  BY DEF Reply
<1> QED
  BY <1>1, <1>2, <1>3, <1>4 DEF RequestStep

(* A request that names a session stays one of the session's user.         *)
LEMMA NamesStep ==
  ASSUME TypeOK, NEW o \in [SessionIds -> Users \cup {None}], OwnedBy(o),
         NEW r \in Requests, RequestStep(r), req'[r].pc # "idle",
         ~ \E s \in SessionIds : CreateLoginSession(r, s)
  PROVE  LET q == req'[r] IN
           /\ q.token.sid # None =>
                q.token.sid \in drawn /\ o[q.token.sid] = q.token.user
           /\ q.row # None => q.row.owner = q.token.user
<1>1. CASE Keeps(r)
  BY <1>1 DEF Keeps, OwnedBy, Names
<1>2. ASSUME NEW t \in issued, RefreshRead(r, t) \/ Authorize(r, t)
      PROVE  /\ req'[r].token = t /\ t.sid \in drawn /\ o[t.sid] = t.user
             /\ req'[r].row # None => req'[r].row.owner = t.user
  <2>1. LiveFor(t) /\ t.sid # None
    BY <1>2 DEF RefreshRead, Authorize, TypeOK
  <2>2. /\ req'[r].token = t
        /\ req'[r].row \in {None, sessions[t.sid]}
    <3>1. CASE RefreshRead(r, t)
      BY <3>1, IdleType DEF RefreshRead, TypeOK, Request
    <3>2. CASE Authorize(r, t)
      BY <3>2, IdleType DEF Authorize, TypeOK, Request
    <3> QED
      BY <1>2, <3>1, <3>2
  <2> QED
    BY <2>1, <2>2 DEF OwnedBy, Names, LiveFor
<1>3. CASE TouchRead(r)
  <2>1. /\ req[r].pc # "idle" /\ req'[r].token = req[r].token
        /\ req'[r].row = FindActiveById(req[r].token.sid)
        /\ req[r].token.sid \in SessionIds
    BY <1>3 DEF TouchRead, TypeOK, Equipped, Request, Token
  <2>2. Names(req[r].token, o) /\ req[r].token.sid # None
    BY <2>1 DEF OwnedBy, NoneAssumption
  <2> QED
    BY <2>1, <2>2 DEF OwnedBy, Names, FindActiveById
<1> QED
  BY <1>1, <1>2, <1>3, KeepsName

LEMMA OwnerRequest ==
  ASSUME TypeOK, NEW o \in [SessionIds -> Users \cup {None}], OwnedBy(o),
         NEW r \in Requests, RequestStep(r)
  PROVE  OwnerInv'
<1>0. \A x \in Requests : x # r => req'[x] = req[x]
  BY OtherRequests
<1>1. ASSUME NEW s \in SessionIds, CreateLoginSession(r, s)
      PROVE  OwnerInv'
  <2>1. PICK u \in Users : u = req[r].token.user
    BY <1>1 DEF CreateLoginSession, TypeOK, Equipped, Request, Token
  <2>2. PICK p \in [SessionIds -> Users \cup {None}] :
          p[s] = u /\ \A x \in SessionIds : x # s => p[x] = o[x]
    <3>1. [o EXCEPT ![s] = u] \in [SessionIds -> Users \cup {None}]
      OBVIOUS
    <3> QED
      BY <3>1
  <2>3. /\ s \notin drawn /\ drawn' = drawn \cup {s}
        /\ UNCHANGED <<sessions, issued>>
    BY <1>1 DEF CreateLoginSession
  <2>4. /\ req'[r].token.sid = s /\ req'[r].token.user = u
        /\ req'[r].row.owner = u
    BY <1>1, <2>1 DEF CreateLoginSession, TypeOK
  <2>5. \A t \in Token : Names(t, o) => Names(t, p)'
    BY <2>2, <2>3 DEF Names, Token
  <2>6. ASSUME NEW t \in issued' PROVE Names(t, p)'
    BY <2>3, <2>5, <2>6 DEF OwnedBy, TypeOK
  <2>7. ASSUME NEW x \in Requests, req'[x].pc # "idle"
        PROVE  /\ req'[x].token.sid # None =>
                    /\ req'[x].token.sid \in drawn'
                    /\ p[req'[x].token.sid] = req'[x].token.user
               /\ req'[x].row # None => req'[x].row.owner = req'[x].token.user
    <3>1. CASE x = r
      BY <2>2, <2>3, <2>4, <3>1 DEF Names
    <3>2. CASE x # r
      <4>1. req[x].token \in Token /\ req'[x] = req[x]
        BY <1>0, <2>7, <3>2 DEF TypeOK, Request, Equipped
      <4> QED
        BY <2>2, <2>3, <2>7, <4>1 DEF OwnedBy, Names, Token
    <3> QED
      BY <3>1, <3>2
  <2>8. \A x \in SessionIds :
          sessions'[x] # None => x \in drawn' /\ sessions'[x].owner = p[x]
    BY <2>2, <2>3 DEF OwnedBy
  <2>9. OwnedBy(p)'
    BY <2>6, <2>7, <2>8 DEF OwnedBy, Names
  <2> QED
    BY <2>2, <2>9 DEF OwnerInv
<1>2. CASE ~ \E s \in SessionIds : CreateLoginSession(r, s)
  <2>1. drawn' = drawn
    BY <1>2, KeepsName DEF RefreshRead, Authorize, TouchRead
  <2>2. ASSUME NEW x \in Requests, req'[x].pc # "idle"
        PROVE  /\ req'[x].token.sid # None =>
                    /\ req'[x].token.sid \in drawn'
                    /\ o[req'[x].token.sid] = req'[x].token.user
               /\ req'[x].row # None => req'[x].row.owner = req'[x].token.user
    <3>1. CASE x = r
      BY <1>2, <2>1, <2>2, <3>1, NamesStep
    <3>2. CASE x # r
      BY <1>0, <2>1, <2>2, <3>2 DEF OwnedBy, Names
    <3> QED
      BY <3>1, <3>2
  <2>3. ASSUME NEW t \in issued'
        PROVE  t.sid # None => t.sid \in drawn' /\ o[t.sid] = t.user
    <3>1. CASE t \in issued
      BY <2>1, <3>1 DEF OwnedBy, Names
    <3>2. CASE t = req[r].token /\ req[r].pc # "idle"
      BY <2>1, <3>2 DEF OwnedBy, Names
    <3> QED
      BY <2>3, <3>1, <3>2, IssuedStep DEF Reply, Finish
  <2>4. ASSUME NEW s \in SessionIds, sessions'[s] # None
        PROVE  s \in drawn' /\ sessions'[s].owner = o[s]
    <3>1. CASE sessions[s] # None /\ sessions'[s].owner = sessions[s].owner
      BY <2>1, <3>1 DEF OwnedBy
    <3>2. CASE /\ s = req[r].token.sid /\ sessions'[s] = req[r].row
               /\ SaveIssued(r) \/ TouchSave(r)
      <4>1. req[r].pc # "idle" /\ req[r].row # None
        BY <3>2 DEF SaveIssued, TouchSave, Release, TypeOK, Equipped
      <4> QED
        BY <2>1, <3>2, <4>1 DEF OwnedBy, Names
    <3> QED
      BY <2>4, <3>1, <3>2, RowsOf
  <2>5. OwnedBy(o)'
    BY <2>2, <2>3, <2>4 DEF OwnedBy, Names
  <2> QED
    BY <2>5 DEF OwnerInv
<1> QED
  BY <1>1, <1>2

LEMMA OwnerStep == TypeOK /\ OwnerInv /\ [Next]_vars => OwnerInv'
<1> SUFFICES ASSUME TypeOK, NEW o \in [SessionIds -> Users \cup {None}], OwnedBy(o),
                    [Next]_vars
             PROVE  OwnerInv'
  BY DEF OwnerInv
<1>1. ASSUME NEW r \in Requests, RequestStep(r) PROVE OwnerInv'
  BY <1>1, OwnerRequest
<1>2. ASSUME UNCHANGED <<issued, req, drawn>>,
             \A s \in SessionIds : sessions'[s] \in {None, sessions[s]}
      PROVE  OwnerInv'
  <2>1. OwnedBy(o)'
    BY <1>2 DEF OwnedBy, Names
  <2> QED
    BY <2>1 DEF OwnerInv
<1>3. CASE CleanupExpiredOrRevoked
  BY <1>2, <1>3 DEF CleanupExpiredOrRevoked
<1>4. CASE Tick \/ (\E s \in SessionIds : ExpireThrottle(s)) \/ UNCHANGED vars
  BY <1>2, <1>4 DEF Tick, ExpireThrottle, vars
<1> QED
  BY <1>1, <1>3, <1>4 DEF Next

LEMMA OwnerInit == Init => OwnerInv
<1> SUFFICES ASSUME Init PROVE OwnerInv
  OBVIOUS
<1>1. \A r \in Requests : req[r].pc = "idle"
  BY IdleType DEF Init
<1>2. \A o : OwnedBy(o)
  BY <1>1 DEF Init, OwnedBy
<1>3. [s \in SessionIds |-> None] \in [SessionIds -> Users \cup {None}]
  OBVIOUS
<1> QED
  BY <1>2, <1>3 DEF OwnerInv

LEMMA OwnStep ==
  ASSUME TypeOK, OwnerInv, [Next]_vars, NEW r \in Requests,
         NEW s \in SessionIds, req'[r] # req[r],
         req[r].pc \in {"authorized", "user.revoke"},
         sessions'[s] # sessions[s]
  PROVE  /\ sessions[s].owner = req[r].token.user
         /\ req[r].pc = "user.revoke" => s # req[r].token.sid
<1>1. PICK o : OwnedBy(o)
  BY DEF OwnerInv
<1>2. RequestStep(r)
  <2>1. ASSUME NEW x \in Requests, RequestStep(x), x # r
        PROVE  req'[r] = req[r]
    BY <2>1, OtherRequests
  <2> QED
    BY <2>1 DEF Next, CleanupExpiredOrRevoked, ExpireThrottle, Tick, vars
<1>3. \/ UserRevoke(r) \/ LogoutCurrent(r) \/ LogoutAll(r)
      \/ \E x \in SessionIds : RevokeSpecificSession(r, x)
  <2>1. ASSUME NEW u \in Users,
               \/ UserRead(r, u) \/ RemoveUser(r, u)
               \/ ResetPassword(r, u) \/ Login(r, u)
        PROVE  sessions' = sessions
    BY <2>1 DEF UserRead, RemoveUser, ResetPassword, Login
  <2>2. ASSUME \/ UserSave(r) \/ UserSoftRemove(r) \/ Reply(r) \/ Serve(r)
               \/ Abort(r) \/ TouchGate(r) \/ TouchRead(r) \/ TouchSet(r)
               \/ PasswordChange(r) \/ RefreshRotate(r)
               \/ \E x \in SessionIds : CreateLoginSession(r, x)
               \/ \E t \in issued : RefreshRead(r, t) \/ Authorize(r, t)
        PROVE  sessions' = sessions
    BY <2>2 DEF UserSave, UserSoftRemove, Reply, Serve, Abort, TouchGate,
                TouchRead, TouchSet, PasswordChange, RefreshRotate,
                CreateLoginSession, RefreshRead, Authorize
  <2>3. ASSUME \/ SaveIssued(r) \/ TouchSave(r) \/ ResetRevoke(r)
               \/ HandleRefreshTokenReuse(r)
        PROVE  req[r].pc \notin {"authorized", "user.revoke"}
    BY <2>3 DEF SaveIssued, TouchSave, ResetRevoke, HandleRefreshTokenReuse,
                Release, Finish
  <2> QED
    BY <1>2, <2>1, <2>2, <2>3 DEF RequestStep
<1>4. ASSUME NEW S, RevokeWhere(S) PROVE s \in S /\ sessions[s] # None
  BY <1>4, RevokeKeepsOwners
<1>5. CASE LogoutCurrent(r)
  <2>1. /\ s = req[r].token.sid /\ sessions[s] # None
        /\ req[r].pc = "authorized"
    BY <1>4, <1>5 DEF LogoutCurrent, Finish
  <2>2. Names(req[r].token, o) /\ sessions[s].owner = o[s]
    BY <1>1, <2>1 DEF OwnedBy
  <2> QED
    BY <2>1, <2>2 DEF Names, NoneAssumption
<1>6. CASE LogoutAll(r)
  BY <1>4, <1>6 DEF LogoutAll, Finish, SessionsOf
<1>7. ASSUME NEW x \in SessionIds, RevokeSpecificSession(r, x)
      PROVE  req[r].pc = "authorized" /\ sessions[s].owner = req[r].token.user
  BY <1>4, <1>7 DEF RevokeSpecificSession, Finish, SessionsOf
<1>8. CASE UserRevoke(r)
  BY <1>4, <1>8 DEF UserRevoke, SessionsOf
<1> QED
  BY <1>3, <1>5, <1>6, <1>7, <1>8

(* For any users, sessions and requests and however these overlap: what an *)
(* authorized request, or a password change, takes away are sessions of    *)
(* the user who sent it, the one it came with excepted in the latter.      *)
THEOREM OnlyOwnSessionsEnd == Spec => OwnSessionsOnly
<1>1. TypeOK /\ OwnerInv /\ [Next]_vars
        => [\A r \in Requests, s \in SessionIds :
              /\ req'[r] # req[r]
              /\ req[r].pc \in {"authorized", "user.revoke"}
              /\ sessions'[s] # sessions[s]
              => /\ sessions[s].owner = req[r].token.user
                 /\ req[r].pc = "user.revoke" => s # req[r].token.sid]_vars
  BY OwnStep
<1> QED
  BY <1>1, TypeCorrect, OwnerInit, OwnerStep, PTL DEF Spec, OwnSessionsOnly

-----------------------------------------------------------------------------
(* One request at a time for each user: no two in progress are about the   *)
(* same user, be it the one who sent them or the one an administrator      *)
(* edits.  Any number for other users, the cleanup and the clock still     *)
(* move at the awaits.  Then the row of a session, and the copy a request  *)
(* takes of it, have the highest version ever saved, and nothing revokes   *)
(* the row while the copy is held.                                         *)

OnePerUser ==
  \A r, x \in Requests :
    /\ req[r].pc # "idle" /\ req[x].pc # "idle"
    /\ req[r].token.user = req[x].token.user
    => r = x

Saves == {"login.save", "refresh.user", "refresh.save", "touch.save"}

SoleRequest(q) ==
  LET s == q.token.sid IN
    /\ q.pc = "login.save" =>
         peak[s] = 0 /\ q.row.version = 1 /\ q.token.version = 1
    /\ q.pc \in {"refresh.user", "touch.save"} => q.row.version = peak[s]
    /\ q.pc = "refresh.save" =>
         q.row.version = peak[s] + 1 /\ q.token.version = q.row.version
    /\ q.pc = "reply" => q.token.version <= peak[s]
    /\ q.pc = "reuse.revoke" => q.token.version < peak[s]
    /\ q.pc \in Saves /\ sessions[s] # None => sessions[s].revoked = FALSE

SoleInv ==
  /\ \A t \in issued : t.version <= peak[t.sid]
  /\ \A s \in SessionIds : s \notin drawn => peak[s] = 0
  /\ \A s \in SessionIds : sessions[s] # None => sessions[s].version = peak[s]
  /\ \A r \in Requests, q \in Request :
       req[r] = q /\ q.pc # "idle" => SoleRequest(q)

(* A step that writes a row is about the user the session belongs to.      *)
LEMMA WritesOwn ==
  ASSUME TypeOK, NEW o \in [SessionIds -> Users \cup {None}], OwnedBy(o),
         NEW r \in Requests, RequestStep(r), NEW s \in SessionIds,
         sessions'[s] # sessions[s] \/ peak'[s] # peak[s]
  PROVE  req[r].pc # "idle" /\ o[s] = req[r].token.user
<1>1. CASE SaveIssued(r) \/ TouchSave(r)
  <2>1. /\ req[r].pc # "idle" /\ Save(req[r].token.sid, req[r].row)
        /\ req[r].token.sid \in SessionIds /\ req[r].row \in Row
    BY <1>1 DEF SaveIssued, TouchSave, Release, TypeOK, Equipped, Request, Token
  <2>2. s = req[r].token.sid
    BY <2>1, SavePeak
  <2>3. o[req[r].token.sid] = req[r].token.user
    BY <2>1 DEF OwnedBy, Names, NoneAssumption
  <2> QED
    BY <2>1, <2>2, <2>3
<1>2. ASSUME NEW S, RevokeWhere(S), peak' = peak
      PROVE  s \in S /\ sessions[s] # None /\ sessions[s].owner = o[s]
  BY <1>2, RevokeKeepsOwners DEF OwnedBy
<1>3. ASSUME \/ ResetRevoke(r) \/ HandleRefreshTokenReuse(r) \/ LogoutAll(r)
             \/ UserRevoke(r)
      PROVE  req[r].pc # "idle" /\ o[s] = req[r].token.user
  <2>1. PICK S \in SUBSET SessionsOf(req[r].token.user) :
          RevokeWhere(S) /\ peak' = peak
    BY <1>3 DEF ResetRevoke, HandleRefreshTokenReuse, LogoutAll, UserRevoke
  <2>2. req[r].pc # "idle"
    BY <1>3 DEF ResetRevoke, HandleRefreshTokenReuse, LogoutAll, UserRevoke,
                Finish, Move
  <2>3. sessions[s].owner = req[r].token.user
    BY <1>2, <2>1 DEF SessionsOf
  <2> QED
    BY <1>2, <2>1, <2>2, <2>3
<1>4. ASSUME NEW x \in SessionIds, RevokeSpecificSession(r, x)
      PROVE  req[r].pc # "idle" /\ o[s] = req[r].token.user
  <2>1. /\ req[r].pc # "idle" /\ x \in SessionsOf(req[r].token.user)
        /\ RevokeWhere({x}) /\ peak' = peak
    BY <1>4 DEF RevokeSpecificSession, Finish
  <2>2. s = x /\ sessions[s].owner = o[s]
    BY <1>2, <2>1
  <2> QED
    BY <2>1, <2>2 DEF SessionsOf
<1>5. CASE LogoutCurrent(r)
  <2>1. /\ req[r].pc # "idle" /\ RevokeWhere({req[r].token.sid})
        /\ peak' = peak
    BY <1>5 DEF LogoutCurrent, Finish
  <2>2. s = req[r].token.sid
    BY <1>2, <2>1
  <2> QED
    BY <2>1, <2>2 DEF OwnedBy, Names, NoneAssumption
<1>6. ASSUME NEW u \in Users,
             \/ UserRead(r, u) \/ RemoveUser(r, u)
             \/ ResetPassword(r, u) \/ Login(r, u)
      PROVE  FALSE
  BY <1>6 DEF UserRead, RemoveUser, ResetPassword, Login
<1>7. ASSUME \/ UserSave(r) \/ UserSoftRemove(r) \/ Reply(r) \/ Serve(r)
             \/ Abort(r) \/ TouchGate(r) \/ TouchRead(r) \/ TouchSet(r)
             \/ PasswordChange(r) \/ RefreshRotate(r)
             \/ \E x \in SessionIds : CreateLoginSession(r, x)
             \/ \E t \in issued : RefreshRead(r, t) \/ Authorize(r, t)
      PROVE  FALSE
  BY <1>7 DEF UserSave, UserSoftRemove, Reply, Serve, Abort, TouchGate,
              TouchRead, TouchSet, PasswordChange, RefreshRotate,
              CreateLoginSession, RefreshRead, Authorize
<1> QED
  BY <1>1, <1>3, <1>4, <1>5, <1>6, <1>7 DEF RequestStep

(* What is known of a request outlives the steps of other users' requests. *)
LEMMA OthersApart ==
  ASSUME TypeOK, OwnerInv, SoleInv, OnePerUser,
         NEW r \in Requests, RequestStep(r),
         NEW x \in Requests, x # r, NEW q \in Request, req[x] = q,
         q.pc # "idle"
  PROVE  SoleRequest(q)'
<1>1. SoleRequest(q) /\ Equipped(q)
  BY DEF SoleInv, TypeOK
<1>2. CASE q.token.sid = None
  <2>1. q.pc \notin Saves \cup {"reply", "reuse.revoke"}
    BY <1>1, <1>2 DEF Equipped, Saves
  <2> QED
    BY <2>1 DEF SoleRequest, Saves
<1>3. CASE q.token.sid # None
  <2>1. PICK o \in [SessionIds -> Users \cup {None}] : OwnedBy(o)
    BY DEF OwnerInv
  <2>2. q.token.sid \in SessionIds /\ o[q.token.sid] = q.token.user
    BY <1>1, <1>3, <2>1 DEF Equipped, Request, Token, OwnedBy, Names
  <2>3. /\ sessions'[q.token.sid] = sessions[q.token.sid]
        /\ peak'[q.token.sid] = peak[q.token.sid]
    <3> SUFFICES ASSUME \/ sessions'[q.token.sid] # sessions[q.token.sid]
                        \/ peak'[q.token.sid] # peak[q.token.sid]
                 PROVE  FALSE
      OBVIOUS
    <3>1. req[r].pc # "idle" /\ req[r].token.user = q.token.user
      BY <2>1, <2>2, WritesOwn
    <3> QED
      BY <3>1 DEF OnePerUser
  <2> QED
    BY <1>1, <2>3 DEF SoleRequest
<1> QED
  BY <1>2, <1>3

(* A pair is returned after its save; reuse is a verdict of the read.      *)
LEMMA Verdicts ==
  ASSUME TypeOK, NEW r \in Requests, RequestStep(r),
         req'[r].pc \in {"reply", "reuse.revoke"}
  PROVE  SaveIssued(r) \/ \E t \in issued : RefreshRead(r, t)
<1>1. ASSUME NEW u \in Users,
             \/ UserRead(r, u) \/ ResetPassword(r, u)
             \/ Login(r, u) \/ RemoveUser(r, u)
      PROVE  FALSE
  <2>1. ASSUME NEW pc \in {"user.save", "user.revoke", "reset.user",
                           "login.user", "remove.revoke"}, NEW on,
               req' = [req EXCEPT ![r] = [Idle EXCEPT !.pc = pc, !.on = on,
                                                      !.token = Staff(u)]]
        PROVE  FALSE
    BY <2>1, IdleType DEF TypeOK, Request
  <2>2. CASE UserRead(r, u)
    BY <2>1, <2>2 DEF UserRead
  <2>3. CASE ResetPassword(r, u)
    BY <2>1, <2>3 DEF ResetPassword
  <2>4. CASE Login(r, u)
    BY <2>1, <2>4 DEF Login
  <2>5. CASE RemoveUser(r, u)
    <3>1. req' = [req EXCEPT ![r] = [Idle EXCEPT !.pc = "remove.revoke",
                                      !.on = Idle.on, !.token = Staff(u)]]
      BY <2>5 DEF RemoveUser, Idle
    <3> QED
      BY <2>1, <3>1
  <2> QED
    BY <1>1, <2>2, <2>3, <2>4, <2>5
<1>2. ASSUME \/ Reply(r) \/ Serve(r) \/ Abort(r) \/ UserSoftRemove(r)
             \/ ResetRevoke(r) \/ HandleRefreshTokenReuse(r)
             \/ LogoutCurrent(r) \/ LogoutAll(r)
             \/ \E s \in SessionIds : RevokeSpecificSession(r, s)
      PROVE  FALSE
  <2>1. req' = [req EXCEPT ![r] = Idle]
    BY <1>2 DEF Reply, Serve, Abort, UserSoftRemove, ResetRevoke, LogoutAll,
                HandleRefreshTokenReuse, LogoutCurrent, RevokeSpecificSession,
                Finish
  <2> QED
    BY <2>1, IdleType DEF TypeOK
<1>3. ASSUME UserSave(r) \/ UserRevoke(r) \/ PasswordChange(r)
      PROVE  FALSE
  BY <1>3, IdleType
  DEF UserSave, UserRevoke, PasswordChange, Move, Finish, TypeOK, Request
<1>4. ASSUME \/ TouchGate(r) \/ TouchRead(r) \/ TouchSave(r) \/ TouchSet(r)
             \/ RefreshRotate(r)
      PROVE  FALSE
  BY <1>4 DEF TouchGate, TouchRead, TouchSave, TouchSet, RefreshRotate, Move,
              Release, TypeOK, Request
<1>5. ASSUME NEW s \in SessionIds, CreateLoginSession(r, s) PROVE FALSE
  BY <1>5 DEF CreateLoginSession, TypeOK
<1>6. ASSUME NEW t \in issued, Authorize(r, t) PROVE FALSE
  BY <1>6, IdleType DEF Authorize, TypeOK, Request
<1> QED
  BY <1>1, <1>2, <1>3, <1>4, <1>5, <1>6 DEF RequestStep

LEMMA SoleSave ==
  ASSUME TypeOK, TypeOK', OwnerInv, SoleInv, OnePerUser, NEW r \in Requests,
         SaveIssued(r) \/ TouchSave(r)
  PROVE  SoleInv'
<1>0. PICK q \in Request : q = req[r]
  BY DEF TypeOK
<1>1. /\ q.pc \in {"login.save", "refresh.save", "touch.save"}
      /\ q.row \in Row /\ q.token \in Token /\ q.token.sid \in SessionIds
      /\ Save(q.token.sid, q.row) /\ UNCHANGED <<drawn, issued>>
      /\ req'[r].token = q.token
      /\ req'[r].pc = IF q.pc = "touch.save" THEN "touch.set" ELSE "reply"
  BY <1>0 DEF SaveIssued, TouchSave, Release, TypeOK, Equipped, Request, Token
<1>2. PICK s \in SessionIds : s = q.token.sid
  BY <1>1
<1>3. /\ SoleRequest(q) /\ s \in drawn
      /\ peak[s] \in Nat /\ q.row.version \in Nat
  <2>1. q.token.sid \in drawn
    BY <1>0, <1>1 DEF OwnerInv, OwnedBy, Names, NoneAssumption
  <2> QED
    BY <1>0, <1>1, <1>2, <2>1 DEF SoleInv, TypeOK, Versions, Row
<1>4. /\ q.row.version >= peak[s]
      /\ q.pc # "touch.save" => q.token.version = q.row.version
  BY <1>1, <1>2, <1>3 DEF SoleRequest
<1>5. /\ sessions'[s] = q.row /\ peak'[s] = q.row.version
      /\ \A x \in SessionIds : x # s => /\ sessions'[x] = sessions[x]
                                       /\ peak'[x] = peak[x]
  <2>1. /\ sessions'[s] = q.row /\ peak'[s] >= q.row.version
        /\ peak'[s] = peak[s] \/ peak'[s] = q.row.version
        /\ \A x \in SessionIds : x # s => /\ sessions'[x] = sessions[x]
                                         /\ peak'[x] = peak[x]
    BY <1>1, <1>2, SavePeak
  <2> QED
    BY <1>3, <1>4, <2>1
<1>6. ASSUME NEW t \in issued' PROVE t.version <= peak'[t.sid]
  <2>1. /\ t.version <= peak[t.sid] /\ t.sid \in SessionIds
        /\ t.version \in Nat
    BY <1>1, <1>6 DEF SoleInv, TypeOK, Token, Versions
  <2>2. CASE t.sid = s
    BY <1>3, <1>4, <1>5, <2>1, <2>2
  <2>3. CASE t.sid # s
    BY <1>5, <2>1, <2>3
  <2> QED
    BY <2>2, <2>3
<1>7. ASSUME NEW x \in Requests, NEW p \in Request, req'[x] = p,
             p.pc # "idle"
      PROVE  SoleRequest(p)'
  <2>1. CASE x # r
    BY <1>7, <2>1, OthersApart, OtherRequests DEF RequestStep
  <2>2. CASE x = r
    <3>1. /\ p.token = q.token /\ p.pc \in {"touch.set", "reply"}
          /\ p.pc = "reply" => q.pc # "touch.save"
      BY <1>1, <1>7, <2>2
    <3>2. p.token.sid = s /\ (p.pc = "reply" => p.token.version = q.row.version)
      BY <1>2, <1>4, <3>1
    <3>3. p.pc = "reply" => p.token.version <= peak'[s]
      BY <1>3, <1>5, <3>2
    <3> QED
      BY <3>1, <3>2, <3>3 DEF SoleRequest, Saves
  <2> QED
    BY <2>1, <2>2
<1>8. \A x \in SessionIds : x \notin drawn' => peak'[x] = 0
  BY <1>1, <1>3, <1>5 DEF SoleInv
<1>9. \A x \in SessionIds :
        sessions'[x] # None => sessions'[x].version = peak'[x]
  BY <1>1, <1>3, <1>5 DEF SoleInv
<1>10. \A x \in Requests, p \in Request :
         req'[x] = p /\ p.pc # "idle" => SoleRequest(p)'
  BY <1>7
<1> QED
  BY <1>6, <1>8, <1>9, <1>10, Zenon DEF SoleInv

(* A step of the request that writes no version.                           *)
LEMMA SoleFrame ==
  ASSUME TypeOK, TypeOK', OwnerInv, SoleInv, OnePerUser, NEW r \in Requests,
         RequestStep(r), peak' = peak, drawn \subseteq drawn',
         \A s \in SessionIds : sessions'[s] # None =>
           sessions[s] # None /\ sessions'[s].version = sessions[s].version,
         \A q \in Request : req'[r] = q /\ q.pc # "idle" => SoleRequest(q)'
  PROVE  SoleInv'
<1>1. ASSUME NEW t \in issued' PROVE t.version <= peak'[t.sid]
  <2>1. CASE t \in issued
    BY <2>1 DEF SoleInv
  <2>2. CASE t = req[r].token /\ Reply(r)
    <3>1. PICK q \in Request : q = req[r]
      BY DEF TypeOK
    <3>2. q.pc = "reply" /\ SoleRequest(q)
      BY <2>2, <3>1 DEF Reply, Finish, SoleInv
    <3> QED
      BY <2>2, <3>1, <3>2 DEF SoleRequest
  <2> QED
    BY <1>1, <2>1, <2>2, IssuedStep
<1>2. \A s \in SessionIds : /\ s \notin drawn' => peak'[s] = 0
                           /\ sessions'[s] # None => sessions'[s].version = peak'[s]
  BY DEF SoleInv
<1>3. ASSUME NEW x \in Requests, NEW q \in Request, req'[x] = q,
             q.pc # "idle"
      PROVE  SoleRequest(q)'
  BY <1>3, OthersApart, OtherRequests
<1> QED
  BY <1>1, <1>2, <1>3 DEF SoleInv

LEMMA SoleRequestStep ==
  ASSUME TypeOK, TypeOK', OwnerInv, SoleInv, OnePerUser,
         NEW r \in Requests, RequestStep(r)
  PROVE  SoleInv'
<1>0. PICK q \in Request : q = req[r]
  BY DEF TypeOK
<1>1. PICK p \in Request : p = req'[r]
  BY DEF TypeOK
<1>2. CASE SaveIssued(r) \/ TouchSave(r)
  BY <1>2, SoleSave
<1>3. ASSUME peak' = peak, drawn \subseteq drawn', sessions' = sessions,
             SoleRequest(p)'
      PROVE  SoleInv'
  BY <1>1, <1>3, SoleFrame
<1>4. ASSUME NEW s \in SessionIds, CreateLoginSession(r, s)
      PROVE  SoleInv'
  <2>1. /\ p.pc = "login.save" /\ p.token.sid = s
        /\ p.token.version = 1 /\ p.row.version = 1
        /\ s \notin drawn /\ drawn' = drawn \cup {s}
        /\ sessions' = sessions /\ peak' = peak
    BY <1>1, <1>4 DEF CreateLoginSession, TypeOK
  <2>2. peak'[s] = 0 /\ sessions'[s] = None
    BY <2>1 DEF SoleInv, OwnerInv, OwnedBy
  <2>3. SoleRequest(p)'
    BY <2>1, <2>2 DEF SoleRequest, Saves
  <2> QED
    BY <1>3, <2>1, <2>3
<1>5. ASSUME NEW t \in issued, RefreshRead(r, t)
      PROVE  SoleInv'
  <2>1. /\ p.token = t /\ peak' = peak /\ t.sid \in SessionIds
        /\ sessions[t.sid] # None /\ sessions[t.sid].revoked = FALSE
        /\ p.pc \in {"refresh.user", "reuse.revoke"}
        /\ p.pc = "reuse.revoke" => t.version # sessions[t.sid].version
        /\ p.row = sessions[t.sid]
        /\ sessions' = sessions /\ drawn' = drawn
    BY <1>1, <1>5, IdleType
    DEF RefreshRead, LiveFor, Live, TypeOK, Request, Token, Row
  <2>2. /\ t.version <= peak[t.sid] /\ t.version \in Nat
        /\ peak[t.sid] \in Nat /\ sessions[t.sid].version = peak[t.sid]
    BY <2>1 DEF SoleInv, TypeOK, Token, Versions
  <2>3. p.pc = "reuse.revoke" => t.version < peak'[t.sid]
    BY <2>1, <2>2
  <2>4. SoleRequest(p)'
    BY <2>1, <2>2, <2>3 DEF SoleRequest, Saves
  <2> QED
    BY <1>3, <2>1, <2>4
<1>6. CASE RefreshRotate(r)
  <2>1. /\ q.row \in Row /\ q.token \in Token
        /\ q.pc = "refresh.user"
        /\ UNCHANGED <<sessions, peak, drawn>>
    BY <1>0, <1>6 DEF RefreshRotate, TypeOK, Equipped, Request
  <2>2. /\ p.pc = "refresh.save" /\ p.token.sid = q.token.sid
        /\ p.row.version = q.row.version + 1
        /\ p.token.version = q.row.version + 1
    <3>1. /\ q \in Request /\ req[r] = q /\ req'[r] = p
          /\ req \in [Requests -> Request]
      BY <1>0, <1>1 DEF TypeOK
    <3>2. PICK v : v = q.row.version + 1
      OBVIOUS
    <3>3. PICK tk, row :
            /\ tk = [q.token EXCEPT !.version = v, !.issued = now]
            /\ row = [q.row EXCEPT !.version = v,
                                   !.expiresAt = now + RefreshTTL]
      OBVIOUS
    <3>4. /\ tk.sid = q.token.sid /\ tk.version = v /\ row.version = v
      BY <2>1, <3>3 DEF Token, Row
    <3>5. req' = [req EXCEPT ![r] = [q EXCEPT !.pc = "refresh.save",
                                             !.token = tk, !.row = row]]
      BY <1>6, <3>1, <3>2, <3>3 DEF RefreshRotate
    <3>6. p = [q EXCEPT !.pc = "refresh.save", !.token = tk, !.row = row]
      BY <3>1, <3>5
    <3>7. p.pc = "refresh.save" /\ p.token = tk /\ p.row = row
      BY <3>1, <3>6 DEF Request
    <3> QED
      BY <3>2, <3>4, <3>7
  <2>3. SoleRequest(q)
    BY <1>0, <2>1 DEF SoleInv
  <2>4. SoleRequest(p)'
    BY <2>1, <2>2, <2>3 DEF SoleRequest, Saves
  <2> QED
    BY <1>3, <2>1, <2>4
<1>7. CASE TouchRead(r)
  <2>1. /\ UNCHANGED <<sessions, peak, drawn>> /\ q.token.sid \in SessionIds
        /\ p.pc \in {"touch.save", "touch.set"} /\ p.token = q.token
        /\ p.row = FindActiveById(q.token.sid)
        /\ p.pc = "touch.save" => p.row # None
    BY <1>0, <1>1, <1>7 DEF TouchRead, TypeOK, Equipped, Request, Token
  <2>2. p.pc = "touch.save" =>
          /\ p.row = sessions[q.token.sid] /\ sessions[q.token.sid] # None
          /\ ~ sessions[q.token.sid].revoked
    BY <2>1 DEF FindActiveById
  <2>3. sessions[q.token.sid] # None => sessions[q.token.sid].revoked \in BOOLEAN
    BY <2>1 DEF TypeOK, Row
  <2>4. SoleRequest(p)'
    BY <2>1, <2>2, <2>3 DEF SoleRequest, Saves, SoleInv
  <2> QED
    BY <1>3, <2>1, <2>4
<1>8. CASE PassStep(r) \/ RevokeStep(r)
  <2>1. /\ peak' = peak /\ drawn' = drawn /\ Quiet(p)
        /\ \A s \in SessionIds : sessions'[s] # None =>
             sessions[s] # None /\ sessions'[s].version = sessions[s].version
    BY <1>1, <1>8, RevokeKeepsVersions DEF PassStep, RevokeStep
  <2>2. CASE p.pc \in {"reply", "reuse.revoke"}
    BY <1>1, <1>2, <1>5, <2>2, Verdicts
  <2>3. CASE p.pc \notin {"reply", "reuse.revoke"}
    <3>1. SoleRequest(p)'
      BY <2>1, <2>3 DEF SoleRequest, Saves, Quiet
    <3> QED
      BY <1>1, <2>1, <3>1, SoleFrame
  <2> QED
    BY <2>2, <2>3
<1> QED
  BY <1>2, <1>4, <1>5, <1>6, <1>7, <1>8, StepKinds

LEMMA SoleStep ==
  OnePerUser /\ TypeOK /\ TypeOK' /\ OwnerInv /\ SoleInv /\ [Next]_vars
    => SoleInv'
<1> SUFFICES ASSUME OnePerUser, TypeOK, TypeOK', OwnerInv, SoleInv, [Next]_vars
             PROVE  SoleInv'
  OBVIOUS
<1>1. ASSUME NEW r \in Requests, RequestStep(r) PROVE SoleInv'
  BY <1>1, SoleRequestStep
<1>2. ASSUME UNCHANGED <<issued, req, drawn, peak>>,
             \A s \in SessionIds : sessions'[s] \in {None, sessions[s]}
      PROVE  SoleInv'
  <2>1. ASSUME NEW q \in Request, NEW r \in Requests, req[r] = q,
               q.pc # "idle"
        PROVE  SoleRequest(q)'
    <3>1. SoleRequest(q) /\ (q.pc \in Saves => q.token.sid \in SessionIds)
      BY <2>1 DEF SoleInv, Saves, TypeOK, Equipped, Request, Token
    <3>2. q.pc \in Saves /\ sessions'[q.token.sid] # None =>
            sessions'[q.token.sid].revoked = FALSE
      BY <1>2, <3>1 DEF SoleRequest
    <3> QED
      BY <1>2, <3>1, <3>2 DEF SoleRequest
  <2>2. \A s \in SessionIds :
          sessions'[s] # None => sessions'[s].version = peak[s]
    BY <1>2 DEF SoleInv
  <2> QED
    BY <1>2, <2>1, <2>2 DEF SoleInv
<1>3. CASE CleanupExpiredOrRevoked
  BY <1>2, <1>3 DEF CleanupExpiredOrRevoked
<1>4. CASE Tick \/ (\E s \in SessionIds : ExpireThrottle(s)) \/ UNCHANGED vars
  BY <1>2, <1>4 DEF Tick, ExpireThrottle, vars
<1> QED
  BY <1>1, <1>3, <1>4 DEF Next

LEMMA SoleInit == Init => SoleInv
<1> SUFFICES ASSUME Init PROVE SoleInv
  OBVIOUS
<1>1. \A r \in Requests : req[r].pc = "idle"
  BY IdleType DEF Init
<1> QED
  BY <1>1 DEF Init, SoleInv

LEMMA Sole == Spec /\ []OnePerUser => [](TypeOK /\ OwnerInv /\ SoleInv)
<1>1. Init => SoleInv /\ OwnerInv
  BY SoleInit, OwnerInit
<1>2. OnePerUser /\ TypeOK /\ TypeOK' /\ OwnerInv /\ SoleInv /\ [Next]_vars
        => OwnerInv' /\ SoleInv'
  BY OwnerStep, SoleStep
<1> QED
  BY <1>1, <1>2, TypeCorrect, PTL DEF Spec

LEMMA RevokedStep ==
  ASSUME TypeOK, TypeOK', SoleInv, [Next]_vars, NEW s \in SessionIds,
         sessions[s] # None, sessions[s].revoked
  PROVE  ~ Live(s)'
<1>1. ASSUME NEW r \in Requests, RequestStep(r) PROVE ~ Live(s)'
  <2>1. CASE SaveIssued(r) \/ TouchSave(r)
    <3>1. PICK q \in Request : q = req[r]
      BY DEF TypeOK
    <3>2. /\ q.pc \in Saves /\ q.token.sid \in SessionIds /\ q.row \in Row
          /\ Save(q.token.sid, q.row)
      BY <2>1, <3>1 DEF SaveIssued, TouchSave, Release, TypeOK, Equipped,
                        Request, Token, Saves
    <3>3. SoleRequest(q)
      BY <3>1, <3>2 DEF SoleInv, Saves
    <3>4. q.token.sid # s
      BY <3>2, <3>3 DEF SoleRequest
    <3>5. sessions'[s] = sessions[s]
      BY <3>2, <3>4, SavePeak
    <3> QED
      BY <3>5 DEF Live
  <2>2. CASE RevokeStep(r)
    BY <2>2, RevokeKeepsVersions DEF RevokeStep, Live
  <2>3. CASE sessions' = sessions
    BY <2>3 DEF Live
  <2> QED
    BY <1>1, <2>1, <2>2, <2>3, StepKinds
    DEF PassStep, CreateLoginSession, RefreshRead, RefreshRotate, TouchRead
<1>2. CASE CleanupExpiredOrRevoked
  BY <1>2 DEF CleanupExpiredOrRevoked, Live
<1>3. CASE Tick \/ (\E x \in SessionIds : ExpireThrottle(x)) \/ UNCHANGED vars
  BY <1>3 DEF Tick, ExpireThrottle, vars, Live
<1> QED
  BY <1>1, <1>2, <1>3 DEF Next

(* As long as the requests about one user do not overlap, whatever those   *)
(* about others, the cleanup, the clock and lost replies do: a session     *)
(* that was logged out or revoked does not become live.                    *)
THEOREM RevokedOnePerUser == Spec /\ []OnePerUser => RevokedStaysRevoked
<1>1. TypeOK /\ TypeOK' /\ SoleInv /\ [Next]_vars
        => [\A s \in SessionIds :
              sessions[s] # None /\ sessions[s].revoked => ~ Live(s)']_vars
  BY RevokedStep
<1> QED
  BY <1>1, Sole, PTL DEF Spec, RevokedStaysRevoked

(* In these behaviours a refresh is taken for a reuse only of a token that *)
(* a later version has replaced.                                           *)
THEOREM VerdictOnePerUser == Spec /\ []OnePerUser => []ReuseVerdictSound
<1>1. TypeOK /\ SoleInv => ReuseVerdictSound
  <2> SUFFICES ASSUME TypeOK, SoleInv, NEW r \in Requests,
                      req[r].pc = "reuse.revoke"
               PROVE  req[r].token.version < peak[req[r].token.sid]
    BY DEF ReuseVerdictSound
  <2>1. SoleRequest(req[r])
    BY DEF SoleInv, TypeOK
  <2> QED
    BY <2>1 DEF SoleRequest
<1> QED
  BY <1>1, Sole, PTL

(* In these behaviours the save that follows a rotation brings a version   *)
(* that the session never had: no refresh token is exchanged twice.        *)
THEOREM RotatedOnePerUser == Spec /\ []OnePerUser => RotatedOnce
<1>1. TypeOK /\ SoleInv
        => \A r \in Requests : req[r].pc = "refresh.save" =>
             req[r].row.version > peak[req[r].token.sid]
  <2> SUFFICES ASSUME TypeOK, SoleInv, NEW r \in Requests,
                      req[r].pc = "refresh.save"
               PROVE  req[r].row.version > peak[req[r].token.sid]
    OBVIOUS
  <2>1. SoleRequest(req[r])
    BY DEF SoleInv, TypeOK
  <2>2. peak[req[r].token.sid] \in Nat
    BY DEF TypeOK, Equipped, Request, Token, Versions
  <2> QED
    BY <2>1, <2>2 DEF SoleRequest
<1>2. TypeOK /\ SoleInv /\ [Next]_vars
        => [\A r \in Requests :
              req[r].pc = "refresh.save" /\ req'[r].pc = "reply"
                => req[r].row.version > peak[req[r].token.sid]]_vars
  BY <1>1
<1> QED
  BY <1>2, Sole, PTL DEF Spec, RotatedOnce
=============================================================================
