------------------------- MODULE ActionTokensProofs -------------------------
(***************************************************************************)
(* Proofs about ActionTokens, for any users, addresses, tokens, requests,  *)
(* lifetimes and bounds.                                                   *)
(***************************************************************************)
EXTENDS ActionTokens, TLAPS

USE TokenAssumption DEF Kinds

-----------------------------------------------------------------------------
(* Type correctness.                                                       *)

LEMMA IdleType ==
  /\ Idle \in Request /\ Idle.pc = "idle" /\ Idle.row = None
  /\ Idle.kind = None /\ Idle.user = None /\ Idle.token = None
BY DEF Idle, Request

(* What a request in progress holds, given the tokens drawn so far.        *)
Sound(q, tokens) ==
  /\ q \in Request
  /\ q.pc # "idle" => q.user \in Users /\ q.kind # None
  /\ q.pc \in {"consume", "read", "mail"} \/ (q.pc = "save" /\ q.kind = "resend")
       => q.token \in tokens
  /\ q.pc \notin {"idle", "consume", "read"} => q.row # None
  /\ q.pc = "delete" => q.kind = "admin"

LEMMA AllSound == TypeOK => \A r \in Requests : Sound(req[r], drawn)
BY DEF TypeOK, Sound

(* A step replaces one request by another one that is sound.               *)
LEMMA Replace ==
  ASSUME TypeOK, NEW r \in Requests, NEW q, Sound(q, drawn'),
         drawn \subseteq drawn', req' = [req EXCEPT ![r] = q]
  PROVE  /\ req' \in [Requests -> Request]
         /\ \A x \in Requests : x # r => req'[x] = req[x]
         /\ req'[r] = q
         /\ \A x \in Requests : Sound(req'[x], drawn')
<1>1. req' \in [Requests -> Request] /\ req'[r] = q
  BY DEF TypeOK, Sound
<1>2. \A x \in Requests : x # r => req'[x] = req[x]
  BY DEF TypeOK
<1>3. \A x \in Requests : Sound(req[x], drawn')
  BY AllSound DEF Sound
<1> QED
  BY <1>1, <1>2, <1>3

LEMMA MoveType ==
  ASSUME TypeOK, NEW r \in Requests, NEW to,
         to \in {"check", "delete", "invalidate", "create", "mail", "consume",
                 "read", "save"},
         req' = [req EXCEPT ![r].pc = to], req[r].pc # "idle",
         drawn' = drawn,
         to \in {"consume", "read", "mail"} \/ (to = "save" /\ req[r].kind = "resend")
           => req[r].token \in drawn,
         to \notin {"consume", "read"} => req[r].row # None,
         to = "delete" => req[r].kind = "admin"
  PROVE  /\ \A x \in Requests : Sound(req'[x], drawn')
         /\ req' \in [Requests -> Request]
         /\ \A x \in Requests : x # r => req'[x] = req[x]
         /\ req'[r].pc = to /\ req'[r].kind = req[r].kind
         /\ req'[r].user = req[r].user /\ req'[r].row = req[r].row
         /\ req'[r].token = req[r].token
<1> DEFINE q == [req[r] EXCEPT !.pc = to]
<1>1. Sound(req[r], drawn) /\ req[r] \in Request
  BY AllSound DEF TypeOK
<1>2. /\ q \in Request /\ q.pc = to /\ q.kind = req[r].kind
      /\ q.user = req[r].user /\ q.row = req[r].row /\ q.token = req[r].token
  BY <1>1 DEF Request
<1>3. req' = [req EXCEPT ![r] = q]
  BY DEF TypeOK
<1> HIDE DEF q
<1>4. Sound(q, drawn')
  BY <1>1, <1>2 DEF Sound
<1> QED
  BY <1>2, <1>3, <1>4, Replace

LEMMA FinishType ==
  ASSUME TypeOK, NEW r \in Requests, Finish(r), drawn' = drawn
  PROVE  /\ \A x \in Requests : Sound(req'[x], drawn')
         /\ req' \in [Requests -> Request]
         /\ \A x \in Requests : x # r => req'[x] = req[x]
         /\ req'[r] = Idle
<1>1. Sound(Idle, drawn')
  BY IdleType DEF Sound
<1> QED
  BY <1>1, Replace DEF Finish

(* The steps that begin a request, and what it holds then.                 *)
LEMMA BeginUpdateEffect ==
  ASSUME TypeOK, NEW r \in Requests, NEW u \in Users, NEW e \in Emails,
         BeginUpdate(r, u, e)
  PROVE  /\ \A x \in Requests : Sound(req'[x], drawn')
         /\ req' \in [Requests -> Request]
         /\ \A x \in Requests : x # r => req'[x] = req[x]
         /\ req'[r].pc \in {"check", "save"} /\ req'[r].user = u
         /\ req'[r].row.verified => account[u].verified
         /\ req'[r].kind \in {"profile", "admin"} /\ req'[r].token = None
         /\ \/ req'[r].pc = "check" /\ ~ req'[r].row.verified
            \/ req'[r].pc = "save" /\ req'[r].row = account[u]
<1>1. account[u] \in Account /\ None \notin Account
  BY DEF TypeOK, Account
<1>2. PICK kind \in {"profile", "admin"}, changes \in BOOLEAN :
        req' = [req EXCEPT ![r] =
                 [pc |-> IF changes THEN "check" ELSE "save",
                  kind |-> kind, user |-> u, token |-> None,
                  row |-> IF changes THEN [email |-> e, verified |-> FALSE]
                          ELSE account[u]]]
  BY DEF BeginUpdate
<1> DEFINE row == IF changes THEN [email |-> e, verified |-> FALSE]
                  ELSE account[u]
           q == [pc |-> IF changes THEN "check" ELSE "save",
                 kind |-> kind, user |-> u, token |-> None, row |-> row]
<1>3. /\ row \in Account /\ row # None /\ (row.verified => account[u].verified)
      /\ IF changes THEN ~ row.verified ELSE row = account[u]
  <2>1. CASE changes
    <3>1. row = [email |-> e, verified |-> FALSE]
      BY <2>1
    <3>2. [email |-> e, verified |-> FALSE] \in Account
      BY DEF Account
    <3>3. row \in Account /\ ~ row.verified
      BY <3>1, <3>2
    <3> QED
      BY <1>1, <2>1, <3>3
  <2>2. CASE ~ changes
    BY <1>1, <2>2
  <2> QED
    BY <2>1, <2>2
<1>4. kind # None /\ kind # "resend"
  OBVIOUS
<1>5. /\ q.pc \in {"check", "save"} /\ q.user = u /\ q.row = row
      /\ q.kind = kind /\ q.token = None /\ q \in Request
      /\ q.pc = IF changes THEN "check" ELSE "save"
  <2> HIDE DEF row
  <2> QED
    BY <1>3 DEF Request, Kinds
<1>6. req' = [req EXCEPT ![r] = q] /\ drawn' = drawn
  BY <1>2 DEF BeginUpdate
<1> HIDE DEF q
<1>7. Sound(q, drawn')
  BY <1>3, <1>4, <1>5 DEF Sound
<1>8. /\ req' \in [Requests -> Request] /\ req'[r] = q
      /\ \A x \in Requests : x # r => req'[x] = req[x]
      /\ \A x \in Requests : Sound(req'[x], drawn')
  BY <1>6, <1>7, Replace
<1> HIDE DEF row
<1>9. /\ row.verified => account[u].verified
      /\ \/ q.pc = "check" /\ ~ row.verified
         \/ q.pc = "save" /\ row = account[u]
  <2>1. CASE changes
    <3>1. q.pc = "check" /\ ~ row.verified
      BY <1>3, <1>5, <2>1
    <3> QED
      BY <1>3, <3>1
  <2>2. CASE ~ changes
    <3>1. q.pc = "save" /\ row = account[u]
      BY <1>3, <1>5, <2>2
    <3> QED
      BY <1>3, <3>1
  <2> QED
    BY <2>1, <2>2
<1> QED
  BY <1>5, <1>8, <1>9

LEMMA BeginIssueEffect ==
  ASSUME TypeOK, NEW r \in Requests, NEW u \in Users, BeginIssue(r, u)
  PROVE  /\ \A x \in Requests : Sound(req'[x], drawn')
         /\ req' \in [Requests -> Request]
         /\ \A x \in Requests : x # r => req'[x] = req[x]
         /\ req'[r].pc = "invalidate" /\ req'[r].user = u
         /\ req'[r].row = account[u] /\ req'[r].token = None
         /\ req'[r].kind \in {"resend", "forgot"}
<1>1. account[u] \in Account /\ account[u] # None
  BY DEF TypeOK
<1>2. PICK kind \in {"resend", "forgot"} :
        req' = [req EXCEPT ![r] =
                 [Idle EXCEPT !.pc = "invalidate", !.kind = kind,
                              !.user = u, !.row = account[u]]]
  BY DEF BeginIssue
<1> DEFINE q == [Idle EXCEPT !.pc = "invalidate", !.kind = kind,
                             !.user = u, !.row = account[u]]
<1>3. /\ q \in Request /\ q.pc = "invalidate" /\ q.kind = kind /\ q.user = u
      /\ q.row = account[u] /\ q.token = None
  BY <1>1, IdleType DEF Request
<1>4. req' = [req EXCEPT ![r] = q] /\ drawn' = drawn
  BY <1>2 DEF BeginIssue
<1> HIDE DEF q
<1>5. Sound(q, drawn')
  BY <1>1, <1>3 DEF Sound
<1> QED
  BY <1>3, <1>4, <1>5, Replace

LEMMA FindActiveEffect ==
  ASSUME TypeOK, NEW r \in Requests, NEW t \in Tokens, FindActiveByHash(r, t)
  PROVE  /\ \A x \in Requests : Sound(req'[x], drawn')
         /\ req' \in [Requests -> Request]
         /\ \A x \in Requests : x # r => req'[x] = req[x]
         /\ req'[r].pc = "consume" /\ req'[r].token = t
         /\ req'[r].user = token[t].user /\ req'[r].row = None
         /\ Usable(t, Uses(req'[r].kind))
         /\ proven \subseteq proven' /\ proven' \subseteq Users \X Emails
         /\ token[t].purpose = "email_verification"
              => /\ \E e \in Emails : <<token[t].user, e>> \in proven'
                 /\ \A e \in Emails :
                      <<t, e>> \in inbox => <<token[t].user, e>> \in proven'
         /\ \E e \in Emails : <<t, e>> \in inbox
         /\ req'[r].kind \in {"verify", "reset"}
<1>1. PICK kind \in {"verify", "reset"} : Usable(t, Uses(kind)) /\ Holds(r, kind, t)
  BY DEF FindActiveByHash
<1>2. PICK e \in Emails : <<t, e>> \in inbox
  BY DEF FindActiveByHash, Presented
<1>3. t \in drawn
  BY <1>2 DEF TypeOK
<1>4. token[t] # None /\ token[t] \in Row /\ token[t].user \in Users
  BY <1>1 DEF Usable, TypeOK, Row
<1> DEFINE q == [Idle EXCEPT !.pc = "consume", !.kind = kind, !.token = t,
                   !.user = token[t].user]
<1>5. /\ q \in Request /\ q.pc = "consume" /\ q.kind = kind /\ q.token = t
      /\ q.user = token[t].user /\ q.row = None
  BY <1>4, IdleType DEF Request
<1>6. req' = [req EXCEPT ![r] = q] /\ drawn' = drawn
  BY <1>1, <1>4 DEF Holds
<1>7. /\ proven \subseteq proven' /\ proven' \subseteq Users \X Emails
      /\ token[t].purpose = "email_verification"
           => \A f \in Emails :
                <<t, f>> \in inbox => <<token[t].user, f>> \in proven'
  <2> DEFINE new == {<<token[t].user, m[2]>> : m \in {n \in inbox : n[1] = t}}
  <2>1. proven' = IF token[t].purpose = "email_verification"
                    THEN proven \cup new ELSE proven
    BY <1>4 DEF FindActiveByHash, Presented
  <2>2. \A f \in Emails : <<t, f>> \in inbox => <<token[t].user, f>> \in new
    OBVIOUS
  <2>3. new \subseteq Users \X Emails
    BY <1>4 DEF TypeOK
  <2> HIDE DEF new
  <2> QED
    BY <2>1, <2>2, <2>3 DEF TypeOK
<1> HIDE DEF q
<1>8. Sound(q, drawn')
  BY <1>3, <1>4, <1>5, <1>6 DEF Sound
<1> QED
  BY <1>1, <1>2, <1>5, <1>6, <1>7, <1>8, Replace

(* The steps in the middle of a request.                                   *)
LEMMA SaveTokenEffect ==
  ASSUME TypeOK, NEW r \in Requests, NEW t \in Tokens, SaveToken(r, t)
  PROVE  /\ \A x \in Requests : Sound(req'[x], drawn')
         /\ req' \in [Requests -> Request]
         /\ \A x \in Requests : x # r => req'[x] = req[x]
         /\ req'[r].pc \in {"save", "mail"} /\ req'[r].user = req[r].user
         /\ req'[r].row = req[r].row /\ req'[r].kind = req[r].kind
         /\ req'[r].token = t
         /\ req'[r].pc = "save" => req[r].kind = "resend"
         /\ token' = [token EXCEPT ![t] = token'[t]] /\ token'[t] \in Row
         /\ token'[t].user = req[r].user
         /\ token'[t].purpose = Issues(req[r].kind)
<1> DEFINE to == IF req[r].kind = "resend" THEN "save" ELSE "mail"
           q == [req[r] EXCEPT !.token = t, !.pc = to]
           row == [user |-> req[r].user, purpose |-> Issues(req[r].kind),
                   expiresAt |-> now + TTL(Issues(req[r].kind)),
                   consumed |-> FALSE]
<1>1. Sound(req[r], drawn) /\ req[r] \in Request /\ req[r].pc = "create"
  BY AllSound DEF SaveToken, TypeOK
<1>2. req[r].user \in Users /\ req[r].kind # None /\ req[r].row # None
  BY <1>1 DEF Sound
<1>3. /\ q \in Request /\ q.pc = to /\ q.token = t /\ q.kind = req[r].kind
      /\ q.user = req[r].user /\ q.row = req[r].row
  BY <1>1 DEF Request
<1>4. req' = [req EXCEPT ![r] = q] /\ drawn' = drawn \cup {t}
  BY DEF SaveToken, TypeOK
<1>5. /\ row \in Row /\ row.user = req[r].user
      /\ row.purpose = Issues(req[r].kind)
  <2>1. Issues(req[r].kind) \in Purposes
    BY DEF Issues, Purposes
  <2>2. now + TTL(Issues(req[r].kind)) \in Expiries
    BY DEF TTL, Expiries, TypeOK, Times
  <2> QED
    BY <1>2, <2>1, <2>2 DEF Row
<1>6. token' = [token EXCEPT ![t] = row] /\ token'[t] = row
  BY DEF SaveToken, TypeOK
<1> HIDE DEF q, row
<1>7. Sound(q, drawn')
  BY <1>2, <1>3, <1>4 DEF Sound
<1>8. /\ req' \in [Requests -> Request] /\ req'[r] = q
      /\ \A x \in Requests : x # r => req'[x] = req[x]
      /\ \A x \in Requests : Sound(req'[x], drawn')
  BY <1>4, <1>7, Replace
<1> QED
  BY <1>3, <1>5, <1>6, <1>8

LEMMA ReadUserEffect ==
  ASSUME TypeOK, NEW r \in Requests, ReadUser(r)
  PROVE  /\ \A x \in Requests : Sound(req'[x], drawn')
         /\ req' \in [Requests -> Request]
         /\ \A x \in Requests : x # r => req'[x] = req[x]
         /\ req'[r].pc = "save" /\ req'[r].user = req[r].user
         /\ req'[r].row.verified => \/ req[r].kind = "verify"
                                    \/ account[req[r].user].verified
         /\ req'[r].kind = req[r].kind /\ req'[r].token = req[r].token
         /\ req'[r].row.email = account[req[r].user].email
<1> DEFINE row == IF req[r].kind = "verify"
                    THEN [account[req[r].user] EXCEPT !.verified = TRUE]
                    ELSE account[req[r].user]
           q == [req[r] EXCEPT !.pc = "save", !.row = row]
<1>1. Sound(req[r], drawn) /\ req[r] \in Request /\ req[r].pc = "read"
  BY AllSound DEF ReadUser, TypeOK
<1>2. req[r].user \in Users /\ req[r].kind # None /\ req[r].token \in drawn
  BY <1>1 DEF Sound
<1>3. /\ row \in Account /\ row # None
      /\ row.verified => req[r].kind = "verify" \/ account[req[r].user].verified
      /\ row.email = account[req[r].user].email
  <2>1. account[req[r].user] \in Account
    BY <1>2 DEF TypeOK
  <2>2. /\ [account[req[r].user] EXCEPT !.verified = TRUE] \in Account
        /\ [account[req[r].user] EXCEPT !.verified = TRUE].email
             = account[req[r].user].email
    BY <2>1 DEF Account
  <2> QED
    BY <2>1, <2>2
<1>4. req' = [req EXCEPT ![r] = q] /\ drawn' = drawn
  BY DEF ReadUser, TypeOK
<1> HIDE DEF row
<1>5. /\ q \in Request /\ q.pc = "save" /\ q.row = row /\ q.token = req[r].token
      /\ q.kind = req[r].kind /\ q.user = req[r].user
  BY <1>1, <1>3 DEF Request
<1> HIDE DEF q
<1>6. Sound(q, drawn')
  BY <1>2, <1>3, <1>4, <1>5 DEF Sound
<1> QED
  BY <1>3, <1>4, <1>5, <1>6, Replace

(* What any step does to the request it belongs to.                        *)
LEMMA RequestType ==
  ASSUME TypeOK, NEW r \in Requests, RequestStep(r)
  PROVE  /\ \A x \in Requests : Sound(req'[x], drawn')
         /\ req' \in [Requests -> Request]
         /\ \A x \in Requests : x # r => req'[x] = req[x]
<1>1. Sound(req[r], drawn)
  BY AllSound
<1>2. CASE CheckEmail(r)
  <2>1. PICK to \in {"delete", "invalidate"} :
          /\ Move(r, "check", to) /\ drawn' = drawn
          /\ to = "delete" => req[r].kind = "admin"
    BY <1>2 DEF CheckEmail
  <2> QED
    BY <1>1, <2>1, MoveType DEF Move, Sound
<1>3. CASE DeleteTokens(r)
  <2>1. Move(r, "delete", "save") /\ drawn' = drawn /\ req[r].kind # "resend"
    BY <1>1, <1>3 DEF DeleteTokens, Move, Sound
  <2> QED
    BY <1>1, <2>1, MoveType DEF Move, Sound
<1>4. CASE InvalidateOutstanding(r)
  BY <1>1, <1>4, MoveType DEF InvalidateOutstanding, Move, Sound
<1>5. CASE EnqueueMail(r)
  <2>1. CASE Move(r, "mail", "save")
    BY <1>1, <1>5, <2>1, MoveType DEF EnqueueMail, Move, Sound
  <2>2. CASE Finish(r)
    BY <1>5, <2>2, FinishType DEF EnqueueMail
  <2> QED
    BY <1>5, <2>1, <2>2 DEF EnqueueMail
<1>6. CASE Consume(r)
  BY <1>1, <1>6, MoveType DEF Consume, Move, Sound
<1>7. CASE SaveUser(r)
  <2>1. CASE req[r].kind = "resend" /\ Move(r, "save", "mail")
    BY <1>1, <1>7, <2>1, MoveType DEF SaveUser, Move, Sound
  <2>2. CASE Finish(r)
    BY <1>7, <2>2, FinishType DEF SaveUser
  <2> QED
    BY <1>7, <2>1, <2>2 DEF SaveUser
<1>8. CASE Abort(r)
  BY <1>8, FinishType DEF Abort
<1> QED
  BY <1>2, <1>3, <1>4, <1>5, <1>6, <1>7, <1>8, BeginUpdateEffect,
     BeginIssueEffect, FindActiveEffect, SaveTokenEffect, ReadUserEffect
     DEF RequestStep

(* What any step does to the other variables.                              *)
LEMMA AccountType ==
  ASSUME TypeOK, NEW r \in Requests, RequestStep(r)
  PROVE  account' \in [Users -> Account]
<1>1. CASE SaveUser(r)
  <2>1. req[r].user \in Users /\ req[r].row \in Account
    BY <1>1, AllSound DEF SaveUser, Sound, Request
  <2> QED
    BY <1>1, <2>1 DEF SaveUser, TypeOK
<1>2. CASE ~ SaveUser(r)
  <2>1. account' = account
    BY <1>2 DEF RequestStep, BeginUpdate, BeginIssue, CheckEmail, DeleteTokens,
       InvalidateOutstanding, SaveToken, FindActiveByHash, Holds, EnqueueMail,
       Consume, ReadUser, Abort
  <2> QED
    BY <2>1 DEF TypeOK
<1> QED
  BY <1>1, <1>2

LEMMA TokenType ==
  ASSUME TypeOK, NEW r \in Requests, RequestStep(r)
  PROVE  token' \in [Tokens -> Row \cup {None}]
<1>1. CASE DeleteTokens(r)
  BY <1>1 DEF DeleteTokens, TypeOK
<1>2. CASE InvalidateOutstanding(r)
  <2>1. \A t \in Tokens : token[t] # None
                           => [token[t] EXCEPT !.consumed = TRUE] \in Row
    BY DEF TypeOK, Row
  <2> QED
    BY <1>2, <2>1 DEF InvalidateOutstanding, TypeOK
<1>3. ASSUME NEW t \in Tokens, SaveToken(r, t)
      PROVE  token' \in [Tokens -> Row \cup {None}]
  BY <1>3, SaveTokenEffect DEF TypeOK
<1>4. CASE Consume(r)
  <2> DEFINE t == req[r].token
  <2>1. t \in Tokens
    BY <1>4, AllSound DEF Consume, Move, Sound, TypeOK
  <2>2. token[t] # None => [token[t] EXCEPT !.consumed = TRUE] \in Row
    BY <2>1 DEF TypeOK, Row
  <2>3. \/ token' = token
        \/ /\ token[t] # None
           /\ token' = [token EXCEPT ![t] = [token[t] EXCEPT !.consumed = TRUE]]
    BY <1>4 DEF Consume, TypeOK
  <2> QED
    BY <2>1, <2>2, <2>3 DEF TypeOK
<1>5. CASE UNCHANGED token
  BY <1>5 DEF TypeOK
<1> QED
  BY <1>1, <1>2, <1>3, <1>4, <1>5 DEF RequestStep, BeginUpdate, BeginIssue,
     CheckEmail, FindActiveByHash, Holds, EnqueueMail, ReadUser, SaveUser, Abort

LEMMA HistoryType ==
  ASSUME TypeOK, NEW r \in Requests, RequestStep(r)
  PROVE  /\ drawn \subseteq drawn' /\ drawn' \subseteq Tokens
         /\ inbox' \subseteq drawn' \X Emails
         /\ used' \subseteq drawn' /\ reused' \subseteq used'
         /\ proven \subseteq proven' /\ proven' \subseteq Users \X Emails
         /\ orphans' \subseteq Users
         /\ serial' = serial /\ now' = now
<1>1. serial' = serial /\ now' = now
  BY DEF RequestStep, BeginUpdate, BeginIssue, CheckEmail, DeleteTokens,
     InvalidateOutstanding, SaveToken, FindActiveByHash, Holds, EnqueueMail,
     Consume, ReadUser, SaveUser, Abort, History
<1>2. drawn \subseteq drawn' /\ drawn' \subseteq Tokens
  BY DEF RequestStep, BeginUpdate, BeginIssue, CheckEmail, DeleteTokens,
     InvalidateOutstanding, SaveToken, FindActiveByHash, Holds, EnqueueMail,
     Consume, ReadUser, SaveUser, Abort, TypeOK
<1>3. inbox' \subseteq drawn' \X Emails
  <2>1. CASE EnqueueMail(r)
    <3>1. req[r].token \in drawn /\ req[r].row \in Account
      BY <2>1, AllSound DEF EnqueueMail, Sound, Request
    <3>2. req[r].row.email \in Emails
      BY <3>1 DEF Account
    <3> QED
      BY <2>1, <3>1, <3>2 DEF EnqueueMail, TypeOK
  <2>2. CASE UNCHANGED inbox
    BY <1>2, <2>2 DEF TypeOK
  <2> QED
    BY <2>1, <2>2 DEF RequestStep, BeginUpdate, BeginIssue, CheckEmail,
       DeleteTokens, InvalidateOutstanding, SaveToken, FindActiveByHash, Holds,
       Consume, ReadUser, SaveUser, Abort
<1>4. used' \subseteq drawn' /\ reused' \subseteq used'
  <2>1. CASE Consume(r)
    <3>1. req[r].token \in drawn
      BY <2>1, AllSound DEF Consume, Move, Sound
    <3> QED
      BY <2>1, <3>1 DEF Consume, Consumed, TypeOK
  <2>2. CASE UNCHANGED <<used, reused>>
    BY <1>2, <2>2 DEF TypeOK
  <2> QED
    BY <2>1, <2>2 DEF RequestStep, BeginUpdate, BeginIssue, CheckEmail,
       DeleteTokens, InvalidateOutstanding, SaveToken, FindActiveByHash, Holds,
       EnqueueMail, ReadUser, SaveUser, Abort, History
<1>5. proven \subseteq proven' /\ proven' \subseteq Users \X Emails
  <2>1. ASSUME NEW t \in Tokens, FindActiveByHash(r, t)
        PROVE  proven \subseteq proven' /\ proven' \subseteq Users \X Emails
    BY <2>1, FindActiveEffect
  <2>2. CASE UNCHANGED proven
    BY <2>2 DEF TypeOK
  <2> QED
    BY <2>1, <2>2 DEF RequestStep, BeginUpdate, BeginIssue, CheckEmail,
       DeleteTokens, InvalidateOutstanding, SaveToken, EnqueueMail, Consume,
       Consumed, ReadUser, SaveUser, Abort, History
<1>6. orphans' \subseteq Users
  <2>1. CASE Abort(r)
    BY <2>1, AllSound DEF Abort, Sound, TypeOK
  <2>2. CASE UNCHANGED orphans
    BY <2>2 DEF TypeOK
  <2> QED
    BY <2>1, <2>2 DEF RequestStep, BeginUpdate, BeginIssue, CheckEmail,
       DeleteTokens, InvalidateOutstanding, SaveToken, FindActiveByHash, Holds,
       EnqueueMail, Consume, Consumed, ReadUser, SaveUser, History
<1> QED
  BY <1>1, <1>2, <1>3, <1>4, <1>5, <1>6

LEMMA TypeInit == Init => TypeOK
<1> SUFFICES ASSUME Init PROVE TypeOK
  OBVIOUS
<1>1. account \in [Users -> Account]
  BY DEF Init, Account
<1>2. req \in [Requests -> Request] /\ \A r \in Requests : req[r].pc = "idle"
  BY IdleType DEF Init
<1>3. now \in Times
  BY DEF Init, Times
<1> QED
  BY <1>1, <1>2, <1>3 DEF Init, TypeOK

LEMMA TypeStep == TypeOK /\ [Next]_vars => TypeOK'
<1> SUFFICES ASSUME TypeOK, [Next]_vars PROVE TypeOK'
  OBVIOUS
<1>1. ASSUME NEW r \in Requests, RequestStep(r) PROVE TypeOK'
  BY <1>1, RequestType, AccountType, TokenType, HistoryType DEF TypeOK, Sound
<1>2. CASE CleanupExpired
  BY <1>2 DEF CleanupExpired, History, TypeOK
<1>3. CASE Tick
  BY <1>3 DEF Tick, History, TypeOK, Times
<1>4. CASE UNCHANGED vars
  BY <1>4 DEF vars, History, TypeOK
<1> QED
  BY <1>1, <1>2, <1>3, <1>4 DEF Next

(* Every variable keeps its shape, and a request in progress holds what    *)
(* the rest of its handler uses, however many of them overlap (all of the  *)
(* handlers that issue or consume a token).                                *)
THEOREM TypeCorrect == Spec => []TypeOK
BY TypeInit, TypeStep, PTL DEF Spec

-----------------------------------------------------------------------------
(* A verified user has presented a verification token.                     *)

Proven(u) == \E e \in Emails : <<u, e>> \in proven

(* A request that is on its way to mark a user verified, or holds a user   *)
(* entity that is marked, is about a user who presented a token.           *)
VerifiersProven ==
  \A r \in Requests :
    /\ req[r].pc \in {"consume", "read"} /\ req[r].kind = "verify"
         => Proven(req[r].user)
    /\ req[r].row # None /\ req[r].row.verified => Proven(req[r].user)

VerifiedInv == TypeOK /\ VerifiedByToken /\ VerifiersProven

LEMMA VerifiersStep ==
  ASSUME VerifiedInv, NEW r \in Requests, RequestStep(r)
  PROVE  VerifiersProven'
<1> DEFINE Known(u) == \E e \in Emails : <<u, e>> \in proven'
           Fine(q) ==
             /\ q.pc \in {"consume", "read"} /\ q.kind = "verify" => Known(q.user)
             /\ q.row # None /\ q.row.verified => Known(q.user)
<1>1. TypeOK /\ proven \subseteq proven'
  BY HistoryType DEF VerifiedInv
<1>2. \A x \in Requests : Fine(req[x])
  BY <1>1 DEF VerifiedInv, VerifiersProven, Proven
<1>3. \A u \in Users : account[u].verified => Known(u)
  BY <1>1 DEF VerifiedInv, VerifiedByToken
<1>4. Sound(req[r], drawn)
  BY <1>1, AllSound
<1>5. \A x \in Requests : x # r => req'[x] = req[x]
  BY <1>1, RequestType
<1>6. ASSUME \/ req'[r] = Idle
             \/ /\ req'[r].kind = req[r].kind /\ req'[r].user = req[r].user
                /\ req'[r].row = req[r].row
                /\ req'[r].pc \in {"consume", "read"}
                     => req[r].pc \in {"consume", "read"}
      PROVE  Fine(req'[r])
  BY <1>2, <1>6, IdleType
<1>7. Fine(req'[r])
  <2>1. ASSUME NEW u \in Users, NEW e \in Emails, BeginUpdate(r, u, e)
        PROVE  Fine(req'[r])
    BY <1>1, <1>3, <2>1, BeginUpdateEffect
  <2>2. ASSUME NEW u \in Users, BeginIssue(r, u) PROVE Fine(req'[r])
    BY <1>1, <1>3, <2>2, BeginIssueEffect
  <2>3. ASSUME NEW t \in Tokens, FindActiveByHash(r, t) PROVE Fine(req'[r])
    BY <1>1, <2>3, FindActiveEffect DEF Usable, Uses
  <2>4. ASSUME NEW t \in Tokens, SaveToken(r, t) PROVE Fine(req'[r])
    BY <1>1, <1>2, <2>4, SaveTokenEffect
  <2>5. CASE ReadUser(r)
    BY <1>1, <1>2, <1>3, <1>4, <2>5, ReadUserEffect DEF ReadUser, Sound
  <2>6. ASSUME NEW to, Move(r, req[r].pc, to), req[r].pc # "idle",
               to \in {"delete", "invalidate", "create", "mail", "read", "save"},
               to = "read" => req[r].pc = "consume"
        PROVE  Fine(req'[r])
    <3> DEFINE q == [req[r] EXCEPT !.pc = to]
    <3>1. req'[r] = q
      BY <1>1, <2>6 DEF Move, TypeOK
    <3>2. /\ q.pc = to /\ q.kind = req[r].kind /\ q.user = req[r].user
          /\ q.row = req[r].row
      BY <1>1 DEF TypeOK, Request
    <3> HIDE DEF q
    <3> QED
      BY <1>6, <2>6, <3>1, <3>2
  <2>7. CASE Finish(r)
    BY <1>1, <1>6, <2>7 DEF Finish, TypeOK
  <2>8. CASE CheckEmail(r)
    <3>1. PICK to \in {"delete", "invalidate"} : Move(r, "check", to)
      BY <2>8 DEF CheckEmail
    <3>2. req[r].pc = "check" /\ Move(r, req[r].pc, to)
      BY <3>1 DEF Move
    <3> QED
      BY <2>6, <3>2
  <2>9. CASE DeleteTokens(r) \/ InvalidateOutstanding(r) \/ Consume(r)
    BY <2>6, <2>9 DEF DeleteTokens, InvalidateOutstanding, Consume, Move
  <2>10. CASE EnqueueMail(r) \/ SaveUser(r) \/ Abort(r)
    BY <2>6, <2>7, <2>10 DEF EnqueueMail, SaveUser, Abort, Move
  <2> HIDE DEF Fine
  <2> QED
    BY <2>1, <2>2, <2>3, <2>4, <2>5, <2>8, <2>9, <2>10 DEF RequestStep
<1>8. \A x \in Requests : Fine(req'[x])
  BY <1>1, <1>2, <1>5, <1>7
<1> QED
  BY <1>8 DEF VerifiersProven, Proven

LEMMA VerifiedStep == VerifiedInv /\ [Next]_vars => VerifiedInv'
<1> SUFFICES ASSUME VerifiedInv, [Next]_vars PROVE VerifiedInv'
  OBVIOUS
<1>1. TypeOK'
  BY TypeStep DEF VerifiedInv
<1>2. ASSUME NEW r \in Requests, RequestStep(r)
      PROVE  VerifiedByToken' /\ VerifiersProven'
  <2>1. proven \subseteq proven'
    BY <1>2, HistoryType DEF VerifiedInv
  <2>2. \A u \in Users : account'[u].verified
          => \/ account[u].verified
             \/ req[r].row # None /\ req[r].row.verified /\ req[r].user = u
    <3>1. CASE SaveUser(r)
      BY <3>1, AllSound DEF SaveUser, Sound, VerifiedInv, TypeOK
    <3>2. CASE UNCHANGED account
      BY <3>2
    <3> QED
      BY <1>2, <3>1, <3>2 DEF RequestStep, BeginUpdate, BeginIssue, CheckEmail,
         DeleteTokens, InvalidateOutstanding, SaveToken, FindActiveByHash, Holds,
         EnqueueMail, Consume, ReadUser, Abort
  <2>3. VerifiedByToken'
    BY <2>1, <2>2 DEF VerifiedInv, VerifiedByToken, VerifiersProven, Proven
  <2> QED
    BY <1>2, <2>3, VerifiersStep
<1>3. CASE CleanupExpired \/ Tick \/ UNCHANGED vars
  <2>1. UNCHANGED <<account, req, proven>>
    BY <1>3 DEF CleanupExpired, Tick, vars, History
  <2> QED
    BY <1>1, <2>1 DEF VerifiedInv, VerifiedByToken, VerifiersProven, Proven
<1> QED
  BY <1>1, <1>2, <1>3 DEF Next, VerifiedInv

(* A user is verified only if a verification token of that user was        *)
(* presented, for any number of requests that overlap and fail anywhere    *)
(* (verifyEmail; every other save of a user entity).                       *)
THEOREM VerifiedOnlyByToken == Spec => []VerifiedByToken
<1>1. Init => VerifiedInv
  <2> SUFFICES ASSUME Init PROVE VerifiedInv
    OBVIOUS
  <2>1. \A u \in Users : ~ account[u].verified
    BY DEF Init
  <2>2. \A r \in Requests : req[r].pc = "idle" /\ req[r].row = None
    BY IdleType DEF Init
  <2> QED
    BY <2>1, <2>2, TypeInit DEF VerifiedInv, VerifiedByToken, VerifiersProven
<1>2. VerifiedInv => VerifiedByToken
  BY DEF VerifiedInv
<1> QED
  BY <1>1, <1>2, VerifiedStep, PTL DEF Spec

-----------------------------------------------------------------------------
(* When requests do not overlap: a token works once, and the newest only.  *)

Active(t, u, purpose) ==
  token[t] # None /\ token[t].user = u /\ token[t].purpose = purpose
    /\ ~ token[t].consumed

(* A used token is marked or gone, and nobody is about to use it again.    *)
UsedIsSpent ==
  /\ reused = {}
  /\ \A t \in used : token[t] = None \/ token[t].consumed
  /\ \A r \in Requests : req[r].pc = "consume" => req[r].token \notin used

(* One active token for each user and purpose, and none while a request is *)
(* about to save one.                                                      *)
OneActive ==
  /\ \A t1, t2 \in Tokens, u \in Users, purpose \in Purposes :
       Active(t1, u, purpose) /\ Active(t2, u, purpose) => t1 = t2
  /\ \A r \in Requests, t \in Tokens :
       req[r].pc = "create" => ~ Active(t, req[r].user, Issues(req[r].kind))

SerialInv == TypeOK /\ (serial => Alone /\ UsedIsSpent /\ OneActive)

(* A request that begins is alone; no other step begins one.               *)
LEMMA AloneStep ==
  ASSUME TypeOK, Alone, serial, NEW r \in Requests, RequestStep(r)
  PROVE  Alone' /\ \A x \in Requests : x # r => req[x].pc = "idle"
<1>1. \A x \in Requests : x # r => req'[x] = req[x]
  BY RequestType
<1>2. Begin(r) \/ req[r].pc # "idle"
  BY DEF RequestStep, BeginUpdate, BeginIssue, CheckEmail, DeleteTokens,
     InvalidateOutstanding, SaveToken, FindActiveByHash, EnqueueMail, Consume,
     ReadUser, SaveUser, Abort, Move
<1>3. \A x \in Requests : x # r => req[x].pc = "idle"
  BY <1>2 DEF Begin, Alone
<1> QED
  BY <1>1, <1>3 DEF Alone

(* The only ways to the awaits of an update and of a save of a token.      *)
LEMMA WaysInto ==
  ASSUME TypeOK, NEW r \in Requests, RequestStep(r)
  PROVE  /\ req'[r].pc = "consume" => \E t \in Tokens : FindActiveByHash(r, t)
         /\ req'[r].pc = "create" => InvalidateOutstanding(r)
<1>1. ASSUME NEW u \in Users, BeginIssue(r, u)
      PROVE  req'[r].pc \notin {"consume", "create"}
  BY <1>1, BeginIssueEffect
<1>2. ASSUME NEW u \in Users, NEW e \in Emails, BeginUpdate(r, u, e)
      PROVE  req'[r].pc \notin {"consume", "create"}
  BY <1>2, BeginUpdateEffect
<1>3. ASSUME NEW t \in Tokens, SaveToken(r, t)
      PROVE  req'[r].pc \notin {"consume", "create"}
  BY <1>3, SaveTokenEffect
<1>4. CASE ReadUser(r)
  BY <1>4, ReadUserEffect
<1>5. ASSUME NEW from, NEW to, Move(r, from, to) PROVE req'[r].pc = to
  BY <1>5 DEF Move, TypeOK, Request
<1>6. CASE Finish(r)
  BY <1>6, IdleType DEF Finish, TypeOK
<1>7. CASE CheckEmail(r) \/ DeleteTokens(r) \/ Consume(r)
  <2>1. CASE CheckEmail(r)
    <3>1. PICK to \in {"delete", "invalidate"} : Move(r, "check", to)
      BY <2>1 DEF CheckEmail
    <3> QED
      BY <1>5, <3>1
  <2>2. CASE DeleteTokens(r) \/ Consume(r)
    BY <1>5, <2>2 DEF DeleteTokens, Consume
  <2> QED
    BY <1>7, <2>1, <2>2
<1>8. CASE EnqueueMail(r) \/ SaveUser(r) \/ Abort(r)
  BY <1>5, <1>6, <1>8 DEF EnqueueMail, SaveUser, Abort
<1>9. ASSUME NEW t \in Tokens, FindActiveByHash(r, t)
      PROVE  req'[r].pc # "create"
  BY <1>9, FindActiveEffect
<1>10. CASE InvalidateOutstanding(r)
  BY <1>5, <1>10 DEF InvalidateOutstanding
<1> QED
  BY <1>1, <1>2, <1>3, <1>4, <1>7, <1>8, <1>9, <1>10 DEF RequestStep

(* What a step may do to a token: nothing, spend it, drop it, or, at the   *)
(* end of createToken, put it where there was none.                        *)
LEMMA TokenEffect ==
  ASSUME TypeOK, NEW r \in Requests, RequestStep(r), NEW t \in Tokens
  PROVE  \/ token'[t] = token[t] \/ token'[t] = None
         \/ token[t] # None /\ token'[t] = [token[t] EXCEPT !.consumed = TRUE]
         \/ SaveToken(r, t)
<1>1. CASE DeleteTokens(r)
  BY <1>1 DEF DeleteTokens
<1>2. CASE InvalidateOutstanding(r)
  BY <1>2 DEF InvalidateOutstanding
<1>3. ASSUME NEW s \in Tokens, SaveToken(r, s), s # t PROVE token'[t] = token[t]
  BY <1>3 DEF SaveToken, TypeOK
<1>4. CASE Consume(r)
  <2> DEFINE s == req[r].token
  <2>1. \/ token' = token
        \/ /\ token[s] # None
           /\ token' = [token EXCEPT ![s] = [token[s] EXCEPT !.consumed = TRUE]]
    BY <1>4 DEF Consume, TypeOK
  <2>2. CASE s = t
    BY <2>1, <2>2 DEF TypeOK
  <2>3. CASE s # t
    BY <2>1, <2>3 DEF TypeOK
  <2> QED
    BY <2>2, <2>3
<1>5. UNCHANGED token \/ DeleteTokens(r) \/ InvalidateOutstanding(r) \/ Consume(r)
        \/ \E s \in Tokens : SaveToken(r, s)
  BY DEF RequestStep, BeginUpdate, BeginIssue, CheckEmail, FindActiveByHash, Holds,
     EnqueueMail, ReadUser, SaveUser, Abort
<1> QED
  BY <1>1, <1>2, <1>3, <1>4, <1>5

LEMMA SpentStep ==
  ASSUME TypeOK, Alone, serial, UsedIsSpent, NEW r \in Requests, RequestStep(r)
  PROVE  UsedIsSpent'
<1>1. /\ \A x \in Requests : x # r => req'[x] = req[x] /\ req[x].pc = "idle"
      /\ used \subseteq drawn /\ drawn \subseteq Tokens
  BY RequestType, AloneStep DEF TypeOK
<1>2. \A t \in used : token'[t] = None \/ token'[t].consumed
  <2> SUFFICES ASSUME NEW t \in used PROVE token'[t] = None \/ token'[t].consumed
    OBVIOUS
  <2>1. t \in Tokens /\ ~ SaveToken(r, t) /\ (token[t] = None \/ token[t].consumed)
    BY <1>1 DEF SaveToken, UsedIsSpent
  <2>2. token[t] # None => [token[t] EXCEPT !.consumed = TRUE].consumed
    BY <2>1 DEF TypeOK, Row
  <2> QED
    BY <2>1, <2>2, TokenEffect
<1>3. CASE Consume(r)
  <2> DEFINE t == req[r].token
  <2>1. /\ req[r].pc = "consume" /\ t \in Tokens /\ t \notin used
        /\ used' = used \cup {t} /\ reused' = reused
    BY <1>1, <1>3, AllSound DEF Consume, Consumed, Move, Sound, UsedIsSpent
  <2>2. token'[t] = None \/ token'[t].consumed
    <3>1. token[t] # None => [token[t] EXCEPT !.consumed = TRUE].consumed
      BY <2>1 DEF TypeOK, Row
    <3> QED
      BY <1>3, <2>1, <3>1 DEF Consume, TypeOK
  <2>3. req'[r].pc = "read"
    BY <1>3 DEF Consume, Move, TypeOK, Request
  <2> QED
    BY <1>1, <1>2, <2>1, <2>2, <2>3 DEF UsedIsSpent
<1>4. CASE ~ Consume(r)
  <2>1. UNCHANGED <<used, reused>>
    BY <1>4 DEF RequestStep, BeginUpdate, BeginIssue, CheckEmail, DeleteTokens,
       InvalidateOutstanding, SaveToken, FindActiveByHash, Holds, EnqueueMail,
       ReadUser, SaveUser, Abort, History
  <2>2. ASSUME req'[r].pc = "consume" PROVE req'[r].token \notin used
    <3>1. PICK t \in Tokens : FindActiveByHash(r, t)
      BY <2>2, WaysInto
    <3> QED
      BY <3>1, FindActiveEffect DEF Usable, UsedIsSpent
  <2> QED
    BY <1>1, <1>2, <2>1, <2>2 DEF UsedIsSpent
<1> QED
  BY <1>3, <1>4

LEMMA ActiveStep ==
  ASSUME TypeOK, Alone, serial, OneActive, NEW r \in Requests, RequestStep(r)
  PROVE  OneActive'
<1> DEFINE ActiveNext(t, u, purpose) ==
             token'[t] # None /\ token'[t].user = u /\ token'[t].purpose = purpose
               /\ ~ token'[t].consumed
<1>1. \A x \in Requests : x # r => req'[x] = req[x] /\ req[x].pc = "idle"
  BY RequestType, AloneStep
<1>2. ASSUME NEW t \in Tokens, NEW u, NEW purpose, ActiveNext(t, u, purpose)
      PROVE  Active(t, u, purpose) \/ SaveToken(r, t)
  <2>1. token[t] # None => [token[t] EXCEPT !.consumed = TRUE].consumed
    BY DEF TypeOK, Row
  <2> QED
    BY <1>2, <2>1, TokenEffect DEF Active
<1>3. ASSUME NEW t \in Tokens, SaveToken(r, t), NEW s \in Tokens, s # t
      PROVE  ~ SaveToken(r, s)
  BY <1>3 DEF SaveToken
<1>4. ASSUME NEW t \in Tokens, SaveToken(r, t), NEW s \in Tokens, s # t,
             NEW u \in Users, NEW purpose \in Purposes,
             ActiveNext(t, u, purpose), ActiveNext(s, u, purpose)
      PROVE  FALSE
  <2>1. u = req[r].user /\ purpose = Issues(req[r].kind)
    BY <1>4, SaveTokenEffect
  <2>2. Active(s, req[r].user, Issues(req[r].kind))
    BY <1>2, <1>3, <1>4, <2>1
  <2> QED
    BY <1>4, <2>2 DEF OneActive, SaveToken
<1>5. \A t1, t2 \in Tokens, u \in Users, purpose \in Purposes :
        ActiveNext(t1, u, purpose) /\ ActiveNext(t2, u, purpose) => t1 = t2
  BY <1>2, <1>4 DEF OneActive
<1>6. ASSUME NEW t \in Tokens, req'[r].pc = "create"
      PROVE  ~ ActiveNext(t, req'[r].user, Issues(req'[r].kind))
  <2>1. InvalidateOutstanding(r)
    BY <1>6, WaysInto
  <2>2. req'[r].user = req[r].user /\ req'[r].kind = req[r].kind
    BY <2>1 DEF InvalidateOutstanding, Move, TypeOK, Request
  <2>3. token[t] # None => [token[t] EXCEPT !.consumed = TRUE].consumed
    BY DEF TypeOK, Row
  <2> QED
    BY <2>1, <2>2, <2>3 DEF InvalidateOutstanding
<1>7. \A x \in Requests, t \in Tokens : req'[x].pc = "create"
        => ~ ActiveNext(t, req'[x].user, Issues(req'[x].kind))
  BY <1>1, <1>6
<1> QED
  BY <1>5, <1>7 DEF OneActive, Active, Issues

LEMMA SerialStep == SerialInv /\ [Next]_vars => SerialInv'
<1> SUFFICES ASSUME SerialInv, [Next]_vars PROVE SerialInv'
  OBVIOUS
<1>1. TypeOK'
  BY TypeStep DEF SerialInv
<1>2. ASSUME NEW r \in Requests, RequestStep(r) PROVE SerialInv'
  <2>1. serial' = serial
    BY <1>2, HistoryType DEF SerialInv
  <2> QED
    BY <1>1, <1>2, <2>1, AloneStep, SpentStep, ActiveStep DEF SerialInv
<1>3. CASE CleanupExpired
  <2>1. /\ UNCHANGED <<req, used, reused, serial>>
        /\ \A t \in Tokens : token'[t] = token[t] \/ token'[t] = None
    BY <1>3 DEF CleanupExpired, History
  <2>2. used \subseteq Tokens
    BY DEF SerialInv, TypeOK
  <2> QED
    BY <1>1, <2>1, <2>2 DEF SerialInv, Alone, UsedIsSpent, OneActive, Active
<1>4. CASE Tick \/ UNCHANGED vars
  <2>1. UNCHANGED <<token, req, used, reused, serial>>
    BY <1>4 DEF Tick, vars, History
  <2> QED
    BY <1>1, <2>1 DEF SerialInv, Alone, UsedIsSpent, OneActive, Active
<1> QED
  BY <1>2, <1>3, <1>4 DEF Next

LEMMA SerialInit == Init => SerialInv
<1> SUFFICES ASSUME Init PROVE SerialInv
  OBVIOUS
<1>1. /\ \A r \in Requests : req[r].pc = "idle"
      /\ \A t \in Tokens : token[t] = None
      /\ used = {} /\ reused = {}
  BY IdleType DEF Init
<1> QED
  BY <1>1, TypeInit DEF SerialInv, Alone, UsedIsSpent, OneActive, Active

(* No token is consumed by two requests, as long as requests do not        *)
(* overlap: not after a cleanup, nor after a request that died half way    *)
(* (consumeToken).                                                         *)
THEOREM SerialTokensWorkOnce == Spec => []SingleUse
<1>1. SerialInv => SingleUse
  BY DEF SerialInv, UsedIsSpent, SingleUse
<1> QED
  BY <1>1, SerialInit, SerialStep, PTL DEF Spec

(* Only the newest token that a user was sent for a purpose works, as long *)
(* as requests do not overlap (createToken).                               *)
THEOREM SerialNewestOnly == Spec => []OneOutstanding
<1>1. SerialInv => OneOutstanding
  <2> SUFFICES ASSUME SerialInv, serial, NEW t1 \in Tokens, NEW t2 \in Tokens,
                      NEW purpose \in Purposes,
                      Usable(t1, purpose), Usable(t2, purpose),
                      token[t1].user = token[t2].user
               PROVE  t1 = t2
    BY DEF OneOutstanding
  <2>1. token[t1].user \in Users
    BY DEF SerialInv, TypeOK, Usable, Row
  <2> QED
    BY <2>1 DEF SerialInv, OneActive, Active, Usable
<1> QED
  BY <1>1, SerialInit, SerialStep, PTL DEF Spec
-----------------------------------------------------------------------------
(* When requests do not overlap: a verified address is one that was        *)
(* answered.  What has to be known of every token in the mail is which     *)
(* address it went to, and of every request in progress how its row        *)
(* compares with the account.                                              *)

(* The mail with token t went to e, and the token would verify u.          *)
Mailed(t, u, e) == Active(t, u, "email_verification") /\ <<t, e>> \in inbox

(* updateProfile has sent its mail and is about to save the new address.   *)
Changes(r, u) ==
  /\ req[r].pc = "save" /\ req[r].kind = "profile"
  /\ req[r].user = u /\ req[r].token # None

Answered ==
  \A u \in Users \ orphans :
    account[u].verified => <<u, account[u].email>> \in proven

MailsFit ==
  \A u \in Users \ orphans, t \in Tokens, e \in Emails :
    Mailed(t, u, e) =>
      \/ e = account[u].email
      \/ \E r \in Requests : Changes(r, u) /\ e = req[r].row.email

(* What a request will save, or lets be saved, agrees with the mails.      *)
Works(r) ==
  /\ req[r].row # None /\ req[r].row.verified
       => <<req[r].user, req[r].row.email>> \in proven
  /\ req[r].pc \in {"consume", "read"} /\ req[r].kind = "verify"
       => <<req[r].user, account[req[r].user].email>> \in proven
  /\ req[r].kind \in {"resend", "forgot"} => req[r].row = account[req[r].user]
  /\ req[r].pc = "save" =>
       \A t \in Tokens, e \in Emails :
         Mailed(t, req[r].user, e) => e = req[r].row.email
  /\ req[r].pc = "mail" /\ req[r].kind = "profile" =>
       \A t \in Tokens, e \in Emails : ~ Mailed(t, req[r].user, e)
  /\ req[r].pc \in {"invalidate", "create", "mail"}
       => req[r].kind \in {"profile", "resend", "forgot"}
  /\ req[r].pc = "check" => req[r].kind \in {"profile", "admin"}
  /\ req[r].pc \in {"consume", "read"} => req[r].kind \in {"verify", "reset"}

WorksFit ==
  \A r \in Requests :
    req[r].pc # "idle" /\ req[r].user \notin orphans => Works(r)

OwnToken ==
  \A r \in Requests :
    req[r].pc # "idle" /\ req[r].token \in Tokens =>
      \/ token[req[r].token] = None
      \/ token[req[r].token].user = req[r].user

Addressed == Answered /\ MailsFit /\ WorksFit /\ OwnToken

AddressInv == SerialInv /\ (serial => Addressed)

(* A token is in the mail, and of use, only if it was so before, or is     *)
(* being sent.                                                             *)
LEMMA MailedEffect ==
  ASSUME TypeOK, NEW r \in Requests, RequestStep(r), NEW t \in Tokens,
         NEW u \in Users, NEW e \in Emails, Mailed(t, u, e)'
  PROVE  \/ Mailed(t, u, e)
         \/ /\ EnqueueMail(r) /\ Active(t, u, "email_verification")
            /\ t = req[r].token /\ e = req[r].row.email
<1>1. /\ token'[t] # None /\ token'[t].user = u
      /\ token'[t].purpose = "email_verification" /\ ~ token'[t].consumed
      /\ <<t, e>> \in inbox'
  BY DEF Mailed, Active
<1>2. CASE EnqueueMail(r)
  <2>1. token' = token /\ inbox' = inbox \cup {<<req[r].token, req[r].row.email>>}
    BY <1>2 DEF EnqueueMail
  <2> QED
    BY <1>1, <1>2, <2>1 DEF Mailed, Active
<1>3. CASE ~ EnqueueMail(r)
  <2>1. inbox' = inbox
    BY <1>3 DEF RequestStep, BeginUpdate, BeginIssue, CheckEmail, DeleteTokens,
       InvalidateOutstanding, SaveToken, FindActiveByHash, Holds, Consume,
       ReadUser, SaveUser, Abort
  <2>2. ~ SaveToken(r, t)
    BY <1>1, <2>1 DEF SaveToken, TypeOK
  <2>3. token[t] # None => [token[t] EXCEPT !.consumed = TRUE].consumed
    BY DEF TypeOK, Row
  <2> QED
    BY <1>1, <2>1, <2>2, <2>3, TokenEffect DEF Mailed, Active
<1> QED
  BY <1>2, <1>3

(* Between requests every mail has gone to the address of its user.        *)
LEMMA MailsAtRest ==
  ASSUME Addressed, NEW r \in Requests,
         \A x \in Requests : x # r => req[x].pc = "idle",
         NEW u \in Users, u \notin orphans, ~ Changes(r, u),
         NEW t \in Tokens, NEW e \in Emails, Mailed(t, u, e)
  PROVE  e = account[u].email
BY DEF Addressed, MailsFit, Changes

(* The token a request holds is its user's.                                *)
LEMMA OwnTokenStep ==
  ASSUME TypeOK, Addressed, NEW r \in Requests, RequestStep(r),
         \A x \in Requests : x # r => req[x].pc = "idle"
  PROVE  OwnToken'
<1>1. \A x \in Requests : x # r => req'[x] = req[x]
  BY RequestType
<1>2. ASSUME NEW t \in Tokens, token'[t] # None, ~ SaveToken(r, t)
      PROVE  token[t] # None /\ token'[t].user = token[t].user
  <2>1. token[t] # None => [token[t] EXCEPT !.consumed = TRUE].user = token[t].user
    BY DEF TypeOK, Row
  <2> QED
    BY <1>2, <2>1, TokenEffect DEF TypeOK
<1>3. ASSUME req'[r].pc # "idle", NEW t \in Tokens, req'[r].token = t,
             token'[t] # None
      PROVE  token'[t].user = req'[r].user
  <2>1. ASSUME NEW u \in Users, BeginIssue(r, u) PROVE FALSE
    BY <1>3, <2>1, BeginIssueEffect
  <2>2. ASSUME NEW u \in Users, NEW e \in Emails, BeginUpdate(r, u, e)
        PROVE  FALSE
    BY <1>3, <2>2, BeginUpdateEffect
  <2>3. ASSUME NEW s \in Tokens, SaveToken(r, s)
        PROVE  token'[t].user = req'[r].user
    BY <1>3, <2>3, SaveTokenEffect
  <2>4. ASSUME NEW s \in Tokens, FindActiveByHash(r, s)
        PROVE  token'[t].user = req'[r].user
    <3>1. /\ req'[r].token = s /\ req'[r].user = token[s].user
      BY <2>4, FindActiveEffect
    <3>2. token' = token
      BY <2>4 DEF FindActiveByHash, Holds
    <3> QED
      BY <1>3, <3>1, <3>2
  <2>5. ASSUME req[r].pc # "idle", req'[r].token = req[r].token,
               req'[r].user = req[r].user, ~ SaveToken(r, t)
        PROVE  token'[t].user = req'[r].user
    BY <1>2, <1>3, <2>5 DEF Addressed, OwnToken
  <2>6. ASSUME NEW to, Move(r, req[r].pc, to), req[r].pc # "idle",
               ~ SaveToken(r, t)
        PROVE  token'[t].user = req'[r].user
    <3>1. req'[r].token = req[r].token /\ req'[r].user = req[r].user
      BY <2>6 DEF Move, TypeOK, Request
    <3> QED
      BY <2>5, <2>6, <3>1
  <2>7. CASE ReadUser(r)
    BY <2>5, <2>7, ReadUserEffect DEF ReadUser, SaveToken
  <2>8. CASE Finish(r)
    BY <1>3, <2>8, IdleType DEF Finish, TypeOK
  <2>9. CASE CheckEmail(r)
    <3>1. PICK to \in {"delete", "invalidate"} : Move(r, "check", to)
      BY <2>9 DEF CheckEmail
    <3> QED
      BY <2>6, <3>1 DEF Move, SaveToken
  <2>10. CASE DeleteTokens(r) \/ InvalidateOutstanding(r) \/ Consume(r)
    BY <2>6, <2>10 DEF DeleteTokens, InvalidateOutstanding, Consume, Move,
       SaveToken
  <2>11. CASE EnqueueMail(r) \/ SaveUser(r) \/ Abort(r)
    BY <2>6, <2>8, <2>11 DEF EnqueueMail, SaveUser, Abort, Move, SaveToken
  <2> QED
    BY <2>1, <2>2, <2>3, <2>4, <2>7, <2>9, <2>10, <2>11 DEF RequestStep
<1>4. \A x \in Requests : req'[x].pc # "idle" /\ req'[x].token \in Tokens =>
        \/ token'[req'[x].token] = None
        \/ token'[req'[x].token].user = req'[x].user
  <2> SUFFICES ASSUME NEW x \in Requests, req'[x].pc # "idle",
                      req'[x].token \in Tokens, token'[req'[x].token] # None
               PROVE  token'[req'[x].token].user = req'[x].user
    OBVIOUS
  <2>1. x = r
    BY <1>1
  <2> QED
    BY <1>3, <2>1
<1> QED
  BY <1>4 DEF OwnToken
LEMMA OrphansGrow ==
  ASSUME TypeOK, NEW r \in Requests, RequestStep(r)
  PROVE  orphans \subseteq orphans' /\ (~ Abort(r) => orphans' = orphans)
BY DEF RequestStep, BeginUpdate, BeginIssue, CheckEmail, DeleteTokens,
   InvalidateOutstanding, SaveToken, FindActiveByHash, Holds, EnqueueMail,
   Consume, Consumed, ReadUser, SaveUser, Abort, History

LEMMA AnsweredStep ==
  ASSUME TypeOK, Addressed, NEW r \in Requests, RequestStep(r)
  PROVE  Answered'
<1>1. orphans \subseteq orphans' /\ proven \subseteq proven'
  BY OrphansGrow, HistoryType
<1>2. CASE SaveUser(r)
  <2> DEFINE w == req[r].user
  <2>1. /\ w \in Users /\ req[r].row # None /\ req[r].pc # "idle"
        /\ account' = [account EXCEPT ![w] = req[r].row]
    BY <1>2, AllSound DEF SaveUser, Sound
  <2>2. w \notin orphans /\ req[r].row.verified
          => <<w, req[r].row.email>> \in proven
    BY <2>1 DEF Addressed, WorksFit, Works
  <2>3. /\ account'[w] = req[r].row
        /\ \A u \in Users : u # w => account'[u] = account[u]
    BY <2>1 DEF TypeOK
  <2> HIDE DEF w
  <2>4. ASSUME NEW u \in Users \ orphans', account'[u].verified
        PROVE  <<u, account'[u].email>> \in proven'
    BY <1>1, <2>2, <2>3, <2>4 DEF Addressed, Answered
  <2> QED
    BY <2>4 DEF Answered
<1>3. CASE ~ SaveUser(r)
  <2>1. account' = account
    BY <1>3 DEF RequestStep, BeginUpdate, BeginIssue, CheckEmail, DeleteTokens,
       InvalidateOutstanding, SaveToken, FindActiveByHash, Holds, EnqueueMail,
       Consume, ReadUser, Abort
  <2> QED
    BY <1>1, <2>1 DEF Addressed, Answered
<1> QED
  BY <1>2, <1>3

LEMMA MailsStep ==
  ASSUME TypeOK, Addressed, serial, NEW r \in Requests, RequestStep(r),
         \A x \in Requests : x # r => req[x].pc = "idle"
  PROVE  MailsFit'
<1> DEFINE Goes(t, u, e) ==
             /\ token'[t] # None /\ token'[t].user = u
             /\ token'[t].purpose = "email_verification"
             /\ ~ token'[t].consumed /\ <<t, e>> \in inbox'
           Alters(x, u) ==
             /\ req'[x].pc = "save" /\ req'[x].kind = "profile"
             /\ req'[x].user = u /\ req'[x].token # None
<1>1. Sound(req[r], drawn) /\ orphans \subseteq orphans' /\ drawn \subseteq Tokens
  BY AllSound, OrphansGrow DEF TypeOK
<1>2. ASSUME NEW u \in Users, u \notin orphans', NEW t \in Tokens,
             NEW e \in Emails, Goes(t, u, e)
      PROVE  \/ e = account'[u].email
             \/ \E x \in Requests : Alters(x, u) /\ e = req'[x].row.email
  <2>1. \/ Mailed(t, u, e)
        \/ /\ EnqueueMail(r) /\ Active(t, u, "email_verification")
           /\ t = req[r].token /\ e = req[r].row.email
    BY <1>2, MailedEffect DEF Mailed, Active
  <2>2. u \notin orphans
    BY <1>1, <1>2
  <2>3. Mailed(t, u, e) /\ ~ Changes(r, u) => e = account[u].email
    BY <2>2, MailsAtRest
  <2>4. CASE EnqueueMail(r) /\ ~ Mailed(t, u, e)
    <3>1. /\ t = req[r].token /\ e = req[r].row.email /\ token[t] # None
          /\ token[t].user = u /\ req[r].pc = "mail" /\ account' = account
      BY <2>1, <2>4 DEF Active, EnqueueMail
    <3>2. req[r].user = u
      BY <3>1 DEF Addressed, OwnToken
    <3>3. CASE req[r].kind = "profile"
      <4>1. req' = [req EXCEPT ![r].pc = "save"]
        BY <2>4, <3>3 DEF EnqueueMail, Move
      <4>2. /\ req'[r].pc = "save" /\ req'[r].kind = "profile"
            /\ req'[r].user = u /\ req'[r].token = t
            /\ req'[r].row = req[r].row
        BY <3>1, <3>2, <3>3, <4>1 DEF TypeOK, Request
      <4> QED
        BY <3>1, <4>2
    <3>4. CASE req[r].kind # "profile"
      <4>1. Works(r)
        BY <2>2, <3>1, <3>2 DEF Addressed, WorksFit
      <4>2. req[r].row = account[u]
        BY <3>1, <3>2, <3>4, <4>1 DEF Works
      <4> QED
        BY <3>1, <4>2
    <3> QED
      BY <3>3, <3>4
  <2>5. CASE SaveUser(r)
    <3>1. /\ account' = [account EXCEPT ![req[r].user] = req[r].row]
          /\ req[r].pc = "save" /\ ~ EnqueueMail(r) /\ req[r].user \in Users
      BY <1>1, <2>5 DEF SaveUser, EnqueueMail, Sound
    <3>2. CASE u = req[r].user
      <4>1. Works(r)
        BY <2>2, <3>1, <3>2 DEF Addressed, WorksFit
      <4> QED
        BY <2>1, <3>1, <3>2, <4>1 DEF Works, TypeOK
    <3>3. CASE u # req[r].user
      BY <2>1, <2>3, <3>1, <3>3 DEF Changes, TypeOK
    <3> QED
      BY <3>2, <3>3
  <2>6. CASE ~ SaveUser(r) /\ Mailed(t, u, e)
    <3>1. account' = account
      BY <2>6 DEF RequestStep, BeginUpdate, BeginIssue, CheckEmail, DeleteTokens,
         InvalidateOutstanding, SaveToken, FindActiveByHash, Holds, EnqueueMail,
         Consume, ReadUser, Abort
    <3>2. ~ Changes(r, u)
      <4>1. SUFFICES ASSUME Changes(r, u) PROVE FALSE
        OBVIOUS
      <4>2. Abort(r)
        BY <2>6, <4>1 DEF Changes, RequestStep, BeginUpdate, BeginIssue, Begin,
           CheckEmail, DeleteTokens, InvalidateOutstanding, SaveToken,
           FindActiveByHash, EnqueueMail, Consume, ReadUser, Move
      <4>3. u \in orphans'
        BY <4>1, <4>2 DEF Abort, Changes
      <4> QED
        BY <1>2, <4>3
    <3> QED
      BY <2>3, <2>6, <3>1, <3>2
  <2> QED
    BY <2>1, <2>4, <2>5, <2>6
<1> QED
  BY <1>2 DEF MailsFit, Mailed, Active, Changes
LEMMA WorksStep ==
  ASSUME TypeOK, OneActive, Addressed, serial, NEW r \in Requests,
         RequestStep(r), \A x \in Requests : x # r => req[x].pc = "idle"
  PROVE  WorksFit'
<1> DEFINE Goes(t, u, e) ==
             /\ token'[t] # None /\ token'[t].user = u
             /\ token'[t].purpose = "email_verification"
             /\ ~ token'[t].consumed /\ <<t, e>> \in inbox'
           Right(q) ==
             /\ q.row # None /\ q.row.verified
                  => <<q.user, q.row.email>> \in proven'
             /\ q.pc \in {"consume", "read"} /\ q.kind = "verify"
                  => <<q.user, account'[q.user].email>> \in proven'
             /\ q.kind \in {"resend", "forgot"} => q.row = account'[q.user]
             /\ q.pc = "save" =>
                  \A t \in Tokens, e \in Emails :
                    Goes(t, q.user, e) => e = q.row.email
             /\ q.pc = "mail" /\ q.kind = "profile" =>
                  \A t \in Tokens, e \in Emails : ~ Goes(t, q.user, e)
             /\ q.pc \in {"invalidate", "create", "mail"}
                  => q.kind \in {"profile", "resend", "forgot"}
             /\ q.pc = "check" => q.kind \in {"profile", "admin"}
             /\ q.pc \in {"consume", "read"} => q.kind \in {"verify", "reset"}
<1>1. /\ Sound(req[r], drawn) /\ drawn \subseteq Tokens
      /\ proven \subseteq proven' /\ orphans \subseteq orphans'
      /\ \A x \in Requests : x # r => req'[x] = req[x]
  BY AllSound, HistoryType, OrphansGrow, RequestType DEF TypeOK
<1>2. ASSUME NEW u \in Users, NEW t \in Tokens, NEW e \in Emails,
             Goes(t, u, e), ~ EnqueueMail(r)
      PROVE  Mailed(t, u, e)
  BY <1>2, MailedEffect DEF Mailed, Active
<1>3. ASSUME NEW u \in Users, u \notin orphans', req[r].pc # "save",
             NEW t \in Tokens, NEW e \in Emails, Mailed(t, u, e)
      PROVE  e = account[u].email
  BY <1>1, <1>3, MailsAtRest DEF Changes
<1>4. \A u \in Users : u \notin orphans' /\ account[u].verified
        => <<u, account[u].email>> \in proven'
  BY <1>1 DEF Addressed, Answered
<1>5. req[r].pc # "idle" /\ req[r].user \notin orphans' => Works(r)
  BY <1>1 DEF Addressed, WorksFit
(* Most steps only move on; the account, the mails and the user's history  *)
(* are as they were.                                                       *)
<1>6. ASSUME NEW to, req' = [req EXCEPT ![r].pc = to], req[r].pc # "idle",
             UNCHANGED account, req[r].user \notin orphans',
             to \in {"delete", "invalidate", "create", "read", "save"},
             to = "read" => req[r].pc = "consume",
             to = "invalidate" => req[r].pc = "check" /\ req[r].kind # "admin",
             to = "create" => req[r].pc = "invalidate",
             to = "save" => \A t \in Tokens, e \in Emails :
                              Goes(t, req[r].user, e) => e = req[r].row.email
      PROVE  Right(req'[r])
  <2>1. PICK q : q = req'[r]
    OBVIOUS
  <2>2. /\ q.pc = to /\ q.kind = req[r].kind /\ q.user = req[r].user
        /\ q.row = req[r].row
    BY <1>6, <2>1 DEF TypeOK, Request
  <2>3. /\ Works(r) /\ account' = account
    BY <1>5, <1>6
  <2> HIDE DEF Goes
  <2>4. Right(q)
    BY <1>1, <1>6, <2>2, <2>3 DEF Works
  <2> QED
    BY <2>1, <2>4
<1>7. ASSUME req'[r].pc # "idle", req'[r].user \notin orphans'
      PROVE  Right(req'[r])
  <2>1. ASSUME NEW u \in Users, NEW e \in Emails, BeginUpdate(r, u, e)
        PROVE  Right(req'[r])
    <3>1. PICK q : q = req'[r]
      OBVIOUS
    <3>2. /\ q.pc \in {"check", "save"} /\ q.user = u
          /\ q.kind \in {"profile", "admin"}
          /\ \/ q.pc = "check" /\ ~ q.row.verified
             \/ q.pc = "save" /\ q.row = account[u]
      BY <2>1, <3>1, BeginUpdateEffect
    <3>3. /\ req[r].pc = "idle" /\ u \notin orphans' /\ ~ EnqueueMail(r)
      BY <1>7, <2>1, <3>1, <3>2 DEF BeginUpdate, Begin, EnqueueMail
    <3>4. \A t \in Tokens, f \in Emails : Goes(t, u, f) => f = account[u].email
      BY <1>2, <1>3, <3>3
    <3> HIDE DEF Goes
    <3> QED
      BY <1>4, <3>1, <3>2, <3>3, <3>4
  <2>2. ASSUME NEW u \in Users, BeginIssue(r, u) PROVE Right(req'[r])
    <3>1. PICK q : q = req'[r]
      OBVIOUS
    <3>2. /\ q.pc = "invalidate" /\ q.user = u /\ q.row = account[u]
          /\ q.kind \in {"resend", "forgot"} /\ account' = account
      <4>1. account' = account
        BY <2>2 DEF BeginIssue
      <4> HIDE DEF Right, Goes
      <4> QED
        BY <2>2, <3>1, <4>1, BeginIssueEffect
    <3> HIDE DEF Goes
    <3> QED
      BY <1>4, <1>7, <3>1, <3>2
  <2>3. ASSUME NEW t \in Tokens, FindActiveByHash(r, t) PROVE Right(req'[r])
    <3>1. PICK q : q = req'[r]
      OBVIOUS
    <3>2. /\ q.pc = "consume" /\ q.token = t /\ q.user = token[t].user
          /\ q.row = None /\ Usable(t, Uses(q.kind))
          /\ q.kind \in {"verify", "reset"} /\ account' = account
          /\ req[r].pc = "idle"
      <4>1. account' = account /\ req[r].pc = "idle"
        BY <2>3 DEF FindActiveByHash, Holds, Begin
      <4> HIDE DEF Right, Goes
      <4> QED
        BY <2>3, <3>1, <4>1, FindActiveEffect
    <3>3. q.user \in Users /\ q.user \notin orphans'
      BY <1>7, <3>1, <3>2 DEF Usable, TypeOK, Row
    <3>4. ASSUME q.kind = "verify"
          PROVE  <<q.user, account[q.user].email>> \in proven'
      <4>1. /\ Active(t, q.user, "email_verification")
            /\ token[t].purpose = "email_verification"
        BY <3>2, <3>4 DEF Usable, Uses, Active
      <4>2. PICK e \in Emails : <<t, e>> \in inbox
        BY <2>3, FindActiveEffect
      <4>3. e = account[q.user].email
        BY <1>3, <3>2, <3>3, <4>1, <4>2 DEF Mailed
      <4>4. <<token[t].user, e>> \in proven'
        BY <2>3, <4>1, <4>2, FindActiveEffect
      <4> QED
        BY <3>2, <4>3, <4>4
    <3> HIDE DEF Goes
    <3> QED
      BY <3>1, <3>2, <3>4
  <2>4. CASE CheckEmail(r)
    <3>1. PICK to \in {"delete", "invalidate"} :
            /\ Move(r, "check", to) /\ account' = account
            /\ to = "invalidate" => req[r].kind # "admin"
      BY <2>4 DEF CheckEmail
    <3>2. req[r].pc = "check" /\ req' = [req EXCEPT ![r].pc = to]
      BY <3>1 DEF Move
    <3>3. req'[r].user = req[r].user
      BY <3>2 DEF TypeOK, Request
    <3> HIDE DEF Goes, Right
    <3> QED
      BY <1>6, <1>7, <3>1, <3>2, <3>3
  <2>5. CASE DeleteTokens(r)
    <3>1. /\ req[r].pc = "delete" /\ req' = [req EXCEPT ![r].pc = "save"]
          /\ account' = account
      BY <2>5 DEF DeleteTokens, Move
    <3>2. req'[r].user = req[r].user
      BY <3>1 DEF TypeOK, Request
    <3>3. \A t \in Tokens, e \in Emails : ~ Goes(t, req[r].user, e)
      BY <2>5 DEF DeleteTokens
    <3> HIDE DEF Goes, Right
    <3> QED
      BY <1>6, <1>7, <3>1, <3>2, <3>3
  <2>6. CASE InvalidateOutstanding(r)
    <3>1. PICK to : /\ req[r].pc = "invalidate" /\ to = "create"
                    /\ req' = [req EXCEPT ![r].pc = to]
                    /\ account' = account
      BY <2>6 DEF InvalidateOutstanding, Move
    <3>2. req'[r].user = req[r].user
      BY <3>1 DEF TypeOK, Request
    <3>3. /\ to \in {"create", "read"}
          /\ to = "save" => \A t \in Tokens, e \in Emails :
                              Goes(t, req[r].user, e) => e = req[r].row.email
      BY <3>1
    <3> HIDE DEF Goes, Right
    <3> QED
      BY <1>6, <1>7, <3>1, <3>2, <3>3
  <2>7. CASE Consume(r)
    <3>1. PICK to : /\ req[r].pc = "consume" /\ to = "read"
                    /\ req' = [req EXCEPT ![r].pc = to]
                    /\ account' = account
      BY <2>7 DEF Consume, Move
    <3>2. req'[r].user = req[r].user
      BY <3>1 DEF TypeOK, Request
    <3>3. /\ to \in {"create", "read"}
          /\ to = "save" => \A t \in Tokens, e \in Emails :
                              Goes(t, req[r].user, e) => e = req[r].row.email
      BY <3>1
    <3> HIDE DEF Goes, Right
    <3> QED
      BY <1>6, <1>7, <3>1, <3>2, <3>3
  <2>8. ASSUME NEW s \in Tokens, SaveToken(r, s) PROVE Right(req'[r])
    <3>1. PICK q : q = req'[r]
      OBVIOUS
    <3>2. /\ q.pc \in {"save", "mail"} /\ q.user = req[r].user
          /\ q.row = req[r].row /\ q.kind = req[r].kind
          /\ q.pc = "save" => q.kind = "resend"
      BY <2>8, <3>1, SaveTokenEffect
    <3>3. /\ req[r].pc = "create" /\ account' = account /\ ~ EnqueueMail(r)
          /\ req[r].user \in Users
      BY <1>1, <2>8 DEF SaveToken, EnqueueMail, Sound
    <3>4. Works(r) /\ q.user \notin orphans' /\ q.user \in Users
      BY <1>5, <1>7, <3>1, <3>2, <3>3
    <3>5. \A t \in Tokens, e \in Emails :
            Goes(t, q.user, e) => e = account[q.user].email
      BY <1>2, <1>3, <3>3, <3>4
    <3>6. ASSUME q.kind = "profile", NEW t \in Tokens, NEW e \in Emails,
                 Goes(t, q.user, e)
          PROVE  FALSE
      <4>1. Active(t, req[r].user, Issues(req[r].kind))
        BY <1>2, <3>2, <3>3, <3>4, <3>6 DEF Mailed, Issues
      <4> QED
        BY <3>3, <4>1 DEF OneActive
    <3> HIDE DEF Goes
    <3>7. Right(q)
      BY <1>1, <3>2, <3>3, <3>4, <3>5, <3>6 DEF Works
    <3> QED
      BY <3>1, <3>7
  <2>9. CASE EnqueueMail(r)
    <3>1. /\ req[r].pc = "mail" /\ account' = account
          /\ req[r].user \in Users
      BY <1>1, <2>9 DEF EnqueueMail, Sound
    <3>2. CASE req[r].kind = "profile"
      <4>1. req' = [req EXCEPT ![r].pc = "save"]
        BY <2>9, <3>2 DEF EnqueueMail, Move
      <4>2. req'[r].user = req[r].user
        BY <4>1 DEF TypeOK, Request
      <4>3. Works(r)
        BY <1>5, <1>7, <3>1, <4>2
      <4>4. ASSUME NEW t \in Tokens, NEW e \in Emails, Goes(t, req[r].user, e)
            PROVE  e = req[r].row.email
        <5>1. \/ Mailed(t, req[r].user, e)
              \/ e = req[r].row.email
          BY <3>1, <4>4, MailedEffect DEF Mailed, Active
        <5> QED
          BY <3>1, <3>2, <4>3, <5>1 DEF Works
      <4> HIDE DEF Goes, Right
      <4> QED
        BY <1>6, <1>7, <3>1, <4>1, <4>2, <4>4
    <3>3. CASE req[r].kind # "profile"
      <4>1. req'[r].pc = "idle"
        BY <2>9, <3>3, IdleType DEF EnqueueMail, Finish, TypeOK
      <4> QED
        BY <1>7, <4>1
    <3> QED
      BY <3>2, <3>3
  <2>10. CASE ReadUser(r)
    <3>1. PICK q : q = req'[r]
      OBVIOUS
    <3>2. /\ q.pc = "save" /\ q.user = req[r].user /\ q.kind = req[r].kind
          /\ q.row.verified => \/ q.kind = "verify"
                               \/ account[q.user].verified
          /\ q.row.email = account[q.user].email
      BY <2>10, <3>1, ReadUserEffect
    <3>3. /\ req[r].pc = "read" /\ account' = account /\ ~ EnqueueMail(r)
          /\ req[r].user \in Users
      BY <1>1, <2>10 DEF ReadUser, EnqueueMail, Sound
    <3>4. Works(r) /\ q.user \notin orphans' /\ q.user \in Users
      BY <1>5, <1>7, <3>1, <3>2, <3>3
    <3>5. \A t \in Tokens, e \in Emails :
            Goes(t, q.user, e) => e = account[q.user].email
      BY <1>2, <1>3, <3>3, <3>4
    <3>6. q.kind \notin {"resend", "forgot"}
      BY <3>2, <3>3, <3>4 DEF Works
    <3> HIDE DEF Goes
    <3>7. Right(q)
      BY <1>1, <1>4, <3>2, <3>3, <3>4, <3>5, <3>6 DEF Works
    <3> QED
      BY <3>1, <3>7
  <2>11. CASE SaveUser(r)
    <3>1. req[r].kind = "resend" /\ req' = [req EXCEPT ![r].pc = "mail"]
      BY <1>7, <2>11, IdleType DEF SaveUser, Finish, Move, TypeOK
    <3>2. PICK q : q = req'[r]
      OBVIOUS
    <3>3. /\ q.pc = "mail" /\ q.user = req[r].user /\ q.kind = "resend"
          /\ q.row = req[r].row
      BY <3>1, <3>2 DEF TypeOK, Request
    <3>4. /\ req[r].pc = "save" /\ req[r].user \in Users
          /\ account' = [account EXCEPT ![req[r].user] = req[r].row]
      BY <1>1, <2>11 DEF SaveUser, Sound
    <3>5. account'[q.user] = q.row
      BY <3>3, <3>4 DEF TypeOK
    <3>6. Works(r)
      BY <1>5, <1>7, <3>2, <3>3, <3>4
    <3> HIDE DEF Goes
    <3>7. Right(q)
      BY <1>1, <3>3, <3>5, <3>6 DEF Works
    <3> QED
      BY <3>2, <3>7
  <2>12. CASE Abort(r)
    <3>1. req'[r].pc = "idle"
      BY <2>12, IdleType DEF Abort, Finish, TypeOK
    <3> QED
      BY <1>7, <3>1
  <2> HIDE DEF Right
  <2> QED
    BY <2>1, <2>2, <2>3, <2>4, <2>5, <2>6, <2>7, <2>8, <2>9, <2>10, <2>11,
       <2>12 DEF RequestStep
<1>8. ASSUME NEW x \in Requests, req'[x].pc # "idle",
             req'[x].user \notin orphans'
      PROVE  Right(req'[x])
  <2> HIDE DEF Right
  <2>1. x = r
    BY <1>1, <1>8
  <2> QED
    BY <1>7, <1>8, <2>1
<1> QED
  BY <1>8 DEF WorksFit, Works, Mailed, Active

LEMMA AddressStep == AddressInv /\ [Next]_vars => AddressInv'
<1> SUFFICES ASSUME AddressInv, [Next]_vars PROVE AddressInv'
  OBVIOUS
<1>1. SerialInv' /\ TypeOK
  BY SerialStep DEF AddressInv, SerialInv
<1>2. ASSUME NEW r \in Requests, RequestStep(r) PROVE AddressInv'
  <2>1. serial' = serial
    BY <1>1, <1>2, HistoryType
  <2>2. CASE serial
    <3>1. Addressed /\ Alone /\ OneActive
      BY <2>2 DEF AddressInv, SerialInv
    <3>2. \A x \in Requests : x # r => req[x].pc = "idle"
      BY <1>1, <1>2, <2>2, <3>1, AloneStep
    <3>3. Answered' /\ MailsFit' /\ WorksFit' /\ OwnToken'
      BY <1>1, <1>2, <2>2, <3>1, <3>2, AnsweredStep, MailsStep, WorksStep,
         OwnTokenStep
    <3> QED
      BY <1>1, <3>3 DEF AddressInv, Addressed
  <2>3. CASE ~ serial
    BY <1>1, <2>1, <2>3 DEF AddressInv
  <2> QED
    BY <2>2, <2>3
<1>3. CASE CleanupExpired \/ Tick \/ UNCHANGED vars
  <2>1. /\ UNCHANGED <<account, inbox, req, proven, orphans, serial>>
        /\ \A t \in Tokens : token'[t] = token[t] \/ token'[t] = None
    BY <1>3 DEF CleanupExpired, Tick, vars, History
  <2>2. CASE serial
    <3>1. Answered' /\ OwnToken'
      BY <2>1, <2>2 DEF AddressInv, Addressed, Answered, OwnToken
    <3>2. MailsFit'
      BY <2>1, <2>2 DEF AddressInv, Addressed, MailsFit, Mailed, Active, Changes
    <3>3. WorksFit'
      BY <2>1, <2>2 DEF AddressInv, Addressed, WorksFit, Works, Mailed, Active
    <3> QED
      BY <1>1, <3>1, <3>2, <3>3 DEF AddressInv, Addressed
  <2>3. CASE ~ serial
    BY <1>1, <2>1, <2>3 DEF AddressInv
  <2> QED
    BY <2>2, <2>3
<1> QED
  BY <1>2, <1>3 DEF Next

LEMMA AddressInit == Init => AddressInv
<1> SUFFICES ASSUME Init PROVE AddressInv
  OBVIOUS
<1>1. /\ \A r \in Requests : req[r].pc = "idle"
      /\ \A t \in Tokens : token[t] = None
      /\ \A u \in Users : ~ account[u].verified
  BY IdleType DEF Init
<1> QED
  BY <1>1, SerialInit DEF AddressInv, Addressed, Answered, MailsFit, WorksFit,
     OwnToken, Mailed, Active

(* The address of a verified user is one whose mail was answered, as long  *)
(* as requests do not overlap, unless a change of that address failed      *)
(* after its mail had gone out (updateProfile, users.update, verifyEmail). *)
THEOREM SerialAddressProven == Spec => []AddressProven
<1>1. AddressInv => AddressProven
  BY DEF AddressInv, Addressed, Answered, AddressProven
<1> QED
  BY <1>1, AddressInit, AddressStep, PTL DEF Spec
=============================================================================
