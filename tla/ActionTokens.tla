---------------------------- MODULE ActionTokens ----------------------------
(***************************************************************************)
(* Tokens sent by mail: auth-token.service.ts over                         *)
(* auth-action-token.repository.ts, with the handlers that issue and use   *)
(* them: resendVerificationEmail, verifyEmail, forgotPassword and          *)
(* resetPassword of auth.service.ts, updateProfile of account.service.ts   *)
(* and update of users.service.ts.                                         *)
(*                                                                         *)
(* Of a user the e-mail address and emailVerifiedAt are kept; saving a     *)
(* user writes both, as they were read or set.  What a password reset does *)
(* to sessions is in UserSessions.  A token can be presented by whoever    *)
(* received the mail that carries it.                                      *)
(***************************************************************************)
EXTENDS Naturals, RequestSlots

CONSTANTS
  Users, Emails,
  Tokens,       \* the values randomBytes may return
  ResetTTL,     \* auth.resetPasswordExpiresMinutes, in ticks of the clock
  VerifyTTL,    \* auth.verificationExpiresHours, in ticks of the clock
  MaxClock      \* bound: the clock stops here

(* The handlers, and what is kept of a user.                               *)
Kinds   == {"profile", "admin", "resend", "forgot", "verify", "reset"}
Account == [email: Emails, verified: BOOLEAN]

ASSUME TokenAssumption ==
  /\ ResetTTL \in Nat /\ VerifyTTL \in Nat /\ MaxClock \in Nat
  /\ None \notin Users /\ None \notin Tokens
  /\ None \notin Kinds /\ None \notin Account

VARIABLES
  account,   \* [Users -> Account]
  token,     \* [Tokens -> Row or None], the table auth_action_tokens
  drawn,     \* tokens randomBytes has returned
  inbox,     \* <<t, e>>: a mail with token t was sent to address e
  now,       \* the clock
  used,      \* history: tokens a request has consumed
  reused,    \* history: tokens more than one request has consumed
  proven,    \* history: <<u, e>>: a verification token of u, mailed to e,
             \* was presented
  orphans    \* history: users whose change of address failed after its mail

History == <<used, reused, proven, orphans>>

vars == <<account, token, drawn, inbox, req, now, History, serial>>

Purposes == {"email_verification", "password_reset"}
Times    == 0 .. MaxClock
Expiries == 0 .. MaxClock + ResetTTL + VerifyTTL
Row      == [user: Users, purpose: Purposes, expiresAt: Expiries,
             consumed: BOOLEAN]

(* A request: the handler, its await, the user and the token it works on   *)
(* and the user entity it holds.                                           *)
Request == [pc: {"idle", "check", "delete", "invalidate", "create", "mail",
                 "consume", "read", "save"},
            kind: Kinds \cup {None}, user: Users \cup {None},
            row: Account \cup {None}, token: Tokens \cup {None}]

Idle == [pc |-> "idle", kind |-> None, user |-> None, row |-> None,
         token |-> None]

Init ==
  /\ account \in [Users -> [email: Emails, verified: {FALSE}]]
  /\ \A u, w \in Users : account[u].email = account[w].email => u = w
  /\ token = [t \in Tokens |-> None]
  /\ drawn = {} /\ inbox = {} /\ used = {} /\ reused = {} /\ proven = {}
  /\ orphans = {} /\ serial \in BOOLEAN
  /\ req = [r \in Requests |-> Idle]
  /\ now = 0

Free(e, u) == \A w \in Users : account[w].email = e => w = u

(* findActiveByHash, and the expiry test of consumeToken.                  *)
Usable(t, purpose) ==
  /\ token[t] # None
  /\ token[t].purpose = purpose /\ ~ token[t].consumed
  /\ token[t].expiresAt > now

Issues(kind) ==
  IF kind = "forgot" THEN "password_reset" ELSE "email_verification"

Uses(kind) ==
  IF kind = "reset" THEN "password_reset" ELSE "email_verification"

TTL(purpose) == IF purpose = "password_reset" THEN ResetTTL ELSE VerifyTTL

Move(r, from, to) == req[r].pc = from /\ req' = [req EXCEPT ![r].pc = to]

Finish(r) == req' = [req EXCEPT ![r] = Idle]

-----------------------------------------------------------------------------
(* Handlers that begin by reading the user.                                *)

(* users.update and updateProfile: a new address is checked, in memory it  *)
(* replaces the old one and counts as unverified; the same address, or     *)
(* none, leaves the entity as it was read, to be saved like that (as login *)
(* and its failures do, too).  updateProfile compares before it puts the   *)
(* address in lower case, and may take the same one for new.               *)
BeginUpdate(r, u, e) ==
  /\ Begin(r)
  /\ \E kind \in {"profile", "admin"}, changes \in BOOLEAN :
       /\ e # account[u].email => changes
       /\ changes => e # account[u].email \/ kind = "profile"
       /\ req' = [req EXCEPT ![r] =
                    [pc |-> IF changes THEN "check" ELSE "save",
                     kind |-> kind, user |-> u, token |-> None,
                     row |-> IF changes THEN [email |-> e, verified |-> FALSE]
                             ELSE account[u]]]
  /\ UNCHANGED <<account, token, drawn, inbox, now, History, serial>>

(* findByEmail or ensureEmailIsUnique; if it throws: Abort.                *)
CheckEmail(r) ==
  /\ Move(r, "check", IF req[r].kind = "admin" THEN "delete" ELSE "invalidate")
  /\ Free(req[r].row.email, req[r].user)
  /\ UNCHANGED <<account, token, drawn, inbox, now, History, serial>>

(* Mutant: the tokens sent to the old address stay.                        *)
DeleteTokens_Skipped(r) ==
  /\ Move(r, "delete", "save")
  /\ UNCHANGED <<account, token, drawn, inbox, now, History, serial>>

(* users.update drops every token of a user whose address it changes.      *)
DeleteTokens(r) ==
  /\ Move(r, "delete", "save")
  /\ token' = [t \in Tokens |->
                 IF token[t] # None /\ token[t].user = req[r].user THEN None
                 ELSE token[t]]
  /\ UNCHANGED <<account, drawn, inbox, now, History, serial>>

(* resendVerificationEmail and forgotPassword.                             *)
BeginIssue(r, u) ==
  /\ Begin(r)
  /\ \E kind \in {"resend", "forgot"} :
       /\ kind = "resend" => ~ account[u].verified
       /\ req' = [req EXCEPT ![r] =
                    [Idle EXCEPT !.pc = "invalidate", !.kind = kind,
                                 !.user = u, !.row = account[u]]]
  /\ UNCHANGED <<account, token, drawn, inbox, now, History, serial>>

-----------------------------------------------------------------------------
(* createToken and the mail.                                               *)

(* Mutant: the outstanding tokens stay valid.                              *)
InvalidateOutstanding_Skipped(r) ==
  /\ Move(r, "invalidate", "create")
  /\ UNCHANGED <<account, token, drawn, inbox, now, History, serial>>

InvalidateOutstanding(r) ==
  /\ Move(r, "invalidate", "create")
  /\ token' = [t \in Tokens |->
                 IF /\ token[t] # None /\ token[t].user = req[r].user
                    /\ token[t].purpose = Issues(req[r].kind)
                   THEN [token[t] EXCEPT !.consumed = TRUE]
                   ELSE token[t]]
  /\ UNCHANGED <<account, drawn, inbox, now, History, serial>>

(* The new row is saved.  updateProfile and forgotPassword go on to the    *)
(* mail, resendVerificationEmail saves the user before it.                 *)
SaveToken(r, t) ==
  /\ req[r].pc = "create" /\ t \notin drawn
  /\ drawn' = drawn \cup {t}
  /\ LET purpose == Issues(req[r].kind) IN
       token' = [token EXCEPT ![t] =
                   [user |-> req[r].user, purpose |-> purpose,
                    expiresAt |-> now + TTL(purpose), consumed |-> FALSE]]
  /\ req' = [req EXCEPT ![r].token = t,
                        ![r].pc = IF req[r].kind = "resend" THEN "save"
                                  ELSE "mail"]
  /\ UNCHANGED <<account, inbox, now, History, serial>>

EnqueueMail(r) ==
  /\ req[r].pc = "mail"
  /\ inbox' = inbox \cup {<<req[r].token, req[r].row.email>>}
  /\ \/ req[r].kind = "profile" /\ Move(r, "mail", "save")
     \/ req[r].kind # "profile" /\ Finish(r)
  /\ UNCHANGED <<account, token, drawn, now, History, serial>>

-----------------------------------------------------------------------------
(* consumeToken and what follows it.                                       *)

(* A mail with the token is at hand; if it proves an address, note it.     *)
Presented(t) ==
  /\ \E e \in Emails : <<t, e>> \in inbox
  /\ proven' = IF token[t] # None /\ token[t].purpose = "email_verification"
                 THEN proven \cup {<<token[t].user, m[2]>> :
                                     m \in {n \in inbox : n[1] = t}}
                 ELSE proven

Holds(r, kind, t) ==
  /\ req' = [req EXCEPT ![r] =
               [Idle EXCEPT !.pc = "consume", !.kind = kind, !.token = t,
                  !.user = IF token[t] = None THEN None ELSE token[t].user]]
  /\ UNCHANGED <<account, token, drawn, inbox, now, used, reused, orphans,
                 serial>>

(* Mutants: the purpose of the token is not compared; a token that is not  *)
(* in the table is taken for one that is.                                  *)
FindActiveByHash_AnyPurpose(r, t) ==
  /\ Begin(r) /\ Presented(t)
  /\ \E purpose \in Purposes : Usable(t, purpose)
  /\ \E kind \in {"verify", "reset"} : Holds(r, kind, t)

FindActiveByHash_NoNullTest(r, t) ==
  /\ Begin(r) /\ Presented(t)
  /\ \E kind \in {"verify", "reset"} :
       (token[t] # None => Usable(t, Uses(kind))) /\ Holds(r, kind, t)

(* consumeToken, up to the update; if it throws, nothing has happened.     *)
FindActiveByHash(r, t) ==
  /\ Begin(r) /\ Presented(t)
  /\ \E kind \in {"verify", "reset"} :
       Usable(t, Uses(kind)) /\ Holds(r, kind, t)

(* The history of a token that is consumed.                                *)
Consumed(t) ==
  /\ used' = used \cup {t}
  /\ reused' = IF t \in used THEN reused \cup {t} ELSE reused
  /\ UNCHANGED <<proven, orphans>>

(* Mutant: the row is not marked.                                          *)
Consume_Unmarked(r) ==
  /\ Move(r, "consume", "read")
  /\ Consumed(req[r].token)
  /\ UNCHANGED <<account, token, drawn, inbox, now, serial>>

(* UPDATE ... WHERE id = ...: whatever became of the row since it was      *)
(* found.                                                                  *)
Consume(r) ==
  /\ Move(r, "consume", "read")
  /\ LET t == req[r].token IN
       /\ token' = IF token[t] = None THEN token
                   ELSE [token EXCEPT ![t].consumed = TRUE]
       /\ Consumed(t)
  /\ UNCHANGED <<account, drawn, inbox, now, serial>>

(* The user is read and, by verifyEmail, marked as verified.               *)
ReadUser(r) ==
  /\ req[r].pc = "read"
  /\ LET row == account[req[r].user] IN
       req' = [req EXCEPT ![r].pc = "save",
                          ![r].row = IF req[r].kind = "verify"
                                       THEN [row EXCEPT !.verified = TRUE]
                                       ELSE row]
  /\ UNCHANGED <<account, token, drawn, inbox, now, History, serial>>

-----------------------------------------------------------------------------
(* userRepository.save(user): all of the entity.  A unique index refuses   *)
(* an address that is taken (Abort).                                       *)
SaveUser(r) ==
  /\ req[r].pc = "save"
  /\ Free(req[r].row.email, req[r].user)
  /\ account' = [account EXCEPT ![req[r].user] = req[r].row]
  /\ \/ req[r].kind = "resend" /\ Move(r, "save", "mail")
     \/ req[r].kind # "resend" /\ Finish(r)
  /\ UNCHANGED <<token, drawn, inbox, now, History, serial>>

(* A check that throws, any other error, or the end of the process.  (The  *)
(* history is asked about in serial behaviours only.)                      *)
Abort(r) ==
  /\ req[r].pc # "idle"
  /\ orphans' = IF /\ serial /\ req[r].kind = "profile"
                   /\ req[r].pc = "save" /\ req[r].token # None
                  THEN orphans \cup {req[r].user} ELSE orphans
  /\ Finish(r)
  /\ UNCHANGED <<account, token, drawn, inbox, now, used, reused, proven,
                 serial>>

(* The hourly cleanup.                                                     *)
CleanupExpired ==
  LET gone == {t \in Tokens :
                 /\ token[t] # None
                 /\ token[t].consumed \/ token[t].expiresAt < now}
  IN  /\ gone # {}
      /\ token' = [t \in Tokens |-> IF t \in gone THEN None ELSE token[t]]
      /\ UNCHANGED <<account, drawn, inbox, req, now, History, serial>>

Tick ==
  /\ now < MaxClock
  /\ now' = now + 1
  /\ UNCHANGED <<account, token, drawn, inbox, req, History, serial>>

-----------------------------------------------------------------------------
RequestStep(r) ==
  \/ \E u \in Users : BeginIssue(r, u) \/ \E e \in Emails : BeginUpdate(r, u, e)
  \/ CheckEmail(r) \/ DeleteTokens(r) \/ InvalidateOutstanding(r)
  \/ \E t \in Tokens : SaveToken(r, t) \/ FindActiveByHash(r, t)
  \/ EnqueueMail(r) \/ Consume(r) \/ ReadUser(r) \/ SaveUser(r) \/ Abort(r)

Next ==
  \/ \E r \in Requests : RequestStep(r)
  \/ CleanupExpired
  \/ Tick

Spec == Init /\ [][Next]_vars

-----------------------------------------------------------------------------
(* Type invariant; a request in progress works for a user, and holds what  *)
(* its next awaits use.                                                    *)
TypeOK ==
  /\ account \in [Users -> Account]
  /\ token \in [Tokens -> Row \cup {None}]
  /\ drawn \subseteq Tokens /\ inbox \subseteq drawn \X Emails
  /\ req \in [Requests -> Request]
  /\ now \in Times
  /\ used \subseteq drawn /\ reused \subseteq used
  /\ proven \subseteq Users \X Emails /\ orphans \subseteq Users
  /\ serial \in BOOLEAN
  /\ \A r \in Requests :
       /\ req[r].pc # "idle" => req[r].user \in Users /\ req[r].kind # None
       /\ \/ req[r].pc \in {"consume", "read", "mail"}
          \/ req[r].pc = "save" /\ req[r].kind = "resend"
          => req[r].token \in drawn
       /\ req[r].pc \notin {"idle", "consume", "read"} => req[r].row # None
       /\ req[r].pc = "delete" => req[r].kind = "admin"

(* A user counts as verified only after a verification token of that user  *)
(* was presented, and not by a password reset token or by another user's,  *)
(* whatever overlaps, fails or is saved late (verifyEmail, consumeToken).  *)
VerifiedByToken ==
  \A u \in Users : account[u].verified => \E e \in Emails : <<u, e>> \in proven

(* A token is consumed by one request only: the find and the update of     *)
(* consumeToken exclude each other when requests do not overlap.  The      *)
(* cleanup and the clock may always come in between.                       *)
SingleUse == serial => reused = {}

(* Of the tokens a user was sent for one purpose only the newest works     *)
(* (createToken, which invalidates and saves in two awaits).               *)
OneOutstanding ==
  serial =>
    \A t1, t2 \in Tokens, purpose \in Purposes :
      /\ Usable(t1, purpose) /\ Usable(t2, purpose)
      /\ token[t1].user = token[t2].user
      => t1 = t2

(* The address a verified user has is one whose mail was answered: every   *)
(* change of address makes the tokens that went to the old one unusable    *)
(* (createToken in updateProfile, delete in users.update).  Excepted are   *)
(* users whose change of address failed after its mail was sent, for which *)
(* the code makes no provision: such a token verifies the old address.     *)
AddressProven ==
  serial =>
    \A u \in Users \ orphans :
      account[u].verified => <<u, account[u].email>> \in proven
=============================================================================
