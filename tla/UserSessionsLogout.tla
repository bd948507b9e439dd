------------------------- MODULE UserSessionsLogout -------------------------
(***************************************************************************)
(* UserSessions with a history of the sessions that their own users ended, *)
(* so that what a revocation by an administrator, a password change or a   *)
(* detected reuse does to a session can be told from a logout.             *)
(***************************************************************************)
EXTENDS UserSessions

VARIABLE loggedOut  \* history: sessions that were live when a logout ended them

(* The user logs this device out, or all of them, and that ends session s. *)
Logout(s) ==
  /\ Live(s)
  /\ \E r \in Requests :
       \/ LogoutCurrent(r) /\ s = req[r].token.sid
       \/ LogoutAll(r) /\ s \in SessionsOf(req[r].token.user)

LogoutNext ==
  /\ Next
  /\ loggedOut' = loggedOut \cup {s \in SessionIds : Logout(s)}

LogoutSpec == Init /\ loggedOut = {} /\ [][LogoutNext]_<<vars, loggedOut>>

(* auth.controller.ts, logout: "Revokes the currently authenticated device *)
(* session."  A session that its user logged out is not live again.        *)
LogoutStands == \A s \in loggedOut : ~ Live(s)
=============================================================================
