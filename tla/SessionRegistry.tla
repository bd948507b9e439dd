-------------------------- MODULE SessionRegistry --------------------------
(***************************************************************************)
(* What the session subsystem promises, with the requests, the awaits and  *)
(* the database rows left out: a session is opened once, its refresh       *)
(* credential is replaced by the next generation only while it is open,    *)
(* and once it is closed it stays closed.  UserSessions implements it      *)
(* (UserSessions!Registry) for a suitable meaning of "closed".             *)
(***************************************************************************)
EXTENDS Naturals

CONSTANT SessionIds

VARIABLES
  phase,       \* phase[s]: "fresh", "open" or "closed"
  generation   \* generation[s]: credentials ever put in force for s

registryVars == <<phase, generation>>

Init ==
  /\ phase = [s \in SessionIds |-> "fresh"]
  /\ generation = [s \in SessionIds |-> 0]

(* A login.  A login slower than the life of the session it creates leaves *)
(* a session that is closed from the start.                                *)
Open(s) ==
  /\ phase[s] = "fresh"
  /\ \E p \in {"open", "closed"} : phase' = [phase EXCEPT ![s] = p]
  /\ generation' = [generation EXCEPT ![s] = 1]

(* A rotation of the refresh credential, by exactly one generation.        *)
Rotate(s) ==
  /\ phase[s] = "open"
  /\ \E p \in {"open", "closed"} : phase' = [phase EXCEPT ![s] = p]
  /\ generation' = [generation EXCEPT ![s] = @ + 1]

(* Logout, revocation and expiry may close any set of open sessions.       *)
Close(S) ==
  /\ \A s \in S : phase[s] = "open"
  /\ phase' = [s \in SessionIds |-> IF s \in S THEN "closed" ELSE phase[s]]
  /\ UNCHANGED generation

Next ==
  \/ \E s \in SessionIds : Open(s) \/ Rotate(s)
  \/ \E S \in SUBSET SessionIds : Close(S)

Spec == Init /\ [][Next]_registryVars
=============================================================================
