---------------------------- MODULE RequestSlots ----------------------------
(***************************************************************************)
(* The requests in progress, as the modules of the services' tables have   *)
(* them: each is in a slot, where req says at which await it stands (pc)   *)
(* and what its handler holds in memory there.                             *)
(***************************************************************************)
CONSTANTS
  Requests,  \* the slots
  None

VARIABLES
  req,       \* [Requests -> a request of the module that extends this one]
  serial     \* no request begins while another one is in progress

(* The service takes requests as they come; serial is about its clients.   *)
Begin(r) ==
  /\ req[r].pc = "idle"
  /\ serial => \A x \in Requests : req[x].pc = "idle"

(* No two requests are in progress.                                        *)
Alone == \A r, x \in Requests : req[r].pc # "idle" /\ req[x].pc # "idle" => r = x
=============================================================================
