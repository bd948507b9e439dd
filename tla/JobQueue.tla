------------------------------ MODULE JobQueue ------------------------------
(***************************************************************************)
(* QueueService: with Redis, jobs of BullMQ with attempts and a backoff,   *)
(* taken by the workers of every process; without, the caller runs the     *)
(* handler and leaves a file that says how it went.                        *)
(*                                                                         *)
(* Mails' handler is MailerService.sendMail; the handler of Tasks          *)
(* (notifications and analytics) only logs.                                *)
(***************************************************************************)
EXTENDS Naturals

CONSTANTS
  Processes, None,
  Mails, Tasks, \* places for jobs of the two kinds
  Attempts,     \* queue.defaultAttempts
  MaxStalled    \* BullMQ's maxStalledCount

VARIABLES
  redis, \* Redis is configured
  job,   \* [Jobs -> Job]
  sent   \* history: how often the transport accepted the mail of a job

Jobs == Mails \cup Tasks

(* at: "handled" and "broken" - the handler returned or threw - are        *)
(* "active" still for the others.  A job that was run inline ends          *)
(* "completed" or "failed" as its file says, or "unrecorded".              *)
Job == [at: {"none", "waiting", "delayed", "active", "handled", "broken",
             "completed", "failed", "unrecorded"},
        by: Processes \cup {None},
        failures: 0 .. Attempts - 1, stalls: 0 .. MaxStalled]

NoJob == [at |-> "none", by |-> None, failures |-> 0, stalls |-> 0]

Running == {"active", "handled", "broken"}
Over == {"completed", "failed", "unrecorded"}

QueueTypeOK ==
  /\ job \in [Jobs -> Job]
  /\ \A j \in Jobs :
       /\ job[j].at \notin Running => job[j].by = None
       /\ ~ redis => job[j].at \notin {"waiting", "delayed"}

QueueInit ==
  /\ job = [j \in Jobs |-> NoJob]
  /\ sent = [j \in Jobs |-> 0]

Became(j, at) ==
  IF at \in Over THEN [NoJob EXCEPT !.at = at]
  ELSE [job[j] EXCEPT !.at = at, !.by = IF at \in Running THEN @ ELSE None]

Become(j, at) == job' = [job EXCEPT ![j] = Became(j, at)]

(* Mutant: the job is added to a queue that was never opened.              *)
Enqueue_Added(p, j) ==
  /\ job[j].at = "none"
  /\ job' = [job EXCEPT ![j] = [NoJob EXCEPT !.at = "waiting"]]
  /\ UNCHANGED <<redis, sent>>

(* enqueueMail, enqueueNotification, enqueueAnalytics, from process p: the *)
(* job is added to its queue, or run right here.                           *)
Enqueue(p, j) ==
  /\ job[j].at = "none"
  /\ job' = [job EXCEPT ![j] = IF redis THEN [NoJob EXCEPT !.at = "waiting"]
                               ELSE [NoJob EXCEPT !.at = "active", !.by = p]]
  /\ UNCHANGED <<redis, sent>>

(* A worker of process p.                                                  *)
Take(p, j) ==
  /\ job[j].at = "waiting"
  /\ job' = [job EXCEPT ![j].at = "active", ![j].by = p]
  /\ UNCHANGED <<redis, sent>>

(* Mutant: an error of the transport is logged, and not thrown.            *)
SendMail_Swallowed(j) ==
  /\ j \in Mails /\ job[j].at = "active" /\ job[j].by # None
  /\ \/ sent' = [sent EXCEPT ![j] = @ + 1] /\ Become(j, "handled")
     \/ UNCHANGED sent /\ Become(j, "handled")
  /\ UNCHANGED redis

(* The transport accepts the mail, or throws, before or after it did.      *)
SendMail(j) ==
  /\ j \in Mails /\ job[j].at = "active" /\ job[j].by # None
  /\ \/ sent' = [sent EXCEPT ![j] = @ + 1] /\ Become(j, "handled")
     \/ sent' = [sent EXCEPT ![j] = @ + 1] /\ Become(j, "broken")
     \/ UNCHANGED sent /\ Become(j, "broken")
  /\ UNCHANGED redis

LogTask(j) ==
  /\ j \in Tasks /\ job[j].at = "active" /\ job[j].by # None
  /\ Become(j, "handled")
  /\ UNCHANGED <<redis, sent>>

-----------------------------------------------------------------------------
(* BullMQ, as QueueService configures it.                                  *)

Complete(j) ==
  /\ redis /\ job[j].at = "handled" /\ job[j].by # None
  /\ Become(j, "completed")
  /\ UNCHANGED <<redis, sent>>

Fail(j) ==
  /\ redis /\ job[j].at = "broken" /\ job[j].by # None
  /\ job' = [job EXCEPT ![j] =
       IF job[j].failures + 1 < Attempts
       THEN [Became(j, "delayed") EXCEPT !.failures = @ + 1]
       ELSE Became(j, "failed")]
  /\ UNCHANGED <<redis, sent>>

(* The backoff is over.                                                    *)
Promote(j) ==
  /\ job[j].at = "delayed"
  /\ Become(j, "waiting")
  /\ UNCHANGED <<redis, sent>>

(* A job whose worker died runs again, MaxStalled times.                   *)
Stalled(j) ==
  /\ redis /\ job[j].at \in Running /\ job[j].by = None
  /\ job' = [job EXCEPT ![j] =
       IF job[j].stalls < MaxStalled
       THEN [Became(j, "waiting") EXCEPT !.stalls = @ + 1]
       ELSE Became(j, "failed")]
  /\ UNCHANGED <<redis, sent>>

-----------------------------------------------------------------------------
(* processInline: the file that says completed is written within the try.  *)

PersistCompleted(j) ==
  /\ ~ redis /\ job[j].at = "handled"
  /\ Become(j, "completed") \/ Become(j, "broken")
  /\ UNCHANGED <<redis, sent>>

PersistFailed(j) ==
  /\ ~ redis /\ job[j].at = "broken"
  /\ Become(j, "failed") \/ Become(j, "unrecorded")
  /\ UNCHANGED <<redis, sent>>

-----------------------------------------------------------------------------
(* Of a finished job only the last hundred are kept.                       *)
Remove(j) ==
  /\ job[j].at \in Over
  /\ job' = [job EXCEPT ![j] = NoJob]
  /\ sent' = [sent EXCEPT ![j] = 0]
  /\ UNCHANGED redis

(* Process p dies: BullMQ's jobs wait to be found stalled, a job run       *)
(* inline is gone.                                                         *)
Orphaned(p) ==
  [j \in Jobs |-> IF job[j].by # p THEN job[j]
                  ELSE IF redis THEN [job[j] EXCEPT !.by = None] ELSE NoJob]

LosesProcess(p) ==
  /\ job' = Orphaned(p)
  /\ sent' = [j \in Jobs |-> IF job[j].by = p /\ ~ redis THEN 0 ELSE sent[j]]
  /\ UNCHANGED redis

WorkStep(j) ==
  \/ SendMail(j) \/ LogTask(j) \/ Complete(j) \/ Fail(j) \/ Promote(j)
  \/ Stalled(j) \/ PersistCompleted(j) \/ PersistFailed(j)
=============================================================================
