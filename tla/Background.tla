------------------------------ MODULE Background ------------------------------
(***************************************************************************)
(* The work behind the requests, in all processes of a deployment:         *)
(* MaintenanceCronJob takes the scheduler's lock to enqueue one task a     *)
(* period, requests enqueue mails, and processes die and start again.      *)
(***************************************************************************)
EXTENDS Naturals

CONSTANTS
  Processes, None, Torn, Mails, Tasks, Attempts, MaxStalled,
  LockTime, Period \* of the lock and of the cron, in units of the clock

ASSUME LockAssumption ==
  /\ LockTime \in Nat \ {0}
  /\ None # Torn /\ {None, Torn} \cap (0 .. LockTime) = {}

ASSUME QueueAssumption ==
  /\ Attempts \in Nat \ {0} /\ MaxStalled \in Nat
  /\ Mails \cap Tasks = {} /\ None \notin Processes

ASSUME PeriodAssumption == Period \in Nat /\ LockTime < Period

VARIABLES
  redis, entry, locking, expires, left, \* SchedulerLock
  job, sent,                            \* JobQueue
  phase,  \* of the clock within the period
  up,     \* the processes that run
  due,    \* those whose cron has fired, and not begun handle()
  faults, \* processes may die, and Redis or the disk not answer
  orderly \* the processes take turns with the lock file, and can read it

Lock == INSTANCE SchedulerLock
Queue == INSTANCE JobQueue

Cron == <<phase, due>>
Rest == <<up, faults, orderly>>
LockState == <<entry, locking, expires, left>>
vars == <<redis, LockState, job, sent, Cron, Rest>>

TypeOK ==
  /\ Lock!LockTypeOK /\ Queue!QueueTypeOK
  /\ phase \in 0 .. Period - 1
  /\ up \subseteq Processes /\ due \subseteq up
  /\ faults \in BOOLEAN /\ orderly \in BOOLEAN
  /\ \A p \in Processes \ up : locking[p] = "idle"
  /\ \A j \in Queue!Jobs : job[j].by \in up \cup {None}

Init ==
  /\ Lock!LockInit /\ Queue!QueueInit
  /\ phase = 0 /\ up = Processes /\ due = {}
  /\ faults = TRUE
  /\ orderly \in BOOLEAN /\ (redis => ~ orderly)

-----------------------------------------------------------------------------
(* MaintenanceCronJob                                                      *)

Handling == {p \in Processes : locking[p] # "idle"}

(* The clocks of the processes agree, and a handler ends within its        *)
(* period.                                                                 *)
Tick ==
  /\ phase = Period - 1 => due = {} /\ Handling = {}
  /\ phase' = (phase + 1) % Period
  /\ due' = IF phase' = 0 THEN up ELSE due
  /\ Lock!LockTick
  /\ UNCHANGED <<job, sent, Rest>>

(* handle() calls acquireLock.                                             *)
Fire(p) ==
  /\ p \in due
  /\ orderly => \A q \in Processes : locking[q] \notin Lock!Awaits
  /\ due' = due \ {p}
  /\ Lock!AcquireLock(p)
  /\ UNCHANGED <<job, sent, phase, Rest>>

AskForLock(p) ==
  /\ Lock!LockStep(p)
  /\ UNCHANGED <<job, sent, Cron, Rest>>

(* With the lock, handle() enqueues one analytics task.                    *)
Dispatch(p) ==
  /\ locking[p] = "granted"
  /\ \E t \in Tasks : Queue!Enqueue(p, t)
  /\ Lock!Leave(p)
  /\ UNCHANGED <<Cron, Rest>>

(* An error of the disk that the lock takes for a missing file.            *)
LockMisreads(p) ==
  /\ faults /\ (orderly => locking[p] = "rm")
  /\ Lock!ReadFails(p)
  /\ UNCHANGED <<job, sent, Cron, Rest>>

(* Redis does not answer, or a file cannot be written: handle() throws,    *)
(* and keeps the lock if it has it.                                        *)
HandleThrows(p) ==
  /\ faults /\ locking[p] # "idle"
  /\ redis \/ locking[p] \notin {"read", "rm"}
  /\ Lock!Leave(p)
  /\ UNCHANGED <<job, sent, Cron, Rest>>

-----------------------------------------------------------------------------
(* The callers of enqueueMail.                                             *)
RequestMail(p, j) ==
  /\ p \in up /\ j \in Mails
  /\ Queue!Enqueue(p, j)
  /\ UNCHANGED <<LockState, Cron, Rest>>

TakeJob(p, j) ==
  /\ p \in up
  /\ Queue!Take(p, j)
  /\ UNCHANGED <<LockState, Cron, Rest>>

Work(j) ==
  /\ Queue!WorkStep(j)
  /\ UNCHANGED <<LockState, Cron, Rest>>

Forget(j) ==
  /\ Queue!Remove(j)
  /\ UNCHANGED <<LockState, Cron, Rest>>

-----------------------------------------------------------------------------
Crash(p) ==
  /\ faults /\ p \in up
  /\ up' = up \ {p} /\ due' = due \ {p}
  /\ Lock!Leave(p)
  /\ Queue!LosesProcess(p)
  /\ UNCHANGED <<phase, faults, orderly>>

Restart(p) ==
  /\ p \in Processes \ up
  /\ up' = up \cup {p}
  /\ UNCHANGED <<redis, LockState, job, sent, Cron, faults, orderly>>

(* From here on nothing fails but the transport of the mails.              *)
Calm ==
  /\ faults' = FALSE
  /\ UNCHANGED <<redis, LockState, job, sent, Cron, up, orderly>>

Handle(p) == Fire(p) \/ AskForLock(p) \/ Dispatch(p)

Next ==
  \/ Tick \/ Calm
  \/ \E p \in Processes :
       \/ Handle(p) \/ LockMisreads(p) \/ HandleThrows(p)
       \/ Crash(p) \/ Restart(p)
       \/ \E j \in Queue!Jobs : RequestMail(p, j) \/ TakeJob(p, j)
  \/ \E j \in Queue!Jobs : Work(j) \/ Forget(j)

(* The clock, the handlers, BullMQ and its workers go on, and a process    *)
(* that died is started again.  (What one condition names is never enabled *)
(* at the same time.)                                                      *)
Fairness ==
  /\ WF_vars(Tick)
  /\ \A p \in Processes : WF_vars(Handle(p) \/ Restart(p))
  /\ \A j \in Queue!Jobs :
       WF_vars(Work(j) \/ Forget(j) \/ \E p \in Processes : TakeJob(p, j))

Spec == Init /\ [][Next]_vars /\ Fairness

-----------------------------------------------------------------------------
(* The lock of maintenance.cron.ts is not granted again before it expires: *)
(* always by Redis, and by files if no two processes are within            *)
(* setIfNotExists at a time and the file can be read (RedisService ensures *)
(* neither).  It expires LockTime after the file was read, however long    *)
(* writing it takes.  A process that died within setIfNotExists, or with   *)
(* the lock, changes nothing.                                              *)
GrantsApart ==
  [][\A p \in Processes :
       (redis \/ orderly) /\ locking[p] # "granted" /\ locking'[p] = "granted"
         => left = 0]_vars

(* No mail is completed, by BullMQ or by a file of processInline, that the *)
(* transport did not accept; and none is sent more often than attempts and *)
(* stalls of its job allow, or twice by the inline fallback.               *)
MailsAccountedFor ==
  \A j \in Mails :
    /\ job[j].at = "completed" => sent[j] > 0
    /\ sent[j] <= (IF redis THEN Attempts + MaxStalled ELSE 1)

(* Once nothing fails any more, every mail that was enqueued is sent or    *)
(* reported failed, and maintenance is run again and again: no crash in    *)
(* the past leaves a lock that is never granted, or a job nobody takes.    *)
WorkGetsDone ==
  <>[](~ faults) =>
    /\ \A j \in Mails : []<>(job[j].at \in {"none"} \cup Queue!Over)
    /\ []<>(\E t \in Tasks : job[t].at = "handled")
=============================================================================
