--------------------------- MODULE BackgroundProofs ---------------------------
(***************************************************************************)
(* Proofs about Background, for any processes, mails, tasks, attempts,     *)
(* stalls, time to live and period: the lock by itself, then the jobs,     *)
(* then what ties both to the processes that run.                          *)
(***************************************************************************)
EXTENDS Background, TLAPS

USE LockAssumption, QueueAssumption, PeriodAssumption

-----------------------------------------------------------------------------
(* The lock of the scheduler.                                              *)

Acquires(p) ==
  /\ Lock!AcquireLock(p)
  /\ orderly => \A q \in Processes : locking[q] \notin Lock!Awaits

Misreads(p) == Lock!ReadFails(p) /\ (orderly => locking[p] = "rm")

(* A process enters acquireLock, goes on in it, or leaves it.              *)
Moves(p) ==
  Acquires(p) \/ Lock!LockStep(p) \/ Misreads(p) \/ Lock!Leave(p)

(* What the steps of the whole do to the lock.                             *)
LEMMA LockSteps ==
  ASSUME [Next]_vars
  PROVE  /\ orderly' = orderly /\ redis' = redis
         /\ \/ UNCHANGED <<redis, LockState>>
            \/ Lock!LockTick
            \/ \E p \in Processes : Moves(p)
<1>1. CASE UNCHANGED vars
  BY <1>1 DEF vars, LockState, Rest
<1>2. CASE Tick
  BY <1>2 DEF Tick, Lock!LockTick, Rest
<1>3. CASE Calm
  BY <1>3 DEF Calm, LockState
<1>4. ASSUME NEW p \in Processes,
             \/ Handle(p) \/ LockMisreads(p) \/ HandleThrows(p)
             \/ Crash(p) \/ Restart(p)
      PROVE  /\ orderly' = orderly /\ redis' = redis
             /\ UNCHANGED <<redis, LockState>> \/ Moves(p)
  <2>1. CASE Fire(p)
    BY <2>1 DEF Fire, Moves, Acquires, Lock!AcquireLock, Rest
  <2>2. CASE AskForLock(p)
    BY <2>2 DEF AskForLock, Moves, Rest, Lock!LockStep, Lock!SetNX,
                Lock!ReadEntry, Lock!RmExpired, Lock!Truncate, Lock!Write
  <2>3. CASE Dispatch(p)
    BY <2>3 DEF Dispatch, Moves, Queue!Enqueue, Rest
  <2>4. CASE LockMisreads(p)
    BY <2>4 DEF LockMisreads, Moves, Misreads, Lock!ReadFails, Rest
  <2>5. CASE HandleThrows(p)
    BY <2>5 DEF HandleThrows, Moves, Lock!Leave, Rest
  <2>6. CASE Crash(p)
    BY <2>6 DEF Crash, Moves, Lock!Leave
  <2>7. CASE Restart(p)
    BY <2>7 DEF Restart
  <2> QED
    BY <1>4, <2>1, <2>2, <2>3, <2>4, <2>5, <2>6, <2>7 DEF Handle
<1>5. ASSUME NEW p \in Processes, NEW j, RequestMail(p, j) \/ TakeJob(p, j)
      PROVE  orderly' = orderly /\ UNCHANGED <<redis, LockState>>
  BY <1>5 DEF RequestMail, TakeJob, Queue!Enqueue, Queue!Take, Rest
<1>6. ASSUME NEW j, Work(j) \/ Forget(j)
      PROVE  orderly' = orderly /\ UNCHANGED <<redis, LockState>>
  BY <1>6 DEF Work, Forget, Rest, Queue!Remove, Queue!WorkStep, Queue!SendMail,
              Queue!LogTask, Queue!Complete, Queue!Fail, Queue!Promote,
              Queue!Stalled, Queue!PersistCompleted, Queue!PersistFailed
<1> QED
  BY <1>1, <1>2, <1>3, <1>4, <1>5, <1>6 DEF Next

Places == Lock!Awaits \cup {"idle", "granted"}

LEMMA WentTo ==
  ASSUME Lock!LockTypeOK, NEW p \in Processes, NEW at \in Places,
         Lock!Goto(p, at)
  PROVE  /\ locking' \in [Processes -> Places]
         /\ locking'[p] = at
         /\ \A q \in Processes : q # p => locking'[q] = locking[q]
BY DEF Lock!LockTypeOK, Lock!Goto, Places

(* Where a move leads, and from where it may grant the lock.               *)
LEMMA Moved ==
  ASSUME Lock!LockTypeOK, NEW p \in Processes, Moves(p)
  PROVE  /\ locking' \in [Processes -> Places] /\ redis' = redis
         /\ \A q \in Processes : q # p => locking'[q] = locking[q]
         /\ redis => locking'[p] \in {"idle", "read", "granted"}
         /\ locking'[p] = "granted" => Lock!SetNX(p) \/ Lock!Write(p)
         /\ \/ Acquires(p) \/ locking[p] \in Lock!Awaits
            \/ locking'[p] = "idle"
<1>0. redis => locking[p] \in {"idle", "read", "granted"}
  BY DEF Lock!LockTypeOK, Lock!Awaits
<1>1. PICK at \in Places :
        /\ Lock!Goto(p, at) /\ redis' = redis
        /\ redis => at \in {"idle", "read", "granted"}
        /\ at = "granted" => Lock!SetNX(p) \/ Lock!Write(p)
        /\ \/ Acquires(p) \/ locking[p] \in Lock!Awaits
           \/ at = "idle"
  BY <1>0
  DEF Moves, Acquires, Misreads, Lock!AcquireLock, Lock!LockStep, Lock!SetNX,
      Lock!ReadEntry, Lock!RmExpired, Lock!Truncate, Lock!Write, Lock!Leave,
      Lock!ReadFails, Lock!FindNone, Lock!Awaits, Places
<1> QED
  BY <1>1, WentTo

LEMMA Ticked ==
  ASSUME Lock!LockTypeOK, Lock!LockTick
  PROVE  /\ UNCHANGED <<redis, locking>>
         /\ expires' \in [Processes -> 0 .. LockTime]
         /\ left' \in 0 .. LockTime
         /\ left' = IF left = 0 THEN 0 ELSE left - 1
         /\ \/ entry \in {None, Torn, 0} /\ entry' = entry
            \/ entry = 1 /\ redis /\ entry' = None
            \/ /\ entry \in 1 .. LockTime /\ ~ (entry = 1 /\ redis)
               /\ entry' = entry - 1 /\ entry' \in 0 .. LockTime
<1>1. /\ entry \in {None, Torn} \cup 0 .. LockTime
      /\ left \in 0 .. LockTime /\ expires \in [Processes -> 0 .. LockTime]
  BY DEF Lock!LockTypeOK
<1>2. \A t \in 0 .. LockTime : Lock!Sooner(t) \in 0 .. LockTime
  BY DEF Lock!Sooner
<1>3. /\ UNCHANGED <<redis, locking>> /\ left' = Lock!Sooner(left)
      /\ expires' \in [Processes -> 0 .. LockTime]
  BY <1>1, <1>2 DEF Lock!LockTick
<1>4. CASE entry \in {None, Torn, 0}
  BY <1>1, <1>2, <1>3, <1>4 DEF Lock!LockTick, Lock!Sooner
<1>5. CASE entry \in 1 .. LockTime
  BY <1>1, <1>2, <1>3, <1>5 DEF Lock!LockTick, Lock!Sooner
<1> QED
  BY <1>1, <1>4, <1>5

LEMMA LockTypeStep ==
  Lock!LockTypeOK /\ [Next]_vars => Lock!LockTypeOK'
<1> SUFFICES ASSUME Lock!LockTypeOK, [Next]_vars PROVE Lock!LockTypeOK'
  OBVIOUS
<1>0. /\ redis \in BOOLEAN /\ left \in 0 .. LockTime
      /\ entry \in {None, Torn} \cup 0 .. LockTime
      /\ redis => entry \notin {Torn, 0}
      /\ locking \in [Processes -> Places]
      /\ expires \in [Processes -> 0 .. LockTime]
      /\ redis => \A p \in Processes : locking[p] \notin Lock!Awaits \ {"read"}
  BY DEF Lock!LockTypeOK, Places
<1>1. CASE UNCHANGED <<redis, LockState>>
  BY <1>1 DEF Lock!LockTypeOK, LockState
<1>2. CASE Lock!LockTick
  <2>1. redis => entry' \notin {Torn, 0}
    BY <1>0, <1>2, Ticked
  <2> QED
    BY <1>0, <1>2, <2>1, Ticked DEF Lock!LockTypeOK
<1>3. ASSUME NEW p \in Processes, Moves(p)
      PROVE  Lock!LockTypeOK'
  <2>1. /\ locking' \in [Processes -> Places] /\ redis' = redis
        /\ redis => \A q \in Processes :
                      locking'[q] \notin Lock!Awaits \ {"read"}
    BY <1>0, <1>3, Moved DEF Lock!Awaits
  <2>2. PICK t \in 0 .. LockTime : Lock!Expires(p, t) \/ UNCHANGED expires
    BY <1>3
    DEF Moves, Acquires, Misreads, Lock!AcquireLock, Lock!LockStep, Lock!SetNX,
        Lock!ReadEntry, Lock!RmExpired, Lock!Truncate, Lock!Write, Lock!Leave,
        Lock!ReadFails, Lock!FindNone
  <2>3. expires' \in [Processes -> 0 .. LockTime]
    BY <1>0, <2>2 DEF Lock!Expires
  <2>4. /\ left' \in 0 .. LockTime
        /\ entry' \in {None, Torn} \cup 0 .. LockTime
        /\ redis => entry' \notin {Torn, 0}
    <3>1. expires[p] \in 0 .. LockTime
      BY <1>0
    <3>2. redis => locking[p] \notin {"rm", "truncate", "write"}
      BY <1>0 DEF Lock!Awaits
    <3> QED
      BY <1>0, <1>3, <3>1, <3>2
      DEF Moves, Acquires, Misreads, Lock!AcquireLock, Lock!LockStep,
          Lock!SetNX, Lock!ReadEntry, Lock!RmExpired, Lock!Truncate,
          Lock!Write, Lock!Leave, Lock!ReadFails
  <2> QED
    BY <1>0, <2>1, <2>3, <2>4 DEF Lock!LockTypeOK, Places
<1> QED
  BY <1>1, <1>2, <1>3, LockSteps

(* The entry tells how long the lock is still held: with Redis always,     *)
(* with files as long as no two handlers are within setIfNotExists and the *)
(* file is read.  A handler past its read found nothing alive.             *)
Alive(x) == IF x \in {None, Torn} THEN 0 ELSE x

OneAwaits ==
  \A p, q \in Processes :
    locking[p] \in Lock!Awaits /\ locking[q] \in Lock!Awaits => p = q

FoundNothing ==
  \A p \in Processes : locking[p] \in {"rm", "truncate", "write"} => left = 0

LockInv ==
  redis \/ orderly =>
    left = Alive(entry) /\ (~ redis => OneAwaits /\ FoundNothing)

LEMMA LockStepInv ==
  Lock!LockTypeOK /\ LockInv /\ [Next]_vars => LockInv'
<1> SUFFICES ASSUME Lock!LockTypeOK, LockInv, [Next]_vars, redis \/ orderly
             PROVE  /\ left' = Alive(entry')
                    /\ ~ redis => OneAwaits' /\ FoundNothing'
  BY LockSteps DEF LockInv
<1>0. /\ redis \in BOOLEAN /\ left \in 0 .. LockTime
      /\ entry \in {None, Torn} \cup 0 .. LockTime
      /\ redis => entry \notin {Torn, 0}
      /\ expires \in [Processes -> 0 .. LockTime]
      /\ left = Alive(entry) /\ (~ redis => OneAwaits /\ FoundNothing)
  BY DEF Lock!LockTypeOK, LockInv
<1>1. CASE UNCHANGED <<redis, LockState>>
  BY <1>0, <1>1 DEF LockState, OneAwaits, FoundNothing
<1>2. CASE Lock!LockTick
  <2>1. left' = Alive(entry')
    BY <1>0, <1>2, Ticked DEF Alive
  <2>2. UNCHANGED locking /\ (left = 0 => left' = 0)
    BY <1>2, Ticked
  <2> QED
    BY <1>0, <2>1, <2>2 DEF OneAwaits, FoundNothing
<1>3. ASSUME NEW p \in Processes, Moves(p), redis
      PROVE  left' = Alive(entry')
  <2>1. locking[p] \notin {"rm", "truncate", "write"}
    BY <1>3 DEF Lock!LockTypeOK, Lock!Awaits
  <2>2. CASE Lock!SetNX(p)
    BY <1>0, <2>2 DEF Lock!SetNX, Alive
  <2>3. CASE ~ Lock!SetNX(p)
    <3>1. UNCHANGED <<entry, left>>
      BY <1>3, <2>1, <2>3
      DEF Moves, Acquires, Misreads, Lock!AcquireLock, Lock!LockStep,
          Lock!ReadEntry, Lock!RmExpired, Lock!Truncate, Lock!Write,
          Lock!Leave, Lock!ReadFails
    <3> QED
      BY <1>0, <3>1 DEF Alive
  <2> QED
    BY <2>2, <2>3
<1>4. ASSUME NEW p \in Processes, Moves(p), ~ redis
      PROVE  left' = Alive(entry') /\ OneAwaits' /\ FoundNothing'
  <2>1. /\ orderly /\ locking \in [Processes -> Places]
        /\ locking' \in [Processes -> Places]
        /\ \A q \in Processes : q # p => locking'[q] = locking[q]
    BY <1>4, Moved DEF Lock!LockTypeOK, Places
  <2>2. \/ \A q \in Processes : q # p => locking[q] \notin Lock!Awaits
        \/ locking'[p] = "idle"
    BY <1>0, <1>4, Moved DEF OneAwaits, Acquires
  <2>3. OneAwaits'
    BY <1>0, <1>4, <2>1, <2>2 DEF OneAwaits, Lock!Awaits
  <2>4. /\ left' = Alive(entry')
        /\ locking'[p] \in {"rm", "truncate", "write"} => left' = 0
        /\ left' = left \/ locking'[p] = "granted"
    <3>1. CASE Acquires(p)
      <4>1. locking'[p] = "read" /\ UNCHANGED <<entry, left>>
        BY <3>1, WentTo DEF Acquires, Lock!AcquireLock, Lock!Awaits, Places
      <4> QED
        BY <1>0, <4>1
    <3>2. CASE Lock!Leave(p)
      <4>1. locking'[p] = "idle" /\ UNCHANGED <<entry, left>>
        BY <3>2, WentTo DEF Lock!Leave, Places
      <4> QED
        BY <1>0, <4>1
    <3>3. CASE Lock!ReadEntry(p)
      <4>1. /\ locking'[p] \in {"rm", "truncate"} => entry \in {None, Torn, 0}
            /\ UNCHANGED <<entry, left>> /\ locking'[p] # "write"
        BY <3>3, WentTo
        DEF Lock!ReadEntry, Lock!FindNone, Lock!Awaits, Places
      <4> QED
        BY <1>0, <4>1 DEF Alive
    <3>4. CASE Lock!RmExpired(p) \/ Lock!Truncate(p) \/ Misreads(p)
      <4>1. left = 0
        BY <1>0, <1>4, <2>1, <3>4
        DEF Lock!RmExpired, Lock!Truncate, Misreads, FoundNothing
      <4>2. left' = left /\ entry' \in {None, Torn, entry}
        BY <3>4
        DEF Lock!RmExpired, Lock!Truncate, Misreads, Lock!ReadFails
      <4> QED
        BY <1>0, <4>1, <4>2 DEF Alive
    <3>5. CASE Lock!Write(p)
      <4>1. /\ locking'[p] = "granted" /\ left' = entry'
            /\ entry' \in 0 .. LockTime
        BY <1>0, <3>5, WentTo DEF Lock!Write, Places
      <4>2. entry' \notin {None, Torn}
        BY <4>1
      <4> QED
        BY <4>1, <4>2 DEF Alive
    <3> QED
      BY <1>4, <3>1, <3>2, <3>3, <3>4, <3>5 DEF Moves, Lock!LockStep, Lock!SetNX
  <2>5. ASSUME NEW q \in Processes, q # p,
               locking'[q] \in {"rm", "truncate", "write"}
        PROVE  left' = 0
    <3>1. locking[q] \in {"rm", "truncate", "write"}
      BY <2>1, <2>5
    <3>2. left = 0 /\ locking[q] \in Lock!Awaits
      BY <1>0, <1>4, <3>1 DEF FoundNothing, Lock!Awaits
    <3>3. locking'[p] = "idle"
      BY <2>2, <2>5, <3>2
    <3> QED
      BY <2>4, <3>2, <3>3
  <2>6. FoundNothing'
    BY <2>4, <2>5 DEF FoundNothing
  <2> QED
    BY <2>3, <2>4, <2>6
<1> QED
  BY <1>0, <1>1, <1>2, <1>3, <1>4, LockSteps

LEMMA LockStart == Init => Lock!LockTypeOK /\ LockInv
BY DEF Init, Lock!LockInit, Lock!LockTypeOK, LockInv, Alive, OneAwaits,
       FoundNothing, Lock!Awaits

(* A grant comes from SET NX or from the end of writeFile.                 *)
LEMMA Grants ==
  ASSUME Lock!LockTypeOK, LockInv, [Next]_vars, redis \/ orderly,
         NEW p \in Processes, locking[p] # "granted", locking'[p] = "granted"
  PROVE  left = 0
<1>0. locking'[p] # locking[p]
  OBVIOUS
<1>1. PICK q \in Processes : Moves(q)
  BY <1>0, LockSteps, Ticked DEF LockState
<1>2. q = p /\ (Lock!SetNX(p) \/ Lock!Write(p))
  BY <1>0, <1>1, Moved
<1>3. CASE Lock!SetNX(p)
  <2>1. entry = None
    BY <1>3, WentTo DEF Lock!SetNX, Places
  <2> QED
    BY <1>3, <2>1 DEF Lock!SetNX, LockInv, Alive
<1>4. CASE Lock!Write(p)
  BY <1>4 DEF Lock!Write, LockInv, FoundNothing, Lock!LockTypeOK, Lock!Awaits
<1> QED
  BY <1>2, <1>3, <1>4

(* acquireLock: the lock is not granted again before it expires - by       *)
(* Redis, and by files that are read, by processes that take turns.        *)
THEOREM GrantsAreApart == Spec => GrantsApart
<1>1. Lock!LockTypeOK /\ LockInv /\ [Next]_vars =>
        [\A p \in Processes :
           (redis \/ orderly) /\ locking[p] # "granted" /\ locking'[p] = "granted"
             => left = 0]_vars
  BY Grants
<1> QED
  BY <1>1, LockStart, LockTypeStep, LockStepInv, PTL DEF Spec, GrantsApart

-----------------------------------------------------------------------------
(* The jobs.  What a job may be, and how often its mail may have been sent *)
(* by now: with BullMQ once more than it failed and stalled, inline once.  *)

Most == IF redis THEN Attempts + MaxStalled ELSE 1

Fits(q, n, mail) ==
  /\ q \in Queue!Job /\ n \in Nat
  /\ q.at \notin Queue!Running => q.by = None
  /\ ~ redis => q.at \notin {"waiting", "delayed"} /\ q.failures + q.stalls = 0
  /\ q.at = "none" => n = 0
  /\ q.at \in {"waiting", "delayed", "active"} => n <= q.failures + q.stalls
  /\ q.at \in {"handled", "broken"} => n <= q.failures + q.stalls + 1
  /\ mail /\ q.at \in {"handled", "completed"} => n > 0
  /\ q.at \in Queue!Over => n <= Most

JobsFit ==
  /\ redis \in BOOLEAN
  /\ job \in [Queue!Jobs -> Queue!Job] /\ sent \in [Queue!Jobs -> Nat]
  /\ \A j \in Queue!Jobs : Fits(job[j], sent[j], j \in Mails)

(* A step gives job j the value q, and its mail was sent n times so far.   *)
Sets(j, q, n) ==
  /\ job' = [job EXCEPT ![j] = q] /\ sent' = [sent EXCEPT ![j] = n]
  /\ redis' = redis

Alters(j, p) ==
  \E q, n : /\ Sets(j, q, n) /\ Fits(q, n, j \in Mails)
            /\ q.by \in {None, job[j].by, p}

LEMMA NoJobType ==
  /\ Queue!NoJob \in Queue!Job /\ Queue!NoJob.at = "none"
  /\ Queue!NoJob.by = None
  /\ Queue!NoJob.failures = 0 /\ Queue!NoJob.stalls = 0
BY DEF Queue!NoJob, Queue!Job

LEMMA BecameType ==
  ASSUME JobsFit, NEW j \in Queue!Jobs,
         NEW at \in {"waiting", "delayed", "handled", "broken", "completed",
                     "failed", "unrecorded"}
  PROVE  LET q == Queue!Became(j, at) IN
           /\ q \in Queue!Job /\ q.at = at
           /\ q.by = IF at \in {"handled", "broken"} THEN job[j].by ELSE None
           /\ IF at \in Queue!Over THEN q.failures = 0 /\ q.stalls = 0
              ELSE q.failures = job[j].failures /\ q.stalls = job[j].stalls
<1>1. job[j] \in Queue!Job
  BY DEF JobsFit
<1>2. CASE at \in Queue!Over
  BY <1>2, NoJobType DEF Queue!Became, Queue!NoJob, Queue!Job, Queue!Over
<1>3. CASE at \notin Queue!Over
  BY <1>1, <1>3
  DEF Queue!Became, Queue!NoJob, Queue!Job, Queue!Over, Queue!Running
<1> QED
  BY <1>2, <1>3

(* A job that goes to another state, its mail being sent n times.          *)
LEMMA BecomesFit ==
  ASSUME JobsFit, NEW j \in Queue!Jobs, NEW p, NEW n \in Nat,
         NEW at \in {"waiting", "handled", "broken", "completed", "failed",
                     "unrecorded"},
         Queue!Become(j, at), redis' = redis, sent' = [sent EXCEPT ![j] = n],
         ~ redis => at # "waiting",
         at = "waiting" => n <= job[j].failures + job[j].stalls,
         at \in {"handled", "broken"} =>
           n <= job[j].failures + job[j].stalls + 1,
         j \in Mails /\ at \in {"handled", "completed"} => n > 0,
         at \in Queue!Over => n <= Most
  PROVE  Alters(j, p)
<1> DEFINE q == Queue!Became(j, at)
<1>1. /\ q \in Queue!Job /\ q.at = at
      /\ q.by = IF at \in {"handled", "broken"} THEN job[j].by ELSE None
      /\ IF at \in Queue!Over THEN q.failures = 0 /\ q.stalls = 0
         ELSE q.failures = job[j].failures /\ q.stalls = job[j].stalls
  BY BecameType
<1>2. Sets(j, q, n)
  BY DEF Queue!Become, Sets
<1> HIDE DEF q
<1>3. Fits(job[j], sent[j], j \in Mails)
  BY DEF JobsFit
<1>4. Fits(q, n, j \in Mails)
  BY <1>1, <1>3 DEF Fits, Queue!Running, Queue!Over
<1> QED
  BY <1>1, <1>2, <1>4 DEF Alters

LEMMA SentAsIs ==
  ASSUME JobsFit, NEW j \in Queue!Jobs, UNCHANGED sent
  PROVE  sent' = [sent EXCEPT ![j] = sent[j]]
BY DEF JobsFit

LEMMA EnqueueAlters ==
  ASSUME JobsFit, NEW j \in Queue!Jobs, NEW p \in Processes,
         Queue!Enqueue(p, j)
  PROVE  Alters(j, p)
<1> DEFINE q == IF redis THEN [Queue!NoJob EXCEPT !.at = "waiting"]
                ELSE [Queue!NoJob EXCEPT !.at = "active", !.by = p]
<1>1. /\ q \in Queue!Job /\ q.failures = 0 /\ q.stalls = 0
      /\ IF redis THEN q.at = "waiting" /\ q.by = None
         ELSE q.at = "active" /\ q.by = p
  BY NoJobType DEF Queue!NoJob, Queue!Job
<1>2. Sets(j, q, sent[j])
  BY SentAsIs DEF Queue!Enqueue, Sets
<1>3. sent[j] = 0
  BY DEF Queue!Enqueue, JobsFit, Fits
<1> HIDE DEF q
<1>4. Fits(q, sent[j], j \in Mails)
  BY <1>1, <1>3 DEF Fits, Queue!Running, Queue!Over
<1> QED
  BY <1>1, <1>2, <1>4 DEF Alters

LEMMA TakeAlters ==
  ASSUME JobsFit, NEW j \in Queue!Jobs, NEW p \in Processes, Queue!Take(p, j)
  PROVE  Alters(j, p)
<1> DEFINE q == [job[j] EXCEPT !.at = "active", !.by = p]
<1>1. job[j].at = "waiting" /\ Fits(job[j], sent[j], j \in Mails)
  BY DEF Queue!Take, JobsFit
<1>2. /\ q \in Queue!Job /\ q.at = "active" /\ q.by = p
      /\ q.failures = job[j].failures /\ q.stalls = job[j].stalls
  BY <1>1 DEF Fits, Queue!Job
<1>3. Sets(j, q, sent[j])
  BY SentAsIs DEF Queue!Take, Sets
<1> HIDE DEF q
<1>4. Fits(q, sent[j], j \in Mails)
  BY <1>1, <1>2 DEF Fits, Queue!Running, Queue!Over
<1> QED
  BY <1>2, <1>3, <1>4 DEF Alters

LEMMA RemoveAlters ==
  ASSUME JobsFit, NEW j \in Queue!Jobs, NEW p, Queue!Remove(j)
  PROVE  Alters(j, p)
<1>1. Sets(j, Queue!NoJob, 0)
  BY DEF Queue!Remove, Sets
<1>2. Fits(Queue!NoJob, 0, j \in Mails)
  BY NoJobType DEF Fits, Queue!Running, Queue!Over
<1> QED
  BY <1>1, <1>2, NoJobType DEF Alters

LEMMA FailAlters ==
  ASSUME JobsFit, NEW j \in Queue!Jobs, NEW p, Queue!Fail(j)
  PROVE  Alters(j, p)
<1>1. /\ redis /\ job[j].at = "broken" /\ UNCHANGED <<redis, sent>>
      /\ Fits(job[j], sent[j], j \in Mails) /\ job[j] \in Queue!Job
  BY DEF Queue!Fail, JobsFit
<1>2. CASE job[j].failures + 1 < Attempts
  <2> DEFINE old == Queue!Became(j, "delayed")
             q == [old EXCEPT !.failures = @ + 1]
  <2>1. /\ old \in Queue!Job /\ old.at = "delayed" /\ old.by = None
        /\ old.failures = job[j].failures /\ old.stalls = job[j].stalls
    BY BecameType DEF Queue!Over
  <2>2. Sets(j, q, sent[j])
    BY <1>2, SentAsIs DEF Queue!Fail, Sets
  <2> HIDE DEF old
  <2>3. /\ q \in Queue!Job /\ q.at = "delayed" /\ q.by = None
        /\ q.failures = job[j].failures + 1 /\ q.stalls = job[j].stalls
    BY <1>1, <1>2, <2>1 DEF Queue!Job
  <2> HIDE DEF q
  <2>4. Fits(q, sent[j], j \in Mails)
    BY <1>1, <2>3 DEF Fits, Queue!Running, Queue!Over, Queue!Job
  <2> QED
    BY <2>2, <2>3, <2>4 DEF Alters
<1>3. CASE ~ (job[j].failures + 1 < Attempts)
  <2>1. Queue!Become(j, "failed") /\ sent' = [sent EXCEPT ![j] = sent[j]]
    BY <1>3, SentAsIs DEF Queue!Fail, Queue!Become
  <2>2. sent[j] \in Nat /\ sent[j] <= Most
    BY <1>1 DEF Fits, Most, Queue!Job
  <2> QED
    BY <1>1, <2>1, <2>2, BecomesFit
<1> QED
  BY <1>2, <1>3

LEMMA StalledAlters ==
  ASSUME JobsFit, NEW j \in Queue!Jobs, NEW p, Queue!Stalled(j)
  PROVE  Alters(j, p)
<1>1. /\ redis /\ job[j].at \in Queue!Running /\ UNCHANGED <<redis, sent>>
      /\ Fits(job[j], sent[j], j \in Mails) /\ job[j] \in Queue!Job
  BY DEF Queue!Stalled, JobsFit
<1>2. /\ sent[j] \in Nat /\ sent[j] <= job[j].failures + job[j].stalls + 1
      /\ job[j].failures \in 0 .. Attempts - 1
      /\ job[j].stalls \in 0 .. MaxStalled
  BY <1>1 DEF Fits, Queue!Running, Queue!Job
<1>3. CASE job[j].stalls < MaxStalled
  <2> DEFINE old == Queue!Became(j, "waiting")
             q == [old EXCEPT !.stalls = @ + 1]
  <2>1. /\ old \in Queue!Job /\ old.at = "waiting" /\ old.by = None
        /\ old.failures = job[j].failures /\ old.stalls = job[j].stalls
    BY BecameType DEF Queue!Over
  <2>2. Sets(j, q, sent[j])
    BY <1>3, SentAsIs DEF Queue!Stalled, Sets
  <2> HIDE DEF old
  <2>3. /\ q \in Queue!Job /\ q.at = "waiting" /\ q.by = None
        /\ q.failures = job[j].failures /\ q.stalls = job[j].stalls + 1
    BY <1>1, <1>3, <2>1 DEF Queue!Job
  <2> HIDE DEF q
  <2>4. Fits(q, sent[j], j \in Mails)
    BY <1>1, <1>2, <2>3 DEF Fits, Queue!Running, Queue!Over
  <2> QED
    BY <2>2, <2>3, <2>4 DEF Alters
<1>4. CASE ~ (job[j].stalls < MaxStalled)
  <2>1. Queue!Become(j, "failed") /\ sent' = [sent EXCEPT ![j] = sent[j]]
    BY <1>4, SentAsIs DEF Queue!Stalled, Queue!Become
  <2>2. sent[j] <= Most
    BY <1>1, <1>2 DEF Most
  <2> QED
    BY <1>1, <1>2, <2>1, <2>2, BecomesFit
<1> QED
  BY <1>3, <1>4

LEMMA WorkAlters ==
  ASSUME JobsFit, NEW j \in Queue!Jobs, NEW p, Queue!WorkStep(j)
  PROVE  Alters(j, p)
<1>0. /\ Fits(job[j], sent[j], j \in Mails) /\ job[j] \in Queue!Job
      /\ sent[j] \in Nat
      /\ job[j].failures \in Nat /\ job[j].stalls \in Nat
  BY DEF JobsFit, Queue!Job
<1>1. CASE Queue!SendMail(j)
  <2>1. PICK at \in {"handled", "broken"}, n \in {sent[j], sent[j] + 1} :
          /\ Queue!Become(j, at) /\ sent' = [sent EXCEPT ![j] = n]
          /\ at = "handled" => n = sent[j] + 1
    BY <1>1, SentAsIs DEF Queue!SendMail
  <2>2. sent[j] <= job[j].failures + job[j].stalls /\ redis' = redis
    BY <1>0, <1>1 DEF Queue!SendMail, Fits
  <2>3. /\ n \in Nat /\ n <= job[j].failures + job[j].stalls + 1
        /\ at = "handled" => n > 0
    BY <1>0, <2>1, <2>2
  <2> QED
    BY <2>1, <2>2, <2>3, BecomesFit DEF Queue!Over
<1>2. CASE Queue!LogTask(j)
  <2>1. /\ Queue!Become(j, "handled") /\ sent' = [sent EXCEPT ![j] = sent[j]]
        /\ j \notin Mails /\ redis' = redis
        /\ sent[j] <= job[j].failures + job[j].stalls
    BY <1>0, <1>2, SentAsIs DEF Queue!LogTask, Fits
  <2>2. sent[j] <= job[j].failures + job[j].stalls + 1
    BY <1>0, <2>1
  <2>3. "handled" \notin Queue!Over
    BY DEF Queue!Over
  <2> QED
    BY <1>0, <2>1, <2>2, <2>3, BecomesFit
<1>3. CASE Queue!Complete(j)
  <2>1. /\ Queue!Become(j, "completed") /\ sent' = [sent EXCEPT ![j] = sent[j]]
        /\ redis' = redis /\ sent[j] <= Most /\ (j \in Mails => sent[j] > 0)
    BY <1>0, <1>3, SentAsIs DEF Queue!Complete, Fits, Most, Queue!Job
  <2> QED
    BY <1>0, <2>1, BecomesFit
<1>4. CASE Queue!Promote(j)
  <2>1. /\ Queue!Become(j, "waiting") /\ sent' = [sent EXCEPT ![j] = sent[j]]
        /\ redis' = redis /\ sent[j] <= job[j].failures + job[j].stalls
    BY <1>0, <1>4, SentAsIs DEF Queue!Promote, Fits
  <2>2. ASSUME ~ redis PROVE FALSE
    BY <1>0, <1>4, <2>2 DEF Queue!Promote, Fits
  <2>3. "waiting" \notin Queue!Over
    BY DEF Queue!Over
  <2> QED
    BY <1>0, <2>1, <2>2, <2>3, BecomesFit
<1>5. CASE Queue!PersistCompleted(j)
  <2>1. /\ Queue!Become(j, "completed") \/ Queue!Become(j, "broken")
        /\ sent' = [sent EXCEPT ![j] = sent[j]] /\ redis' = redis /\ ~ redis
    BY <1>5, SentAsIs DEF Queue!PersistCompleted
  <2>2. /\ sent[j] <= job[j].failures + job[j].stalls + 1
        /\ j \in Mails => sent[j] > 0
        /\ sent[j] <= Most
    BY <1>0, <1>5 DEF Queue!PersistCompleted, Fits, Most
  <2> QED
    BY <1>0, <2>1, <2>2, BecomesFit DEF Queue!Over
<1>6. CASE Queue!PersistFailed(j)
  <2>1. /\ Queue!Become(j, "failed") \/ Queue!Become(j, "unrecorded")
        /\ sent' = [sent EXCEPT ![j] = sent[j]] /\ redis' = redis
        /\ sent[j] <= Most
    BY <1>0, <1>6, SentAsIs DEF Queue!PersistFailed, Fits, Most
  <2> QED
    BY <1>0, <2>1, BecomesFit
<1> QED
  BY <1>1, <1>2, <1>3, <1>4, <1>5, <1>6, FailAlters, StalledAlters
  DEF Queue!WorkStep

LEMMA Altered ==
  ASSUME JobsFit, NEW j \in Queue!Jobs, NEW p, Alters(j, p)
  PROVE  /\ JobsFit'
         /\ \A k \in Queue!Jobs : job'[k].by \in {None, job[k].by, p}
<1>1. PICK q, n : /\ Sets(j, q, n) /\ Fits(q, n, j \in Mails)
                  /\ q.by \in {None, job[j].by, p}
  BY DEF Alters
<1>2. /\ job' \in [Queue!Jobs -> Queue!Job] /\ sent' \in [Queue!Jobs -> Nat]
      /\ job'[j] = q /\ sent'[j] = n
      /\ \A k \in Queue!Jobs : k # j => job'[k] = job[k] /\ sent'[k] = sent[k]
  BY <1>1 DEF Sets, JobsFit, Fits
<1>3. \A k \in Queue!Jobs : Fits(job'[k], sent'[k], k \in Mails)
  BY <1>1, <1>2 DEF JobsFit
<1>4. \A k \in Queue!Jobs : Fits(job[k], sent[k], k \in Mails)'
  BY <1>1, <1>3 DEF Fits, Sets, Most
<1> QED
  BY <1>1, <1>2, <1>4 DEF JobsFit, Sets

(* A process that dies takes its inline jobs with it, BullMQ keeps its.    *)
LEMMA Died ==
  ASSUME JobsFit, NEW p \in Processes, Queue!LosesProcess(p)
  PROVE  /\ JobsFit'
         /\ \A k \in Queue!Jobs : job'[k].by \in {None, job[k].by} \ {p}
<1>1. ASSUME NEW k \in Queue!Jobs
      PROVE  /\ Fits(job'[k], sent'[k], k \in Mails)
             /\ job'[k].by \in {None, job[k].by} \ {p}
  <2>1. /\ Fits(job[k], sent[k], k \in Mails) /\ job[k] \in Queue!Job
        /\ job'[k] = IF job[k].by # p THEN job[k]
                     ELSE IF redis THEN [job[k] EXCEPT !.by = None]
                     ELSE Queue!NoJob
        /\ sent'[k] = IF job[k].by = p /\ ~ redis THEN 0 ELSE sent[k]
    BY DEF JobsFit, Queue!LosesProcess, Queue!Orphaned
  <2>2. CASE job[k].by # p
    BY <2>1, <2>2
  <2>3. CASE job[k].by = p /\ redis
    <3> DEFINE q == [job[k] EXCEPT !.by = None]
    <3>1. /\ q \in Queue!Job /\ q.by = None /\ q.at = job[k].at
          /\ q.failures = job[k].failures /\ q.stalls = job[k].stalls
      BY <2>1 DEF Queue!Job
    <3>2. job'[k] = q /\ sent'[k] = sent[k]
      BY <2>1, <2>3
    <3> HIDE DEF q
    <3>3. Fits(q, sent[k], k \in Mails)
      BY <2>1, <3>1 DEF Fits
    <3> QED
      BY <3>1, <3>2, <3>3
  <2>4. CASE job[k].by = p /\ ~ redis
    BY <2>1, <2>4, NoJobType DEF Fits, Queue!Running, Queue!Over
  <2> QED
    BY <2>2, <2>3, <2>4
<1>2. /\ job' = [k \in Queue!Jobs |-> job'[k]] /\ redis' = redis
      /\ sent' = [k \in Queue!Jobs |-> sent'[k]]
  BY DEF Queue!LosesProcess, Queue!Orphaned
<1>3. job' \in [Queue!Jobs -> Queue!Job] /\ sent' \in [Queue!Jobs -> Nat]
  BY <1>1, <1>2 DEF Fits
<1>4. \A k \in Queue!Jobs : Fits(job[k], sent[k], k \in Mails)'
  BY <1>1, <1>2 DEF Fits, Most
<1> QED
  BY <1>1, <1>2, <1>3, <1>4 DEF JobsFit

-----------------------------------------------------------------------------
(* The whole: who runs, who waits for the lock, who runs which job.        *)

Deployed ==
  /\ phase \in 0 .. Period - 1
  /\ up \subseteq Processes /\ due \subseteq up
  /\ faults \in BOOLEAN /\ orderly \in BOOLEAN
  /\ \A p \in Processes \ up : locking[p] = "idle"
  /\ \A j \in Queue!Jobs : job[j].by \in up \cup {None}

WholeInv == Lock!LockTypeOK /\ JobsFit /\ Deployed

LEMMA WholeInit == Init => WholeInv
<1> SUFFICES ASSUME Init PROVE WholeInv
  OBVIOUS
<1>1. JobsFit
  <2>1. /\ job = [j \in Queue!Jobs |-> Queue!NoJob]
        /\ sent = [j \in Queue!Jobs |-> 0] /\ redis \in BOOLEAN
    BY DEF Init, Queue!QueueInit, Lock!LockInit
  <2>2. \A j \in Queue!Jobs : Fits(job[j], sent[j], j \in Mails)
    BY <2>1, NoJobType DEF Fits, Queue!Running, Queue!Over
  <2> QED
    BY <2>1, <2>2, NoJobType DEF JobsFit
<1>2. Deployed
  BY NoJobType DEF Init, Deployed, Lock!LockInit, Queue!QueueInit
<1> QED
  BY <1>1, <1>2, LockStart DEF WholeInv

LEMMA WholeStep == WholeInv /\ [Next]_vars => WholeInv'
<1> SUFFICES ASSUME WholeInv, [Next]_vars PROVE JobsFit' /\ Deployed'
  BY LockTypeStep DEF WholeInv
<1>0. Lock!LockTypeOK /\ JobsFit /\ Deployed
  BY DEF WholeInv
<1>1. CASE UNCHANGED <<redis, job, sent>> /\ UNCHANGED <<phase, up, due,
             faults, orderly, locking>>
  BY <1>0, <1>1 DEF JobsFit, Fits, Most, Deployed
<1>2. CASE Tick
  <2>1. UNCHANGED <<redis, job, sent, up, faults, orderly, locking>>
    BY <1>2 DEF Tick, Rest, Lock!LockTick
  <2>2. phase' \in 0 .. Period - 1
    BY <1>0, <1>2 DEF Tick, Deployed
  <2>3. due' \subseteq up
    BY <1>0, <1>2 DEF Tick, Deployed
  <2> QED
    BY <1>0, <2>1, <2>2, <2>3 DEF JobsFit, Fits, Most, Deployed
<1>3. CASE Calm
  BY <1>0, <1>3 DEF Calm, JobsFit, Fits, Most, Deployed, LockState, Cron
(* The lock changes for a process that is up, or goes idle.                *)
<1>4. ASSUME NEW p \in Processes, UNCHANGED <<redis, job, sent>>,
             UNCHANGED <<phase, up, faults, orderly>>,
             due' \subseteq due,
             \A q \in Processes : q # p => locking'[q] = locking[q],
             p \in up \/ locking'[p] = "idle"
      PROVE  JobsFit' /\ Deployed'
  BY <1>0, <1>4 DEF JobsFit, Fits, Most, Deployed
<1>5. ASSUME NEW p \in Processes, Fire(p)
      PROVE  JobsFit' /\ Deployed'
  <2>1. /\ UNCHANGED <<redis, job, sent>>
        /\ UNCHANGED <<phase, up, faults, orderly>>
        /\ due' \subseteq due /\ p \in up
        /\ Acquires(p)
    BY <1>0, <1>5 DEF Fire, Acquires, Rest, Lock!AcquireLock, Deployed
  <2>2. \A q \in Processes : q # p => locking'[q] = locking[q]
    BY <1>0, <2>1, Moved DEF Moves
  <2> QED
    BY <1>4, <2>1, <2>2
<1>6. ASSUME NEW p \in Processes, AskForLock(p) \/ LockMisreads(p)
      PROVE  JobsFit' /\ Deployed'
  <2>1. /\ Moves(p) /\ redis' = redis /\ locking[p] # "idle"
        /\ UNCHANGED <<job, sent>> /\ UNCHANGED <<phase, up, faults, orderly>>
        /\ due' \subseteq due
    BY <1>6
    DEF AskForLock, LockMisreads, Moves, Misreads, Cron, Rest, Lock!LockStep,
        Lock!SetNX, Lock!ReadEntry, Lock!RmExpired, Lock!Truncate, Lock!Write,
        Lock!ReadFails
  <2>2. \A q \in Processes : q # p => locking'[q] = locking[q]
    BY <1>0, <2>1, Moved
  <2>3. p \in up
    BY <1>0, <2>1 DEF Deployed
  <2> QED
    BY <1>4, <2>1, <2>2, <2>3
<1>7. ASSUME NEW p \in Processes, HandleThrows(p)
      PROVE  JobsFit' /\ Deployed'
  <2>1. /\ Lock!Leave(p) /\ UNCHANGED <<redis, job, sent>>
        /\ UNCHANGED <<phase, up, faults, orderly>> /\ due' \subseteq due
    BY <1>7 DEF HandleThrows, Lock!Leave, Cron, Rest
  <2>2. /\ locking'[p] = "idle"
        /\ \A q \in Processes : q # p => locking'[q] = locking[q]
    BY <1>0, <2>1, WentTo DEF Lock!Leave, Places
  <2> QED
    BY <1>4, <2>1, <2>2
(* A job is altered by, or for, a process that is up.                      *)
<1>8. ASSUME NEW p \in up, NEW j \in Queue!Jobs, Alters(j, p),
             UNCHANGED <<phase, up, due, faults, orderly>>,
             \A q \in Processes : locking'[q] \in {locking[q], "idle"}
      PROVE  JobsFit' /\ Deployed'
  <2>1. /\ JobsFit'
        /\ \A k \in Queue!Jobs : job'[k].by \in {None, job[k].by, p}
    BY <1>0, <1>8, Altered
  <2> QED
    BY <1>0, <1>8, <2>1 DEF Deployed
<1>9. ASSUME NEW p \in Processes, Dispatch(p)
      PROVE  JobsFit' /\ Deployed'
  <2>1. PICK t \in Tasks : Queue!Enqueue(p, t)
    BY <1>9 DEF Dispatch
  <2>2. /\ locking[p] = "granted" /\ Lock!Goto(p, "idle")
        /\ UNCHANGED <<phase, up, due, faults, orderly>>
    BY <1>9 DEF Dispatch, Lock!Leave, Cron, Rest
  <2>3. p \in up
    BY <1>0, <2>2 DEF Deployed
  <2>4. \A q \in Processes : locking'[q] \in {locking[q], "idle"}
    BY <1>0, <2>2, WentTo DEF Places
  <2>5. t \in Queue!Jobs
    BY DEF Queue!Jobs
  <2> QED
    BY <1>0, <1>8, <2>1, <2>2, <2>3, <2>4, <2>5, EnqueueAlters
<1>10. ASSUME NEW p \in Processes, NEW j \in Queue!Jobs,
              RequestMail(p, j) \/ TakeJob(p, j)
       PROVE  JobsFit' /\ Deployed'
  <2>1. p \in up /\ UNCHANGED <<phase, up, due, faults, orderly, locking>>
    BY <1>10 DEF RequestMail, TakeJob, LockState, Cron, Rest
  <2>2. Alters(j, p)
    BY <1>0, <1>10, EnqueueAlters, TakeAlters DEF RequestMail, TakeJob
  <2> QED
    BY <1>8, <2>1, <2>2
<1>11. ASSUME NEW j \in Queue!Jobs, Work(j) \/ Forget(j)
       PROVE  JobsFit' /\ Deployed'
  <2>1. UNCHANGED <<phase, up, due, faults, orderly, locking>>
    BY <1>11 DEF Work, Forget, LockState, Cron, Rest
  <2>2. Alters(j, None)
    BY <1>0, <1>11, WorkAlters, RemoveAlters DEF Work, Forget
  <2>3. /\ JobsFit'
        /\ \A k \in Queue!Jobs : job'[k].by \in {None, job[k].by}
    BY <1>0, <2>2, Altered
  <2> QED
    BY <1>0, <2>1, <2>3 DEF Deployed
<1>12. ASSUME NEW p \in Processes, Crash(p)
       PROVE  JobsFit' /\ Deployed'
  <2>1. /\ p \in up /\ up' = up \ {p} /\ due' = due \ {p}
        /\ Lock!Goto(p, "idle") /\ Queue!LosesProcess(p)
        /\ UNCHANGED <<phase, faults, orderly>>
    BY <1>12 DEF Crash, Lock!Leave
  <2>2. /\ JobsFit'
        /\ \A k \in Queue!Jobs : job'[k].by \in {None, job[k].by} \ {p}
    BY <1>0, <2>1, Died
  <2>3. /\ locking'[p] = "idle"
        /\ \A q \in Processes : q # p => locking'[q] = locking[q]
    BY <1>0, <2>1, WentTo DEF Places
  <2> QED
    BY <1>0, <2>1, <2>2, <2>3 DEF Deployed
<1>13. ASSUME NEW p \in Processes, Restart(p)
       PROVE  JobsFit' /\ Deployed'
  BY <1>0, <1>13 DEF Restart, LockState, Cron, JobsFit, Fits, Most, Deployed
<1>14. ASSUME UNCHANGED vars
       PROVE  UNCHANGED <<redis, job, sent>> /\ UNCHANGED <<phase, up, due,
                faults, orderly, locking>>
  BY <1>14 DEF vars, LockState, Cron, Rest
<1> QED
  BY <1>1, <1>2, <1>3, <1>5, <1>6, <1>7, <1>9, <1>10, <1>11, <1>12, <1>13,
     <1>14
  DEF Next, Handle

(* The lock, the jobs and the processes: type correctness.                 *)
THEOREM TypeCorrect == Spec => []TypeOK
<1>1. WholeInv => TypeOK
  BY DEF WholeInv, TypeOK, JobsFit, Fits, Deployed, Queue!QueueTypeOK
<1> QED
  BY <1>1, WholeInit, WholeStep, PTL DEF Spec

(* enqueueMail, sendMail and processInline: no mail is reported as sent    *)
(* that was not, and none is sent more often than its job may be tried.    *)
THEOREM MailsAreAccountedFor == Spec => []MailsAccountedFor
<1>1. WholeInv => MailsAccountedFor
  <2> SUFFICES ASSUME WholeInv, NEW j \in Mails
               PROVE  /\ job[j].at = "completed" => sent[j] > 0
                      /\ sent[j] <= Most
    BY DEF MailsAccountedFor, Most
  <2>1. /\ Fits(job[j], sent[j], TRUE) /\ job[j] \in Queue!Job
        /\ sent[j] \in Nat
    BY DEF WholeInv, JobsFit, Queue!Jobs
  <2>2. /\ job[j].failures \in 0 .. Attempts - 1
        /\ job[j].stalls \in 0 .. MaxStalled
        /\ job[j].at \in {"none", "waiting", "delayed", "active", "handled",
                          "broken"} \cup Queue!Over
    BY <2>1 DEF Queue!Job, Queue!Over
  <2> QED
    BY <2>1, <2>2 DEF Fits, Most
<1> QED
  BY <1>1, WholeInit, WholeStep, PTL DEF Spec
=============================================================================
