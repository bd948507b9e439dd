---------------------------- MODULE SchedulerLock ----------------------------
(***************************************************************************)
(* SchedulerService.acquireLock on one key: SET NX EX on Redis or, without *)
(* Redis, a file that is read, removed if expired, and written.  The file  *)
(* is shared by the processes on a machine, and truncated before it is     *)
(* written.  Nothing releases the lock, it expires.                        *)
(***************************************************************************)
EXTENDS Naturals

CONSTANTS
  Processes, None, Torn,
  LockTime \* its time to live, in units of the clock

VARIABLES
  redis,   \* Redis is configured
  entry,   \* None, Torn (a truncated file), or the time left (0: expired)
  locking, \* [Processes -> the await of acquireLock, or its answer]
  expires, \* [Processes -> time left till the expiresAt it will write]
  left     \* history: time left of the lock that was granted last

Awaits == {"read", "rm", "truncate", "write"}

LockTypeOK ==
  /\ redis \in BOOLEAN
  /\ entry \in {None, Torn} \cup 0 .. LockTime
  /\ redis => entry \notin {Torn, 0}
  /\ locking \in [Processes -> Awaits \cup {"idle", "granted"}]
  /\ redis => \A p \in Processes : locking[p] \notin Awaits \ {"read"}
  /\ expires \in [Processes -> 0 .. LockTime]
  /\ left \in 0 .. LockTime

LockInit ==
  /\ redis \in BOOLEAN
  /\ entry = None
  /\ locking = [p \in Processes |-> "idle"]
  /\ expires = [p \in Processes |-> 0]
  /\ left = 0

Goto(p, at) == locking' = [locking EXCEPT ![p] = at]

Expires(p, t) == expires' = [expires EXCEPT ![p] = t]

AcquireLock(p) ==
  /\ locking[p] = "idle"
  /\ Goto(p, "read")
  /\ UNCHANGED <<redis, entry, expires, left>>

(* Mutant: SET EX without NX.                                              *)
SetNX_Always(p) ==
  /\ redis /\ locking[p] = "read"
  /\ entry' = LockTime /\ left' = LockTime /\ Goto(p, "granted")
  /\ UNCHANGED <<redis, expires>>

SetNX(p) ==
  /\ redis /\ locking[p] = "read"
  /\ IF entry = None
     THEN entry' = LockTime /\ left' = LockTime /\ Goto(p, "granted")
     ELSE UNCHANGED <<entry, left>> /\ Goto(p, "idle")
  /\ UNCHANGED <<redis, expires>>

(* No entry: what will be written expires LockTime from now.               *)
FindNone(p) == Goto(p, "truncate") /\ Expires(p, LockTime)

(* readFallbackEntry: a file that cannot be parsed is no entry.            *)
ReadEntry(p) ==
  /\ ~ redis /\ locking[p] = "read"
  /\ IF entry \in {None, Torn} THEN FindNone(p)
     ELSE Goto(p, IF entry = 0 THEN "rm" ELSE "idle") /\ UNCHANGED expires
  /\ UNCHANGED <<redis, entry, left>>

(* Whatever the file holds by now.                                         *)
RmExpired(p) ==
  /\ locking[p] = "rm"
  /\ entry' = None /\ FindNone(p)
  /\ UNCHANGED <<redis, left>>

(* readFallbackEntry catches what readFile or rm throw: no entry, whatever *)
(* the file holds.                                                         *)
ReadFails(p) ==
  /\ ~ redis /\ locking[p] \in {"read", "rm"}
  /\ FindNone(p)
  /\ UNCHANGED <<redis, entry, left>>

(* writeFallbackEntry: after mkdir, writeFile opens the file, and then     *)
(* writes it.                                                              *)
Truncate(p) ==
  /\ locking[p] = "truncate"
  /\ entry' = Torn /\ Goto(p, "write")
  /\ UNCHANGED <<redis, expires, left>>

Write(p) ==
  /\ locking[p] = "write"
  /\ entry' = expires[p] /\ left' = expires[p]
  /\ Goto(p, "granted") /\ Expires(p, 0)
  /\ UNCHANGED redis

(* The caller took its answer, or an error, or its process died: nothing   *)
(* is undone.                                                              *)
Leave(p) ==
  /\ Goto(p, "idle") /\ Expires(p, 0)
  /\ UNCHANGED <<redis, entry, left>>

Sooner(t) == IF t = 0 THEN 0 ELSE t - 1

(* Mutant: SET NX without EX.                                              *)
LockTick_Forever ==
  /\ expires' = [p \in Processes |-> Sooner(expires[p])]
  /\ left' = Sooner(left)
  /\ UNCHANGED <<redis, entry, locking>>

(* A unit of time: Redis drops an expired key, a file stays.               *)
LockTick ==
  /\ entry' = CASE entry \in {None, Torn} -> entry
                [] entry = 1 /\ redis -> None
                [] OTHER -> Sooner(entry)
  /\ expires' = [p \in Processes |-> Sooner(expires[p])]
  /\ left' = Sooner(left)
  /\ UNCHANGED <<redis, locking>>

LockStep(p) ==
  SetNX(p) \/ ReadEntry(p) \/ RmExpired(p) \/ Truncate(p) \/ Write(p)
=============================================================================
