--------------------------- MODULE VersionedCache ---------------------------
(***************************************************************************)
(* The namespaced read cache: core/cache/cache.service.ts over             *)
(* core/redis/redis.service.ts, as the organizations, brands, companies    *)
(* and roles services use it.  A read (findAll, findOne) goes through      *)
(* rememberVersioned; a write (create, update, remove) saves to            *)
(* PostgreSQL and then calls invalidateNamespace, which increments the     *)
(* version that every key of the namespace contains.                       *)
(*                                                                         *)
(* The namespace's table is abstracted to the number of writes committed   *)
(* to it, and a cached page to the number of writes it reflects.  Every    *)
(* await is a place where other requests may run.  With backend = "files"  *)
(* there is no Redis: keys are JSON files, incr is a read and a write, and *)
(* a file that is being written, or was when the process died, or that the *)
(* disk does not give, reads as absent.                                    *)
(***************************************************************************)
EXTENDS Naturals

CONSTANTS
  Keys,              \* the cache keys in use inside the namespace
  Readers, Writers,  \* slots for requests in progress
  MaxWrites,         \* bound: the table is written this many times
  Backends,          \* the deployments considered: "redis", "files"
  None

(* The version starts at 0, absent, and grows by one with each write at    *)
(* most, so its bound, in the guards of Incr and IncrRead, never stops it. *)
(* Reads use 1 before the first.                                           *)
Writes   == 0 .. MaxWrites
Versions == 0 .. MaxWrites

ASSUME CacheAssumption ==
  /\ MaxWrites \in Nat \ {0}
  /\ Backends \subseteq {"redis", "files"}
  /\ None \notin Nat /\ None \notin Keys

VARIABLES
  backend,  \* what the deployment keeps the keys in; it does not change
  db,       \* writes committed to the table
  version,  \* the value under cache:version:<namespace>, 0 if there is none
  entries,  \* [Versions -> [Keys -> Writes or None]], the cached pages
  reader,   \* [Readers -> Read]
  writer,   \* [Writers -> Write]
  acked     \* history, with Redis: the last write whose caller was answered

vars == <<backend, db, version, entries, reader, writer, acked>>

(* A read: the version it found, the value it has, and the writes its      *)
(* caller may rely on (floor, history).                                    *)
Read == [pc: {"idle", "lookup", "load", "store", "done"}, key: Keys \cup {None},
         ver: Versions, val: Writes, floor: Writes]

(* A write: its number, and the version it computed from the files.        *)
Write == [pc: {"idle", "incr", "incr.write", "incr.fill"}, ticket: Writes,
          next: Versions]

NoRead  == [pc |-> "idle", key |-> None, ver |-> 0, val |-> 0, floor |-> 0]
NoWrite == [pc |-> "idle", ticket |-> 0, next |-> 0]

Init ==
  /\ backend \in Backends
  /\ db = 0 /\ acked = 0
  /\ version = 0
  /\ entries = [v \in Versions |-> [k \in Keys |-> None]]
  /\ reader = [r \in Readers |-> NoRead]
  /\ writer = [w \in Writers |-> NoWrite]

(* get of the version key.  The files' readFallbackEntry catches any error *)
(* of the disk, and the key is absent.                                     *)
Found == IF backend = "files" THEN {version, 0} ELSE {version}

(* getNamespaceVersion: version ?? '1'.                                    *)
NamespaceVersion(found) == IF found = 0 THEN 1 ELSE found

-----------------------------------------------------------------------------
(* rememberVersioned.                                                      *)

BeginRead(r, k) ==
  /\ reader[r].pc = "idle"
  /\ \E found \in Found :
       reader' = [reader EXCEPT ![r] =
                    [pc |-> "lookup", key |-> k, floor |-> acked, val |-> 0,
                     ver |-> NamespaceVersion(found)]]
  /\ UNCHANGED <<backend, db, version, entries, writer, acked>>

(* Mutant: the value found is returned whether there is one or not.        *)
Lookup_NoNullTest(r) ==
  /\ reader[r].pc = "lookup"
  /\ reader' = [reader EXCEPT ![r].pc = "done",
                              ![r].val = entries[reader[r].ver][reader[r].key]]
  /\ UNCHANGED <<backend, db, version, entries, writer, acked>>

(* remember: the page is there, or it has to be loaded.  A file that       *)
(* another request is writing, or that cannot be read, is absent.          *)
Lookup(r) ==
  /\ reader[r].pc = "lookup"
  /\ LET page == entries[reader[r].ver][reader[r].key] IN
     \/ /\ page # None
        /\ reader' = [reader EXCEPT ![r].pc = "done", ![r].val = page]
     \/ /\ page = None \/ backend = "files"
        /\ reader' = [reader EXCEPT ![r].pc = "load"]
  /\ UNCHANGED <<backend, db, version, entries, writer, acked>>

(* The factory: the query of findAll or findOne.                           *)
Load(r) ==
  /\ reader[r].pc = "load"
  /\ reader' = [reader EXCEPT ![r].pc = "store", ![r].val = db]
  /\ UNCHANGED <<backend, db, version, entries, writer, acked>>

(* Mutant: the key is built again, from the version of the moment.         *)
Store_CurrentVersion(r) ==
  /\ reader[r].pc = "store"
  /\ entries' = [entries EXCEPT
                   ![NamespaceVersion(version)][reader[r].key] = reader[r].val]
  /\ reader' = [reader EXCEPT ![r].pc = "done"]
  /\ UNCHANGED <<backend, db, version, writer, acked>>

Store(r) ==
  /\ reader[r].pc = "store"
  /\ entries' = [entries EXCEPT
                   ![reader[r].ver][reader[r].key] = reader[r].val]
  /\ reader' = [reader EXCEPT ![r].pc = "done"]
  /\ UNCHANGED <<backend, db, version, writer, acked>>

(* The answer is sent.                                                     *)
Return(r) ==
  /\ reader[r].pc = "done"
  /\ reader' = [reader EXCEPT ![r] = NoRead]
  /\ UNCHANGED <<backend, db, version, entries, writer, acked>>

-----------------------------------------------------------------------------
(* A write, and invalidateNamespace.                                       *)

Acknowledge(w) ==
  /\ acked' = IF writer[w].ticket > acked THEN writer[w].ticket ELSE acked
  /\ writer' = [writer EXCEPT ![w] = NoWrite]

(* Mutant: the caller is answered before the invalidation has happened.    *)
Commit_AnswerFirst(w) ==
  /\ writer[w].pc = "idle" /\ db < MaxWrites
  /\ db' = db + 1 /\ acked' = db + 1
  /\ writer' = [writer EXCEPT ![w] =
                  [pc |-> "incr", ticket |-> db + 1, next |-> 0]]
  /\ UNCHANGED <<backend, version, entries, reader>>

Commit(w) ==
  /\ writer[w].pc = "idle" /\ db < MaxWrites
  /\ db' = db + 1
  /\ writer' = [writer EXCEPT ![w] =
                  [pc |-> "incr", ticket |-> db + 1, next |-> 0]]
  /\ UNCHANGED <<backend, version, entries, reader, acked>>

(* INCR, atomic in Redis; a missing key counts as 0.                       *)
Incr(w) ==
  /\ backend = "redis" /\ writer[w].pc = "incr" /\ version < MaxWrites
  /\ version' = version + 1
  /\ Acknowledge(w)
  /\ UNCHANGED <<backend, db, entries, reader>>

(* The fallback reads the file, truncates it and fills it again.           *)
IncrRead(w) ==
  /\ backend = "files" /\ writer[w].pc = "incr" /\ version < MaxWrites
  /\ \E found \in Found :
       writer' = [writer EXCEPT ![w].pc = "incr.write", ![w].next = found + 1]
  /\ UNCHANGED <<backend, db, version, entries, reader, acked>>

IncrTruncate(w) ==
  /\ writer[w].pc = "incr.write"
  /\ version' = 0
  /\ writer' = [writer EXCEPT ![w].pc = "incr.fill"]
  /\ UNCHANGED <<backend, db, entries, reader, acked>>

IncrFill(w) ==
  /\ writer[w].pc = "incr.fill"
  /\ version' = writer[w].next
  /\ writer' = [writer EXCEPT ![w] = NoWrite]
  /\ UNCHANGED <<backend, db, entries, reader, acked>>

-----------------------------------------------------------------------------
(* The environment.                                                        *)

(* A failing call, or the end of the process: no answer is sent.           *)
AbortRead(r) ==
  /\ reader[r].pc # "idle"
  /\ reader' = [reader EXCEPT ![r] = NoRead]
  /\ UNCHANGED <<backend, db, version, entries, writer, acked>>

AbortWrite(w) ==
  /\ writer[w].pc # "idle"
  /\ writer' = [writer EXCEPT ![w] = NoWrite]
  /\ UNCHANGED <<backend, db, version, entries, reader, acked>>

(* Mutant: only pages of superseded versions have a time to live.          *)
ExpireEntry_Superseded(v, k) ==
  /\ entries[v][k] # None /\ v # NamespaceVersion(version)
  /\ entries' = [entries EXCEPT ![v][k] = None]
  /\ UNCHANGED <<backend, db, version, reader, writer, acked>>

(* Every page is stored with a time to live; the version key has none.     *)
ExpireEntry(v, k) ==
  /\ entries[v][k] # None
  /\ entries' = [entries EXCEPT ![v][k] = None]
  /\ UNCHANGED <<backend, db, version, reader, writer, acked>>

-----------------------------------------------------------------------------
ReadStep(r) == Lookup(r) \/ Load(r) \/ Store(r) \/ Return(r)

WriteStep(w) ==
  \/ Commit(w) \/ Incr(w) \/ IncrRead(w) \/ IncrTruncate(w) \/ IncrFill(w)
  \/ AbortWrite(w)

Next ==
  \/ \E r \in Readers : \/ \E k \in Keys : BeginRead(r, k)
                        \/ ReadStep(r) \/ AbortRead(r)
  \/ \E w \in Writers : WriteStep(w)
  \/ \E v \in Versions, k \in Keys : ExpireEntry(v, k)

Spec == Init /\ [][Next]_vars

(* A read that has begun goes on (every await of it settles, or it fails)  *)
(* and a page is dropped when its time to live is over.  Writes need no    *)
(* fairness: the property below is also about those that die half way.     *)
FairSpec ==
  /\ Spec
  /\ \A r \in Readers : WF_vars(ReadStep(r))
  /\ \A v \in Versions, k \in Keys : WF_vars(ExpireEntry(v, k))

-----------------------------------------------------------------------------
(* Type invariant: every variable keeps its shape; a value handed to a     *)
(* caller is always a page, never the null of a cache miss.                *)
TypeOK ==
  /\ backend \in Backends
  /\ db \in Writes /\ acked \in Writes /\ version \in Versions
  /\ entries \in [Versions -> [Keys -> Writes \cup {None}]]
  /\ reader \in [Readers -> Read]
  /\ writer \in [Writers -> Write]
  /\ \A r \in Readers : reader[r].pc # "idle" => reader[r].key \in Keys

(* Read your writes, across requests: a read that starts after a create,   *)
(* update or remove has been answered reflects that write, whether its     *)
(* value comes from the cache or from the table, and however it races with *)
(* other reads and writes (invalidateNamespace, called by every writer of  *)
(* organizations, brands and companies).  A promise of Redis, whose INCR   *)
(* is atomic, and not of the files; and one that a namespace keeps from    *)
(* its second invalidation on: the first finds no key, and leaves the 1    *)
(* that reads have been using already.                                     *)
ReadsAreFresh ==
  backend = "redis" =>
    \A r \in Readers : reader[r].pc = "done" /\ reader[r].ver > 1
                        => reader[r].val >= reader[r].floor

(* Why reads are fresh, past version 1: a page under the current version,  *)
(* and one about to be stored there, reflects every answered write; a page *)
(* under an older version reflects what a reader still bound to that       *)
(* version may rely on; nothing is stored ahead of the version.            *)
ReadersBehindVersion ==
  \A r \in Readers : reader[r].pc # "idle" =>
    reader[r].ver <= NamespaceVersion(version) /\ reader[r].floor <= acked

CurrentPagesFresh ==
  /\ \A v \in Versions, k \in Keys :
       v > NamespaceVersion(version) => entries[v][k] = None
  /\ version > 1 =>
       /\ \A k \in Keys :
            entries[version][k] # None => entries[version][k] >= acked
       /\ \A r \in Readers :
            reader[r].pc = "store" /\ reader[r].ver = version
              => reader[r].val >= acked

ReachablePagesFresh ==
  \A r \in Readers : reader[r].pc = "lookup" /\ reader[r].ver > 1 =>
    /\ \A k \in Keys : entries[reader[r].ver][k] # None =>
                        entries[reader[r].ver][k] >= reader[r].floor
    /\ \A x \in Readers :
         reader[x].pc = "store" /\ reader[x].ver = reader[r].ver
           => reader[x].val >= reader[r].floor

LoadedValuesFresh ==
  \A r \in Readers :
    /\ reader[r].pc = "store" => reader[r].val >= reader[r].floor
    /\ reader[r].pc = "done" /\ reader[r].ver > 1
         => reader[r].val >= reader[r].floor

Coherent ==
  /\ acked <= db
  /\ \A w \in Writers : writer[w].ticket <= db
  /\ ReadersBehindVersion /\ CurrentPagesFresh
  /\ ReachablePagesFresh /\ LoadedValuesFresh

PagesAreFresh == backend = "redis" => Coherent

(* After the last write the cache settles: from some point on no read can  *)
(* find a page of an older state of the table.  MaxWrites makes every      *)
(* behaviour have a last write.  This needs neither Redis nor a writer     *)
(* that lives to invalidate, nor the right version: the time to live of    *)
(* the pages is enough.                                                    *)
CacheSettles ==
  <>[] \A v \in Versions, k \in Keys : entries[v][k] \in {None, db}
=============================================================================
