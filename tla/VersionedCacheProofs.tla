------------------------ MODULE VersionedCacheProofs ------------------------
(***************************************************************************)
(* Proofs about VersionedCache, for any keys, requests and number of       *)
(* writes: type correctness whatever the backend, and with Redis read-     *)
(* your-writes from the second invalidation on.                            *)
(***************************************************************************)
EXTENDS VersionedCache, TLAPS

USE CacheAssumption

-----------------------------------------------------------------------------
(* Type correctness.                                                       *)

LEMMA VersionInRange ==
  ASSUME version \in Versions
  PROVE  \A found \in Found :
           found \in {version, 0} /\ NamespaceVersion(found) \in Versions
BY DEF Found, NamespaceVersion, Versions

LEMMA NoReadType ==
  NoRead \in Read /\ NoRead.pc = "idle"
BY DEF NoRead, Read, Versions, Writes

LEMMA NoWriteType ==
  NoWrite \in Write /\ NoWrite.pc = "idle" /\ NoWrite.ticket = 0
BY DEF NoWrite, Write, Versions, Writes

(* A step replaces one read, or one write, by another of the right shape.  *)
LEMMA ReaderType ==
  ASSUME TypeOK, NEW r \in Readers, NEW x \in Read,
         x.pc # "idle" => x.key \in Keys,
         reader' = [reader EXCEPT ![r] = x]
  PROVE  /\ reader' \in [Readers -> Read]
         /\ \A y \in Readers : reader'[y].pc # "idle" => reader'[y].key \in Keys
BY DEF TypeOK

LEMMA AcknowledgeType ==
  ASSUME TypeOK, NEW w \in Writers, Acknowledge(w)
  PROVE  acked' \in Writes /\ writer' \in [Writers -> Write]
<1>1. writer[w].ticket \in Writes
  BY DEF TypeOK, Write
<1> QED
  BY <1>1, NoWriteType DEF TypeOK, Acknowledge

(* The invariant is kept by every step, one action at a time.              *)
LEMMA ReadType ==
  ASSUME TypeOK, NEW r \in Readers,
         ReadStep(r) \/ AbortRead(r) \/ \E k \in Keys : BeginRead(r, k)
  PROVE  TypeOK'
<1>1. reader[r] \in Read /\ (reader[r].pc # "idle" => reader[r].key \in Keys)
  BY DEF TypeOK
<1>2. ASSUME NEW k \in Keys, BeginRead(r, k) PROVE TypeOK'
  <2>1. PICK found \in Found :
          reader' = [reader EXCEPT ![r] =
                       [pc |-> "lookup", key |-> k, floor |-> acked, val |-> 0,
                        ver |-> NamespaceVersion(found)]]
    BY <1>2 DEF BeginRead
  <2>2. [pc |-> "lookup", key |-> k, floor |-> acked, val |-> 0,
         ver |-> NamespaceVersion(found)] \in Read
    BY VersionInRange DEF TypeOK, Read, Writes
  <2> QED
    BY <1>2, <2>1, <2>2, ReaderType DEF BeginRead, TypeOK
<1>3. CASE Lookup(r)
  <2>1. reader[r].ver \in Versions /\ reader[r].key \in Keys
    BY <1>1, <1>3 DEF Lookup, Read
  <2>2. entries[reader[r].ver][reader[r].key] \in Writes \cup {None}
    BY <2>1 DEF TypeOK
  <2> DEFINE page == entries[reader[r].ver][reader[r].key]
  <2>3. CASE page # None /\ reader' = [reader EXCEPT ![r].pc = "done",
                                                     ![r].val = page]
    <3> DEFINE x == [reader[r] EXCEPT !.pc = "done", !.val = page]
    <3>1. x \in Read /\ x.key = reader[r].key
      BY <1>1, <2>2, <2>3 DEF Read
    <3>2. reader' = [reader EXCEPT ![r] = x]
      BY <2>3 DEF TypeOK
    <3> QED
      BY <1>3, <2>1, <3>1, <3>2, ReaderType DEF Lookup, TypeOK
  <2>4. CASE reader' = [reader EXCEPT ![r].pc = "load"]
    <3> DEFINE x == [reader[r] EXCEPT !.pc = "load"]
    <3>1. x \in Read /\ x.key = reader[r].key
      BY <1>1 DEF Read
    <3>2. reader' = [reader EXCEPT ![r] = x]
      BY <2>4 DEF TypeOK
    <3> QED
      BY <1>3, <2>1, <3>1, <3>2, ReaderType DEF Lookup, TypeOK
  <2> QED
    BY <1>3, <2>3, <2>4 DEF Lookup
<1>4. CASE Load(r)
  <2> DEFINE x == [reader[r] EXCEPT !.pc = "store", !.val = db]
  <2>1. x \in Read /\ x.key = reader[r].key
    BY <1>1 DEF TypeOK, Read
  <2>2. reader' = [reader EXCEPT ![r] = x]
    BY <1>4 DEF Load, TypeOK
  <2> QED
    BY <1>1, <1>4, <2>1, <2>2, ReaderType DEF Load, TypeOK
<1>5. CASE Store(r)
  <2> DEFINE x == [reader[r] EXCEPT !.pc = "done"]
  <2>1. x \in Read /\ x.key = reader[r].key /\ x.val = reader[r].val
    BY <1>1 DEF Read
  <2>2. reader' = [reader EXCEPT ![r] = x]
    BY <1>5 DEF Store, TypeOK
  <2>3. reader[r].val \in Writes
    BY <1>1 DEF Read
  <2>4. entries' \in [Versions -> [Keys -> Writes \cup {None}]]
    BY <1>5, <2>3 DEF Store, TypeOK
  <2> QED
    BY <1>1, <1>5, <2>1, <2>2, <2>4, ReaderType DEF Store, TypeOK
<1>6. CASE Return(r) \/ AbortRead(r)
  BY <1>6, NoReadType, ReaderType DEF Return, AbortRead, TypeOK
<1> QED
  BY <1>2, <1>3, <1>4, <1>5, <1>6 DEF ReadStep

LEMMA WriteType ==
  ASSUME TypeOK, NEW w \in Writers, WriteStep(w)
  PROVE  TypeOK'
<1>1. writer[w] \in Write
  BY DEF TypeOK
<1>2. CASE Commit(w)
  <2>1. db + 1 \in Writes
    BY <1>2 DEF Commit, TypeOK, Writes
  <2>2. [pc |-> "incr", ticket |-> db + 1, next |-> 0] \in Write
    BY <2>1 DEF Write, Versions
  <2> QED
    BY <1>2, <2>1, <2>2 DEF Commit, TypeOK
<1>3. CASE Incr(w)
  BY <1>3, AcknowledgeType DEF Incr, TypeOK, Versions
<1>4. CASE IncrRead(w)
  <2>1. PICK found \in Found :
          writer' = [writer EXCEPT ![w].pc = "incr.write",
                                   ![w].next = found + 1]
    BY <1>4 DEF IncrRead
  <2> DEFINE x == [writer[w] EXCEPT !.pc = "incr.write", !.next = found + 1]
  <2>2. found + 1 \in Versions
    BY <1>4, VersionInRange DEF IncrRead, TypeOK, Versions
  <2>3. x \in Write
    BY <1>1, <2>2 DEF Write
  <2>4. writer' = [writer EXCEPT ![w] = x]
    BY <2>1 DEF TypeOK
  <2> QED
    BY <1>4, <2>3, <2>4 DEF IncrRead, TypeOK
<1>5. CASE IncrTruncate(w)
  <2> DEFINE x == [writer[w] EXCEPT !.pc = "incr.fill"]
  <2>1. x \in Write
    BY <1>1 DEF Write
  <2>2. writer' = [writer EXCEPT ![w] = x]
    BY <1>5 DEF IncrTruncate, TypeOK
  <2> QED
    BY <1>5, <2>1, <2>2 DEF IncrTruncate, TypeOK, Versions
<1>6. CASE IncrFill(w)
  <2>1. writer[w].next \in Versions
    BY <1>1 DEF Write
  <2> QED
    BY <1>6, <2>1, NoWriteType DEF IncrFill, TypeOK
<1>7. CASE AbortWrite(w)
  BY <1>7, NoWriteType DEF AbortWrite, TypeOK
<1> QED
  BY <1>2, <1>3, <1>4, <1>5, <1>6, <1>7 DEF WriteStep

LEMMA ExpireType ==
  ASSUME TypeOK, NEW v \in Versions, NEW k \in Keys, ExpireEntry(v, k)
  PROVE  TypeOK'
BY DEF ExpireEntry, TypeOK

LEMMA TypeInit == Init => TypeOK
<1> SUFFICES ASSUME Init PROVE TypeOK
  OBVIOUS
<1> QED
  BY NoReadType, NoWriteType DEF Init, TypeOK, Writes, Versions

LEMMA TypeStep == TypeOK /\ [Next]_vars => TypeOK'
<1> SUFFICES ASSUME TypeOK, [Next]_vars PROVE TypeOK'
  OBVIOUS
<1>1. CASE Next
  BY <1>1, ReadType, WriteType, ExpireType DEF Next
<1>2. CASE UNCHANGED vars
  BY <1>2 DEF vars, TypeOK
<1> QED
  BY <1>1, <1>2

(* Every variable keeps its shape, and no caller is ever given the null of *)
(* a cache miss, with Redis and with files (remember, rememberVersioned).  *)
THEOREM TypeCorrect == Spec => []TypeOK
BY TypeInit, TypeStep, PTL DEF Spec

-----------------------------------------------------------------------------
(* Freshness, with Redis.                                                  *)

(* With Redis a write never holds a version of its own making, so the      *)
(* version only ever grows.                                                *)
IncrIsAtomic == \A w \in Writers : writer[w].pc \in {"idle", "incr"}

(* The inductive invariant.                                                *)
Core == TypeOK /\ backend = "redis" /\ IncrIsAtomic /\ Coherent

FreshInv == TypeOK /\ (backend = "redis" => Core)

(* What a read's step leaves alone, and what it may change.                *)
LEMMA ReadKeepsFresh ==
  ASSUME Core, NEW r \in Readers,
         ReadStep(r) \/ AbortRead(r) \/ \E k \in Keys : BeginRead(r, k)
  PROVE  IncrIsAtomic' /\ Coherent'
<1> USE DEF Core, Coherent
<1>1. /\ UNCHANGED <<backend, db, version, writer, acked>>
      /\ \A x \in Readers : x # r => reader'[x] = reader[x]
      /\ reader'[r] \in Read
  <2>1. TypeOK'
    BY ReadType
  <2>2. /\ UNCHANGED <<backend, db, version, writer, acked>>
        /\ \A x \in Readers : x # r => reader'[x] = reader[x]
    BY DEF TypeOK, ReadStep, BeginRead, Lookup, Load, Store, Return, AbortRead
  <2> QED
    BY <2>1, <2>2 DEF TypeOK
<1>2. /\ version \in Versions /\ acked \in Nat /\ db \in Nat
      /\ \A x \in Readers : reader[x].val \in Nat /\ reader[x].floor \in Nat
      /\ \A v \in Versions, k \in Keys :
           entries[v][k] # None => entries[v][k] \in Nat
      /\ reader[r].ver \in Versions
  BY DEF TypeOK, Read, Writes
<1>3. IncrIsAtomic' /\ (acked <= db)'
      /\ (\A w \in Writers : writer[w].ticket <= db)'
  BY <1>1 DEF IncrIsAtomic
<1>4. ASSUME NEW k \in Keys, BeginRead(r, k) PROVE Coherent'
  <2>1. /\ reader'[r].pc = "lookup" /\ UNCHANGED entries
        /\ reader'[r].ver = NamespaceVersion(version)
        /\ reader'[r].floor = acked
    BY <1>4 DEF BeginRead, Found, TypeOK
  <2>2. ReadersBehindVersion'
    BY <1>1, <1>2, <2>1
    DEF ReadersBehindVersion, NamespaceVersion, Versions
  <2>3. CurrentPagesFresh'
    BY <1>1, <2>1 DEF CurrentPagesFresh
  <2>4. reader'[r].ver > 1 => version > 1 /\ reader'[r].ver = version
    BY <1>2, <2>1 DEF NamespaceVersion, Versions
  <2>5. ReachablePagesFresh'
    BY <1>1, <2>1, <2>4 DEF ReachablePagesFresh, CurrentPagesFresh
  <2>6. LoadedValuesFresh'
    BY <1>1, <2>1 DEF LoadedValuesFresh
  <2> QED
    BY <1>3, <2>2, <2>3, <2>5, <2>6
<1>5. CASE Lookup(r)
  <2> DEFINE page == entries[reader[r].ver][reader[r].key]
  <2>1. /\ reader[r].pc = "lookup" /\ reader[r].key \in Keys /\ UNCHANGED entries
        /\ reader'[r].ver = reader[r].ver /\ reader'[r].floor = reader[r].floor
        /\ \/ reader'[r].pc = "load"
           \/ reader'[r].pc = "done" /\ reader'[r].val = page /\ page # None
    <3>1. reader[r].pc = "lookup" /\ reader[r].key \in Keys /\ UNCHANGED entries
      BY <1>5 DEF Lookup, TypeOK
    <3>2. CASE page # None /\ reader' = [reader EXCEPT ![r].pc = "done",
                                                      ![r].val = page]
      BY <3>1, <3>2 DEF TypeOK, Read
    <3>3. CASE reader' = [reader EXCEPT ![r].pc = "load"]
      BY <3>1, <3>3 DEF TypeOK, Read
    <3> QED
      BY <1>5, <3>1, <3>2, <3>3 DEF Lookup
  <2>2. ReadersBehindVersion'
    BY <1>1, <2>1 DEF ReadersBehindVersion
  <2>3. CurrentPagesFresh'
    BY <1>1, <2>1 DEF CurrentPagesFresh
  <2>4. ReachablePagesFresh'
    BY <1>1, <2>1 DEF ReachablePagesFresh
  <2>5. LoadedValuesFresh'
    BY <1>1, <2>1 DEF LoadedValuesFresh, ReachablePagesFresh
  <2> QED
    BY <1>3, <2>2, <2>3, <2>4, <2>5
<1>6. CASE Load(r)
  <2>1. /\ reader[r].pc = "load" /\ reader'[r].pc = "store" /\ UNCHANGED entries
        /\ reader'[r].ver = reader[r].ver /\ reader'[r].floor = reader[r].floor
        /\ reader'[r].val = db
    BY <1>6 DEF Load, TypeOK
  <2>2. \A x \in Readers : reader[x].pc # "idle" => reader[x].floor <= db
    BY <1>2 DEF ReadersBehindVersion
  <2>3. ReadersBehindVersion'
    BY <1>1, <2>1 DEF ReadersBehindVersion
  <2>4. CurrentPagesFresh'
    BY <1>1, <2>1 DEF CurrentPagesFresh
  <2>5. ReachablePagesFresh'
    BY <1>1, <2>1, <2>2 DEF ReachablePagesFresh
  <2>6. LoadedValuesFresh'
    BY <1>1, <2>1, <2>2 DEF LoadedValuesFresh
  <2> QED
    BY <1>3, <2>3, <2>4, <2>5, <2>6
<1>7. CASE Store(r)
  <2>1. /\ reader[r].pc = "store" /\ reader'[r].pc = "done"
        /\ reader'[r].ver = reader[r].ver /\ reader'[r].floor = reader[r].floor
        /\ reader'[r].val = reader[r].val
    BY <1>7 DEF Store, TypeOK
  <2>2. \A v \in Versions, k \in Keys :
           \/ entries'[v][k] = entries[v][k]
           \/ v = reader[r].ver /\ entries'[v][k] = reader[r].val
    BY <1>7 DEF Store, TypeOK
  <2>3. ReadersBehindVersion'
    BY <1>1, <2>1 DEF ReadersBehindVersion
  <2>4. CurrentPagesFresh'
    <3>1. reader[r].ver <= NamespaceVersion(version)
      BY <2>1 DEF ReadersBehindVersion
    <3>2. \A v \in Versions, k \in Keys :
            v > NamespaceVersion(version) => entries'[v][k] = None
      BY <1>2, <2>2, <3>1 DEF CurrentPagesFresh, NamespaceVersion, Versions
    <3>3. version > 1 =>
            \A k \in Keys :
              entries'[version][k] # None => entries'[version][k] >= acked
      BY <1>2, <2>1, <2>2 DEF CurrentPagesFresh
    <3>4. version > 1 =>
            \A x \in Readers :
              reader'[x].pc = "store" /\ reader'[x].ver = version
                => reader'[x].val >= acked
      BY <1>1, <2>1 DEF CurrentPagesFresh
    <3> QED
      BY <1>1, <3>2, <3>3, <3>4 DEF CurrentPagesFresh
  <2>5. ReachablePagesFresh'
    <3>1. ASSUME NEW x \in Readers, reader'[x].pc = "lookup"
          PROVE  x # r /\ reader'[x] = reader[x] /\ reader[x].ver \in Versions
      BY <1>1, <2>1, <3>1 DEF TypeOK, Read
    <3> QED
      BY <1>1, <2>1, <2>2, <3>1 DEF ReachablePagesFresh
  <2>6. LoadedValuesFresh'
    BY <1>1, <2>1 DEF LoadedValuesFresh
  <2> QED
    BY <1>3, <2>3, <2>4, <2>5, <2>6
<1>8. CASE Return(r) \/ AbortRead(r)
  <2>1. reader'[r].pc = "idle" /\ UNCHANGED entries
    BY <1>8, NoReadType DEF Return, AbortRead, TypeOK
  <2> QED
    BY <1>1, <1>3, <2>1 DEF ReadersBehindVersion, CurrentPagesFresh,
         ReachablePagesFresh, LoadedValuesFresh
<1> QED
  BY <1>3, <1>4, <1>5, <1>6, <1>7, <1>8 DEF ReadStep

(* A write: only Incr moves the version, to one nothing is stored under.   *)
LEMMA WriteKeepsFresh ==
  ASSUME Core, NEW w \in Writers, WriteStep(w)
  PROVE  IncrIsAtomic' /\ Coherent'
<1> USE DEF Core, Coherent
<1>1. /\ version \in Versions /\ acked \in Nat /\ db \in Nat
      /\ \A x \in Writers : writer[x].ticket \in Nat
      /\ \A x \in Readers : reader[x].ver \in Versions /\ reader[x].floor \in Nat
  BY DEF TypeOK, Read, Write, Writes
<1>2. CASE Commit(w)
  <2>1. /\ db' = db + 1 /\ UNCHANGED <<backend, version, entries, reader, acked>>
        /\ \A x \in Writers : \/ writer'[x] = writer[x]
                              \/ writer'[x].pc = "incr" /\ writer'[x].ticket = db'
    BY <1>2 DEF Commit, TypeOK
  <2>2. IncrIsAtomic'
    BY <2>1 DEF IncrIsAtomic
  <2>3. (acked <= db)' /\ (\A x \in Writers : writer[x].ticket <= db)'
    BY <1>1, <2>1
  <2> QED
    BY <2>1, <2>2, <2>3 DEF ReadersBehindVersion, CurrentPagesFresh,
         ReachablePagesFresh, LoadedValuesFresh
<1>3. CASE Incr(w)
  <2>1. /\ version' = version + 1 /\ version + 1 \in Versions
        /\ UNCHANGED <<backend, db, entries, reader>>
    BY <1>1, <1>3 DEF Incr, Versions
  <2>2. /\ acked' \in Nat /\ acked <= acked' /\ acked' <= db
        /\ \A x \in Writers : \/ writer'[x] = writer[x]
                              \/ writer'[x].pc = "idle" /\ writer'[x].ticket = 0
    BY <1>1, <1>3, NoWriteType DEF Incr, Acknowledge, TypeOK
  <2>3. IncrIsAtomic'
    BY <2>2 DEF IncrIsAtomic
  <2>4. (acked <= db)' /\ (\A x \in Writers : writer[x].ticket <= db)'
    BY <1>1, <2>1, <2>2 DEF Versions
  <2>5. ReadersBehindVersion'
    BY <1>1, <2>1, <2>2 DEF ReadersBehindVersion, NamespaceVersion, Versions
  <2>6. CurrentPagesFresh'
    <3>1. /\ version' \in Versions /\ NamespaceVersion(version') = version'
          /\ version' > 1 => NamespaceVersion(version) < version'
          /\ NamespaceVersion(version) <= version'
      BY <1>1, <2>1 DEF NamespaceVersion, Versions
    <3>2. \A v \in Versions, k \in Keys : v > version' => entries[v][k] = None
      BY <1>1, <2>1, <3>1 DEF CurrentPagesFresh, NamespaceVersion, Versions
    <3>3. version' > 1 => \A k \in Keys : entries[version'][k] = None
      BY <3>1 DEF CurrentPagesFresh
    <3>4. version' > 1 =>
            \A x \in Readers : reader[x].pc = "store" => reader[x].ver # version'
      BY <1>1, <2>1, <3>1
      DEF ReadersBehindVersion, NamespaceVersion, Versions
    <3> QED
      BY <2>1, <3>1, <3>2, <3>3, <3>4 DEF CurrentPagesFresh
  <2> QED
    BY <2>1, <2>3, <2>4, <2>5, <2>6 DEF ReachablePagesFresh, LoadedValuesFresh
<1>4. CASE AbortWrite(w)
  <2>1. /\ UNCHANGED <<backend, db, version, entries, reader, acked>>
        /\ \A x \in Writers : \/ writer'[x] = writer[x]
                              \/ writer'[x].pc = "idle" /\ writer'[x].ticket = 0
    BY <1>4, NoWriteType DEF AbortWrite, TypeOK
  <2>2. IncrIsAtomic'
    BY <2>1 DEF IncrIsAtomic
  <2>3. (acked <= db)' /\ (\A x \in Writers : writer[x].ticket <= db)'
    BY <1>1, <2>1
  <2> QED
    BY <2>1, <2>2, <2>3 DEF ReadersBehindVersion, CurrentPagesFresh,
         ReachablePagesFresh, LoadedValuesFresh
<1>5. ~ IncrRead(w) /\ ~ IncrTruncate(w) /\ ~ IncrFill(w)
  BY DEF Core, IncrIsAtomic, IncrRead, IncrTruncate, IncrFill
<1> QED
  BY <1>2, <1>3, <1>4, <1>5 DEF WriteStep

LEMMA ExpiryKeepsFresh ==
  ASSUME Core, NEW v \in Versions, NEW k \in Keys, ExpireEntry(v, k)
  PROVE  IncrIsAtomic' /\ Coherent'
<1>1. /\ UNCHANGED <<backend, db, version, reader, writer, acked>>
      /\ \A u \in Versions, j \in Keys :
           entries'[u][j] = entries[u][j] \/ entries'[u][j] = None
  BY DEF Core, TypeOK, ExpireEntry
<1>2. version \in Versions /\ \A x \in Readers : reader[x].ver \in Versions
  BY DEF Core, TypeOK, Read
<1>3. ReadersBehindVersion' /\ LoadedValuesFresh' /\ IncrIsAtomic'
  BY <1>1 DEF Core, Coherent, ReadersBehindVersion, LoadedValuesFresh,
       IncrIsAtomic
<1>4. CurrentPagesFresh'
  BY <1>1, <1>2 DEF Core, Coherent, CurrentPagesFresh
<1>5. ReachablePagesFresh'
  BY <1>1, <1>2 DEF Core, Coherent, ReachablePagesFresh
<1> QED
  BY <1>1, <1>3, <1>4, <1>5 DEF Core, Coherent

LEMMA FreshInit == Init => FreshInv
<1> SUFFICES ASSUME Init PROVE FreshInv
  OBVIOUS
<1>1. TypeOK
  BY TypeInit
<1>2. /\ version = 0 /\ db = 0 /\ acked = 0
      /\ \A r \in Readers : reader[r].pc = "idle"
      /\ \A w \in Writers : writer[w].pc = "idle" /\ writer[w].ticket = 0
      /\ \A v \in Versions, k \in Keys : entries[v][k] = None
      /\ version \in Versions
  BY NoReadType, NoWriteType DEF Init, Versions
<1>3. ReadersBehindVersion /\ ReachablePagesFresh /\ LoadedValuesFresh
  BY <1>2 DEF ReadersBehindVersion, ReachablePagesFresh, LoadedValuesFresh
<1>4. CurrentPagesFresh
  BY <1>2 DEF CurrentPagesFresh
<1>5. IncrIsAtomic /\ \A w \in Writers : writer[w].ticket <= db
  BY <1>2 DEF IncrIsAtomic
<1> QED
  BY <1>1, <1>2, <1>3, <1>4, <1>5 DEF FreshInv, Core, Coherent

LEMMA BackendStays == [Next]_vars => backend' = backend
BY DEF Next, vars, BeginRead, ReadStep, Lookup, Load, Store, Return, AbortRead,
   WriteStep, Commit, Incr, IncrRead, IncrTruncate, IncrFill, AbortWrite,
   ExpireEntry

LEMMA CoreStep == Core /\ [Next]_vars => Core'
<1> SUFFICES ASSUME Core, [Next]_vars PROVE Core'
  OBVIOUS
<1>0. TypeOK' /\ backend' = "redis"
  BY TypeStep, BackendStays DEF Core
<1>1. CASE Next
  <2>1. ASSUME NEW r \in Readers,
               ReadStep(r) \/ AbortRead(r) \/ \E k \in Keys : BeginRead(r, k)
        PROVE  Core'
    BY <1>0, <2>1, ReadKeepsFresh DEF Core
  <2>2. ASSUME NEW w \in Writers, WriteStep(w) PROVE Core'
    BY <1>0, <2>2, WriteKeepsFresh DEF Core
  <2>3. ASSUME NEW v \in Versions, NEW k \in Keys, ExpireEntry(v, k)
        PROVE  Core'
    BY <1>0, <2>3, ExpiryKeepsFresh DEF Core
  <2> QED
    BY <1>1, <2>1, <2>2, <2>3 DEF Next
<1>2. CASE UNCHANGED vars
  BY <1>2 DEF vars, Core, TypeOK, IncrIsAtomic, Coherent,
       ReadersBehindVersion, CurrentPagesFresh, ReachablePagesFresh,
       LoadedValuesFresh
<1> QED
  BY <1>1, <1>2

LEMMA FreshStep == FreshInv /\ [Next]_vars => FreshInv'
BY TypeStep, BackendStays, CoreStep DEF FreshInv

(* Under Redis every page a read can still reach is recent enough for that *)
(* read, past version 1 (rememberVersioned against invalidateNamespace).   *)
THEOREM PagesFresh == Spec => []PagesAreFresh
<1>1. FreshInv => PagesAreFresh
  BY DEF FreshInv, Core, PagesAreFresh
<1> QED
  BY <1>1, FreshInit, FreshStep, PTL DEF Spec

(* Read your writes: a read that starts after a write was answered returns *)
(* a value that reflects it, from the second invalidation on.              *)
THEOREM ReadYourWrites == Spec => []ReadsAreFresh
<1>1. PagesAreFresh => ReadsAreFresh
  BY DEF PagesAreFresh, Coherent, LoadedValuesFresh, ReadsAreFresh
<1> QED
  BY <1>1, PagesFresh, PTL
=============================================================================
