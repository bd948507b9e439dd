---------------------------- MODULE ManagedTable ----------------------------
(***************************************************************************)
(* One soft-deleted table with a unique key, as organizations (code),      *)
(* brands (code) and companies (company_symbol) are kept by their          *)
(* services: create, update and remove, each a sequence of awaits on       *)
(* PostgreSQL.  findOne never returns a soft-deleted row; save(entity)     *)
(* writes the whole entity back, deleted_at included; softRemove writes    *)
(* deleted_at only.  A partial unique index keeps the keys of the rows     *)
(* that are not deleted apart.                                             *)
(*                                                                         *)
(* The columns besides the key are one abstract value.  What links brands  *)
(* to organizations is in Catalog, the cached reads are in VersionedCache. *)
(***************************************************************************)

EXTENDS RequestSlots

CONSTANTS Ids, Keys, Values

ASSUME TableAssumption == None \notin Ids /\ None \notin [key: Keys, value: Values]

VARIABLES
  table,    \* [Ids -> TableRow or None]
  deleted   \* the ids whose row has deleted_at set

tableVars == <<table, deleted, req, serial>>

TableRow == [key: Keys, value: Values]
Fields   == {"key", "value"}

(* A request: its await, the id it works on (None: a create), the entity   *)
(* in memory, and the fields its caller sets.                              *)
TableRequest == [pc: {"idle", "check", "save", "remove"}, id: Ids \cup {None},
                 row: TableRow \cup {None}, sets: SUBSET Fields]

TableIdle == [pc |-> "idle", id |-> None, row |-> None, sets |-> {}]

TableInit ==
  /\ table = [i \in Ids |-> None]
  /\ deleted = {}
  /\ req = [r \in Requests |-> TableIdle]
  /\ serial \in BOOLEAN

Live(i) == table[i] # None /\ i \notin deleted

(* A live row other than that of id i has the key.                         *)
Taken(k, i) == \E j \in Ids : j # i /\ Live(j) /\ table[j].key = k

TableFinish(r) == req' = [req EXCEPT ![r] = TableIdle]

-----------------------------------------------------------------------------
BeginCreate(r, row) ==
  /\ Begin(r)
  /\ req' = [req EXCEPT ![r] =
               [pc |-> "check", id |-> None, row |-> row, sets |-> Fields]]
  /\ UNCHANGED <<table, deleted, serial>>

(* The entity that an update reads, with the fields of its request set.    *)
Merge(old, new, sets) ==
  [key   |-> IF "key" \in sets THEN new.key ELSE old.key,
   value |-> IF "value" \in sets THEN new.value ELSE old.value]

(* Mutants: the row is read with the soft-deleted ones; a field the caller *)
(* leaves out is reset; a new key is not checked.                          *)
BeginUpdate_WithDeleted(r, i, new, sets) ==
  /\ Begin(r) /\ table[i] # None
  /\ LET row == Merge(table[i], new, sets) IN
       req' = [req EXCEPT ![r] =
                 [pc |-> IF row.key # table[i].key THEN "check" ELSE "save",
                  id |-> i, row |-> row, sets |-> sets]]
  /\ UNCHANGED <<table, deleted, serial>>

BeginUpdate_ResetsFields(r, i, new, sets) ==
  /\ Begin(r) /\ Live(i)
  /\ LET row == [Merge(table[i], new, sets) EXCEPT !.value = new.value] IN
       req' = [req EXCEPT ![r] =
                 [pc |-> IF row.key # table[i].key THEN "check" ELSE "save",
                  id |-> i, row |-> row, sets |-> sets]]
  /\ UNCHANGED <<table, deleted, serial>>

BeginUpdate_NoCheck(r, i, new, sets) ==
  /\ Begin(r) /\ Live(i)
  /\ req' = [req EXCEPT ![r] =
               [pc |-> "save", id |-> i, row |-> Merge(table[i], new, sets),
                sets |-> sets]]
  /\ UNCHANGED <<table, deleted, serial>>

(* update: findByIdOrFail, and a check of the key only if it changes.      *)
BeginUpdate(r, i, new, sets) ==
  /\ Begin(r) /\ Live(i)
  /\ LET row == Merge(table[i], new, sets) IN
       req' = [req EXCEPT ![r] =
                 [pc |-> IF row.key # table[i].key THEN "check" ELSE "save",
                  id |-> i, row |-> row, sets |-> sets]]
  /\ UNCHANGED <<table, deleted, serial>>

(* ensureSymbolIsUnique, ensureCodeIsUnique; when it throws the request is *)
(* over (TableAbort).                                                      *)
CheckKey(r) ==
  /\ req[r].pc = "check"
  /\ ~ Taken(req[r].row.key, req[r].id)
  /\ req' = [req EXCEPT ![r].pc = "save"]
  /\ UNCHANGED <<table, deleted, serial>>

(* Mutant: the unique index is not there.                                  *)
Save_NoIndex(r) ==
  /\ req[r].pc = "save"
  /\ \E i \in Ids :
       /\ IF req[r].id = None THEN table[i] = None ELSE i = req[r].id
       /\ table' = [table EXCEPT ![i] = req[r].row]
       /\ deleted' = deleted \ {i}
  /\ TableFinish(r)
  /\ UNCHANGED serial

(* save: an insert under a new id or an update.  The index refuses a key   *)
(* that is taken; the request then fails with an unhandled error, as       *)
(* TableAbort says.                                                        *)
Save(r) ==
  /\ req[r].pc = "save"
  /\ \E i \in Ids :
       /\ IF req[r].id = None THEN table[i] = None ELSE i = req[r].id
       /\ ~ Taken(req[r].row.key, i)
       /\ table' = [table EXCEPT ![i] = req[r].row]
       /\ deleted' = deleted \ {i}
  /\ TableFinish(r)
  /\ UNCHANGED serial

(* Mutant: a missing row is not reported.                                  *)
BeginRemove_NoNotFound(r, i) ==
  /\ Begin(r)
  /\ req' = [req EXCEPT ![r] = [TableIdle EXCEPT !.pc = "remove", !.id = i]]
  /\ UNCHANGED <<table, deleted, serial>>

BeginRemove(r, i) ==
  /\ Begin(r) /\ Live(i)
  /\ req' = [req EXCEPT ![r] = [TableIdle EXCEPT !.pc = "remove", !.id = i]]
  /\ UNCHANGED <<table, deleted, serial>>

SoftRemove(r) ==
  /\ req[r].pc = "remove"
  /\ deleted' = deleted \cup {req[r].id}
  /\ TableFinish(r)
  /\ UNCHANGED <<table, serial>>

(* A refused key, any other error, or the end of the process.              *)
TableAbort(r) ==
  /\ req[r].pc # "idle"
  /\ TableFinish(r)
  /\ UNCHANGED <<table, deleted, serial>>

TableStep(r) ==
  \/ \E row \in TableRow : BeginCreate(r, row)
  \/ \E i \in Ids, new \in TableRow, sets \in SUBSET Fields :
       BeginUpdate(r, i, new, sets)
  \/ \E i \in Ids : BeginRemove(r, i)
  \/ CheckKey(r) \/ Save(r) \/ SoftRemove(r) \/ TableAbort(r)

TableNext == \E r \in Requests : TableStep(r)

TableSpec == TableInit /\ [][TableNext]_tableVars

-----------------------------------------------------------------------------
(* Type invariant: every variable keeps its shape; what is about to be     *)
(* saved is an entity, and what is updated or removed has a row.           *)
TableTypeOK ==
  /\ table \in [Ids -> TableRow \cup {None}]
  /\ deleted \subseteq {i \in Ids : table[i] # None}
  /\ req \in [Requests -> TableRequest]
  /\ serial \in BOOLEAN
  /\ \A r \in Requests :
       /\ req[r].pc \in {"check", "save"} => req[r].row # None
       /\ req[r].pc = "remove" => req[r].id # None
       /\ req[r].id # None => table[req[r].id] # None

(* Two rows that are not deleted never have the same key, though the check *)
(* and the save are separate awaits and a stale save may bring a deleted   *)
(* row back (ensureCodeIsUnique, IDX_*_active_unique).                     *)
UniqueKeys ==
  \A i, j \in Ids : Live(i) /\ Live(j) /\ table[i].key = table[j].key => i = j

(* remove "Deletes a company record": a removed row does not come back, as *)
(* long as requests do not overlap.                                        *)
DeletedStaysDeleted == [][serial => deleted \subseteq deleted']_tableVars

(* update changes the fields its caller sets and no other, in the row as   *)
(* it is when it is saved, as long as requests do not overlap.             *)
UpdatesOnlyWhatIsSet ==
  [][serial => \A i \in Ids : table[i] # None /\ table'[i] # table[i] =>
       \E r \in Requests :
         /\ req[r].pc = "save" /\ req'[r].pc = "idle" /\ req[r].id = i
         /\ table'[i] = Merge(table[i], table'[i], req[r].sets)]_tableVars

(* A key that was checked is still free when the row is saved, so that a   *)
(* duplicate is answered with 409 and never with a database error, as long *)
(* as requests do not overlap.                                             *)
CheckedKeysAreFree ==
  serial => \A r \in Requests :
    req[r].pc = "save" => ~ Taken(req[r].row.key, req[r].id)
=============================================================================
