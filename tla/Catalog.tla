------------------------------ MODULE Catalog ------------------------------
(***************************************************************************)
(* Organizations and the brands assigned to them:                          *)
(* organizations.service.ts and brands.service.ts, whose requests read and *)
(* write both tables in separate awaits.  Rows are soft-deleted, so the    *)
(* foreign key of a brand to its organization always has its row; nothing  *)
(* in the database relates a brand to its parent.                          *)
(*                                                                         *)
(* Codes and the other columns are in ManagedTable.                        *)
(***************************************************************************)
EXTENDS RequestSlots

CONSTANTS Organizations, Brands

VARIABLES
  organization,  \* [Organizations -> {"new", "live", "deleted"}]
  brand,         \* [Brands -> Row or None]
  removed,       \* the brands whose row has deleted_at set
  placed         \* history: <<b, o>> for every organization o that b had

vars == <<organization, brand, removed, req, serial, placed>>

Row == [org: Organizations, parent: Brands \cup {None}]

ASSUME CatalogAssumption ==
  None \notin Organizations /\ None \notin Brands /\ None \notin Row

(* A request: its await, the organization or the brand it works on (brand  *)
(* None: a create) and the brand entity in memory.                         *)
Request == [pc: {"idle", "org.save", "org.count", "org.remove", "brand.org",
                 "brand.parent", "brand.save", "brand.remove"},
            org: Organizations \cup {None}, brand: Brands \cup {None},
            row: Row \cup {None}]

Idle == [pc |-> "idle", org |-> None, brand |-> None, row |-> None]

Init ==
  /\ organization = [o \in Organizations |-> "new"]
  /\ brand = [b \in Brands |-> None]
  /\ removed = {}
  /\ req = [r \in Requests |-> Idle]
  /\ placed = {}
  /\ serial \in BOOLEAN

LiveBrand(b) == brand[b] # None /\ b \notin removed

Move(r, from, to) == req[r].pc = from /\ req' = [req EXCEPT ![r].pc = to]

Finish(r, from) == req[r].pc = from /\ req' = [req EXCEPT ![r] = Idle]

-----------------------------------------------------------------------------
(* Organizations.                                                          *)

CreateOrganization(o) ==
  /\ organization[o] = "new"
  /\ organization' = [organization EXCEPT ![o] = "live"]
  /\ UNCHANGED <<brand, removed, req, serial, placed>>

(* findByIdOrFail, for an update or a removal.                             *)
FindOrganization(r, o) ==
  /\ Begin(r) /\ organization[o] = "live"
  /\ \E pc \in {"org.save", "org.count"} :
       req' = [req EXCEPT ![r] = [Idle EXCEPT !.pc = pc, !.org = o]]
  /\ UNCHANGED <<organization, brand, removed, serial, placed>>

(* save(organization): the entity in memory has no deleted_at.             *)
SaveOrganization(r) ==
  /\ Finish(r, "org.save")
  /\ organization' = [organization EXCEPT ![req[r].org] = "live"]
  /\ UNCHANGED <<brand, removed, serial, placed>>

(* Mutant: the count is not looked at.                                     *)
CountBrands_Ignored(r) ==
  /\ Move(r, "org.count", "org.remove")
  /\ UNCHANGED <<organization, brand, removed, serial, placed>>

CountBrands(r) ==
  /\ Move(r, "org.count", "org.remove")
  /\ ~ \E b \in Brands : LiveBrand(b) /\ brand[b].org = req[r].org
  /\ UNCHANGED <<organization, brand, removed, serial, placed>>

RemoveOrganization(r) ==
  /\ Finish(r, "org.remove")
  /\ organization' = [organization EXCEPT ![req[r].org] = "deleted"]
  /\ UNCHANGED <<brand, removed, serial, placed>>

-----------------------------------------------------------------------------
(* Brands.                                                                 *)

BeginCreateBrand(r, row) ==
  /\ Begin(r)
  /\ req' = [req EXCEPT ![r] = [Idle EXCEPT !.pc = "brand.org", !.row = row]]
  /\ UNCHANGED <<organization, brand, removed, serial, placed>>

(* update: row is the entity with the request's fields set.  The new       *)
(* organization is looked up only if it differs from the one read.         *)
BeginUpdateBrand(r, b, row) ==
  /\ Begin(r) /\ LiveBrand(b)
  /\ req' = [req EXCEPT ![r] =
               [Idle EXCEPT !.pc = IF row.org # brand[b].org THEN "brand.org"
                                   ELSE "brand.parent",
                            !.brand = b, !.row = row]]
  /\ UNCHANGED <<organization, brand, removed, serial, placed>>

EnsureOrganizationExists(r) ==
  /\ Move(r, "brand.org", "brand.parent")
  /\ organization[req[r].row.org] = "live"
  /\ UNCHANGED <<organization, brand, removed, serial, placed>>

(* Mutant: the parent is compared with the organization that the brand had *)
(* before the update.                                                      *)
ValidateParentBrand_OldOrganization(r) ==
  /\ Move(r, "brand.parent", "brand.save")
  /\ LET p == req[r].row.parent
         old == IF req[r].brand = None THEN req[r].row.org
                ELSE brand[req[r].brand].org IN
       p # None => p # req[r].brand /\ LiveBrand(p) /\ brand[p].org = old
  /\ UNCHANGED <<organization, brand, removed, serial, placed>>

ValidateParentBrand(r) ==
  /\ Move(r, "brand.parent", "brand.save")
  /\ LET p == req[r].row.parent IN
       p # None => /\ p # req[r].brand
                   /\ LiveBrand(p) /\ brand[p].org = req[r].row.org
  /\ UNCHANGED <<organization, brand, removed, serial, placed>>

(* save(brand): an insert under a new id, or the whole entity written back *)
(* to its row, which undeletes it.                                         *)
SaveBrand(r) ==
  /\ Finish(r, "brand.save")
  /\ \E b \in Brands :
       /\ IF req[r].brand = None THEN brand[b] = None ELSE b = req[r].brand
       /\ brand' = [brand EXCEPT ![b] = req[r].row]
       /\ removed' = removed \ {b}
       /\ placed' = placed \cup {<<b, req[r].row.org>>}
  /\ UNCHANGED <<organization, serial>>

(* Mutant: a missing brand is not reported.                                *)
FindBrand_NoNotFound(r, b) ==
  /\ Begin(r)
  /\ req' = [req EXCEPT ![r] = [Idle EXCEPT !.pc = "brand.remove", !.brand = b]]
  /\ UNCHANGED <<organization, brand, removed, serial, placed>>

FindBrand(r, b) ==
  /\ Begin(r) /\ LiveBrand(b)
  /\ req' = [req EXCEPT ![r] = [Idle EXCEPT !.pc = "brand.remove", !.brand = b]]
  /\ UNCHANGED <<organization, brand, removed, serial, placed>>

RemoveBrand(r) ==
  /\ Finish(r, "brand.remove")
  /\ removed' = removed \cup {req[r].brand}
  /\ UNCHANGED <<organization, brand, serial, placed>>

(* A check that throws, any other error, or the end of the process.        *)
Abort(r) ==
  /\ req[r].pc # "idle"
  /\ req' = [req EXCEPT ![r] = Idle]
  /\ UNCHANGED <<organization, brand, removed, serial, placed>>

-----------------------------------------------------------------------------
OrganizationStep(r) ==
  \/ \E o \in Organizations : FindOrganization(r, o)
  \/ SaveOrganization(r) \/ CountBrands(r) \/ RemoveOrganization(r)

BrandStep(r) ==
  \/ \E row \in Row : \/ BeginCreateBrand(r, row)
                      \/ \E b \in Brands : BeginUpdateBrand(r, b, row)
  \/ EnsureOrganizationExists(r) \/ ValidateParentBrand(r) \/ SaveBrand(r)
  \/ \E b \in Brands : FindBrand(r, b)
  \/ RemoveBrand(r)

Next ==
  \/ \E o \in Organizations : CreateOrganization(o)
  \/ \E r \in Requests : OrganizationStep(r) \/ BrandStep(r) \/ Abort(r)

Spec == Init /\ [][Next]_vars

-----------------------------------------------------------------------------
(* Type invariant: every variable keeps its shape, and a request at an     *)
(* await that works on an organization, a brand or an entity has one.      *)
TypeOK ==
  /\ organization \in [Organizations -> {"new", "live", "deleted"}]
  /\ brand \in [Brands -> Row \cup {None}]
  /\ removed \subseteq {b \in Brands : brand[b] # None}
  /\ req \in [Requests -> Request]
  /\ serial \in BOOLEAN
  /\ placed \subseteq Brands \X Organizations
  /\ \A r \in Requests :
       /\ req[r].pc \in {"org.save", "org.count", "org.remove"} => req[r].org # None
       /\ req[r].pc \in {"brand.org", "brand.parent", "brand.save"}
            => req[r].row # None
       /\ req[r].pc = "brand.remove" => req[r].brand # None
       /\ req[r].brand # None => brand[req[r].brand] # None

(* Every link to a parent was made with a parent that had, at some time,   *)
(* the organization the brand has now, and that is another brand, however  *)
(* creates, moves and removals overlap (validateParentBrand).              *)
LinkChecked(b, row) ==
  row.parent # None => row.parent # b /\ <<row.parent, row.org>> \in placed

LinksWereChecked ==
  /\ \A b \in Brands : brand[b] # None => LinkChecked(b, brand[b])
  /\ \A r \in Requests :
       req[r].pc = "brand.save" => LinkChecked(req[r].brand, req[r].row)

(* "Organization cannot be deleted while brands are assigned to it": the   *)
(* organization of a brand is not deleted, as long as requests do not      *)
(* overlap.                                                                *)
BrandsHaveOrganization ==
  serial => \A b \in Brands : LiveBrand(b) => organization[brand[b].org] = "live"
=============================================================================
