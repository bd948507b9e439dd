---------------------------- MODULE CatalogProofs ----------------------------
(***************************************************************************)
(* Proofs about Catalog, for any organizations, brands and requests, and   *)
(* then about ManagedTable, for any ids, keys, values and requests.  The   *)
(* theorems named Serial... are about behaviours whose requests do not     *)
(* overlap.                                                                *)
(***************************************************************************)
EXTENDS Catalog, ManagedTable, TLAPS

USE CatalogAssumption

-----------------------------------------------------------------------------
(* Type correctness.                                                       *)

LEMMA IdleType ==
  /\ Idle \in Request /\ Idle.pc = "idle" /\ Idle.org = None
  /\ Idle.brand = None /\ Idle.row = None
BY DEF Idle, Request

(* What a request in progress holds.                                       *)
Sound(q) ==
  /\ q \in Request
  /\ q.pc \in {"org.save", "org.count", "org.remove"} => q.org # None
  /\ q.pc \in {"brand.org", "brand.parent", "brand.save"} => q.row # None
  /\ q.pc = "brand.remove" => q.brand # None
  /\ q.brand # None => brand[q.brand] # None

LEMMA AllSound == TypeOK => \A r \in Requests : Sound(req[r])
BY DEF TypeOK, Sound

LEMMA Replace ==
  ASSUME TypeOK, NEW r \in Requests, NEW q, Sound(q),
         req' = [req EXCEPT ![r] = q]
  PROVE  /\ req' \in [Requests -> Request] /\ req'[r] = q
         /\ \A x \in Requests : x # r => req'[x] = req[x]
         /\ \A x \in Requests : Sound(req'[x])
BY AllSound DEF TypeOK, Sound

(* A step of a request changes that request only, to a sound one; the      *)
(* alternatives are what the other lemmas need to know of it.              *)
LEMMA RequestEffect ==
  ASSUME TypeOK, NEW r \in Requests, OrganizationStep(r) \/ BrandStep(r) \/ Abort(r)
  PROVE  /\ req' \in [Requests -> Request]
         /\ \A x \in Requests : x # r => req'[x] = req[x]
         /\ \A x \in Requests : Sound(req'[x])
         /\ \/ req'[r] = Idle
            \/ req'[r].pc \in {"org.save", "org.count", "brand.org", "brand.remove"}
            \/ /\ CountBrands(r) /\ req'[r].org = req[r].org
               /\ req'[r].pc = "org.remove"
            \/ \E b \in Brands, row \in Row :
                 /\ BeginUpdateBrand(r, b, row) /\ req'[r].row = row
                 /\ req'[r].pc = "brand.parent" /\ row.org = brand[b].org
            \/ /\ EnsureOrganizationExists(r) /\ req'[r].row = req[r].row
               /\ req'[r].pc = "brand.parent"
            \/ /\ ValidateParentBrand(r) /\ req'[r].row = req[r].row
               /\ req'[r].brand = req[r].brand /\ req'[r].pc = "brand.save"
<1>1. Sound(req[r]) /\ req[r] \in Request
  BY AllSound DEF TypeOK
<1>2. Sound(Idle)
  BY IdleType DEF Sound
<1>3. CASE req' = [req EXCEPT ![r] = Idle]
  BY <1>2, <1>3, Replace
<1>4. ASSUME NEW o \in Organizations, FindOrganization(r, o)
      PROVE  \E q : /\ Sound(q) /\ req' = [req EXCEPT ![r] = q]
                    /\ q.pc \in {"org.save", "org.count"}
  <2>1. PICK pc \in {"org.save", "org.count"} :
          req' = [req EXCEPT ![r] = [Idle EXCEPT !.pc = pc, !.org = o]]
    BY <1>4 DEF FindOrganization
  <2> DEFINE q == [Idle EXCEPT !.pc = pc, !.org = o]
  <2>2. q \in Request /\ q.pc = pc /\ q.org = o /\ q.brand = None
    BY IdleType DEF Request
  <2> HIDE DEF q
  <2>3. Sound(q)
    BY <2>2 DEF Sound
  <2> QED
    BY <2>1, <2>2, <2>3 DEF q
<1>5. ASSUME NEW row \in Row, BeginCreateBrand(r, row)
      PROVE  \E q : Sound(q) /\ req' = [req EXCEPT ![r] = q] /\ q.pc = "brand.org"
  <2> DEFINE q == [Idle EXCEPT !.pc = "brand.org", !.row = row]
  <2>1. q \in Request /\ q.pc = "brand.org" /\ q.row = row /\ q.brand = None
    BY IdleType DEF Request
  <2>2. req' = [req EXCEPT ![r] = q]
    BY <1>5 DEF BeginCreateBrand
  <2> HIDE DEF q
  <2>3. Sound(q)
    BY <2>1 DEF Sound
  <2> QED
    BY <2>1, <2>2, <2>3
<1>6. ASSUME NEW b \in Brands, NEW row \in Row, BeginUpdateBrand(r, b, row)
      PROVE  \E q : /\ Sound(q) /\ req' = [req EXCEPT ![r] = q] /\ q.row = row
                    /\ \/ q.pc = "brand.org"
                       \/ q.pc = "brand.parent" /\ row.org = brand[b].org
  <2> DEFINE pc == IF row.org # brand[b].org THEN "brand.org" ELSE "brand.parent"
             q == [Idle EXCEPT !.pc = pc, !.brand = b, !.row = row]
  <2>1. q \in Request /\ q.pc = pc /\ q.row = row /\ q.brand = b
    BY IdleType DEF Request
  <2>2. req' = [req EXCEPT ![r] = q] /\ brand[b] # None
    BY <1>6 DEF BeginUpdateBrand, LiveBrand
  <2> HIDE DEF q
  <2>3. Sound(q)
    BY <2>1, <2>2 DEF Sound
  <2> QED
    BY <2>1, <2>2, <2>3
<1>7. ASSUME NEW b \in Brands, FindBrand(r, b)
      PROVE  \E q : /\ Sound(q) /\ req' = [req EXCEPT ![r] = q]
                    /\ q.pc = "brand.remove"
  <2> DEFINE q == [Idle EXCEPT !.pc = "brand.remove", !.brand = b]
  <2>1. q \in Request /\ q.pc = "brand.remove" /\ q.brand = b
    BY IdleType DEF Request
  <2>2. req' = [req EXCEPT ![r] = q] /\ brand[b] # None
    BY <1>7 DEF FindBrand, LiveBrand
  <2> HIDE DEF q
  <2>3. Sound(q)
    BY <2>1, <2>2 DEF Sound
  <2> QED
    BY <2>1, <2>2, <2>3
<1>8. ASSUME NEW from, NEW to, Move(r, from, to),
             \/ from = "org.count" /\ to = "org.remove"
             \/ from = "brand.org" /\ to = "brand.parent"
             \/ from = "brand.parent" /\ to = "brand.save"
      PROVE  \E q : /\ Sound(q) /\ req' = [req EXCEPT ![r] = q] /\ q.pc = to
                    /\ q.org = req[r].org /\ q.row = req[r].row
                    /\ q.brand = req[r].brand
  <2> DEFINE q == [req[r] EXCEPT !.pc = to]
  <2>1. /\ q \in Request /\ q.pc = to /\ q.org = req[r].org
        /\ q.row = req[r].row /\ q.brand = req[r].brand
    BY <1>1, <1>8 DEF Request
  <2>2. req' = [req EXCEPT ![r] = q] /\ req[r].pc = from
    BY <1>8 DEF Move, TypeOK
  <2> HIDE DEF q
  <2>3. Sound(q)
    BY <1>1, <1>8, <2>1, <2>2 DEF Sound
  <2> QED
    BY <2>1, <2>2, <2>3
<1>9. CASE CountBrands(r)
  BY <1>8, <1>9, Replace DEF CountBrands
<1>10. CASE EnsureOrganizationExists(r)
  BY <1>8, <1>10, Replace DEF EnsureOrganizationExists
<1>11. CASE ValidateParentBrand(r)
  BY <1>8, <1>11, Replace DEF ValidateParentBrand
<1>12. CASE SaveOrganization(r) \/ RemoveOrganization(r) \/ SaveBrand(r)
              \/ RemoveBrand(r) \/ Abort(r)
  BY <1>3, <1>12 DEF SaveOrganization, RemoveOrganization, SaveBrand, RemoveBrand,
     Abort, Finish
<1>13. ASSUME NEW b \in Brands, NEW row \in Row, BeginUpdateBrand(r, b, row)
       PROVE  /\ req' \in [Requests -> Request]
              /\ \A x \in Requests : x # r => req'[x] = req[x]
              /\ \A x \in Requests : Sound(req'[x])
              /\ \/ req'[r].pc = "brand.org"
                 \/ /\ req'[r].pc = "brand.parent" /\ row.org = brand[b].org
                    /\ req'[r].row = row
  BY <1>6, <1>13, Replace
<1> QED
  BY <1>4, <1>5, <1>7, <1>9, <1>10, <1>11, <1>12, <1>13, Replace
     DEF OrganizationStep, BrandStep

(* The tables change in the saves and the removals only, and a row of a    *)
(* brand never goes away.                                                  *)
LEMMA TablesEffect ==
  ASSUME TypeOK, NEW r \in Requests, OrganizationStep(r) \/ BrandStep(r) \/ Abort(r)
  PROVE  /\ organization' \in [Organizations -> {"new", "live", "deleted"}]
         /\ brand' \in [Brands -> Row \cup {None}]
         /\ removed' \subseteq {b \in Brands : brand'[b] # None}
         /\ placed' \subseteq Brands \X Organizations
         /\ serial' = serial
         /\ \A b \in Brands : brand[b] # None => brand'[b] # None
<1>1. Sound(req[r]) /\ req[r] \in Request
  BY AllSound DEF TypeOK
<1>2. CASE SaveBrand(r)
  <2>1. req[r].pc = "brand.save" /\ req[r].row # None /\ req[r].row \in Row
    BY <1>1, <1>2 DEF SaveBrand, Finish, Sound, Request
  <2>2. req[r].row.org \in Organizations
    BY <2>1 DEF Row
  <2>3. PICK b \in Brands :
          /\ brand' = [brand EXCEPT ![b] = req[r].row]
          /\ removed' = removed \ {b}
          /\ placed' = placed \cup {<<b, req[r].row.org>>}
    BY <1>2 DEF SaveBrand
  <2>4. \A c \in Brands : brand'[c] = IF c = b THEN req[r].row ELSE brand[c]
    BY <2>3 DEF TypeOK
  <2>5. UNCHANGED <<organization, serial>>
    BY <1>2 DEF SaveBrand
  <2> QED
    BY <2>1, <2>2, <2>3, <2>4, <2>5 DEF TypeOK
<1>3. CASE SaveOrganization(r) \/ RemoveOrganization(r)
  BY <1>3 DEF SaveOrganization, RemoveOrganization, TypeOK
<1>4. CASE RemoveBrand(r)
  <2>1. req[r].pc = "brand.remove" /\ req[r].brand \in Brands
        /\ brand[req[r].brand] # None
    BY <1>1, <1>4 DEF RemoveBrand, Finish, Sound, Request
  <2> QED
    BY <1>4, <2>1 DEF RemoveBrand, TypeOK
<1>5. ASSUME UNCHANGED <<organization, brand, removed, serial, placed>>
      PROVE  /\ organization' \in [Organizations -> {"new", "live", "deleted"}]
             /\ brand' \in [Brands -> Row \cup {None}]
             /\ removed' \subseteq {b \in Brands : brand'[b] # None}
             /\ placed' \subseteq Brands \X Organizations
             /\ serial' = serial
             /\ \A b \in Brands : brand[b] # None => brand'[b] # None
  BY <1>5 DEF TypeOK
<1>6. SaveBrand(r) \/ SaveOrganization(r) \/ RemoveOrganization(r) \/ RemoveBrand(r)
        \/ UNCHANGED <<organization, brand, removed, serial, placed>>
  BY DEF OrganizationStep, BrandStep, Abort, FindOrganization, CountBrands,
     BeginCreateBrand, BeginUpdateBrand, EnsureOrganizationExists,
     ValidateParentBrand, FindBrand
<1> QED
  BY <1>2, <1>3, <1>4, <1>5, <1>6

LEMMA TypeInit == Init => TypeOK
BY IdleType DEF Init, TypeOK

LEMMA TypeStep == TypeOK /\ [Next]_vars => TypeOK'
<1> SUFFICES ASSUME TypeOK, [Next]_vars PROVE TypeOK'
  OBVIOUS
<1>1. CASE UNCHANGED vars
  BY <1>1 DEF vars, TypeOK
<1>2. ASSUME NEW o \in Organizations, CreateOrganization(o) PROVE TypeOK'
  BY <1>2 DEF CreateOrganization, TypeOK
<1>3. ASSUME NEW r \in Requests, OrganizationStep(r) \/ BrandStep(r) \/ Abort(r)
      PROVE  TypeOK'
  <2>1. /\ req' \in [Requests -> Request]
        /\ \A x \in Requests : Sound(req'[x])
    BY <1>3, RequestEffect
  <2>2. \A x \in Requests : req'[x].brand \in Brands \cup {None}
    BY <2>1 DEF Request
  <2> QED
    BY <1>3, <2>1, <2>2, TablesEffect DEF TypeOK, Sound
<1> QED
  BY <1>1, <1>2, <1>3 DEF Next

(* The type invariant of Catalog.                                          *)
THEOREM TypeCorrect == Spec => []TypeOK
BY TypeInit, TypeStep, PTL DEF Spec

-----------------------------------------------------------------------------
(* Links to parents.                                                       *)

(* placed is the history that its comment says: it has the organization of *)
(* every brand, and nothing of a brand that has no row.                    *)
PlacedInv ==
  \A b \in Brands :
    /\ brand[b] # None => <<b, brand[b].org>> \in placed
    /\ \A o \in Organizations : <<b, o>> \in placed => brand[b] # None

LinkInv == TypeOK /\ LinksWereChecked /\ PlacedInv

LEMMA LinkStep == LinkInv /\ [Next]_vars => LinkInv'
<1> SUFFICES ASSUME LinkInv, [Next]_vars PROVE LinkInv'
  OBVIOUS
<1>1. TypeOK /\ TypeOK'
  BY TypeStep DEF LinkInv
<1>2. CASE UNCHANGED vars
  BY <1>1, <1>2 DEF vars, LinkInv, LinksWereChecked, LinkChecked, PlacedInv
<1>3. ASSUME NEW o \in Organizations, CreateOrganization(o) PROVE LinkInv'
  BY <1>1, <1>3 DEF CreateOrganization, LinkInv, LinksWereChecked, LinkChecked,
     PlacedInv
<1>4. ASSUME NEW r \in Requests, OrganizationStep(r) \/ BrandStep(r) \/ Abort(r)
      PROVE  LinkInv'
  <2>1. /\ \A x \in Requests : x # r => req'[x] = req[x]
        /\ req'[r].pc = "brand.save"
             => /\ ValidateParentBrand(r) /\ req'[r].row = req[r].row
                /\ req'[r].brand = req[r].brand
    BY <1>1, <1>4, RequestEffect, IdleType
  (* A link that was checked when it was read is checked when it is saved. *)
  <2>2. ASSUME SaveBrand(r)
        PROVE  /\ \A b \in Brands : brand'[b] # None =>
                    /\ brand'[b].parent # None
                         => /\ brand'[b].parent # b
                            /\ <<brand'[b].parent, brand'[b].org>> \in placed'
                    /\ <<b, brand'[b].org>> \in placed'
               /\ placed \subseteq placed'
               /\ \A b \in Brands, o \in Organizations :
                    <<b, o>> \in placed' => brand'[b] # None
    <3> DEFINE row == req[r].row
    <3>1. /\ req[r].pc = "brand.save" /\ row # None /\ row \in Row
          /\ row.org \in Organizations /\ row.parent \in Brands \cup {None}
      BY <1>1, <2>2 DEF SaveBrand, Finish, TypeOK, Request, Row
    <3>2. PICK b \in Brands :
            /\ IF req[r].brand = None THEN brand[b] = None ELSE b = req[r].brand
            /\ brand' = [brand EXCEPT ![b] = row]
            /\ placed' = placed \cup {<<b, row.org>>}
      BY <2>2 DEF SaveBrand
    <3>3. \A c \in Brands : brand'[c] = IF c = b THEN row ELSE brand[c]
      BY <1>1, <3>2 DEF TypeOK
    <3>4. row.parent # None
            => row.parent # req[r].brand /\ <<row.parent, row.org>> \in placed
      BY <3>1 DEF LinkInv, LinksWereChecked, LinkChecked
    <3> HIDE DEF row
    <3>5. row.parent # None => row.parent # b
      BY <3>1, <3>2, <3>4 DEF LinkInv, PlacedInv
    <3>6. \A c \in Brands : c # b /\ brand'[c] # None =>
            /\ brand'[c].parent # None
                 => /\ brand'[c].parent # c
                    /\ <<brand'[c].parent, brand'[c].org>> \in placed'
            /\ <<c, brand'[c].org>> \in placed'
      BY <3>2, <3>3 DEF LinkInv, LinksWereChecked, LinkChecked, PlacedInv
    <3>7. \A c \in Brands, o \in Organizations :
            <<c, o>> \in placed' => brand'[c] # None
      BY <3>1, <3>2, <3>3 DEF LinkInv, PlacedInv
    <3> QED
      BY <3>1, <3>2, <3>3, <3>4, <3>5, <3>6, <3>7
  <2>3. SaveBrand(r) \/ UNCHANGED <<brand, placed>>
    BY <1>4 DEF OrganizationStep, BrandStep, Abort, FindOrganization,
       SaveOrganization, CountBrands, RemoveOrganization, BeginCreateBrand,
       BeginUpdateBrand, EnsureOrganizationExists, ValidateParentBrand,
       FindBrand, RemoveBrand
  <2>4. PlacedInv' /\ placed \subseteq placed'
    BY <2>2, <2>3 DEF LinkInv, PlacedInv
  <2>5. \A b \in Brands : brand'[b] # None => LinkChecked(b, brand[b])'
    BY <2>2, <2>3 DEF LinkInv, LinksWereChecked, LinkChecked
  <2>6. ASSUME req'[r].pc = "brand.save"
        PROVE  LinkChecked(req[r].brand, req[r].row)'
    <3>1. ValidateParentBrand(r) /\ req[r].pc = "brand.parent"
      BY <2>1, <2>6 DEF ValidateParentBrand, Move
    <3>2. req[r].row.parent \in Brands \cup {None}
      BY <1>1, <3>1 DEF TypeOK, Request, Row
    <3>3. req[r].row.parent # None
            => /\ req[r].row.parent # req[r].brand
               /\ <<req[r].row.parent, req[r].row.org>> \in placed
      BY <3>1, <3>2 DEF ValidateParentBrand, LiveBrand, LinkInv, PlacedInv
    <3> QED
      BY <2>1, <2>4, <2>6, <3>3 DEF LinkChecked
  <2>7. \A x \in Requests : req'[x].pc = "brand.save"
          => LinkChecked(req[x].brand, req[x].row)'
    BY <2>1, <2>4, <2>6 DEF LinkInv, LinksWereChecked, LinkChecked
  <2> QED
    BY <1>1, <2>4, <2>5, <2>7 DEF LinkInv, LinksWereChecked
<1> QED
  BY <1>2, <1>3, <1>4 DEF Next

(* However requests overlap, the parent of a brand is another brand that   *)
(* was in the same organization at some time: what validateParentBrand     *)
(* read may be out of date when it is saved, and no worse.                 *)
THEOREM LinksChecked == Spec => []LinksWereChecked
<1>1. Init => LinkInv
  BY TypeInit, IdleType DEF Init, LinkInv, LinksWereChecked, PlacedInv
<1>2. LinkInv => LinksWereChecked
  BY DEF LinkInv
<1> QED
  BY <1>1, <1>2, LinkStep, PTL DEF Spec

-----------------------------------------------------------------------------
(* Requests that do not overlap.                                           *)

(* What a request found in the tables is still so when it acts on it.      *)
ChecksHold ==
  \A r \in Requests :
    /\ req[r].pc = "org.remove"
         => ~ \E b \in Brands : LiveBrand(b) /\ brand[b].org = req[r].org
    /\ req[r].pc \in {"brand.parent", "brand.save"}
         => organization[req[r].row.org] = "live"

SerialInv == TypeOK /\ BrandsHaveOrganization /\ (serial => Alone /\ ChecksHold)

(* The other requests are idle, before a step of a request and after it.   *)
LEMMA OthersIdle ==
  ASSUME SerialInv, serial, NEW r \in Requests,
         OrganizationStep(r) \/ BrandStep(r) \/ Abort(r)
  PROVE  \A x \in Requests : x # r => req[x].pc = "idle" /\ req'[x].pc = "idle"
<1>1. req[r].pc # "idle" \/ \A x \in Requests : req[x].pc = "idle"
  BY DEF OrganizationStep, BrandStep, Abort, FindOrganization, SaveOrganization,
     CountBrands, RemoveOrganization, BeginCreateBrand, BeginUpdateBrand,
     EnsureOrganizationExists, ValidateParentBrand, SaveBrand, FindBrand,
     RemoveBrand, Begin, Move, Finish
<1>2. \A x \in Requests : x # r => req[x].pc = "idle"
  BY <1>1 DEF SerialInv, Alone
<1> QED
  BY <1>2, RequestEffect DEF SerialInv

LEMMA SerialStep == SerialInv /\ [Next]_vars => SerialInv'
<1> SUFFICES ASSUME SerialInv, [Next]_vars PROVE SerialInv'
  OBVIOUS
<1>1. TypeOK /\ TypeOK'
  BY TypeStep DEF SerialInv
<1>2. CASE UNCHANGED vars
  BY <1>1, <1>2 DEF vars, SerialInv, BrandsHaveOrganization, LiveBrand, Alone,
     ChecksHold
<1>3. ASSUME NEW o \in Organizations, CreateOrganization(o) PROVE SerialInv'
  <2>1. \A x \in Organizations : organization[x] = "live" => organization'[x] = "live"
    BY <1>1, <1>3 DEF CreateOrganization, TypeOK
  <2>2. UNCHANGED <<brand, removed, req, serial>>
    BY <1>3 DEF CreateOrganization
  <2>3. \A b \in Brands : brand[b] # None => brand[b].org \in Organizations
    BY <1>1 DEF TypeOK, Row
  <2>4. BrandsHaveOrganization'
    BY <2>1, <2>2, <2>3 DEF SerialInv, BrandsHaveOrganization, LiveBrand
  <2>5. \A r \in Requests : req[r].pc \in {"brand.parent", "brand.save"}
          => req[r].row.org \in Organizations
    BY <1>1 DEF TypeOK, Request, Row
  <2>6. serial' => Alone' /\ ChecksHold'
    BY <2>1, <2>2, <2>5 DEF SerialInv, Alone, ChecksHold, LiveBrand
  <2> QED
    BY <1>1, <2>4, <2>6 DEF SerialInv
<1>4. ASSUME NEW r \in Requests, OrganizationStep(r) \/ BrandStep(r) \/ Abort(r)
      PROVE  SerialInv'
  <2>1. serial' = serial
    BY <1>1, <1>4, TablesEffect
  <2> SUFFICES ASSUME serial PROVE BrandsHaveOrganization' /\ Alone' /\ ChecksHold'
    BY <1>1, <2>1 DEF SerialInv, BrandsHaveOrganization
  <2>2. \A x \in Requests : x # r => req[x].pc = "idle" /\ req'[x].pc = "idle"
    BY <1>4, OthersIdle
  <2>3. Alone'
    BY <2>2 DEF Alone
  <2>4. \A b \in Brands : LiveBrand(b) => organization[brand[b].org] = "live"
    BY DEF SerialInv, BrandsHaveOrganization
  <2>5. \A b \in Brands : brand[b] # None => brand[b].org \in Organizations
    BY <1>1 DEF TypeOK, Row
  <2>6. CASE SaveOrganization(r)
    <3>1. /\ UNCHANGED <<brand, removed>> /\ req'[r] = Idle
          /\ \A o \in Organizations :
               organization[o] = "live" => organization'[o] = "live"
      BY <1>1, <2>6 DEF SaveOrganization, Finish, TypeOK
    <3> QED
      BY <2>1, <2>2, <2>3, <2>4, <2>5, <3>1, IdleType
         DEF BrandsHaveOrganization, LiveBrand, ChecksHold
  <2>7. CASE RemoveOrganization(r)
    <3>1. /\ UNCHANGED <<brand, removed>> /\ req'[r] = Idle
          /\ req[r].pc = "org.remove"
          /\ \A o \in Organizations : o # req[r].org => organization'[o] = organization[o]
      BY <1>1, <2>7 DEF RemoveOrganization, Finish, TypeOK
    <3>2. \A b \in Brands : LiveBrand(b) => brand[b].org # req[r].org
      BY <3>1 DEF SerialInv, ChecksHold
    <3> QED
      BY <2>1, <2>2, <2>3, <2>4, <2>5, <3>1, <3>2, IdleType
         DEF BrandsHaveOrganization, LiveBrand, ChecksHold
  <2>8. CASE SaveBrand(r)
    <3> DEFINE row == req[r].row
    <3>1. /\ req[r].pc = "brand.save" /\ req'[r] = Idle /\ organization' = organization
      BY <1>1, <2>8 DEF SaveBrand, Finish, TypeOK
    <3>2. PICK b \in Brands :
            brand' = [brand EXCEPT ![b] = row] /\ removed' = removed \ {b}
      BY <2>8 DEF SaveBrand
    <3>3. \A c \in Brands : brand'[c] = IF c = b THEN row ELSE brand[c]
      BY <1>1, <3>2 DEF TypeOK
    <3>4. organization[row.org] = "live"
      BY <3>1 DEF SerialInv, ChecksHold
    <3> HIDE DEF row
    <3> QED
      BY <2>1, <2>2, <2>3, <2>4, <3>1, <3>2, <3>3, <3>4, IdleType
         DEF BrandsHaveOrganization, LiveBrand, ChecksHold
  <2>9. CASE RemoveBrand(r)
    <3>1. /\ UNCHANGED <<organization, brand>> /\ req'[r] = Idle
          /\ removed \subseteq removed'
      BY <1>1, <2>9 DEF RemoveBrand, Finish, TypeOK
    <3> QED
      BY <2>1, <2>2, <2>3, <2>4, <3>1, IdleType
         DEF BrandsHaveOrganization, LiveBrand, ChecksHold
  <2>10. CASE UNCHANGED <<organization, brand, removed, serial, placed>>
    <3>1. BrandsHaveOrganization'
      BY <2>4, <2>10 DEF BrandsHaveOrganization, LiveBrand
    <3>2. req'[r].pc = "org.remove"
            => ~ \E b \in Brands : LiveBrand(b) /\ brand[b].org = req'[r].org
      BY <1>1, <1>4, RequestEffect, IdleType DEF CountBrands
    <3>3. ASSUME req'[r].pc \in {"brand.parent", "brand.save"}
          PROVE  organization[req'[r].row.org] = "live"
      <4>1. CASE EnsureOrganizationExists(r) /\ req'[r].row = req[r].row
        BY <4>1 DEF EnsureOrganizationExists
      <4>2. CASE ValidateParentBrand(r) /\ req'[r].row = req[r].row
        BY <4>2 DEF ValidateParentBrand, Move, SerialInv, ChecksHold
      <4>3. CASE \E b \in Brands, row \in Row :
                   /\ BeginUpdateBrand(r, b, row) /\ req'[r].row = row
                   /\ row.org = brand[b].org
        BY <2>4, <4>3 DEF BeginUpdateBrand
      <4> QED
        BY <1>1, <1>4, <3>3, <4>1, <4>2, <4>3, RequestEffect, IdleType
    <3> QED
      BY <2>2, <2>3, <2>10, <3>1, <3>2, <3>3 DEF ChecksHold, LiveBrand
  <2> QED
    BY <1>4, <2>6, <2>7, <2>8, <2>9, <2>10 DEF OrganizationStep, BrandStep, Abort,
       FindOrganization, CountBrands, BeginCreateBrand, BeginUpdateBrand,
       EnsureOrganizationExists, ValidateParentBrand, FindBrand
<1> QED
  BY <1>2, <1>3, <1>4 DEF Next

(* "Organization cannot be deleted while brands are assigned to it", for   *)
(* any number of requests that do not overlap.                             *)
THEOREM SerialBrandsHaveOrganization == Spec => []BrandsHaveOrganization
<1>1. Init => SerialInv
  BY TypeInit, IdleType DEF Init, SerialInv, BrandsHaveOrganization, LiveBrand,
     Alone, ChecksHold
<1>2. SerialInv => BrandsHaveOrganization
  BY DEF SerialInv
<1> QED
  BY <1>1, <1>2, SerialStep, PTL DEF Spec

-----------------------------------------------------------------------------
(* ManagedTable: one table, with the codes and the other columns.  Its     *)
(* specification is of its own: Spec says nothing of table, nor TableSpec  *)
(* of organization and brand.                                              *)

USE TableAssumption DEF TableRow

LEMMA MergeType ==
  ASSUME NEW old \in TableRow, NEW new \in TableRow, NEW sets
  PROVE  Merge(old, new, sets) \in TableRow
BY DEF Merge

LEMMA TableIdleType ==
  /\ TableIdle \in TableRequest /\ TableIdle.pc = "idle"
  /\ TableIdle.id = None /\ TableIdle.row = None
BY DEF TableIdle, TableRequest

(* What each step does to its own request, and that it leaves the others.  *)
LEMMA TableRequestType ==
  ASSUME TableTypeOK, NEW r \in Requests, TableStep(r)
  PROVE  /\ serial' = serial
         /\ req' \in [Requests -> TableRequest]
         /\ \A x \in Requests : x # r => req'[x] = req[x]
         /\ req'[r].pc \in {"check", "save"} => req'[r].row # None
         /\ req'[r].pc = "remove" => req'[r].id # None
         /\ req'[r].id # None => table[req'[r].id] # None
<1> DEFINE Goal(q) ==
      /\ q \in TableRequest
      /\ q.pc \in {"check", "save"} => q.row # None
      /\ q.pc = "remove" => q.id # None
      /\ q.id # None => table[q.id] # None
<1>1. ASSUME NEW q, req' = [req EXCEPT ![r] = q], Goal(q)
      PROVE  /\ req' \in [Requests -> TableRequest]
             /\ \A x \in Requests : x # r => req'[x] = req[x]
             /\ Goal(req'[r])
  BY <1>1 DEF TableTypeOK
<1>2. req[r] \in TableRequest
  BY DEF TableTypeOK
<1>3. serial' = serial
  BY DEF TableStep, BeginCreate, BeginUpdate, BeginRemove,
     CheckKey, Save, SoftRemove, TableAbort
<1>4. ASSUME NEW row \in TableRow, BeginCreate(r, row)
      PROVE  \E q : req' = [req EXCEPT ![r] = q] /\ Goal(q)
  <2> DEFINE q == [pc |-> "check", id |-> None, row |-> row, sets |-> Fields]
  <2>1. q \in TableRequest /\ row # None
    BY DEF TableRequest
  <2>2. Goal(q)
    BY <2>1
  <2>3. req' = [req EXCEPT ![r] = q]
    BY <1>4 DEF BeginCreate
  <2> HIDE DEF q, Goal
  <2> QED
    BY <2>2, <2>3
<1>5. ASSUME NEW i \in Ids, NEW new \in TableRow, NEW sets \in SUBSET Fields,
             BeginUpdate(r, i, new, sets)
      PROVE  \E q : req' = [req EXCEPT ![r] = q] /\ Goal(q)
  <2>1. table[i] \in TableRow /\ table[i] # None
    BY <1>5 DEF BeginUpdate, Live, TableTypeOK
  <2>2. /\ Merge(table[i], new, sets) \in TableRow
        /\ Merge(table[i], new, sets) # None
    BY <2>1, MergeType
  <2>3. ASSUME NEW pc \in {"check", "save"}
        PROVE  Goal([pc |-> pc, id |-> i, row |-> Merge(table[i], new, sets),
                     sets |-> sets])
    BY <2>1, <2>2 DEF TableRequest
  <2> QED
    BY <1>5, <2>3 DEF BeginUpdate
<1>6. ASSUME NEW i \in Ids, BeginRemove(r, i)
      PROVE  \E q : req' = [req EXCEPT ![r] = q] /\ Goal(q)
  <2> DEFINE q == [TableIdle EXCEPT !.pc = "remove", !.id = i]
  <2>1. q \in TableRequest /\ q.pc = "remove" /\ q.id = i
    BY TableIdleType DEF TableRequest
  <2> QED
    BY <1>6, <2>1 DEF BeginRemove, Live
<1>7. CASE CheckKey(r)
  <2> DEFINE q == [req[r] EXCEPT !.pc = "save"]
  <2>1. /\ q \in TableRequest /\ q.pc = "save"
        /\ q.row = req[r].row /\ q.id = req[r].id
    BY <1>2 DEF TableRequest
  <2>2. Goal(q)
    BY <1>7, <2>1 DEF CheckKey, TableTypeOK
  <2>3. req' = [req EXCEPT ![r] = q]
    BY <1>7 DEF CheckKey, TableTypeOK
  <2> QED
    BY <1>1, <2>2, <2>3, <1>3
<1>8. CASE Save(r) \/ SoftRemove(r) \/ TableAbort(r)
  <2>1. req' = [req EXCEPT ![r] = TableIdle]
    BY <1>8 DEF Save, SoftRemove, TableAbort, TableFinish
  <2>2. Goal(TableIdle)
    BY TableIdleType
  <2> QED
    BY <1>1, <2>1, <2>2, <1>3
<1> QED
  BY <1>1, <1>4, <1>5, <1>6, <1>7, <1>8, <1>3 DEF TableStep

(* The steps that write: a save writes one row and may undelete it, a      *)
(* removal only adds to the deleted rows, every other step leaves the      *)
(* table alone.                                                            *)
LEMMA TableWrites ==
  ASSUME TableTypeOK, NEW r \in Requests, TableStep(r)
  PROVE  \/ UNCHANGED <<table, deleted>>
         \/ /\ req[r].pc = "remove" /\ UNCHANGED table
            /\ req[r].id \in Ids /\ deleted' = deleted \cup {req[r].id}
         \/ /\ req[r].pc = "save" /\ req'[r] = TableIdle
            /\ \E i \in Ids :
                 /\ IF req[r].id = None THEN table[i] = None ELSE i = req[r].id
                 /\ ~ Taken(req[r].row.key, i)
                 /\ table' = [table EXCEPT ![i] = req[r].row]
                 /\ deleted' = deleted \ {i}
BY DEF TableStep, BeginCreate, BeginUpdate, BeginRemove, CheckKey,
   Save, SoftRemove, TableAbort, TableFinish, TableTypeOK, TableRequest

LEMMA TableTypeStep == TableTypeOK /\ [TableNext]_(tableVars) => TableTypeOK'
<1> SUFFICES ASSUME TableTypeOK, [TableNext]_(tableVars) PROVE TableTypeOK'
  OBVIOUS
<1>1. ASSUME NEW r \in Requests, TableStep(r) PROVE TableTypeOK'
  <2>1. /\ table' \in [Ids -> TableRow \cup {None}]
        /\ deleted' \subseteq {i \in Ids : table'[i] # None}
        /\ \A i \in Ids : table[i] # None => table'[i] # None
    <3>1. CASE UNCHANGED <<table, deleted>>
      BY <3>1 DEF TableTypeOK
    <3>2. CASE req[r].pc = "remove" /\ UNCHANGED table
               /\ req[r].id \in Ids /\ deleted' = deleted \cup {req[r].id}
      BY <3>2 DEF TableTypeOK
    <3>3. CASE req[r].pc = "save" /\ \E i \in Ids :
                 /\ table' = [table EXCEPT ![i] = req[r].row]
                 /\ deleted' = deleted \ {i}
      <4>1. req[r].row \in TableRow /\ req[r].row # None
        BY <3>3 DEF TableTypeOK, TableRequest
      <4> QED
        BY <3>3, <4>1 DEF TableTypeOK
    <3> QED
      BY <1>1, <3>1, <3>2, <3>3, TableWrites
  <2>2. \A x \in Requests :
          /\ req'[x].pc \in {"check", "save"} => req'[x].row # None
          /\ req'[x].pc = "remove" => req'[x].id # None
          /\ req'[x].id # None => table[req'[x].id] # None
    BY <1>1, TableRequestType DEF TableTypeOK
  <2>3. req' \in [Requests -> TableRequest] /\ serial' \in BOOLEAN
    BY <1>1, TableRequestType DEF TableTypeOK
  <2>4. \A x \in Requests : req'[x].id # None => table'[req'[x].id] # None
    BY <2>1, <2>2, <2>3 DEF TableRequest
  <2> QED
    BY <2>1, <2>2, <2>3, <2>4 DEF TableTypeOK
<1>2. CASE UNCHANGED tableVars
  BY <1>2 DEF tableVars, TableTypeOK
<1> QED
  BY <1>1, <1>2 DEF TableNext

LEMMA TableTypeInit == TableInit => TableTypeOK
BY TableIdleType DEF TableInit, TableTypeOK

(* Every variable keeps its shape, and a row that is updated or removed    *)
(* exists (findByIdOrFail before every save and softRemove).               *)
THEOREM TableTypeCorrect == TableSpec => []TableTypeOK
BY TableTypeInit, TableTypeStep, PTL DEF TableSpec

LEMMA UniqueStep == TableTypeOK /\ UniqueKeys /\ [TableNext]_(tableVars) => UniqueKeys'
<1> SUFFICES ASSUME TableTypeOK, UniqueKeys, [TableNext]_(tableVars)
             PROVE  UniqueKeys'
  OBVIOUS
<1>1. ASSUME NEW r \in Requests, TableStep(r) PROVE UniqueKeys'
  <2>1. CASE UNCHANGED <<table, deleted>>
    BY <2>1 DEF UniqueKeys, Live
  <2>2. CASE UNCHANGED table /\ deleted' = deleted \cup {req[r].id}
    BY <2>2 DEF UniqueKeys, Live
  <2>3. ASSUME NEW i \in Ids, ~ Taken(req[r].row.key, i),
               table' = [table EXCEPT ![i] = req[r].row],
               deleted' = deleted \ {i}
        PROVE  UniqueKeys'
    <3>1. table'[i] = req[r].row
      BY <2>3 DEF TableTypeOK
    <3>2. \A j \in Ids : j # i =>
            table'[j] = table[j] /\ (Live(j)' <=> Live(j))
      BY <2>3 DEF TableTypeOK, Live
    <3>3. \A j \in Ids : j # i /\ Live(j)' => table'[j].key # table'[i].key
      BY <2>3, <3>1, <3>2 DEF Taken
    <3> QED
      BY <3>2, <3>3 DEF UniqueKeys
  <2> QED
    BY <1>1, <2>1, <2>2, <2>3, TableWrites
<1>2. CASE UNCHANGED tableVars
  BY <1>2 DEF tableVars, UniqueKeys, Live
<1> QED
  BY <1>1, <1>2 DEF TableNext

(* The keys of the rows that are not deleted are distinct, however many    *)
(* creates, updates and removes overlap (IDX_*_active_unique).             *)
THEOREM KeysAreUnique == TableSpec => []UniqueKeys
<1>1. TableInit => UniqueKeys
  BY DEF TableInit, UniqueKeys, Live
<1> QED
  BY <1>1, UniqueStep, TableTypeCorrect, PTL DEF TableSpec

-----------------------------------------------------------------------------
(* Requests that do not overlap.                                           *)

(* What a request found when it read is still so: nobody else is there.    *)
ReadStillHolds ==
  \A r \in Requests : req[r].pc # "idle" /\ req[r].id # None =>
    /\ Live(req[r].id)
    /\ req[r].pc \in {"check", "save"} =>
         req[r].row = Merge(table[req[r].id], req[r].row, req[r].sets)

TableSerialInv ==
  /\ TableTypeOK /\ UniqueKeys /\ CheckedKeysAreFree
  /\ serial => Alone /\ ReadStillHolds

LEMMA TableSerialStep == TableSerialInv /\ [TableNext]_(tableVars) => TableSerialInv'
<1> SUFFICES ASSUME TableSerialInv, [TableNext]_(tableVars) PROVE TableSerialInv'
  OBVIOUS
<1> USE DEF TableSerialInv
<1>1. TableTypeOK' /\ UniqueKeys'
  BY TableTypeStep, UniqueStep
<1>2. ASSUME NEW r \in Requests, TableStep(r), serial
      PROVE  (Alone /\ ReadStillHolds)' /\ CheckedKeysAreFree'
  <2> DEFINE Held(q) ==
        /\ q.pc # "idle" /\ q.id # None =>
             /\ Live(q.id)
             /\ q.pc \in {"check", "save"} =>
                  q.row = Merge(table[q.id], q.row, q.sets)
        /\ q.pc = "save" => ~ Taken(q.row.key, q.id)
  <2>1. \A x \in Requests : x # r => req'[x] = req[x] /\ req[x].pc = "idle"
    BY <1>2, TableRequestType DEF Alone, Begin, TableStep,
       BeginCreate, BeginUpdate, BeginRemove, CheckKey, Save,
       SoftRemove, TableAbort
  <2>2. SUFFICES Held(req[r])'
    BY <2>1 DEF Alone, ReadStillHolds, CheckedKeysAreFree
  <2>3. ASSUME UNCHANGED <<table, deleted>>, NEW q, req'[r] = q, Held(q)
        PROVE  Held(req[r])'
    BY <2>3 DEF Live, Taken
  <2>4. ASSUME NEW row \in TableRow, BeginCreate(r, row) PROVE Held(req[r])'
    BY <2>4 DEF BeginCreate, TableTypeOK
  <2>5. ASSUME NEW i \in Ids, NEW new \in TableRow, NEW sets \in SUBSET Fields,
               BeginUpdate(r, i, new, sets)
        PROVE  Held(req[r])'
    <3>1. /\ Live(i) /\ UNCHANGED <<table, deleted>> /\ req'[r].id = i
          /\ req'[r].sets = sets /\ req'[r].row = Merge(table[i], new, sets)
          /\ req'[r].pc = "save" => req'[r].row.key = table[i].key
      BY <2>5 DEF BeginUpdate, TableTypeOK
    <3>2. Merge(table[i], Merge(table[i], new, sets), sets)
            = Merge(table[i], new, sets)
      BY DEF Merge
    <3>3. ~ Taken(table[i].key, i)
      BY <3>1 DEF Taken, UniqueKeys
    <3>4. Held(req'[r])
      BY <3>1, <3>2, <3>3
    <3> QED
      BY <2>3, <3>1, <3>4
  <2>6. ASSUME NEW i \in Ids, BeginRemove(r, i) PROVE Held(req[r])'
    <3>1. /\ Live(i) /\ UNCHANGED <<table, deleted>>
          /\ req'[r].id = i /\ req'[r].pc = "remove"
      BY <2>6, TableIdleType DEF BeginRemove, TableTypeOK, TableIdle
    <3> QED
      BY <2>3, <3>1
  <2>7. CASE CheckKey(r)
    <3>1. /\ req'[r].id = req[r].id /\ req'[r].row = req[r].row
          /\ req'[r].sets = req[r].sets /\ req[r].pc = "check"
          /\ UNCHANGED <<table, deleted>>
          /\ ~ Taken(req[r].row.key, req[r].id)
      BY <2>7 DEF CheckKey, TableTypeOK, TableRequest
    <3>2. Held(req'[r])
      BY <1>2, <3>1 DEF ReadStillHolds
    <3> QED
      BY <2>3, <3>1, <3>2
  <2>8. CASE Save(r) \/ SoftRemove(r) \/ TableAbort(r)
    <3>1. req'[r] = TableIdle
      BY <2>8 DEF Save, SoftRemove, TableAbort, TableFinish, TableTypeOK
    <3> QED
      BY <3>1, TableIdleType
  <2> QED
    BY <1>2, <2>4, <2>5, <2>6, <2>7, <2>8 DEF TableStep
<1>3. CASE UNCHANGED tableVars
  <2>1. ReadStillHolds => ReadStillHolds'
    BY <1>3 DEF tableVars, ReadStillHolds, Live
  <2>2. CheckedKeysAreFree'
    BY <1>3 DEF tableVars, CheckedKeysAreFree, Live, Taken
  <2>3. Alone => Alone'
    BY <1>3 DEF tableVars, Alone
  <2> QED
    BY <1>1, <1>3, <2>1, <2>2, <2>3 DEF tableVars
<1>4. ASSUME NEW r \in Requests, TableStep(r), ~ serial
      PROVE  ~ serial' /\ CheckedKeysAreFree'
  BY <1>4, TableRequestType DEF CheckedKeysAreFree
<1>5. CASE TableNext
  BY <1>1, <1>2, <1>4, <1>5 DEF TableNext
<1> QED
  BY <1>3, <1>5

LEMMA TableSerialInit == TableInit => TableSerialInv
BY TableTypeInit, TableIdleType DEF TableInit, TableSerialInv, UniqueKeys,
   Alone, ReadStillHolds, CheckedKeysAreFree, Live

(* A key that was checked is free when the row is saved, as long as        *)
(* requests do not overlap (ensureSymbolIsUnique, ensureCodeIsUnique).     *)
THEOREM SerialChecksHold == TableSpec => []CheckedKeysAreFree
<1>1. TableSerialInv => CheckedKeysAreFree
  BY DEF TableSerialInv
<1>2. TableSerialInv /\ [TableNext]_(tableVars) => TableSerialInv'
  BY TableSerialStep
<1> QED
  BY <1>1, <1>2, TableSerialInit, PTL DEF TableSpec

(* A removed row does not come back, as long as requests do not overlap    *)
(* (remove, and the whole-row save of update).                             *)
THEOREM SerialRemovalsStay == TableSpec => DeletedStaysDeleted
<1>1. TableSerialInv /\ [TableNext]_(tableVars) => (serial => deleted \subseteq deleted')
  <2> SUFFICES ASSUME TableSerialInv, [TableNext]_(tableVars), serial
               PROVE  deleted \subseteq deleted'
    OBVIOUS
  <2>1. ASSUME NEW r \in Requests, TableStep(r)
        PROVE  deleted \subseteq deleted'
    <3>1. ASSUME NEW i \in Ids, deleted' = deleted \ {i},
                 IF req[r].id = None THEN table[i] = None ELSE i = req[r].id,
                 req[r].pc = "save"
          PROVE  i \notin deleted
      BY <3>1, <2>1 DEF TableSerialInv, ReadStillHolds, Live, TableTypeOK
    <3> QED
      BY <2>1, <3>1, TableWrites DEF TableSerialInv
  <2>2. CASE UNCHANGED tableVars
    BY <2>2 DEF tableVars
  <2> QED
    BY <2>1, <2>2 DEF TableNext
<1>2. TableSerialInv /\ [TableNext]_(tableVars) => TableSerialInv'
  BY TableSerialStep
<1> QED
  BY <1>1, <1>2, TableSerialInit, PTL DEF TableSpec, DeletedStaysDeleted

(* An update changes the fields its caller sets and no other, as long as   *)
(* requests do not overlap (the whole-row save of update).                 *)
THEOREM SerialUpdatesAreExact == TableSpec => UpdatesOnlyWhatIsSet
<1> DEFINE Exact ==
      serial => \A i \in Ids : table[i] # None /\ table'[i] # table[i] =>
        \E r \in Requests :
          /\ req[r].pc = "save" /\ req'[r].pc = "idle" /\ req[r].id = i
          /\ table'[i] = Merge(table[i], table'[i], req[r].sets)
<1>1. TableSerialInv /\ [TableNext]_(tableVars) => Exact
  <2> SUFFICES ASSUME TableSerialInv, [TableNext]_(tableVars), serial,
                      NEW i \in Ids, table[i] # None, table'[i] # table[i]
               PROVE  \E r \in Requests :
                        /\ req[r].pc = "save" /\ req'[r].pc = "idle"
                        /\ req[r].id = i
                        /\ table'[i] = Merge(table[i], table'[i], req[r].sets)
    OBVIOUS
  <2>1. PICK r \in Requests : TableStep(r)
    BY DEF TableNext, tableVars
  <2>2. /\ req[r].pc = "save" /\ req'[r].pc = "idle"
        /\ req[r].id = i /\ table'[i] = req[r].row
    BY <2>1, TableWrites, TableIdleType DEF TableSerialInv, TableTypeOK
  <2> QED
    BY <2>2 DEF TableSerialInv, ReadStillHolds, TableTypeOK
<1>2. TableSerialInv /\ [TableNext]_(tableVars) => TableSerialInv'
  BY TableSerialStep
<1> QED
  BY <1>1, <1>2, TableSerialInit, PTL DEF TableSpec, UpdatesOnlyWhatIsSet
=============================================================================
