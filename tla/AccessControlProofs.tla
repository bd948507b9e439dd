------------------------- MODULE AccessControlProofs -------------------------
(***************************************************************************)
(* Proofs about AccessControl, for any users, brands, modules, earlier     *)
(* grants, seeds, administrators and times: what the code fixes of the     *)
(* roles, what a step keeps in shape, how old what a token says may be,    *)
(* and the behaviours whose requests do not overlap.                       *)
(***************************************************************************)
EXTENDS AccessControl, TLAPS

-----------------------------------------------------------------------------
(* RoleDefinitions and the endpoints.                                      *)

Guarding == {"organization", "company", "brand", "user"}

LEMMA GuardingCodes ==
  ASSUME NEW m \in Guarding
  PROVE  <<m, "read">> \in PermissionCodes /\ <<m, "manage">> \in PermissionCodes
<1>1. m \in AppModules
  BY ModulesAssumption DEF Guarding
<1>2. m \in DOMAIN ModulePermissions /\ m \notin ReadOnlyModules
  BY <1>1, ModulesAssumption DEF Guarding, ReadOnlyModules
<1>3. ModulePermissions[m] = {"read", "manage"}
  BY <1>2 DEF ModulePermissions
<1> QED
  BY <1>1, <1>3 DEF PermissionCodes

LEMMA Defined ==
  /\ RoleDefinitions \in [RoleCodes -> SUBSET PermissionCodes]
  /\ \A role \in {"super_admin", "admin"} :
       RoleDefinitions[role] = PermissionCodes
  /\ RoleDefinitions["manager"] =
       {c \in PermissionCodes : c[1] \notin AgentModules}
  /\ RoleDefinitions["agent"] = {c \in PermissionCodes : c[1] \in AgentModules}
  /\ RoleDefinitions["auditor"] = {c \in PermissionCodes : c[2] = "read"}
BY DEF RoleDefinitions, RoleCodes

LEMMA WhoMayReadAndManage ==
  ASSUME NEW m \in Guarding, NEW role \in RoleCodes
  PROVE  /\ <<m, "read">> \in RoleDefinitions[role] <=> role # "agent"
         /\ <<m, "manage">> \in RoleDefinitions[role]
              <=> role \in {"super_admin", "admin", "manager"}
<1>1. <<m, "read">> \in PermissionCodes /\ <<m, "manage">> \in PermissionCodes
  BY GuardingCodes
<1>2. m \notin AgentModules
  BY DEF Guarding, AgentModules
<1>3. /\ <<m, "read">>[1] = m /\ <<m, "read">>[2] = "read"
      /\ <<m, "manage">>[1] = m /\ <<m, "manage">>[2] = "manage"
  OBVIOUS
<1>4. CASE role \in {"super_admin", "admin"}
  BY <1>1, <1>4, Defined
<1>5. CASE role = "manager"
  BY <1>1, <1>2, <1>3, <1>5, Defined
<1>6. CASE role = "agent"
  BY <1>1, <1>2, <1>3, <1>6, Defined
<1>7. CASE role = "auditor"
  BY <1>1, <1>2, <1>3, <1>7, Defined
<1> QED
  BY <1>4, <1>5, <1>6, <1>7 DEF RoleCodes

(* The endpoints take a code of one of four modules, one of two roles, or  *)
(* no more than a token.                                                   *)
Guarded(e) ==
  \E m \in Guarding :
    /\ e.token = TRUE /\ e.roles = {}
    /\ \/ e.get = TRUE /\ e.permissions = {<<m, "read">>}
       \/ e.get = FALSE /\ e.permissions = {<<m, "manage">>}

ForAdministrators(e) ==
  e.token = TRUE /\ e.permissions = {} /\ e.roles = {"super_admin", "admin"}

Open(e) == e.token \in BOOLEAN /\ e.permissions = {} /\ e.roles = {}

LEMMA EndpointKinds ==
  ASSUME NEW e \in Endpoints
  PROVE  Guarded(e) \/ ForAdministrators(e) \/ Open(e)
<1>1. ASSUME NEW c, NEW h, NEW get, NEW codes, NEW roles,
             e = Endpoint(c, h, get, codes, roles)
      PROVE  /\ e.token = TRUE /\ e.get = get
             /\ e.permissions = codes /\ e.roles = roles
  BY <1>1 DEF Endpoint
<1>2. ASSUME NEW c, NEW h, NEW get,
             e = Public(c, h, get) \/ e = Endpoint(c, h, get, {}, {})
      PROVE  Open(e)
  <2> DEFINE x == Endpoint(c, h, get, {}, {})
  <2>1. x.token = TRUE /\ x.permissions = {} /\ x.roles = {}
    BY DEF Endpoint
  <2>2. CASE e = Public(c, h, get)
    <3>1. e.token = FALSE /\ e.permissions = {} /\ e.roles = {}
      BY <2>2 DEF Endpoint, Public
    <3> QED
      BY <3>1 DEF Open
  <2> QED
    BY <1>2, <2>1, <2>2 DEF Open
<1>3. ASSUME NEW c, NEW m \in Guarding, e \in Managed(c, m)
      PROVE  Guarded(e)
  <2>1. PICK h, get, a : /\ e = Endpoint(c, h, get, {<<m, a>>}, {})
                         /\ \/ get = TRUE /\ a = "read"
                            \/ get = FALSE /\ a = "manage"
    BY <1>3 DEF Managed
  <2> QED
    BY <1>1, <2>1 DEF Guarded
<1>4. CASE e \in RolesController
  <2>1. e = Endpoint("roles", "findAll", TRUE, {}, {"super_admin", "admin"})
    BY <1>4 DEF RolesController
  <2> QED
    BY <1>1, <2>1 DEF ForAdministrators
<1>5. CASE e \in MediaController \cup HealthController
  <2>1. PICK c, h, get : e = Public(c, h, get) \/ e = Endpoint(c, h, get, {}, {})
    BY <1>5 DEF MediaController, HealthController
  <2> QED
    BY <1>2, <2>1
<1>6. CASE e \in SignInEndpoints
  <2>1. PICK c, h, get : e = Public(c, h, get) \/ e = Endpoint(c, h, get, {}, {})
    BY <1>6 DEF SignInEndpoints
  <2> QED
    BY <1>2, <2>1
<1>7. CASE e \in MailEndpoints \cup ProfileEndpoints
  <2>1. PICK c, h, get : e = Public(c, h, get) \/ e = Endpoint(c, h, get, {}, {})
    BY <1>7 DEF MailEndpoints, ProfileEndpoints
  <2> QED
    BY <1>2, <2>1
<1>8. CASE e \in OrganizationsController \/ e \in CompaniesController
           \/ e \in BrandsController \/ e \in UsersController
  BY <1>3, <1>8
  DEF OrganizationsController, CompaniesController, BrandsController,
      UsersController, Guarding
<1> QED
  BY <1>4, <1>5, <1>6, <1>7, <1>8 DEF Endpoints

(* Who has the codes of some roles passes what is for one of them.         *)
LEMMA RolesPass ==
  ASSUME NEW t, t # None, NEW roles \in SUBSET RoleCodes, t.roles = roles,
         t.permissions = UNION {RoleDefinitions[role] : role \in roles}
  PROVE  Passes(t) = OpenEndpoints \cup UNION {Reach[role] : role \in roles}
<1>1. ASSUME NEW e \in Endpoints, Open(e)
      PROVE  Admits(e, t) /\ e \in OpenEndpoints
  BY <1>1 DEF Open, Admits, PermissionsGuard, RolesGuard, OpenEndpoints
<1>2. ASSUME NEW e \in Endpoints, ForAdministrators(e)
      PROVE  /\ e \notin OpenEndpoints
             /\ Admits(e, t) <=> \E role \in roles : e \in Reach[role]
  <2>1. e \notin OpenEndpoints /\ e.permissions = {}
    BY <1>2 DEF ForAdministrators, OpenEndpoints
  <2>2. \A role \in RoleCodes :
          e \in Reach[role] <=> role \in {"super_admin", "admin"}
    BY <2>1 DEF Reach, RoleCodes
  <2>3. Admits(e, t) <=> {"super_admin", "admin"} \cap roles # {}
    BY <1>2 DEF ForAdministrators, Admits, PermissionsGuard, RolesGuard
  <2> QED
    BY <2>1, <2>2, <2>3
<1>3. ASSUME NEW e \in Endpoints, Guarded(e)
      PROVE  /\ e \notin OpenEndpoints
             /\ Admits(e, t) <=> \E role \in roles : e \in Reach[role]
  <2>1. PICK m \in Guarding :
          /\ e.token = TRUE /\ e.roles = {}
          /\ \/ e.get = TRUE /\ e.permissions = {<<m, "read">>}
             \/ e.get = FALSE /\ e.permissions = {<<m, "manage">>}
    BY <1>3 DEF Guarded
  <2>2. PICK c : /\ e.permissions = {c}
                 /\ \/ e.get = TRUE /\ c = <<m, "read">>
                    \/ e.get = FALSE /\ c = <<m, "manage">>
    BY <2>1
  <2>3. Admits(e, t) <=> c \in t.permissions
    BY <2>1, <2>2 DEF Admits, PermissionsGuard, RolesGuard
  <2>4. \A role \in RoleCodes : e \in Reach[role] <=> c \in RoleDefinitions[role]
    <3>1. \A role \in RoleCodes :
            e \in Reach[role] <=>
              \/ role \in {"super_admin", "admin", "manager"}
              \/ role = "auditor" /\ e.get
      BY <2>2 DEF Reach, RoleCodes
    <3>2. \A role \in RoleCodes :
            /\ <<m, "read">> \in RoleDefinitions[role] <=> role # "agent"
            /\ <<m, "manage">> \in RoleDefinitions[role]
                 <=> role \in {"super_admin", "admin", "manager"}
      BY WhoMayReadAndManage
    <3>3. \A role \in RoleCodes :
            role # "agent" <=>
              role \in {"super_admin", "admin", "manager", "auditor"}
      BY DEF RoleCodes
    <3>4. CASE e.get = TRUE /\ c = <<m, "read">>
      BY <3>1, <3>2, <3>3, <3>4
    <3>5. CASE e.get = FALSE /\ c = <<m, "manage">>
      BY <3>1, <3>2, <3>5
    <3> QED
      BY <2>2, <3>4, <3>5
  <2>5. e \notin OpenEndpoints
    BY <2>2 DEF OpenEndpoints
  <2> QED
    BY <2>3, <2>4, <2>5
<1>4. \A role \in RoleCodes : Reach[role] \subseteq Endpoints
  BY DEF Reach, RoleCodes
<1> QED
  BY <1>1, <1>2, <1>3, <1>4, EndpointKinds DEF Passes, OpenEndpoints

(* RoleDefinitions and the decorators of the controllers, for whatever     *)
(* modules are looked at: each role passes the endpoints it is for.        *)
THEOREM RolesReachTheirs == RolesReach
<1> SUFFICES ASSUME NEW role \in RoleCodes
             PROVE  Passes([roles |-> {role},
                            permissions |-> RoleDefinitions[role]])
                      = OpenEndpoints \cup Reach[role]
  BY DEF RolesReach
<1> DEFINE t == [roles |-> {role}, permissions |-> RoleDefinitions[role]]
<1>1. t \in Bearer /\ t.roles = {role}
      /\ t.permissions = RoleDefinitions[role]
  BY Defined DEF Bearer
<1> HIDE DEF t
<1>2. t.permissions = UNION {RoleDefinitions[x] : x \in t.roles} /\ t # None
  BY <1>1, NoBearer
<1>3. Passes(t) = OpenEndpoints \cup UNION {Reach[x] : x \in t.roles}
  BY <1>1, <1>2, RolesPass
<1>4. UNION {Reach[x] : x \in {role}} = Reach[role]
  OBVIOUS
<1>5. Passes(t) = OpenEndpoints \cup Reach[role]
  BY <1>1, <1>3, <1>4
<1> QED
  BY <1>5 DEF t

-----------------------------------------------------------------------------
(* Type correctness.  What is in progress is for a user and roles that     *)
(* exist, what is remembered is not later than now, and grants change      *)
(* once: when they do, none were replaced before.                          *)

BrandWork == {"check brands", "delete brands", "insert brands"}

Sound(q, us, roles, t) ==
  /\ q \in Request /\ q.began <= t
  /\ q.pc # "idle" => q.user \in us /\ q.roles \subseteq roles
  /\ q.pc \in BrandWork => q.brands \in SUBSET Brands

TablesInv ==
  /\ known \subseteq RoleCodes /\ users \subseteq Users
  /\ grants \in [RoleCodes -> SUBSET PermissionCodes]
  /\ assigned \in [Users -> SUBSET known]
  /\ brands \in [Users -> SUBSET Brands]
  /\ \A u \in Users \ users : assigned[u] = {} /\ brands[u] = {}

ClockInv ==
  /\ now \in 1 .. MaxTime /\ until \in Nat /\ until <= now
  /\ held \in [Users -> [RoleCodes -> Nat]]
  /\ former \in [RoleCodes -> SUBSET PermissionCodes]
  /\ grants # RoleDefinitions => \A role \in RoleCodes : former[role] = {}

TokensInv ==
  /\ token \in [Users -> Token \cup {None}]
  /\ \A u \in Users : token[u] # None =>
       /\ u \in users
       /\ token[u].began <= token[u].signed /\ token[u].signed <= now
       /\ now < token[u].signed + AccessTTL

RequestsInv ==
  /\ req \in [Requests -> Request]
  /\ \A r \in Requests : Sound(req[r], users, known, now)

AskedInv ==
  asked \in [Users -> [roles: SUBSET RoleCodes, brands: SUBSET Brands]]

TypeInv == TablesInv /\ ClockInv /\ TokensInv /\ RequestsInv /\ AskedInv

(* How a request begins.                                                   *)
Starts(r, q) ==
  /\ req[r].pc = "idle" /\ (serial => Quiet)
  /\ req' = [req EXCEPT ![r] = q]
  /\ UNCHANGED <<known, grants, assigned, brands, token, now, serial, history>>
  /\ users \subseteq users' /\ users' \subseteq Users
  /\ Sound(q, users', known, now)
  /\ \/ q.pc \in {"delete roles", "check brands"}
     \/ /\ q.pc = "assignments" /\ q.user \in users
        /\ q.roles = assigned[q.user] /\ q.began = now

Administrates(r, u) ==
  \E t \in {token[a] : a \in Users} \cup Others, b \in BrandSets :
    \/ UpdateBrands(r, t, u, b)
    \/ \E roles \in RoleSets : \/ CreateUser(r, t, u, roles, b)
                               \/ UpdateRoles(r, t, u, roles, b)
                               \/ UpdateRoles(r, t, u, roles, None)

LEMMA Constants ==
  /\ AccessTTL \in Nat \ {0} /\ MaxTime \in Nat \ {0} /\ None \notin Users
  /\ RoleSets \subseteq SUBSET RoleCodes /\ BrandSets \subseteq SUBSET Brands
BY AccessAssumption

LEMMA Times ==
  TypeInv => /\ now \in Nat /\ 0 < now /\ now <= now
             /\ until \in Nat /\ until <= now
BY Constants DEF TypeInv, ClockInv

LEMMA IdleType ==
  /\ Idle \in Request /\ Idle.pc = "idle" /\ Idle.began = 0
  /\ Idle.user = None /\ Idle.roles = {} /\ Idle.brands = None
BY DEF Idle, Request

LEMMA Administration ==
  ASSUME TypeInv, NEW r \in Requests, NEW u \in Users, Administrates(r, u)
  PROVE  \E q : Starts(r, q)
<1>1. users \subseteq Users /\ known \subseteq RoleCodes /\ now \in Nat
  BY DEF TypeInv, TablesInv, ClockInv
<1>2. ASSUME NEW q \in Request, q.pc \in {"delete roles", "check brands"},
             q.user = u, q.roles \subseteq known, q.began = 0,
             q.pc = "check brands" => q.brands \in SUBSET Brands,
             u \in users', users \subseteq users', users' \subseteq Users,
             Begin(r, q)
      PROVE  Starts(r, q)
  <2>1. q.pc \in BrandWork => q.pc = "check brands"
    BY <1>2 DEF BrandWork
  <2>2. q.began <= now
    <3>1. q.began = 0 /\ now \in Nat
      BY <1>1, <1>2
    <3> QED
      BY <3>1
  <2>3. Sound(q, users', known, now)
    BY <1>2, <2>1, <2>2 DEF Sound
  <2> QED
    BY <1>2, <2>3 DEF Begin, Starts
<1>3. ASSUME NEW t, NEW b \in BrandSets, UpdateBrands(r, t, u, b)
      PROVE  \E q : Starts(r, q)
  <2> DEFINE q == [Idle EXCEPT !.pc = "check brands", !.user = u,
                               !.brands = b]
  <2>1. /\ q \in Request /\ q.pc = "check brands" /\ q.user = u
        /\ q.roles = {} /\ q.began = 0 /\ q.brands \in SUBSET Brands
    BY Constants DEF Idle, Request
  <2>2. Begin(r, q) /\ u \in users /\ users' = users
    BY <1>3 DEF UpdateBrands
  <2> HIDE DEF q
  <2> QED
    BY <1>1, <1>2, <2>1, <2>2, Constants
<1>4. ASSUME NEW t, NEW b \in BrandSets \cup {None}, NEW roles \in RoleSets,
             UpdateRoles(r, t, u, roles, b)
      PROVE  \E q : Starts(r, q)
  <2> DEFINE q == [Idle EXCEPT !.pc = "delete roles", !.user = u,
                               !.roles = roles, !.brands = b]
  <2>1. /\ q \in Request /\ q.pc = "delete roles" /\ q.user = u
        /\ q.roles = roles /\ q.began = 0
    BY Constants DEF Idle, Request
  <2>2. Begin(r, q) /\ u \in users /\ users' = users /\ roles \subseteq known
    BY <1>4 DEF UpdateRoles, ResolveRoles
  <2> HIDE DEF q
  <2> QED
    BY <1>1, <1>2, <2>1, <2>2, Constants
<1>5. ASSUME NEW t, NEW b \in BrandSets, NEW roles \in RoleSets,
             CreateUser(r, t, u, roles, b)
      PROVE  \E q : Starts(r, q)
  <2> DEFINE q == [Idle EXCEPT !.pc = "delete roles", !.user = u,
                               !.roles = roles, !.brands = b, !.creates = TRUE]
  <2>1. /\ q \in Request /\ q.pc = "delete roles" /\ q.user = u
        /\ q.roles = roles /\ q.began = 0
    BY Constants DEF Idle, Request
  <2>2. Begin(r, q) /\ users' = users \cup {u} /\ roles \subseteq known
    BY <1>5 DEF CreateUser, ResolveRoles
  <2> HIDE DEF q
  <2> QED
    BY <1>1, <1>2, <2>1, <2>2, Constants
<1> QED
  BY <1>3, <1>4, <1>5 DEF Administrates

LEMMA TokenStarts ==
  ASSUME TypeInv, NEW r \in Requests, NEW u \in Users, GetRoleCodes(r, u)
  PROVE  \E q : Starts(r, q)
<1> DEFINE q == [Idle EXCEPT !.pc = "assignments", !.user = u,
                             !.roles = assigned[u], !.began = now]
<1>1. u \in users /\ users' = users /\ Begin(r, q)
  BY DEF GetRoleCodes
<1>2. assigned[u] \in SUBSET known /\ known \subseteq RoleCodes /\ now \in Nat
      /\ users \subseteq Users
  BY DEF TypeInv, TablesInv, ClockInv
<1>3. /\ q \in Request /\ q.pc = "assignments" /\ q.user = u
      /\ q.roles = assigned[u] /\ q.began = now
  BY <1>2 DEF Idle, Request
<1> HIDE DEF q
<1>4. Sound(q, users, known, now)
  BY <1>1, <1>2, <1>3 DEF Sound, BrandWork
<1> QED
  BY <1>1, <1>2, <1>3, <1>4 DEF Starts, Begin

(* The steps, with those that begin a request taken together.              *)
LEMMA Steps ==
  ASSUME TypeInv, [Next]_vars
  PROVE  \/ UNCHANGED vars \/ Tick \/ SyncPermissions
         \/ \E u \in Users, role \in RoleCodes : SeedUserWithRole(u, role)
         \/ \E r \in Requests :
              \/ DeleteRoles(r) \/ InsertRoles(r) \/ EnsureBrandsExist(r)
              \/ DeleteBrands(r) \/ InsertBrands(r) \/ GetAssignments(r)
              \/ GetPermissionCodes(r) \/ Sign(r) \/ Abort(r)
              \/ \E q : Starts(r, q)
<1>1. ASSUME NEW r \in Requests, NEW u \in Users,
             Administrates(r, u) \/ GetRoleCodes(r, u)
      PROVE  \E q : Starts(r, q)
  BY <1>1, Administration, TokenStarts
<1>2. ASSUME NEW r \in Requests, NEW u \in Users,
             NEW t \in {token[a] : a \in Users} \cup Others,
             NEW b \in BrandSets,
             \/ UpdateBrands(r, t, u, b)
             \/ \E roles \in RoleSets : \/ CreateUser(r, t, u, roles, b)
                                        \/ UpdateRoles(r, t, u, roles, b)
                                        \/ UpdateRoles(r, t, u, roles, None)
      PROVE  Administrates(r, u)
  BY <1>2 DEF Administrates
<1> QED
  BY <1>1, <1>2 DEF Next

LEMMA TypeInit == Init => TypeInv
<1> SUFFICES ASSUME Init PROVE TypeInv
  OBVIOUS
<1>1. TablesInv
  BY AccessAssumption DEF Init, TablesInv
<1>2. ClockInv
  BY Constants DEF Init, ClockInv
<1>3. TokensInv
  BY DEF Init, TokensInv
<1>4. RequestsInv
  <2>1. req = [r \in Requests |-> Idle] /\ now = 1
    BY DEF Init
  <2>2. Sound(Idle, users, known, now)
    BY <2>1, IdleType DEF Sound, BrandWork
  <2> QED
    BY <2>1, <2>2, IdleType DEF RequestsInv
<1>5. AskedInv
  BY DEF Init, AskedInv
<1> QED
  BY <1>1, <1>2, <1>3, <1>4, <1>5 DEF TypeInv

LEMMA Replaced ==
  ASSUME TypeInv, NEW r \in Requests, NEW q, req' = [req EXCEPT ![r] = q],
         Sound(q, users', known', now'), now' \in Nat, now <= now',
         users \subseteq users', known \subseteq known'
  PROVE  /\ RequestsInv' /\ req'[r] = q
         /\ \A x \in Requests : x # r => req'[x] = req[x]
<1>1. q \in Request /\ req \in [Requests -> Request]
  BY DEF Sound, TypeInv, RequestsInv
<1>2. /\ req' \in [Requests -> Request] /\ req'[r] = q
      /\ \A x \in Requests : x # r => req'[x] = req[x]
  BY <1>1
<1>3. ASSUME NEW x \in Requests PROVE Sound(req'[x], users', known', now')
  <2>1. Sound(req[x], users, known, now) /\ now \in Nat /\ req[x].began \in Nat
    BY Times DEF TypeInv, RequestsInv, Request
  <2> QED
    BY <1>2, <2>1 DEF Sound
<1> QED
  BY <1>2, <1>3 DEF RequestsInv

LEMMA RequestType ==
  ASSUME TypeInv, NEW r \in Requests, req[r].pc # "idle"
  PROVE  /\ req[r] \in Request /\ req[r].user \in users
         /\ req[r].user \in Users /\ req[r].roles \subseteq known
         /\ req[r].began \in Nat /\ req[r].began <= now
         /\ req[r].read \in SUBSET RoleCodes
         /\ req[r].permissions \in SUBSET PermissionCodes
         /\ req[r].pc \in BrandWork => req[r].brands \in SUBSET Brands
BY DEF TypeInv, RequestsInv, Sound, TablesInv, Request

LEMMA Went ==
  ASSUME TypeInv, NEW r \in Requests, req[r].pc # "idle",
         NEW pc \in {"idle", "insert roles", "check brands", "delete brands",
                     "insert brands"},
         Goto(r, pc), UNCHANGED <<users, known, now>>,
         pc \in BrandWork => req[r].brands \in SUBSET Brands
  PROVE  /\ RequestsInv'
         /\ req'[r].pc = pc
         /\ pc # "idle" => /\ req'[r].user = req[r].user
                           /\ req'[r].roles = req[r].roles
                           /\ req'[r].brands = req[r].brands
         /\ \A x \in Requests : x # r => req'[x] = req[x]
<1> DEFINE q == IF pc = "idle" THEN Idle ELSE [req[r] EXCEPT !.pc = pc]
<1>1. req' = [req EXCEPT ![r] = q]
  BY DEF Goto
<1>2. /\ q \in Request /\ q.pc = pc
      /\ pc = "idle" => q.began = 0
      /\ pc # "idle" => /\ q.user = req[r].user /\ q.roles = req[r].roles
                        /\ q.brands = req[r].brands /\ q.began = req[r].began
  BY RequestType, IdleType DEF Request
<1> HIDE DEF q
<1>3. now \in Nat
  BY Times
<1>4. q.began <= now'
  <2>1. CASE pc = "idle"
    BY <1>2, <1>3, <2>1
  <2>2. CASE pc # "idle"
    BY <1>2, <2>2, RequestType
  <2> QED
    BY <2>1, <2>2
<1>5. Sound(q, users', known', now')
  BY <1>2, <1>4, RequestType DEF Sound, BrandWork
<1>6. /\ now' \in Nat /\ now <= now'
      /\ users \subseteq users' /\ known \subseteq known'
  <2>1. now' = now /\ users' = users /\ known' = known
    OBVIOUS
  <2>2. now' \in Nat /\ now <= now'
    BY <2>1, Times
  <2> QED
    BY <2>1, <2>2
<1> QED
  BY <1>1, <1>2, <1>5, <1>6, Replaced

LEMMA AfterRolesType ==
  ASSUME TypeInv, NEW r \in Requests, req[r].pc # "idle"
  PROVE  /\ AfterRoles(r) \in {"idle", "check brands", "delete brands"}
         /\ AfterRoles(r) # "idle" => req[r].brands \in SUBSET Brands
<1>1. req[r].brands \in (SUBSET Brands) \cup {None}
  BY RequestType DEF Request
<1> QED
  BY <1>1 DEF AfterRoles

LEMMA Reads ==
  ASSUME TypeInv, NEW r \in Requests, GetAssignments(r) \/ GetPermissionCodes(r)
  PROVE  /\ RequestsInv'
         /\ req'[r].user = req[r].user /\ req'[r].roles = req[r].roles
         /\ req'[r].began = req[r].began
         /\ GetAssignments(r) =>
              req'[r].pc = "codes" /\ req'[r].read = assigned[req[r].user]
         /\ GetPermissionCodes(r) =>
              /\ req'[r].pc = "sign"
              /\ req'[r].permissions =
                   UNION {grants[role] : role \in req[r].read}
         /\ \A x \in Requests : x # r => req'[x] = req[x]
<1>1. /\ req[r].pc # "idle" /\ now \in Nat
      /\ UNCHANGED <<users, known, now>>
  BY Times DEF GetAssignments, GetPermissionCodes, tables
<1>4. /\ now' \in Nat /\ now <= now'
      /\ users \subseteq users' /\ known \subseteq known'
  BY <1>1
<1>2. CASE GetAssignments(r)
  <2> DEFINE q == [req[r] EXCEPT !.pc = "codes",
                                 !.read = assigned[req[r].user]]
  <2>1. req' = [req EXCEPT ![r] = q]
    BY <1>2 DEF GetAssignments
  <2>2. assigned[req[r].user] \in SUBSET RoleCodes
    BY <1>1, RequestType DEF TypeInv, TablesInv
  <2>3. /\ q \in Request /\ q.pc = "codes" /\ q.user = req[r].user
        /\ q.roles = req[r].roles /\ q.began = req[r].began
        /\ q.read = assigned[req[r].user]
    BY <1>1, <2>2, RequestType DEF Request
  <2> HIDE DEF q
  <2>4. Sound(q, users', known', now')
    BY <1>1, <2>3, RequestType DEF Sound, BrandWork
  <2>5. ~ GetPermissionCodes(r)
    BY <1>2 DEF GetAssignments, GetPermissionCodes
  <2> QED
    BY <1>4, <2>1, <2>3, <2>4, <2>5, Replaced
<1>3. CASE GetPermissionCodes(r)
  <2> DEFINE codes == UNION {grants[role] : role \in req[r].read}
             q == [req[r] EXCEPT !.pc = "sign", !.permissions = codes]
  <2>1. req' = [req EXCEPT ![r] = q]
    BY <1>3 DEF GetPermissionCodes
  <2>2. codes \in SUBSET PermissionCodes
    BY <1>1, RequestType DEF TypeInv, TablesInv
  <2> HIDE DEF codes
  <2>3. /\ q \in Request /\ q.pc = "sign" /\ q.user = req[r].user
        /\ q.roles = req[r].roles /\ q.began = req[r].began
        /\ q.permissions = codes
    BY <1>1, <2>2, RequestType DEF Request
  <2> HIDE DEF q
  <2>4. Sound(q, users', known', now')
    BY <1>1, <2>3, RequestType DEF Sound, BrandWork
  <2>5. ~ GetAssignments(r)
    BY <1>3 DEF GetAssignments, GetPermissionCodes
  <2> QED
    BY <1>4, <2>1, <2>3, <2>4, <2>5, Replaced DEF codes
<1> QED
  BY <1>2, <1>3

(* What becomes of the request, in the steps of one.                       *)
LEMMA RequestsStep == TypeInv /\ [Next]_vars => RequestsInv'
<1> SUFFICES ASSUME TypeInv, [Next]_vars PROVE RequestsInv'
  OBVIOUS
<1>0. RequestsInv /\ now \in Nat /\ known \subseteq RoleCodes
  BY Times DEF TypeInv, TablesInv
<1>1. ASSUME UNCHANGED req, users \subseteq users', known \subseteq known',
             now' \in Nat, now <= now'
      PROVE  RequestsInv'
  <2>1. \A r \in Requests : Sound(req[r], users', known', now')
    <3> SUFFICES ASSUME NEW r \in Requests
                 PROVE  Sound(req[r], users', known', now')
      OBVIOUS
    <3>1. Sound(req[r], users, known, now) /\ req[r].began \in Nat
      BY <1>0 DEF RequestsInv, Request
    <3> QED
      BY <1>0, <1>1, <3>1 DEF Sound
  <2> QED
    BY <1>0, <1>1, <2>1 DEF RequestsInv
<1>2. CASE UNCHANGED vars \/ Tick \/ SyncPermissions
  BY <1>0, <1>1, <1>2 DEF vars, tables, Tick, SyncPermissions
<1>3. ASSUME NEW u \in Users, NEW role \in RoleCodes, SeedUserWithRole(u, role)
      PROVE  RequestsInv'
  BY <1>0, <1>1, <1>3 DEF SeedUserWithRole
<1>4. ASSUME NEW r \in Requests, NEW q, Starts(r, q)
      PROVE  RequestsInv'
  <2>1. /\ req' = [req EXCEPT ![r] = q] /\ UNCHANGED <<known, now>>
        /\ users \subseteq users' /\ Sound(q, users', known', now')
    BY <1>4 DEF Starts
  <2>2. now' \in Nat /\ now <= now' /\ known \subseteq known'
    BY <1>0, <2>1
  <2> QED
    BY <2>1, <2>2, Replaced
<1>5. ASSUME NEW r \in Requests, DeleteRoles(r)
      PROVE  RequestsInv'
  <2> DEFINE pc == IF req[r].roles = {} THEN AfterRoles(r) ELSE "insert roles"
  <2>1. /\ req[r].pc # "idle" /\ Goto(r, pc) /\ UNCHANGED <<users, known, now>>
    BY <1>5 DEF DeleteRoles
  <2>2. /\ pc \in {"idle", "insert roles", "check brands", "delete brands"}
        /\ pc \in BrandWork => req[r].brands \in SUBSET Brands
    BY <2>1, AfterRolesType DEF BrandWork
  <2> HIDE DEF pc
  <2> QED
    BY <2>1, <2>2, Went
<1>6. ASSUME NEW r \in Requests, InsertRoles(r)
      PROVE  RequestsInv'
  <2>1. /\ req[r].pc # "idle" /\ Goto(r, AfterRoles(r))
        /\ UNCHANGED <<users, known, now>>
    BY <1>6 DEF InsertRoles
  <2> QED
    BY <2>1, AfterRolesType, Went DEF BrandWork
<1>7. ASSUME NEW r \in Requests, EnsureBrandsExist(r) \/ DeleteBrands(r)
      PROVE  RequestsInv'
  <2>1. PICK pc \in {"idle", "delete brands", "insert brands"} :
          /\ req[r].pc # "idle" /\ Goto(r, pc)
          /\ UNCHANGED <<users, known, now>>
          /\ req[r].pc \in BrandWork
    BY <1>7 DEF EnsureBrandsExist, DeleteBrands, tables, BrandWork
  <2> QED
    BY <2>1, RequestType, Went
<1>8. ASSUME NEW r \in Requests, InsertBrands(r) \/ Sign(r) \/ Abort(r)
      PROVE  RequestsInv'
  <2>1. /\ req[r].pc # "idle" /\ Goto(r, "idle")
        /\ UNCHANGED <<users, known, now>>
    BY <1>8 DEF InsertBrands, Sign, Abort, tables
  <2> QED
    BY <2>1, Went DEF BrandWork
<1>9. ASSUME NEW r \in Requests, GetAssignments(r) \/ GetPermissionCodes(r)
      PROVE  RequestsInv'
  BY <1>9, Reads
<1> QED
  BY <1>2, <1>3, <1>4, <1>5, <1>6, <1>7, <1>8, <1>9, Steps

LEMMA TablesStep == TypeInv /\ [Next]_vars => TablesInv'
<1> SUFFICES ASSUME TypeInv, TablesInv, [Next]_vars PROVE TablesInv'
  BY DEF TypeInv
<1>1. CASE UNCHANGED tables
  BY <1>1 DEF TablesInv, tables
<1>2. CASE SyncPermissions
  BY <1>2, Defined DEF SyncPermissions, TablesInv
<1>3. ASSUME NEW u \in Users, NEW role \in RoleCodes, SeedUserWithRole(u, role)
      PROVE  TablesInv'
  <2>1. /\ assigned' = [assigned EXCEPT ![u] = @ \cup {role}]
        /\ role \in known /\ users' = users \cup {u}
        /\ UNCHANGED <<known, grants, brands>>
    BY <1>3 DEF SeedUserWithRole
  <2> QED
    BY <2>1 DEF TablesInv
<1>4. ASSUME NEW r \in Requests, NEW q, Starts(r, q)
      PROVE  TablesInv'
  BY <1>4 DEF Starts, TablesInv
<1>5. ASSUME NEW r \in Requests, DeleteRoles(r) \/ InsertRoles(r)
      PROVE  TablesInv'
  <2>1. /\ req[r].pc # "idle" /\ UNCHANGED <<known, grants, users, brands>>
        /\ \E roles \in SUBSET known :
             assigned' = [assigned EXCEPT ![req[r].user] = roles]
    <3>1. req[r].pc # "idle"
      BY <1>5 DEF DeleteRoles, InsertRoles
    <3>2. /\ req[r].roles \subseteq known
          /\ assigned[req[r].user] \subseteq known
      BY <3>1, RequestType DEF TablesInv
    <3> QED
      BY <1>5, <3>1, <3>2 DEF DeleteRoles, InsertRoles
  <2>2. req[r].user \in users /\ req[r].user \in Users
    BY <2>1, RequestType
  <2> QED
    BY <2>1, <2>2 DEF TablesInv
<1>6. ASSUME NEW r \in Requests, DeleteBrands(r) \/ InsertBrands(r)
      PROVE  TablesInv'
  <2>1. /\ req[r].pc # "idle" /\ UNCHANGED <<known, grants, users, assigned>>
        /\ \E set \in SUBSET Brands :
             brands' = [brands EXCEPT ![req[r].user] = set]
    <3>1. req[r].pc # "idle" /\ req[r].pc \in BrandWork
      BY <1>6 DEF DeleteBrands, InsertBrands, BrandWork
    <3>2. req[r].brands \subseteq Brands /\ brands[req[r].user] \subseteq Brands
      BY <3>1, RequestType DEF TablesInv
    <3> QED
      BY <1>6, <3>1, <3>2 DEF DeleteBrands, InsertBrands
  <2>2. req[r].user \in users /\ req[r].user \in Users
    BY <2>1, RequestType
  <2> QED
    BY <2>1, <2>2 DEF TablesInv
<1>7. ASSUME \/ UNCHANGED vars \/ Tick
             \/ \E r \in Requests :
                  \/ EnsureBrandsExist(r) \/ GetAssignments(r)
                  \/ GetPermissionCodes(r) \/ Sign(r) \/ Abort(r)
      PROVE  UNCHANGED tables
  BY <1>7 DEF vars, tables, Tick, EnsureBrandsExist, GetAssignments,
              GetPermissionCodes, Sign, Abort
<1> QED
  BY <1>1, <1>2, <1>3, <1>4, <1>5, <1>6, <1>7, Steps

LEMMA ClockStep == TypeInv /\ [Next]_vars => ClockInv'
<1> SUFFICES ASSUME TypeInv, ClockInv, [Next]_vars PROVE ClockInv'
  BY DEF TypeInv
<1>1. CASE UNCHANGED <<grants, now, held, former, until>>
  BY <1>1 DEF ClockInv
<1>2. CASE Tick
  <2>1. /\ now < MaxTime /\ now' = now + 1
        /\ UNCHANGED <<grants, held, former, until>>
    BY <1>2 DEF Tick, tables, history
  <2> QED
    BY <2>1, Times, Constants DEF ClockInv
<1>3. CASE SyncPermissions
  <2>1. /\ now' = now /\ held' = held /\ grants' = RoleDefinitions
        /\ \/ former' = former /\ until' = until
           \/ former' = grants /\ until' = now
    BY <1>3 DEF SyncPermissions
  <2>2. grants \in [RoleCodes -> SUBSET PermissionCodes]
    BY DEF TypeInv, TablesInv
  <2> QED
    BY <2>1, <2>2, Times DEF ClockInv
<1>4. ASSUME NEW r \in Requests, DeleteRoles(r)
      PROVE  ClockInv'
  <2> DEFINE u == req[r].user
             lost == [role \in RoleCodes |-> IF role \in assigned[u] THEN now
                                             ELSE held[u][role]]
  <2>1. held' = [held EXCEPT ![u] = lost]
    BY <1>4 DEF DeleteRoles
  <2>2. u \in Users
    BY <1>4, RequestType DEF DeleteRoles
  <2>3. lost \in [RoleCodes -> Nat]
    BY <2>2, Times DEF ClockInv
  <2> HIDE DEF lost
  <2>4. held' \in [Users -> [RoleCodes -> Nat]]
    BY <2>1, <2>2, <2>3 DEF ClockInv
  <2>5. UNCHANGED <<grants, now, former, until>>
    BY <1>4 DEF DeleteRoles
  <2> QED
    BY <2>4, <2>5 DEF ClockInv
<1>5. ASSUME NEW r \in Requests, NEW q, Starts(r, q)
      PROVE  UNCHANGED <<grants, now, held, former, until>>
  BY <1>5 DEF Starts, history
<1>6. ASSUME NEW u, NEW role, SeedUserWithRole(u, role)
      PROVE  UNCHANGED <<grants, now, held, former, until>>
  BY <1>6 DEF SeedUserWithRole
<1>7. ASSUME \/ UNCHANGED vars
             \/ \E r \in Requests :
                  \/ InsertRoles(r) \/ EnsureBrandsExist(r)
                  \/ DeleteBrands(r) \/ InsertBrands(r) \/ GetAssignments(r)
                  \/ GetPermissionCodes(r) \/ Sign(r) \/ Abort(r)
      PROVE  UNCHANGED <<grants, now, held, former, until>>
  BY <1>7 DEF vars, tables, history, InsertRoles, EnsureBrandsExist,
              DeleteBrands, InsertBrands, GetAssignments, GetPermissionCodes,
              Sign, Abort
<1> QED
  BY <1>1, <1>2, <1>3, <1>4, <1>5, <1>6, <1>7, Steps

(* A token is signed by a user's request that is in progress.              *)
LEMMA Signed ==
  ASSUME TypeInv, NEW r \in Requests, Sign(r)
  PROVE  LET q == req[r]
             t == token'[q.user] IN
           /\ q.user \in Users /\ q.user \in users /\ t \in Token /\ t # None
           /\ t.roles = q.roles /\ t.permissions = q.permissions
           /\ t.began = q.began /\ t.signed = now /\ q.began <= now
           /\ token' \in [Users -> Token \cup {None}]
           /\ \A u \in Users : u # q.user => token'[u] = token[u]
<1> DEFINE q == req[r]
           t == [roles |-> q.roles, permissions |-> q.permissions,
                 began |-> q.began, signed |-> now]
<1>1. req[r].pc # "idle" /\ token' = [token EXCEPT ![q.user] = t]
  BY DEF Sign
<1>2. /\ q.user \in Users /\ q.user \in users /\ q.began \in Nat
      /\ q.roles \in SUBSET RoleCodes /\ q.began <= now
      /\ q.permissions \in SUBSET PermissionCodes /\ now \in Nat
  BY <1>1, RequestType, Times DEF TypeInv, TablesInv
<1>3. /\ t \in Token /\ t.roles = q.roles /\ t.permissions = q.permissions
      /\ t.began = q.began /\ t.signed = now
  BY <1>2 DEF Token
<1> HIDE DEF t
<1>4. t # None
  BY <1>3, NoBearer
<1>5. /\ token' \in [Users -> Token \cup {None}] /\ token'[q.user] = t
      /\ \A u \in Users : u # q.user => token'[u] = token[u]
  BY <1>1, <1>2, <1>3 DEF TypeInv, TokensInv
<1> QED
  BY <1>2, <1>3, <1>4, <1>5

LEMMA TokensStep == TypeInv /\ [Next]_vars => TokensInv'
<1> SUFFICES ASSUME TypeInv, TokensInv, [Next]_vars PROVE TokensInv'
  BY DEF TypeInv
<1>0. now \in Nat /\ AccessTTL \in Nat \ {0}
  BY Times, Constants
<1>1. ASSUME UNCHANGED <<token, now>>, users \subseteq users'
      PROVE  TokensInv'
  BY <1>1 DEF TokensInv
<1>2. CASE Tick
  <2>1. /\ now' = now + 1 /\ UNCHANGED users
        /\ token' = [u \in Users |->
             IF token[u] # None /\ token[u].signed + AccessTTL > now + 1
             THEN token[u] ELSE None]
    BY <1>2 DEF Tick, tables
  <2>2. token' \in [Users -> Token \cup {None}]
    BY <2>1 DEF TokensInv
  <2>3. ASSUME NEW u \in Users, token'[u] # None
        PROVE  /\ u \in users' /\ token'[u].began <= token'[u].signed
               /\ token'[u].signed <= now'
               /\ now' < token'[u].signed + AccessTTL
    <3>1. /\ token[u] # None /\ token'[u] = token[u]
          /\ token[u].signed + AccessTTL > now + 1
      BY <2>1, <2>3
    <3>2. token[u] \in Token
      BY <3>1 DEF TokensInv
    <3>3. token[u].signed \in Nat
      BY <3>2 DEF Token
    <3>4. /\ u \in users /\ token[u].began <= token[u].signed
          /\ token[u].signed <= now
      BY <3>1 DEF TokensInv
    <3> QED
      BY <1>0, <2>1, <3>1, <3>3, <3>4
  <2> QED
    BY <2>2, <2>3 DEF TokensInv
<1>3. ASSUME NEW r \in Requests, Sign(r)
      PROVE  TokensInv'
  <2>1. UNCHANGED <<users, now>>
    BY <1>3 DEF Sign, tables
  <2>2. now < now + AccessTTL
    BY <1>0
  <2> QED
    BY <1>0, <1>3, <2>1, <2>2, Signed DEF TokensInv
<1>4. ASSUME NEW r \in Requests, NEW q, Starts(r, q)
      PROVE  TokensInv'
  BY <1>1, <1>4 DEF Starts
<1>5. ASSUME NEW u, NEW role, SeedUserWithRole(u, role)
      PROVE  TokensInv'
  BY <1>1, <1>5 DEF SeedUserWithRole
<1>6. ASSUME \/ UNCHANGED vars \/ SyncPermissions
             \/ \E r \in Requests :
                  \/ DeleteRoles(r) \/ InsertRoles(r) \/ EnsureBrandsExist(r)
                  \/ DeleteBrands(r) \/ InsertBrands(r) \/ GetAssignments(r)
                  \/ GetPermissionCodes(r) \/ Abort(r)
      PROVE  UNCHANGED <<token, now, users>>
  BY <1>6 DEF vars, tables, SyncPermissions, DeleteRoles, InsertRoles,
              EnsureBrandsExist, DeleteBrands, InsertBrands, GetAssignments,
              GetPermissionCodes, Abort
<1> QED
  BY <1>1, <1>2, <1>3, <1>4, <1>5, <1>6, Steps

(* The history of what was asked for, where requests do not overlap.       *)
LEMMA AskedRoles ==
  ASSUME TypeInv, serial, NEW u \in Users, NEW set \in SUBSET RoleCodes,
         Ask(u, "roles", set)
  PROVE  /\ AskedInv' /\ asked'[u].roles = set
         /\ asked'[u].brands = asked[u].brands
         /\ \A w \in Users : w # u => asked'[w] = asked[w]
<1> DEFINE new == [asked[u] EXCEPT !["roles"] = set]
<1>1. /\ asked \in [Users -> [roles: SUBSET RoleCodes, brands: SUBSET Brands]]
      /\ asked[u] \in [roles: SUBSET RoleCodes, brands: SUBSET Brands]
  BY DEF TypeInv, AskedInv
<1>2. asked' = [asked EXCEPT ![u] = new]
  BY DEF Ask
<1>3. /\ new \in [roles: SUBSET RoleCodes, brands: SUBSET Brands]
      /\ new.roles = set /\ new.brands = asked[u].brands
  BY <1>1
<1> HIDE DEF new
<1> QED
  BY <1>1, <1>2, <1>3 DEF AskedInv

LEMMA AskedBrands ==
  ASSUME TypeInv, serial, NEW u \in Users, NEW set \in SUBSET Brands,
         Ask(u, "brands", set)
  PROVE  /\ AskedInv' /\ asked'[u].brands = set
         /\ asked'[u].roles = asked[u].roles
         /\ \A w \in Users : w # u => asked'[w] = asked[w]
<1> DEFINE new == [asked[u] EXCEPT !["brands"] = set]
<1>1. /\ asked \in [Users -> [roles: SUBSET RoleCodes, brands: SUBSET Brands]]
      /\ asked[u] \in [roles: SUBSET RoleCodes, brands: SUBSET Brands]
  BY DEF TypeInv, AskedInv
<1>2. asked' = [asked EXCEPT ![u] = new]
  BY DEF Ask
<1>3. /\ new \in [roles: SUBSET RoleCodes, brands: SUBSET Brands]
      /\ new.brands = set /\ new.roles = asked[u].roles
  BY <1>1
<1> HIDE DEF new
<1> QED
  BY <1>1, <1>2, <1>3 DEF AskedInv

LEMMA AskedStep == TypeInv /\ [Next]_vars => AskedInv'
<1> SUFFICES ASSUME TypeInv, AskedInv, [Next]_vars PROVE AskedInv'
  BY DEF TypeInv
<1>1. CASE UNCHANGED asked
  BY <1>1 DEF AskedInv
<1>2. ASSUME NEW u \in Users, NEW role \in RoleCodes, SeedUserWithRole(u, role)
      PROVE  AskedInv'
  <2>1. Ask(u, "roles", assigned[u] \cup {role})
    BY <1>2 DEF SeedUserWithRole
  <2>2. assigned[u] \cup {role} \in SUBSET RoleCodes
    BY DEF TypeInv, TablesInv
  <2>3. CASE serial
    BY <2>1, <2>2, <2>3, AskedRoles
  <2>4. CASE ~ serial
    BY <1>1, <2>1, <2>4 DEF Ask
  <2> QED
    BY <2>3, <2>4
<1>3. ASSUME NEW r \in Requests, DeleteRoles(r)
      PROVE  AskedInv'
  <2>1. Ask(req[r].user, "roles", req[r].roles) /\ req[r].pc # "idle"
    BY <1>3 DEF DeleteRoles
  <2>2. req[r].user \in Users /\ req[r].roles \in SUBSET RoleCodes
    BY <2>1, RequestType DEF TypeInv, TablesInv
  <2>3. CASE serial
    BY <2>1, <2>2, <2>3, AskedRoles
  <2>4. CASE ~ serial
    BY <1>1, <2>1, <2>4 DEF Ask
  <2> QED
    BY <2>3, <2>4
<1>4. ASSUME NEW r \in Requests, DeleteBrands(r)
      PROVE  AskedInv'
  <2>1. Ask(req[r].user, "brands", req[r].brands) /\ req[r].pc # "idle"
        /\ req[r].pc \in BrandWork
    BY <1>4 DEF DeleteBrands, BrandWork
  <2>2. req[r].user \in Users /\ req[r].brands \in SUBSET Brands
    BY <2>1, RequestType
  <2>3. CASE serial
    BY <2>1, <2>2, <2>3, AskedBrands
  <2>4. CASE ~ serial
    BY <1>1, <2>1, <2>4 DEF Ask
  <2> QED
    BY <2>3, <2>4
<1>5. ASSUME NEW r \in Requests, NEW q, Starts(r, q)
      PROVE  UNCHANGED asked
  BY <1>5 DEF Starts, history
<1>6. ASSUME \/ UNCHANGED vars \/ Tick \/ SyncPermissions
             \/ \E r \in Requests :
                  \/ InsertRoles(r) \/ EnsureBrandsExist(r)
                  \/ InsertBrands(r) \/ GetAssignments(r)
                  \/ GetPermissionCodes(r) \/ Sign(r) \/ Abort(r)
      PROVE  UNCHANGED asked
  BY <1>6 DEF vars, history, Tick, SyncPermissions, InsertRoles,
              EnsureBrandsExist, InsertBrands, GetAssignments,
              GetPermissionCodes, Sign, Abort
<1> QED
  BY <1>1, <1>2, <1>3, <1>4, <1>5, <1>6, Steps

LEMMA TypeStep == TypeInv /\ [Next]_vars => TypeInv'
BY TablesStep, ClockStep, TokensStep, RequestsStep, AskedStep DEF TypeInv

LEMMA TypeImplied == TypeInv => TypeOK
<1> SUFFICES ASSUME TypeInv PROVE TypeOK
  OBVIOUS
<1>1. \A u \in Users : token[u] # None => token[u] \in Token /\ u \in users
  BY DEF TypeInv, TokensInv
<1>2. \A u \in Users \ users : token[u] = None
  BY <1>1
<1>3. TablesInv /\ now \in 1 .. MaxTime /\ \A r \in Requests : req[r] \in Request
  BY DEF TypeInv, ClockInv, RequestsInv
<1> QED
  BY <1>1, <1>2, <1>3 DEF TypeOK, TablesInv

LEMMA Typed == Spec => []TypeInv
BY TypeInit, TypeStep, PTL DEF Spec

(* Whatever the roles, brands, seeds and administrators are and whatever   *)
(* overlaps, no handler or command leaves a table, a token or a request    *)
(* out of shape: only roles that have a row are ever assigned, and what    *)
(* has no row in users keeps no role, no brand and no token.               *)
THEOREM TypeCorrect == Spec => []TypeOK
BY Typed, TypeImplied, PTL

-----------------------------------------------------------------------------
(* How old what a token says may be.  A request that builds one, and the   *)
(* token, say of the user only what was so at or after the time when the   *)
(* handler began.                                                          *)

RolesSince(u, roles, t) == \A role \in roles : HeldSince(u, role, t)

CodesSince(u, codes, t) ==
  \A c \in codes : \E role \in RoleCodes :
    HeldSince(u, role, t) /\ GrantedSince(role, c, t)

Aged(q) ==
  /\ q.pc \in {"assignments", "codes", "sign"} =>
       RolesSince(q.user, q.roles, q.began)
  /\ q.pc = "codes" => RolesSince(q.user, q.read, q.began)
  /\ q.pc = "sign" => CodesSince(q.user, q.permissions, q.began)

AgeInv ==
  /\ \A r \in Requests, q \in Request : req[r] = q => Aged(q)
  /\ \A u \in Users, t \in Token :
       token[u] = t => /\ RolesSince(u, t.roles, t.began)
                       /\ CodesSince(u, t.permissions, t.began)

(* A role that is taken away is remembered with the time.                  *)
LEMMA KeepsHeld ==
  ASSUME TypeInv, [Next]_vars, NEW u \in Users, NEW role \in RoleCodes,
         NEW t \in Nat, t <= now, HeldSince(u, role, t)
  PROVE  HeldSince(u, role, t)'
<1>1. CASE UNCHANGED <<assigned, held>>
  BY <1>1 DEF HeldSince
<1>2. ASSUME NEW v \in Users, NEW given \in SUBSET RoleCodes, UNCHANGED held,
             assigned' = [assigned EXCEPT ![v] = @ \cup given]
      PROVE  HeldSince(u, role, t)'
  BY <1>2 DEF HeldSince, TypeInv, TablesInv
<1>3. ASSUME NEW v \in Users, NEW x \in RoleCodes, SeedUserWithRole(v, x)
      PROVE  HeldSince(u, role, t)'
  <2>1. /\ {x} \in SUBSET RoleCodes /\ UNCHANGED held
        /\ assigned' = [assigned EXCEPT ![v] = @ \cup {x}]
    BY <1>3 DEF SeedUserWithRole
  <2> QED
    BY <1>2, <2>1
<1>4. ASSUME NEW r \in Requests, InsertRoles(r)
      PROVE  HeldSince(u, role, t)'
  <2>1. req[r].user \in Users /\ req[r].roles \in SUBSET RoleCodes
    BY <1>4, RequestType DEF InsertRoles, TypeInv, TablesInv
  <2> QED
    BY <1>2, <1>4, <2>1 DEF InsertRoles, history
<1>5. ASSUME NEW r \in Requests, DeleteRoles(r)
      PROVE  HeldSince(u, role, t)'
  <2> DEFINE v == req[r].user
             lost == [x \in RoleCodes |-> IF x \in assigned[v] THEN now
                                          ELSE held[v][x]]
  <2>1. /\ held' = [held EXCEPT ![v] = lost]
        /\ assigned' = [assigned EXCEPT ![v] = {}]
    BY <1>5 DEF DeleteRoles
  <2>2. lost[role] = IF role \in assigned[v] THEN now ELSE held[v][role]
    OBVIOUS
  <2> HIDE DEF lost, v
  <2>3. held' = [held EXCEPT ![v] = lost] /\ DOMAIN held = Users
    BY <2>1 DEF TypeInv, ClockInv
  <2>4. u # v => held'[u] = held[u] /\ assigned'[u] = assigned[u]
    BY <2>1, <2>3 DEF TypeInv, TablesInv
  <2>5. u = v => held'[u][role] = IF role \in assigned[v] THEN now
                                  ELSE held[v][role]
    BY <2>2, <2>3
  <2> QED
    BY <2>4, <2>5, Times DEF HeldSince
<1>6. ASSUME NEW r \in Requests, NEW q, Starts(r, q)
      PROVE  UNCHANGED <<assigned, held>>
  BY <1>6 DEF Starts, history
<1>7. ASSUME \/ UNCHANGED vars \/ Tick \/ SyncPermissions
             \/ \E r \in Requests :
                  \/ EnsureBrandsExist(r) \/ DeleteBrands(r)
                  \/ InsertBrands(r) \/ GetAssignments(r)
                  \/ GetPermissionCodes(r) \/ Sign(r) \/ Abort(r)
      PROVE  UNCHANGED <<assigned, held>>
  BY <1>7 DEF vars, tables, history, Tick, SyncPermissions, EnsureBrandsExist,
              DeleteBrands, InsertBrands, GetAssignments, GetPermissionCodes,
              Sign, Abort
<1> QED
  BY <1>1, <1>3, <1>4, <1>5, <1>6, <1>7, Steps

(* The grants change once; those of before are remembered with the time.   *)
LEMMA GrantsStep ==
  ASSUME TypeInv, [Next]_vars
  PROVE  \/ UNCHANGED <<grants, former, until>>
         \/ SyncPermissions
<1>1. ASSUME NEW r \in Requests, NEW q, Starts(r, q)
      PROVE  UNCHANGED <<grants, former, until>>
  BY <1>1 DEF Starts, history
<1>2. ASSUME NEW r \in Requests,
             \/ DeleteRoles(r) \/ InsertRoles(r) \/ EnsureBrandsExist(r)
             \/ DeleteBrands(r) \/ InsertBrands(r) \/ GetAssignments(r)
             \/ GetPermissionCodes(r) \/ Sign(r) \/ Abort(r)
      PROVE  UNCHANGED <<grants, former, until>>
  BY <1>2 DEF tables, history, DeleteRoles, InsertRoles, EnsureBrandsExist,
              DeleteBrands, InsertBrands, GetAssignments, GetPermissionCodes,
              Sign, Abort
<1>3. ASSUME \/ UNCHANGED vars \/ Tick
             \/ \E u \in Users, role \in RoleCodes : SeedUserWithRole(u, role)
      PROVE  UNCHANGED <<grants, former, until>>
  BY <1>3 DEF vars, tables, history, Tick, SeedUserWithRole
<1> QED
  BY <1>1, <1>2, <1>3, Steps

LEMMA KeepsGranted ==
  ASSUME TypeInv, [Next]_vars, NEW role \in RoleCodes, NEW c, NEW t \in Nat,
         t <= now, GrantedSince(role, c, t)
  PROVE  GrantedSince(role, c, t)'
<1>1. CASE UNCHANGED <<grants, former, until>>
  BY <1>1 DEF GrantedSince
<1>2. CASE SyncPermissions
  <2>1. CASE grants = RoleDefinitions
    BY <1>1, <1>2, <2>1 DEF SyncPermissions
  <2>2. CASE grants # RoleDefinitions
    <3>1. former[role] = {} /\ former' = grants /\ until' = now
      BY <1>2, <2>2 DEF SyncPermissions, TypeInv, ClockInv
    <3> QED
      BY <3>1 DEF GrantedSince
  <2> QED
    BY <2>1, <2>2
<1> QED
  BY <1>1, <1>2, GrantsStep

LEMMA KeepsSince ==
  ASSUME TypeInv, [Next]_vars, NEW u \in Users, NEW t \in Nat, t <= now
  PROVE  /\ \A roles \in SUBSET RoleCodes :
              RolesSince(u, roles, t) => RolesSince(u, roles, t)'
         /\ \A codes \in SUBSET PermissionCodes :
              CodesSince(u, codes, t) => CodesSince(u, codes, t)'
<1>1. \A role \in RoleCodes : HeldSince(u, role, t) => HeldSince(u, role, t)'
  BY KeepsHeld
<1>2. \A role \in RoleCodes, c \in PermissionCodes :
        GrantedSince(role, c, t) => GrantedSince(role, c, t)'
  BY KeepsGranted
<1> QED
  BY <1>1, <1>2 DEF RolesSince, CodesSince

LEMMA KeepsAge ==
  ASSUME TypeInv, [Next]_vars, NEW q \in Request, Aged(q),
         q.pc # "idle" => q.user \in Users /\ q.began <= now
  PROVE  Aged(q)'
<1>1. /\ q.began \in Nat /\ q.roles \in SUBSET RoleCodes
      /\ q.read \in SUBSET RoleCodes /\ q.permissions \in SUBSET PermissionCodes
  BY DEF Request
<1>2. CASE q.pc \notin {"assignments", "codes", "sign"}
  BY <1>2 DEF Aged
<1>3. CASE q.pc \in {"assignments", "codes", "sign"}
  <2>1. q.user \in Users /\ q.began <= now
    BY <1>3
  <2> QED
    BY <1>1, <1>3, <2>1, KeepsSince DEF Aged
<1> QED
  BY <1>2, <1>3

LEMMA AgedBegun ==
  ASSUME TypeInv, [Next]_vars, NEW r \in Requests, NEW q, Starts(r, q)
  PROVE  Aged(q)'
<1>1. q \in Request /\ (q.pc # "idle" => q.user \in Users /\ q.began <= now)
  BY DEF Starts, Sound
<1>2. Aged(q)
  BY DEF Starts, Aged, RolesSince, HeldSince
<1> QED
  BY <1>1, <1>2, KeepsAge

LEMMA AgedRead ==
  ASSUME TypeInv, AgeInv, [Next]_vars, NEW r \in Requests,
         GetAssignments(r) \/ GetPermissionCodes(r),
         NEW q \in Request, req'[r] = q
  PROVE  Aged(q)'
<1>1. PICK p \in Request : p = req[r]
  BY RequestType DEF GetAssignments, GetPermissionCodes
<1>2. /\ req[r].pc # "idle" /\ p.user \in Users /\ p.began <= now
      /\ p.roles \in SUBSET RoleCodes /\ p.read \in SUBSET RoleCodes
      /\ p.began \in Nat /\ Aged(p)
      /\ UNCHANGED <<assigned, grants, held, former, until>>
  BY <1>1, RequestType
  DEF GetAssignments, GetPermissionCodes, Request, AgeInv, tables, history
<1>3. q.user = p.user /\ q.roles = p.roles /\ q.began = p.began
  BY <1>1, Reads
<1>4. RolesSince(p.user, p.roles, p.began)'
  BY <1>1, <1>2, KeepsSince DEF Aged, GetAssignments, GetPermissionCodes
<1>5. CASE GetAssignments(r)
  <2>1. q.pc = "codes" /\ q.read = assigned[p.user]
    BY <1>1, <1>5, Reads
  <2>2. RolesSince(p.user, q.read, p.began)'
    BY <1>2, <2>1 DEF RolesSince, HeldSince
  <2> QED
    BY <1>3, <1>4, <2>1, <2>2 DEF Aged
<1>6. CASE GetPermissionCodes(r)
  <2>1. /\ q.pc = "sign"
        /\ q.permissions = UNION {grants[role] : role \in p.read}
    BY <1>1, <1>6, Reads
  <2>2. p.pc = "codes"
    BY <1>1, <1>6 DEF GetPermissionCodes
  <2>3. RolesSince(p.user, p.read, p.began)'
    BY <1>1, <1>2, <2>2, KeepsSince DEF Aged
  <2>4. CodesSince(p.user, q.permissions, p.began)'
    BY <1>2, <2>1, <2>3 DEF CodesSince, RolesSince, GrantedSince
  <2> QED
    BY <1>3, <1>4, <2>1, <2>4 DEF Aged
<1> QED
  BY <1>5, <1>6

LEMMA AgedRequests ==
  ASSUME TypeInv, AgeInv, [Next]_vars, NEW r \in Requests, NEW q \in Request,
         req'[r] = q
  PROVE  Aged(q)'
<1>0. /\ \A x \in Requests : Sound(req[x], users, known, now)
      /\ users \subseteq Users
  BY DEF TypeInv, RequestsInv, TablesInv
<1>1. CASE req'[r] = req[r]
  <2>1. Aged(q) /\ Sound(q, users, known, now)
    BY <1>0, <1>1 DEF AgeInv
  <2>2. q.pc # "idle" => q.user \in Users /\ q.began <= now
    BY <1>0, <2>1 DEF Sound
  <2> QED
    BY <2>1, <2>2, KeepsAge
<1>2. ASSUME NEW x \in Requests, NEW p, Starts(x, p)
      PROVE  Aged(q)'
  <2>1. req' = [req EXCEPT ![x] = p] /\ DOMAIN req = Requests
    BY <1>2 DEF Starts, TypeInv, RequestsInv
  <2>2. CASE r = x
    BY <1>2, <2>1, <2>2, AgedBegun
  <2>3. CASE r # x
    BY <1>1, <2>1, <2>3
  <2> QED
    BY <2>2, <2>3
<1>3. ASSUME NEW x \in Requests, GetAssignments(x) \/ GetPermissionCodes(x)
      PROVE  Aged(q)'
  <2>1. CASE r = x
    BY <1>3, <2>1, AgedRead
  <2>2. CASE r # x
    BY <1>1, <1>3, <2>2, Reads
  <2> QED
    BY <2>1, <2>2
<1>4. ASSUME NEW x \in Requests,
             \/ DeleteRoles(x) \/ InsertRoles(x) \/ EnsureBrandsExist(x)
             \/ DeleteBrands(x) \/ InsertBrands(x) \/ Sign(x) \/ Abort(x)
      PROVE  Aged(q)'
  <2>1. PICK pc : /\ Goto(x, pc) /\ req[x].pc # "idle"
                  /\ pc \in {"idle", "insert roles", "check brands",
                            "delete brands", "insert brands"}
    BY <1>4, AfterRolesType
    DEF DeleteRoles, InsertRoles, EnsureBrandsExist, DeleteBrands,
        InsertBrands, Sign, Abort
  <2>2. /\ req' = [req EXCEPT ![x] = IF pc = "idle" THEN Idle
                                     ELSE [req[x] EXCEPT !.pc = pc]]
        /\ DOMAIN req = Requests
    BY <2>1 DEF Goto, TypeInv, RequestsInv
  <2>3. CASE r = x
    <3>1. q.pc = pc
      BY <2>1, <2>2, <2>3, RequestType, IdleType DEF Request
    <3> QED
      BY <2>1, <3>1 DEF Aged
  <2>4. CASE r # x
    BY <1>1, <2>2, <2>4
  <2> QED
    BY <2>3, <2>4
<1>5. ASSUME \/ UNCHANGED vars \/ Tick \/ SyncPermissions
             \/ \E u \in Users, role \in RoleCodes : SeedUserWithRole(u, role)
      PROVE  req' = req
  BY <1>5 DEF vars, Tick, SyncPermissions, SeedUserWithRole
<1> QED
  BY <1>1, <1>2, <1>3, <1>4, <1>5, Steps

(* A token is issued, expires, or stays as it is.                          *)
LEMMA TokensFrom ==
  ASSUME TypeInv, [Next]_vars, NEW u \in Users, token'[u] # None
  PROVE  \/ token'[u] = token[u]
         \/ \E r \in Requests : Sign(r) /\ u = req[r].user
<1>1. CASE Tick
  BY <1>1 DEF Tick
<1>2. ASSUME NEW r \in Requests, Sign(r)
      PROVE  token'[u] = token[u] \/ u = req[r].user
  BY <1>2, Signed
<1>3. ASSUME NEW r \in Requests, NEW q, Starts(r, q)
      PROVE  token' = token
  BY <1>3 DEF Starts
<1>4. ASSUME \/ UNCHANGED vars \/ SyncPermissions
             \/ \E v \in Users, role \in RoleCodes : SeedUserWithRole(v, role)
             \/ \E r \in Requests :
                  \/ DeleteRoles(r) \/ InsertRoles(r) \/ EnsureBrandsExist(r)
                  \/ DeleteBrands(r) \/ InsertBrands(r) \/ GetAssignments(r)
                  \/ GetPermissionCodes(r) \/ Abort(r)
      PROVE  token' = token
  BY <1>4 DEF vars, SyncPermissions, SeedUserWithRole, DeleteRoles,
              InsertRoles, EnsureBrandsExist, DeleteBrands, InsertBrands,
              GetAssignments, GetPermissionCodes, Abort
<1> QED
  BY <1>1, <1>2, <1>3, <1>4, Steps

LEMMA AgedTokens ==
  ASSUME TypeInv, AgeInv, [Next]_vars, NEW u \in Users, NEW t \in Token,
         token'[u] = t
  PROVE  /\ RolesSince(u, t.roles, t.began)'
         /\ CodesSince(u, t.permissions, t.began)'
<1>0. /\ t # None /\ t.began \in Nat /\ t.roles \in SUBSET RoleCodes
      /\ t.permissions \in SUBSET PermissionCodes
  BY NoBearer DEF Token
<1>1. CASE token'[u] = token[u]
  <2>1. t.began <= t.signed /\ t.signed <= now /\ t.signed \in Nat /\ now \in Nat
    BY <1>0, <1>1, Times DEF TypeInv, TokensInv, Token
  <2>2. t.began <= now
    BY <1>0, <2>1
  <2>3. RolesSince(u, t.roles, t.began) /\ CodesSince(u, t.permissions, t.began)
    BY <1>1 DEF AgeInv
  <2> QED
    BY <1>0, <2>2, <2>3, KeepsSince
<1>2. ASSUME NEW r \in Requests, Sign(r), u = req[r].user
      PROVE  /\ RolesSince(u, t.roles, t.began)'
             /\ CodesSince(u, t.permissions, t.began)'
  <2>1. PICK q \in Request : q = req[r]
    BY <1>2, RequestType DEF Sign
  <2>2. /\ t.roles = q.roles /\ t.permissions = q.permissions
        /\ t.began = q.began /\ q.began <= now /\ u = q.user
    BY <1>2, <2>1, Signed
  <2>3. q.pc = "sign" /\ Aged(q)
    BY <1>2, <2>1 DEF AgeInv, Sign
  <2>4. RolesSince(u, t.roles, t.began) /\ CodesSince(u, t.permissions, t.began)
    BY <2>2, <2>3 DEF Aged
  <2> QED
    BY <1>0, <2>2, <2>4, KeepsSince
<1> QED
  BY <1>0, <1>1, <1>2, TokensFrom

LEMMA AgeStep == TypeInv /\ AgeInv /\ [Next]_vars => AgeInv'
BY AgedRequests, AgedTokens DEF AgeInv

LEMMA AgeInit == Init => AgeInv
<1> SUFFICES ASSUME Init PROVE AgeInv
  OBVIOUS
<1>1. \A r \in Requests : req[r].pc = "idle"
  BY IdleType DEF Init
<1>2. \A u \in Users, t \in Token : token[u] # t
  BY NoBearer DEF Init
<1> QED
  BY <1>1, <1>2 DEF AgeInv, Aged

LEMMA AgeImplied == TypeInv /\ AgeInv => RevokedAccessExpires
<1> SUFFICES ASSUME TypeInv, AgeInv, NEW u \in Users, NEW t \in Token,
                    t = token[u]
             PROVE  LET recent == now - (AccessTTL + (t.signed - t.began)) + 1
                    IN  /\ \A role \in t.roles : HeldSince(u, role, recent)
                        /\ \A c \in t.permissions : \E role \in RoleCodes :
                             /\ HeldSince(u, role, recent)
                             /\ GrantedSince(role, c, recent)
  BY DEF RevokedAccessExpires, TypeInv, TokensInv
<1> DEFINE recent == now - (AccessTTL + (t.signed - t.began)) + 1
<1>1. /\ t # None /\ t.began \in Nat /\ t.signed \in Nat
      /\ t.roles \in SUBSET RoleCodes
  BY NoBearer DEF Token
<1>2. now < t.signed + AccessTTL
  BY <1>1 DEF TypeInv, TokensInv
<1>3. recent \in Int /\ recent <= t.began
  BY <1>1, <1>2, Times, Constants
<1> HIDE DEF recent
<1>4. \A role \in RoleCodes : held[u][role] \in Nat
  BY DEF TypeInv, ClockInv
<1>5. \A role \in RoleCodes :
        HeldSince(u, role, t.began) => HeldSince(u, role, recent)
  BY <1>1, <1>3, <1>4 DEF HeldSince
<1>6. \A role \in RoleCodes, c \in t.permissions :
        GrantedSince(role, c, t.began) => GrantedSince(role, c, recent)
  BY <1>1, <1>3, Times DEF GrantedSince
<1>7. RolesSince(u, t.roles, t.began) /\ CodesSince(u, t.permissions, t.began)
  BY DEF AgeInv
<1>8. \A role \in t.roles : HeldSince(u, role, recent)
  BY <1>1, <1>5, <1>7 DEF RolesSince
<1>9. \A c \in t.permissions : \E role \in RoleCodes :
        HeldSince(u, role, recent) /\ GrantedSince(role, c, recent)
  BY <1>5, <1>6, <1>7 DEF CodesSince
<1> QED
  BY <1>8, <1>9 DEF recent

(* Guards look at nothing but the token: for any lifetime of a token and   *)
(* any number of overlapping requests, a role or code that a token still   *)
(* gives its bearer was the user's less than that lifetime, plus the time  *)
(* its handler took to issue it, ago.                                      *)
THEOREM AccessIsRecent == Spec => []RevokedAccessExpires
BY Typed, AgeInit, AgeStep, AgeImplied, PTL DEF Spec

-----------------------------------------------------------------------------
(* Behaviours whose requests do not overlap: at most one is in progress.   *)
(* A set is what was asked for last, or empty: its replacement is half way *)
(* or failed there.  A request that builds a token, and the token, have    *)
(* the codes of their roles.                                               *)

Alone ==
  \A x, y \in Requests : req[x].pc # "idle" /\ req[y].pc # "idle" => x = y

Half(u, pc) == \E r \in Requests : req[r].pc = pc /\ req[r].user = u

RolesWhole(u) ==
  assigned[u] = IF <<u, "roles">> \in torn \/ Half(u, "insert roles") THEN {}
                ELSE asked[u].roles

BrandsWhole(u) ==
  brands[u] = IF <<u, "brands">> \in torn \/ Half(u, "insert brands") THEN {}
              ELSE asked[u].brands

CodesOf(roles) == UNION {grants[role] : role \in roles}

Consistent(q) ==
  /\ q.pc = "insert roles" =>
       asked[q.user].roles = q.roles /\ <<q.user, "roles">> \notin torn
  /\ q.pc = "insert brands" =>
       asked[q.user].brands = q.brands /\ <<q.user, "brands">> \notin torn
  /\ q.pc = "assignments" => q.roles = assigned[q.user]
  /\ q.pc = "codes" => q.read = q.roles
  /\ q.pc = "sign" => q.permissions = CodesOf(q.roles)

SerialInv ==
  serial =>
    /\ Alone
    /\ \A u \in Users : RolesWhole(u) /\ BrandsWhole(u)
    /\ \A r \in Requests, q \in Request : req[r] = q => Consistent(q)
    /\ \A u \in Users, t \in Token :
         token[u] = t /\ t.began > until => t.permissions = CodesOf(t.roles)

Lone(r) == \A x \in Requests : x # r => req[x].pc = "idle"

(* Where requests do not overlap, a step is of the clock, begins with      *)
(* nothing in progress, or is of the only request.                         *)
LEMMA SerialSteps ==
  ASSUME TypeInv, Alone, serial, [Next]_vars
  PROVE  \/ UNCHANGED vars \/ Tick
         \/ Quiet /\ SyncPermissions
         \/ Quiet /\ \E u \in Users, role \in RoleCodes :
                       SeedUserWithRole(u, role)
         \/ Quiet /\ \E r \in Requests : \E q : Starts(r, q)
         \/ \E r \in Requests :
              /\ Lone(r) /\ req[r].pc # "idle"
              /\ \/ DeleteRoles(r) \/ InsertRoles(r) \/ EnsureBrandsExist(r)
                 \/ DeleteBrands(r) \/ InsertBrands(r) \/ GetAssignments(r)
                 \/ GetPermissionCodes(r) \/ Sign(r) \/ Abort(r)
<1>1. \A r \in Requests : req[r].pc # "idle" => Lone(r)
  BY DEF Alone, Lone
<1>2. ASSUME NEW r \in Requests,
             \/ DeleteRoles(r) \/ InsertRoles(r) \/ EnsureBrandsExist(r)
             \/ DeleteBrands(r) \/ InsertBrands(r) \/ GetAssignments(r)
             \/ GetPermissionCodes(r) \/ Sign(r) \/ Abort(r)
      PROVE  req[r].pc # "idle"
  BY <1>2 DEF DeleteRoles, InsertRoles, EnsureBrandsExist, DeleteBrands,
              InsertBrands, GetAssignments, GetPermissionCodes, Sign, Abort
<1>3. ASSUME NEW r \in Requests, NEW q, Starts(r, q)
      PROVE  Quiet
  BY <1>3 DEF Starts
<1>4. ASSUME NEW u \in Users, NEW role \in RoleCodes, SeedUserWithRole(u, role)
      PROVE  Quiet
  BY <1>4 DEF SeedUserWithRole
<1>5. SyncPermissions => Quiet
  BY DEF SyncPermissions
<1> QED
  BY <1>1, <1>2, <1>3, <1>4, <1>5, Steps

LEMMA Gone ==
  ASSUME TypeInv, NEW r \in Requests, NEW to, to # "idle", Goto(r, to)
  PROVE  req'[r].pc = to
<1>1. req \in [Requests -> Request]
  BY DEF TypeInv, RequestsInv
<1>2. req' = [req EXCEPT ![r] = [req[r] EXCEPT !.pc = to]]
  BY DEF Goto
<1> QED
  BY <1>1, <1>2 DEF Request

(* What a step of the only request does to the requests.                   *)
LEMMA LoneStep ==
  ASSUME TypeInv, NEW r \in Requests, Lone(r), req[r].pc # "idle",
         \/ DeleteRoles(r) \/ InsertRoles(r) \/ EnsureBrandsExist(r)
         \/ DeleteBrands(r) \/ InsertBrands(r) \/ GetAssignments(r)
         \/ GetPermissionCodes(r) \/ Sign(r) \/ Abort(r)
  PROVE  /\ \A x \in Requests : x # r => req'[x].pc = "idle"
         /\ req'[r].pc # "idle" => /\ req'[r].user = req[r].user
                                   /\ req'[r].roles = req[r].roles
         /\ req'[r].pc \in BrandWork \cup {"idle", "insert roles"} =>
              /\ Goto(r, req'[r].pc)
              /\ req'[r].pc # "idle" => req'[r].brands = req[r].brands
         /\ UNCHANGED serial
<1>1. CASE GetAssignments(r) \/ GetPermissionCodes(r)
  <2>1. /\ req'[r].pc \in {"codes", "sign"}
        /\ req'[r].user = req[r].user /\ req'[r].roles = req[r].roles
        /\ \A x \in Requests : x # r => req'[x] = req[x]
    BY <1>1, Reads
  <2>2. serial' = serial
    BY <1>1 DEF GetAssignments, GetPermissionCodes
  <2> QED
    BY <2>1, <2>2 DEF Lone, BrandWork
<1>2. ASSUME \/ DeleteRoles(r) \/ InsertRoles(r) \/ EnsureBrandsExist(r)
             \/ DeleteBrands(r) \/ InsertBrands(r) \/ Sign(r) \/ Abort(r)
      PROVE  /\ \A x \in Requests : x # r => req'[x].pc = "idle"
             /\ req'[r].pc # "idle" => /\ req'[r].user = req[r].user
                                       /\ req'[r].roles = req[r].roles
                                       /\ req'[r].brands = req[r].brands
             /\ Goto(r, req'[r].pc)
             /\ UNCHANGED serial
  <2>1. PICK pc \in {"idle", "insert roles", "check brands",
                      "delete brands", "insert brands"} :
          /\ Goto(r, pc) /\ UNCHANGED <<users, known, now, serial>>
          /\ pc \in BrandWork => req[r].brands \in SUBSET Brands
    <3>1. CASE DeleteRoles(r) \/ InsertRoles(r)
      BY <3>1, AfterRolesType DEF DeleteRoles, InsertRoles, BrandWork
    <3>2. CASE EnsureBrandsExist(r) \/ DeleteBrands(r) \/ InsertBrands(r)
      BY <3>2, RequestType
      DEF EnsureBrandsExist, DeleteBrands, InsertBrands, BrandWork, tables
    <3>3. CASE Sign(r) \/ Abort(r)
      BY <3>3 DEF Sign, Abort, tables, BrandWork
    <3> QED
      BY <1>2, <3>1, <3>2, <3>3
  <2>2. /\ req'[r].pc = pc
        /\ pc # "idle" => /\ req'[r].user = req[r].user
                          /\ req'[r].roles = req[r].roles
                          /\ req'[r].brands = req[r].brands
        /\ \A x \in Requests : x # r => req'[x] = req[x]
    BY <2>1, Went
  <2> QED
    BY <2>1, <2>2 DEF Lone
<1> QED
  BY <1>1, <1>2

LEMMA AloneStep ==
  ASSUME TypeInv, Alone, serial, [Next]_vars
  PROVE  Alone'
<1>1. CASE req' = req
  BY <1>1 DEF Alone
<1>2. ASSUME NEW r \in Requests, \A x \in Requests : x # r => req'[x].pc = "idle"
      PROVE  Alone'
  BY <1>2 DEF Alone
<1>3. ASSUME NEW r \in Requests, NEW q, Starts(r, q), Quiet
      PROVE  Alone'
  <2>1. \A x \in Requests : x # r => req'[x] = req[x]
    BY <1>3 DEF Starts, TypeInv, RequestsInv
  <2> QED
    BY <1>2, <1>3, <2>1 DEF Quiet
<1>4. ASSUME \/ UNCHANGED vars \/ Tick \/ SyncPermissions
             \/ \E u \in Users, role \in RoleCodes : SeedUserWithRole(u, role)
      PROVE  req' = req
  BY <1>4 DEF vars, Tick, SyncPermissions, SeedUserWithRole
<1> QED
  BY <1>1, <1>2, <1>3, <1>4, SerialSteps, LoneStep

(* Who is half way, before and after a step.                               *)
LEMMA HalfWay ==
  ASSUME TypeInv, NEW u \in Users, NEW pc \in {"insert roles", "insert brands"}
  PROVE  /\ Quiet => ~ Half(u, pc)
         /\ \A r \in Requests : \A q :
              Quiet /\ Starts(r, q) => ~ Half(u, pc)'
         /\ req' = req => (Half(u, pc)' <=> Half(u, pc))
         /\ \A r \in Requests :
              /\ Lone(r) => (Half(u, pc) <=> req[r].pc = pc /\ req[r].user = u)
              /\ (\A x \in Requests : x # r => req'[x].pc = "idle") =>
                   (Half(u, pc)' <=> req'[r].pc = pc /\ req'[r].user = u)
<1>1. (Quiet => ~ Half(u, pc)) /\ (req' = req => (Half(u, pc)' <=> Half(u, pc)))
  BY DEF Quiet, Half
<1>2. ASSUME NEW r \in Requests, NEW q, Quiet, Starts(r, q)
      PROVE  ~ Half(u, pc)'
  <2>1. /\ req'[r] = q /\ q.pc # pc
        /\ \A x \in Requests : x # r => req'[x] = req[x]
    BY <1>2 DEF Starts, TypeInv, RequestsInv
  <2> QED
    BY <1>2, <2>1 DEF Quiet, Half
<1>3. ASSUME NEW r \in Requests
      PROVE  /\ Lone(r) => (Half(u, pc) <=> req[r].pc = pc /\ req[r].user = u)
             /\ (\A x \in Requests : x # r => req'[x].pc = "idle") =>
                  (Half(u, pc)' <=> req'[r].pc = pc /\ req'[r].user = u)
  BY DEF Lone, Half
<1> QED
  BY <1>1, <1>2, <1>3

LEMMA RolesWholeStep ==
  ASSUME TypeInv, SerialInv, serial, [Next]_vars, NEW u \in Users
  PROVE  RolesWhole(u)'
<1> DEFINE pair == <<u, "roles">>
<1>0. RolesWhole(u) /\ Alone
  BY DEF SerialInv
<1>1. ASSUME assigned'[u] = assigned[u], asked'[u].roles = asked[u].roles,
             pair \in torn' <=> pair \in torn,
             Half(u, "insert roles")' <=> Half(u, "insert roles")
      PROVE  RolesWhole(u)'
  BY <1>0, <1>1 DEF RolesWhole
<1>2. CASE UNCHANGED vars \/ Tick \/ SyncPermissions
  <2>1. UNCHANGED <<assigned, asked, torn, req>>
    BY <1>2 DEF vars, tables, history, Tick, SyncPermissions
  <2> QED
    BY <1>1, <2>1, HalfWay
<1>3. ASSUME NEW r \in Requests, NEW q, Quiet, Starts(r, q)
      PROVE  RolesWhole(u)'
  BY <1>1, <1>3, HalfWay DEF Starts, history
<1>4. ASSUME NEW v \in Users, NEW role \in RoleCodes, Quiet,
             SeedUserWithRole(v, role)
      PROVE  RolesWhole(u)'
  <2>1. /\ assigned' = [assigned EXCEPT ![v] = @ \cup {role}] /\ req' = req
        /\ Ask(v, "roles", assigned[v] \cup {role})
        /\ torn' = torn \ {<<v, "roles">>}
    BY <1>4 DEF SeedUserWithRole, Ask
  <2>2. /\ assigned'[v] = assigned[v] \cup {role}
        /\ v # u => assigned'[u] = assigned[u]
        /\ assigned[v] \cup {role} \in SUBSET RoleCodes
    BY <2>1 DEF TypeInv, TablesInv
  <2>3. /\ asked'[v].roles = assigned[v] \cup {role}
        /\ v # u => asked'[u] = asked[u]
    BY <2>1, <2>2, AskedRoles
  <2>4. ~ Half(u, "insert roles") /\ ~ Half(u, "insert roles")'
    BY <1>4, <2>1, HalfWay
  <2>5. CASE v = u
    BY <2>1, <2>2, <2>3, <2>4, <2>5 DEF RolesWhole
  <2>6. CASE v # u
    BY <1>1, <2>1, <2>2, <2>3, <2>4, <2>6
  <2> QED
    BY <2>5, <2>6
<1>5. ASSUME NEW r \in Requests, Lone(r), req[r].pc # "idle",
             \/ DeleteRoles(r) \/ InsertRoles(r) \/ EnsureBrandsExist(r)
             \/ DeleteBrands(r) \/ InsertBrands(r) \/ GetAssignments(r)
             \/ GetPermissionCodes(r) \/ Sign(r) \/ Abort(r)
      PROVE  RolesWhole(u)'
  <2>0. PICK q \in Request : q = req[r]
    BY <1>5, RequestType
  <2>1. /\ Half(u, "insert roles") <=> q.pc = "insert roles" /\ q.user = u
        /\ Half(u, "insert roles")' <=> req'[r].pc = "insert roles" /\ q.user = u
    <3>1. /\ \A x \in Requests : x # r => req'[x].pc = "idle"
          /\ req'[r].pc # "idle" => req'[r].user = q.user
      BY <1>5, <2>0, LoneStep
    <3>2. /\ Half(u, "insert roles")
               <=> req[r].pc = "insert roles" /\ req[r].user = u
          /\ Half(u, "insert roles")'
               <=> req'[r].pc = "insert roles" /\ req'[r].user = u
      BY <1>5, <3>1, HalfWay
    <3> QED
      BY <2>0, <3>1, <3>2
  <2>2. q.user \in Users /\ q.roles \in SUBSET RoleCodes /\ Consistent(q)
    BY <1>5, <2>0, RequestType DEF TypeInv, TablesInv, SerialInv
  <2>3. CASE DeleteRoles(r)
    <3>1. /\ assigned' = [assigned EXCEPT ![q.user] = {}]
          /\ Ask(q.user, "roles", q.roles)
          /\ torn' = torn \ {<<q.user, "roles">>}
          /\ q.pc # "insert roles"
      BY <2>0, <2>3 DEF DeleteRoles, Ask
    <3>2. /\ asked'[q.user].roles = q.roles
          /\ q.user # u => asked'[u] = asked[u]
      BY <2>2, <3>1, AskedRoles
    <3>3. /\ assigned'[q.user] = {}
          /\ q.user # u => assigned'[u] = assigned[u]
      BY <2>2, <3>1 DEF TypeInv, TablesInv
    <3>4. q.roles # {} => req'[r].pc = "insert roles"
      <4>1. q.roles # {} => Goto(r, "insert roles")
        BY <2>0, <2>3 DEF DeleteRoles
      <4> QED
        BY <2>0, <4>1, Gone
    <3>5. CASE q.user = u
      BY <2>1, <3>1, <3>2, <3>3, <3>4, <3>5 DEF RolesWhole
    <3>6. CASE q.user # u
      BY <1>1, <2>1, <3>1, <3>2, <3>3, <3>6
    <3> QED
      BY <3>5, <3>6
  <2>4. CASE InsertRoles(r)
    <3>1. /\ assigned' = [assigned EXCEPT ![q.user] = @ \cup q.roles]
          /\ UNCHANGED <<asked, torn>> /\ q.pc = "insert roles"
          /\ Goto(r, AfterRoles(r))
      BY <2>0, <2>4 DEF InsertRoles, history
    <3>2. req'[r].pc # "insert roles"
      BY <1>5, <3>1, AfterRolesType, IdleType
      DEF Goto, TypeInv, RequestsInv, Request
    <3>3. /\ assigned'[q.user] = assigned[q.user] \cup q.roles
          /\ q.user # u => assigned'[u] = assigned[u]
      BY <2>2, <3>1 DEF TypeInv, TablesInv
    <3>4. /\ asked[q.user].roles = q.roles
          /\ <<q.user, "roles">> \notin torn
      BY <2>2, <3>1 DEF Consistent
    <3>5. CASE q.user = u
      <4>1. assigned[u] = {}
        BY <1>0, <2>1, <3>1, <3>5 DEF RolesWhole
      <4> QED
        BY <2>1, <3>1, <3>2, <3>3, <3>4, <3>5, <4>1 DEF RolesWhole
    <3>6. CASE q.user # u
      BY <1>1, <2>1, <3>1, <3>3, <3>6
    <3> QED
      BY <3>5, <3>6
  <2>5. CASE Abort(r) /\ q.pc = "insert roles"
    <3>1. /\ UNCHANGED <<assigned, asked>> /\ Goto(r, "idle")
          /\ torn' = torn \cup {<<q.user, "roles">>}
      BY <2>0, <2>5 DEF Abort, tables
    <3>2. req'[r].pc # "insert roles"
      BY <3>1, IdleType DEF Goto, TypeInv, RequestsInv
    <3>3. CASE q.user = u
      <4>1. assigned[u] = {}
        BY <1>0, <2>1, <2>5, <3>3 DEF RolesWhole
      <4> QED
        BY <3>1, <3>3, <4>1 DEF RolesWhole
    <3>4. CASE q.user # u
      BY <1>1, <2>1, <3>1, <3>4
    <3> QED
      BY <3>3, <3>4
  <2>6. CASE /\ q.pc # "insert roles"
             /\ \/ EnsureBrandsExist(r) \/ DeleteBrands(r) \/ InsertBrands(r)
                \/ GetAssignments(r) \/ GetPermissionCodes(r) \/ Sign(r)
                \/ Abort(r)
    <3>1. req'[r].pc # "insert roles"
      <4>1. CASE GetAssignments(r) \/ GetPermissionCodes(r)
        BY <4>1, Reads
      <4>2. CASE \/ EnsureBrandsExist(r) \/ DeleteBrands(r) \/ InsertBrands(r)
                 \/ Sign(r) \/ Abort(r)
        <5>1. PICK pc : Goto(r, pc)
                        /\ pc \in {"idle", "delete brands", "insert brands"}
          BY <4>2 DEF EnsureBrandsExist, DeleteBrands, InsertBrands, Sign, Abort
        <5> QED
          BY <1>5, <5>1, IdleType DEF Goto, TypeInv, RequestsInv, Request
      <4> QED
        BY <2>6, <4>1, <4>2
    <3>2. assigned' = assigned /\ (pair \in torn' <=> pair \in torn)
      BY <2>0, <2>6
      DEF EnsureBrandsExist, DeleteBrands, InsertBrands, GetAssignments,
          GetPermissionCodes, Sign, Abort, Ask, tables, history
    <3>3. CASE DeleteBrands(r)
      <4>1. q.brands \in SUBSET Brands /\ Ask(q.user, "brands", q.brands)
        BY <2>0, <3>3, RequestType DEF DeleteBrands, BrandWork
      <4>2. asked'[u].roles = asked[u].roles
        BY <2>2, <4>1, AskedBrands
      <4> QED
        BY <1>1, <2>1, <2>6, <3>1, <3>2, <4>2
    <3>4. CASE ~ DeleteBrands(r)
      <4>1. asked' = asked
        BY <2>6, <3>4
        DEF EnsureBrandsExist, InsertBrands, GetAssignments,
            GetPermissionCodes, Sign, Abort, history
      <4> QED
        BY <1>1, <2>1, <2>6, <3>1, <3>2, <4>1
    <3> QED
      BY <3>3, <3>4
  <2>7. (\/ EnsureBrandsExist(r) \/ DeleteBrands(r) \/ InsertBrands(r)
         \/ GetAssignments(r) \/ GetPermissionCodes(r) \/ Sign(r))
           => q.pc # "insert roles"
    BY <2>0
    DEF EnsureBrandsExist, DeleteBrands, InsertBrands, GetAssignments,
        GetPermissionCodes, Sign
  <2> QED
    BY <1>5, <2>3, <2>4, <2>5, <2>6, <2>7
<1> QED
  BY <1>0, <1>2, <1>3, <1>4, <1>5, SerialSteps

LEMMA BrandsWholeStep ==
  ASSUME TypeInv, SerialInv, serial, [Next]_vars, NEW u \in Users
  PROVE  BrandsWhole(u)'
<1> DEFINE pair == <<u, "brands">>
<1>0. BrandsWhole(u) /\ Alone
  BY DEF SerialInv
<1>1. ASSUME brands'[u] = brands[u], asked'[u].brands = asked[u].brands,
             pair \in torn' <=> pair \in torn,
             Half(u, "insert brands")' <=> Half(u, "insert brands")
      PROVE  BrandsWhole(u)'
  BY <1>0, <1>1 DEF BrandsWhole
<1>2. CASE UNCHANGED vars \/ Tick \/ SyncPermissions
  <2>1. UNCHANGED <<brands, asked, torn, req>>
    BY <1>2 DEF vars, tables, history, Tick, SyncPermissions
  <2> QED
    BY <1>1, <2>1, HalfWay
<1>3. ASSUME NEW r \in Requests, NEW q, Quiet, Starts(r, q)
      PROVE  BrandsWhole(u)'
  BY <1>1, <1>3, HalfWay DEF Starts, history
<1>4. ASSUME NEW v \in Users, NEW role \in RoleCodes, Quiet,
             SeedUserWithRole(v, role)
      PROVE  BrandsWhole(u)'
  <2>1. /\ UNCHANGED <<brands, req>>
        /\ Ask(v, "roles", assigned[v] \cup {role})
        /\ pair \in torn' <=> pair \in torn
    BY <1>4 DEF SeedUserWithRole, Ask
  <2>2. assigned[v] \cup {role} \in SUBSET RoleCodes
    BY DEF TypeInv, TablesInv
  <2>3. asked'[u].brands = asked[u].brands
    BY <2>1, <2>2, AskedRoles
  <2> QED
    BY <1>1, <2>1, <2>3, HalfWay
<1>5. ASSUME NEW r \in Requests, Lone(r), req[r].pc # "idle",
             \/ DeleteRoles(r) \/ InsertRoles(r) \/ EnsureBrandsExist(r)
             \/ DeleteBrands(r) \/ InsertBrands(r) \/ GetAssignments(r)
             \/ GetPermissionCodes(r) \/ Sign(r) \/ Abort(r)
      PROVE  BrandsWhole(u)'
  <2>0. PICK q \in Request : q = req[r]
    BY <1>5, RequestType
  <2>1. /\ Half(u, "insert brands") <=> q.pc = "insert brands" /\ q.user = u
        /\ Half(u, "insert brands")'
             <=> req'[r].pc = "insert brands" /\ q.user = u
    <3>1. /\ \A x \in Requests : x # r => req'[x].pc = "idle"
          /\ req'[r].pc # "idle" => req'[r].user = q.user
      BY <1>5, <2>0, LoneStep
    <3>2. /\ Half(u, "insert brands")
               <=> req[r].pc = "insert brands" /\ req[r].user = u
          /\ Half(u, "insert brands")'
               <=> req'[r].pc = "insert brands" /\ req'[r].user = u
      BY <1>5, <3>1, HalfWay
    <3> QED
      BY <2>0, <3>1, <3>2
  <2>2. /\ q.user \in Users /\ q.roles \in SUBSET RoleCodes /\ Consistent(q)
        /\ q.pc \in BrandWork => q.brands \in SUBSET Brands
    BY <1>5, <2>0, RequestType DEF TypeInv, TablesInv, SerialInv
  <2>3. CASE DeleteBrands(r)
    <3>1. /\ brands' = [brands EXCEPT ![q.user] = {}]
          /\ Ask(q.user, "brands", q.brands)
          /\ torn' = torn \ {<<q.user, "brands">>}
          /\ q.pc = "delete brands"
      BY <2>0, <2>3 DEF DeleteBrands, Ask
    <3>2. /\ asked'[q.user].brands = q.brands
          /\ q.user # u => asked'[u] = asked[u]
      BY <2>2, <3>1, AskedBrands DEF BrandWork
    <3>3. /\ brands'[q.user] = {}
          /\ q.user # u => brands'[u] = brands[u]
      BY <2>2, <3>1 DEF TypeInv, TablesInv
    <3>4. q.brands # {} => req'[r].pc = "insert brands"
      <4>1. q.brands # {} => Goto(r, "insert brands")
        BY <2>0, <2>3 DEF DeleteBrands
      <4> QED
        BY <2>0, <4>1, Gone
    <3>5. CASE q.user = u
      BY <2>1, <3>1, <3>2, <3>3, <3>4, <3>5 DEF BrandsWhole
    <3>6. CASE q.user # u
      BY <1>1, <2>1, <3>1, <3>2, <3>3, <3>6
    <3> QED
      BY <3>5, <3>6
  <2>4. CASE InsertBrands(r)
    <3>1. /\ brands' = [brands EXCEPT ![q.user] = @ \cup q.brands]
          /\ UNCHANGED <<asked, torn>> /\ q.pc = "insert brands"
          /\ Goto(r, "idle")
      BY <2>0, <2>4 DEF InsertBrands, history
    <3>2. req'[r].pc # "insert brands"
      BY <3>1, IdleType DEF Goto, TypeInv, RequestsInv
    <3>3. /\ brands'[q.user] = brands[q.user] \cup q.brands
          /\ q.user # u => brands'[u] = brands[u]
      BY <2>2, <3>1 DEF TypeInv, TablesInv
    <3>4. /\ asked[q.user].brands = q.brands
          /\ <<q.user, "brands">> \notin torn
      BY <2>2, <3>1 DEF Consistent
    <3>5. CASE q.user = u
      <4>1. brands[u] = {}
        BY <1>0, <2>1, <3>1, <3>5 DEF BrandsWhole
      <4> QED
        BY <2>1, <3>1, <3>2, <3>3, <3>4, <3>5, <4>1 DEF BrandsWhole
    <3>6. CASE q.user # u
      BY <1>1, <2>1, <3>1, <3>3, <3>6
    <3> QED
      BY <3>5, <3>6
  <2>5. CASE Abort(r) /\ q.pc = "insert brands"
    <3>1. /\ UNCHANGED <<brands, asked>> /\ Goto(r, "idle")
          /\ torn' = torn \cup {<<q.user, "brands">>}
      BY <2>0, <2>5 DEF Abort, tables
    <3>2. CASE q.user = u
      <4>1. brands[u] = {}
        BY <1>0, <2>1, <2>5, <3>2 DEF BrandsWhole
      <4> QED
        BY <3>1, <3>2, <4>1 DEF BrandsWhole
    <3>3. CASE q.user # u
      BY <1>1, <2>1, <3>1, <3>3
    <3> QED
      BY <3>2, <3>3
  <2>6. CASE /\ q.pc # "insert brands"
             /\ \/ DeleteRoles(r) \/ InsertRoles(r) \/ EnsureBrandsExist(r)
                \/ GetAssignments(r) \/ GetPermissionCodes(r) \/ Sign(r)
                \/ Abort(r)
    <3>1. req'[r].pc # "insert brands"
      <4>1. CASE GetAssignments(r) \/ GetPermissionCodes(r)
        BY <4>1, Reads
      <4>2. CASE \/ DeleteRoles(r) \/ InsertRoles(r) \/ EnsureBrandsExist(r)
                 \/ Sign(r) \/ Abort(r)
        <5>1. PICK pc : Goto(r, pc) /\ pc \in {"idle", "insert roles",
                                               "check brands", "delete brands"}
          BY <1>5, <4>2, AfterRolesType
          DEF DeleteRoles, InsertRoles, EnsureBrandsExist, Sign, Abort
        <5> QED
          BY <1>5, <5>1, IdleType DEF Goto, TypeInv, RequestsInv, Request
      <4> QED
        BY <2>6, <4>1, <4>2
    <3>2. brands' = brands /\ (pair \in torn' <=> pair \in torn)
      BY <2>0, <2>6
      DEF DeleteRoles, InsertRoles, EnsureBrandsExist, GetAssignments,
          GetPermissionCodes, Sign, Abort, Ask, tables, history
    <3>3. CASE DeleteRoles(r)
      <4>1. Ask(q.user, "roles", q.roles)
        BY <2>0, <3>3 DEF DeleteRoles
      <4>2. asked'[u].brands = asked[u].brands
        BY <2>2, <4>1, AskedRoles
      <4> QED
        BY <1>1, <2>1, <2>6, <3>1, <3>2, <4>2
    <3>4. CASE ~ DeleteRoles(r)
      <4>1. asked' = asked
        BY <2>6, <3>4
        DEF InsertRoles, EnsureBrandsExist, GetAssignments,
            GetPermissionCodes, Sign, Abort, history
      <4> QED
        BY <1>1, <2>1, <2>6, <3>1, <3>2, <4>1
    <3> QED
      BY <3>3, <3>4
  <2>7. (\/ DeleteRoles(r) \/ InsertRoles(r) \/ EnsureBrandsExist(r)
         \/ GetAssignments(r) \/ GetPermissionCodes(r) \/ Sign(r))
           => q.pc # "insert brands"
    BY <2>0
    DEF DeleteRoles, InsertRoles, EnsureBrandsExist, GetAssignments,
        GetPermissionCodes, Sign
  <2> QED
    BY <1>5, <2>3, <2>4, <2>5, <2>6, <2>7
<1> QED
  BY <1>0, <1>2, <1>3, <1>4, <1>5, SerialSteps

(* What a request has read is so: nothing but its own steps is between.    *)
LEMMA ConsistentStep ==
  ASSUME TypeInv, SerialInv, serial, [Next]_vars, NEW r \in Requests,
         NEW q \in Request, req'[r] = q
  PROVE  Consistent(q)'
<1>0. Alone
  BY DEF SerialInv
<1>1. CASE q.pc \notin {"insert roles", "insert brands", "assignments", "codes",
                       "sign"}
  BY <1>1 DEF Consistent
<1>2. CASE UNCHANGED vars \/ Tick
  <2>1. /\ req' = req /\ asked' = asked /\ torn' = torn
        /\ assigned' = assigned /\ grants' = grants
    BY <1>2 DEF vars, tables, history, Tick
  <2>2. Consistent(q)
    BY <2>1 DEF SerialInv
  <2>3. CodesOf(q.roles)' = CodesOf(q.roles)
    BY <2>1 DEF CodesOf
  <2> QED
    BY <2>1, <2>2, <2>3 DEF Consistent
<1>3. CASE Quiet /\ (SyncPermissions \/ \E u \in Users, role \in RoleCodes :
                                            SeedUserWithRole(u, role))
  <2>1. q.pc = "idle"
    BY <1>3 DEF Quiet, SyncPermissions, SeedUserWithRole
  <2> QED
    BY <1>1, <2>1
<1>4. ASSUME NEW x \in Requests, NEW p, Quiet, Starts(x, p)
      PROVE  Consistent(q)'
  <2>1. CASE r = x
    <3>1. q = p /\ assigned' = assigned
      BY <1>4, <2>1 DEF Starts, TypeInv, RequestsInv
    <3> QED
      BY <1>4, <3>1 DEF Starts, Consistent
  <2>2. CASE r # x
    <3>1. q.pc = "idle"
      BY <1>4, <2>2 DEF Starts, Quiet, TypeInv, RequestsInv
    <3> QED
      BY <1>1, <3>1
  <2> QED
    BY <2>1, <2>2
<1>5. ASSUME NEW x \in Requests, Lone(x), req[x].pc # "idle",
             \/ DeleteRoles(x) \/ InsertRoles(x) \/ EnsureBrandsExist(x)
             \/ DeleteBrands(x) \/ InsertBrands(x) \/ GetAssignments(x)
             \/ GetPermissionCodes(x) \/ Sign(x) \/ Abort(x)
      PROVE  Consistent(q)'
  <2>1. CASE r # x
    <3>1. q.pc = "idle"
      BY <1>5, <2>1, LoneStep
    <3> QED
      BY <1>1, <3>1
  <2>2. CASE r = x /\ GetAssignments(r)
    <3>1. PICK p \in Request : p = req[r]
      BY <1>5, <2>2, RequestType
    <3>2. /\ q.pc = "codes" /\ q.read = assigned[p.user]
          /\ q.roles = p.roles
      BY <2>2, <3>1, Reads
    <3>3. p.pc = "assignments" /\ Consistent(p)
      BY <2>2, <3>1 DEF GetAssignments, SerialInv
    <3> QED
      BY <3>2, <3>3 DEF Consistent
  <2>3. CASE r = x /\ GetPermissionCodes(r)
    <3>1. PICK p \in Request : p = req[r]
      BY <1>5, <2>3, RequestType
    <3>2. /\ q.pc = "sign" /\ q.roles = p.roles
          /\ q.permissions = CodesOf(p.read)
      BY <2>3, <3>1, Reads DEF CodesOf
    <3>3. p.pc = "codes" /\ Consistent(p) /\ grants' = grants
      BY <2>3, <3>1 DEF GetPermissionCodes, SerialInv, tables
    <3> QED
      BY <3>2, <3>3 DEF Consistent, CodesOf
  <2>4. CASE r = x /\ DeleteRoles(r)
    <3>1. PICK p \in Request : p = req[r]
      BY <1>5, <2>4, RequestType
    <3>2. Ask(p.user, "roles", p.roles) /\ torn' = torn \ {<<p.user, "roles">>}
      BY <2>4, <3>1 DEF DeleteRoles, Ask
    <3>3. p.user \in Users /\ p.roles \in SUBSET RoleCodes
      BY <1>5, <2>4, <3>1, RequestType DEF TypeInv, TablesInv
    <3>4. asked'[p.user].roles = p.roles
      BY <3>2, <3>3, AskedRoles
    <3>5. q.pc # "idle" => q.user = p.user /\ q.roles = p.roles
      BY <1>5, <2>4, <3>1, LoneStep
    <3>6. q.pc \in {"idle", "insert roles", "check brands", "delete brands"}
      <4>1. PICK pc : Goto(r, pc) /\ pc \in {"idle", "insert roles",
                                             "check brands", "delete brands"}
        BY <1>5, <2>4, AfterRolesType DEF DeleteRoles
      <4> QED
        BY <1>5, <2>4, <4>1, IdleType DEF Goto, TypeInv, RequestsInv, Request
    <3> QED
      BY <3>2, <3>4, <3>5, <3>6 DEF Consistent
  <2>5. CASE r = x /\ DeleteBrands(r)
    <3>1. PICK p \in Request : p = req[r]
      BY <1>5, <2>5, RequestType
    <3>2. /\ Ask(p.user, "brands", p.brands)
          /\ torn' = torn \ {<<p.user, "brands">>}
      BY <2>5, <3>1 DEF DeleteBrands, Ask
    <3>3. p.user \in Users /\ p.brands \in SUBSET Brands
      BY <1>5, <2>5, <3>1, RequestType DEF DeleteBrands, BrandWork
    <3>4. asked'[p.user].brands = p.brands
      BY <3>2, <3>3, AskedBrands
    <3>5. PICK pc \in {"idle", "insert brands"} : Goto(r, pc)
      BY <2>5 DEF DeleteBrands
    <3>6. q.pc = pc
      BY <1>5, <2>5, <3>5, IdleType DEF Goto, TypeInv, RequestsInv, Request
    <3>7. q.pc # "idle" => q.user = p.user /\ q.brands = p.brands
      BY <1>5, <2>5, <3>1, <3>5, <3>6, LoneStep DEF BrandWork
    <3> QED
      BY <3>2, <3>4, <3>5, <3>6, <3>7 DEF Consistent
  <2>6. CASE /\ r = x
             /\ \/ InsertRoles(r) \/ EnsureBrandsExist(r) \/ InsertBrands(r)
                \/ Sign(r) \/ Abort(r)
    <3>1. PICK pc : Goto(r, pc)
                    /\ pc \in {"idle", "check brands", "delete brands"}
      BY <1>5, <2>6, AfterRolesType
      DEF InsertRoles, EnsureBrandsExist, InsertBrands, Sign, Abort
    <3>2. q.pc = pc
      BY <1>5, <2>6, <3>1, IdleType DEF Goto, TypeInv, RequestsInv, Request
    <3> QED
      BY <1>1, <3>1, <3>2
  <2> QED
    BY <1>5, <2>1, <2>2, <2>3, <2>4, <2>5, <2>6
<1> QED
  BY <1>0, <1>2, <1>3, <1>4, <1>5, SerialSteps

LEMMA TokenCodesStep ==
  ASSUME TypeInv, SerialInv, serial, [Next]_vars, NEW u \in Users,
         NEW t \in Token, token'[u] = t, t.began > until'
  PROVE  t.permissions = CodesOf(t.roles)'
<1>0. t # None /\ t.began \in Nat
  BY NoBearer DEF Token
<1>1. CASE token'[u] = token[u] /\ UNCHANGED <<grants, until>>
  BY <1>1 DEF SerialInv, CodesOf
<1>2. CASE token'[u] = token[u] /\ SyncPermissions
  <2>1. CASE grants = RoleDefinitions
    BY <1>1, <1>2, <2>1 DEF SyncPermissions
  <2>2. CASE grants # RoleDefinitions
    <3>1. until' = now
      BY <1>2, <2>2 DEF SyncPermissions
    <3>2. t.began <= t.signed /\ t.signed <= now /\ t.signed \in Nat
      BY <1>0, <1>2 DEF TypeInv, TokensInv, Token
    <3> QED
      BY <1>0, <3>1, <3>2, Times
  <2> QED
    BY <2>1, <2>2
<1>3. ASSUME NEW r \in Requests, Sign(r), u = req[r].user
      PROVE  t.permissions = CodesOf(t.roles)'
  <2>1. PICK q \in Request : q = req[r]
    BY <1>3, RequestType DEF Sign
  <2>2. t.roles = q.roles /\ t.permissions = q.permissions
    BY <1>3, <2>1, Signed
  <2>3. q.pc = "sign" /\ Consistent(q)
    BY <1>3, <2>1 DEF Sign, SerialInv
  <2>4. CodesOf(q.roles)' = CodesOf(q.roles)
    BY <1>3 DEF Sign, tables, CodesOf
  <2> QED
    BY <2>2, <2>3, <2>4 DEF Consistent
<1> QED
  BY <1>0, <1>1, <1>2, <1>3, GrantsStep, TokensFrom

LEMMA SerialStep == TypeInv /\ SerialInv /\ [Next]_vars => SerialInv'
<1> SUFFICES ASSUME TypeInv, SerialInv, [Next]_vars, serial'
             PROVE  SerialInv'
  BY DEF SerialInv
<1>1. serial
  <2>1. ASSUME NEW r \in Requests, NEW q, Starts(r, q)
        PROVE  serial' = serial
    BY <2>1 DEF Starts
  <2>2. ASSUME NEW r \in Requests,
               \/ DeleteRoles(r) \/ InsertRoles(r) \/ EnsureBrandsExist(r)
               \/ DeleteBrands(r) \/ InsertBrands(r) \/ GetAssignments(r)
               \/ GetPermissionCodes(r) \/ Sign(r) \/ Abort(r)
        PROVE  serial' = serial
    BY <2>2 DEF DeleteRoles, InsertRoles, EnsureBrandsExist, DeleteBrands,
                InsertBrands, GetAssignments, GetPermissionCodes, Sign, Abort
  <2>3. ASSUME \/ UNCHANGED vars \/ Tick \/ SyncPermissions
               \/ \E u \in Users, role \in RoleCodes : SeedUserWithRole(u, role)
        PROVE  serial' = serial
    BY <2>3 DEF vars, Tick, SyncPermissions, SeedUserWithRole
  <2> QED
    BY <2>1, <2>2, <2>3, Steps
<1>2. Alone'
  BY <1>1, AloneStep DEF SerialInv
<1>3. \A u \in Users : RolesWhole(u)' /\ BrandsWhole(u)'
  BY <1>1, RolesWholeStep, BrandsWholeStep
<1>4. \A r \in Requests, q \in Request : req'[r] = q => Consistent(q)'
  BY <1>1, ConsistentStep
<1>5. \A u \in Users, t \in Token :
        token'[u] = t /\ t.began > until' => t.permissions = CodesOf(t.roles)'
  BY <1>1, TokenCodesStep
<1> QED
  BY <1>2, <1>3, <1>4, <1>5 DEF SerialInv

LEMMA SerialInit == Init => SerialInv
<1> SUFFICES ASSUME Init PROVE SerialInv
  OBVIOUS
<1>1. \A r \in Requests : req[r].pc = "idle"
  BY IdleType DEF Init
<1>2. \A u \in Users, t \in Token : token[u] # t
  BY NoBearer DEF Init
<1>3. ASSUME NEW u \in Users PROVE RolesWhole(u) /\ BrandsWhole(u)
  BY <1>1 DEF Init, RolesWhole, BrandsWhole, Half
<1> QED
  BY <1>1, <1>2, <1>3 DEF SerialInv, Alone, Consistent

LEMMA Serial == Spec => [](TypeInv /\ SerialInv)
<1>1. Init => TypeInv /\ SerialInv
  BY TypeInit, SerialInit
<1>2. TypeInv /\ SerialInv /\ [Next]_vars => (TypeInv /\ SerialInv)'
  BY TypeStep, SerialStep
<1> QED
  BY <1>1, <1>2, PTL DEF Spec

LEMMA WholeImplied == SerialInv => AssignmentsAreWhole
<1> SUFFICES ASSUME SerialInv, serial, Quiet, NEW u \in Users
             PROVE  LET roles == IF <<u, "roles">> \in torn THEN {}
                                 ELSE asked[u].roles IN
                      SerializeUser(u) =
                        [roles |-> roles,
                         permissions |-> UNION {grants[role] : role \in roles},
                         brandIds |-> IF <<u, "brands">> \in torn THEN {}
                                      ELSE asked[u].brands]
  BY DEF AssignmentsAreWhole
<1>1. ~ Half(u, "insert roles") /\ ~ Half(u, "insert brands")
  BY DEF Quiet, Half
<1>2. RolesWhole(u) /\ BrandsWhole(u)
  BY DEF SerialInv
<1>3. /\ assigned[u] = IF <<u, "roles">> \in torn THEN {} ELSE asked[u].roles
      /\ brands[u] = IF <<u, "brands">> \in torn THEN {} ELSE asked[u].brands
  BY <1>1, <1>2 DEF RolesWhole, BrandsWhole
<1> QED
  BY <1>3 DEF SerializeUser

LEMMA MeaningImplied == TypeInv /\ SerialInv => RolesMeanWhatTheySay
<1> SUFFICES ASSUME TypeInv, SerialInv, serial, grants = RoleDefinitions,
                    NEW u \in Users, token[u] # None, token[u].began > until
             PROVE  Passes(token[u]) =
                      OpenEndpoints \cup UNION {Reach[role] : role \in token[u].roles}
  BY RolesReachTheirs DEF RolesMeanWhatTheySay
<1>1. PICK t \in Token : t = token[u]
  BY DEF TypeInv, TokensInv
<1>2. t.roles \in SUBSET RoleCodes /\ t # None
  BY <1>1 DEF Token
<1>3. t.permissions = UNION {RoleDefinitions[role] : role \in t.roles}
  BY <1>1 DEF SerialInv, CodesOf
<1> QED
  BY <1>1, <1>2, <1>3, RolesPass

(* For any roles, brands and users: where requests do not overlap, the two *)
(* statements that replace a set leave what was asked for last, or nothing *)
(* if the request failed between them.                                     *)
THEOREM SetsAreReplaced == Spec => []AssignmentsAreWhole
BY Serial, WholeImplied, PTL

(* For any modules: what sync:permission writes, the two reads of a login  *)
(* or refresh copy and the guards compare is what the roles are for: the   *)
(* bearer passes what each of the token's roles passes, nothing else.      *)
THEOREM RolesMeanTheirs == Spec => []RolesMeanWhatTheySay
BY Serial, MeaningImplied, PTL
=============================================================================
