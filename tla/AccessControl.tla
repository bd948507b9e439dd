---------------------------- MODULE AccessControl ----------------------------
(***************************************************************************)
(* How access gets from Permissions to a token: npm run sync:permission    *)
(* writes roles and their codes, seeders and administrators assign roles   *)
(* and brands to users, login and refresh copy roles and codes into an     *)
(* access token, and the guards look at nothing but the token.             *)
(*                                                                         *)
(* Sessions are in UserSessions, the users' rows in UserAccounts.          *)
(***************************************************************************)
EXTENDS Permissions, Integers

CONSTANTS
  Users, Requests,
  Brands,
  Earlier,   \* [RoleCodes -> SUBSET PermissionCodes], as once synchronised
  Seeds,     \* the <<user, role>> that the seeders' environment names
  RoleSets,  \* the sets of roles that administrators ask for
  BrandSets, \* the sets of brands that administrators ask for
  Others,    \* tokens of administrators whose own rows are not looked at
  AccessTTL, \* jwt.accessExpiresIn, in units of the clock
  MaxTime    \* bound of the clock

ASSUME AccessAssumption ==
  /\ Earlier \in [RoleCodes -> SUBSET PermissionCodes]
  /\ Seeds \subseteq Users \X {"super_admin", "admin", "manager"}
  /\ RoleSets \subseteq SUBSET RoleCodes /\ BrandSets \subseteq SUBSET Brands
  /\ AccessTTL \in Nat \ {0} /\ MaxTime \in Nat \ {0}
  /\ None \notin Users

VARIABLES
  known,    \* the roles that have a row
  grants,   \* role_permissions: [RoleCodes -> SUBSET PermissionCodes]
  users,    \* the users that have a row
  assigned, \* user_role_assignments: [Users -> SUBSET RoleCodes]
  brands,   \* user_brands: [Users -> SUBSET Brands]
  token,    \* [Users -> Token or None]: one access token of each user
  now,
  req,      \* [Requests -> Request]
  serial,   \* nothing begins while a request is in progress
  held,     \* history: [Users -> [RoleCodes -> Nat]], when a role was lost
  former,   \* history: the grants before the last synchronisation
  until,    \* history: when that was
  asked,    \* history, if serial: [Users -> roles and brands last asked for]
  torn      \* history, if serial: the sets whose replacement failed half way

tables == <<known, grants, users, assigned, brands>>
history == <<held, former, until, asked, torn>>
vars == <<tables, token, now, req, serial, history>>

(* began: when its handler started to read, signed: when it was issued.    *)
Token == [roles: SUBSET RoleCodes, permissions: SUBSET PermissionCodes,
          began: Nat, signed: Nat]

(* What the guards see of a token.                                         *)
Bearer == [roles: SUBSET RoleCodes, permissions: SUBSET PermissionCodes]

ASSUME OthersAssumption == Others \subseteq Token
ASSUME NoBearer == None \notin Token \cup Bearer

(* A request: its await, its user; of an update, the roles and brands it   *)
(* assigns (brands: None if the dto has none); of a login or refresh, the  *)
(* roles of the token, the roles whose codes are read, and those codes.    *)
Request ==
  [pc: {"idle", "delete roles", "insert roles", "check brands",
        "delete brands", "insert brands", "assignments", "codes", "sign"},
   user: Users \cup {None}, roles: SUBSET RoleCodes,
   brands: (SUBSET Brands) \cup {None}, creates: BOOLEAN,
   read: SUBSET RoleCodes,
   permissions: SUBSET PermissionCodes, began: Nat]

Idle == [pc |-> "idle", user |-> None, roles |-> {}, brands |-> None,
         creates |-> FALSE, read |-> {}, permissions |-> {}, began |-> 0]

Init ==
  /\ \/ known = {} /\ grants = [role \in RoleCodes |-> {}]
     \/ known = RoleCodes /\ grants = Earlier
  /\ users = {}
  /\ assigned = [u \in Users |-> {}]
  /\ brands = [u \in Users |-> {}]
  /\ token = [u \in Users |-> None]
  /\ now = 1
  /\ req = [r \in Requests |-> Idle]
  /\ serial \in BOOLEAN
  /\ held = [u \in Users |-> [role \in RoleCodes |-> 0]]
  /\ former = [role \in RoleCodes |-> {}]
  /\ until = 0
  /\ asked = [u \in Users |-> [roles |-> {}, brands |-> {}]]
  /\ torn = {}

Quiet == \A r \in Requests : req[r].pc = "idle"

Administers(t, handler) ==
  /\ t # None => t.signed + AccessTTL > now
  /\ \E e \in UsersController :
       e.handler[2] = handler /\ Admits(e, t)

Ask(u, field, set) ==
  IF serial THEN /\ asked' = [asked EXCEPT ![u][field] = set]
                 /\ torn' = torn \ {<<u, field>>}
  ELSE UNCHANGED <<asked, torn>>

HeldSince(u, role, t) == role \in assigned[u] \/ held[u][role] >= t

GrantedSince(role, c, t) ==
  c \in grants[role] \/ (c \in former[role] /\ until >= t)

-----------------------------------------------------------------------------
(* Commands of the operator.                                               *)

(* One transaction: codes and roles are upserted, the mappings of every    *)
(* defined role deleted and inserted again.                                *)
SyncPermissions ==
  /\ serial => Quiet
  /\ known' = known \cup RoleCodes
  /\ grants' = RoleDefinitions
  /\ IF grants = RoleDefinitions THEN UNCHANGED <<former, until>>
     ELSE former' = grants /\ until' = now
  /\ UNCHANGED <<users, assigned, brands, token, now, req, serial, held, asked,
                 torn>>

(* Mutant: the seeder assigns a role that is not there yet.                *)
SeedUserWithRole_NoSkip(u, role) ==
  /\ serial => Quiet
  /\ <<u, role>> \in Seeds
  /\ users' = users \cup {u}
  /\ assigned' = [assigned EXCEPT ![u] = @ \cup {role}]
  /\ Ask(u, "roles", assigned[u] \cup {role})
  /\ UNCHANGED <<known, grants, brands, token, now, req, serial, held, former,
                 until>>

(* One transaction; without the role's row the seeder is skipped.          *)
SeedUserWithRole(u, role) ==
  /\ serial => Quiet
  /\ <<u, role>> \in Seeds /\ role \in known
  /\ users' = users \cup {u}
  /\ assigned' = [assigned EXCEPT ![u] = @ \cup {role}]
  /\ Ask(u, "roles", assigned[u] \cup {role})
  /\ UNCHANGED <<known, grants, brands, token, now, req, serial, held, former,
                 until>>

-----------------------------------------------------------------------------
(* Administrators, each with the token t.                                  *)

Begin(r, request) ==
  /\ req[r].pc = "idle"
  /\ serial => Quiet
  /\ req' = [req EXCEPT ![r] = request]
  /\ UNCHANGED <<known, grants, assigned, brands, token, now, serial, history>>

(* An unknown id is refused.                                               *)
ResolveRoles(roles) == roles \subseteq known

(* resolveRoles and ensureBrandsExist come before the row is saved.        *)
CreateUser(r, t, u, roles, brandIds) ==
  /\ Administers(t, "create") /\ u \notin users /\ ResolveRoles(roles)
  /\ users' = users \cup {u}
  /\ Begin(r, [Idle EXCEPT !.pc = "delete roles", !.user = u, !.roles = roles,
                           !.brands = brandIds, !.creates = TRUE])

(* An update with roleIds; brandIds is None where the dto has none.        *)
UpdateRoles(r, t, u, roles, brandIds) ==
  /\ Administers(t, "update") /\ u \in users /\ ResolveRoles(roles)
  /\ UNCHANGED users
  /\ Begin(r, [Idle EXCEPT !.pc = "delete roles", !.user = u, !.roles = roles,
                           !.brands = brandIds])

(* An update with brandIds only.                                           *)
UpdateBrands(r, t, u, brandIds) ==
  /\ Administers(t, "update") /\ u \in users
  /\ UNCHANGED users
  /\ Begin(r, [Idle EXCEPT !.pc = "check brands", !.user = u,
                           !.brands = brandIds])

Goto(r, pc) == req' = [req EXCEPT ![r] = IF pc = "idle" THEN Idle
                                         ELSE [@ EXCEPT !.pc = pc]]

(* What follows the roles: the brands of a new user were checked already.  *)
AfterRoles(r) ==
  IF req[r].brands = None THEN "idle"
  ELSE IF req[r].creates THEN "delete brands" ELSE "check brands"

(* Mutant: assignments are only added.                                     *)
DeleteRoles_AddOnly(r) ==
  LET u == req[r].user IN
    /\ req[r].pc = "delete roles"
    /\ Ask(u, "roles", req[r].roles)
    /\ Goto(r, IF req[r].roles = {} THEN AfterRoles(r) ELSE "insert roles")
    /\ UNCHANGED <<tables, token, now, serial, held, former, until>>

DeleteRoles(r) ==
  LET u == req[r].user IN
    /\ req[r].pc = "delete roles"
    /\ assigned' = [assigned EXCEPT ![u] = {}]
    /\ held' = [held EXCEPT ![u] = [role \in RoleCodes |->
                  IF role \in assigned[u] THEN now ELSE @[role]]]
    /\ Ask(u, "roles", req[r].roles)
    /\ Goto(r, IF req[r].roles = {} THEN AfterRoles(r) ELSE "insert roles")
    /\ UNCHANGED <<known, grants, users, brands, token, now, serial, former,
                   until>>

InsertRoles(r) ==
  /\ req[r].pc = "insert roles"
  /\ assigned' = [assigned EXCEPT ![req[r].user] = @ \cup req[r].roles]
  /\ Goto(r, AfterRoles(r))
  /\ UNCHANGED <<known, grants, users, brands, token, now, serial, history>>

(* A brand that does not exist ends the update here, its roles replaced.   *)
EnsureBrandsExist(r) ==
  /\ req[r].pc = "check brands"
  /\ \/ Goto(r, "delete brands")
     \/ req[r].brands # {} /\ Goto(r, "idle")
  /\ UNCHANGED <<tables, token, now, serial, history>>

DeleteBrands(r) ==
  LET u == req[r].user IN
    /\ req[r].pc = "delete brands"
    /\ brands' = [brands EXCEPT ![u] = {}]
    /\ Ask(u, "brands", req[r].brands)
    /\ Goto(r, IF req[r].brands = {} THEN "idle" ELSE "insert brands")
    /\ UNCHANGED <<known, grants, users, assigned, token, now, serial, held,
                   former, until>>

(* save(mappings) of rows whose key is the pair: those there are updated.  *)
InsertBrands(r) ==
  /\ req[r].pc = "insert brands"
  /\ brands' = [brands EXCEPT ![req[r].user] = @ \cup req[r].brands]
  /\ Goto(r, "idle")
  /\ UNCHANGED <<known, grants, users, assigned, token, now, serial, history>>

-----------------------------------------------------------------------------
(* Login and refresh: the roles, then the assignments again, the codes of  *)
(* their roles, and the signature.                                         *)

(* (A bound: the tokens of a user do not meet, so one is looked at, from   *)
(* its first await until it expires.)                                      *)
GetRoleCodes(r, u) ==
  /\ u \in users /\ token[u] = None
  /\ \A x \in Requests : req[x].pc \notin {"assignments", "codes", "sign"}
  /\ UNCHANGED users
  /\ Begin(r, [Idle EXCEPT !.pc = "assignments", !.user = u,
                           !.roles = assigned[u], !.began = now])

GetAssignments(r) ==
  /\ req[r].pc = "assignments"
  /\ req' = [req EXCEPT ![r].pc = "codes", ![r].read = assigned[req[r].user]]
  /\ UNCHANGED <<tables, token, now, serial, history>>

GetPermissionCodes(r) ==
  /\ req[r].pc = "codes"
  /\ req' = [req EXCEPT ![r].pc = "sign",
               ![r].permissions = UNION {grants[role] : role \in req[r].read}]
  /\ UNCHANGED <<tables, token, now, serial, history>>

Sign(r) ==
  LET q == req[r] IN
    /\ q.pc = "sign"
    /\ token' = [token EXCEPT ![q.user] =
                   [roles |-> q.roles, permissions |-> q.permissions,
                    began |-> q.began, signed |-> now]]
    /\ Goto(r, "idle")
    /\ UNCHANGED <<tables, now, serial, history>>

-----------------------------------------------------------------------------
(* What the answers of UsersController say of a user.                      *)
SerializeUser(u) ==
  [roles |-> assigned[u], brandIds |-> brands[u],
   permissions |-> UNION {grants[role] : role \in assigned[u]}]

(* A request fails, or its process dies, at any await.                     *)
Abort(r) ==
  /\ req[r].pc # "idle"
  /\ LET u == req[r].user IN
       torn' = CASE ~ serial -> torn
                 [] req[r].pc = "insert roles" -> torn \cup {<<u, "roles">>}
                 [] req[r].pc = "insert brands" -> torn \cup {<<u, "brands">>}
                 [] OTHER -> torn
  /\ Goto(r, "idle")
  /\ UNCHANGED <<tables, token, now, serial, held, former, until, asked>>

(* Mutant: ignoreExpiration.                                               *)
Tick_NoExpiry ==
  /\ now < MaxTime
  /\ now' = now + 1
  /\ UNCHANGED <<tables, token, req, serial, history>>

(* JwtStrategy refuses a token that has expired: it is as good as none.    *)
Tick ==
  /\ now < MaxTime
  /\ now' = now + 1
  /\ token' = [u \in Users |->
       IF token[u] # None /\ token[u].signed + AccessTTL > now + 1
       THEN token[u] ELSE None]
  /\ UNCHANGED <<tables, req, serial, history>>

Next ==
  \/ Tick \/ SyncPermissions
  \/ \E u \in Users, role \in RoleCodes : SeedUserWithRole(u, role)
  \/ \E r \in Requests :
       \/ DeleteRoles(r) \/ InsertRoles(r) \/ EnsureBrandsExist(r)
       \/ DeleteBrands(r) \/ InsertBrands(r)
       \/ GetAssignments(r) \/ GetPermissionCodes(r) \/ Sign(r) \/ Abort(r)
       \/ \E u \in Users :
            \/ GetRoleCodes(r, u)
            \/ \E t \in {token[a] : a \in Users} \cup Others, b \in BrandSets :
                 \/ UpdateBrands(r, t, u, b)
                 \/ \E roles \in RoleSets :
                      \/ CreateUser(r, t, u, roles, b)
                      \/ UpdateRoles(r, t, u, roles, b)
                      \/ UpdateRoles(r, t, u, roles, None)

Spec == Init /\ [][Next]_vars

-----------------------------------------------------------------------------
(* The tables, tokens and requests keep their shape; only existing users   *)
(* have roles, brands or tokens, only existing roles are assigned.         *)
TypeOK ==
  /\ known \subseteq RoleCodes
  /\ grants \in [RoleCodes -> SUBSET PermissionCodes]
  /\ assigned \in [Users -> SUBSET known]
  /\ brands \in [Users -> SUBSET Brands]
  /\ \A u \in Users \ users :
       assigned[u] = {} /\ brands[u] = {} /\ token[u] = None
  /\ \A u \in Users : token[u] # None => token[u] \in Token
  /\ \A r \in Requests : req[r] \in Request
  /\ now \in 1 .. MaxTime

(* The guards look at the token only: whatever overlaps, a role or a code  *)
(* that a token still gives its bearer was the user's less than AccessTTL, *)
(* plus the time the handler took to issue it, ago.                        *)
RevokedAccessExpires ==
  \A u \in Users : token[u] # None =>
    LET t == token[u]
        recent == now - (AccessTTL + (t.signed - t.began)) + 1 IN
      /\ \A role \in t.roles : HeldSince(u, role, recent)
      /\ \A c \in t.permissions : \E role \in RoleCodes :
           HeldSince(u, role, recent) /\ GrantedSince(role, c, recent)

(* The endpoints that take a token or nothing, and those that each role is *)
(* for besides.                                                            *)
OpenEndpoints == {e \in Endpoints : e.permissions = {} /\ e.roles = {}}

Reach ==
  LET guarded == {e \in Endpoints : e.permissions # {}} IN
    [role \in RoleCodes |->
       CASE role \in {"super_admin", "admin"} -> Endpoints
         [] role = "manager" -> guarded
         [] role = "auditor" -> {e \in guarded : e.get}
         [] role = "agent" -> {}]

Passes(t) == {e \in Endpoints : Admits(e, t)}

(* Who has exactly one role passes exactly its endpoints.                  *)
RolesReach ==
  \A role \in RoleCodes :
    Passes([roles |-> {role}, permissions |-> RoleDefinitions[role]])
      = OpenEndpoints \cup Reach[role]

(* RoleDefinitions says what the roles are for, tables and awaits are      *)
(* between it and the guards: who has one role passes every endpoint       *)
(* (super_admin, admin), every one but the list of roles (manager), those  *)
(* that read (auditor), those that take no more than a token (agent); and, *)
(* as long as requests do not overlap, the bearer of a token built since   *)
(* the last synchronisation passes what each of the token's roles passes.  *)
RolesMeanWhatTheySay ==
  /\ RolesReach
  /\ serial /\ grants = RoleDefinitions => \A u \in Users :
       token[u] # None => (token[u].began > until =>
         Passes(token[u]) =
           OpenEndpoints \cup UNION {Reach[role] : role \in token[u].roles})

(* syncUserRoles and syncUserBrands replace a set in two statements: as    *)
(* long as requests do not overlap, the roles and brands that are answered *)
(* for a user are those last asked for, with no code of a role the user    *)
(* lost, or none if that request failed between the statements.            *)
AssignmentsAreWhole ==
  serial /\ Quiet => \A u \in Users :
    LET roles == IF <<u, "roles">> \in torn THEN {} ELSE asked[u].roles IN
      SerializeUser(u) =
        [roles |-> roles,
         permissions |-> UNION {grants[role] : role \in roles},
         brandIds |-> IF <<u, "brands">> \in torn THEN {} ELSE asked[u].brands]
=============================================================================
