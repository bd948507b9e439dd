---------------------------- MODULE Permissions ----------------------------
(***************************************************************************)
(* What the code fixes about access: the permission codes, the roles and   *)
(* their codes, the endpoints of the controllers with what they require,   *)
(* and the guards.  AccessControl says how it gets into the database and   *)
(* into tokens.                                                            *)
(***************************************************************************)
CONSTANTS
  None,
  AppModules \* the modules told apart, of those of ModulePermissions

(* lead_stats, audit_log and dashboard can only be read.                   *)
ReadOnlyModules == {"lead_stats", "audit_log", "dashboard"}

ModulePermissions ==
  LET managed == {"company", "organization", "brand", "role", "user", "call",
                  "call_log", "lead_manual_update", "level2_update",
                  "level2_history", "fixed_lead", "sms", "email", "lead",
                  "additional_contact", "currently_hot", "recent_interest",
                  "ever_been_hot", "unassigned_hot", "closed_contact",
                  "notification", "settings", "queue"} IN
    [m \in managed \cup ReadOnlyModules |->
       IF m \in ReadOnlyModules THEN {"read"} ELSE {"read", "manage"}]

ASSUME ModulesAssumption ==
  /\ AppModules \subseteq DOMAIN ModulePermissions
  /\ {"company", "organization", "brand", "user"} \subseteq AppModules

(* A code `${module}.${action}` is the pair of the two.                    *)
PermissionCodes ==
  UNION {{<<m, a>> : a \in ModulePermissions[m]} : m \in AppModules}

AgentModules == {"call", "call_log", "lead_manual_update"}

RoleCodes == {"super_admin", "admin", "manager", "agent", "auditor"}

(* Mutant: the auditor's filter is forgotten.                              *)
RoleDefinitions_Unfiltered ==
  LET agent == {c \in PermissionCodes : c[1] \in AgentModules} IN
    [role \in RoleCodes |->
       CASE role = "manager" -> PermissionCodes \ agent
         [] role = "agent" -> agent
         [] OTHER -> PermissionCodes]

RoleDefinitions ==
  LET agent == {c \in PermissionCodes : c[1] \in AgentModules} IN
    [role \in RoleCodes |->
       CASE role \in {"super_admin", "admin"} -> PermissionCodes
         [] role = "manager" -> PermissionCodes \ agent
         [] role = "agent" -> agent
         [] role = "auditor" -> {c \in PermissionCodes : c[2] = "read"}]

-----------------------------------------------------------------------------
(* Endpoints: the handler, whether it only reads (GET), and what its       *)
(* decorators require: a token, all of some codes, one of some roles.      *)
Endpoint(controller, handler, get, codes, roles) ==
  [handler |-> <<controller, handler>>, get |-> get, token |-> TRUE,
   permissions |-> codes, roles |-> roles]

Public(controller, handler, get) ==
  [Endpoint(controller, handler, get, {}, {}) EXCEPT !.token = FALSE]

(* The five handlers that four controllers have in common.                 *)
Managed(controller, module) ==
  {Endpoint(controller, h, TRUE, {<<module, "read">>}, {}) :
     h \in {"findAll", "findOne"}}
  \cup {Endpoint(controller, h, FALSE, {<<module, "manage">>}, {}) :
          h \in {"create", "update", "remove"}}

OrganizationsController == Managed("organizations", "organization")
CompaniesController == Managed("companies", "company")
BrandsController == Managed("brands", "brand")
UsersController == Managed("users", "user")

RolesController ==
  {Endpoint("roles", "findAll", TRUE, {}, {"super_admin", "admin"})}

MediaController == {Endpoint("media", "upload", FALSE, {}, {})}

HealthController ==
  {Public("health", h, TRUE) : h \in {"check", "live", "ready"}}

(* AuthController, in three parts: signing in and out, ...                 *)
SignInEndpoints ==
  {Public("auth", h, FALSE) : h \in {"login", "refresh"}}
  \cup {Endpoint("auth", h, FALSE, {}, {}) :
          h \in {"logoutCurrent", "logoutAll"}}
  \cup {Endpoint("auth", "me", TRUE, {}, {})}

(* ... the handlers behind a mail, ...                                     *)
MailEndpoints ==
  {Public("auth", h, FALSE) : h \in {"verifyEmail", "forgotPassword",
                                     "resetPassword"}}
  \cup {Endpoint("auth", "resendVerificationEmail", FALSE, {}, {})}

(* ... and what users do with their own sessions and profile.              *)
ProfileEndpoints ==
  {Endpoint("auth", "getSessions", TRUE, {}, {})}
  \cup {Endpoint("auth", h, FALSE, {}, {}) : h \in {"revokeSession",
                                                    "updateProfile"}}

Endpoints ==
  UNION {OrganizationsController, CompaniesController, BrandsController,
         UsersController, RolesController, MediaController, HealthController,
         SignInEndpoints, MailEndpoints, ProfileEndpoints}

-----------------------------------------------------------------------------
(* Guards.  user is request.user, None if no token was checked.            *)

PermissionsGuard(e, user) ==
  user = None \/ e.permissions \subseteq user.permissions

RolesGuard(e, user) ==
  user = None \/ e.roles = {} \/ e.roles \cap user.roles # {}

Admits(e, user) ==
  /\ e.token => user # None
  /\ PermissionsGuard(e, user) /\ RolesGuard(e, user)
=============================================================================
