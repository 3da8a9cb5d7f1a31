------------------------------- MODULE Access --------------------------------
(***************************************************************************)
(* Who may do what: organizations and their members, teams, role           *)
(* assignments, grants on single resources, and the shares that create and *)
(* delete such grants (organizations/services.py and views.py,             *)
(* permissions/services.py, sharing/services.py, the application views).   *)
(*                                                                         *)
(* Memberships and role assignments are only ever added, so a permission   *)
(* checked at the start of a request still holds at its end: requests that *)
(* make one change are one step.  Creating a share reads its target users  *)
(* before the transaction that grants, and revoking one reads them, deletes*)
(* the grants and marks the share in three separate statements, any of     *)
(* which may be the last; these are steps of their own.                    *)
(* Operators named X_Y are faulty variants of X that the properties are    *)
(* checked against.                                                        *)
(***************************************************************************)
EXTENDS Naturals

CONSTANTS
  Users,        \* people and service identities
  Identities,   \* the users that are service identities of applications
  Operators,    \* the users bootstrap_super_administrator is run for
  Orgs, Teams, Resources,
  TeamOrg,      \* the organization of each team
  Home,         \* the organization that owns each resource
  Shares,       \* the shares that may be created
  Roles,        \* the roles that may be assigned
  Levels,       \* the levels that may be shared
  Scopes,       \* the permissions an application may be granted
  MaxTime,      \* bound on the clock
  MaxRequests,  \* bound on the number of requests
  Gateway,      \* FEATURE_INTERNET_GATEWAY_ENABLED
  MfaUsers      \* the users with MFA enabled

\* The part of the permission catalog the properties tell apart.
Permissions ==
  { "users.manage", "permissions.manage", "sharing.manage", "application.create",
    "storage.read", "storage.write", "storage.manage", "system.admin" }

RolePermissions ==
  [ r \in { "super-administrator", "organization-administrator", "storage-administrator",
            "developer", "editor", "viewer", "guest", "service-account" } |->
      CASE r = "super-administrator"        -> Permissions
        [] r = "organization-administrator" -> Permissions \ {"system.admin"}
        [] r = "storage-administrator"      -> {"storage.read", "storage.write", "storage.manage"}
        [] r = "developer"                  -> {"application.create"}
        [] r = "editor"                     -> {"storage.read", "storage.write"}
        [] r = "viewer"                     -> {"storage.read"}
        [] OTHER                            -> {} ]

LevelPermissions ==
  [ read |-> {"storage.read"}, write |-> {"storage.read", "storage.write"},
    admin |-> {"storage.read", "storage.write", "storage.manage"} ]

ASSUME AccessAssumption ==
  /\ Identities \subseteq Users /\ Operators \subseteq Users
  /\ TeamOrg \in [Teams -> Orgs] /\ Home \in [Resources -> Orgs]
  /\ Roles \subseteq DOMAIN RolePermissions /\ Scopes \subseteq Permissions
  /\ Levels \subseteq DOMAIN LevelPermissions
  /\ MaxTime \in Nat /\ MaxRequests \in Nat /\ Gateway \in BOOLEAN /\ MfaUsers \subseteq Users

Platform == "platform"   \* organization=None of a RoleAssignment
Nobody == "nobody"       \* granted_by=None

\* The values that stand for the absence of something are none of its values.
ASSUME MarkersAssumption ==
  /\ Platform \notin Orgs /\ Nobody \notin Users \cup Orgs
  /\ {"none", "member"} \cap Teams = {} /\ "application" \notin Shares

Never == MaxTime + 1     \* expires_at=None
Moments == 1..Never

VARIABLES
  orgs,      \* the organizations that exist
  teams,     \* the teams that exist
  members,   \* Membership: "none", "member" (without a team), or the team
  apps,      \* the application organization of each service identity
  roles,     \* RoleAssignment rows
  grants,    \* ResourceGrant rows
  shares,    \* ShareGrant rows, and creations and revocations in flight
  now,       \* the clock
  asked      \* how many requests have been made

vars == <<orgs, teams, members, apps, roles, grants, shares, now, asked>>

Member(u, o) == members[o][u] # "none"

\* A service identity exists from the registration of its application on.
Exists(u) == u \in Identities => apps[u] # Nobody

HasRolePermission(u, p, o) ==
  \E a \in roles : a.user = u /\ a.org \in {o, Platform} /\ p \in RolePermissions[a.role]

HasResourcePermission(u, p, o, r) ==
  \E g \in grants :
    g.user = u /\ g.perm = p /\ g.org = o /\ g.res = r /\ g.exp > now

HasPermission(u, p, o, r) == HasRolePermission(u, p, o) \/ HasResourcePermission(u, p, o, r)

\* What every organization-scoped view asks of its caller.
Authorized(a, p, o) == o \in orgs /\ Member(a, o) /\ HasRolePermission(a, p, o)

NoShare ==
  [ state |-> "free", org |-> Nobody, res |-> Nobody, kind |-> "user", to |-> Nobody,
    level |-> "read", exp |-> Never, by |-> Nobody,
    targets |-> {},      \* the users it was materialised for
    stage |-> "none",    \* how far a revocation of it has come
    reads |-> {},        \* the users that revocation read
    hit |-> {} ]         \* history: the users whose grants revocations deleted

Init ==
  /\ orgs = {} /\ teams = {} /\ roles = {} /\ grants = {} /\ now = 0 /\ asked = 0
  /\ members = [o \in Orgs |-> [u \in Users |-> "none"]]
  /\ apps = [u \in Identities |-> Nobody]
  /\ shares = [s \in Shares |-> NoShare]

\* One more request is made.
Request == asked < MaxRequests /\ asked' = asked + 1

-----------------------------------------------------------------------------
(***************************************************************************)
(* Organizations, members, teams and roles.                                *)
(***************************************************************************)
\* assign_role: the row, its uniqueness, and the two refusals.
MayAssign(u, role, org, by) ==
  /\ org = Platform => role = "super-administrator"
  /\ ~ /\ Gateway /\ by \notin {Nobody, u} /\ u \notin MfaUsers
       /\ RolePermissions[role] \cap {"permissions.manage", "system.admin"} # {}
  /\ \/ org = Platform   \* NULL is distinct from NULL in the unique constraint
     \/ ~ \E a \in roles : a.user = u /\ a.role = role /\ a.org = org

Assigned(u, role, org, by) == [user |-> u, role |-> role, org |-> org, by |-> by]

Bootstrap(u) ==
  /\ u \in Operators \ Identities
  /\ MayAssign(u, "super-administrator", Platform, Nobody)
  /\ roles' = roles \cup {Assigned(u, "super-administrator", Platform, Nobody)}
  /\ Request
  /\ UNCHANGED <<orgs, teams, members, apps, grants, shares, now>>

FounderRoles(a, o) == roles \cup {Assigned(a, "organization-administrator", o, a)}

CreateOrganization(a, o) ==
  /\ a \notin Identities /\ o \notin orgs
  /\ MayAssign(a, "organization-administrator", o, a)
  /\ orgs' = orgs \cup {o}
  /\ members' = [members EXCEPT ![o][a] = "member"]
  /\ roles' = FounderRoles(a, o)
  /\ Request
  /\ UNCHANGED <<teams, apps, grants, shares, now>>

\* get_or_create: an existing membership is reported, never changed.
AddMember(a, o, u) ==
  /\ Authorized(a, "users.manage", o)
  /\ Exists(u) /\ ~ Member(u, o)
  /\ members' = [members EXCEPT ![o][u] = "member"]
  /\ Request
  /\ UNCHANGED <<orgs, teams, apps, roles, grants, shares, now>>

MayHandOut_Anywhere(a, o, u) ==
  o \in orgs /\ Member(u, o) /\ \E x \in orgs : Authorized(a, "permissions.manage", x)
MayHandOut(a, o, u) == Authorized(a, "permissions.manage", o) /\ Member(u, o)

AssignRole(a, o, u, role) ==
  /\ MayHandOut(a, o, u)
  /\ MayAssign(u, role, o, a)
  /\ roles' = roles \cup {Assigned(u, role, o, a)}
  /\ Request
  /\ UNCHANGED <<orgs, teams, members, apps, grants, shares, now>>

CreateTeam(a, t) ==
  /\ t \notin teams /\ Authorized(a, "users.manage", TeamOrg[t])
  /\ teams' = teams \cup {t}
  /\ Request
  /\ UNCHANGED <<orgs, members, apps, roles, grants, shares, now>>

\* The one team of a membership is overwritten.
AddTeamMember(a, t, u) ==
  /\ t \in teams /\ Authorized(a, "users.manage", TeamOrg[t])
  /\ Member(u, TeamOrg[t])
  /\ members' = [members EXCEPT ![TeamOrg[t]][u] = t]
  /\ Request
  /\ UNCHANGED <<orgs, teams, apps, roles, grants, shares, now>>

RemoveTeamMember(a, t, u) ==
  /\ t \in teams /\ Authorized(a, "users.manage", TeamOrg[t])
  /\ members[TeamOrg[t]][u] = t
  /\ members' = [members EXCEPT ![TeamOrg[t]][u] = "member"]
  /\ Request
  /\ UNCHANGED <<orgs, teams, apps, roles, grants, shares, now>>

-----------------------------------------------------------------------------
(***************************************************************************)
(* Applications: an identity that is a member of one organization, and the *)
(* grants that are its only authority.                                     *)
(***************************************************************************)
RegisterApplication(a, o, u) ==
  /\ u \in Identities /\ ~ Exists(u)
  /\ Authorized(a, "application.create", o)
  /\ apps' = [apps EXCEPT ![u] = o]
  /\ members' = [members EXCEPT ![o][u] = "member"]
  /\ Request
  /\ UNCHANGED <<orgs, teams, roles, grants, shares, now>>

\* unique_resource_grant does not include the organization.
Taken(u, p, r) == \E g \in grants : g.user = u /\ g.perm = p /\ g.res = r

Granted(u, p, o, r, exp, by, origin) ==
  [user |-> u, perm |-> p, org |-> o, res |-> r, exp |-> exp, by |-> by, for |-> origin]

\* The resource is not looked up: a grant may name one of another organization.
GrantToApplication(a, u, p, r, exp) ==
  /\ Exists(u) /\ Authorized(a, "permissions.manage", apps[u])
  /\ ~ Taken(u, p, r)
  /\ grants' = grants \cup {Granted(u, p, apps[u], r, exp, a, "application")}
  /\ Request
  /\ UNCHANGED <<orgs, teams, members, apps, roles, shares, now>>

-----------------------------------------------------------------------------
(***************************************************************************)
(* Sharing.                                                                *)
(***************************************************************************)
\* _principal_user_ids.
PrincipalUsers(o, kind, to) ==
  CASE kind = "user" -> {to}
    [] kind = "team" -> {u \in Users : members[o][u] = to}
    [] kind = "organization" -> {u \in Users : Member(u, o)}

ValidPrincipal(o, kind, to) ==
  \/ kind = "user" /\ to \in Users /\ Member(to, o)
  \/ kind = "team" /\ to \in teams /\ TeamOrg[to] = o
  \/ kind = "organization" /\ to = o

\* create_share_grant up to its transaction.
BeginShare(a, s, o, r, kind, to, level, exp) ==
  /\ shares[s].state = "free"
  /\ Authorized(a, "sharing.manage", o)
  /\ Home[r] = o /\ ValidPrincipal(o, kind, to)
  /\ shares' = [shares EXCEPT ![s] =
       [NoShare EXCEPT !.state = "creating", !.org = o, !.res = r, !.kind = kind, !.to = to,
                       !.level = level, !.exp = exp, !.by = a,
                       !.targets = PrincipalUsers(o, kind, to)]]
  /\ Request
  /\ UNCHANGED <<orgs, teams, members, apps, roles, grants, now>>

\* The grants of a share; where one exists already the new one is skipped.
ShareGrants(s) ==
  {Granted(u, p, shares[s].org, shares[s].res, shares[s].exp, shares[s].by, s) :
     u \in shares[s].targets, p \in LevelPermissions[shares[s].level]}

FinishShare(s) ==
  /\ shares[s].state = "creating"
  /\ shares' = [shares EXCEPT ![s].state = "live"]
  /\ grants' = grants \cup {g \in ShareGrants(s) : ~ Taken(g.user, g.perm, g.res)}
  /\ UNCHANGED <<orgs, teams, members, apps, roles, now, asked>>

\* revoke_share_grant.  A share that is revoked already is revoked again.
BeginRevoke(a, s) ==
  /\ shares[s].state \in {"live", "revoked"} /\ shares[s].stage = "none"
  /\ Authorized(a, "sharing.manage", shares[s].org)
  /\ shares' = [shares EXCEPT ![s].stage = "read",
                  ![s].reads = PrincipalUsers(shares[s].org, shares[s].kind, shares[s].to)]
  /\ Request
  /\ UNCHANGED <<orgs, teams, members, apps, roles, grants, now>>

\* The grants a revocation deletes, whichever share they were created for.
Withdrawn_Unexpired(s) ==
  {g \in grants : /\ g.user \in shares[s].reads /\ g.perm \in LevelPermissions[shares[s].level]
                  /\ g.org = shares[s].org /\ g.res = shares[s].res /\ g.exp > now}
Withdrawn_AnyLevel(s) ==
  {g \in grants : /\ g.user \in shares[s].reads
                  /\ g.org = shares[s].org /\ g.res = shares[s].res}
Withdrawn(s) ==
  {g \in grants : /\ g.user \in shares[s].reads /\ g.perm \in LevelPermissions[shares[s].level]
                  /\ g.org = shares[s].org /\ g.res = shares[s].res}

DeleteGrants(s) ==
  /\ shares[s].stage = "read"
  /\ grants' = grants \ Withdrawn(s)
  /\ shares' = [shares EXCEPT ![s].stage = "deleted",
                              ![s].hit = shares[s].hit \cup shares[s].reads]
  /\ UNCHANGED <<orgs, teams, members, apps, roles, now, asked>>

MarkRevoked(s) ==
  /\ shares[s].stage = "deleted"
  /\ shares' = [shares EXCEPT ![s].stage = "none", ![s].reads = {}, ![s].state = "revoked"]
  /\ UNCHANGED <<orgs, teams, members, apps, roles, grants, now, asked>>

\* The request ends, by a database error or a crash, before its next step.
Cut(s) ==
  /\ \/ shares[s].state = "creating" /\ shares' = [shares EXCEPT ![s] = NoShare]
     \/ shares[s].stage # "none" /\ shares' = [shares EXCEPT ![s].stage = "none", ![s].reads = {}]
  /\ UNCHANGED <<orgs, teams, members, apps, roles, grants, now, asked>>

Tick ==
  /\ now < MaxTime
  /\ now' = now + 1
  /\ UNCHANGED <<orgs, teams, members, apps, roles, grants, shares, asked>>

-----------------------------------------------------------------------------
People ==
  \E a \in Users :
    \/ Bootstrap(a)
    \/ \E o \in Orgs :
         \/ CreateOrganization(a, o)
         \/ \E u \in Users : \/ AddMember(a, o, u)
                             \/ \E role \in Roles : AssignRole(a, o, u, role)
    \/ \E t \in Teams :
         CreateTeam(a, t) \/ \E u \in Users : AddTeamMember(a, t, u) \/ RemoveTeamMember(a, t, u)

Applications ==
  \E a \in Users, u \in Identities :
    \/ \E o \in Orgs : RegisterApplication(a, o, u)
    \/ \E p \in Scopes, r \in Resources, exp \in Moments : GrantToApplication(a, u, p, r, exp)

Principals == ({"user"} \X Users) \cup ({"team"} \X Teams) \cup ({"organization"} \X Orgs)

Sharing ==
  \E s \in Shares :
    \/ \E a \in Users, r \in Resources, to \in Principals, level \in Levels, exp \in Moments :
         BeginShare(a, s, Home[r], r, to[1], to[2], level, exp)
    \/ FinishShare(s) \/ DeleteGrants(s) \/ MarkRevoked(s) \/ Cut(s)
    \/ \E a \in Users : BeginRevoke(a, s)

Next == People \/ Applications \/ Sharing \/ Tick

Spec == Init /\ [][Next]_vars

-----------------------------------------------------------------------------
(***************************************************************************)
(* Properties.                                                             *)
(***************************************************************************)

\* The values each variable takes.
TypeOK ==
  /\ orgs \subseteq Orgs /\ teams \subseteq Teams /\ now \in 0..MaxTime /\ asked \in 0..MaxRequests
  /\ members \in [Orgs -> [Users -> {"none", "member"} \cup Teams]]
  /\ apps \in [Identities -> Orgs \cup {Nobody}]
  /\ roles \subseteq [user : Users, role : DOMAIN RolePermissions,
                      org : Orgs \cup {Platform}, by : Users \cup {Nobody}]
  /\ grants \subseteq [user : Users, perm : Permissions, org : Orgs, res : Resources,
                       exp : Moments, by : Users, for : Shares \cup {"application"}]
  /\ DOMAIN shares = Shares
  /\ \A s \in Shares :
       /\ shares[s].state \in {"free", "creating", "live", "revoked"}
       /\ shares[s].stage \in {"none", "read", "deleted"}
       /\ \A f \in {"targets", "reads", "hit"} : shares[s][f] \subseteq Users

\* Authority never comes from nowhere: platform-wide roles are handed out at the
\* command line only, every other role and every grant by somebody who holds the
\* permission for it in that very organization (assign_role, has_permission,
\* MembershipRoleAssignView, create_share_grant).
AuthorityTraces ==
  /\ \A a \in roles : IF a.org = Platform
                      THEN a.by = Nobody /\ a.user \in Operators
                      ELSE HasRolePermission(a.by, "permissions.manage", a.org)
  /\ \A g \in grants :
       HasRolePermission(g.by, IF g.for \in Shares THEN "sharing.manage"
                               ELSE "permissions.manage", g.org)

\* An organization always has a member able to manage it (create_organization).
OrganizationsAreManaged ==
  \A o \in orgs : \E u \in Users : Authorized(u, "permissions.manage", o)

\* Rights within an organization belong to its members, whatever order members
\* join, move between teams and are shared with (_principal_user_ids,
\* add_team_member, create_share_grant, register_application).
RightsAreMembers ==
  /\ \A a \in roles : a.org = Platform \/ Member(a.user, a.org)
  /\ \A g \in grants : Member(g.user, g.org)

\* A grant outlives the revocation of its share only for a user who was not
\* among the principal's users when it was revoked (revoke_share_grant).
RevocationReaches ==
  \A g \in grants : g.for \in Shares => g.user \notin shares[g.for].hit

\* A live, unexpired share gives every target its permissions.  Exceptions:
\* another share on the resource that covers the permission was revoked for that
\* user, or an earlier grant in the place of the share's own has expired or names
\* another organization (create_share_grant skips what exists already,
\* revoke_share_grant deletes by user, permission and resource).
ShareHonoured ==
  \A s \in Shares :
    LET sh == shares[s] IN
    sh.state = "live" /\ sh.exp > now =>
      \A u \in sh.targets \ sh.hit, p \in LevelPermissions[sh.level] :
        \/ HasResourcePermission(u, p, sh.org, sh.res)
        \/ \E g \in grants : /\ g.user = u /\ g.perm = p /\ g.res = sh.res
                             /\ g.exp <= now \/ g.org # sh.org
        \/ \E s2 \in Shares \ {s} : /\ u \in shares[s2].hit /\ shares[s2].res = sh.res
                                    /\ p \in LevelPermissions[shares[s2].level]

\* Authority is sound (permissions, organizations, teams, sharing): the parts
\* above hold together, whatever order people are added, given roles, moved
\* and shared with.
AuthorityIsSound == TypeOK /\ AuthorityTraces /\ OrganizationsAreManaged /\ RightsAreMembers
=============================================================================
