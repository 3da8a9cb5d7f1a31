----------------------------- MODULE AccessProofs -----------------------------
(***************************************************************************)
(* Proofs about Access, for every set of users, organizations, teams,      *)
(* resources and shares.                                                   *)
(*                                                                         *)
(* Roles and memberships only grow (Grow), so whatever authority a role, a *)
(* grant or a share was created under still holds (ShareInv).  A grant     *)
(* made for a share lies within what a revocation of that share deletes    *)
(* (GrantInv), which is why none outlives it; and whatever takes a grant   *)
(* away from another live share is itself a revocation that has reached    *)
(* that user.                                                              *)
(***************************************************************************)
EXTENDS Access, TLAPS

\* The records of shares, field by field.
ShareRecords ==
  [ state : {"free", "creating", "live", "revoked"}, org : Orgs \cup {Nobody},
    res : Resources \cup {Nobody}, kind : {"user", "team", "organization"},
    to : Users \cup Teams \cup Orgs \cup {Nobody}, level : DOMAIN LevelPermissions,
    exp : Moments, by : Users \cup {Nobody}, targets : SUBSET Users,
    stage : {"none", "read", "deleted"}, reads : SUBSET Users, hit : SUBSET Users ]

TypeInv == TypeOK /\ shares \in [Shares -> ShareRecords]

\* A service identity belongs to the organization of its application.
AppInv == \A u \in Identities : apps[u] = Nobody \/ Member(u, apps[u])

\* A share was begun by somebody who may share, for members; until it is
\* complete nothing has been revoked of it.
ShareInv ==
  \A s \in Shares :
    LET sh == shares[s] IN
    /\ sh.state # "free" =>
         /\ sh.org \in Orgs /\ sh.res \in Resources /\ sh.by \in Users
         /\ HasRolePermission(sh.by, "sharing.manage", sh.org)
         /\ sh.kind = "user" => sh.to \in Users
    /\ sh.state = "creating" => \A u \in sh.targets : Member(u, sh.org)
    /\ sh.state \in {"free", "creating"} => sh.hit = {} /\ sh.stage = "none"

\* A grant made for a share is one that revoking the share deletes.
GrantInv ==
  \A g \in grants : g.for \in Shares =>
    /\ shares[g.for].state \in {"live", "revoked"}
    /\ g.org = shares[g.for].org /\ g.res = shares[g.for].res
    /\ g.perm \in LevelPermissions[shares[g.for].level]

\* The parts of AuthorityIsSound that are about roles ...
RoleInv ==
  /\ \A a \in roles :
       IF a.org = Platform THEN a.by = Nobody /\ a.user \in Operators
       ELSE HasRolePermission(a.by, "permissions.manage", a.org) /\ Member(a.user, a.org)
  /\ OrganizationsAreManaged

\* ... and about grants.
RightInv ==
  \A g \in grants :
    /\ HasRolePermission(g.by, IF g.for \in Shares THEN "sharing.manage"
                               ELSE "permissions.manage", g.org)
    /\ Member(g.user, g.org)

IInv ==
  /\ TypeInv /\ RoleInv /\ RightInv /\ AppInv /\ ShareInv /\ GrantInv
  /\ RevocationReaches /\ ShareHonoured

-----------------------------------------------------------------------------
(***************************************************************************)
(* Facts about the catalog of permissions and about single steps.          *)
(***************************************************************************)

\* The roles and levels, and what the founder of an organization may do.
LEMMA Catalog ==
  /\ \A level \in DOMAIN LevelPermissions : LevelPermissions[level] \subseteq Permissions
  /\ "read" \in DOMAIN LevelPermissions
  /\ {"super-administrator", "organization-administrator"} \subseteq DOMAIN RolePermissions
  /\ "permissions.manage" \in RolePermissions["organization-administrator"]
  /\ {"sharing.manage", "permissions.manage"} \subseteq Permissions
BY DEF LevelPermissions, RolePermissions, Permissions

\* The empty share is a share, and a share of nobody.
LEMMA NoShareType == NoShare \in ShareRecords
<1>1. Never \in Moments
  BY AccessAssumption DEF Never, Moments
<1> QED
  BY <1>1, Catalog DEF NoShare, ShareRecords

\* What people and applications do leaves the shares and the clock alone.
LEMMA PeopleFrame == People => UNCHANGED <<apps, grants, shares, now>>
BY DEF People, Bootstrap, CreateOrganization, AddMember, AssignRole, CreateTeam, AddTeamMember,
       RemoveTeamMember

\* Sharing leaves people alone.
LEMMA SharingFrame == Sharing => UNCHANGED <<orgs, teams, members, apps, roles, now>>
<1>1. ASSUME NEW a, NEW s, NEW o, NEW r, NEW kind, NEW to, NEW level, NEW exp,
             BeginShare(a, s, o, r, kind, to, level, exp)
      PROVE  UNCHANGED <<orgs, teams, members, apps, roles, now>>
  BY <1>1 DEF BeginShare
<1>2. ASSUME NEW s, FinishShare(s) \/ DeleteGrants(s) \/ MarkRevoked(s) \/ Cut(s)
      PROVE  UNCHANGED <<orgs, teams, members, apps, roles, now>>
  BY <1>2 DEF FinishShare, DeleteGrants, MarkRevoked, Cut
<1>3. ASSUME NEW a, NEW s, BeginRevoke(a, s)
      PROVE  UNCHANGED <<orgs, teams, members, apps, roles, now>>
  BY <1>3 DEF BeginRevoke
<1> QED
  BY <1>1, <1>2, <1>3 DEF Sharing

\* A request is counted within its bound.
LEMMA RequestCounted == TypeOK /\ Request => asked' \in 0..MaxRequests
BY AccessAssumption DEF TypeOK, Request

\* Nothing a user is or may do by role is ever taken away.
Grow ==
  /\ orgs \subseteq orgs' /\ roles \subseteq roles'
  /\ \A u \in Users, o \in Orgs : Member(u, o) => Member(u, o)'

LEMMA GrowStep == ASSUME TypeOK, [Next]_vars PROVE Grow
<1> USE DEF TypeOK, Grow, Member
<1>1. CASE People
  <2> USE MarkersAssumption, AccessAssumption
  <2>1. ASSUME NEW a \in Users, Bootstrap(a) PROVE Grow
    BY <2>1 DEF Bootstrap
  <2>2. ASSUME NEW a \in Users, NEW o \in Orgs, CreateOrganization(a, o) PROVE Grow
    BY <2>2 DEF CreateOrganization, FounderRoles
  <2>3. ASSUME NEW a \in Users, NEW o \in Orgs, NEW u \in Users, AddMember(a, o, u) PROVE Grow
    BY <2>3 DEF AddMember
  <2>4. ASSUME NEW a \in Users, NEW o \in Orgs, NEW u \in Users, NEW role \in Roles,
               AssignRole(a, o, u, role)
        PROVE  Grow
    BY <2>4 DEF AssignRole
  <2>5. ASSUME NEW a \in Users, NEW t \in Teams, CreateTeam(a, t) PROVE Grow
    BY <2>5 DEF CreateTeam
  <2>6. ASSUME NEW a \in Users, NEW t \in Teams, NEW u \in Users,
               AddTeamMember(a, t, u) \/ RemoveTeamMember(a, t, u)
        PROVE  Grow
    <3>1. TeamOrg[t] \in Orgs /\ t # "none" /\ orgs' = orgs /\ roles' = roles
      BY <2>6 DEF AddTeamMember, RemoveTeamMember
    <3>2. \E x \in {t, "member"} : members' = [members EXCEPT ![TeamOrg[t]][u] = x]
      BY <2>6 DEF AddTeamMember, RemoveTeamMember
    <3> QED
      BY <3>1, <3>2
  <2> QED
    BY <1>1, <2>1, <2>2, <2>3, <2>4, <2>5, <2>6 DEF People
<1>2. CASE Applications
  BY <1>2, AccessAssumption DEF Applications, RegisterApplication, GrantToApplication
<1>3. CASE Sharing
  BY <1>3, SharingFrame
<1>4. CASE Tick \/ UNCHANGED vars
  BY <1>4 DEF Tick, vars
<1> QED
  BY <1>1, <1>2, <1>3, <1>4 DEF Next

\* So a role permission, once held, stays held.
LEMMA RolePermissionStays ==
  ASSUME roles \subseteq roles'
  PROVE  \A u, p, o : HasRolePermission(u, p, o) => HasRolePermission(u, p, o)'
BY DEF HasRolePermission

\* Who is authorized is a member and holds the permission.
LEMMA AuthorizedMeans ==
  \A a, p, o : Authorized(a, p, o) => o \in orgs /\ Member(a, o) /\ HasRolePermission(a, p, o)
BY DEF Authorized

\* The invariant contains what it was made for.
LEMMA SoundParts == TypeInv /\ RoleInv /\ RightInv => AuthorityIsSound
BY DEF TypeInv, RoleInv, RightInv, AuthorityIsSound, AuthorityTraces, RightsAreMembers

\* The initial states.
LEMMA InitIInv == Init => IInv
<1> SUFFICES ASSUME Init PROVE IInv
  OBVIOUS
<1> USE AccessAssumption DEF Init
<1>1. shares \in [Shares -> ShareRecords]
  BY NoShareType
<1>2. \A s \in Shares : shares[s] = NoShare
  OBVIOUS
<1>3. TypeOK
  BY <1>1 DEF TypeOK, NoShare
<1>4. RoleInv /\ RightInv
  BY DEF RoleInv, RightInv, OrganizationsAreManaged
<1>5. AppInv /\ ShareInv /\ GrantInv
  BY <1>2 DEF AppInv, ShareInv, GrantInv, NoShare
<1>6. RevocationReaches /\ ShareHonoured
  BY <1>2 DEF RevocationReaches, ShareHonoured, NoShare
<1> QED
  BY <1>1, <1>3, <1>4, <1>5, <1>6 DEF IInv, TypeInv

-----------------------------------------------------------------------------
(***************************************************************************)
(* People: what they are and may do grows, and everything else stays.      *)
(***************************************************************************)

\* While people, roles and memberships grow, shares and grants stay sound.
LEMMA SharesKept ==
  ASSUME IInv, Grow, UNCHANGED <<grants, shares, now>>
  PROVE  RightInv' /\ ShareInv' /\ GrantInv' /\ RevocationReaches' /\ ShareHonoured'
<1> USE RolePermissionStays DEF Grow
<1>1. RightInv'
  BY DEF IInv, RightInv, TypeInv, TypeOK
<1>2. ShareInv'
  BY DEF IInv, ShareInv, TypeInv, ShareRecords
<1>3. GrantInv' /\ RevocationReaches'
  BY DEF IInv, GrantInv, RevocationReaches
<1>4. ShareHonoured'
  BY DEF IInv, ShareHonoured, HasResourcePermission
<1> QED
  BY <1>1, <1>2, <1>3, <1>4

\* Organizations stay managed, and the roles there are stay sound.
LEMMA RolesKept ==
  ASSUME IInv, Grow
  PROVE  /\ \A o \in orgs : \E u \in Users : Authorized(u, "permissions.manage", o)'
         /\ \A a \in roles :
              IF a.org = Platform THEN a.by = Nobody /\ a.user \in Operators
              ELSE HasRolePermission(a.by, "permissions.manage", a.org)' /\ Member(a.user, a.org)'
<1>1. ASSUME NEW o \in orgs PROVE \E u \in Users : Authorized(u, "permissions.manage", o)'
  <2>1. PICK u \in Users : Authorized(u, "permissions.manage", o)
    BY DEF IInv, RoleInv, OrganizationsAreManaged
  <2>2. o \in Orgs
    BY DEF IInv, TypeInv, TypeOK
  <2>3. Authorized(u, "permissions.manage", o)'
    BY <2>1, <2>2, RolePermissionStays DEF Authorized, Grow
  <2> QED
    BY <2>3
<1>2. \A a \in roles : a.user \in Users /\ a.org \in Orgs \cup {Platform}
  BY DEF IInv, TypeInv, TypeOK
<1>3. \A a \in roles :
        IF a.org = Platform THEN a.by = Nobody /\ a.user \in Operators
        ELSE HasRolePermission(a.by, "permissions.manage", a.org)' /\ Member(a.user, a.org)'
  BY <1>2, RolePermissionStays DEF IInv, RoleInv, Grow
<1> QED
  BY <1>1, <1>3

\* bootstrap_super_administrator.
LEMMA BootstrapIInv ==
  ASSUME IInv, Grow, NEW u \in Users, Bootstrap(u)
  PROVE  TypeInv' /\ RoleInv' /\ AppInv'
<1> USE DEF Bootstrap, Assigned
<1>1. TypeInv'
  BY Catalog, RequestCounted DEF IInv, TypeInv, TypeOK
<1>2. RoleInv'
  BY RolesKept DEF RoleInv, OrganizationsAreManaged
<1>3. AppInv'
  BY DEF IInv, AppInv, Member
<1> QED
  BY <1>1, <1>2, <1>3

\* create_organization: its founder is the first to manage it.
LEMMA CreateOrganizationIInv ==
  ASSUME IInv, Grow, NEW a \in Users, NEW o \in Orgs, CreateOrganization(a, o)
  PROVE  TypeInv' /\ RoleInv' /\ AppInv'
<1> USE DEF CreateOrganization, FounderRoles, Assigned
<1>1. TypeInv'
  BY Catalog, RequestCounted DEF IInv, TypeInv, TypeOK
<1>2. RoleInv'
  <2>1. Member(a, o)'
    BY DEF Member, IInv, TypeInv, TypeOK
  <2>2. HasRolePermission(a, "permissions.manage", o)'
    <3> DEFINE founder == Assigned(a, "organization-administrator", o, a)
    <3>1. founder \in roles' /\ founder.user = a /\ founder.org = o
          /\ founder.role = "organization-administrator"
      OBVIOUS
    <3> QED
      BY <3>1, Catalog, Zenon DEF HasRolePermission
  <2>3. Authorized(a, "permissions.manage", o)'
    BY <2>1, <2>2 DEF Authorized
  <2> QED
    BY <2>1, <2>2, <2>3, RolesKept, MarkersAssumption DEF RoleInv, OrganizationsAreManaged
<1>3. AppInv'
  BY MarkersAssumption, AccessAssumption DEF IInv, AppInv, Grow, TypeInv, TypeOK
<1> QED
  BY <1>1, <1>2, <1>3

\* AddMember, AddTeamMember, RemoveTeamMember: a membership is added or moved.
LEMMA MembershipIInv ==
  ASSUME IInv, Grow, NEW o \in Orgs, NEW u \in Users, NEW x \in {"member"} \cup Teams,
         members' = [members EXCEPT ![o][u] = x],
         UNCHANGED <<orgs, teams, apps, roles, grants, shares, now>>, Request
  PROVE  TypeInv' /\ RoleInv' /\ AppInv'
<1>1. TypeInv'
  BY RequestCounted DEF IInv, TypeInv, TypeOK
<1>2. RoleInv'
  BY RolesKept DEF RoleInv, OrganizationsAreManaged
<1>3. AppInv'
  BY AccessAssumption DEF IInv, AppInv, Grow, TypeInv, TypeOK
<1> QED
  BY <1>1, <1>2, <1>3

\* assign_role, behind MembershipRoleAssignView.
LEMMA AssignRoleIInv ==
  ASSUME IInv, Grow, NEW a \in Users, NEW o \in Orgs, NEW u \in Users, NEW role \in Roles,
         AssignRole(a, o, u, role)
  PROVE  TypeInv' /\ RoleInv' /\ AppInv'
<1> USE DEF AssignRole, Assigned
<1>1. TypeInv'
  BY AccessAssumption, RequestCounted DEF IInv, TypeInv, TypeOK
<1>2. RoleInv'
  <2>1. HasRolePermission(a, "permissions.manage", o)' /\ Member(u, o)'
    BY RolePermissionStays DEF MayHandOut, Authorized, Grow
  <2> QED
    BY <2>1, RolesKept, MarkersAssumption DEF RoleInv, OrganizationsAreManaged
<1>3. AppInv'
  BY DEF IInv, AppInv, Member
<1> QED
  BY <1>1, <1>2, <1>3

\* Everything people do.
LEMMA PeopleIInv == ASSUME IInv, Grow, People PROVE IInv'
<1>1. ASSUME NEW a \in Users, NEW t \in Teams, CreateTeam(a, t)
      PROVE  TypeInv' /\ RoleInv' /\ AppInv'
  <2>1. TypeInv'
    BY <1>1, RequestCounted DEF CreateTeam, IInv, TypeInv, TypeOK
  <2>2. RoleInv' /\ AppInv'
    BY <1>1, RolesKept DEF CreateTeam, RoleInv, OrganizationsAreManaged, IInv, AppInv, Member
  <2> QED
    BY <2>1, <2>2
<1>2. ASSUME NEW a \in Users, NEW o \in Orgs, NEW u \in Users, AddMember(a, o, u)
      PROVE  TypeInv' /\ RoleInv' /\ AppInv'
  BY <1>2, MembershipIInv DEF AddMember
<1>3. ASSUME NEW a \in Users, NEW t \in Teams, NEW u \in Users,
             AddTeamMember(a, t, u) \/ RemoveTeamMember(a, t, u)
      PROVE  TypeInv' /\ RoleInv' /\ AppInv'
  <2>1. TeamOrg[t] \in Orgs
    BY AccessAssumption
  <2> QED
    BY <1>3, <2>1, MembershipIInv DEF AddTeamMember, RemoveTeamMember
<1>4. TypeInv' /\ RoleInv' /\ AppInv'
  BY <1>1, <1>2, <1>3, BootstrapIInv, CreateOrganizationIInv, AssignRoleIInv DEF People
<1> QED
  BY <1>4, PeopleFrame, SharesKept DEF IInv

-----------------------------------------------------------------------------
(***************************************************************************)
(* Applications.                                                           *)
(***************************************************************************)

\* register_application.
LEMMA RegisterIInv ==
  ASSUME IInv, Grow, NEW a \in Users, NEW o \in Orgs, NEW u \in Identities,
         RegisterApplication(a, o, u)
  PROVE  IInv'
<1> USE AccessAssumption DEF RegisterApplication
<1>1. TypeInv'
  BY RequestCounted DEF IInv, TypeInv, TypeOK
<1>2. RoleInv'
  BY RolesKept DEF RoleInv, OrganizationsAreManaged
<1>3. AppInv'
  <2>1. Member(u, o)'
    BY DEF Member, IInv, TypeInv, TypeOK
  <2> QED
    BY <2>1, MarkersAssumption DEF IInv, AppInv, Grow, TypeInv, TypeOK
<1> QED
  BY <1>1, <1>2, <1>3, SharesKept DEF IInv

\* What an application is granted is the new grant and nothing else.
LEMMA GrantToApplicationIInv ==
  ASSUME IInv, Grow, NEW a \in Users, NEW u \in Identities, NEW p \in Scopes,
         NEW r \in Resources, NEW exp \in Moments, GrantToApplication(a, u, p, r, exp)
  PROVE  IInv'
<1> DEFINE g == Granted(u, p, apps[u], r, exp, a, "application")
<1> USE AccessAssumption, MarkersAssumption DEF GrantToApplication, Granted
<1>1. apps[u] \in Orgs /\ Member(u, apps[u]) /\ HasRolePermission(a, "permissions.manage", apps[u])
  BY DEF Exists, Authorized, IInv, AppInv, TypeInv, TypeOK
<1>2. TypeInv'
  BY <1>1, RequestCounted DEF IInv, TypeInv, TypeOK
<1>3. RoleInv'
  BY RolesKept DEF RoleInv, OrganizationsAreManaged
<1>4. RightInv'
  <2>1. \A h \in grants : h.user \in Users /\ h.org \in Orgs
    BY DEF IInv, TypeInv, TypeOK
  <2>2. \A h \in grants :
          /\ HasRolePermission(h.by, IF h.for \in Shares THEN "sharing.manage"
                                     ELSE "permissions.manage", h.org)'
          /\ Member(h.user, h.org)'
    BY <2>1, RolePermissionStays DEF Grow, IInv, RightInv
  <2>3. HasRolePermission(a, "permissions.manage", apps[u])' /\ Member(u, apps[u])'
    BY <1>1, RolePermissionStays DEF Grow
  <2>4. g.by = a /\ g.for = "application" /\ g.org = apps[u] /\ g.user = u
    OBVIOUS
  <2> QED
    BY <2>2, <2>3, <2>4 DEF RightInv
<1>5. AppInv' /\ ShareInv'
  BY DEF IInv, AppInv, ShareInv, Member, HasRolePermission
<1>6. GrantInv' /\ RevocationReaches'
  BY DEF IInv, GrantInv, RevocationReaches
<1>7. ShareHonoured'
  BY DEF IInv, ShareHonoured, HasResourcePermission
<1> QED
  BY <1>2, <1>3, <1>4, <1>5, <1>6, <1>7 DEF IInv

-----------------------------------------------------------------------------
(***************************************************************************)
(* Sharing.                                                                *)
(***************************************************************************)

\* No sharing step disturbs people, roles and applications.
LEMMA SharingKeeps ==
  ASSUME IInv, UNCHANGED <<orgs, members, apps, roles>>
  PROVE  RoleInv' /\ AppInv'
<1>1. AppInv'
  BY DEF IInv, AppInv, Member
<1>2. \A u, p, o : /\ Authorized(u, p, o)' <=> Authorized(u, p, o)
                   /\ HasRolePermission(u, p, o)' <=> HasRolePermission(u, p, o)
                   /\ Member(u, o)' <=> Member(u, o)
  BY DEF Authorized, HasRolePermission, Member
<1>3. RoleInv'
  BY <1>2 DEF IInv, RoleInv, OrganizationsAreManaged
<1> QED
  BY <1>1, <1>3

\* How a live share is honoured for a user and a permission: by a grant, by an
\* old grant in its place, or not at all because of another revocation.
Covered(s, u, p) == HasResourcePermission(u, p, shares[s].org, shares[s].res)
Blocked(s, u, p) ==
  \E g \in grants : /\ g.user = u /\ g.perm = p /\ g.res = shares[s].res
                    /\ g.exp <= now \/ g.org # shares[s].org
Withheld(s, u, p) ==
  \E s2 \in Shares \ {s} : /\ u \in shares[s2].hit /\ shares[s2].res = shares[s].res
                           /\ p \in LevelPermissions[shares[s2].level]

\* The property, share by share.
LEMMA HonouredMeans ==
  ShareHonoured <=>
    \A s \in Shares : shares[s].state = "live" /\ shares[s].exp > now =>
      \A u \in shares[s].targets \ shares[s].hit, p \in LevelPermissions[shares[s].level] :
        Covered(s, u, p) \/ Blocked(s, u, p) \/ Withheld(s, u, p)
BY DEF ShareHonoured, Covered, Blocked, Withheld

\* The same of the state after a step.
LEMMA HonouredNext ==
  ASSUME \A x \in Shares : shares'[x].state = "live" /\ shares'[x].exp > now' =>
           \A u \in shares'[x].targets \ shares'[x].hit, p \in LevelPermissions[shares'[x].level] :
             Covered(x, u, p)' \/ Blocked(x, u, p)' \/ Withheld(x, u, p)'
  PROVE  ShareHonoured'
BY DEF ShareHonoured, Covered, Blocked, Withheld

\* The grants there can be.
GrantRecords ==
  [ user : Users, perm : Permissions, org : Orgs, res : Resources, exp : Moments, by : Users,
    for : Shares \cup {"application"} ]

\* Sharing changes nothing but shares and grants.
LEMMA SharesTyped ==
  ASSUME TypeOK, shares' \in [Shares -> ShareRecords], grants' \subseteq GrantRecords,
         UNCHANGED <<orgs, teams, members, apps, roles, now>>, asked' \in 0..MaxRequests
  PROVE  TypeInv'
<1>1. \A x \in Shares : shares'[x] \in ShareRecords
  OBVIOUS
<1>2. \A x \in Shares :
        /\ shares'[x].state \in {"free", "creating", "live", "revoked"}
        /\ shares'[x].stage \in {"none", "read", "deleted"}
        /\ shares'[x].targets \subseteq Users /\ shares'[x].reads \subseteq Users
        /\ shares'[x].hit \subseteq Users
  BY <1>1 DEF ShareRecords
<1> QED
  BY <1>2 DEF TypeInv, TypeOK, GrantRecords

\* Beginning a share, and cutting its creation off: its record is replaced
\* before anything was granted or revoked for it.
LEMMA ShareReplaced ==
  ASSUME IInv, NEW s \in Shares, NEW new \in ShareRecords,
         shares[s].state \in {"free", "creating"}, new.state \in {"free", "creating"},
         new.state = "creating" =>
           /\ new.org \in Orgs /\ new.res \in Resources /\ new.by \in Users
           /\ HasRolePermission(new.by, "sharing.manage", new.org)
           /\ new.kind = "user" => new.to \in Users
           /\ \A u \in new.targets : Member(u, new.org),
         new.hit = {}, new.stage = "none",
         shares' = [shares EXCEPT ![s] = new],
         UNCHANGED <<orgs, teams, members, apps, roles, grants, now>>, asked' \in 0..MaxRequests
  PROVE  IInv'
<1> USE DEF TypeInv
<1>1. /\ shares' \in [Shares -> ShareRecords] /\ shares'[s] = new
      /\ \A x \in Shares \ {s} : shares'[x] = shares[x]
  BY DEF IInv
<1>2. \A g \in grants : g.for # s
  BY DEF IInv, GrantInv
<1>3. shares[s].hit = {}
  BY DEF IInv, ShareInv
<1>4. TypeInv'
  BY <1>1, SharesTyped DEF IInv, TypeOK, GrantRecords
<1>5. RightInv'
  BY DEF IInv, RightInv, HasRolePermission, Member
<1>6. ShareInv'
  <2>1. \A u, p, o : /\ HasRolePermission(u, p, o)' <=> HasRolePermission(u, p, o)
                     /\ Member(u, o)' <=> Member(u, o)
    BY DEF HasRolePermission, Member
  <2> QED
    BY <1>1, <2>1 DEF IInv, ShareInv
<1>7. GrantInv' /\ RevocationReaches'
  BY <1>1, <1>2 DEF IInv, GrantInv, RevocationReaches
<1>8. ShareHonoured'
  <2>1. \A u, p, o, r : HasResourcePermission(u, p, o, r)' <=> HasResourcePermission(u, p, o, r)
    BY DEF HasResourcePermission
  <2> QED
    BY <1>1, <1>3, <2>1 DEF IInv, ShareHonoured
<1> QED
  BY <1>4, <1>5, <1>6, <1>7, <1>8, SharingKeeps DEF IInv

\* Two records of a share that agree on everything but its progress.
SameTerms(new, old) ==
  /\ new.org = old.org /\ new.res = old.res /\ new.kind = old.kind /\ new.to = old.to
  /\ new.level = old.level /\ new.exp = old.exp /\ new.by = old.by
  /\ new.targets = old.targets /\ new.hit = old.hit

\* Beginning, cutting off and completing a revocation: nothing but its progress
\* and the mark changes.
LEMMA ShareTouched ==
  ASSUME IInv, NEW s \in Shares, NEW new \in ShareRecords,
         shares[s].state \in {"live", "revoked"}, new.state \in {shares[s].state, "revoked"},
         SameTerms(new, shares[s]),
         shares' = [shares EXCEPT ![s] = new],
         UNCHANGED <<orgs, teams, members, apps, roles, grants, now>>, asked' \in 0..MaxRequests
  PROVE  IInv'
<1> USE DEF TypeInv
<1>1. /\ shares' \in [Shares -> ShareRecords] /\ shares'[s] = new
      /\ \A x \in Shares \ {s} : shares'[x] = shares[x]
  BY DEF IInv
<1>3. \A x \in Shares :
        /\ SameTerms(shares'[x], shares[x])
        /\ \/ shares'[x].state = shares[x].state
           \/ shares[x].state \in {"live", "revoked"} /\ shares'[x].state = "revoked"
        /\ shares[x].state \in {"free", "creating"} => shares'[x].stage = shares[x].stage
  <2> TAKE x \in Shares
  <2>1. CASE x = s
    BY <1>1, <2>1
  <2>2. CASE x # s
    BY <1>1, <2>2 DEF SameTerms
  <2> QED
    BY <2>1, <2>2
<1>4. TypeInv'
  BY <1>1, SharesTyped DEF IInv, TypeOK, GrantRecords
<1>5. RightInv'
  BY DEF IInv, RightInv, HasRolePermission, Member
<1>6. ShareInv'
  <2>1. \A u, p, o : /\ HasRolePermission(u, p, o)' <=> HasRolePermission(u, p, o)
                     /\ Member(u, o)' <=> Member(u, o)
    BY DEF HasRolePermission, Member
  <2> QED
    BY <1>3, <2>1 DEF IInv, ShareInv, SameTerms
<1>7. GrantInv' /\ RevocationReaches'
  BY <1>3 DEF IInv, GrantInv, RevocationReaches, SameTerms
<1>8. ShareHonoured'
  <2>1. \A u, p, o, r : HasResourcePermission(u, p, o, r)' <=> HasResourcePermission(u, p, o, r)
    BY DEF HasResourcePermission
  <2> QED
    BY <1>3, <2>1 DEF IInv, ShareHonoured, SameTerms
<1> QED
  BY <1>4, <1>5, <1>6, <1>7, <1>8, SharingKeeps DEF IInv

\* create_share_grant up to its transaction: the users it will grant to are
\* members at that moment.
LEMMA BeginShareIInv ==
  ASSUME IInv, NEW a \in Users, NEW s \in Shares, NEW r \in Resources, NEW to \in Principals,
         NEW level \in Levels, NEW exp \in Moments,
         BeginShare(a, s, Home[r], r, to[1], to[2], level, exp)
  PROVE  IInv'
<1> DEFINE o == Home[r]
           users == PrincipalUsers(o, to[1], to[2])
           new == [NoShare EXCEPT !.state = "creating", !.org = o, !.res = r, !.kind = to[1],
                                  !.to = to[2], !.level = level, !.exp = exp, !.by = a,
                                  !.targets = users]
<1> USE AccessAssumption DEF BeginShare
<1>1. o \in Orgs
  OBVIOUS
<1>2. to[1] \in {"user", "team", "organization"} /\ to[2] \in Users \cup Teams \cup Orgs
  BY DEF Principals
<1>3. users \subseteq Users /\ \A u \in users : Member(u, o)
  <2>1. ValidPrincipal(o, to[1], to[2])
    OBVIOUS
  <2>2. CASE to[1] = "user"
    BY <2>1, <2>2 DEF ValidPrincipal, PrincipalUsers
  <2>3. CASE to[1] = "team"
    BY <2>1, <2>3, MarkersAssumption DEF ValidPrincipal, PrincipalUsers, Member, IInv, TypeInv, TypeOK
  <2>4. CASE to[1] = "organization"
    BY <2>4 DEF PrincipalUsers
  <2> QED
    BY <1>2, <2>2, <2>3, <2>4
<1>4. new \in ShareRecords
  BY <1>1, <1>2, <1>3, NoShareType DEF NoShare, ShareRecords
<1>5. /\ new.kind = to[1] /\ new.to = to[2]
      /\ new.state = "creating" /\ new.org = o /\ new.res = r /\ new.by = a
      /\ new.targets = users /\ new.hit = {} /\ new.stage = "none"
  BY DEF NoShare
<1>6. HasRolePermission(a, "sharing.manage", o)
  BY DEF Authorized
<1>7. asked' \in 0..MaxRequests
  BY RequestCounted DEF IInv, TypeInv
<1>8. to[1] = "user" => to[2] \in Users
  BY DEF ValidPrincipal
<1>9. shares[s].state = "free" /\ shares' = [shares EXCEPT ![s] = new]
      /\ UNCHANGED <<orgs, teams, members, apps, roles, grants, now>>
  OBVIOUS
<1> HIDE DEF new, users, o
<1> QED
  BY <1>1, <1>3, <1>4, <1>5, <1>6, <1>7, <1>8, <1>9, ShareReplaced

\* The transaction of create_share_grant.
LEMMA FinishShareIInv ==
  ASSUME IInv, NEW s \in Shares, FinishShare(s)
  PROVE  IInv'
<1> DEFINE sh == shares[s]
           made == {g \in ShareGrants(s) : ~ Taken(g.user, g.perm, g.res)}
<1> USE DEF FinishShare
<1>1. /\ sh \in ShareRecords /\ sh.state = "creating" /\ sh.hit = {} /\ sh.stage = "none"
      /\ sh.org \in Orgs /\ sh.res \in Resources /\ sh.by \in Users
      /\ HasRolePermission(sh.by, "sharing.manage", sh.org)
      /\ sh.kind = "user" => sh.to \in Users
      /\ \A u \in sh.targets : Member(u, sh.org)
  BY DEF IInv, TypeInv, ShareInv
<1>2. /\ shares' \in [Shares -> ShareRecords] /\ shares'[s] = [sh EXCEPT !.state = "live"]
      /\ \A x \in Shares \ {s} : shares'[x] = shares[x]
  BY <1>1 DEF IInv, TypeInv, ShareRecords
<1>3. /\ shares'[s].state = "live" /\ shares'[s].org = sh.org /\ shares'[s].res = sh.res
      /\ shares'[s].level = sh.level /\ shares'[s].exp = sh.exp /\ shares'[s].by = sh.by
      /\ shares'[s].kind = sh.kind /\ shares'[s].to = sh.to
      /\ shares'[s].targets = sh.targets /\ shares'[s].hit = {}
  BY <1>1, <1>2 DEF ShareRecords
<1>4. \A g \in made :
        /\ g \in GrantRecords /\ g.for = s /\ g.org = sh.org /\ g.res = sh.res /\ g.by = sh.by
        /\ g.user \in sh.targets /\ g.perm \in LevelPermissions[sh.level] /\ g.exp = sh.exp
  BY <1>1, Catalog DEF ShareGrants, Granted, GrantRecords, ShareRecords
<1>5. grants' = grants \cup made
  OBVIOUS
<1>6. TypeInv'
  <2>1. grants' \subseteq GrantRecords
    BY <1>4, <1>5 DEF IInv, TypeInv, TypeOK, GrantRecords
  <2>2. asked' \in 0..MaxRequests
    BY DEF IInv, TypeInv, TypeOK
  <2> QED
    BY <1>2, <2>1, <2>2, SharesTyped DEF IInv, TypeInv
<1> HIDE DEF made
<1>7. \A u, p, o : /\ HasRolePermission(u, p, o)' <=> HasRolePermission(u, p, o)
                   /\ Member(u, o)' <=> Member(u, o)
  BY DEF HasRolePermission, Member
<1>8. RightInv'
  BY <1>1, <1>4, <1>5, <1>7 DEF IInv, RightInv
<1>9. ShareInv'
  BY <1>1, <1>2, <1>3, <1>7 DEF IInv, ShareInv
<1>10. GrantInv' /\ RevocationReaches'
  BY <1>1, <1>2, <1>3, <1>4, <1>5 DEF IInv, GrantInv, RevocationReaches
<1>11. ShareHonoured'
  <2> SUFFICES ASSUME NEW x \in Shares, shares'[x].state = "live", shares'[x].exp > now,
                      NEW u \in shares'[x].targets \ shares'[x].hit,
                      NEW p \in LevelPermissions[shares'[x].level]
               PROVE  Covered(x, u, p)' \/ Blocked(x, u, p)' \/ Withheld(x, u, p)'
    BY HonouredNext
  <2>1. CASE x = s
    <3>1. CASE Taken(u, p, sh.res)
      <4>1. PICK g \in grants : g.user = u /\ g.perm = p /\ g.res = sh.res
        BY <3>1 DEF Taken
      <4>2. g \in grants' /\ g.exp \in Nat /\ now \in Nat
        BY <1>5, AccessAssumption DEF IInv, TypeInv, TypeOK, Moments, Never
      <4>3. CASE g.exp > now /\ g.org = sh.org
        BY <2>1, <1>3, <4>1, <4>2, <4>3 DEF Covered, HasResourcePermission
      <4>4. CASE g.exp <= now \/ g.org # sh.org
        BY <2>1, <1>3, <4>1, <4>2, <4>4 DEF Blocked
      <4> QED
        BY <4>2, <4>3, <4>4
    <3>2. CASE ~ Taken(u, p, sh.res)
      <4> DEFINE g == Granted(u, p, sh.org, sh.res, sh.exp, sh.by, s)
      <4>1. g \in ShareGrants(s) /\ g.user = u /\ g.perm = p /\ g.res = sh.res
        BY <2>1, <1>3 DEF ShareGrants, Granted
      <4>2. g \in grants' /\ g.org = sh.org /\ g.exp = sh.exp
        BY <1>5, <3>2, <4>1 DEF made, Granted
      <4>3. HasResourcePermission(u, p, sh.org, sh.res)'
        BY <2>1, <1>3, <4>1, <4>2 DEF HasResourcePermission
      <4> QED
        BY <2>1, <1>3, <4>3 DEF Covered
    <3> QED
      BY <3>1, <3>2
  <2>2. CASE x # s
    <3>1. shares'[x] = shares[x]
      BY <1>2, <2>2
    <3>2. Covered(x, u, p) \/ Blocked(x, u, p) \/ Withheld(x, u, p)
      BY <3>1, HonouredMeans DEF IInv
    <3>3. Covered(x, u, p) => Covered(x, u, p)'
      BY <3>1, <1>5 DEF Covered, HasResourcePermission
    <3>4. Blocked(x, u, p) => Blocked(x, u, p)'
      BY <3>1, <1>5 DEF Blocked
    <3>5. Withheld(x, u, p) => Withheld(x, u, p)'
      BY <3>1, <1>1, <1>2 DEF Withheld
    <3> QED
      BY <3>2, <3>3, <3>4, <3>5
  <2> QED
    BY <2>1, <2>2
<1> QED
  BY <1>6, <1>8, <1>9, <1>10, <1>11, SharingKeeps DEF IInv

\* The deletion of revoke_share_grant takes every grant made for the share from
\* the users it has read, and what it takes from other shares is withheld.
LEMMA DeleteGrantsIInv ==
  ASSUME IInv, NEW s \in Shares, DeleteGrants(s)
  PROVE  IInv'
<1> DEFINE sh == shares[s]
<1> USE DEF DeleteGrants
<1>1. sh \in ShareRecords /\ sh.state \in {"live", "revoked"} /\ sh.reads \subseteq Users
  BY DEF IInv, TypeInv, ShareInv, ShareRecords
<1>2. /\ shares' \in [Shares -> ShareRecords]
      /\ \A x \in Shares \ {s} : shares'[x] = shares[x]
      /\ shares'[s] = [sh EXCEPT !.stage = "deleted", !.hit = sh.hit \cup sh.reads]
  BY <1>1 DEF IInv, TypeInv, ShareRecords
<1>3. /\ shares'[s].state = sh.state /\ shares'[s].org = sh.org /\ shares'[s].res = sh.res
      /\ shares'[s].level = sh.level /\ shares'[s].exp = sh.exp /\ shares'[s].by = sh.by
      /\ shares'[s].kind = sh.kind /\ shares'[s].to = sh.to
      /\ shares'[s].targets = sh.targets /\ shares'[s].hit = sh.hit \cup sh.reads
  BY <1>1, <1>2 DEF ShareRecords
<1>4. grants' = grants \ Withdrawn(s)
  OBVIOUS
<1>5. \A g \in Withdrawn(s) :
        /\ g.user \in sh.reads /\ g.perm \in LevelPermissions[sh.level]
        /\ g.org = sh.org /\ g.res = sh.res
  BY DEF Withdrawn
<1>6. TypeInv'
  <2>1. grants' \subseteq GrantRecords /\ asked' \in 0..MaxRequests
    BY <1>4 DEF IInv, TypeInv, TypeOK, GrantRecords
  <2> QED
    BY <1>2, <2>1, SharesTyped DEF IInv, TypeInv
<1>7. \A u, p, o : /\ HasRolePermission(u, p, o)' <=> HasRolePermission(u, p, o)
                   /\ Member(u, o)' <=> Member(u, o)
  BY DEF HasRolePermission, Member
<1>8. RightInv'
  BY <1>4, <1>7 DEF IInv, RightInv
<1>9. ShareInv'
  BY <1>1, <1>2, <1>3, <1>7 DEF IInv, ShareInv
<1>10. GrantInv'
  BY <1>2, <1>3, <1>4 DEF IInv, GrantInv
<1>11. RevocationReaches'
  <2> SUFFICES ASSUME NEW g \in grants', g.for \in Shares PROVE g.user \notin shares'[g.for].hit
    BY DEF RevocationReaches
  <2>1. g \in grants /\ g.user \notin shares[g.for].hit
    BY <1>4 DEF IInv, RevocationReaches
  <2>2. CASE g.for = s
    <3>1. g.org = sh.org /\ g.res = sh.res /\ g.perm \in LevelPermissions[sh.level]
      BY <2>1, <2>2 DEF IInv, GrantInv
    <3>2. g.user \notin sh.reads
      BY <1>4, <2>1, <3>1 DEF Withdrawn
    <3> QED
      BY <1>3, <2>1, <2>2, <3>2
  <2>3. CASE g.for # s
    BY <1>2, <2>1, <2>3
  <2> QED
    BY <2>2, <2>3
<1>12. ShareHonoured'
  <2> SUFFICES ASSUME NEW x \in Shares, shares'[x].state = "live", shares'[x].exp > now,
                      NEW u \in shares'[x].targets \ shares'[x].hit,
                      NEW p \in LevelPermissions[shares'[x].level]
               PROVE  Covered(x, u, p)' \/ Blocked(x, u, p)' \/ Withheld(x, u, p)'
    BY HonouredNext
  <2>1. /\ shares'[x].state = shares[x].state /\ shares'[x].org = shares[x].org
        /\ shares'[x].res = shares[x].res /\ shares'[x].level = shares[x].level
        /\ shares'[x].exp = shares[x].exp /\ shares'[x].targets = shares[x].targets
        /\ shares[x].hit \subseteq shares'[x].hit
    <3>1. CASE x = s
      BY <1>3, <3>1
    <3>2. CASE x # s
      BY <1>2, <3>2
    <3> QED
      BY <3>1, <3>2
  <2>2. Covered(x, u, p) \/ Blocked(x, u, p) \/ Withheld(x, u, p)
    BY <2>1, HonouredMeans DEF IInv
  <2>3. ASSUME NEW g \in Withdrawn(s), g.user = u, g.perm = p, g.res = shares[x].res
        PROVE  Withheld(x, u, p)'
    <3>1. u \in sh.reads /\ p \in LevelPermissions[sh.level] /\ sh.res = shares[x].res
      BY <1>5, <2>3
    <3>2. x # s
      BY <1>3, <3>1
    <3> QED
      BY <1>3, <2>1, <3>1, <3>2 DEF Withheld
  <2>4. Covered(x, u, p) => Covered(x, u, p)' \/ Withheld(x, u, p)'
    BY <1>4, <2>1, <2>3 DEF Covered, HasResourcePermission
  <2>5. Blocked(x, u, p) => Blocked(x, u, p)' \/ Withheld(x, u, p)'
    BY <1>4, <2>1, <2>3 DEF Blocked
  <2>6. Withheld(x, u, p) => Withheld(x, u, p)'
    <3> SUFFICES ASSUME NEW s2 \in Shares \ {x}, u \in shares[s2].hit,
                        shares[s2].res = shares[x].res,
                        p \in LevelPermissions[shares[s2].level]
                 PROVE  Withheld(x, u, p)'
      BY DEF Withheld
    <3>1. u \in shares'[s2].hit /\ shares'[s2].res = shares[s2].res
          /\ shares'[s2].level = shares[s2].level
      <4>1. CASE s2 = s
        BY <1>3, <4>1
      <4>2. CASE s2 # s
        BY <1>2, <4>2
      <4> QED
        BY <4>1, <4>2
    <3> QED
      BY <2>1, <3>1 DEF Withheld
  <2> QED
    BY <2>2, <2>4, <2>5, <2>6
<1> QED
  BY <1>6, <1>8, <1>9, <1>10, <1>11, <1>12, SharingKeeps DEF IInv

\* The steps of a revocation that only record its progress, and a request that
\* is cut off.
LEMMA ProgressIInv ==
  ASSUME IInv, NEW s \in Shares,
         (\E a \in Users : BeginRevoke(a, s)) \/ MarkRevoked(s) \/ Cut(s)
  PROVE  IInv'
<1> DEFINE sh == shares[s]
<1>1. sh \in ShareRecords /\ (sh.stage # "none" => sh.state \in {"live", "revoked"})
  BY DEF IInv, TypeInv, ShareInv, ShareRecords
<1>2. asked' \in 0..MaxRequests
  BY RequestCounted DEF BeginRevoke, MarkRevoked, Cut, IInv, TypeInv, TypeOK
<1>3. UNCHANGED <<orgs, teams, members, apps, roles, grants, now>>
  BY DEF BeginRevoke, MarkRevoked, Cut
<1>4. CASE sh.state = "creating" /\ shares' = [shares EXCEPT ![s] = NoShare]
  <2>1. NoShare.state = "free" /\ NoShare.hit = {} /\ NoShare.stage = "none"
    BY DEF NoShare
  <2> QED
    BY <1>2, <1>3, <1>4, <2>1, NoShareType, ShareReplaced
<1>5. ASSUME NEW new \in ShareRecords, sh.state \in {"live", "revoked"},
             new.state \in {sh.state, "revoked"},
             SameTerms(new, sh),
             shares' = [shares EXCEPT ![s] = new]
      PROVE  IInv'
  BY <1>2, <1>3, <1>5, ShareTouched
<1>6. CASE \E a \in Users : BeginRevoke(a, s)
  <2> DEFINE users == PrincipalUsers(sh.org, sh.kind, sh.to)
             new == [sh EXCEPT !.stage = "read", !.reads = users]
  <2>1. sh.state \in {"live", "revoked"} /\ shares' = [shares EXCEPT ![s] = new]
    BY <1>1, <1>6 DEF BeginRevoke, IInv, TypeInv
  <2>2. users \subseteq Users
    BY <1>1, <2>1 DEF PrincipalUsers, IInv, ShareInv, ShareRecords
  <2>3. new \in ShareRecords
    BY <1>1, <2>2 DEF ShareRecords
  <2>4. new.state = sh.state /\ SameTerms(new, sh)
    BY <1>1 DEF ShareRecords, SameTerms
  <2> QED
    BY <1>5, <2>1, <2>3, <2>4
<1>7. CASE MarkRevoked(s)
  <2> DEFINE new == [sh EXCEPT !.stage = "none", !.reads = {}, !.state = "revoked"]
  <2>1. sh.state \in {"live", "revoked"} /\ shares' = [shares EXCEPT ![s] = new]
    BY <1>1, <1>7 DEF MarkRevoked, IInv, TypeInv
  <2>2. new \in ShareRecords
    BY <1>1 DEF ShareRecords
  <2>3. new.state = "revoked" /\ SameTerms(new, sh)
    BY <1>1 DEF ShareRecords, SameTerms
  <2> QED
    BY <1>5, <2>1, <2>2, <2>3
<1>8. CASE sh.stage # "none" /\ shares' = [shares EXCEPT ![s].stage = "none", ![s].reads = {}]
  <2> DEFINE new == [sh EXCEPT !.stage = "none", !.reads = {}]
  <2>1. sh.state \in {"live", "revoked"} /\ shares' = [shares EXCEPT ![s] = new]
    BY <1>1, <1>8 DEF IInv, TypeInv
  <2>2. new \in ShareRecords
    BY <1>1 DEF ShareRecords
  <2>3. new.state = sh.state /\ SameTerms(new, sh)
    BY <1>1 DEF ShareRecords, SameTerms
  <2> QED
    BY <1>5, <2>1, <2>2, <2>3
<1> QED
  BY <1>4, <1>6, <1>7, <1>8 DEF Cut

\* A grant that expires is still in the place of the share's own.
LEMMA TickIInv == ASSUME IInv, Tick PROVE IInv'
<1> USE AccessAssumption DEF Tick
<1>1. TypeInv'
  BY DEF IInv, TypeInv, TypeOK
<1>2. RightInv' /\ ShareInv' /\ GrantInv' /\ RevocationReaches'
  BY DEF IInv, RightInv, ShareInv, GrantInv, RevocationReaches, HasRolePermission, Member
<1>3. ShareHonoured'
  <2> SUFFICES ASSUME NEW x \in Shares, shares[x].state = "live", shares[x].exp > now',
                      NEW u \in shares[x].targets \ shares[x].hit,
                      NEW p \in LevelPermissions[shares[x].level]
               PROVE  Covered(x, u, p)' \/ Blocked(x, u, p)' \/ Withheld(x, u, p)'
    BY HonouredNext
  <2>1. shares[x].exp > now /\ now \in Nat /\ \A g \in grants : g.exp \in Nat
    BY DEF IInv, TypeInv, TypeOK, ShareRecords, Moments, Never
  <2>2. Covered(x, u, p) \/ Blocked(x, u, p) \/ Withheld(x, u, p)
    BY <2>1, HonouredMeans DEF IInv
  <2>3. Covered(x, u, p) => Covered(x, u, p)' \/ Blocked(x, u, p)'
    BY <2>1 DEF Covered, HasResourcePermission, Blocked
  <2>4. Blocked(x, u, p) => Blocked(x, u, p)'
    BY <2>1 DEF Blocked
  <2>5. Withheld(x, u, p) => Withheld(x, u, p)'
    BY DEF Withheld
  <2> QED
    BY <2>2, <2>3, <2>4, <2>5
<1> QED
  BY <1>1, <1>2, <1>3, SharingKeeps DEF IInv

-----------------------------------------------------------------------------
(***************************************************************************)
(* Theorems.                                                               *)
(***************************************************************************)

\* Every step keeps the inductive invariant.
LEMMA NextIInv == IInv /\ [Next]_vars => IInv'
<1> SUFFICES ASSUME IInv, [Next]_vars PROVE IInv'
  OBVIOUS
<1>1. Grow
  BY GrowStep DEF IInv, TypeInv
<1>2. CASE People
  BY <1>1, <1>2, PeopleIInv
<1>3. CASE Applications
  BY <1>1, <1>3, RegisterIInv, GrantToApplicationIInv DEF Applications
<1>4. CASE Sharing
  <2>1. PICK s \in Shares :
          \/ \E a \in Users, r \in Resources, to \in Principals, level \in Levels, exp \in Moments :
               BeginShare(a, s, Home[r], r, to[1], to[2], level, exp)
          \/ FinishShare(s) \/ DeleteGrants(s)
          \/ (\E a \in Users : BeginRevoke(a, s)) \/ MarkRevoked(s) \/ Cut(s)
    BY <1>4 DEF Sharing
  <2> QED
    BY <2>1, BeginShareIInv, FinishShareIInv, DeleteGrantsIInv, ProgressIInv
<1>5. CASE Tick
  BY <1>5, TickIInv
<1>6. CASE UNCHANGED vars
  <2>1. TypeInv' /\ RoleInv' /\ AppInv'
    BY <1>6, SharingKeeps DEF vars, IInv, TypeInv, TypeOK
  <2> QED
    BY <1>1, <1>6, <2>1, SharesKept DEF vars, IInv
<1> QED
  BY <1>2, <1>3, <1>4, <1>5, <1>6 DEF Next

\* Authority is sound whatever order people are added, given roles, moved
\* between teams and shared with: it traces back to somebody who held it, stays
\* within the members of an organization, and every organization is managed
\* (assign_role, create_organization, create_share_grant, register_application).
THEOREM AuthorityAlwaysSound == Spec => []AuthorityIsSound
<1>1. IInv => AuthorityIsSound
  BY SoundParts DEF IInv
<1> QED
  BY <1>1, InitIInv, NextIInv, PTL DEF Spec

\* No grant survives a revocation of its share for a user the revocation read,
\* however creations and revocations overlap (revoke_share_grant).
THEOREM RevocationAlwaysReaches == Spec => []RevocationReaches
<1>1. IInv => RevocationReaches
  BY DEF IInv
<1> QED
  BY <1>1, InitIInv, NextIInv, PTL DEF Spec

\* A live share gives its targets what it promises, but for the two named
\* exceptions, at every moment of its life (create_share_grant).
THEOREM SharesAlwaysHonoured == Spec => []ShareHonoured
<1>1. IInv => ShareHonoured
  BY DEF IInv
<1> QED
  BY <1>1, InitIInv, NextIInv, PTL DEF Spec

\* Memberships, organizations and roles are never taken away: a permission that
\* was checked at the start of a request still holds at its end, which is why
\* requests that make one change may be single steps of the model.
THEOREM AuthorityGrows == Spec => [][Grow]_vars
<1>1. IInv /\ [Next]_vars => [Grow]_vars
  BY GrowStep DEF IInv, TypeInv
<1> QED
  BY <1>1, InitIInv, NextIInv, PTL DEF Spec
=============================================================================
