SPECIFICATION Spec
CONSTANTS
  ann = ann
  bob = bob
  svc = svc
  o1 = o1
  o2 = o2
  t1 = t1
  r1 = r1
  s1 = s1
  s2 = s2
  Users = {ann, bob, svc}
  Identities = {svc}
  Operators = {bob}
  Orgs = {o1, o2}
  Teams = {t1}
  Resources = {r1}
  TeamOrg <- MCTeamOrg
  Home <- MCHome
  Shares = {s1, s2}
  Roles = {"super-administrator"}
  Levels = {"read", "write"}
  Scopes = {"storage.read"}
  MaxTime = 1
  MaxRequests = 6
  Gateway = TRUE
  MfaUsers = {bob}
INVARIANTS
  AuthorityIsSound
  RevocationReaches
  ShareHonoured
SYMMETRY MCSymmetry
CHECK_DEADLOCK FALSE
