SPECIFICATION Spec
CONSTANTS
  Root = root
  Demo = demo
  AdminRole = radmin
  UserRole = ruser
  NoUser = NoUser
  NoRole = NoRole
  User = {root, demo, u3}
  Role = {radmin, ruser, r3}
  RoleName = {"admin", "user", "ops"}
  Call = {c1, c2, c3, c4}
  TTL = 1
  LoginDelay = 1
  MaxTime = 2
SYMMETRY Requests
INVARIANTS
  TypeOK
  GrantProvenance
  NoEscalation
PROPERTIES
  AuthorityIsRecent
  DeletionSettles
  RevocationSettles
