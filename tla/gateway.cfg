SPECIFICATION Spec
CONSTANTS
  Call = {c1, c2}
  User = {alice}
  Role = {r1, r2}
  Nobody = Nobody
  NoRoute = NoRoute
  Served = {"login", "listUsers", "assignUserRole", "auditLogs"}
  Elsewhere = {"updateUser", "deleteUser", "removeUserRole", "updateRole", "deleteRole"}
  Queries <- Asked
  History <- PastRows
  p1 = p1
  p2 = p2
  p3 = p3
  p4 = p4
  DefaultLimit = 2
  MaxLimit = 3
  ScanFactor = 2
  MaxTime = 1
  MaxCrashes = 1
INVARIANTS TypeOK AnsweredAsItEnded LogsOnlyToAdmins
PROPERTIES SearchFindsNewest
SYMMETRY Interchangeable
