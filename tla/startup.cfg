SPECIFICATION Spec
CONSTANTS
  UserId = {u1, u2, u3}
  RoleId = {r1, r2, r3}
  Username = {n1, n2}
  Mail = {m1, m2}
INVARIANTS TypeOK CrashSafeSeeding FailureExplained
PROPERTIES ServesSeeded
SYMMETRY Rows
