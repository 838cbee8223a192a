SPECIFICATION Spec
CONSTANTS
  User = {alice, bob}
  Password = {p1, p2}
  Call = {c1, c2, c3, c4}
  Admin = alice
  NoUser = NoUser
  NoCall = NoCall
  NoPassword = NoPassword
  ResetTTL = 1
  ResetDelay = 1
  MaxTime = 2
PROPERTIES UpdateLeavesPassword
