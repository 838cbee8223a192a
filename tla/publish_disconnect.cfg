SPECIFICATION Spec
CONSTANTS
  Call = {c1, c2}
  Reloading = {c1}
  MayMiss = {c2}
  MayBeIdle = {c2}
  MaxAttempts = 2
  MaxCrashes = 1
INVARIANTS UpdatesEmitDespiteDisconnect
