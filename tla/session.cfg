SPECIFICATION Spec
CONSTANTS
  k1 = k1
  k2 = k2
  Token = {k1, k2}
  NoToken = NoToken
  alice = alice
  bob = bob
  User = {alice, bob}
  Nobody = Nobody
  Owner <- OwnerOf
  FirstTokens <- AtStart
  MaxFlights = 2
  MaxReloads = 1
INVARIANTS TypeOK ShownUserExplained
PROPERTIES SpentTokensAreNotSent LoadingEnds
