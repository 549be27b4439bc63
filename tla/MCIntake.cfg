SPECIFICATION Spec
CONSTANTS
  c1 = c1
  v = v
  vs = vs
  x = x
  w = w
  y = y
  k1 = k1
  k2 = k2
  kx = kx
  ky = ky
  NoDoc = NoDoc
  Nobody = Nobody
  Call <- MCCall
  Doc <- MCDoc
  Name <- MCName
  Bare <- MCBare
  Peer <- MCPeer
  Claim <- MCClaim
  Key <- MCKey
  Holder <- MCHolder
  History <- MCHistory
  PerDid <- MCPerDid
  PerRegister <- MCPerRegister
  DefaultRate = 1
  DefaultBurst = 1
  Large = 2
  CacheTtl = 2
  NetTimeout = 1
  MaxAge = 3
  Skew = 0
  Margin = 1
  MaxTime = 4
  MaxReceived = 3
  MaxRestarts = 1
CHECK_DEADLOCK FALSE
INVARIANTS
  TypeOK
  ExecutesOnlyProven
  AuthorisedRecently
  BudgetsFollowIdentity
