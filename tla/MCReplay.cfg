\* Two workers, a restart: claims interleave with each other and with purges.
SPECIFICATION Spec
CONSTANTS
  Call = {c1, c2}
  Ref = {r1, r2, r3, r4, r5}
  Doc <- DocsFew
  Response = {ok}
  NoDoc = NoDoc
  NoRef = NoRef
  InFlight = InFlight
  MaxAge = 1
  Skew = 0
  Margin = 2
  PerIssuer = 2
  PerHandle = 1
  Total = 2
  Workers = 2
  MaxLag = 1
  MaxTime = 3
  MaxRestarts = 1
INVARIANTS TypeOK ClaimsHaveOwners ChargesMatchEntries BudgetsBounded IdsConflict
PROPERTY ImplementsOnceOnly
SYMMETRY Symmetry
\* The bound on time ends every behaviour.
CHECK_DEADLOCK FALSE
