\* Two workers: a document executes twice.
SPECIFICATION Spec
CONSTANTS
  Call = {c1, c2}
  Ref = {r1, r2, r3, r4, r5}
  Doc <- DocsFew
  Response = {ok}
  NoDoc = NoDoc
  NoRef = NoRef
  InFlight = InFlight
  MaxAge = 1
  Skew = 0
  Margin = 1
  PerIssuer = 2
  PerHandle = 3
  Total = 3
  Workers = 2
  MaxLag = 1
  MaxTime = 2
  MaxRestarts = 0
INVARIANT ExecutesOnce
SYMMETRY Symmetry
\* The bound on time ends every behaviour.
CHECK_DEADLOCK FALSE
