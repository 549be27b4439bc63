\* Five issuers, a soft bound of four: the hard bound refuses an issuer that
\* holds nothing.  No execution completes here: a record counts either way.
SPECIFICATION Spec
CONSTANTS
  Call = {c1}
  Ref = {r1, r2, r3, r4, r5, r6, r7}
  Doc <- DocsCrowd
  Response = {}
  NoDoc = NoDoc
  NoRef = NoRef
  InFlight = InFlight
  MaxAge = 1
  Skew = 0
  Margin = 1
  PerIssuer = 4
  PerHandle = 9
  Total = 4
  Workers = 1
  MaxLag = 1
  MaxTime = 0
  MaxRestarts = 0
INVARIANT FairShareAdmits
SYMMETRY Symmetry
\* The bound on time ends every behaviour.
CHECK_DEADLOCK FALSE
