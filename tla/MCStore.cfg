\* A registry opened at and over its caps, with a clock that can be set back.
SPECIFICATION FairSpec
CONSTANTS
  h1 = h1
  h2 = h2
  h3 = h3
  h4 = h4
  t1 = t1
  t2 = t2
  t3 = t3
  vta1 = vta1
  vta2 = vta2
  vta1AtSource = vta1AtSource
  Handle = {h1, h2, h3, h4}
  Token = {t1, t2, t3}
  Did = {vta1, vta2}
  Name = {vta1, vta2, vta1AtSource}
  Bare <- BareDid
  Loaded <- OverCaps
  MaxHandles = 3
  MaxPerToken = 1
  MaxPerController = 1
  Ttl = 1
  MaxTime = 3
  MaxBackstep = 2
  MaxBacksteps = 1
INVARIANTS TypeOK IndexMatches CapsHold
PROPERTIES LeavesOnlyStaleOrDead UnprovisionedExpire
CHECK_DEADLOCK FALSE
