\* Provisions, revocations and wakes of one handle, two calls, one worker.
SPECIFICATION FairSpec
CONSTANTS
  h1 = h1
  t1 = t1
  vta = vta
  trigger = trigger
  Call = {c1, c2}
  Ref = {r1, r2, r3, r4, r5}
  NoDoc = NoDoc
  NoRef = NoRef
  InFlight = InFlight
  Doc <- DocsAll
  MaxAge = 1
  Skew = 0
  Margin = 1
  PerIssuer = 2
  PerHandle = 4
  Total = 4
  Workers = 1
  MaxLag = 1
  MaxTime = 2
  MaxRestarts = 0
  Handle = {h1}
  Token = {t1}
  Did = {vta, trigger}
  Name = {vta, trigger}
  Bare <- BareDid
  MaxHandles = 1
  MaxPerToken = 1
  MaxPerController = 1
  Ttl = 2
  Loaded <- Unopened
  MaxBackstep = 0
  MaxBacksteps = 0
  Served = {vta}
INVARIANTS TypeOK NoClaimLeaks EffectOnce AnswersAreTrue
PROPERTIES UsesRecord EveryCallAnswered
\* The bound on time ends every behaviour.
CHECK_DEADLOCK FALSE
