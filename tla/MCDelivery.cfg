SPECIFICATION Spec
CONSTANTS
  h1 = h1
  h2 = h2
  c1 = c1
  c2 = c2
  NoHandle = NoHandle
  NoAddress = NoAddress
  Handle <- MCHandle
  Registration <- MCRegistration
  Config <- MCConfig
  Answers <- MCAnswers
  Call <- MCCall
  Old <- MCOld
  MaxRestarts = 2
SYMMETRY MCSymmetry
INVARIANTS
  TypeOK
  StoreWithinPolicy
  DialsOnlyPublic
  OutcomesAreTrue
  HandlesSurvive
  GuardIsExact
