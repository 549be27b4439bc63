\* Three wakes at a time over three refreshes of either token.
SPECIFICATION Spec
CONSTANTS
  Call = {c1, c2, c3}
  NoCall = NoCall
  ApnsRefresh = 2
  FcmRefresh = 3
  ApnsLifetime = 4
  Lifetimes = {1, 5}
  SendTimeout = 2
  MaxTime = 8
INVARIANTS TypeOK NoStaleToken
PROPERTY RefreshesSpaced
SYMMETRY Symmetry
\* The bound on time ends every behaviour.
CHECK_DEADLOCK FALSE
