\* The loop and main both flush; writes fail, the process crashes, stops.
SPECIFICATION FairSpec
CONSTANTS
  Mutator = {m1, m2}
  Loop = Loop
  Main = Main
  Flusher = {Loop, Main}
  MaxChanges = 3
  MaxCrashes = 1
INVARIANTS TypeOK NoChangeForgotten CleanShutdownDurableAlone
PROPERTIES ImplementsDurableMap EventuallyDurable
\* A stopped process does nothing.
CHECK_DEADLOCK FALSE
