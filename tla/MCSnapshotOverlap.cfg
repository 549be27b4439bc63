\* A write of the loop overtaken by main's leaves the older state in the file.
SPECIFICATION Spec
CONSTANTS
  Mutator = {m1, m2}
  Loop = Loop
  Main = Main
  Flusher = {Loop, Main}
  MaxChanges = 2
  MaxCrashes = 0
INVARIANT CleanShutdownDurable
SYMMETRY Symmetry
CHECK_DEADLOCK FALSE
