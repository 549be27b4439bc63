----------------------------- MODULE DurableMap -----------------------------
(* What a debounced snapshot promises (store.rs module documentation): the    *)
(* file always holds a state the map was in, it moves only forward, and a     *)
(* crash costs the changes made since - never more, and never a mixture.      *)
(* States of the map are numbered by the changes that led to them.            *)
EXTENDS Integers

VARIABLES
  mem,    \* the state of the map
  disk    \* the state in the snapshot file

Init == mem = 0 /\ disk = 0

Change == mem' = mem + 1 /\ UNCHANGED disk

Persist ==
  /\ disk < disk' /\ disk' <= mem
  /\ UNCHANGED mem

Crash == mem' = disk /\ UNCHANGED disk

Next == Change \/ Persist \/ Crash

Spec == Init /\ [][Next]_<<mem, disk>>
=============================================================================
