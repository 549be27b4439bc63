------------------------------ MODULE MCStore -------------------------------
(* A registry opened from a snapshot that is at the total cap, over that of   *)
(* t1 and over that of vta1 even without the handle that spells vta1 with a   *)
(* locator; one handle was issued by a clock that was ahead.  Each cap can be *)
(* the only one in the way of a registration.                                 *)
EXTENDS Store, TLC

CONSTANTS h1, h2, h3, h4, t1, t2, t3, vta1, vta2, vta1AtSource

LoadedEntry(t, d, tr, at) == [token |-> t, controller |-> d, triggers |-> tr, createdAt |-> at]
OverCaps ==
  h1 :> LoadedEntry(t1, vta1, {vta2}, 0) @@
  h2 :> LoadedEntry(t1, vta1, {}, 2) @@
  h3 :> LoadedEntry(t2, vta1AtSource, {}, 0)

(* vta1 is also spelled with a locator. *)
BareDid == [n \in Name |-> IF n = vta1AtSource THEN vta1 ELSE n]
=============================================================================
