-------------------------- MODULE MCRelationships ---------------------------
(* Two peers whose frames are handled by two tasks: one relationship can go   *)
(* idle, be swept and be used at the same time while the other is live.       *)
EXTENDS Relationships
=============================================================================
