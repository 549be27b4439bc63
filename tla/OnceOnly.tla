------------------------------ MODULE OnceOnly ------------------------------
(* What the replay record promises (replay.rs module documentation, README    *)
(* "A second delivery of an accepted document is ... not executed again"):    *)
(* at most one call at a time executes a document, and once an execution took *)
(* effect no other ever starts.  An execution whose effect did not happen is  *)
(* undone, and the document may be attempted again.  The promise ends for a   *)
(* document the record loses, and the implementation says when that is.       *)
CONSTANTS Doc, Call

VARIABLES
  executing,   \* document -> the calls executing it
  spent,       \* documents that took effect (or may have)
  lost         \* documents the record has given up on

Init ==
  /\ executing = [d \in Doc |-> {}]
  /\ spent = {}
  /\ lost = {}

(* The document has not taken effect and nobody executes it. *)
Start(c, d) ==
  /\ executing[d] = {}
  /\ d \notin spent
  /\ executing' = [executing EXCEPT ![d] = {c}]
  /\ UNCHANGED <<spent, lost>>

Finish(c, d) ==
  /\ c \in executing[d]
  /\ executing' = [executing EXCEPT ![d] = @ \ {c}]
  /\ spent' = spent \cup {d}
  /\ UNCHANGED lost

Undo(c, d) ==
  /\ c \in executing[d]
  /\ executing' = [executing EXCEPT ![d] = @ \ {c}]
  /\ UNCHANGED <<spent, lost>>

(* The record gives up on the documents of D: it promises nothing of them any more. *)
Lose(D) ==
  /\ D # {}
  /\ lost' = lost \cup D
  /\ executing' = [d \in Doc |-> IF d \in D THEN {} ELSE executing[d]]
  /\ spent' = spent \ D

Next ==
  \/ \E c \in Call, d \in Doc \ lost : Start(c, d) \/ Finish(c, d) \/ Undo(c, d)
  \/ \E D \in SUBSET (Doc \ lost) : Lose(D)

Spec == Init /\ [][Next]_<<executing, spent, lost>>
=============================================================================
