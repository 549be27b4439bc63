------------------------------ MODULE MCReplay ------------------------------
(* Documents for model-checking Replay.  DocsFew: one document, a later one   *)
(* of its issuer under the same identifier, and one of another issuer under   *)
(* the same identifier, all charged to one handle.                            *)
EXTENDS Replay, TLC

MCDoc(i, id, h, t, e, b) ==
  [issuer |-> i, id |-> id, handle |-> h, issued |-> t, expires |-> e, body |-> b]

First     == MCDoc("trigger", "id1", "h1", 0, {}, 1)
Clash     == MCDoc("trigger", "id1", "h1", 2, {}, 2)
Other     == MCDoc("vta", "id1", "h1", 1, {}, 1)

DocsFew == {First, Clash, Other}

(* One issuer fills the soft bound, others then take their fair shares. *)
DocsCrowd ==
  {MCDoc("a", n, "h1", 0, {}, 1) : n \in {"id1", "id2", "id3", "id4"}}
  \cup {MCDoc("b", n, "h2", 0, {}, 1) : n \in {"id1", "id2"}}
  \cup {MCDoc(i, "id1", "h3", 0, {}, 1) : i \in {"c", "d", "e"}}

Symmetry == Permutations(Call)
=============================================================================
