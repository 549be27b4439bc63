------------------------------ MODULE MCIntake ------------------------------
(* One call at a time: its steps interleave with rotations of the issuer's    *)
(* keys, the clock, the sweep and restarts.  v is a controller, known as vs   *)
(* with a locator too; x is a stranger, who also speaks TSP; w is a host that *)
(* answers with v's document, y one that answers with too large a document.   *)
EXTENDS Intake, TLC

CONSTANTS c1, v, vs, x, w, y, k1, k2, kx, ky

MCCall == {c1}
MCName == {v, vs, x, w, y}
MCBare == (v :> v) @@ (vs :> v) @@ (x :> x) @@ (w :> w) @@ (y :> y)
MCPeer == {x}
MCClaim == {v, x}
MCKey == {k1, k2, kx, ky}
MCHolder == (k1 :> v) @@ (k2 :> v) @@ (kx :> x) @@ (ky :> y)

M(key, controller, listed, revoked, expires) ==
  [key |-> key, controller |-> controller, listed |-> listed, revoked |-> revoked,
   expires |-> expires]
DidDoc(id, size, methods) == [id |-> id, size |-> size, methods |-> methods]

(* v rotates k1 out, then revokes nothing more but lets k2 expire at 3.  It   *)
(* also names a key of x's, as x's, and one for attestations only.            *)
First == DidDoc(v, 1, ("a" :> M(k1, v, TRUE, FALSE, {}))
                   @@ ("guest" :> M(kx, x, TRUE, FALSE, {}))
                   @@ ("attest" :> M(k2, v, FALSE, FALSE, {})))
Second == DidDoc(v, 1, ("a" :> M(k1, v, TRUE, TRUE, {})) @@ ("b" :> M(k2, v, TRUE, FALSE, {3})))
MCHistory ==
  (v :> <<First, Second>>) @@ (vs :> <<Second>>) @@ (w :> <<First>>)
  @@ (x :> <<DidDoc(x, 1, "a" :> M(kx, x, TRUE, FALSE, {}))>>)
  @@ (y :> <<DidDoc(y, 3, "a" :> M(ky, y, TRUE, FALSE, {}))>>)

Proof(did, fragment, signer) ==
  {[suite |-> "eddsa-jcs-2022", purpose |-> "authentication", did |-> did,
    fragment |-> fragment, signer |-> signer]}
D(issuer, proof) == [kind |-> "push/wake", issuer |-> issuer, proof |-> proof, intact |-> TRUE,
                     recipient |-> Gateway, issued |-> 1, expires |-> {}]
Signed == D(v, Proof(v, "a", k1))

MCDoc ==
  {Signed, D(v, Proof(v, "b", k2)), D(vs, Proof(vs, "b", k2)), D(x, Proof(x, "a", kx)),
   D(v, Proof(v, "guest", kx)), D(v, Proof(x, "a", kx)), D(v, Proof(v, "attest", k2)),
   D(w, Proof(w, "a", k1)), D(y, Proof(y, "a", ky)), D(v, {}), D(Nobody, Proof(v, "a", k1)),
   [Signed EXCEPT !.intact = FALSE], [Signed EXCEPT !.recipient = "other"],
   [Signed EXCEPT !.recipient = "none"],
   [D(v, {}) EXCEPT !.kind = "push/register", !.recipient = "none"]}
MCPerDid == [rate |-> {}, burst |-> {2}]
MCPerRegister == [rate |-> {0}, burst |-> {}]
=============================================================================
