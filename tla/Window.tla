------------------------------- MODULE Window -------------------------------
(* The acceptance window of an authenticated document and the retention of    *)
(* its replay record: intake.rs, acceptance_window and check_window.          *)
(*                                                                            *)
(* A document is a record with at least                                       *)
(*   issued  : the second of its issuedAt (required by the policy), and       *)
(*   expires : {} when it has no expiresAt, {e} when expiresAt = e.           *)
EXTENDS Integers

CONSTANTS
  MaxAge,   \* trust_tasks_rs::DEFAULT_MAX_AGE (300 s)
  Skew,     \* trust_tasks_rs::DEFAULT_SKEW (60 s)
  Margin    \* intake.rs RETENTION_MARGIN (1 s)

ASSUME WindowAssumption ==
  /\ MaxAge \in Nat
  /\ Skew \in Nat
  /\ Margin \in Nat \ {0}

(* The last instant validate_freshness lets the document in. *)
LastFresh(d) == d.issued + MaxAge + Skew

(* validate_freshness, then validate_basic, which refuses expiresAt <= now.   *)
Fresh(d, t) ==
  /\ d.issued <= t + Skew
  /\ t <= LastFresh(d)
  /\ \A e \in d.expires : t < e

(* retain_until = min(issuedAt + max_age + skew, expiresAt) + margin, and a   *)
(* record is kept while retain_until > t.  Being below a minimum is being     *)
(* below each of its arguments.                                               *)
Retained_NoMargin(d, t) ==
  /\ t < LastFresh(d)
  /\ \A e \in d.expires : t < e

Retained(d, t) ==
  /\ t < LastFresh(d) + Margin
  /\ \A e \in d.expires : t < e + Margin
=============================================================================
