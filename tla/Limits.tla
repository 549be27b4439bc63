------------------------------- MODULE Limits -------------------------------
(* The limiters the dispatch core consults (limits.rs): one bucket of cells   *)
(* for push/register and one per caller's DID, which a timer drops again when *)
(* they are full.  The buckets are the library's; which there are, who is     *)
(* charged and what is dropped is this code's.                                *)
EXTENDS Integers, Functions, FiniteSetsExt

CONSTANTS
  PerDid,        \* the settings read: [rate |-> {} or {n}, burst |-> {} or {n}]
  PerRegister,
  DefaultRate, DefaultBurst

(* env_u32: unset, unparseable ({}) and zero are the default. *)
Setting(read, default) == IF read \in {{}, {0}} THEN default ELSE CHOOSE n \in read : TRUE

Rate(config)  == Setting(config.rate, DefaultRate)
Burst(config) == Setting(config.burst, DefaultBurst)

ASSUME LimitsAssumption ==
  /\ DefaultRate \in Nat \ {0} /\ DefaultBurst \in Nat \ {0}
  /\ \A c \in {PerDid, PerRegister} : \A s \in {c.rate, c.burst} :
       s = {} \/ \E n \in s : n \in Nat /\ s = {n}

VARIABLES
  bucket,    \* DID -> cells left, of the DIDs that have a bucket
  register   \* cells left for push/register

limitsInit ==
  /\ bucket = [i \in {} |-> 0]
  /\ register = Burst(PerRegister)

(* A DID without a bucket starts with a full one. *)
Cells(did) == IF did \in DOMAIN bucket THEN bucket[did] ELSE Burst(PerDid)

(* allow_did and allow_register, when they allow. *)
AllowDid(did) ==
  /\ Cells(did) > 0
  /\ bucket' = [i \in DOMAIN bucket \cup {did} |-> IF i = did THEN Cells(i) - 1 ELSE bucket[i]]

AllowRegister ==
  /\ register > 0
  /\ register' = register - 1

(* External: the cells that come back in one step of the clock. *)
Refilled(cells, config) == Min({cells + Rate(config), Burst(config)})
Refill ==
  /\ bucket' = [i \in DOMAIN bucket |-> Refilled(bucket[i], PerDid)]
  /\ register' = Refilled(register, PerRegister)

(* shrink: the buckets that have fully replenished. *)
Droppable(cells) == cells = Burst(PerDid)
Shrink ==
  /\ bucket' = Restrict(bucket, {i \in DOMAIN bucket : ~Droppable(bucket[i])})
  /\ UNCHANGED register
=============================================================================
