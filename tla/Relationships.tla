--------------------------- MODULE Relationships ----------------------------
(* The TSP relationships of the gateway and their upkeep: the accept of an    *)
(* invite and the stamps of activity (tsp.rs), the idle sweep, the snapshot   *)
(* and its reopening (relationships.rs).  The SDK's store, its gate and its   *)
(* eviction policy are external, over a byte map that locks each access by    *)
(* itself.  What the frames carry is Intake, how a flush works is Snapshot.   *)
EXTENDS Integers, FiniteSets, Functions

CONSTANTS
  Peer,       \* VIDs
  Worker,     \* tasks that handle what peers send
  Nobody,
  Idle,       \* EvictionPolicy: how long a relationship may be silent (7 days)
  MaxTime, MaxRestarts, MaxInvites   \* bounds of the model

ASSUME RelationshipsAssumption ==
  /\ Nobody \notin Peer
  /\ Idle \in Nat /\ MaxTime \in Nat /\ MaxRestarts \in Nat
  /\ MaxInvites \in Nat

VARIABLES
  now,
  rel,      \* peer -> [mutual, stamp]: its relationship and its last activity
  saved,    \* the snapshot of rel
  touching, \* Worker -> the peer it is about to stamp as active
  sweep,    \* the sweep in progress: when it read, whom it found idle
  heard,    \* history: peer -> when a frame of its was last let in
  restarts, invites

vars == <<now, rel, saved, touching, sweep, heard, restarts, invites>>

NoSweep == [at |-> 0, idle |-> {}]

(* Types, and: an idle relationship is one that could have been read.         *)
TypeOK ==
  /\ now \in 0..MaxTime /\ restarts \in 0..MaxRestarts /\ invites \in 0..MaxInvites
  /\ \A f \in {rel, saved} :
       /\ DOMAIN f \subseteq Peer
       /\ \A p \in DOMAIN f : f[p].mutual \in BOOLEAN /\ f[p].stamp \in 0..now
  /\ touching \in [Worker -> Peer \cup {Nobody}]
  /\ sweep.idle \subseteq Peer /\ sweep.at \in 0..now
  /\ sweep.idle # {} => sweep.at > Idle
  /\ DOMAIN heard \subseteq Peer /\ \A p \in DOMAIN heard : heard[p] \in 0..now

Empty == [p \in {} |-> 0]
Init ==
  /\ now = 0
  /\ rel = Empty /\ saved = Empty /\ heard = Empty
  /\ touching = [k \in Worker |-> Nobody]
  /\ sweep = NoSweep
  /\ restarts = 0 /\ invites = 0

Put(f, p, v) == [q \in DOMAIN f \cup {p} |-> IF q = p THEN v ELSE f[q]]
Remove(f, p) == Restrict(f, DOMAIN f \ {p})
-----------------------------------------------------------------------------
(* The service records an invite; handle_control answers it with an accept    *)
(* and stamps the peer.  When the accept cannot be sent the invite stays.     *)
Invite(k, p, accepted) ==
  /\ touching[k] = Nobody
  /\ p \notin DOMAIN rel
  /\ invites < MaxInvites
  /\ invites' = invites + 1
  /\ rel' = Put(rel, p, [mutual |-> accepted, stamp |-> now])
  /\ touching' = IF accepted THEN [touching EXCEPT ![k] = p] ELSE touching
  /\ UNCHANGED <<now, saved, sweep, heard, restarts>>

(* The peer takes its relationship back; the service has recorded that.       *)
Cancel(p) ==
  /\ p \in DOMAIN rel
  /\ rel' = Remove(rel, p)
  /\ UNCHANGED <<now, saved, touching, sweep, heard, restarts, invites>>

(* The gate: a frame passes only from a peer with a mutual relationship. Then *)
(* tsp::receive stamps it, if the frame is an envelope with a document. More  *)
(* frames of a peer within one step of the clock are left out.                *)
Stamped_Never(k, p) == touching
Stamped(k, p) == [touching EXCEPT ![k] = p]
Frame(k, p) ==
  /\ touching[k] = Nobody
  /\ p \in DOMAIN rel /\ rel[p].mutual
  /\ p \in DOMAIN heard => heard[p] < now
  /\ touching' = Stamped(k, p)
  /\ heard' = Put(heard, p, now)
  /\ UNCHANGED <<now, rel, saved, sweep, restarts, invites>>

(* touch_relationship.  A stamp alone makes no relationship.                  *)
Touch(k) ==
  LET p == touching[k] IN
  /\ p # Nobody
  /\ rel' = IF p \in DOMAIN rel THEN [rel EXCEPT ![p].stamp = now] ELSE rel
  /\ touching' = [touching EXCEPT ![k] = Nobody]
  /\ UNCHANGED <<now, saved, sweep, heard, restarts, invites>>

(* maintenance_loop: evict_idle reads the relationships and deletes those it  *)
(* found idle, each in an access of its own.                                  *)
IsIdle_Saturating(p) == rel[p].stamp <= IF now > Idle THEN now - Idle ELSE 0
IsIdle(p) == rel[p].stamp + Idle < now

(* scan_prefix: every relationship, established or only invited.              *)
Scanned_Established == {p \in DOMAIN rel : rel[p].mutual}
Scanned == DOMAIN rel

SweepRead ==
  /\ sweep.idle = {}
  /\ \E p \in Scanned : IsIdle(p)
  /\ sweep' = [at |-> now, idle |-> {p \in Scanned : IsIdle(p)}]
  /\ UNCHANGED <<now, rel, saved, touching, heard, restarts, invites>>

Deleted(p) == IF sweep.idle = {p} THEN NoSweep ELSE [sweep EXCEPT !.idle = @ \ {p}]
SweepDelete(p) ==
  /\ p \in sweep.idle
  /\ rel' = Remove(rel, p)
  /\ sweep' = Deleted(p)
  /\ UNCHANGED <<now, saved, touching, heard, restarts, invites>>

(* flush_loop, and the flush at shutdown. *)
Flush ==
  /\ saved # rel
  /\ saved' = rel
  /\ UNCHANGED <<now, rel, touching, sweep, heard, restarts, invites>>

(* The process ends, in whatever way, and open reads the snapshot back; a     *)
(* file that is missing, unreadable or garbled counts as empty.  What the     *)
(* peers did since the snapshot is forgotten with it.                         *)
Restart(readable) ==
  /\ restarts < MaxRestarts
  /\ restarts' = restarts + 1
  /\ rel' = IF readable THEN saved ELSE Empty
  /\ heard' = [p \in DOMAIN heard \cap DOMAIN rel' |-> IF saved[p].stamp < heard[p]
                                                       THEN saved[p].stamp ELSE heard[p]]
  /\ touching' = [k \in Worker |-> Nobody]
  /\ sweep' = NoSweep
  /\ UNCHANGED <<now, saved, invites>>

(* One step of the clock, hours of real time, is longer than a frame waits    *)
(* for its stamp and a change for its snapshot.                               *)
Tick ==
  /\ now < MaxTime
  /\ saved = rel
  /\ \A k \in Worker : touching[k] = Nobody
  /\ now' = now + 1
  /\ UNCHANGED <<rel, saved, touching, sweep, heard, restarts, invites>>

Next ==
  \/ \E k \in Worker :
       \/ \E p \in Peer : Frame(k, p) \/ \E accepted \in BOOLEAN : Invite(k, p, accepted)
       \/ Touch(k)
  \/ \E p \in Peer : Cancel(p) \/ SweepDelete(p)
  \/ \E readable \in BOOLEAN : Restart(readable)
  \/ SweepRead \/ Flush \/ Tick

Spec == Init /\ [][Next]_vars

(* The timers and the tasks go on, and time passes.                           *)
FairSpec ==
  /\ Spec
  /\ WF_vars(Tick) /\ WF_vars(Flush) /\ WF_vars(SweepRead)
  /\ \A p \in Peer : WF_vars(SweepDelete(p))
  /\ \A k \in Worker : WF_vars(Touch(k))
-----------------------------------------------------------------------------
(* A sweep is about to delete only relationships that had been silent for     *)
(* longer than the policy when it read them, or were used again since, which  *)
(* it cannot see; over restarts too.  (tsp.rs:119; relationships.rs:40 "a     *)
(* live relationship never goes idle and only an abandoned one is swept".)    *)
SweepsOnlySilent ==
  \A p \in sweep.idle \cap DOMAIN heard : heard[p] \notin (sweep.at - Idle)..(sweep.at - 1)

(* A relationship that nobody uses leaves in the end, and so does an invite   *)
(* that could not be answered.  (main.rs:422 "so an invite that is never      *)
(* followed up doesn't accumulate forever".)                                  *)
AbandonedLeave ==
  <>[](now = MaxTime /\ \A p \in DOMAIN rel : rel[p].stamp + Idle >= now)
=============================================================================
