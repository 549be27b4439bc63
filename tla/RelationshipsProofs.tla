------------------------- MODULE RelationshipsProofs -------------------------
(* For any peers, tasks, idle time and number of restarts: the sweep never    *)
(* takes a relationship that was in use within the idle time before it read.  *)
EXTENDS Relationships, TLAPS

Relationship == [mutual : BOOLEAN, stamp : Nat]

(* The types that the steps rely on.                                          *)
BookOK(f) ==
  /\ DOMAIN f \subseteq Peer
  /\ f \in [DOMAIN f -> Relationship]
  /\ \A p \in DOMAIN f : f[p].stamp <= now
HeardOK ==
  /\ DOMAIN heard \subseteq Peer
  /\ heard \in [DOMAIN heard -> Nat]
  /\ \A p \in DOMAIN heard : heard[p] <= now
SweepOK ==
  /\ sweep \in [at : Nat, idle : SUBSET Peer]
  /\ sweep.at <= now
  /\ sweep.idle # {} => sweep.at > Idle
BoundsOK ==
  now \in 0..MaxTime /\ restarts \in 0..MaxRestarts /\ invites \in 0..MaxInvites
Typed ==
  /\ BoundsOK /\ BookOK(rel) /\ BookOK(saved) /\ HeardOK /\ SweepOK
  /\ touching \in [Worker -> Peer \cup {Nobody}]

(* A frame's stamp is on its peer's relationship, or a task is about to put it*)
(* there within the same step of the clock.                                   *)
Stamping(p) == heard[p] = now /\ \E k \in Worker : touching[k] = p
FramesStamped ==
  \A p \in DOMAIN heard \cap DOMAIN rel : heard[p] <= rel[p].stamp \/ Stamping(p)

(* SweepsOnlySilent, without the interval.                                    *)
SilentOrBack ==
  \A p \in sweep.idle \cap DOMAIN heard : heard[p] + Idle < sweep.at \/ heard[p] >= sweep.at

IInv == Typed /\ FramesStamped /\ SilentOrBack
-----------------------------------------------------------------------------
(* Lemmas about the books: a relationship put in, taken out, or kept.         *)
LEMMA PutBook ==
  ASSUME BookOK(rel), NEW p \in Peer, NEW v \in Relationship, v.stamp <= now,
         now' = now, rel' = Put(rel, p, v)
  PROVE  /\ BookOK(rel)' /\ DOMAIN rel' = DOMAIN rel \cup {p} /\ rel'[p] = v
         /\ \A q \in DOMAIN rel \ {p} : rel'[q] = rel[q]
<1>1. rel' = [q \in DOMAIN rel \cup {p} |-> IF q = p THEN v ELSE rel[q]]
  BY DEF Put
<1>2. /\ DOMAIN rel' = DOMAIN rel \cup {p} /\ rel'[p] = v
      /\ \A q \in DOMAIN rel \ {p} : rel'[q] = rel[q]
  BY <1>1
<1>3. \A q \in DOMAIN rel \cup {p} : (IF q = p THEN v ELSE rel[q]) \in Relationship
  BY DEF BookOK
<1>4. rel' \in [DOMAIN rel \cup {p} -> Relationship]
  BY <1>1, <1>3
<1>5. \A q \in DOMAIN rel' : rel'[q].stamp <= now'
  BY <1>2 DEF BookOK
<1>6. QED
  BY <1>2, <1>4, <1>5 DEF BookOK

LEMMA RemoveBook ==
  ASSUME BookOK(rel), NEW p, now' = now, rel' = Remove(rel, p)
  PROVE  /\ BookOK(rel)' /\ DOMAIN rel' = DOMAIN rel \ {p}
         /\ \A q \in DOMAIN rel' : rel'[q] = rel[q]
<1>1. rel' = [q \in DOMAIN rel \ {p} |-> rel[q]]
  BY DEF Remove, Restrict
<1>2. DOMAIN rel' = DOMAIN rel \ {p} /\ \A q \in DOMAIN rel' : rel'[q] = rel[q]
  BY <1>1
<1>3. \A q \in DOMAIN rel \ {p} : rel[q] \in Relationship
  BY DEF BookOK
<1>4. rel' \in [DOMAIN rel \ {p} -> Relationship]
  BY <1>1, <1>3
<1>5. QED
  BY <1>2, <1>4 DEF BookOK

(* Fewer relationships, and none of them stamped anew.                        *)
LEMMA FewerStamped ==
  ASSUME FramesStamped, UNCHANGED <<now, heard, touching>>, DOMAIN rel' \subseteq DOMAIN rel,
         \A q \in DOMAIN rel' : rel'[q] = rel[q]
  PROVE  FramesStamped'
  BY DEF FramesStamped, Stamping

LEMMA InviteOK ==
  ASSUME IInv, NEW k \in Worker, NEW p \in Peer, NEW accepted \in BOOLEAN,
         Invite(k, p, accepted)
  PROVE  IInv'
<1> DEFINE v == [mutual |-> accepted, stamp |-> now]
<1>1. /\ touching[k] = Nobody /\ p \notin DOMAIN rel
      /\ invites < MaxInvites /\ invites' = invites + 1 /\ rel' = Put(rel, p, v)
      /\ touching' = IF accepted THEN [touching EXCEPT ![k] = p] ELSE touching
      /\ UNCHANGED <<now, saved, sweep, heard, restarts>>
  BY DEF Invite
<1>2. Typed /\ FramesStamped /\ SilentOrBack /\ now \in Nat /\ Nobody \notin Peer
  BY RelationshipsAssumption DEF IInv, Typed, BoundsOK
<1>3. v \in Relationship /\ v.stamp = now /\ now <= now
  BY <1>2 DEF Relationship
<1> HIDE DEF v
<1>4. /\ BookOK(rel)' /\ DOMAIN rel' = DOMAIN rel \cup {p} /\ rel'[p] = v
      /\ \A q \in DOMAIN rel \ {p} : rel'[q] = rel[q]
  BY <1>1, <1>2, <1>3, PutBook DEF Typed
<1>5. touching' \in [Worker -> Peer \cup {Nobody}]
      /\ \A j \in Worker : j # k => touching'[j] = touching[j]
  BY <1>1, <1>2 DEF Typed
<1>6. Typed'
  <2>1. BoundsOK'
    BY <1>1, <1>2, RelationshipsAssumption DEF Typed, BoundsOK
  <2>2. BookOK(saved)' /\ HeardOK' /\ SweepOK'
    BY <1>1, <1>2 DEF Typed, BookOK, HeardOK, SweepOK
  <2>3. QED
    BY <1>4, <1>5, <2>1, <2>2 DEF Typed
<1>7. FramesStamped'
  <2> SUFFICES ASSUME NEW q \in DOMAIN heard, q \in DOMAIN rel'
               PROVE  heard[q] <= rel'[q].stamp \/ Stamping(q)'
    BY <1>1 DEF FramesStamped
  <2>1. CASE q = p
    BY <1>2, <1>3, <1>4, <2>1 DEF Typed, HeardOK
  <2>2. CASE q # p
    <3>1. q \in DOMAIN rel /\ rel'[q] = rel[q]
      BY <1>4, <2>2
    <3>2. CASE Stamping(q)
      <4>1. PICK j \in Worker : touching[j] = q
        BY <3>2 DEF Stamping
      <4>2. j # k
        BY <1>1, <1>2, <4>1 DEF Typed, HeardOK
      <4>3. QED
        BY <1>1, <1>5, <3>2, <4>1, <4>2 DEF Stamping
    <3>3. QED
      BY <1>2, <3>1, <3>2 DEF FramesStamped
  <2>3. QED
    BY <2>1, <2>2
<1>8. SilentOrBack'
  BY <1>1, <1>2 DEF SilentOrBack
<1>9. QED
  BY <1>6, <1>7, <1>8 DEF IInv

LEMMA CancelOK ==
  ASSUME IInv, NEW p, Cancel(p) PROVE IInv'
<1>1. rel' = Remove(rel, p) /\ UNCHANGED <<now, saved, touching, sweep, heard, restarts, invites>>
  BY DEF Cancel
<1>2. /\ BookOK(rel)' /\ DOMAIN rel' \subseteq DOMAIN rel
      /\ \A q \in DOMAIN rel' : rel'[q] = rel[q]
  BY <1>1, RemoveBook DEF IInv, Typed
<1>3. FramesStamped'
  BY <1>1, <1>2, FewerStamped DEF IInv
<1>4. Typed' /\ SilentOrBack'
  BY <1>1, <1>2 DEF IInv, Typed, BoundsOK, BookOK, HeardOK, SweepOK, SilentOrBack
<1>5. QED
  BY <1>3, <1>4 DEF IInv

LEMMA FrameOK ==
  ASSUME IInv, NEW k \in Worker, NEW p \in Peer, Frame(k, p) PROVE IInv'
<1>1. /\ touching[k] = Nobody /\ p \in DOMAIN rel
      /\ touching' = [touching EXCEPT ![k] = p]
      /\ heard' = [q \in DOMAIN heard \cup {p} |-> IF q = p THEN now ELSE heard[q]]
      /\ UNCHANGED <<now, rel, saved, sweep, restarts, invites>>
  BY DEF Frame, Stamped, Put
<1>2. Typed /\ FramesStamped /\ SilentOrBack /\ now \in Nat /\ Nobody \notin Peer
  BY RelationshipsAssumption DEF IInv, Typed, BoundsOK
<1>3. /\ DOMAIN heard' = DOMAIN heard \cup {p} /\ heard'[p] = now
      /\ \A q \in DOMAIN heard \ {p} : heard'[q] = heard[q]
  BY <1>1
<1>4. /\ touching' \in [Worker -> Peer \cup {Nobody}] /\ touching'[k] = p
      /\ \A j \in Worker : j # k => touching'[j] = touching[j]
  BY <1>1, <1>2 DEF Typed
<1>5. HeardOK'
  <2>1. \A q \in DOMAIN heard \cup {p} : (IF q = p THEN now ELSE heard[q]) \in Nat
    BY <1>2 DEF Typed, HeardOK
  <2>2. heard' \in [DOMAIN heard \cup {p} -> Nat]
    BY <1>1, <2>1
  <2>3. \A q \in DOMAIN heard' : heard'[q] <= now'
    BY <1>1, <1>2, <1>3 DEF Typed, HeardOK
  <2>4. QED
    BY <1>2, <1>3, <2>2, <2>3 DEF Typed, HeardOK
<1>6. Typed'
  BY <1>1, <1>2, <1>4, <1>5 DEF Typed, BoundsOK, BookOK, SweepOK
<1>7. FramesStamped'
  <2> SUFFICES ASSUME NEW q \in DOMAIN heard', q \in DOMAIN rel
               PROVE  heard'[q] <= rel[q].stamp \/ Stamping(q)'
    BY <1>1 DEF FramesStamped
  <2>1. CASE q = p
    BY <1>1, <1>3, <1>4, <2>1 DEF Stamping
  <2>2. CASE q # p
    <3>1. q \in DOMAIN heard /\ heard'[q] = heard[q] /\ q \in Peer
      BY <1>2, <1>3, <2>2 DEF Typed, HeardOK
    <3>2. CASE Stamping(q)
      <4>1. PICK j \in Worker : touching[j] = q
        BY <3>2 DEF Stamping
      <4>2. j # k
        BY <1>1, <1>2, <3>1, <4>1
      <4>3. QED
        BY <1>1, <1>4, <3>1, <3>2, <4>1, <4>2 DEF Stamping
    <3>3. QED
      BY <1>2, <3>1, <3>2 DEF FramesStamped
  <2>3. QED
    BY <2>1, <2>2
<1>8. SilentOrBack'
  BY <1>1, <1>2, <1>3 DEF SilentOrBack, Typed, SweepOK
<1>9. QED
  BY <1>6, <1>7, <1>8 DEF IInv
LEMMA TouchOK ==
  ASSUME IInv, NEW k \in Worker, Touch(k) PROVE IInv'
<1> DEFINE p == touching[k]
<1>1. /\ p # Nobody
      /\ rel' = IF p \in DOMAIN rel THEN [rel EXCEPT ![p].stamp = now] ELSE rel
      /\ touching' = [touching EXCEPT ![k] = Nobody]
      /\ UNCHANGED <<now, saved, sweep, heard, restarts, invites>>
  BY DEF Touch
<1>2. Typed /\ FramesStamped /\ SilentOrBack /\ now \in Nat
  BY RelationshipsAssumption DEF IInv, Typed, BoundsOK
<1>3. /\ touching' \in [Worker -> Peer \cup {Nobody}]
      /\ \A j \in Worker : j # k => touching'[j] = touching[j]
  BY <1>1, <1>2 DEF Typed
<1>4. /\ BookOK(rel)' /\ DOMAIN rel' = DOMAIN rel
      /\ p \in DOMAIN rel => rel'[p].stamp = now
      /\ \A q \in DOMAIN rel \ {p} : rel'[q] = rel[q]
  <2>1. CASE p \in DOMAIN rel
    <3> DEFINE v == [rel[p] EXCEPT !.stamp = now]
    <3>1. rel[p] \in Relationship
      BY <1>2, <2>1 DEF Typed, BookOK
    <3>2. v \in Relationship /\ v.stamp = now
      BY <1>2, <3>1 DEF Relationship
    <3>3. rel' = [rel EXCEPT ![p] = v]
      BY <1>1, <1>2, <2>1 DEF Typed, BookOK
    <3> HIDE DEF v
    <3>4. /\ DOMAIN rel' = DOMAIN rel /\ rel'[p] = v
          /\ \A q \in DOMAIN rel \ {p} : rel'[q] = rel[q]
      BY <1>2, <2>1, <3>3 DEF Typed, BookOK
    <3>5. rel' \in [DOMAIN rel -> Relationship]
      BY <1>2, <3>2, <3>3 DEF Typed, BookOK
    <3>6. \A q \in DOMAIN rel' : rel'[q].stamp <= now'
      <4>1. now <= now
        BY <1>2
      <4>2. QED
        BY <1>1, <1>2, <3>2, <3>4, <4>1 DEF Typed, BookOK
    <3>7. QED
      BY <1>2, <3>2, <3>4, <3>5, <3>6 DEF Typed, BookOK
  <2>2. CASE p \notin DOMAIN rel
    BY <1>1, <1>2, <2>2 DEF Typed, BookOK
  <2>3. QED
    BY <2>1, <2>2
<1>5. Typed'
  BY <1>1, <1>2, <1>3, <1>4 DEF Typed, BoundsOK, BookOK, HeardOK, SweepOK
<1>6. FramesStamped'
  <2> SUFFICES ASSUME NEW q \in DOMAIN heard, q \in DOMAIN rel'
               PROVE  heard[q] <= rel'[q].stamp \/ Stamping(q)'
    BY <1>1 DEF FramesStamped
  <2>1. CASE q = p
    BY <1>2, <1>4, <2>1 DEF Typed, HeardOK
  <2>2. CASE q # p
    <3>1. q \in DOMAIN rel /\ rel'[q] = rel[q]
      BY <1>4, <2>2
    <3>2. CASE Stamping(q)
      <4>1. PICK j \in Worker : touching[j] = q
        BY <3>2 DEF Stamping
      <4>2. j # k
        BY <2>2, <4>1
      <4>3. QED
        BY <1>1, <1>3, <3>2, <4>1, <4>2 DEF Stamping
    <3>3. QED
      BY <1>2, <3>1, <3>2 DEF FramesStamped
  <2>3. QED
    BY <2>1, <2>2
<1>7. SilentOrBack'
  BY <1>1, <1>2 DEF SilentOrBack
<1>8. QED
  BY <1>5, <1>6, <1>7 DEF IInv

(* What the sweep finds idle was not heard from within the idle time, unless  *)
(* the stamp of a frame let in at this very step of the clock is on its way.  *)
LEMMA SweepReadOK ==
  ASSUME IInv, SweepRead PROVE IInv'
<1> DEFINE found == {p \in DOMAIN rel : rel[p].stamp + Idle < now}
           read == [at |-> now, idle |-> found]
<1>1. /\ found # {} /\ sweep' = read
      /\ UNCHANGED <<now, rel, saved, touching, heard, restarts, invites>>
  BY DEF SweepRead, Scanned, IsIdle
<1>2. Typed /\ FramesStamped /\ now \in Nat /\ Idle \in Nat
  BY RelationshipsAssumption DEF IInv, Typed, BoundsOK
<1>3. \A p \in found : p \in DOMAIN rel /\ p \in Peer /\ rel[p].stamp \in Nat /\ rel[p].stamp + Idle < now
  BY <1>2 DEF Typed, BookOK, Relationship
<1> HIDE DEF found
<1>4. now > Idle
  BY <1>1, <1>2, <1>3
<1>5. sweep'.at = now /\ sweep'.idle = found /\ sweep' \in [at : Nat, idle : SUBSET Peer]
  BY <1>1, <1>2, <1>3
<1>6. SweepOK'
  <2>1. now <= now
    BY <1>2
  <2>2. QED
    BY <1>1, <1>4, <1>5, <2>1 DEF SweepOK
<1>7. Typed' /\ FramesStamped'
  BY <1>1, <1>2, <1>6 DEF Typed, BoundsOK, BookOK, HeardOK, FramesStamped, Stamping
<1>8. SilentOrBack'
  <2> SUFFICES ASSUME NEW p \in found, p \in DOMAIN heard
               PROVE  heard[p] + Idle < now \/ heard[p] >= now
    BY <1>1, <1>5 DEF SilentOrBack
  <2>1. heard[p] \in Nat
    BY <1>2 DEF Typed, HeardOK
  <2>2. heard[p] <= rel[p].stamp \/ heard[p] = now
    BY <1>2, <1>3 DEF FramesStamped, Stamping
  <2>3. QED
    BY <1>2, <1>3, <2>1, <2>2
<1>9. QED
  BY <1>7, <1>8 DEF IInv

LEMMA SweepDeleteOK ==
  ASSUME IInv, NEW p, SweepDelete(p) PROVE IInv'
<1>1. /\ rel' = Remove(rel, p)
      /\ sweep' = IF sweep.idle = {p} THEN NoSweep
                  ELSE [sweep EXCEPT !.idle = sweep.idle \ {p}]
      /\ UNCHANGED <<now, saved, touching, heard, restarts, invites>>
  BY DEF SweepDelete, Deleted
<1>2. Typed /\ now \in Nat
  BY RelationshipsAssumption DEF IInv, Typed, BoundsOK
<1>3. /\ BookOK(rel)' /\ DOMAIN rel' \subseteq DOMAIN rel
      /\ \A q \in DOMAIN rel' : rel'[q] = rel[q]
  BY <1>1, <1>2, RemoveBook DEF Typed
<1>4. FramesStamped'
  BY <1>1, <1>3, FewerStamped DEF IInv
<1>5. /\ sweep' \in [at : Nat, idle : SUBSET Peer]
      /\ sweep'.idle = {} \/ (sweep'.at = sweep.at /\ sweep.idle # {})
      /\ sweep'.idle \subseteq sweep.idle /\ sweep'.at <= now
  <2>1. CASE sweep.idle = {p}
    BY <1>1, <1>2, <2>1 DEF NoSweep
  <2>2. CASE sweep.idle # {p}
    <3>1. /\ sweep' \in [at : Nat, idle : SUBSET Peer]
          /\ sweep'.at = sweep.at /\ sweep'.idle = sweep.idle \ {p} /\ sweep.at <= now
      BY <1>1, <1>2, <2>2 DEF Typed, SweepOK
    <3>2. QED
      BY <3>1
  <2>3. QED
    BY <2>1, <2>2
<1>6. SweepOK'
  BY <1>1, <1>2, <1>5 DEF Typed, SweepOK
<1>7. Typed'
  BY <1>1, <1>2, <1>3, <1>6 DEF Typed, BoundsOK, BookOK, HeardOK
<1>8. SilentOrBack'
  BY <1>1, <1>5 DEF IInv, SilentOrBack
<1>9. QED
  BY <1>4, <1>7, <1>8 DEF IInv

LEMMA FlushOK ==
  ASSUME IInv, Flush PROVE IInv'
<1>1. saved' = rel /\ UNCHANGED <<now, rel, touching, sweep, heard, restarts, invites>>
  BY DEF Flush
<1>2. Typed'
  BY <1>1 DEF IInv, Typed, BoundsOK, BookOK, HeardOK, SweepOK
<1>3. FramesStamped' /\ SilentOrBack'
  BY <1>1 DEF IInv, FramesStamped, Stamping, SilentOrBack
<1>4. QED
  BY <1>2, <1>3 DEF IInv

LEMMA RestartOK ==
  ASSUME IInv, NEW readable \in BOOLEAN, Restart(readable) PROVE IInv'
<1> DEFINE known == DOMAIN heard \cap DOMAIN rel'
           recalled(p) == IF saved[p].stamp < heard[p] THEN saved[p].stamp ELSE heard[p]
<1>1. /\ restarts < MaxRestarts /\ restarts' = restarts + 1
      /\ rel' = IF readable THEN saved ELSE Empty
      /\ heard' = [p \in known |-> recalled(p)]
      /\ touching' = [k \in Worker |-> Nobody] /\ sweep' = NoSweep
      /\ UNCHANGED <<now, saved, invites>>
  BY DEF Restart
<1>2. Typed /\ now \in Nat
  BY RelationshipsAssumption DEF IInv, Typed, BoundsOK
<1>3. BookOK(rel)' /\ BookOK(saved)' /\ \A p \in DOMAIN rel' : p \in DOMAIN saved /\ rel'[p] = saved[p]
  <2>1. CASE readable
    BY <1>1, <1>2, <2>1 DEF Typed, BookOK
  <2>2. CASE ~readable
    <3>1. rel' = Empty /\ DOMAIN Empty = {}
      BY <1>1, <2>2 DEF Empty
    <3>2. Empty \in [{} -> Relationship]
      BY DEF Empty
    <3>3. QED
      BY <1>1, <1>2, <3>1, <3>2 DEF Typed, BookOK
  <2>3. QED
    BY <2>1, <2>2
<1>4. \A p \in known : recalled(p) \in Nat /\ recalled(p) <= saved[p].stamp /\ recalled(p) <= now
  <2> SUFFICES ASSUME NEW p \in known
               PROVE  recalled(p) \in Nat /\ recalled(p) <= saved[p].stamp /\ recalled(p) <= now
    OBVIOUS
  <2>1. p \in DOMAIN saved /\ saved[p].stamp \in Nat
    BY <1>2, <1>3 DEF Typed, BookOK, Relationship
  <2>2. heard[p] \in Nat /\ heard[p] <= now
    BY <1>2 DEF Typed, HeardOK
  <2>3. QED
    BY <1>2, <2>1, <2>2
<1>5. DOMAIN heard' = known /\ \A p \in known : heard'[p] = recalled(p)
  BY <1>1
<1>6. known \subseteq Peer /\ known \subseteq DOMAIN rel'
  BY <1>2 DEF Typed, HeardOK
<1>7. heard' \in [known -> Nat]
  BY <1>1, <1>4
<1> HIDE DEF known, recalled
<1>8. HeardOK'
  BY <1>1, <1>4, <1>5, <1>6, <1>7 DEF HeardOK
<1>9. SweepOK' /\ SilentOrBack'
  BY <1>1, <1>2 DEF SweepOK, NoSweep, SilentOrBack
<1>10. BoundsOK' /\ touching' \in [Worker -> Peer \cup {Nobody}]
  BY <1>1, <1>2, RelationshipsAssumption DEF Typed, BoundsOK
<1>11. FramesStamped'
  BY <1>3, <1>4, <1>5, <1>6 DEF FramesStamped
<1>12. QED
  BY <1>3, <1>8, <1>9, <1>10, <1>11 DEF IInv, Typed

(* The clock does not move while a stamp is on its way.                       *)
LEMMA TickOK ==
  ASSUME IInv, Tick PROVE IInv'
<1>1. /\ now < MaxTime /\ now' = now + 1 /\ \A k \in Worker : touching[k] = Nobody
      /\ UNCHANGED <<rel, saved, touching, sweep, heard, restarts, invites>>
  BY DEF Tick
<1>2. Typed /\ FramesStamped /\ SilentOrBack /\ now \in Nat /\ Nobody \notin Peer /\ MaxTime \in Nat
  BY RelationshipsAssumption DEF IInv, Typed, BoundsOK
<1>3. ASSUME NEW f \in {rel, saved}, NEW p \in DOMAIN f PROVE f[p].stamp <= now'
  <2>1. f[p].stamp \in Nat /\ f[p].stamp <= now
    BY <1>2 DEF Typed, BookOK, Relationship
  <2>2. QED
    BY <1>1, <1>2, <2>1
<1>4. BookOK(rel)' /\ BookOK(saved)'
  BY <1>1, <1>2, <1>3 DEF Typed, BookOK
<1>5. HeardOK' /\ SweepOK'
  <2>1. \A p \in DOMAIN heard : heard[p] <= now'
    BY <1>1, <1>2 DEF Typed, HeardOK
  <2>2. sweep.at \in Nat /\ sweep.at <= now'
    BY <1>1, <1>2 DEF Typed, SweepOK
  <2>3. QED
    BY <1>1, <1>2, <2>1, <2>2 DEF Typed, HeardOK, SweepOK
<1>6. BoundsOK' /\ touching' \in [Worker -> Peer \cup {Nobody}]
  BY <1>1, <1>2 DEF Typed, BoundsOK
<1>7. FramesStamped'
  <2>1. \A p \in DOMAIN heard \cap DOMAIN rel : heard[p] <= rel[p].stamp
    BY <1>1, <1>2 DEF FramesStamped, Stamping, Typed, HeardOK
  <2>2. QED
    BY <1>1, <2>1 DEF FramesStamped
<1>8. SilentOrBack'
  BY <1>1, <1>2 DEF SilentOrBack
<1>9. QED
  BY <1>4, <1>5, <1>6, <1>7, <1>8 DEF IInv, Typed
-----------------------------------------------------------------------------
LEMMA InitOK == Init => IInv
<1> SUFFICES ASSUME Init PROVE IInv
  OBVIOUS
<1>1. DOMAIN Empty = {} /\ Empty \in [{} -> Relationship] /\ Empty \in [{} -> Nat]
  BY DEF Empty
<1>2. BookOK(rel) /\ BookOK(saved) /\ HeardOK
  BY <1>1 DEF Init, BookOK, HeardOK
<1>3. SweepOK /\ BoundsOK /\ touching \in [Worker -> Peer \cup {Nobody}]
  BY RelationshipsAssumption DEF Init, SweepOK, NoSweep, BoundsOK
<1>4. FramesStamped /\ SilentOrBack
  BY <1>1 DEF Init, FramesStamped, SilentOrBack
<1>5. QED
  BY <1>2, <1>3, <1>4 DEF IInv, Typed

LEMMA Inductive == IInv /\ [Next]_vars => IInv'
<1> SUFFICES ASSUME IInv, [Next]_vars PROVE IInv'
  OBVIOUS
<1>1. ASSUME NEW k \in Worker, NEW p \in Peer,
             Frame(k, p) \/ \E accepted \in BOOLEAN : Invite(k, p, accepted)
      PROVE  IInv'
  BY <1>1, FrameOK, InviteOK
<1>2. ASSUME NEW k \in Worker, Touch(k) PROVE IInv'
  BY <1>2, TouchOK
<1>3. ASSUME NEW p \in Peer, Cancel(p) \/ SweepDelete(p) PROVE IInv'
  BY <1>3, CancelOK, SweepDeleteOK
<1>4. ASSUME NEW readable \in BOOLEAN, Restart(readable) PROVE IInv'
  BY <1>4, RestartOK
<1>5. CASE SweepRead \/ Flush \/ Tick
  BY <1>5, SweepReadOK, FlushOK, TickOK
<1>6. CASE UNCHANGED vars
  <2>1. Typed'
    BY <1>6 DEF vars, IInv, Typed, BoundsOK, BookOK, HeardOK, SweepOK
  <2>2. FramesStamped' /\ SilentOrBack'
    BY <1>6 DEF vars, IInv, FramesStamped, Stamping, SilentOrBack
  <2>3. QED
    BY <2>1, <2>2 DEF IInv
<1>7. QED
  BY <1>1, <1>2, <1>3, <1>4, <1>5, <1>6 DEF Next

LEMMA Invariant == Spec => []IInv
  BY InitOK, Inductive, PTL DEF Spec

(* Relationships, their snapshot, stamps and sweeps have their types, and a   *)
(* relationship found idle was last stamped at a time there has been.         *)
THEOREM RelationshipsTypes == Spec => []TypeOK
<1>1. IInv => TypeOK
  <2> SUFFICES ASSUME IInv PROVE TypeOK
    OBVIOUS
  <2>1. now \in Nat
    BY RelationshipsAssumption DEF IInv, Typed, BoundsOK
  <2>2. ASSUME NEW f \in {rel, saved}
        PROVE  /\ DOMAIN f \subseteq Peer
               /\ \A p \in DOMAIN f : f[p].mutual \in BOOLEAN /\ f[p].stamp \in 0..now
    <3>1. BookOK(f)
      BY DEF IInv, Typed
    <3>2. \A p \in DOMAIN f : f[p].mutual \in BOOLEAN /\ f[p].stamp \in Nat /\ f[p].stamp <= now
      BY <3>1 DEF BookOK, Relationship
    <3>3. QED
      BY <2>1, <3>1, <3>2 DEF BookOK
  <2>3. sweep.idle \subseteq Peer /\ sweep.at \in 0..now /\ (sweep.idle # {} => sweep.at > Idle)
    BY <2>1 DEF IInv, Typed, SweepOK
  <2>4. DOMAIN heard \subseteq Peer /\ \A p \in DOMAIN heard : heard[p] \in 0..now
    BY <2>1 DEF IInv, Typed, HeardOK
  <2>5. QED
    BY <2>2, <2>3, <2>4 DEF TypeOK, IInv, Typed, BoundsOK
<1>2. QED
  BY <1>1, Invariant, PTL

(* The sweep takes no relationship that was in use within the idle time       *)
(* before it read, over restarts and through an unreadable snapshot too.      *)
THEOREM OnlySilentAreSwept == Spec => []SweepsOnlySilent
<1>1. IInv => SweepsOnlySilent
  <2> SUFFICES ASSUME IInv, NEW p \in sweep.idle, p \in DOMAIN heard
               PROVE  heard[p] \notin (sweep.at - Idle)..(sweep.at - 1)
    BY DEF SweepsOnlySilent
  <2>1. heard[p] \in Nat /\ sweep.at \in Nat /\ Idle \in Nat
    BY RelationshipsAssumption DEF IInv, Typed, HeardOK, SweepOK
  <2>2. heard[p] + Idle < sweep.at \/ heard[p] >= sweep.at
    BY DEF IInv, SilentOrBack
  <2>3. QED
    BY <2>1, <2>2
<1>2. QED
  BY <1>1, Invariant, PTL
=============================================================================
