---------------------------- MODULE ReplayProofs ----------------------------
(* Acceptance and retention never leave a gap, for every window and margin;   *)
(* and, for any callers, documents, workers and budgets: the record keeps its *)
(* types and leaks no claim; it executes no document twice, and no second     *)
(* document under an identifier, and its two books agree, when a call is      *)
(* preempted inside claim for less than the margin and no guard evicts a live *)
(* entry; and its budgets are overrun only so far, which with two workers     *)
(* means that nothing is evicted.                                             *)
EXTENDS Replay, FiniteSetTheorems, TLAPS

(* A document accepted at t is still in the record at every u before          *)
(* t + Margin: a claim made for it cannot have been purged by a call whose    *)
(* clock is less than the margin ahead (intake.rs, RETENTION_MARGIN).         *)
THEOREM FreshIsRetained ==
  ASSUME NEW d, d.issued \in Int, d.expires \subseteq Int,
         NEW t \in Int, NEW u \in Int,
         Fresh(d, t), u < t + Margin
  PROVE  Retained(d, u)
<1>1. u < LastFresh(d) + Margin
  BY WindowAssumption DEF Fresh, LastFresh
<1>2. ASSUME NEW e \in d.expires
      PROVE  u < e + Margin
  BY <1>2, WindowAssumption DEF Fresh
<1>3. QED
  BY <1>1, <1>2 DEF Retained

(* A document its record has forgotten is not accepted any more: what a purge *)
(* at t drops is refused by every window check from t on.                     *)
THEOREM ForgottenIsStale ==
  ASSUME NEW d, d.issued \in Int, d.expires \subseteq Int,
         NEW t \in Int, NEW u \in Int,
         ~Retained(d, t), t <= u
  PROVE  ~Fresh(d, u)
<1>1. CASE ~(t < LastFresh(d) + Margin)
  BY <1>1, WindowAssumption DEF Fresh, LastFresh
<1>2. CASE \E e \in d.expires : ~(t < e + Margin)
  <2>1. PICK e \in d.expires : ~(t < e + Margin)
    BY <1>2
  <2>2. ~(u < e)
    BY <2>1, WindowAssumption
  <2>3. QED
    BY <2>2 DEF Fresh
<1>3. QED
  BY <1>1, <1>2 DEF Retained
-----------------------------------------------------------------------------

(* A call under way handles a document, and holds a guard exactly while it    *)
(* is about to claim in it or to close a claim in it.                         *)
Holding == {"claim", "close"}
Busied ==
  \A c \in Call :
    /\ call[c].pc # "idle" => call[c].doc \in Doc
    /\ IF call[c].pc \in Holding THEN call[c].ref \in Ref ELSE call[c].ref = NoRef

(* A guard that a call holds and the map has is the one of the call's issuer. *)
Attached ==
  \A c \in Call :
    call[c].ref \in Mapped => /\ call[c].doc.issuer \in DOMAIN issuers
                              /\ issuers[call[c].doc.issuer] = call[c].ref

(* A finite function has no more values than arguments. *)
LEMMA FewValues ==
  ASSUME NEW S, NEW f \in [S -> Ref \cup {NoRef}], IsFiniteSet(S)
  PROVE  IsFiniteSet(Range(f)) /\ Cardinality(Range(f)) <= Cardinality(S)
<1>1. f \in Surjection(S, Range(f))
  BY DEF Surjection, Range
<1>2. QED
  BY <1>1, FS_Surjection

(* There is always a guard that neither the map nor a call holds. *)
LEMMA SomeGuardIsFree ==
  ASSUME TypeOK PROVE \E r \in Ref : r \in FreeRef
<1> DEFINE Refs == [c \in Call |-> call[c].ref]
<1>1. PICK S \in SUBSET Issuer : issuers \in [S -> Ref]
  BY DEF TypeOK
<1>2. IsFiniteSet(Issuer)
  <2> DEFINE ByDoc == [d \in Doc |-> d.issuer]
  <2>1. ByDoc \in Surjection(Doc, Issuer)
    BY DEF Surjection, Issuer
  <2>2. QED
    BY <2>1, FS_Surjection, ReplayAssumption
<1>3. IsFiniteSet(S) /\ Cardinality(S) <= Cardinality(Issuer)
  BY <1>2, FS_Subset
<1>4. /\ IsFiniteSet(Mapped) /\ Cardinality(Mapped) <= Cardinality(S)
      /\ Mapped \subseteq Ref
  <2>1. issuers \in [S -> Ref \cup {NoRef}]
    BY <1>1
  <2>2. QED
    BY <1>1, <1>3, <2>1, FewValues DEF Mapped, Range
<1>5. IsFiniteSet(Range(Refs)) /\ Cardinality(Range(Refs)) <= Cardinality(Call)
  <2>1. Refs \in [Call -> Ref \cup {NoRef}]
    BY DEF TypeOK, CallState
  <2>2. IsFiniteSet(Call)
    BY ReplayAssumption
  <2> HIDE DEF Refs
  <2>3. QED
    BY <2>1, <2>2, FewValues
<1>6. Range(Refs) = {call[c].ref : c \in Call}
  BY DEF Range
<1> HIDE DEF Refs
<1> DEFINE Taken == Mapped \cup Range(Refs)
<1>7. /\ IsFiniteSet(Taken) /\ Cardinality(Taken) <= Cardinality(Mapped) + Cardinality(Range(Refs))
      /\ Cardinality(Taken) \in Nat
  <2>1. IsFiniteSet(Mapped \cap Range(Refs)) /\ IsFiniteSet(Taken)
    BY <1>4, <1>5, FS_Subset, FS_Union
  <2>2. Cardinality(Taken) = Cardinality(Mapped) + Cardinality(Range(Refs))
                             - Cardinality(Mapped \cap Range(Refs))
    BY <1>4, <1>5, FS_Union
  <2> HIDE DEF Taken
  <2>3. /\ Cardinality(Taken) \in Nat /\ Cardinality(Mapped) \in Nat
        /\ Cardinality(Range(Refs)) \in Nat /\ Cardinality(Mapped \cap Range(Refs)) \in Nat
    BY <1>4, <1>5, <2>1, FS_CardinalityType
  <2>4. QED
    BY <2>1, <2>2, <2>3
<1>8. Cardinality(Taken) < Cardinality(Ref)
  <2> HIDE DEF Taken
  <2>1. /\ Cardinality(Issuer) \in Nat /\ Cardinality(Call) \in Nat /\ Cardinality(Ref) \in Nat
        /\ Cardinality(S) \in Nat /\ Cardinality(Mapped) \in Nat /\ Cardinality(Range(Refs)) \in Nat
    BY <1>2, <1>3, <1>4, <1>5, ReplayAssumption, FS_CardinalityType
  <2>2. QED
    BY <2>1, <1>3, <1>4, <1>5, <1>7, ReplayAssumption
<1>9. ~(Ref \subseteq Taken)
  <2> HIDE DEF Taken
  <2>1. ASSUME Ref \subseteq Taken PROVE Cardinality(Ref) <= Cardinality(Taken)
    BY <2>1, <1>7, FS_Subset
  <2>2. Cardinality(Ref) \in Nat
    BY ReplayAssumption, FS_CardinalityType
  <2>3. QED
    BY <2>1, <2>2, <1>7, <1>8
<1>10. QED
  BY <1>6, <1>9 DEF FreeRef
-----------------------------------------------------------------------------
(* What a guard holds. *)
LEMMA EntriesAre ==
  ASSUME NEW g \in Entries
  PROVE  /\ g = [d \in DOMAIN g |-> g[d]]
         /\ DOMAIN g \subseteq Doc
         /\ \A d \in DOMAIN g : g[d] \in Response \cup {InFlight}
BY DEF Entries

LEMMA EntriesOver ==
  ASSUME NEW S \in SUBSET Doc, NEW g \in [S -> Response \cup {InFlight}]
  PROVE  g \in Entries
BY DEF Entries

LEMMA RestrictEntries ==
  ASSUME NEW g \in Entries, NEW S \in SUBSET DOMAIN g
  PROVE  /\ Restrict(g, S) \in Entries
         /\ DOMAIN Restrict(g, S) = S
         /\ \A d \in S : Restrict(g, S)[d] = g[d]
<1>1. S \in SUBSET Doc
  BY EntriesAre
<1>2. Restrict(g, S) \in [S -> Response \cup {InFlight}]
  BY EntriesAre DEF Restrict
<1>3. QED
  BY <1>1, <1>2, EntriesOver DEF Restrict

LEMMA EmptyEntries ==
  Empty \in Entries /\ DOMAIN Empty = {}
<1>1. Empty \in [{} -> Response \cup {InFlight}] /\ {} \in SUBSET Doc
  BY DEF Empty
<1>2. QED
  BY <1>1, EntriesOver DEF Empty

LEMMA RecordEntries ==
  ASSUME NEW g \in Entries, NEW d \in Doc, NEW resp \in Response \cup {InFlight}
  PROVE  Record(g, d, resp) \in Entries /\ DOMAIN Record(g, d, resp) = DOMAIN g \cup {d}
<1>1. DOMAIN g \cup {d} \in SUBSET Doc
  BY EntriesAre
<1>2. Record(g, d, resp) \in [DOMAIN g \cup {d} -> Response \cup {InFlight}]
  BY EntriesAre DEF Record
<1>3. QED
  BY <1>1, <1>2, EntriesOver DEF Record

LEMMA ClosedEntries ==
  ASSUME NEW g \in Entries, NEW d, NEW resp \in Response \cup {InFlight}
  PROVE  Closed(g, d, resp) \in Entries /\ DOMAIN Closed(g, d, resp) \subseteq DOMAIN g
<1>1. CASE resp = InFlight
  BY <1>1, RestrictEntries, DOMAIN g \ {d} \in SUBSET DOMAIN g DEF Closed
<1>2. CASE resp # InFlight
  <2>1. Answered(g, d, resp) \in [DOMAIN g -> Response \cup {InFlight}]
    BY EntriesAre DEF Answered
  <2>2. DOMAIN g \in SUBSET Doc
    BY EntriesAre
  <2>3. QED
    BY <1>2, <2>1, <2>2, EntriesOver DEF Closed, Answered
<1>3. QED
  BY <1>1, <1>2
-----------------------------------------------------------------------------
(* The inductive invariant behind TypeOK. *)
IInv == TypeOK /\ Busied /\ Attached

(* Updating one call. *)
LEMMA CallStates ==
  ASSUME TypeOK, Busied, NEW c \in Call
  PROVE  /\ call = [b \in Call |-> call[b]]
         /\ call[c] \in CallState
         /\ call[c].pc # "idle" => call[c].doc \in Doc /\ call[c].doc.issuer \in Issuer
         /\ call[c].pc \in Holding => call[c].ref \in Ref
         /\ call[c].pc \notin Holding => call[c].ref = NoRef
BY DEF TypeOK, Busied, Issuer, CallState

LEMMA IdleIsState ==
  IdleCall \in CallState
BY ReplayAssumption DEF IdleCall, CallState

(* A step that leaves the map and its guards alone keeps the invariant when   *)
(* it puts one call in a state the invariant allows.                          *)
LEMMA OneCall ==
  ASSUME IInv, NEW c \in Call, NEW s \in CallState,
         call' = [call EXCEPT ![c] = s],
         s.pc # "idle" => s.doc \in Doc,
         IF s.pc \in Holding THEN s.ref \in Ref ELSE s.ref = NoRef
  PROVE  call' \in [Call -> CallState] /\ Busied'
<1>1. call \in [Call -> CallState]
  BY DEF IInv, TypeOK
<1>2. \A b \in Call : call'[b] = IF b = c THEN s ELSE call[b]
  BY <1>1
<1>3. call' \in [Call -> CallState]
  BY <1>1
<1>4. Busied'
  BY <1>2 DEF IInv, Busied
<1>5. QED
  BY <1>3, <1>4

LEMMA AttachedStays ==
  ASSUME IInv, NEW c \in Call, NEW s \in CallState,
         call' = [call EXCEPT ![c] = s], UNCHANGED issuers,
         s.ref \in Mapped => /\ s.doc.issuer \in DOMAIN issuers
                             /\ issuers[s.doc.issuer] = s.ref
  PROVE  Attached'
<1>1. \A b \in Call : call'[b] = IF b = c THEN s ELSE call[b]
  BY DEF IInv, TypeOK
<1>2. Mapped' = Mapped
  BY DEF Mapped
<1>3. QED
  BY <1>1, <1>2 DEF IInv, Attached

(* A guard that is not in the map: its holder puts no constraint on it. *)
LEMMA NoRefUnmapped ==
  ASSUME TypeOK PROVE NoRef \notin Mapped /\ Mapped \subseteq Ref
BY ReplayAssumption DEF TypeOK, Mapped, Range

(* The partition of the guards looks only at what the mapped guards hold. *)
LEMMA PartitionedStays ==
  ASSUME Partitioned, UNCHANGED issuers,
         \A i \in DOMAIN issuers : \A d \in DOMAIN guard'[issuers[i]] :
           d \in DOMAIN guard[issuers[i]] \/ d.issuer = i
  PROVE  Partitioned'
BY DEF Partitioned
-----------------------------------------------------------------------------
(* One lemma for every step that changes one call and no guard. *)
LEMMA CallStep ==
  ASSUME IInv, NEW c \in Call, NEW s \in CallState,
         call' = [call EXCEPT ![c] = s],
         s.pc # "idle" => s.doc \in Doc,
         IF s.pc \in Holding THEN s.ref \in Ref ELSE s.ref = NoRef,
         s.ref \in Mapped => /\ s.doc.issuer \in DOMAIN issuers
                             /\ issuers[s.doc.issuer] = s.ref,
         UNCHANGED <<now, issuers, guard, restarts>>,
         charges' \in [Doc -> Nat], spent' \subseteq Doc, lost' \subseteq Doc
  PROVE  IInv'
<1>1. call' \in [Call -> CallState] /\ Busied'
  BY OneCall
<1>2. Attached'
  BY AttachedStays
<1>3. Partitioned'
  BY PartitionedStays DEF IInv, TypeOK
<1>4. TypeOK'
  BY <1>1, <1>3 DEF IInv, TypeOK
<1>5. QED
  BY <1>1, <1>2, <1>4 DEF IInv

LEMMA ReceiveKeeps ==
  ASSUME IInv, NEW c \in Call, NEW d \in Doc, Receive(c, d) PROVE IInv'
<1> DEFINE s == [IdleCall EXCEPT !.pc = "admitting", !.doc = d, !.at = now]
<1>1. s \in CallState
  BY IdleIsState DEF IInv, TypeOK, CallState, IdleCall, Claiming
<1>2. s.pc = "admitting" /\ s.doc = d /\ s.ref = NoRef
  BY DEF IdleCall
<1>3. call' = [call EXCEPT ![c] = s]
  BY DEF Receive
<1>4. /\ UNCHANGED <<now, issuers, guard, restarts>> /\ charges' \in [Doc -> Nat]
      /\ spent' \subseteq Doc /\ lost' \subseteq Doc
  BY DEF Receive, IInv, TypeOK
<1> HIDE DEF s
<1>5. QED
  BY <1>1, <1>2, <1>3, <1>4, CallStep, NoRefUnmapped DEF IInv, Holding

(* Every way for a call to return without touching a guard. *)
LEMMA ReturnKeeps ==
  ASSUME IInv, NEW c \in Call, Return(c), UNCHANGED <<now, issuers, guard, restarts>>,
         charges' \in [Doc -> Nat], spent' \subseteq Doc, lost' \subseteq Doc
  PROVE  IInv'
<1>1. IdleCall.pc = "idle" /\ IdleCall.ref = NoRef
  BY DEF IdleCall
<1>2. QED
  BY <1>1, IdleIsState, CallStep, NoRefUnmapped DEF Return, IInv, Holding

(* The steps of a call that hold no guard before or after.                    *)
LEMMA GuardlessKeeps ==
  ASSUME IInv, NEW c \in Call, NEW s \in CallState, call' = [call EXCEPT ![c] = s],
         call[c].pc \notin Holding \cup {"idle"}, s.pc \notin Holding \cup {"idle"},
         s.doc = call[c].doc, s.ref = call[c].ref,
         UNCHANGED <<now, issuers, guard, restarts>>,
         charges' \in [Doc -> Nat], spent' \subseteq Doc, lost' \subseteq Doc
  PROVE  IInv'
<1>1. call[c].doc \in Doc /\ call[c].ref = NoRef
  BY CallStates DEF IInv
<1>2. QED
  BY <1>1, CallStep, NoRefUnmapped DEF IInv

LEMMA ChargeKeeps ==
  ASSUME IInv, NEW c \in Call, Charge(c) PROVE IInv'
<1> DEFINE s == [call[c] EXCEPT !.pc = "admitted", !.at = 0]
<1>1. s \in CallState /\ call[c].doc \in Doc
  <2>1. call[c] \in CallState /\ call[c].doc \in Doc
    BY CallStates DEF IInv, Charge
  <2>2. 0 \in 0..MaxTime
    BY ReplayAssumption
  <2>3. QED
    BY <2>1, <2>2 DEF CallState
<1>2. s.pc = "admitted" /\ s.doc = call[c].doc /\ s.ref = call[c].ref
  BY CallStates DEF IInv, CallState
<1>3. call' = [call EXCEPT ![c] = s]
  BY DEF Charge
<1>4. charges' \in [Doc -> Nat]
  BY <1>1 DEF Charge, IInv, TypeOK
<1>5. /\ UNCHANGED <<now, issuers, guard, restarts>>
      /\ spent' \subseteq Doc /\ lost' \subseteq Doc /\ call[c].pc = "charge"
  BY DEF Charge, IInv, TypeOK
<1> HIDE DEF s
<1>6. QED
  BY <1>1, <1>2, <1>3, <1>4, <1>5, GuardlessKeeps DEF Holding

LEMMA CloseKeeps ==
  ASSUME IInv, NEW c \in Call, NEW resp \in Response \cup {InFlight},
         NEW pc \in {"lookup", "uncharge"},
         call[c].pc = "admitted", Close(c, resp, pc),
         UNCHANGED <<now, issuers, guard, charges, restarts>>,
         spent' \subseteq Doc, lost' \subseteq Doc
  PROVE  IInv'
<1> DEFINE s == [call[c] EXCEPT !.pc = pc, !.resp = resp]
<1>1. s \in CallState
  BY CallStates DEF CallState, IInv, Closing
<1>2. s.pc = pc /\ s.doc = call[c].doc /\ s.ref = call[c].ref
  BY CallStates DEF IInv, CallState
<1>3. call' = [call EXCEPT ![c] = s]
  BY DEF Close
<1>4. charges' \in [Doc -> Nat]
  BY DEF IInv, TypeOK
<1> HIDE DEF s
<1>5. QED
  BY <1>1, <1>2, <1>3, <1>4, GuardlessKeeps DEF Holding

LEMMA UnchargeKeeps ==
  ASSUME IInv, NEW c \in Call, Uncharge(c) PROVE IInv'
<1> DEFINE s == [call[c] EXCEPT !.pc = "lookup"]
<1>1. s \in CallState
  BY CallStates DEF CallState, IInv, Closing
<1>2. s.pc = "lookup" /\ s.doc = call[c].doc /\ s.ref = call[c].ref
  BY CallStates DEF IInv, CallState
<1>3. call' = [call EXCEPT ![c] = s]
  BY DEF Uncharge, Goto
<1>4. charges' \in [Doc -> Nat]
  BY DEF Uncharge, IInv, TypeOK
<1>5. /\ UNCHANGED <<now, issuers, guard, restarts>>
      /\ spent' \subseteq Doc /\ lost' \subseteq Doc /\ call[c].pc = "uncharge"
  BY DEF Uncharge, IInv, TypeOK
<1> HIDE DEF s
<1>6. QED
  BY <1>1, <1>2, <1>3, <1>4, <1>5, GuardlessKeeps DEF Holding

LEMMA LookupKeeps ==
  ASSUME IInv, NEW c \in Call, Lookup(c) PROVE IInv'
<1> DEFINE i == call[c].doc.issuer
           s == [call[c] EXCEPT !.pc = "close", !.ref = issuers[i]]
<1>1. /\ call[c] \in CallState /\ call[c].doc \in Doc /\ charges' \in [Doc -> Nat]
      /\ UNCHANGED <<now, issuers, guard, restarts>> /\ spent' \subseteq Doc /\ lost' \subseteq Doc
  BY CallStates DEF Lookup, IInv, TypeOK
<1>2. CASE i \in DOMAIN issuers
  <2>1. issuers[i] \in Ref
    BY <1>2 DEF IInv, TypeOK
  <2>2. s \in CallState /\ s.pc = "close" /\ s.doc = call[c].doc /\ s.ref = issuers[i]
    BY <1>1, <2>1 DEF CallState, Closing
  <2>3. call' = [call EXCEPT ![c] = s]
    BY <1>2 DEF Lookup
  <2> HIDE DEF s
  <2>4. QED
    BY <1>1, <1>2, <2>1, <2>2, <2>3, CallStep DEF Holding
<1>3. CASE i \notin DOMAIN issuers
  BY <1>1, <1>3, ReturnKeeps DEF Lookup
<1>4. QED
  BY <1>2, <1>3

(* The effect ran, failed or was cut off; and a call that is refused. *)
LEMMA EffectKeeps ==
  ASSUME IInv, NEW c \in Call,
         (\E resp \in Response : Succeed(c, resp)) \/ Fail(c) \/ Abandon(c) \/ Refuse(c)
  PROVE  IInv'
<1>1. spent \subseteq Doc /\ lost \subseteq Doc /\ charges \in [Doc -> Nat]
  BY DEF IInv, TypeOK
<1>2. call[c].pc # "idle" => call[c].doc \in Doc
  BY CallStates DEF IInv
<1>3. ASSUME NEW resp \in Response, Succeed(c, resp) PROVE IInv'
  <2>1. /\ call[c].pc = "admitted" /\ Close(c, resp, "lookup")
        /\ UNCHANGED <<now, issuers, guard, charges, restarts>>
        /\ spent' \subseteq Doc /\ lost' \subseteq Doc
    BY <1>1, <1>2, <1>3 DEF Succeed
  <2>2. QED
    BY <2>1, CloseKeeps
<1>4. CASE Fail(c)
  <2>1. /\ call[c].pc = "admitted" /\ Close(c, InFlight, "uncharge")
        /\ UNCHANGED <<now, issuers, guard, charges, restarts>>
        /\ spent' \subseteq Doc /\ lost' \subseteq Doc
    BY <1>1, <1>4 DEF Fail
  <2>2. QED
    BY <2>1, CloseKeeps
<1>5. CASE Abandon(c)
  BY <1>1, <1>2, <1>5, ReturnKeeps DEF Abandon
<1>6. CASE Refuse(c)
  BY <1>1, <1>6, ReturnKeeps DEF Refuse
<1>7. QED
  BY <1>3, <1>4, <1>5, <1>6
-----------------------------------------------------------------------------
(* A guard that a call holds stays of one issuer when the call's document is  *)
(* put in it: if the map has this guard it is the guard of that issuer.       *)
LEMMA UpdateKeeps ==
  ASSUME IInv, NEW c \in Call, call[c].pc \in Holding, NEW e \in Entries,
         DOMAIN e \subseteq DOMAIN guard[call[c].ref] \cup {call[c].doc},
         guard' = Update(call[c].ref, c, e), UNCHANGED issuers
  PROVE  guard' \in [Ref -> Entries] /\ Partitioned'
<1> DEFINE r == call[c].ref
           g == IF Outlives(r, c) THEN e ELSE Empty
<1>1. r \in Ref /\ guard \in [Ref -> Entries] /\ g \in Entries
  BY CallStates, EmptyEntries DEF IInv, TypeOK
<1>2. DOMAIN g \subseteq DOMAIN guard[r] \cup {call[c].doc}
  BY EmptyEntries
<1>3. guard' = [guard EXCEPT ![r] = g]
  BY DEF Update
<1> HIDE DEF g
<1>4. guard' \in [Ref -> Entries]
  BY <1>1, <1>3
<1>5. ASSUME NEW i \in DOMAIN issuers, NEW d \in DOMAIN guard'[issuers[i]]
      PROVE  d \in DOMAIN guard[issuers[i]] \/ d.issuer = i
  <2>1. CASE issuers[i] # r
    BY <1>1, <1>3, <1>5, <2>1
  <2>2. CASE issuers[i] = r
    <3>1. r \in Mapped
      BY <2>2 DEF Mapped, Range
    <3>2. call[c].doc.issuer \in DOMAIN issuers /\ issuers[call[c].doc.issuer] = r
      BY <3>1 DEF IInv, Attached
    <3>3. call[c].doc.issuer = i
      BY <2>2, <3>2 DEF IInv, TypeOK, Partitioned
    <3>4. d \in DOMAIN g
      BY <1>1, <1>3, <2>2
    <3>5. QED
      BY <1>2, <2>2, <3>3, <3>4
  <2>3. QED
    BY <2>1, <2>2
<1>6. Partitioned'
  BY <1>5, PartitionedStays DEF IInv, TypeOK
<1>7. QED
  BY <1>4, <1>6

(* A step in which a call lets go of its guard. *)
LEMMA GuardStep ==
  ASSUME IInv, NEW c \in Call, call[c].pc \in Holding, NEW e \in Entries,
         DOMAIN e \subseteq DOMAIN guard[call[c].ref] \cup {call[c].doc},
         guard' = Update(call[c].ref, c, e),
         NEW s \in CallState, call' = [call EXCEPT ![c] = s],
         s.pc \notin Holding, s.ref = NoRef, s.pc # "idle" => s.doc \in Doc,
         UNCHANGED <<now, issuers, charges, spent, restarts>>, lost' \subseteq Doc
  PROVE  IInv'
<1>1. call' \in [Call -> CallState] /\ Busied'
  BY OneCall
<1>2. Attached'
  BY AttachedStays, NoRefUnmapped DEF IInv
<1>3. guard' \in [Ref -> Entries] /\ Partitioned'
  BY UpdateKeeps
<1>4. TypeOK'
  BY <1>1, <1>3 DEF IInv, TypeOK
<1>5. QED
  BY <1>1, <1>2, <1>4 DEF IInv

LEMMA GuardClaimKeeps ==
  ASSUME IInv, NEW c \in Call, GuardClaim(c) PROVE IInv'
<1> DEFINE r == call[c].ref
           d == call[c].doc
<1>1. /\ call[c].pc = "claim" /\ call[c].pc \in Holding /\ call[c] \in CallState
      /\ d \in Doc /\ r \in Ref /\ guard[r] \in Entries /\ lost \subseteq Doc
  BY CallStates DEF GuardClaim, Holding, IInv, TypeOK
<1>2. Live(c) \in Entries /\ DOMAIN Live(c) \subseteq DOMAIN guard[r]
  BY <1>1, RestrictEntries, {e \in DOMAIN guard[r] : Retained(e, call[c].at)} \in SUBSET DOMAIN guard[r]
     DEF Live
<1>3. UNCHANGED <<now, issuers, charges, spent, restarts>>
  BY DEF GuardClaim
<1>4. ASSUME NEW out \in Evicted(c),
             guard' = Update(r, c, Record(Restrict(Live(c), DOMAIN Live(c) \ out), d, InFlight)),
             call' = [call EXCEPT ![c].pc = "charge", ![c].ref = NoRef],
             lost' = IF r \in Mapped THEN lost ELSE lost \cup {d}
      PROVE  IInv'
  <2> DEFINE kept == Restrict(Live(c), DOMAIN Live(c) \ out)
             s == [call[c] EXCEPT !.pc = "charge", !.ref = NoRef]
  <2>1. kept \in Entries /\ DOMAIN kept \subseteq DOMAIN guard[r]
    BY <1>2, RestrictEntries, DOMAIN Live(c) \ out \in SUBSET DOMAIN Live(c)
  <2> HIDE DEF kept
  <2>2. /\ Record(kept, d, InFlight) \in Entries
        /\ DOMAIN Record(kept, d, InFlight) \subseteq DOMAIN guard[r] \cup {d}
    <3>1. DOMAIN Record(kept, d, InFlight) = DOMAIN kept \cup {d}
      BY <1>1, <2>1, RecordEntries
    <3>2. Record(kept, d, InFlight) \in Entries
      BY <1>1, <2>1, RecordEntries
    <3>3. QED
      BY <2>1, <3>1, <3>2
  <2>3. s \in CallState /\ s.pc = "charge" /\ s.doc = d /\ s.ref = NoRef
    BY <1>1 DEF CallState, Claiming
  <2>4. call' = [call EXCEPT ![c] = s]
    BY <1>4
  <2>5. lost' \subseteq Doc
    BY <1>1, <1>4
  <2> HIDE DEF s
  <2>6. QED
    BY <1>1, <1>3, <1>4, <2>2, <2>3, <2>4, <2>5, GuardStep DEF Holding, kept
<1>5. ASSUME guard' = Update(r, c, Live(c)), Return(c), UNCHANGED lost PROVE IInv'
  <2>1. IdleCall.pc = "idle" /\ IdleCall.ref = NoRef
    BY DEF IdleCall
  <2>2. QED
    BY <1>1, <1>2, <1>3, <1>5, <2>1, IdleIsState, GuardStep DEF Return, Holding
<1>6. QED
  BY <1>4, <1>5 DEF GuardClaim

LEMMA GuardCloseKeeps ==
  ASSUME IInv, NEW c \in Call, GuardClose(c) PROVE IInv'
<1> DEFINE r == call[c].ref
           e == Closed(guard[r], call[c].doc, call[c].resp)
<1>1. /\ call[c].pc \in Holding /\ call[c] \in CallState /\ guard[r] \in Entries
      /\ spent \subseteq Doc /\ lost \subseteq Doc
  BY CallStates DEF GuardClose, Holding, IInv, TypeOK
<1>2. call[c].resp \in Response \cup {InFlight}
  BY <1>1 DEF CallState
<1>3. e \in Entries /\ DOMAIN e \subseteq DOMAIN guard[r]
  BY <1>1, <1>2, ClosedEntries
<1>4. /\ guard' = Update(r, c, e) /\ Return(c)
      /\ UNCHANGED <<now, issuers, charges, spent, restarts>> /\ lost' \subseteq Doc
  BY <1>1 DEF GuardClose
<1>5. IdleCall.pc = "idle" /\ IdleCall.ref = NoRef
  BY DEF IdleCall
<1> HIDE DEF e
<1>6. QED
  BY <1>1, <1>3, <1>4, <1>5, IdleIsState, GuardStep DEF Return, Holding
-----------------------------------------------------------------------------
(* What a purge leaves in the guards. *)
LEMMA PurgedEntries ==
  ASSUME IInv, NEW t
  PROVE  /\ Purged(t) \in [Ref -> Entries]
         /\ \A r \in Ref : DOMAIN Purged(t)[r] \subseteq DOMAIN guard[r]
<1>1. ASSUME NEW r \in Ref
      PROVE  /\ Purged(t)[r] \in Entries
             /\ DOMAIN Purged(t)[r] \subseteq DOMAIN guard[r]
  <2> DEFINE live == {d \in DOMAIN guard[r] : Retained(d, t)}
  <2>1. guard[r] \in Entries /\ live \in SUBSET DOMAIN guard[r]
    BY DEF IInv, TypeOK
  <2>2. Purged(t)[r] = IF r \in Mapped THEN Restrict(guard[r], live) ELSE guard[r]
    BY DEF Purged
  <2> HIDE DEF live
  <2>3. /\ Restrict(guard[r], live) \in Entries
        /\ DOMAIN Restrict(guard[r], live) = live
    BY <2>1, RestrictEntries
  <2>4. QED
    BY <2>1, <2>2, <2>3
<1>2. Purged(t) = [r \in Ref |-> Purged(t)[r]]
  BY DEF Purged
<1>3. QED
  BY <1>1, <1>2

(* Dropping guards from the map and entries from guards keeps what the        *)
(* invariant says of the map.                                                 *)
LEMMA FewerKeeps ==
  ASSUME IInv, NEW I \in SUBSET DOMAIN issuers, issuers' = Restrict(issuers, I),
         NEW g \in [Ref -> Entries], guard' = g,
         \A r \in Ref : DOMAIN g[r] \subseteq DOMAIN guard[r]
  PROVE  /\ \E S \in SUBSET Issuer : issuers' \in [S -> Ref]
         /\ Partitioned'
         /\ \A b \in Call : call[b].ref \in Mapped' =>
              /\ call[b].doc.issuer \in I
              /\ issuers'[call[b].doc.issuer] = call[b].ref
<1>1. PICK S \in SUBSET Issuer : issuers \in [S -> Ref]
  BY DEF IInv, TypeOK
<1>2. DOMAIN issuers' = I /\ \A i \in I : issuers'[i] = issuers[i] /\ issuers[i] \in Ref
  BY <1>1 DEF Restrict
<1>3. issuers' \in [I -> Ref] /\ I \in SUBSET Issuer
  BY <1>1 DEF Restrict
<1>4. Partitioned'
  BY <1>2 DEF IInv, TypeOK, Partitioned
<1>5. ASSUME NEW b \in Call, call[b].ref \in Mapped'
      PROVE  call[b].doc.issuer \in I /\ issuers'[call[b].doc.issuer] = call[b].ref
  <2>1. PICK j \in I : issuers[j] = call[b].ref
    BY <1>2, <1>5 DEF Mapped, Range
  <2>2. call[b].ref \in Mapped
    BY <2>1 DEF Mapped, Range
  <2>3. call[b].doc.issuer \in DOMAIN issuers /\ issuers[call[b].doc.issuer] = call[b].ref
    BY <2>2 DEF IInv, Attached
  <2>4. call[b].doc.issuer = j
    BY <2>1, <2>3 DEF IInv, TypeOK, Partitioned
  <2>5. QED
    BY <1>2, <2>1, <2>4
<1>6. QED
  BY <1>3, <1>4, <1>5

(* So does giving an issuer that has no guard one that nobody holds.          *)
LEMMA NewGuardKeeps ==
  ASSUME IInv, NEW I \in SUBSET DOMAIN issuers, NEW k \in Issuer, k \notin I,
         NEW r \in FreeRef, NEW g \in [Ref -> Entries],
         issuers' = [i \in I \cup {k} |-> IF i = k THEN r ELSE issuers[i]],
         guard' = [g EXCEPT ![r] = Empty],
         \A q \in Ref : DOMAIN g[q] \subseteq DOMAIN guard[q]
  PROVE  /\ \E S \in SUBSET Issuer : issuers' \in [S -> Ref]
         /\ guard' \in [Ref -> Entries]
         /\ Partitioned'
         /\ \A b \in Call : call[b].ref \in Mapped' =>
              /\ call[b].doc.issuer \in I
              /\ issuers'[call[b].doc.issuer] = call[b].ref
<1>1. PICK S \in SUBSET Issuer : issuers \in [S -> Ref]
  BY DEF IInv, TypeOK
<1>2. r \in Ref /\ r \notin Mapped /\ \A b \in Call : call[b].ref # r
  BY DEF FreeRef
<1>3. /\ DOMAIN issuers' = I \cup {k} /\ issuers'[k] = r
      /\ \A i \in I : issuers'[i] = issuers[i] /\ issuers[i] \in Mapped /\ issuers[i] \in Ref
  BY <1>1 DEF Mapped, Range
<1>4. issuers' \in [I \cup {k} -> Ref] /\ I \cup {k} \in SUBSET Issuer
  BY <1>1, <1>2
<1>5. guard' \in [Ref -> Entries]
  BY EmptyEntries, <1>2
<1>6. Partitioned'
  <2>1. ASSUME NEW i \in I \cup {k}, NEW j \in (I \cup {k}) \ {i}
        PROVE  issuers'[j] # issuers'[i]
    BY <1>2, <1>3 DEF IInv, TypeOK, Partitioned
  <2>2. ASSUME NEW i \in I \cup {k}, NEW d \in DOMAIN guard'[issuers'[i]] PROVE d.issuer = i
    <3>1. CASE i = k
      BY <1>2, <1>3, <3>1, EmptyEntries
    <3>2. CASE i \in I
      <4>1. issuers'[i] = issuers[i] /\ issuers[i] # r /\ issuers[i] \in Ref
        BY <1>2, <1>3, <3>2
      <4>2. d \in DOMAIN guard[issuers[i]]
        BY <4>1
      <4>3. QED
        BY <3>2, <4>2 DEF IInv, TypeOK, Partitioned
    <3>3. QED
      BY <3>1, <3>2
  <2>3. QED
    BY <1>3, <2>1, <2>2 DEF Partitioned
<1>7. ASSUME NEW b \in Call, call[b].ref \in Mapped'
      PROVE  call[b].doc.issuer \in I /\ issuers'[call[b].doc.issuer] = call[b].ref
  <2>1. PICK j \in I : issuers[j] = call[b].ref
    BY <1>2, <1>3, <1>7 DEF Mapped, Range
  <2>2. call[b].ref \in Mapped
    BY <2>1 DEF Mapped, Range
  <2>3. call[b].doc.issuer \in DOMAIN issuers /\ issuers[call[b].doc.issuer] = call[b].ref
    BY <2>2 DEF IInv, Attached
  <2>4. call[b].doc.issuer = j
    BY <2>1, <2>3 DEF IInv, TypeOK, Partitioned
  <2>5. QED
    BY <1>3, <2>1, <2>4
<1>8. QED
  BY <1>4, <1>5, <1>6, <1>7

(* A step that changes the map and one call. *)
LEMMA MapStep ==
  ASSUME IInv, NEW c \in Call, NEW s \in CallState, call' = [call EXCEPT ![c] = s],
         s.pc # "idle" => s.doc \in Doc,
         IF s.pc \in Holding THEN s.ref \in Ref ELSE s.ref = NoRef,
         \E S \in SUBSET Issuer : issuers' \in [S -> Ref],
         guard' \in [Ref -> Entries], Partitioned',
         \A b \in Call : call[b].ref \in Mapped' =>
           /\ call[b].doc.issuer \in DOMAIN issuers'
           /\ issuers'[call[b].doc.issuer] = call[b].ref,
         s.ref \in Mapped' => /\ s.doc.issuer \in DOMAIN issuers'
                              /\ issuers'[s.doc.issuer] = s.ref,
         UNCHANGED <<now, spent, lost, restarts>>, charges' \in [Doc -> Nat]
  PROVE  IInv'
<1>1. call' \in [Call -> CallState] /\ Busied'
  BY OneCall
<1>2. \A b \in Call : call'[b] = IF b = c THEN s ELSE call[b]
  BY DEF IInv, TypeOK
<1>3. Attached'
  BY <1>2 DEF Attached
<1>4. TypeOK'
  BY <1>1 DEF IInv, TypeOK
<1>5. QED
  BY <1>1, <1>3, <1>4 DEF IInv

LEMMA PartitionKeeps ==
  ASSUME IInv, NEW c \in Call, Partition(c) PROVE IInv'
<1> DEFINE d == call[c].doc
           g == Purged(call[c].at)
           I == {i \in DOMAIN issuers : DOMAIN g[issuers[i]] # {}}
           m == Kept(g)
           r == GuardOf(m, d.issuer)
           M == [i \in DOMAIN m \cup {d.issuer} |-> IF i = d.issuer THEN r ELSE m[i]]
           s == [call[c] EXCEPT !.pc = "claim", !.ref = r]
<1>1. call[c] \in CallState /\ d \in Doc /\ d.issuer \in Issuer /\ call[c].pc = "admitting"
  BY CallStates DEF Partition, IInv
<1>2. /\ g \in [Ref -> Entries]
      /\ \A q \in Ref : DOMAIN g[q] \subseteq DOMAIN guard[q]
  BY PurgedEntries
<1>3. m = Restrict(issuers, I) /\ DOMAIN m = I /\ I \in SUBSET DOMAIN issuers
      /\ \A i \in I : m[i] = issuers[i]
  BY DEF Kept, Restrict
<1>4. charges' \in [Doc -> Nat]
  <2>1. PurgedCharges(call[c].at) \in [Doc -> Nat]
    BY DEF PurgedCharges, IInv, TypeOK
  <2>2. QED
    BY <2>1 DEF Partition
<1>5. UNCHANGED <<now, spent, lost, restarts>>
  BY DEF Partition
<1>6. r \in Ref /\ (d.issuer \in I => r = issuers[d.issuer]) /\ (d.issuer \notin I => r \in FreeRef)
  <2>1. PICK q \in Ref : q \in FreeRef
    BY SomeGuardIsFree DEF IInv
  <2>2. CASE d.issuer \in I
    BY <1>3, <2>2, NoRefUnmapped DEF GuardOf, Mapped, Range, IInv
  <2>3. CASE d.issuer \notin I
    BY <1>3, <2>1, <2>3 DEF GuardOf, FreeRef
  <2>4. QED
    BY <2>2, <2>3
<1>7. IdleCall \in CallState /\ IdleCall.pc = "idle" /\ IdleCall.ref = NoRef
  BY IdleIsState DEF IdleCall
<1>8. s \in CallState /\ s.pc = "claim" /\ s.doc = d /\ s.ref = r
  BY <1>1, <1>6 DEF CallState, Claiming
<1>9. (OverHandle(charges', d.handle) /\ issuers' = m /\ guard' = g /\ Return(c))
      \/ ( /\ issuers' = M
           /\ guard' = IF d.issuer \in I THEN g ELSE [g EXCEPT ![r] = Empty]
           /\ Return(c) \/ call' = [call EXCEPT ![c] = s] )
  BY <1>3 DEF Partition
<1> HIDE DEF g, I, m, r, M, s, d
<1>10. CASE issuers' = m /\ guard' = g /\ Return(c)
  <2>1. /\ \E S \in SUBSET Issuer : issuers' \in [S -> Ref]
        /\ Partitioned'
        /\ \A b \in Call : call[b].ref \in Mapped' =>
             /\ call[b].doc.issuer \in I
             /\ issuers'[call[b].doc.issuer] = call[b].ref
    BY <1>2, <1>3, <1>10, FewerKeeps
  <2>2. guard' \in [Ref -> Entries] /\ DOMAIN issuers' = I
    BY <1>2, <1>3, <1>10
  <2>3. NoRef \notin Mapped'
    BY <2>1, ReplayAssumption DEF Mapped, Range
  <2>4. QED
    BY <1>4, <1>5, <1>7, <1>10, <2>1, <2>2, <2>3, MapStep DEF Return, Holding
<1>11. ASSUME issuers' = M, guard' = IF d.issuer \in I THEN g ELSE [g EXCEPT ![r] = Empty],
              Return(c) \/ call' = [call EXCEPT ![c] = s]
       PROVE  IInv'
  <2>1. /\ \E S \in SUBSET Issuer : issuers' \in [S -> Ref]
        /\ guard' \in [Ref -> Entries]
        /\ Partitioned'
        /\ \A b \in Call : call[b].ref \in Mapped' =>
             /\ call[b].doc.issuer \in I
             /\ issuers'[call[b].doc.issuer] = call[b].ref
    <3>1. CASE d.issuer \in I
      <4>1. issuers' = Restrict(issuers, I) /\ guard' = g
        <5>1. I \cup {d.issuer} = I
          BY <3>1
        <5>2. M = [i \in I |-> issuers[i]]
          BY <1>3, <1>6, <3>1, <5>1 DEF M
        <5>3. QED
          BY <1>11, <3>1, <5>2 DEF Restrict
      <4>2. QED
        BY <1>2, <1>3, <4>1, FewerKeeps
    <3>2. CASE d.issuer \notin I
      <4>1. /\ issuers' = [i \in I \cup {d.issuer} |-> IF i = d.issuer THEN r ELSE issuers[i]]
            /\ guard' = [g EXCEPT ![r] = Empty]
        BY <1>3, <1>11, <3>2 DEF M
      <4>2. QED
        BY <1>1, <1>2, <1>3, <1>6, <3>2, <4>1, NewGuardKeeps
    <3>3. QED
      BY <3>1, <3>2
  <2>2. DOMAIN issuers' = I \cup {d.issuer} /\ issuers'[d.issuer] = r
    BY <1>3, <1>11 DEF M
  <2>3. NoRef \notin Mapped'
    BY <2>1, ReplayAssumption DEF Mapped, Range
  <2>4. CASE Return(c)
    BY <1>4, <1>5, <1>7, <2>1, <2>2, <2>3, <2>4, MapStep DEF Return, Holding
  <2>5. CASE call' = [call EXCEPT ![c] = s]
    BY <1>1, <1>4, <1>5, <1>6, <1>8, <2>1, <2>2, <2>5, MapStep DEF Holding
  <2>6. QED
    BY <1>11, <2>4, <2>5
<1>12. QED
  BY <1>9, <1>10, <1>11
-----------------------------------------------------------------------------
LEMMA RestartKeeps ==
  ASSUME IInv, Restart PROVE IInv'
<1>1. issuers' = [i \in {} |-> NoRef] /\ DOMAIN issuers' = {}
  BY DEF Restart
<1>2. guard' \in [Ref -> Entries]
  BY EmptyEntries DEF Restart
<1>3. call' \in [Call -> CallState] /\ \A c \in Call : call'[c] = IdleCall
  BY IdleIsState DEF Restart
<1>4. charges' \in [Doc -> Nat]
  BY DEF Restart
<1>5. spent' \subseteq Doc /\ lost' \subseteq Doc
  <2>1. \A c \in At({"admitted"}) \cup Executing : call[c].doc \in Doc
    BY CallStates DEF IInv, At, Executing
  <2>2. QED
    BY <2>1 DEF Restart, IInv, TypeOK
<1>6. restarts' \in 0..MaxRestarts /\ now' = now
  BY ReplayAssumption DEF Restart, IInv, TypeOK
<1>7. Busied' /\ Attached'
  <2>1. Mapped' = {}
    BY <1>1 DEF Mapped, Range
  <2>2. QED
    BY <1>3, <2>1 DEF Busied, Attached, IdleCall, Holding
<1>8. Partitioned' /\ \E S \in SUBSET Issuer : issuers' \in [S -> Ref]
  <2>1. issuers' \in [{} -> Ref] /\ {} \in SUBSET Issuer
    BY <1>1
  <2>2. QED
    BY <1>1, <2>1 DEF Partitioned
<1>9. QED
  BY <1>2, <1>3, <1>4, <1>5, <1>6, <1>7, <1>8 DEF IInv, TypeOK

LEMMA TickKeeps ==
  ASSUME IInv, Tick PROVE IInv'
<1>1. now' \in 0..MaxTime
  BY ReplayAssumption DEF Tick, IInv, TypeOK
<1>2. UNCHANGED <<issuers, guard, charges, call, spent, lost, restarts>>
  BY DEF Tick
<1>3. Mapped' = Mapped
  BY <1>2 DEF Mapped
<1>4. QED
  BY <1>1, <1>2, <1>3 DEF IInv, TypeOK, Partitioned, Busied, Attached

LEMMA InitHolds ==
  ASSUME Init PROVE IInv
<1>1. 0 \in 0..MaxTime /\ 0 \in 0..MaxRestarts
  BY ReplayAssumption
<1>2. issuers \in [{} -> Ref] /\ {} \in SUBSET Issuer /\ Mapped = {}
  BY DEF Init, Mapped, Range
<1>3. guard \in [Ref -> Entries] /\ charges \in [Doc -> Nat] /\ call \in [Call -> CallState]
  BY EmptyEntries, IdleIsState DEF Init
<1>4. spent \subseteq Doc /\ lost \subseteq Doc /\ Partitioned
  BY DEF Init, Partitioned
<1>5. Busied /\ Attached
  BY <1>2 DEF Init, Busied, Attached, IdleCall, Holding
<1>6. QED
  BY <1>1, <1>2, <1>3, <1>4, <1>5 DEF IInv, TypeOK, Init

LEMMA InvariantKept ==
  ASSUME IInv, [Next]_vars PROVE IInv'
<1>1. CASE UNCHANGED vars
  BY <1>1 DEF vars, IInv, TypeOK, Partitioned, Busied, Attached, Mapped
<1>2. ASSUME NEW c \in Call, ClaimStep(c) PROVE IInv'
  BY <1>2, PartitionKeeps, GuardClaimKeeps, ChargeKeeps DEF ClaimStep
<1>3. ASSUME NEW c \in Call, CloseStep(c) PROVE IInv'
  BY <1>3, UnchargeKeeps, LookupKeeps, GuardCloseKeeps DEF CloseStep
<1>4. QED
  BY <1>1, <1>2, <1>3, ReceiveKeeps, EffectKeeps, TickKeeps, RestartKeeps DEF Next

(* The type invariant, by the way a call holds a guard: for any callers,      *)
(* documents, workers and budgets every guard of the record holds documents   *)
(* of one issuer only, and no two issuers share a guard, however the claims,  *)
(* purges and closes of the calls interleave (replay.rs, partition).          *)
THEOREM TypeCorrect == Spec => []TypeOK
<1>1. IInv => TypeOK
  BY DEF IInv
<1>2. QED
  BY InitHolds, InvariantKept, <1>1, PTL DEF Spec
-----------------------------------------------------------------------------
(* The inductive invariant behind ClaimsHaveOwners.  A call past its claim    *)
(* owes the guard of its issuer an answer; one that already holds the guard   *)
(* it will answer in owes it to that guard only.                              *)
Owes(s, d, r) ==
  /\ s.doc = d
  /\ \/ s.pc \in {"charge", "admitted", "uncharge", "lookup"}
     \/ s.pc = "close" /\ s.ref = r

Claimed ==
  \A i \in DOMAIN issuers : \A d \in DOMAIN guard[issuers[i]] :
    guard[issuers[i]][d] = InFlight => d \in spent \/ \E c \in Call : Owes(call[c], d, issuers[i])

(* A step that changes one call and no guard keeps it when the call goes on   *)
(* owing what it owed, or its document is spent.                              *)
LEMMA OwingStep ==
  ASSUME IInv, Claimed, NEW c \in Call, NEW s, call' = [call EXCEPT ![c] = s],
         UNCHANGED <<issuers, guard>>, spent \subseteq spent',
         \A i \in DOMAIN issuers : \A d \in DOMAIN guard[issuers[i]] :
           Owes(call[c], d, issuers[i]) => d \in spent' \/ Owes(s, d, issuers[i])
  PROVE  Claimed'
<1>1. \A b \in Call : call'[b] = IF b = c THEN s ELSE call[b]
  BY DEF IInv, TypeOK
<1>2. ASSUME NEW i \in DOMAIN issuers, NEW d \in DOMAIN guard[issuers[i]],
             guard[issuers[i]][d] = InFlight
      PROVE  d \in spent' \/ \E b \in Call : Owes(call'[b], d, issuers[i])
  <2>1. CASE d \in spent
    BY <2>1
  <2>2. ASSUME NEW b \in Call, Owes(call[b], d, issuers[i])
        PROVE  d \in spent' \/ \E a \in Call : Owes(call'[a], d, issuers[i])
    BY <1>1, <2>2
  <2>3. QED
    BY <1>2, <2>1, <2>2 DEF Claimed
<1>3. QED
  BY <1>2 DEF Claimed

(* So does one that takes guards from the map or adds an empty one, if the    *)
(* call owed nothing.                                                         *)
LEMMA FewerClaims ==
  ASSUME IInv, Claimed, NEW c \in Call, call[c].pc = "admitting",
         \A b \in Call \ {c} : call'[b] = call[b], UNCHANGED spent,
         \A i \in DOMAIN issuers' : \A d \in DOMAIN guard'[issuers'[i]] :
           /\ i \in DOMAIN issuers /\ issuers'[i] = issuers[i]
           /\ d \in DOMAIN guard[issuers[i]]
           /\ guard'[issuers'[i]][d] = guard[issuers[i]][d]
  PROVE  Claimed'
<1>1. ASSUME NEW i \in DOMAIN issuers', NEW d \in DOMAIN guard'[issuers'[i]],
             guard'[issuers'[i]][d] = InFlight
      PROVE  d \in spent' \/ \E b \in Call : Owes(call'[b], d, issuers'[i])
  <2>1. d \in spent \/ \E b \in Call : Owes(call[b], d, issuers[i])
    BY <1>1 DEF Claimed
  <2>2. \A b \in Call : Owes(call[b], d, issuers[i]) => b # c
    BY DEF Owes
  <2>3. QED
    BY <1>1, <2>1, <2>2
<1>2. QED
  BY <1>1 DEF Claimed

LEMMA PartitionOwes ==
  ASSUME IInv, Claimed, NEW c \in Call, Partition(c) PROVE Claimed'
<1> DEFINE d == call[c].doc
           g == Purged(call[c].at)
           I == {i \in DOMAIN issuers : DOMAIN g[issuers[i]] # {}}
           m == Kept(g)
           r == GuardOf(m, d.issuer)
           M == [i \in DOMAIN m \cup {d.issuer} |-> IF i = d.issuer THEN r ELSE m[i]]
<1>1. call[c].pc = "admitting" /\ UNCHANGED spent
  BY DEF Partition
<1>2. \A b \in Call \ {c} : call'[b] = call[b]
  BY DEF Partition, Return, IInv, TypeOK
<1>3. g \in [Ref -> Entries]
  BY PurgedEntries
<1>4. m = [i \in I |-> issuers[i]] /\ I \subseteq DOMAIN issuers
  BY DEF Kept, Restrict
<1>5. \A i \in DOMAIN issuers : issuers[i] \in Ref
  BY DEF IInv, TypeOK
<1>6. \A q \in Ref : \A e \in DOMAIN g[q] : e \in DOMAIN guard[q] /\ g[q][e] = guard[q][e]
  BY DEF Purged, Restrict
<1>7. d.issuer \notin I => r \in Ref /\ \A i \in I : issuers[i] # r
  <2>1. PICK q \in Ref : q \in FreeRef
    BY SomeGuardIsFree DEF IInv
  <2>2. d.issuer \notin I => r \in FreeRef
    BY <1>4, <2>1 DEF GuardOf
  <2>3. QED
    BY <1>4, <2>2 DEF FreeRef, Mapped, Range
<1>8. d.issuer \in I => r = issuers[d.issuer]
  BY <1>4 DEF GuardOf
<1>9. \/ issuers' = m /\ guard' = g
      \/ issuers' = M /\ guard' = IF d.issuer \in DOMAIN m THEN g ELSE [g EXCEPT ![r] = Empty]
  BY DEF Partition
<1> HIDE DEF g, I, m, r, d
<1>10. ASSUME NEW i \in DOMAIN issuers', NEW e \in DOMAIN guard'[issuers'[i]]
       PROVE  /\ i \in DOMAIN issuers /\ issuers'[i] = issuers[i]
              /\ e \in DOMAIN guard[issuers[i]]
              /\ guard'[issuers'[i]][e] = guard[issuers[i]][e]
  <2>1. CASE issuers' = m /\ guard' = g
    BY <1>4, <1>5, <1>6, <1>10, <2>1
  <2>2. CASE issuers' = M /\ guard' = g /\ d.issuer \in I
    BY <1>4, <1>5, <1>6, <1>8, <1>10, <2>2
  <2>3. CASE issuers' = M /\ guard' = [g EXCEPT ![r] = Empty] /\ d.issuer \notin I
    <3>1. i # d.issuer
      BY <1>3, <1>4, <1>7, <1>10, <2>3, EmptyEntries
    <3>2. i \in I /\ issuers'[i] = issuers[i] /\ issuers[i] # r /\ issuers[i] \in Ref
      BY <1>4, <1>5, <1>7, <1>10, <2>3, <3>1
    <3>3. guard'[issuers[i]] = g[issuers[i]]
      BY <1>3, <2>3, <3>2
    <3>4. QED
      BY <1>4, <1>6, <1>10, <3>2, <3>3
  <2>4. QED
    BY <1>4, <1>9, <2>1, <2>2, <2>3
<1>11. QED
  BY <1>1, <1>2, <1>10, FewerClaims

(* The claim itself: the entry it adds is owed by the call that adds it. *)
LEMMA GuardClaimOwes ==
  ASSUME IInv, Claimed, NEW c \in Call, GuardClaim(c) PROVE Claimed'
<1> DEFINE r == call[c].ref
           d == call[c].doc
           Claims(g) ==
             /\ guard' = [guard EXCEPT ![r] = g]
             /\ \A e \in DOMAIN g : \/ e \in DOMAIN guard[r] /\ g[e] = guard[r][e]
                                    \/ e = d /\ Owes(call'[c], d, r)
<1>1. /\ call[c].pc = "claim" /\ UNCHANGED <<issuers, spent>> /\ r \in Ref
      /\ guard \in [Ref -> Entries] /\ call = [b \in Call |-> call[b]]
      /\ \A i \in DOMAIN issuers : issuers[i] \in Ref
  BY CallStates DEF GuardClaim, Holding, IInv, TypeOK
<1>2. \A b \in Call \ {c} : call'[b] = call[b]
  BY <1>1 DEF GuardClaim, Return
<1>3. \A e \in DOMAIN Live(c) : e \in DOMAIN guard[r] /\ Live(c)[e] = guard[r][e]
  BY DEF Live, Restrict
<1>4. \E g : Claims(g)
  <2>1. ASSUME NEW out \in Evicted(c),
               guard' = Update(r, c, Record(Restrict(Live(c), DOMAIN Live(c) \ out), d, InFlight)),
               call' = [call EXCEPT ![c].pc = "charge", ![c].ref = NoRef]
        PROVE  \E g : Claims(g)
    <3> DEFINE kept == Restrict(Live(c), DOMAIN Live(c) \ out)
               g == IF Outlives(r, c) THEN Record(kept, d, InFlight) ELSE Empty
    <3>1. \A e \in DOMAIN kept : e \in DOMAIN guard[r] /\ kept[e] = guard[r][e]
      BY <1>3 DEF Restrict
    <3>2. Owes(call'[c], d, r)
      <4>1. call[c] \in CallState
        BY CallStates DEF IInv
      <4>2. call'[c] = [call[c] EXCEPT !.pc = "charge", !.ref = NoRef]
        BY <1>1, <2>1
      <4>3. QED
        BY <4>1, <4>2 DEF CallState, Owes
    <3>3. guard' = [guard EXCEPT ![r] = g]
      BY <2>1 DEF Update
    <3> HIDE DEF kept
    <3>4. \A e \in DOMAIN Record(kept, d, InFlight) :
            \/ e \in DOMAIN kept /\ Record(kept, d, InFlight)[e] = kept[e]
            \/ e = d
      BY DEF Record
    <3>5. \A e \in DOMAIN g : \/ e \in DOMAIN guard[r] /\ g[e] = guard[r][e]
                              \/ e = d
      BY <3>1, <3>4, EmptyEntries
    <3>6. Claims(g)
      BY <3>2, <3>3, <3>5
    <3> HIDE DEF Claims, g
    <3>7. QED
      BY <3>6
  <2>2. ASSUME guard' = Update(r, c, Live(c)) PROVE \E g : Claims(g)
    <3> DEFINE g == IF Outlives(r, c) THEN Live(c) ELSE Empty
    <3>1. guard' = [guard EXCEPT ![r] = g]
      BY <2>2 DEF Update
    <3>2. \A e \in DOMAIN g : e \in DOMAIN guard[r] /\ g[e] = guard[r][e]
      BY <1>3, EmptyEntries
    <3>3. Claims(g)
      BY <3>1, <3>2
    <3> HIDE DEF Claims, g
    <3>4. QED
      BY <3>3
  <2> HIDE DEF Claims
  <2>3. QED
    BY <2>1, <2>2 DEF GuardClaim
<1>5. PICK g : Claims(g)
  BY <1>4
<1>6. ASSUME NEW i \in DOMAIN issuers, NEW e \in DOMAIN guard'[issuers[i]],
             guard'[issuers[i]][e] = InFlight
      PROVE  e \in spent \/ \E b \in Call : Owes(call'[b], e, issuers[i])
  <2>1. CASE e \in DOMAIN guard[issuers[i]] /\ guard'[issuers[i]][e] = guard[issuers[i]][e]
    <3>1. e \in spent \/ \E b \in Call : Owes(call[b], e, issuers[i])
      BY <1>6, <2>1 DEF Claimed
    <3>2. ~Owes(call[c], e, issuers[i])
      BY <1>1 DEF Owes
    <3>3. QED
      BY <1>2, <3>1, <3>2
  <2>2. CASE issuers[i] = r /\ e = d /\ Owes(call'[c], d, r)
    BY <2>2
  <2>3. QED
    BY <1>1, <1>5, <1>6, <2>1, <2>2
<1>7. QED
  BY <1>1, <1>6 DEF Claimed

(* Closing the claim: its entry goes, or gets a response. *)
LEMMA GuardCloseOwes ==
  ASSUME IInv, Claimed, NEW c \in Call, GuardClose(c) PROVE Claimed'
<1> DEFINE r == call[c].ref
           d == call[c].doc
           resp == call[c].resp
           g == IF Outlives(r, c) THEN Closed(guard[r], d, resp) ELSE Empty
<1>1. /\ call[c].pc = "close" /\ UNCHANGED <<issuers, spent>> /\ r \in Ref /\ d \in Doc
      /\ guard \in [Ref -> Entries] /\ call = [b \in Call |-> call[b]]
      /\ \A i \in DOMAIN issuers : issuers[i] \in Ref
  BY CallStates DEF GuardClose, Holding, IInv, TypeOK
<1>2. \A b \in Call \ {c} : call'[b] = call[b]
  BY <1>1 DEF GuardClose, Return
<1>3. guard' = [guard EXCEPT ![r] = g]
  BY DEF GuardClose, Update
<1>4. ASSUME NEW e \in DOMAIN g, g[e] = InFlight
      PROVE  e \in DOMAIN guard[r] /\ guard[r][e] = InFlight /\ e # d
  <2>1. e \in DOMAIN Closed(guard[r], d, resp) /\ Closed(guard[r], d, resp)[e] = InFlight
    BY <1>4, EmptyEntries
  <2>2. CASE resp = InFlight
    BY <2>1, <2>2 DEF Closed, Restrict
  <2>3. CASE resp # InFlight
    <3>1. d \in Twins(d)
      BY <1>1 DEF Twins
    <3>2. QED
      BY <2>1, <2>3, <3>1 DEF Closed, Answered
  <2>4. QED
    BY <2>2, <2>3
<1> HIDE DEF g
<1>5. ASSUME NEW i \in DOMAIN issuers, NEW e \in DOMAIN guard'[issuers[i]],
             guard'[issuers[i]][e] = InFlight
      PROVE  e \in spent \/ \E b \in Call : Owes(call'[b], e, issuers[i])
  <2>1. e \in DOMAIN guard[issuers[i]] /\ guard[issuers[i]][e] = InFlight
    BY <1>1, <1>3, <1>4, <1>5
  <2>2. e \in spent \/ \E b \in Call : Owes(call[b], e, issuers[i])
    BY <2>1 DEF Claimed
  <2>3. ~Owes(call[c], e, issuers[i])
    <3>1. CASE issuers[i] = r
      BY <1>1, <1>3, <1>4, <1>5, <3>1 DEF Owes
    <3>2. CASE issuers[i] # r
      BY <1>1, <3>2 DEF Owes
    <3>3. QED
      BY <3>1, <3>2
  <2>4. QED
    BY <1>2, <2>2, <2>3
<1>6. QED
  BY <1>1, <1>5 DEF Claimed

(* Looking the issuer's guard up fixes the guard the call owes its answer to; *)
(* no other guard of the map has its document, since each has one issuer's.   *)
LEMMA LookupOwes ==
  ASSUME IInv, Claimed, NEW c \in Call, Lookup(c) PROVE Claimed'
<1> DEFINE d == call[c].doc
           s == IF d.issuer \in DOMAIN issuers
                THEN [call[c] EXCEPT !.pc = "close", !.ref = issuers[d.issuer]] ELSE IdleCall
<1>1. call' = [call EXCEPT ![c] = s] /\ UNCHANGED <<issuers, guard, spent>>
  BY DEF Lookup, Return
<1>2. call[c] \in CallState
  BY CallStates DEF IInv
<1>3. ASSUME NEW i \in DOMAIN issuers, NEW e \in DOMAIN guard[issuers[i]],
             Owes(call[c], e, issuers[i])
      PROVE  Owes(s, e, issuers[i])
  <2>1. e = d /\ e.issuer = i
    BY <1>3 DEF Owes, IInv, TypeOK, Partitioned
  <2>2. s.pc = "close" /\ s.ref = issuers[i] /\ s.doc = e
    BY <1>2, <2>1 DEF CallState
  <2>3. QED
    BY <2>2 DEF Owes
<1> HIDE DEF s
<1>4. QED
  BY <1>1, <1>3, OwingStep

(* The steps outside a guard: a call goes on owing its answer until it gives  *)
(* it, or is cut off with its document spent.                                 *)
LEMMA CallOwes ==
  ASSUME IInv, Claimed, NEW c \in Call,
         \/ \E d \in Doc : Receive(c, d)
         \/ \E resp \in Response : Succeed(c, resp)
         \/ Refuse(c) \/ Charge(c) \/ Fail(c) \/ Abandon(c) \/ Uncharge(c)
  PROVE  Claimed'
<1>1. UNCHANGED <<issuers, guard>> /\ spent \subseteq spent'
  BY DEF Receive, Refuse, Charge, Succeed, Fail, Abandon, Uncharge
<1>2. call[c] \in CallState
  BY CallStates DEF IInv
<1>3. CASE call[c].pc \in {"idle", "admitting"}
  <2>1. \A d, r : ~Owes(call[c], d, r)
    BY <1>3 DEF Owes
  <2>2. \E s : call' = [call EXCEPT ![c] = s]
    BY <1>3 DEF Receive, Refuse, Return, Charge, Succeed, Fail, Abandon, Uncharge
  <2>3. QED
    BY <1>1, <2>1, <2>2, OwingStep
<1>4. ASSUME NEW pc \in {"admitted", "uncharge", "lookup"}, NEW at, NEW resp,
             call' = [call EXCEPT ![c] = [call[c] EXCEPT !.pc = pc, !.at = at, !.resp = resp]]
      PROVE  Claimed'
  <2> DEFINE s == [call[c] EXCEPT !.pc = pc, !.at = at, !.resp = resp]
  <2>1. s.pc = pc /\ s.doc = call[c].doc
    BY <1>2 DEF CallState
  <2> HIDE DEF s
  <2>2. \A d, r : Owes(call[c], d, r) => Owes(s, d, r)
    BY <2>1 DEF Owes
  <2>3. QED
    BY <1>1, <1>4, <2>2, OwingStep DEF s
<1>5. CASE Charge(c)
  <2>1. [call[c] EXCEPT !.pc = "admitted", !.at = 0]
          = [call[c] EXCEPT !.pc = "admitted", !.at = 0, !.resp = call[c].resp]
    BY <1>2 DEF CallState
  <2>2. call' = [call EXCEPT ![c] = [call[c] EXCEPT !.pc = "admitted", !.at = 0]]
    BY <1>5 DEF Charge
  <2>3. QED
    BY <1>4, <2>1, <2>2
<1>6. ASSUME NEW resp, NEW pc \in {"uncharge", "lookup"}, Close(c, resp, pc) PROVE Claimed'
  <2>1. [call[c] EXCEPT !.pc = pc, !.resp = resp]
          = [call[c] EXCEPT !.pc = pc, !.at = call[c].at, !.resp = resp]
    BY <1>2 DEF CallState
  <2>2. call' = [call EXCEPT ![c] = [call[c] EXCEPT !.pc = pc, !.resp = resp]]
    BY <1>6 DEF Close
  <2>3. QED
    BY <1>4, <2>1, <2>2
<1>7. CASE Uncharge(c)
  <2>1. [call[c] EXCEPT !.pc = "lookup"]
          = [call[c] EXCEPT !.pc = "lookup", !.at = call[c].at, !.resp = call[c].resp]
    BY <1>2 DEF CallState
  <2>2. call' = [call EXCEPT ![c] = [call[c] EXCEPT !.pc = "lookup"]]
    BY <1>7 DEF Uncharge, Goto
  <2>3. QED
    BY <1>4, <2>1, <2>2
<1>8. CASE Abandon(c)
  <2>1. call' = [call EXCEPT ![c] = IdleCall] /\ call[c].doc \in spent'
    BY <1>8 DEF Abandon, Return
  <2>2. \A d, r : Owes(call[c], d, r) => d \in spent'
    BY <2>1 DEF Owes
  <2>3. QED
    BY <1>1, <2>1, <2>2, OwingStep
<1>9. CASE Fail(c)
  BY <1>6, <1>9 DEF Fail
<1>10. ASSUME NEW resp \in Response, Succeed(c, resp) PROVE Claimed'
  BY <1>6, <1>10 DEF Succeed
<1>11. QED
  BY <1>3, <1>5, <1>7, <1>8, <1>9, <1>10 DEF Receive, Refuse

LEMMA ClaimedKept ==
  ASSUME IInv, Claimed, [Next]_vars PROVE Claimed'
<1>1. CASE UNCHANGED vars
  BY <1>1 DEF vars, Claimed, Owes
<1>2. CASE Tick
  BY <1>2 DEF Tick, Claimed, Owes
<1>3. CASE Restart
  BY <1>3 DEF Restart, Claimed
<1>4. ASSUME NEW c \in Call, ClaimStep(c) PROVE Claimed'
  BY <1>4, PartitionOwes, GuardClaimOwes, CallOwes DEF ClaimStep
<1>5. ASSUME NEW c \in Call, CloseStep(c) PROVE Claimed'
  BY <1>5, CallOwes, LookupOwes, GuardCloseOwes DEF CloseStep
<1>6. QED
  BY <1>1, <1>2, <1>3, <1>4, <1>5, CallOwes DEF Next

(* A claim in flight is one that a call is still to answer, or its document   *)
(* took effect or may have: whatever the calls and the purges do, a document  *)
(* that failed is never left refused as already accepted (replay.rs,          *)
(* complete: release of a claim whose effect did not happen).                 *)
THEOREM NoOrphanedClaim == Spec => []ClaimsHaveOwners
<1>1. Init => IInv /\ Claimed
  BY InitHolds DEF Init, Claimed
<1>2. IInv /\ Claimed /\ [Next]_vars => IInv' /\ Claimed'
  BY InvariantKept, ClaimedKept
<1>3. IInv /\ Claimed => ClaimsHaveOwners
  BY DEF Claimed, ClaimsHaveOwners, Owes, Owners, At, Closing
<1>4. QED
  BY <1>1, <1>2, <1>3, PTL DEF Spec
-----------------------------------------------------------------------------
(* A call holds a document from its claim until it has closed it, unless the  *)
(* document took effect.                                                      *)
Holds(s, d) ==
  /\ s.doc = d
  /\ \/ s.pc \in {"charge", "admitted"}
     \/ s.pc \in Closing /\ s.resp = InFlight

(* A call that claims uses a time that is not older than MaxLag, and at which *)
(* its document was in its window.                                            *)
Timely ==
  \A c \in Call : call[c].pc \in Claiming =>
    /\ Fresh(call[c].doc, call[c].at)
    /\ call[c].at <= now /\ now <= call[c].at + MaxLag

(* A document that is held or took effect is in the record until it is too    *)
(* old for a claim.                                                           *)
Remembered ==
  \A d \in Doc \ lost :
    d \in spent \/ (\E c \in Call : Holds(call[c], d)) => InRecord(d) \/ ~Retained(d, now)

(* At most one call holds a document, and none after it took effect. *)
Single ==
  \A d \in Doc \ lost : \A c \in Call : Holds(call[c], d) =>
    d \notin spent /\ \A b \in Call \ {c} : ~Holds(call[b], d)

RInv == IInv /\ Timely /\ Remembered /\ Single

LEMMA Times ==
  ASSUME IInv PROVE now \in Int /\ \A c \in Call : call[c].at \in Int
<1>1. \A c \in Call : call[c] \in CallState
  BY CallStates DEF IInv
<1>2. QED
  BY <1>1, ReplayAssumption DEF IInv, TypeOK, CallState

(* What is retained now was retained before. *)
LEMMA RetainedBefore ==
  ASSUME NEW d \in Doc, NEW t \in Int, NEW u \in Int, t <= u, Retained(d, u)
  PROVE  Retained(d, t)
BY ReplayAssumption, WindowAssumption DEF Retained, LastFresh

(* The document of a claim under way is retained, now and by the call's clock. *)
LEMMA ClaimIsRetained ==
  ASSUME IInv, Timely, MaxLag < Margin, NEW c \in Call, call[c].pc \in Claiming
  PROVE  Retained(call[c].doc, now) /\ Retained(call[c].doc, call[c].at)
<1>1. call[c].doc \in Doc
  BY CallStates DEF IInv, Claiming
<1>2. Fresh(call[c].doc, call[c].at) /\ call[c].at <= now /\ now <= call[c].at + MaxLag
  BY DEF Timely
<1>3. call[c].doc.issued \in Int /\ call[c].doc.expires \subseteq Int
  BY <1>1, ReplayAssumption
<1>4. now \in Int /\ call[c].at \in Int /\ MaxLag \in Int /\ Margin \in Int
  BY Times, ReplayAssumption, WindowAssumption
<1>5. now < call[c].at + Margin
  BY <1>2, <1>4
<1>6. Retained(call[c].doc, now)
  BY <1>2, <1>3, <1>4, <1>5, FreshIsRetained
<1>7. QED
  BY <1>1, <1>2, <1>4, <1>6, RetainedBefore

(* Time stands still and one call changes: it is timely if its new state is. *)
LEMMA TimelyStep ==
  ASSUME IInv, Timely, NEW c \in Call, NEW s, call' = [call EXCEPT ![c] = s], UNCHANGED now,
         \/ s.pc \notin Claiming
         \/ call[c].pc \in Claiming /\ s.doc = call[c].doc /\ s.at = call[c].at
  PROVE  Timely'
<1>1. \A b \in Call : call'[b] = IF b = c THEN s ELSE call[b]
  BY DEF IInv, TypeOK
<1>2. QED
  BY <1>1 DEF Timely

(* A call that changes no guard keeps the rest when it holds nothing it did   *)
(* not hold, and its document is spent only as it lets go of it.              *)
LEMMA QuietStep ==
  ASSUME RInv, NEW c \in Call, NEW s, call' = [call EXCEPT ![c] = s],
         UNCHANGED <<now, issuers, guard, lost>>,
         \A d : Holds(s, d) => Holds(call[c], d) /\ UNCHANGED spent,
         \A d \in spent' : d \in spent \/ Holds(call[c], d)
  PROVE  Remembered' /\ Single'
<1>1. \A b \in Call : call'[b] = IF b = c THEN s ELSE call[b]
  BY DEF RInv, IInv, TypeOK
<1>2. \A d : \A b \in Call : Holds(call'[b], d) => Holds(call[b], d)
  BY <1>1
<1>3. \A d : InRecord(d)' <=> InRecord(d)
  BY DEF InRecord
<1>4. Remembered'
  BY <1>2, <1>3 DEF RInv, Remembered
<1>5. ASSUME NEW d \in Doc \ lost, NEW b \in Call, Holds(call'[b], d)
      PROVE  d \notin spent' /\ \A a \in Call \ {b} : ~Holds(call'[a], d)
  <2>1. d \notin spent /\ \A a \in Call \ {b} : ~Holds(call[a], d)
    BY <1>2, <1>5 DEF RInv, Single
  <2>2. d \notin spent'
    <3>1. CASE b = c
      BY <1>1, <1>5, <2>1, <3>1
    <3>2. CASE b # c
      BY <2>1, <3>2
    <3>3. QED
      BY <3>1, <3>2
  <2>3. QED
    BY <1>2, <2>1, <2>2
<1>6. QED
  BY <1>4, <1>5 DEF Single
-----------------------------------------------------------------------------
(* The steps of a call outside the guards. *)
LEMMA CallRemembers ==
  ASSUME RInv, NEW c \in Call,
         \/ \E d \in Doc : Receive(c, d)
         \/ \E resp \in Response : Succeed(c, resp)
         \/ Refuse(c) \/ Charge(c) \/ Fail(c) \/ Abandon(c) \/ Uncharge(c) \/ Lookup(c)
  PROVE  Timely' /\ Remembered' /\ Single'
<1>1. UNCHANGED <<now, issuers, guard, lost>>
  BY DEF Receive, Refuse, Charge, Succeed, Fail, Abandon, Uncharge, Lookup
<1>2. call[c] \in CallState /\ Timely /\ IInv
  BY CallStates DEF IInv, RInv
<1>3. IdleCall.pc = "idle" /\ \A d : ~Holds(IdleCall, d)
  BY DEF IdleCall, Holds, Closing
<1>4. ASSUME NEW d \in Doc, Receive(c, d) PROVE Timely' /\ Remembered' /\ Single'
  <2> DEFINE s == [IdleCall EXCEPT !.pc = "admitting", !.doc = d, !.at = now]
  <2>1. s.pc = "admitting" /\ s.doc = d /\ s.at = now /\ \A e : ~Holds(s, e)
    BY DEF IdleCall, Holds, Closing
  <2>2. call' = [call EXCEPT ![c] = s] /\ UNCHANGED spent /\ Fresh(d, now)
    BY <1>4 DEF Receive
  <2> HIDE DEF s
  <2>3. Remembered' /\ Single'
    BY <1>1, <2>1, <2>2, QuietStep
  <2>4. \A b \in Call : call'[b] = IF b = c THEN s ELSE call[b]
    BY <1>2, <2>2 DEF IInv, TypeOK
  <2>5. now <= now /\ now <= now + MaxLag
    BY <1>2, Times, ReplayAssumption
  <2>6. Timely'
    BY <1>1, <1>2, <2>1, <2>2, <2>4, <2>5 DEF Timely
  <2>7. QED
    BY <2>3, <2>6
<1>5. ASSUME Return(c),
             \/ UNCHANGED spent
             \/ spent' = spent \cup {call[c].doc} /\ call[c].pc = "admitted"
      PROVE  Timely' /\ Remembered' /\ Single'
  <2>1. \A d \in spent' : d \in spent \/ Holds(call[c], d)
    BY <1>5 DEF Holds
  <2>2. IdleCall.pc \notin Claiming
    BY <1>3 DEF Claiming
  <2>3. QED
    BY <1>1, <1>2, <1>3, <1>5, <2>1, <2>2, QuietStep, TimelyStep DEF Return
<1>6. CASE Charge(c)
  <2> DEFINE s == [call[c] EXCEPT !.pc = "admitted", !.at = 0]
  <2>1. s.pc = "admitted" /\ s.doc = call[c].doc /\ call[c].pc = "charge"
    BY <1>2, <1>6 DEF CallState, Charge
  <2>2. call' = [call EXCEPT ![c] = s] /\ UNCHANGED spent
    BY <1>6 DEF Charge
  <2> HIDE DEF s
  <2>3. (\A d : Holds(s, d) => Holds(call[c], d)) /\ s.pc \notin Claiming
    BY <2>1 DEF Holds, Claiming
  <2>4. QED
    BY <1>1, <1>2, <2>2, <2>3, QuietStep, TimelyStep
<1>7. ASSUME NEW resp \in Response, Succeed(c, resp) PROVE Timely' /\ Remembered' /\ Single'
  <2> DEFINE s == [call[c] EXCEPT !.pc = "lookup", !.resp = resp]
  <2>1. s.pc = "lookup" /\ s.resp # InFlight /\ call[c].pc = "admitted"
    BY <1>2, <1>7, ReplayAssumption DEF CallState, Succeed
  <2>2. call' = [call EXCEPT ![c] = s] /\ spent' = spent \cup {call[c].doc}
    BY <1>7 DEF Succeed, Close
  <2> HIDE DEF s
  <2>3. (\A d : ~Holds(s, d)) /\ s.pc \notin Claiming /\ Holds(call[c], call[c].doc)
    BY <2>1 DEF Holds, Claiming
  <2>4. QED
    BY <1>1, <1>2, <2>2, <2>3, QuietStep, TimelyStep
<1>8. CASE Fail(c)
  <2> DEFINE s == [call[c] EXCEPT !.pc = "uncharge", !.resp = InFlight]
  <2>1. s.pc = "uncharge" /\ s.doc = call[c].doc /\ call[c].pc = "admitted"
    BY <1>2, <1>8 DEF CallState, Fail
  <2>2. call' = [call EXCEPT ![c] = s] /\ UNCHANGED spent
    BY <1>8 DEF Fail, Close
  <2> HIDE DEF s
  <2>3. (\A d : Holds(s, d) => Holds(call[c], d)) /\ s.pc \notin Claiming
    BY <2>1 DEF Holds, Claiming
  <2>4. QED
    BY <1>1, <1>2, <2>2, <2>3, QuietStep, TimelyStep
<1>9. ASSUME NEW s, call' = [call EXCEPT ![c] = s], UNCHANGED spent,
             call[c].pc \in Closing, s.pc \in Closing,
             s.doc = call[c].doc, s.resp = call[c].resp
      PROVE  Timely' /\ Remembered' /\ Single'
  <2>1. (\A d : Holds(s, d) => Holds(call[c], d)) /\ s.pc \notin Claiming
    BY <1>9 DEF Holds, Claiming, Closing
  <2>2. QED
    BY <1>1, <1>2, <1>9, <2>1, QuietStep, TimelyStep
<1>10. CASE Uncharge(c)
  <2> DEFINE s == [call[c] EXCEPT !.pc = "lookup"]
  <2>1. s.pc = "lookup" /\ s.doc = call[c].doc /\ s.resp = call[c].resp
    BY <1>2 DEF CallState
  <2>2. call' = [call EXCEPT ![c] = s] /\ UNCHANGED spent /\ call[c].pc = "uncharge"
    BY <1>10 DEF Uncharge, Goto
  <2> HIDE DEF s
  <2>3. QED
    BY <1>9, <2>1, <2>2 DEF Closing
<1>11. CASE Lookup(c)
  <2> DEFINE s == [call[c] EXCEPT !.pc = "close", !.ref = issuers[call[c].doc.issuer]]
  <2>1. s.pc = "close" /\ s.doc = call[c].doc /\ s.resp = call[c].resp
    BY <1>2 DEF CallState
  <2>2. /\ Return(c) \/ call' = [call EXCEPT ![c] = s]
        /\ UNCHANGED spent /\ call[c].pc = "lookup"
    BY <1>11 DEF Lookup
  <2> HIDE DEF s
  <2>3. QED
    BY <1>5, <1>9, <2>1, <2>2 DEF Closing
<1>12. CASE Refuse(c)
  BY <1>5, <1>12 DEF Refuse
<1>13. CASE Abandon(c)
  BY <1>5, <1>13 DEF Abandon
<1>14. QED
  BY <1>4, <1>6, <1>7, <1>8, <1>10, <1>11, <1>12, <1>13

(* A purge drops only what is too old by the clock of the call that purges.   *)
LEMMA PartitionLeaves ==
  ASSUME IInv, NEW c \in Call, Partition(c), NEW e \in Doc,
         InRecord(e), Retained(e, call[c].at)
  PROVE  InRecord(e)' /\ issuers'[e.issuer] = issuers[e.issuer]
<1> DEFINE d == call[c].doc
           g == Purged(call[c].at)
           I == {i \in DOMAIN issuers : DOMAIN g[issuers[i]] # {}}
           m == Kept(g)
           r == GuardOf(m, d.issuer)
           M == [i \in DOMAIN m \cup {d.issuer} |-> IF i = d.issuer THEN r ELSE m[i]]
           q == issuers[e.issuer]
<1>1. e.issuer \in DOMAIN issuers /\ e \in DOMAIN guard[q] /\ q \in Mapped /\ q \in Ref
  BY DEF InRecord, Mapped, Range, IInv, TypeOK
<1>2. e \in DOMAIN g[q]
  BY <1>1 DEF Purged, Restrict
<1>3. m = [i \in I |-> issuers[i]] /\ e.issuer \in I
  BY <1>1, <1>2 DEF Kept, Restrict
<1>4. d.issuer \in I => r = issuers[d.issuer]
  BY <1>3 DEF GuardOf
<1>5. d.issuer \notin I => r \in FreeRef
  BY <1>3, SomeGuardIsFree DEF GuardOf, IInv
<1>6. g \in [Ref -> Entries]
  BY PurgedEntries
<1>7. \/ issuers' = m /\ guard' = g
      \/ issuers' = M /\ guard' = IF d.issuer \in DOMAIN m THEN g ELSE [g EXCEPT ![r] = Empty]
  BY DEF Partition
<1> HIDE DEF g, I, m, r, d, q
<1>8. e.issuer \in DOMAIN issuers' /\ issuers'[e.issuer] = q
  BY <1>3, <1>4, <1>7 DEF q
<1>9. guard'[q] = g[q]
  <2>1. d.issuer \notin I => r # q
    BY <1>1, <1>5 DEF FreeRef
  <2>2. QED
    BY <1>1, <1>3, <1>6, <1>7, <2>1
<1>10. QED
  BY <1>2, <1>8, <1>9 DEF InRecord, q

LEMMA PartitionRemembers ==
  ASSUME RInv, NEW c \in Call, Partition(c) PROVE Timely' /\ Remembered' /\ Single'
<1>1. /\ call[c].pc = "admitting" /\ UNCHANGED <<now, spent, lost>>
      /\ call[c] \in CallState /\ IInv /\ Timely
  BY CallStates DEF Partition, RInv, IInv
<1>2. \E s : /\ call' = [call EXCEPT ![c] = s]
             /\ \A d : ~Holds(s, d)
             /\ \/ s.pc \notin Claiming
                \/ s.doc = call[c].doc /\ s.at = call[c].at
  <2>1. /\ IdleCall.pc \notin Claiming /\ \A d : ~Holds(IdleCall, d)
    BY DEF IdleCall, Holds, Closing, Claiming
  <2>2. ASSUME NEW r, call' = [call EXCEPT ![c].pc = "claim", ![c].ref = r]
        PROVE  /\ call' = [call EXCEPT ![c] = [call[c] EXCEPT !.pc = "claim", !.ref = r]]
               /\ \A d : ~Holds([call[c] EXCEPT !.pc = "claim", !.ref = r], d)
               /\ [call[c] EXCEPT !.pc = "claim", !.ref = r].doc = call[c].doc
               /\ [call[c] EXCEPT !.pc = "claim", !.ref = r].at = call[c].at
    BY <1>1, <2>2 DEF CallState, Holds, Closing
  <2>3. Return(c) \/ \E r : call' = [call EXCEPT ![c].pc = "claim", ![c].ref = r]
    BY DEF Partition
  <2>4. QED
    BY <2>1, <2>2, <2>3 DEF Return
<1>3. PICK s : /\ call' = [call EXCEPT ![c] = s]
               /\ \A d : ~Holds(s, d)
               /\ \/ s.pc \notin Claiming
                  \/ s.doc = call[c].doc /\ s.at = call[c].at
  BY <1>2
<1>4. Timely'
  BY <1>1, <1>3, TimelyStep DEF Claiming
<1>5. \A b \in Call : \A d : Holds(call'[b], d) => Holds(call[b], d)
  BY <1>1, <1>3 DEF IInv, TypeOK
<1>6. ASSUME NEW d \in Doc, InRecord(d), Retained(d, now) PROVE InRecord(d)'
  <2>1. call[c].at <= now /\ call[c].at \in Int /\ now \in Int
    BY <1>1, Times DEF Timely, Claiming
  <2>2. Retained(d, call[c].at)
    BY <1>6, <2>1, RetainedBefore
  <2>3. QED
    BY <1>1, <1>6, <2>2, PartitionLeaves
<1>7. Remembered'
  BY <1>1, <1>5, <1>6 DEF RInv, Remembered
<1>8. Single'
  BY <1>1, <1>5 DEF RInv, Single
<1>9. QED
  BY <1>4, <1>7, <1>8
-----------------------------------------------------------------------------
(* A guard that does not evict keeps every entry that is not too old by the   *)
(* clock of the call that claims, as long as the map has it.                  *)
LEMMA ClaimLeaves ==
  ASSUME IInv, NeverEvicts, NEW c \in Call, GuardClaim(c), NEW e \in Doc,
         InRecord(e), Retained(e, call[c].at)
  PROVE  InRecord(e)'
<1> DEFINE r == call[c].ref
           d == call[c].doc
           q == issuers[e.issuer]
<1>1. /\ call[c].pc = "claim" /\ r \in Ref /\ guard \in [Ref -> Entries] /\ UNCHANGED issuers
      /\ e.issuer \in DOMAIN issuers /\ q \in Ref /\ q \in Mapped /\ e \in DOMAIN guard[q]
  BY CallStates DEF GuardClaim, Holding, IInv, TypeOK, InRecord, Mapped, Range
<1>2. CASE q # r
  BY <1>1, <1>2 DEF GuardClaim, Update, InRecord
<1>3. CASE q = r
  <2>1. e \in DOMAIN Live(c) /\ Outlives(r, c)
    BY <1>1, <1>3 DEF Live, Restrict, Outlives
  <2>2. ASSUME Verdict(c) = "fresh", NEW out \in Evicted(c),
               guard' = Update(r, c, Record(Restrict(Live(c), DOMAIN Live(c) \ out), d, InFlight))
        PROVE  e \in DOMAIN guard'[r]
    <3>1. Cardinality(DOMAIN Live(c)) \in Nat
      <4>1. DOMAIN Live(c) \subseteq Doc
        BY <1>1, EntriesAre DEF Live, Restrict
      <4>2. IsFiniteSet(DOMAIN Live(c))
        BY <4>1, ReplayAssumption, FS_Subset
      <4>3. QED
        BY <4>2, FS_CardinalityType
    <3>2. Cardinality(DOMAIN Live(c)) < Capacity
      BY <1>1, <2>2 DEF NeverEvicts, At
    <3>3. out = {}
      BY <2>2, <3>1, <3>2, ReplayAssumption DEF Evicted, Capacity
    <3>4. e \in DOMAIN Record(Restrict(Live(c), DOMAIN Live(c) \ out), d, InFlight)
      BY <2>1, <3>3 DEF Record, Restrict
    <3>5. QED
      BY <1>1, <2>1, <2>2, <3>4 DEF Update
  <2>3. ASSUME guard' = Update(r, c, Live(c)) PROVE e \in DOMAIN guard'[r]
    BY <1>1, <2>1, <2>3 DEF Update
  <2>4. e \in DOMAIN guard'[r]
    BY <2>2, <2>3 DEF GuardClaim
  <2>5. QED
    BY <1>1, <1>3, <2>4 DEF InRecord
<1>4. QED
  BY <1>2, <1>3

(* A claim comes out fresh only for a document that nobody holds and that has *)
(* not taken effect, and puts it in the record; or the document is lost.      *)
LEMMA FreshClaim ==
  ASSUME RInv, NeverEvicts, MaxLag < Margin, NEW c \in Call, GuardClaim(c),
         Verdict(c) = "fresh", call[c].ref \in Mapped,
         NEW d \in Doc \ lost, call[c].doc = d
  PROVE  /\ d \notin spent /\ \A b \in Call : ~Holds(call[b], d)
         /\ ~InRecord(d) /\ InRecord(d)'
<1> DEFINE r == call[c].ref
<1>1. /\ call[c].pc = "claim" /\ r \in Ref /\ d \in Doc /\ guard \in [Ref -> Entries]
      /\ UNCHANGED issuers /\ d.issuer \in DOMAIN issuers /\ issuers[d.issuer] = r
  BY CallStates DEF GuardClaim, Holding, RInv, IInv, TypeOK, Attached
<1>2. Retained(d, now) /\ Retained(d, call[c].at)
  BY <1>1, ClaimIsRetained DEF RInv, Claiming
<1>3. ~InRecord(d)
  <2>1. ASSUME InRecord(d) PROVE FALSE
    <3>1. d \in DOMAIN Live(c)
      BY <1>1, <1>2, <2>1 DEF InRecord, Live, Restrict
    <3>2. d \in Prior(c)
      BY <1>1, <3>1 DEF Prior, Twins
    <3>3. QED
      BY <3>2 DEF Verdict
  <2>2. QED
    BY <2>1
<1>4. d \notin spent /\ \A b \in Call : ~Holds(call[b], d)
  BY <1>1, <1>2, <1>3 DEF RInv, Remembered
<1>5. Outlives(r, c)
  BY DEF Outlives
<1>6. d \in DOMAIN guard'[r]
  <2>1. PICK out \in Evicted(c) :
          guard' = Update(r, c, Record(Restrict(Live(c), DOMAIN Live(c) \ out), d, InFlight))
    BY DEF GuardClaim
  <2>2. QED
    BY <1>1, <1>5, <2>1 DEF Update, Record
<1>7. QED
  BY <1>1, <1>3, <1>4, <1>6 DEF InRecord

LEMMA GuardClaimRemembers ==
  ASSUME RInv, NeverEvicts, MaxLag < Margin, NEW c \in Call, GuardClaim(c)
  PROVE  Timely' /\ Remembered' /\ Single'
<1> DEFINE d == call[c].doc
           fresh == [call[c] EXCEPT !.pc = "charge", !.ref = NoRef]
           s == IF Verdict(c) = "fresh" THEN fresh ELSE IdleCall
<1>1. /\ call[c].pc = "claim" /\ UNCHANGED <<now, issuers, spent>> /\ lost \subseteq lost'
      /\ call[c] \in CallState /\ d \in Doc /\ IInv /\ Timely
  BY CallStates DEF GuardClaim, RInv, IInv
<1>2. call' = [call EXCEPT ![c] = s]
  BY DEF GuardClaim, Return
<1>3. IdleCall.pc \notin Claiming /\ \A e : ~Holds(IdleCall, e)
  BY DEF IdleCall, Holds, Closing, Claiming
<1>4. fresh.pc = "charge" /\ fresh.doc = d /\ fresh.at = call[c].at
  BY <1>1 DEF CallState
<1>5. \A e : Holds(s, e) => e = d /\ Verdict(c) = "fresh"
  BY <1>3, <1>4 DEF Holds
<1>6. \/ s.pc \notin Claiming
      \/ call[c].pc \in Claiming /\ s.doc = d /\ s.at = call[c].at
  BY <1>1, <1>3, <1>4 DEF Claiming
<1> HIDE DEF s, fresh
<1>7. Timely'
  BY <1>1, <1>2, <1>6, TimelyStep
<1>8. \A b \in Call : call'[b] = IF b = c THEN s ELSE call[b]
  BY <1>1, <1>2 DEF IInv, TypeOK
<1>9. ASSUME NEW e \in Doc \ lost', Holds(s, e)
      PROVE  e = d /\ e \notin spent /\ (\A b \in Call : ~Holds(call[b], e)) /\ InRecord(e)'
  <2>1. Verdict(c) = "fresh" /\ e = d
    BY <1>5, <1>9
  <2>2. call[c].ref \in Mapped /\ e \in Doc \ lost
    BY <1>1, <1>9, <2>1 DEF GuardClaim
  <2>3. QED
    BY <2>1, <2>2, FreshClaim
<1>10. Remembered'
  <2>1. ASSUME NEW e \in Doc \ lost',
               e \in spent' \/ \E b \in Call : Holds(call'[b], e)
        PROVE  InRecord(e)' \/ ~Retained(e, now)
    <3>1. CASE e \in spent \/ \E b \in Call : Holds(call[b], e)
      <4>1. InRecord(e) \/ ~Retained(e, now)
        BY <1>1, <3>1 DEF RInv, Remembered
      <4>2. ASSUME InRecord(e), Retained(e, now) PROVE InRecord(e)'
        <5>1. call[c].at <= now /\ call[c].at \in Int /\ now \in Int
          BY <1>1, Times DEF Timely, Claiming
        <5>2. Retained(e, call[c].at)
          BY <4>2, <5>1, RetainedBefore
        <5>3. QED
          BY <1>1, <4>2, <5>2, ClaimLeaves
      <4>3. QED
        BY <4>1, <4>2
    <3>2. CASE Holds(s, e)
      BY <1>9, <3>2
    <3>3. QED
      BY <1>1, <1>8, <2>1, <3>1, <3>2
  <2>2. QED
    BY <1>1, <2>1 DEF Remembered
<1>11. Single'
  <2>1. ASSUME NEW e \in Doc \ lost', NEW b \in Call, Holds(call'[b], e)
        PROVE  e \notin spent' /\ \A a \in Call \ {b} : ~Holds(call'[a], e)
    <3>1. CASE b = c
      BY <1>1, <1>8, <1>9, <2>1, <3>1
    <3>2. CASE b # c
      <4>1. Holds(call[b], e)
        BY <1>8, <2>1, <3>2
      <4>2. e \notin spent /\ \A a \in Call \ {b} : ~Holds(call[a], e)
        BY <1>1, <4>1 DEF RInv, Single
      <4>3. ~Holds(s, e)
        BY <1>9, <4>1
      <4>4. QED
        BY <1>1, <1>8, <4>2, <4>3
    <3>3. QED
      BY <3>1, <3>2
  <2>2. QED
    BY <2>1 DEF Single
<1>12. QED
  BY <1>7, <1>10, <1>11

(* Closing a claim takes the call's own document from the record, and only if *)
(* it did not take effect.                                                    *)
LEMMA GuardCloseRemembers ==
  ASSUME RInv, NEW c \in Call, GuardClose(c) PROVE Timely' /\ Remembered' /\ Single'
<1> DEFINE r == call[c].ref
           d == call[c].doc
           resp == call[c].resp
<1>1. /\ call[c].pc = "close" /\ UNCHANGED <<now, issuers, spent, lost>> /\ r \in Ref /\ d \in Doc
      /\ guard \in [Ref -> Entries] /\ IInv /\ Timely
  BY CallStates DEF GuardClose, Holding, RInv, IInv, TypeOK
<1>2. call' = [call EXCEPT ![c] = IdleCall]
  BY DEF GuardClose, Return
<1>3. IdleCall.pc \notin Claiming /\ \A e : ~Holds(IdleCall, e)
  BY DEF IdleCall, Holds, Closing, Claiming
<1>4. Timely'
  BY <1>1, <1>2, <1>3, TimelyStep
<1>5. \A b \in Call : call'[b] = IF b = c THEN IdleCall ELSE call[b]
  BY <1>1, <1>2 DEF IInv, TypeOK
<1>6. ASSUME NEW e \in Doc, InRecord(e), e # d \/ resp # InFlight PROVE InRecord(e)'
  <2> DEFINE q == issuers[e.issuer]
  <2>1. q \in Mapped /\ q \in Ref /\ e.issuer \in DOMAIN issuers /\ e \in DOMAIN guard[q]
    BY <1>1, <1>6 DEF InRecord, Mapped, Range, IInv, TypeOK
  <2>2. CASE q # r
    BY <1>1, <2>1, <2>2 DEF GuardClose, Update, InRecord
  <2>3. CASE q = r
    <3>1. e \in DOMAIN Closed(guard[r], d, resp)
      BY <1>6, <2>1, <2>3 DEF Closed, Answered, Restrict
    <3>2. guard'[r] = Closed(guard[r], d, resp)
      BY <1>1, <2>1, <2>3 DEF GuardClose, Update, Outlives
    <3>3. QED
      BY <1>1, <2>1, <2>3, <3>1, <3>2 DEF InRecord
  <2>4. QED
    BY <2>2, <2>3
<1>7. Remembered'
  <2>1. ASSUME NEW e \in Doc \ lost, e \in spent \/ \E b \in Call : Holds(call'[b], e)
        PROVE  InRecord(e)' \/ ~Retained(e, now)
    <3>1. InRecord(e) \/ ~Retained(e, now)
      BY <1>3, <1>5, <2>1 DEF RInv, Remembered
    <3>2. ASSUME e = d, resp = InFlight PROVE FALSE
      <4>1. Holds(call[c], e)
        BY <1>1, <3>2 DEF Holds, Closing
      <4>2. e \notin spent /\ \A b \in Call \ {c} : ~Holds(call[b], e)
        BY <4>1 DEF RInv, Single
      <4>3. QED
        BY <1>3, <1>5, <2>1, <4>2
    <3>3. QED
      BY <1>6, <3>1, <3>2
  <2>2. QED
    BY <1>1, <2>1 DEF Remembered
<1>8. Single'
  BY <1>1, <1>3, <1>5 DEF RInv, Single
<1>9. QED
  BY <1>4, <1>7, <1>8
-----------------------------------------------------------------------------
LEMMA TickRemembers ==
  ASSUME RInv, Tick PROVE Timely' /\ Remembered' /\ Single'
<1>1. /\ UNCHANGED <<issuers, guard, call, spent, lost>> /\ now' = now + 1
      /\ now \in Int /\ now' \in Int /\ now <= now'
  BY Times DEF Tick, RInv
<1>2. Timely'
  <2>1. ASSUME NEW c \in Call, call[c].pc \in Claiming
        PROVE  /\ Fresh(call[c].doc, call[c].at)
               /\ call[c].at <= now' /\ now' <= call[c].at + MaxLag
    <3>1. Fresh(call[c].doc, call[c].at) /\ call[c].at <= now
      BY <2>1 DEF RInv, Timely
    <3>2. now - call[c].at < MaxLag
      BY <2>1 DEF Tick, At
    <3>3. call[c].at \in Int /\ MaxLag \in Int
      BY Times, ReplayAssumption DEF RInv
    <3>4. QED
      BY <1>1, <3>1, <3>2, <3>3
  <2>2. QED
    BY <1>1, <2>1 DEF Timely
<1>3. \A d \in Doc : Retained(d, now') => Retained(d, now)
  BY <1>1, RetainedBefore
<1>4. Remembered'
  BY <1>1, <1>3 DEF RInv, Remembered, InRecord
<1>5. Single'
  BY <1>1 DEF RInv, Single
<1>6. QED
  BY <1>2, <1>4, <1>5

LEMMA RestartRemembers ==
  ASSUME RInv, Restart PROVE Timely' /\ Remembered' /\ Single'
<1>1. \A c \in Call : call'[c].pc = "idle"
  BY DEF Restart, IdleCall
<1>2. \A c \in Call : \A d : ~Holds(call'[c], d)
  BY <1>1 DEF Holds, Closing
<1>3. spent' \subseteq lost'
  BY DEF Restart
<1>4. QED
  BY <1>1, <1>2, <1>3 DEF Timely, Remembered, Single, Claiming

LEMMA RInvKept ==
  ASSUME RInv, NeverEvicts, MaxLag < Margin, [Next]_vars PROVE RInv'
<1>1. IInv'
  BY InvariantKept DEF RInv
<1>2. CASE UNCHANGED vars
  BY <1>1, <1>2 DEF vars, RInv, Timely, Remembered, Single, InRecord
<1>3. ASSUME NEW c \in Call, ClaimStep(c) PROVE Timely' /\ Remembered' /\ Single'
  BY <1>3, PartitionRemembers, GuardClaimRemembers, CallRemembers DEF ClaimStep
<1>4. ASSUME NEW c \in Call, CloseStep(c) PROVE Timely' /\ Remembered' /\ Single'
  BY <1>4, CallRemembers, GuardCloseRemembers DEF CloseStep
<1>5. ASSUME NEW c \in Call,
             \/ \E d \in Doc : Receive(c, d)
             \/ \E resp \in Response : Succeed(c, resp)
             \/ Refuse(c) \/ Fail(c) \/ Abandon(c)
      PROVE  Timely' /\ Remembered' /\ Single'
  BY <1>5, CallRemembers
<1>6. QED
  BY <1>1, <1>2, <1>3, <1>4, <1>5, TickRemembers, RestartRemembers DEF Next, RInv
-----------------------------------------------------------------------------
(* The variables of OnceOnly. *)
By(d)        == {c \in Executing : call[c].doc = d}
executingBar == [d \in Doc |-> IF d \in lost THEN {} ELSE By(d)]
spentBar     == spent \ lost

Stutter  == UNCHANGED <<executingBar, spentBar, lost>>
OnceStep == Once!Next \/ Stutter

LEMMA IsExecuting ==
  ASSUME NEW c \in Call PROVE c \in Executing <=> call[c].pc \in {"charge", "admitted"}
BY DEF Executing, At

(* A call that executes nothing before or after its step is a stutter. *)
LEMMA StutterStep ==
  ASSUME IInv, NEW c \in Call, NEW s, call' = [call EXCEPT ![c] = s], UNCHANGED <<spent, lost>>,
         \/ call[c].pc \notin {"charge", "admitted"} /\ s.pc \notin {"charge", "admitted"}
         \/ call[c].pc = "charge" /\ s.pc = "admitted" /\ s.doc = call[c].doc
  PROVE  Stutter
<1>1. \A b \in Call : call'[b] = IF b = c THEN s ELSE call[b]
  BY DEF IInv, TypeOK
<1>2. \A d : By(d)' = By(d)
  BY <1>1 DEF By, Executing, At
<1>3. QED
  BY <1>2 DEF Stutter, executingBar, spentBar

(* A call that leaves its execution behind finishes or undoes it, or the      *)
(* document was lost and OnceOnly says nothing of it.                         *)
LEMMA LeaveStep ==
  ASSUME IInv, NEW c \in Call, NEW s, call' = [call EXCEPT ![c] = s], UNCHANGED lost,
         call[c].pc = "admitted", s.pc \notin {"charge", "admitted"},
         UNCHANGED spent \/ spent' = spent \cup {call[c].doc}
  PROVE  OnceStep
<1> DEFINE d == call[c].doc
<1>1. d \in Doc /\ \A b \in Call : call'[b] = IF b = c THEN s ELSE call[b]
  BY CallStates DEF IInv, TypeOK
<1>2. c \in Executing /\ c \notin Executing'
  BY <1>1 DEF Executing, At
<1>3. \A e : By(e)' = By(e) \ {c}
  BY <1>1 DEF By, Executing, At
<1>4. \A e : e # d => By(e)' = By(e)
  BY <1>3 DEF By
<1>5. CASE d \in lost
  <2>1. executingBar' = executingBar
    BY <1>4, <1>5 DEF executingBar
  <2>2. spentBar' = spentBar
    BY <1>5 DEF spentBar
  <2>3. QED
    BY <2>1, <2>2 DEF OnceStep, Stutter
<1>6. CASE d \notin lost
  <2>1. executingBar' = [executingBar EXCEPT ![d] = executingBar[d] \ {c}]
    BY <1>1, <1>3, <1>4, <1>6 DEF executingBar
  <2>2. c \in executingBar[d]
    BY <1>1, <1>2, <1>6 DEF executingBar, By
  <2>3. CASE UNCHANGED spent
    BY <1>1, <1>6, <2>1, <2>2, <2>3 DEF OnceStep, Once!Next, Once!Undo, executingBar, By, spentBar
  <2>4. CASE spent' = spent \cup {d}
    <3>1. spentBar' = spentBar \cup {d}
      BY <1>6, <2>4 DEF spentBar
    <3>2. QED
      BY <1>1, <1>6, <2>1, <2>2, <3>1 DEF OnceStep, Once!Next, Once!Finish, executingBar, By, spentBar
  <2>5. QED
    BY <2>3, <2>4
<1>7. QED
  BY <1>5, <1>6

LEMMA ClaimIsOnce ==
  ASSUME RInv, NeverEvicts, MaxLag < Margin, NEW c \in Call, GuardClaim(c)
  PROVE  OnceStep
<1> DEFINE d == call[c].doc
           s == [call[c] EXCEPT !.pc = "charge", !.ref = NoRef]
<1>1. call[c].pc = "claim" /\ UNCHANGED spent /\ call[c] \in CallState /\ d \in Doc /\ IInv
  BY CallStates DEF GuardClaim, RInv, IInv
<1>2. CASE Verdict(c) # "fresh"
  <2>1. Return(c) /\ UNCHANGED lost /\ IdleCall.pc = "idle"
    BY <1>2 DEF GuardClaim, IdleCall
  <2>2. QED
    BY <1>1, <2>1, StutterStep DEF Return, OnceStep
<1>3. CASE Verdict(c) = "fresh"
  <2>1. /\ call' = [call EXCEPT ![c] = s]
        /\ lost' = IF call[c].ref \in Mapped THEN lost ELSE lost \cup {d}
    BY <1>3 DEF GuardClaim
  <2>2. s.pc = "charge" /\ s.doc = d
    BY <1>1 DEF CallState
  <2> HIDE DEF s
  <2>3. \A b \in Call : call'[b] = IF b = c THEN s ELSE call[b]
    BY <1>1, <2>1 DEF IInv, TypeOK
  <2>4. \A e : By(e)' = By(e) \cup (IF e = d THEN {c} ELSE {})
    BY <1>1, <2>2, <2>3 DEF By, Executing, At
  <2>5. CASE d \in lost
    <3>1. lost' = lost
      BY <2>1, <2>5
    <3>2. executingBar' = executingBar
      BY <2>4, <2>5, <3>1 DEF executingBar
    <3>3. QED
      BY <1>1, <3>1, <3>2 DEF OnceStep, Stutter, spentBar
  <2>6. CASE d \notin lost /\ call[c].ref \in Mapped
    <3>1. d \notin spent /\ \A b \in Call : ~Holds(call[b], d)
      BY <1>1, <1>3, <2>6, FreshClaim
    <3>2. executingBar[d] = {}
      BY <1>1, <3>1 DEF executingBar, By, Executing, At, Holds
    <3>3. lost' = lost
      BY <2>1, <2>6
    <3>4. executingBar' = [executingBar EXCEPT ![d] = {c}]
      <4>1. By(d) = {}
        BY <1>1, <2>6, <3>2 DEF executingBar
      <4>2. QED
        BY <1>1, <2>4, <2>6, <3>3, <4>1 DEF executingBar
    <3>5. QED
      BY <1>1, <2>6, <3>1, <3>2, <3>3, <3>4
         DEF OnceStep, Once!Next, Once!Start, executingBar, By, spentBar
  <2>7. CASE d \notin lost /\ call[c].ref \notin Mapped
    <3>1. lost' = lost \cup {d}
      BY <2>1, <2>7
    <3>2. executingBar' = [e \in Doc |-> IF e \in {d} THEN {} ELSE executingBar[e]]
      BY <2>4, <3>1 DEF executingBar
    <3>3. spentBar' = spentBar \ {d}
      BY <1>1, <3>1 DEF spentBar
    <3>4. {d} # {} /\ {d} \in SUBSET (Doc \ lost)
      BY <1>1, <2>7
    <3>5. QED
      BY <3>1, <3>2, <3>3, <3>4 DEF OnceStep, Once!Next, Once!Lose, executingBar, By, spentBar
  <2>8. QED
    BY <2>5, <2>6, <2>7
<1>4. QED
  BY <1>2, <1>3

LEMMA RestartIsOnce ==
  ASSUME RInv, Restart PROVE OnceStep
<1> DEFINE D == lost' \ lost
<1>1. lost' = lost \cup spent' \cup {call[c].doc : c \in Executing} /\ spent \subseteq spent'
  BY DEF Restart
<1>2. lost' \subseteq Doc
  BY RestartKeeps DEF RInv, IInv, TypeOK
<1>3. \A c \in Call : call'[c].pc = "idle"
  BY DEF Restart, IdleCall
<1>4. executingBar' = [d \in Doc |-> {}]
  BY <1>3 DEF executingBar, By, Executing, At
<1>5. \A d \in Doc \ D : executingBar[d] = {}
  BY <1>1 DEF executingBar, By
<1>6. spentBar' = {} /\ spentBar \subseteq D /\ lost' = lost \cup D
  BY <1>1 DEF spentBar
<1>7. executingBar' = [d \in Doc |-> IF d \in D THEN {} ELSE executingBar[d]]
  BY <1>4, <1>5
<1>8. CASE D = {}
  <2>1. executingBar = [d \in Doc |-> executingBar[d]]
    BY DEF executingBar
  <2>2. executingBar' = executingBar /\ spentBar' = spentBar /\ lost' = lost
    BY <1>6, <1>7, <1>8, <2>1
  <2>3. QED
    BY <2>2 DEF OnceStep, Stutter
<1>9. CASE D # {}
  <2>1. D \in SUBSET (Doc \ lost) /\ spentBar' = spentBar \ D
    BY <1>2, <1>6
  <2> HIDE DEF D
  <2>2. QED
    BY <1>6, <1>7, <1>9, <2>1 DEF OnceStep, Once!Next, Once!Lose, executingBar, By, spentBar
<1>10. QED
  BY <1>8, <1>9
-----------------------------------------------------------------------------
(* The steps that leave executions alone. *)
LEMMA OtherStutters ==
  ASSUME IInv, NEW c \in Call,
         \/ \E d \in Doc : Receive(c, d)
         \/ Refuse(c) \/ Partition(c) \/ Charge(c) \/ CloseStep(c)
  PROVE  Stutter
<1>1. call[c] \in CallState /\ UNCHANGED <<spent, lost>>
  BY CallStates DEF IInv, Receive, Refuse, Partition, Charge, CloseStep, Uncharge, Lookup, GuardClose
<1>2. IdleCall.pc = "idle"
  BY DEF IdleCall
<1>3. CASE Charge(c)
  <2> DEFINE s == [call[c] EXCEPT !.pc = "admitted", !.at = 0]
  <2>1. s.pc = "admitted" /\ s.doc = call[c].doc /\ call[c].pc = "charge"
    BY <1>1, <1>3 DEF CallState, Charge
  <2>2. call' = [call EXCEPT ![c] = s]
    BY <1>3 DEF Charge
  <2> HIDE DEF s
  <2>3. QED
    BY <1>1, <2>1, <2>2, StutterStep
<1>4. ASSUME NEW s, call' = [call EXCEPT ![c] = s], s.pc \notin {"charge", "admitted"},
             call[c].pc \notin {"charge", "admitted"}
      PROVE  Stutter
  BY <1>1, <1>4, StutterStep
<1>5. ASSUME Return(c), call[c].pc \notin {"charge", "admitted"} PROVE Stutter
  BY <1>2, <1>4, <1>5 DEF Return
<1>6. ASSUME NEW d \in Doc, Receive(c, d) PROVE Stutter
  <2>1. [IdleCall EXCEPT !.pc = "admitting", !.doc = d, !.at = now].pc = "admitting"
    BY DEF IdleCall
  <2>2. QED
    BY <1>4, <1>6, <2>1 DEF Receive
<1>7. CASE Partition(c)
  <2>1. ASSUME NEW r, call' = [call EXCEPT ![c].pc = "claim", ![c].ref = r]
        PROVE  /\ call' = [call EXCEPT ![c] = [call[c] EXCEPT !.pc = "claim", !.ref = r]]
               /\ [call[c] EXCEPT !.pc = "claim", !.ref = r].pc = "claim"
    BY <1>1, <2>1 DEF CallState
  <2>2. Return(c) \/ \E r : call' = [call EXCEPT ![c].pc = "claim", ![c].ref = r]
    BY <1>7 DEF Partition
  <2>3. call[c].pc = "admitting"
    BY <1>7 DEF Partition
  <2>4. QED
    BY <1>4, <1>5, <2>1, <2>2, <2>3
<1>8. CASE Uncharge(c)
  <2>1. /\ call' = [call EXCEPT ![c] = [call[c] EXCEPT !.pc = "lookup"]]
        /\ [call[c] EXCEPT !.pc = "lookup"].pc = "lookup" /\ call[c].pc = "uncharge"
    BY <1>1, <1>8 DEF Uncharge, Goto, CallState
  <2>2. QED
    BY <1>4, <2>1
<1>9. CASE Lookup(c)
  <2> DEFINE s == [call[c] EXCEPT !.pc = "close", !.ref = issuers[call[c].doc.issuer]]
  <2>1. s.pc = "close" /\ call[c].pc = "lookup"
    BY <1>1, <1>9 DEF Lookup, CallState
  <2>2. Return(c) \/ call' = [call EXCEPT ![c] = s]
    BY <1>9 DEF Lookup
  <2> HIDE DEF s
  <2>3. QED
    BY <1>4, <1>5, <2>1, <2>2
<1>10. CASE GuardClose(c)
  BY <1>5, <1>10 DEF GuardClose
<1>11. CASE Refuse(c)
  BY <1>5, <1>11 DEF Refuse
<1>12. QED
  BY <1>3, <1>6, <1>7, <1>8, <1>9, <1>10, <1>11 DEF CloseStep

LEMMA EffectIsOnce ==
  ASSUME IInv, NEW c \in Call,
         (\E resp \in Response : Succeed(c, resp)) \/ Fail(c) \/ Abandon(c)
  PROVE  OnceStep
<1>1. /\ call[c] \in CallState /\ UNCHANGED lost /\ call[c].pc = "admitted"
      /\ UNCHANGED spent \/ spent' = spent \cup {call[c].doc}
  BY CallStates DEF IInv, Succeed, Fail, Abandon
<1>2. ASSUME NEW resp, NEW pc \in {"uncharge", "lookup"}, Close(c, resp, pc) PROVE OnceStep
  <2> DEFINE s == [call[c] EXCEPT !.pc = pc, !.resp = resp]
  <2>1. s.pc = pc /\ call' = [call EXCEPT ![c] = s]
    BY <1>1, <1>2 DEF Close, CallState
  <2> HIDE DEF s
  <2>2. QED
    BY <1>1, <2>1, LeaveStep
<1>3. ASSUME Return(c) PROVE OnceStep
  <2>1. IdleCall.pc = "idle"
    BY DEF IdleCall
  <2>2. QED
    BY <1>1, <1>3, <2>1, LeaveStep DEF Return
<1>4. QED
  BY <1>2, <1>3 DEF Succeed, Fail, Abandon

LEMMA StepIsOnce ==
  ASSUME RInv, NeverEvicts, MaxLag < Margin, [Next]_vars PROVE OnceStep
<1>1. IInv
  BY DEF RInv
<1>2. CASE UNCHANGED vars \/ Tick
  BY <1>2 DEF vars, Tick, OnceStep, Stutter, executingBar, spentBar, By, Executing, At
<1>3. ASSUME NEW c \in Call, ClaimStep(c) \/ CloseStep(c) PROVE OnceStep
  BY <1>1, <1>3, OtherStutters, ClaimIsOnce DEF ClaimStep, OnceStep
<1>4. ASSUME NEW c \in Call, Refuse(c) \/ \E d \in Doc : Receive(c, d) PROVE OnceStep
  BY <1>1, <1>4, OtherStutters DEF OnceStep
<1>5. ASSUME NEW c \in Call, (\E resp \in Response : Succeed(c, resp)) \/ Fail(c) \/ Abandon(c)
      PROVE  OnceStep
  BY <1>1, <1>5, EffectIsOnce
<1>6. QED
  BY <1>2, <1>3, <1>4, <1>5, RestartIsOnce DEF Next

LEMMA AlwaysRemembered ==
  ASSUME MaxLag < Margin
  PROVE  Spec /\ []NeverEvicts => []RInv
<1>1. Init => RInv
  <2>1. ASSUME Init PROVE /\ IInv /\ spent = {} /\ \A c \in Call : call[c].pc = "idle"
    BY <2>1, InitHolds DEF Init, IdleCall
  <2>2. QED
    BY <2>1 DEF RInv, Timely, Remembered, Single, Holds, Claiming, Closing
<1>2. RInv /\ NeverEvicts /\ [Next]_vars => RInv'
  BY RInvKept
<1>3. QED
  BY <1>1, <1>2, PTL DEF Spec

(* The replay record executes no document twice: when a call is preempted     *)
(* inside claim for less than the retention margin, and no guard evicts a     *)
(* live entry, Replay implements OnceOnly for every document it has not lost  *)
(* - for any callers, documents, workers, budgets and interleavings           *)
(* (README, "A second delivery of an accepted document is ... not executed    *)
(* again"; intake.rs, RETENTION_MARGIN).                                      *)
THEOREM RecordImplementsOnceOnly ==
  ASSUME MaxLag < Margin
  PROVE  Spec /\ []NeverEvicts => ImplementsOnceOnly
<1>1. Init => Once!Init
  BY DEF Init, Once!Init, Executing, At, IdleCall
<1>2. RInv /\ NeverEvicts /\ [Next]_vars
        => [Once!Next]_<<executingBar, spentBar, lost>>
  BY StepIsOnce DEF OnceStep, Stutter
<1>3. QED
  BY <1>1, <1>2, AlwaysRemembered, PTL
     DEF Spec, ImplementsOnceOnly, Once!Spec, executingBar, spentBar, By
-----------------------------------------------------------------------------
(* The inductive invariant behind IdsConflict: of two documents under one     *)
(* identifier that are both retained, at most one is held or took effect.     *)
Known(d) == d \in spent \/ \E c \in Call : Holds(call[c], d)

Apart ==
  \A d \in Doc \ lost : \A e \in Twins(d) \ {d} :
    e \notin lost /\ Retained(d, now) /\ Retained(e, now) => ~(Known(d) /\ Known(e))

(* Only a claim makes a document known that was not. *)
LEMMA OthersKnowNoMore ==
  ASSUME IInv, NEW c \in Call,
         \/ \E d \in Doc : Receive(c, d)
         \/ \E resp \in Response : Succeed(c, resp)
         \/ Refuse(c) \/ Partition(c) \/ Charge(c) \/ Fail(c) \/ Abandon(c) \/ CloseStep(c)
         \/ GuardClaim(c) /\ Verdict(c) # "fresh",
         NEW d, Known(d)'
  PROVE  Known(d)
<1>1. call[c] \in CallState /\ call \in [Call -> CallState]
  BY CallStates DEF IInv, TypeOK
<1>2. IdleCall.pc = "idle" /\ \A e : ~Holds(IdleCall, e)
  BY DEF IdleCall, Holds, Closing
<1>3. ASSUME NEW s, call' = [call EXCEPT ![c] = s],
             Holds(s, d) => Holds(call[c], d),
             d \in spent' => d \in spent \/ Holds(call[c], d)
      PROVE  Known(d)
  <2>1. \A b \in Call : call'[b] = IF b = c THEN s ELSE call[b]
    BY <1>1, <1>3
  <2>2. QED
    BY <1>3, <2>1 DEF Known
<1>4. ASSUME Return(c), \/ UNCHANGED spent
                        \/ spent' = spent \cup {call[c].doc} /\ call[c].pc = "admitted"
      PROVE  Known(d)
  BY <1>2, <1>3, <1>4 DEF Return, Holds
<1>5. ASSUME NEW e \in Doc, Receive(c, e) PROVE Known(d)
  <2> DEFINE s == [IdleCall EXCEPT !.pc = "admitting", !.doc = e, !.at = now]
  <2>1. s.pc = "admitting" /\ call' = [call EXCEPT ![c] = s] /\ UNCHANGED spent
    BY <1>5 DEF Receive, IdleCall
  <2> HIDE DEF s
  <2>2. QED
    BY <1>3, <2>1 DEF Holds, Closing
<1>6. ASSUME NEW resp \in Response, Succeed(c, resp) PROVE Known(d)
  <2> DEFINE s == [call[c] EXCEPT !.pc = "lookup", !.resp = resp]
  <2>1. /\ s.pc = "lookup" /\ s.resp # InFlight /\ call' = [call EXCEPT ![c] = s]
        /\ call[c].pc = "admitted" /\ spent' = spent \cup {call[c].doc}
    BY <1>1, <1>6, ReplayAssumption DEF Succeed, Close, CallState
  <2> HIDE DEF s
  <2>2. QED
    BY <1>3, <2>1 DEF Holds, Closing
<1>7. CASE Partition(c)
  <2>1. CASE Return(c)
    BY <1>4, <1>7, <2>1 DEF Partition
  <2>2. CASE ~Return(c)
    <3>1. PICK r : call' = [call EXCEPT ![c].pc = "claim", ![c].ref = r]
      BY <1>7, <2>2 DEF Partition
    <3> DEFINE s == [call[c] EXCEPT !.pc = "claim", !.ref = r]
    <3>2. s.pc = "claim" /\ call' = [call EXCEPT ![c] = s] /\ UNCHANGED spent
      BY <1>1, <1>7, <3>1 DEF CallState, Partition
    <3> HIDE DEF s
    <3>3. QED
      BY <1>3, <3>2 DEF Holds, Closing
  <2>3. QED
    BY <2>1, <2>2
<1>8. CASE Charge(c)
  <2> DEFINE s == [call[c] EXCEPT !.pc = "admitted", !.at = 0]
  <2>1. /\ s.pc = "admitted" /\ s.doc = call[c].doc /\ call[c].pc = "charge"
        /\ call' = [call EXCEPT ![c] = s] /\ UNCHANGED spent
    BY <1>1, <1>8 DEF CallState, Charge
  <2> HIDE DEF s
  <2>2. QED
    BY <1>3, <2>1 DEF Holds, Closing
<1>9. CASE Fail(c)
  <2> DEFINE s == [call[c] EXCEPT !.pc = "uncharge", !.resp = InFlight]
  <2>1. /\ s.pc = "uncharge" /\ s.doc = call[c].doc /\ call[c].pc = "admitted"
        /\ call' = [call EXCEPT ![c] = s] /\ UNCHANGED spent
    BY <1>1, <1>9 DEF CallState, Fail, Close
  <2> HIDE DEF s
  <2>2. QED
    BY <1>3, <2>1 DEF Holds, Closing
<1>10. CASE Uncharge(c)
  <2> DEFINE s == [call[c] EXCEPT !.pc = "lookup"]
  <2>1. /\ s.pc = "lookup" /\ s.doc = call[c].doc /\ s.resp = call[c].resp
        /\ call[c].pc = "uncharge" /\ call' = [call EXCEPT ![c] = s] /\ UNCHANGED spent
    BY <1>1, <1>10 DEF CallState, Uncharge, Goto
  <2> HIDE DEF s
  <2>2. QED
    BY <1>3, <2>1 DEF Holds, Closing
<1>11. CASE Lookup(c)
  <2> DEFINE s == [call[c] EXCEPT !.pc = "close", !.ref = issuers[call[c].doc.issuer]]
  <2>1. /\ s.pc = "close" /\ s.doc = call[c].doc /\ s.resp = call[c].resp
        /\ call[c].pc = "lookup" /\ UNCHANGED spent
        /\ Return(c) \/ call' = [call EXCEPT ![c] = s]
    BY <1>1, <1>11 DEF CallState, Lookup
  <2> HIDE DEF s
  <2>2. QED
    BY <1>3, <1>4, <2>1 DEF Holds, Closing
<1>12. CASE Refuse(c) \/ Abandon(c) \/ GuardClose(c) \/ (GuardClaim(c) /\ Verdict(c) # "fresh")
  BY <1>4, <1>12 DEF Refuse, Abandon, GuardClose, GuardClaim
<1>13. QED
  BY <1>5, <1>6, <1>7, <1>8, <1>9, <1>10, <1>11, <1>12 DEF CloseStep

(* A claim that goes through leaves no retained document of its identifier    *)
(* known beside its own: the guard would have reported a conflict.            *)
LEMMA FreshHasNoTwin ==
  ASSUME RInv, NEW c \in Call, GuardClaim(c), Verdict(c) = "fresh", call[c].ref \in Mapped,
         NEW e \in Twins(call[c].doc), e \notin lost, Retained(e, now)
  PROVE  ~Known(e)
<1> DEFINE r == call[c].ref
           d == call[c].doc
<1>1. /\ call[c].pc = "claim" /\ d \in Doc /\ e \in Doc /\ e.issuer = d.issuer
      /\ d.issuer \in DOMAIN issuers /\ issuers[d.issuer] = r
  BY CallStates DEF GuardClaim, RInv, IInv, Attached, Twins
<1>2. call[c].at <= now /\ call[c].at \in Int /\ now \in Int
  BY <1>1, Times DEF RInv, Timely, Claiming
<1>3. Retained(e, call[c].at)
  BY <1>1, <1>2, RetainedBefore
<1>4. ~InRecord(e)
  <2>1. ASSUME InRecord(e) PROVE FALSE
    <3>1. e \in Prior(c)
      BY <1>1, <1>3, <2>1 DEF InRecord, Live, Restrict, Prior
    <3>2. QED
      BY <3>1 DEF Verdict
  <2>2. QED
    BY <2>1
<1>5. QED
  BY <1>1, <1>4 DEF Known, RInv, Remembered

LEMMA ApartKept ==
  ASSUME RInv, Apart, [Next]_vars PROVE Apart'
<1> SUFFICES ASSUME NEW d \in Doc \ lost', NEW e \in Twins(d) \ {d},
                    e \notin lost', Retained(d, now'), Retained(e, now'),
                    Known(d)', Known(e)'
             PROVE  FALSE
  BY DEF Apart
<1>1. IInv /\ d \in Twins(e) /\ e \in Doc
  BY DEF RInv, Twins
<1>2. lost \subseteq lost'
  BY DEF Next, ClaimStep, CloseStep, Receive, Refuse, Partition, GuardClaim, Charge, Succeed,
         Fail, Abandon, Uncharge, Lookup, GuardClose, Tick, Restart, vars
<1>3. CASE Restart
  <2>1. spent' \subseteq lost' /\ \A c \in Call : call'[c].pc = "idle"
    BY <1>3 DEF Restart, IdleCall
  <2>2. QED
    BY <2>1 DEF Known, Holds, Closing
<1>4. CASE ~Restart
  <2>1. now \in Int /\ now' \in Int /\ now <= now'
    <3>1. now' = now \/ now' = now + 1
      BY <1>4 DEF Next, ClaimStep, CloseStep, Receive, Refuse, Partition, GuardClaim, Charge,
         Succeed, Fail, Abandon, Uncharge, Lookup, GuardClose, Tick, vars
    <3>2. QED
      BY <1>1, <3>1, Times
  <2>2. Retained(d, now) /\ Retained(e, now)
    BY <1>1, <2>1, RetainedBefore
  <2>3. ~(Known(d) /\ Known(e))
    BY <1>2, <2>2 DEF Apart
  <2>4. CASE Tick \/ UNCHANGED vars
    BY <2>3, <2>4 DEF Tick, vars, Known
  <2>5. ASSUME NEW c \in Call, GuardClaim(c), Verdict(c) = "fresh" PROVE FALSE
    <3> DEFINE a == call[c].doc
               s == [call[c] EXCEPT !.pc = "charge", !.ref = NoRef]
    <3>1. /\ call[c] \in CallState /\ a \in Doc /\ UNCHANGED spent
          /\ s.pc = "charge" /\ s.doc = a /\ call' = [call EXCEPT ![c] = s]
          /\ call[c].ref \notin Mapped => a \in lost'
      BY <1>1, <2>5, CallStates DEF GuardClaim, IInv, CallState
    <3> HIDE DEF s
    <3>2. \A b \in Call : call'[b] = IF b = c THEN s ELSE call[b]
      BY <1>1, <3>1 DEF IInv, TypeOK
    <3>3. \A f : Known(f)' => Known(f) \/ f = a
      BY <3>1, <3>2 DEF Known, Holds
    <3>4. CASE d = a
      BY <1>1, <1>2, <2>2, <2>5, <3>1, <3>3, <3>4, FreshHasNoTwin
    <3>5. CASE e = a
      BY <1>1, <1>2, <2>2, <2>5, <3>1, <3>3, <3>5, FreshHasNoTwin
    <3>6. QED
      BY <2>3, <3>3, <3>4, <3>5
  <2>6. ASSUME NEW c \in Call,
               \/ \E f \in Doc : Receive(c, f)
               \/ \E resp \in Response : Succeed(c, resp)
               \/ Refuse(c) \/ Partition(c) \/ Charge(c) \/ Fail(c) \/ Abandon(c) \/ CloseStep(c)
               \/ GuardClaim(c) /\ Verdict(c) # "fresh"
        PROVE  FALSE
    BY <1>1, <2>3, <2>6, OthersKnowNoMore
  <2>7. QED
    BY <1>4, <2>4, <2>5, <2>6 DEF Next, ClaimStep
<1>5. QED
  BY <1>3, <1>4

(* A second document under an identifier its issuer already used is not       *)
(* executed while the first is retained - for any callers, budgets and        *)
(* interleavings, when a call is preempted for less than the margin and no    *)
(* guard evicts (intake.rs, "a different document under the same issuer's     *)
(* accepted id gets idConflict").                                             *)
THEOREM SecondUseOfAnIdConflicts ==
  ASSUME MaxLag < Margin
  PROVE  Spec /\ []NeverEvicts => []IdsConflict
<1>1. Init => RInv /\ Apart
  <2>1. ASSUME Init PROVE /\ IInv /\ spent = {} /\ \A c \in Call : call[c].pc = "idle"
    BY <2>1, InitHolds DEF Init, IdleCall
  <2>2. QED
    BY <2>1 DEF RInv, Timely, Remembered, Single, Apart, Known, Holds, Claiming, Closing
<1>2. RInv /\ Apart /\ NeverEvicts /\ [Next]_vars => RInv' /\ Apart'
  BY RInvKept, ApartKept
<1>3. RInv /\ Apart => IdsConflict
  <2> SUFFICES ASSUME RInv, Apart, NEW c \in Executing,
                      NEW e \in Twins(call[c].doc) \ {call[c].doc},
                      Retained(e, now), Retained(call[c].doc, now),
                      {e, call[c].doc} \cap lost = {}
               PROVE  e \notin spent /\ \A b \in Executing : call[b].doc # e
    BY DEF IdsConflict
  <2>1. /\ c \in Call /\ Holds(call[c], call[c].doc)
        /\ \A b \in Executing : b \in Call /\ Holds(call[b], call[b].doc)
    BY DEF Executing, At, Holds
  <2>2. call[c].doc \in Doc \ lost
    BY <2>1, CallStates, IsExecuting DEF RInv, IInv
  <2>3. ~Known(e)
    BY <2>1, <2>2 DEF Apart, Known
  <2>4. QED
    BY <2>1, <2>3 DEF Known
<1>4. QED
  BY <1>1, <1>2, <1>3, PTL DEF Spec
-----------------------------------------------------------------------------
(* The inductive invariant behind ChargesMatchEntries.  A call settles a      *)
(* document between its claim and its charge, and between dropping the charge *)
(* and releasing the claim.  At any other time the document is charged once   *)
(* if it is in the record, unless a twin's release dropped its charge, and    *)
(* not at all if it is not.                                                   *)
Settling(s, d) ==
  /\ s.doc = d
  /\ \/ s.pc = "charge"
     \/ s.pc \in {"lookup", "close"} /\ s.resp = InFlight

Booked(d) ==
  /\ \/ charges[d] = 0
     \/ charges[d] = 1 /\ InRecord(d) /\ \A c \in Call : ~Settling(call[c], d)
  /\ Twins(d) = {d} /\ InRecord(d) /\ charges[d] = 0 => \E c \in Call : Settling(call[c], d)
  /\ \A c \in Call : call[c].pc = "close" /\ Holds(call[c], d) => call[c].ref \in Mapped

Books   == \A d \in Doc \ lost : Retained(d, now) => Booked(d)
Undoing == \A c \in Call : call[c].pc = "uncharge" => call[c].resp = InFlight

LEMMA SettlingHolds ==
  ASSUME NEW s, NEW d, Settling(s, d) PROVE Holds(s, d)
BY DEF Settling, Holds, Closing

(* Only Fail makes a call undo its charge, and Uncharge ends it. *)
LEMMA UndoingKept ==
  ASSUME IInv, Undoing, [Next]_vars PROVE Undoing'
<1>1. CASE UNCHANGED vars \/ Tick
  BY <1>1 DEF vars, Tick, Undoing
<1>2. CASE Restart
  BY <1>2 DEF Restart, Undoing, IdleCall
<1>3. ASSUME NEW c \in Call, NEW s, call' = [call EXCEPT ![c] = s],
             s.pc = "uncharge" => s.resp = InFlight
      PROVE  Undoing'
  <2>1. \A b \in Call : call'[b] = IF b = c THEN s ELSE call[b]
    BY <1>3 DEF IInv, TypeOK
  <2>2. QED
    BY <1>3, <2>1 DEF Undoing
<1>4. ASSUME NEW c \in Call, Return(c) PROVE Undoing'
  <2>1. IdleCall.pc = "idle"
    BY DEF IdleCall
  <2>2. QED
    BY <1>3, <1>4, <2>1 DEF Return
<1>5. ASSUME NEW c \in Call, NEW resp, NEW pc, Close(c, resp, pc),
             pc = "uncharge" => resp = InFlight
      PROVE  Undoing'
  <2> DEFINE s == [call[c] EXCEPT !.pc = pc, !.resp = resp]
  <2>1. s.pc = pc /\ s.resp = resp /\ call' = [call EXCEPT ![c] = s]
    BY <1>5, CallStates DEF Close, CallState, IInv
  <2> HIDE DEF s
  <2>2. QED
    BY <1>3, <1>5, <2>1
<1>6. ASSUME NEW c \in Call, NEW s, call' = [call EXCEPT ![c] = s], s.pc # "uncharge"
      PROVE  Undoing'
  BY <1>3, <1>6
<1>7. ASSUME NEW c \in Call, NEW d \in Doc, Receive(c, d) PROVE Undoing'
  BY <1>6, <1>7, [IdleCall EXCEPT !.pc = "admitting", !.doc = d, !.at = now].pc = "admitting"
     DEF Receive, IdleCall
<1>8. ASSUME NEW c \in Call, Partition(c) PROVE Undoing'
  <2>1. PICK r : Return(c) \/ call' = [call EXCEPT ![c].pc = "claim", ![c].ref = r]
    BY <1>8 DEF Partition
  <2> DEFINE s == [call[c] EXCEPT !.pc = "claim", !.ref = r]
  <2>2. s.pc = "claim" /\ (Return(c) \/ call' = [call EXCEPT ![c] = s])
    BY <2>1, CallStates DEF CallState, IInv
  <2> HIDE DEF s
  <2>3. QED
    BY <1>4, <1>6, <2>2
<1>9. ASSUME NEW c \in Call, GuardClaim(c) PROVE Undoing'
  <2>1. Return(c) \/ call' = [call EXCEPT ![c] = [call[c] EXCEPT !.pc = "charge", !.ref = NoRef]]
    BY <1>9 DEF GuardClaim
  <2>2. [call[c] EXCEPT !.pc = "charge", !.ref = NoRef].pc = "charge"
    BY CallStates DEF CallState, IInv
  <2>3. QED
    BY <1>4, <1>6, <2>1, <2>2
<1>10. ASSUME NEW c \in Call, Charge(c) PROVE Undoing'
  <2>1. [call[c] EXCEPT !.pc = "admitted", !.at = 0].pc = "admitted"
    BY CallStates DEF CallState, IInv
  <2>2. QED
    BY <1>6, <1>10, <2>1 DEF Charge
<1>11. ASSUME NEW c \in Call, Uncharge(c) PROVE Undoing'
  <2>1. [call[c] EXCEPT !.pc = "lookup"].pc = "lookup"
    BY CallStates DEF CallState, IInv
  <2>2. QED
    BY <1>6, <1>11, <2>1 DEF Uncharge, Goto
<1>12. ASSUME NEW c \in Call, Lookup(c) PROVE Undoing'
  <2> DEFINE s == [call[c] EXCEPT !.pc = "close", !.ref = issuers[call[c].doc.issuer]]
  <2>1. s.pc = "close" /\ (Return(c) \/ call' = [call EXCEPT ![c] = s])
    BY <1>12, CallStates DEF Lookup, CallState, IInv
  <2> HIDE DEF s
  <2>2. QED
    BY <1>4, <1>6, <2>1
<1>13. ASSUME NEW c \in Call, (\E resp \in Response : Succeed(c, resp)) \/ Fail(c) PROVE Undoing'
  BY <1>5, <1>13 DEF Succeed, Fail
<1>14. QED
  BY <1>1, <1>2, <1>4, <1>7, <1>8, <1>9, <1>10, <1>11, <1>12, <1>13
     DEF Next, ClaimStep, CloseStep, Refuse, Abandon, GuardClose

(* A step of one call that leaves the record and the charges alone keeps the  *)
(* books when the call goes on settling what it settled.                      *)
LEMMA BookedStays ==
  ASSUME IInv, NEW c \in Call, NEW s, call' = [call EXCEPT ![c] = s], NEW d \in Doc, Booked(d),
         charges'[d] = charges[d], InRecord(d)' <=> InRecord(d),
         Settling(s, d) => Settling(call[c], d),
         Settling(call[c], d) => Settling(s, d) \/ ~InRecord(d),
         s.pc = "close" /\ Holds(s, d) => s.ref \in Mapped',
         \A b \in Call : call[b].pc = "close" /\ Holds(call[b], d) /\ call[b].ref \in Mapped
                           => call[b].ref \in Mapped'
  PROVE  Booked(d)'
<1>1. \A b \in Call : call'[b] = IF b = c THEN s ELSE call[b]
  BY DEF IInv, TypeOK
<1>2. \A b \in Call : Settling(call'[b], d) => Settling(call[b], d)
  BY <1>1
<1>3. InRecord(d) => \A b \in Call : Settling(call[b], d) => Settling(call'[b], d)
  BY <1>1
<1>4. \A b \in Call : call'[b].pc = "close" /\ Holds(call'[b], d) => call'[b].ref \in Mapped'
  BY <1>1 DEF Booked
<1>5. QED
  BY <1>2, <1>3, <1>4 DEF Booked

(* The steps that touch neither a guard nor a charge. *)
LEMMA CallBooks ==
  ASSUME RInv, Books, NEW c \in Call,
         \/ \E d \in Doc : Receive(c, d)
         \/ \E resp \in Response : Succeed(c, resp)
         \/ Refuse(c) \/ Fail(c) \/ Abandon(c) \/ Lookup(c),
         NEW d \in Doc \ lost', Retained(d, now')
  PROVE  Booked(d)'
<1>1. /\ UNCHANGED <<now, issuers, guard, charges, lost>> /\ call[c] \in CallState /\ IInv
      /\ Mapped' = Mapped
  BY CallStates DEF RInv, IInv, Receive, Refuse, Succeed, Fail, Abandon, Lookup, Mapped
<1>2. Booked(d) /\ (InRecord(d)' <=> InRecord(d))
  BY <1>1 DEF Books, InRecord
<1>3. ASSUME NEW s, call' = [call EXCEPT ![c] = s], ~Settling(s, d), s.pc # "close",
             ~Settling(call[c], d) \/ ~InRecord(d)
      PROVE  Booked(d)'
  BY <1>1, <1>2, <1>3, BookedStays
<1>4. IdleCall.pc = "idle" /\ ~Settling(IdleCall, d)
  BY DEF IdleCall, Settling
<1>5. ASSUME NEW e \in Doc, Receive(c, e) PROVE Booked(d)'
  <2> DEFINE s == [IdleCall EXCEPT !.pc = "admitting", !.doc = e, !.at = now]
  <2>1. s.pc = "admitting" /\ call' = [call EXCEPT ![c] = s] /\ call[c].pc = "idle"
    BY <1>5 DEF Receive, IdleCall
  <2> HIDE DEF s
  <2>2. QED
    BY <1>3, <2>1 DEF Settling
<1>6. CASE Refuse(c) \/ Abandon(c)
  BY <1>3, <1>4, <1>6 DEF Refuse, Abandon, Return, Settling
<1>7. ASSUME NEW resp \in Response, Succeed(c, resp) PROVE Booked(d)'
  <2> DEFINE s == [call[c] EXCEPT !.pc = "lookup", !.resp = resp]
  <2>1. /\ s.pc = "lookup" /\ s.resp # InFlight /\ call' = [call EXCEPT ![c] = s]
        /\ call[c].pc = "admitted"
    BY <1>1, <1>7, ReplayAssumption DEF Succeed, Close, CallState
  <2> HIDE DEF s
  <2>2. QED
    BY <1>3, <2>1 DEF Settling
<1>8. CASE Fail(c)
  <2> DEFINE s == [call[c] EXCEPT !.pc = "uncharge", !.resp = InFlight]
  <2>1. s.pc = "uncharge" /\ call' = [call EXCEPT ![c] = s] /\ call[c].pc = "admitted"
    BY <1>1, <1>8 DEF Fail, Close, CallState
  <2> HIDE DEF s
  <2>2. QED
    BY <1>3, <2>1 DEF Settling
<1>9. CASE Lookup(c)
  <2> DEFINE i == call[c].doc.issuer
             s == [call[c] EXCEPT !.pc = "close", !.ref = issuers[i]]
  <2>1. CASE i \in DOMAIN issuers
    <3>1. /\ s.pc = "close" /\ s.doc = call[c].doc /\ s.resp = call[c].resp
          /\ call[c].pc = "lookup" /\ call' = [call EXCEPT ![c] = s]
          /\ s.ref \in Mapped
      BY <1>1, <1>9, <2>1 DEF Lookup, CallState, Mapped, Range
    <3> HIDE DEF s
    <3>2. Settling(s, d) <=> Settling(call[c], d)
      BY <3>1 DEF Settling
    <3>3. QED
      BY <1>1, <1>2, <3>1, <3>2, BookedStays
  <2>2. CASE i \notin DOMAIN issuers
    <3>1. Settling(call[c], d) => ~InRecord(d)
      BY <2>2 DEF Settling, InRecord
    <3>2. QED
      BY <1>3, <1>4, <1>9, <2>2, <3>1 DEF Lookup, Return
  <2>3. QED
    BY <2>1, <2>2
<1>10. QED
  BY <1>5, <1>6, <1>7, <1>8, <1>9

(* Charging a document the record holds for this call alone. *)
LEMMA ChargeBooks ==
  ASSUME RInv, Books, NEW c \in Call, Charge(c), NEW d \in Doc \ lost', Retained(d, now')
  PROVE  Booked(d)'
<1> DEFINE s == [call[c] EXCEPT !.pc = "admitted", !.at = 0]
<1>1. /\ UNCHANGED <<now, issuers, guard, lost>> /\ call[c] \in CallState /\ IInv
      /\ Mapped' = Mapped /\ call[c].pc = "charge" /\ charges \in [Doc -> Nat]
      /\ charges' = [charges EXCEPT ![call[c].doc] = @ + 1]
  BY CallStates DEF RInv, IInv, TypeOK, Charge, Mapped
<1>2. Booked(d) /\ (InRecord(d)' <=> InRecord(d))
  BY <1>1 DEF Books, InRecord
<1>3. s.pc = "admitted" /\ s.doc = call[c].doc /\ call' = [call EXCEPT ![c] = s]
  BY <1>1 DEF Charge, CallState
<1> HIDE DEF s
<1>4. ~Settling(s, d)
  BY <1>3 DEF Settling
<1>5. CASE call[c].doc # d
  <2>1. ~Settling(call[c], d) /\ charges'[d] = charges[d]
    BY <1>1, <1>5 DEF Settling
  <2>2. QED
    BY <1>1, <1>2, <1>3, <1>4, <2>1, BookedStays
<1>6. CASE call[c].doc = d
  <2>1. Settling(call[c], d) /\ Holds(call[c], d)
    BY <1>1, <1>6 DEF Settling, Holds
  <2>2. InRecord(d) /\ \A b \in Call \ {c} : ~Holds(call[b], d)
    BY <1>1, <2>1 DEF RInv, Remembered, Single
  <2>3. charges[d] = 0
    BY <1>2, <2>1 DEF Booked
  <2>4. charges'[d] = 1
    BY <1>1, <1>6, <2>3
  <2>5. \A b \in Call : call'[b] = IF b = c THEN s ELSE call[b]
    BY <1>1, <1>3 DEF IInv, TypeOK
  <2>6. \A b \in Call : ~Settling(call'[b], d)
    BY <1>4, <2>2, <2>5, SettlingHolds
  <2>7. \A b \in Call : call'[b].pc = "close" => call'[b] = call[b]
    BY <1>3, <2>5
  <2>8. QED
    BY <1>1, <1>2, <2>2, <2>4, <2>6, <2>7 DEF Booked
<1>7. QED
  BY <1>5, <1>6

(* Dropping the charges of a key: its document is settled by the call, and a  *)
(* twin may lose its charge.                                                  *)
LEMMA UnchargeBooks ==
  ASSUME RInv, Books, Undoing, NEW c \in Call, Uncharge(c),
         NEW d \in Doc \ lost', Retained(d, now')
  PROVE  Booked(d)'
<1> DEFINE s == [call[c] EXCEPT !.pc = "lookup"]
           own == call[c].doc
<1>1. /\ UNCHANGED <<now, issuers, guard, lost>> /\ call[c] \in CallState /\ IInv
      /\ Mapped' = Mapped /\ call[c].pc = "uncharge" /\ own \in Doc /\ call[c].resp = InFlight
      /\ charges'[d] = IF d \in Released(own) THEN 0 ELSE charges[d]
  BY CallStates DEF RInv, IInv, Uncharge, Mapped, Undoing
<1>2. Booked(d) /\ (InRecord(d)' <=> InRecord(d))
  BY <1>1 DEF Books, InRecord
<1>3. s.pc = "lookup" /\ s.doc = own /\ s.resp = InFlight /\ call' = [call EXCEPT ![c] = s]
  BY <1>1 DEF Uncharge, Goto, CallState
<1> HIDE DEF s
<1>4. \A b \in Call : call'[b] = IF b = c THEN s ELSE call[b]
  BY <1>1, <1>3 DEF IInv, TypeOK
<1>5. \A b \in Call : call'[b].pc = "close" => call'[b] = call[b]
  BY <1>3, <1>4
<1>6. CASE d = own
  <2>1. charges'[d] = 0
    BY <1>1, <1>6 DEF Released, Twins
  <2>2. Settling(call'[c], d)
    BY <1>3, <1>4, <1>6 DEF Settling
  <2>3. QED
    BY <1>1, <1>2, <1>5, <2>1, <2>2 DEF Booked
<1>7. CASE d # own /\ d \in Released(own)
  <2>1. charges'[d] = 0
    BY <1>1, <1>7
  <2>2. own \in Twins(d) \ {d}
    BY <1>1, <1>7 DEF Released, Twins
  <2>3. QED
    BY <1>1, <1>2, <1>5, <2>1, <2>2 DEF Booked
<1>8. CASE d \notin Released(own)
  <2>1. d # own
    BY <1>1, <1>8 DEF Released, Twins
  <2>2. ~Settling(s, d) /\ ~Settling(call[c], d) /\ charges'[d] = charges[d]
    BY <1>1, <1>3, <1>8, <2>1 DEF Settling
  <2>3. QED
    BY <1>1, <1>2, <1>3, <2>2, BookedStays
<1>9. QED
  BY <1>6, <1>7, <1>8

(* partition puts nothing into the record. *)
LEMMA PartitionAddsNone ==
  ASSUME IInv, NEW c \in Call, Partition(c), NEW e, InRecord(e)' PROVE InRecord(e)
<1> DEFINE d == call[c].doc
           g == Purged(call[c].at)
           I == {i \in DOMAIN issuers : DOMAIN g[issuers[i]] # {}}
           m == Kept(g)
           r == GuardOf(m, d.issuer)
           M == [i \in DOMAIN m \cup {d.issuer} |-> IF i = d.issuer THEN r ELSE m[i]]
<1>1. m = [i \in I |-> issuers[i]] /\ \A i \in I : i \in DOMAIN issuers /\ issuers[i] \in Ref
  BY DEF Kept, Restrict, IInv, TypeOK
<1>2. g \in [Ref -> Entries] /\ \A q \in Ref : DOMAIN g[q] \subseteq DOMAIN guard[q]
  BY PurgedEntries
<1>3. /\ d.issuer \in I => r = issuers[d.issuer]
      /\ d.issuer \notin I => r \in Ref
  BY <1>1, SomeGuardIsFree DEF GuardOf, FreeRef, IInv
<1>4. \/ issuers' = m /\ guard' = g
      \/ issuers' = M /\ guard' = IF d.issuer \in DOMAIN m THEN g ELSE [g EXCEPT ![r] = Empty]
  BY DEF Partition
<1> HIDE DEF g, I, m, r, d
<1>5. CASE issuers' = m /\ guard' = g
  BY <1>1, <1>2, <1>5 DEF InRecord
<1>6. CASE issuers' = M /\ guard' = IF d.issuer \in DOMAIN m THEN g ELSE [g EXCEPT ![r] = Empty]
  <2>1. e.issuer \in I \cup {d.issuer} /\ e \in DOMAIN guard'[M[e.issuer]]
    BY <1>1, <1>6 DEF InRecord
  <2>2. CASE e.issuer \in I
    <3>1. M[e.issuer] = issuers[e.issuer]
      BY <1>1, <1>3, <2>2
    <3>2. e \in DOMAIN g[issuers[e.issuer]]
      BY <1>1, <1>2, <1>6, <2>1, <2>2, <3>1, EmptyEntries
    <3>3. QED
      BY <1>1, <1>2, <2>2, <3>2 DEF InRecord
  <2>3. CASE e.issuer = d.issuer /\ d.issuer \notin I
    BY <1>1, <1>2, <1>3, <1>6, <2>1, <2>3, EmptyEntries
  <2>4. QED
    BY <2>1, <2>2, <2>3
<1>7. QED
  BY <1>4, <1>5, <1>6

(* A purge drops the entry and the charge of a document together, and neither *)
(* of one that is retained.                                                   *)
LEMMA PartitionBooks ==
  ASSUME RInv, Books, NEW c \in Call, Partition(c), NEW d \in Doc \ lost', Retained(d, now')
  PROVE  Booked(d)'
<1>1. /\ UNCHANGED <<now, lost>> /\ call[c] \in CallState /\ IInv /\ call[c].pc = "admitting"
      /\ charges' = PurgedCharges(call[c].at)
  BY CallStates DEF RInv, IInv, Partition
<1>2. call[c].at <= now /\ call[c].at \in Int /\ now \in Int
  BY <1>1, Times DEF RInv, Timely, Claiming
<1>3. Retained(d, call[c].at)
  BY <1>1, <1>2, RetainedBefore
<1>4. charges'[d] = charges[d] /\ Booked(d)
  BY <1>1, <1>3 DEF PurgedCharges, Books
<1>5. InRecord(d)' <=> InRecord(d)
  BY <1>1, <1>3, PartitionLeaves, PartitionAddsNone
<1>6. ASSUME NEW b \in Call, call[b].pc = "close", Holds(call[b], d), call[b].ref \in Mapped
      PROVE  call[b].ref \in Mapped'
  <2>1. InRecord(d)
    BY <1>1, <1>6 DEF RInv, Remembered
  <2>2. issuers[d.issuer] = call[b].ref
    BY <1>1, <1>6 DEF IInv, Attached, Holds
  <2>3. InRecord(d)' /\ issuers'[d.issuer] = issuers[d.issuer]
    BY <1>1, <1>3, <2>1, PartitionLeaves
  <2>4. QED
    BY <2>2, <2>3 DEF InRecord, Mapped, Range
<1>7. \E s : call' = [call EXCEPT ![c] = s] /\ s.pc \in {"idle", "claim"}
  <2>1. PICK r : Return(c) \/ call' = [call EXCEPT ![c].pc = "claim", ![c].ref = r]
    BY DEF Partition
  <2> DEFINE s == [call[c] EXCEPT !.pc = "claim", !.ref = r]
  <2>2. /\ s.pc = "claim" /\ IdleCall.pc = "idle"
        /\ Return(c) \/ call' = [call EXCEPT ![c] = s]
    BY <1>1, <2>1 DEF CallState, IdleCall
  <2> HIDE DEF s
  <2>3. QED
    BY <2>2 DEF Return
<1>8. PICK s : call' = [call EXCEPT ![c] = s] /\ s.pc \in {"idle", "claim"}
  BY <1>7
<1>9. ~Settling(s, d) /\ ~Settling(call[c], d) /\ s.pc # "close"
  BY <1>1, <1>8 DEF Settling
<1>10. QED
  BY <1>1, <1>4, <1>5, <1>6, <1>8, <1>9, BookedStays

(* A claim puts nothing but its document into the record, and only when it    *)
(* comes out fresh and the map has its guard.                                 *)
LEMMA ClaimAddsOwn ==
  ASSUME IInv, NEW c \in Call, GuardClaim(c), NEW e, InRecord(e)', ~InRecord(e)
  PROVE  e = call[c].doc /\ Verdict(c) = "fresh" /\ call[c].ref \in Mapped
<1> DEFINE r == call[c].ref
           q == issuers[e.issuer]
<1>1. /\ r \in Ref /\ guard \in [Ref -> Entries] /\ UNCHANGED issuers
      /\ e.issuer \in DOMAIN issuers /\ q \in Ref /\ q \in Mapped
      /\ e \in DOMAIN guard'[q] /\ e \notin DOMAIN guard[q]
  BY CallStates DEF GuardClaim, Holding, IInv, TypeOK, InRecord, Mapped, Range
<1>2. q = r
  BY <1>1 DEF GuardClaim, Update
<1>3. DOMAIN Live(c) \subseteq DOMAIN guard[r] /\ Outlives(r, c)
  BY <1>1, <1>2 DEF Live, Restrict, Outlives
<1>4. ASSUME guard' = Update(r, c, Live(c)) PROVE FALSE
  BY <1>1, <1>2, <1>3, <1>4 DEF Update
<1>5. PICK out : guard' = Update(r, c, Record(Restrict(Live(c), DOMAIN Live(c) \ out), call[c].doc, InFlight))
  BY <1>4 DEF GuardClaim
<1>6. guard'[r] = Record(Restrict(Live(c), DOMAIN Live(c) \ out), call[c].doc, InFlight)
  BY <1>1, <1>3, <1>5 DEF Update
<1>7. e = call[c].doc
  BY <1>1, <1>2, <1>3, <1>6 DEF Record, Restrict
<1>8. QED
  BY <1>1, <1>2, <1>4, <1>7 DEF GuardClaim

LEMMA GuardClaimBooks ==
  ASSUME RInv, Books, NeverEvicts, MaxLag < Margin, NEW c \in Call, GuardClaim(c),
         NEW d \in Doc \ lost', Retained(d, now')
  PROVE  Booked(d)'
<1> DEFINE own == call[c].doc
           s == IF Verdict(c) = "fresh" THEN [call[c] EXCEPT !.pc = "charge", !.ref = NoRef] ELSE IdleCall
<1>1. /\ UNCHANGED <<now, issuers, charges>> /\ call[c] \in CallState /\ IInv
      /\ Mapped' = Mapped /\ call[c].pc = "claim" /\ own \in Doc /\ lost \subseteq lost'
      /\ Verdict(c) = "fresh" /\ call[c].ref \notin Mapped => own \in lost'
  BY CallStates DEF RInv, IInv, GuardClaim, Mapped
<1>2. /\ call' = [call EXCEPT ![c] = s]
      /\ IF Verdict(c) = "fresh" THEN s.pc = "charge" /\ s.doc = own ELSE s.pc = "idle"
  BY <1>1 DEF GuardClaim, Return, CallState, IdleCall
<1> HIDE DEF s
<1>3. d \in Doc \ lost /\ Booked(d)
  BY <1>1 DEF Books
<1>4. call[c].at <= now /\ call[c].at \in Int /\ now \in Int
  BY <1>1, Times DEF RInv, Timely, Claiming
<1>5. Retained(d, call[c].at)
  BY <1>1, <1>4, RetainedBefore
<1>6. InRecord(d) => InRecord(d)'
  BY <1>1, <1>5, ClaimLeaves
<1>7. CASE d = own /\ Verdict(c) = "fresh"
  <2>1. call[c].ref \in Mapped
    BY <1>1, <1>7
  <2>2. (\A b \in Call : ~Holds(call[b], d)) /\ ~InRecord(d) /\ InRecord(d)'
    BY <1>3, <1>7, <2>1, FreshClaim
  <2>3. charges[d] = 0
    BY <1>3, <2>2 DEF Booked
  <2>4. \A b \in Call : call'[b] = IF b = c THEN s ELSE call[b]
    BY <1>1, <1>2 DEF IInv, TypeOK
  <2>5. Settling(call'[c], d)
    BY <1>2, <1>7, <2>4 DEF Settling
  <2>6. \A b \in Call : call'[b].pc = "close" => ~Holds(call'[b], d)
    BY <1>2, <1>7, <2>2, <2>4
  <2>7. QED
    BY <1>1, <2>3, <2>5, <2>6 DEF Booked
<1>8. CASE ~(d = own /\ Verdict(c) = "fresh")
  <2>1. InRecord(d)' <=> InRecord(d)
    BY <1>1, <1>6, <1>8, ClaimAddsOwn
  <2>2. ~Settling(s, d) /\ ~Settling(call[c], d) /\ s.pc # "close"
    BY <1>1, <1>2, <1>8 DEF Settling
  <2>3. QED
    BY <1>1, <1>2, <1>3, <2>1, <2>2, BookedStays
<1>9. QED
  BY <1>7, <1>8

(* Releasing a claim takes the entry whose charge was dropped before, from    *)
(* the guard the map still has.                                               *)
LEMMA GuardCloseBooks ==
  ASSUME RInv, Books, NEW c \in Call, GuardClose(c), NEW d \in Doc \ lost', Retained(d, now')
  PROVE  Booked(d)'
<1> DEFINE r == call[c].ref
           own == call[c].doc
           resp == call[c].resp
           e == Closed(guard[r], own, resp)
<1>1. /\ UNCHANGED <<now, issuers, charges, lost>> /\ call[c] \in CallState /\ IInv
      /\ Mapped' = Mapped /\ call[c].pc = "close" /\ own \in Doc /\ r \in Ref
      /\ guard \in [Ref -> Entries] /\ guard' = Update(r, c, e)
      /\ call' = [call EXCEPT ![c] = IdleCall]
  BY CallStates DEF RInv, IInv, TypeOK, GuardClose, Return, Holding, Mapped
<1>2. Booked(d) /\ IdleCall.pc = "idle" /\ ~Settling(IdleCall, d)
  BY <1>1 DEF Books, IdleCall, Settling
<1>3. d.issuer \in DOMAIN issuers => issuers[d.issuer] \in Ref /\ issuers[d.issuer] \in Mapped
  BY <1>1 DEF IInv, TypeOK, Mapped, Range
<1>4. /\ \A q \in Mapped : q \in Ref /\ guard'[q] = IF q = r THEN e ELSE guard[q]
      /\ DOMAIN e = IF resp = InFlight THEN DOMAIN guard[r] \ {own} ELSE DOMAIN guard[r]
  BY <1>1, NoRefUnmapped DEF Update, Outlives, Closed, Answered, Restrict, IInv
<1> HIDE DEF e
<1>5. CASE ~(d = own /\ resp = InFlight)
  <2>1. InRecord(d)' <=> InRecord(d)
    BY <1>1, <1>3, <1>4, <1>5 DEF InRecord
  <2>2. ~Settling(call[c], d)
    BY <1>1, <1>5 DEF Settling
  <2>3. QED
    BY <1>1, <1>2, <2>1, <2>2, BookedStays
<1>6. CASE d = own /\ resp = InFlight
  <2>1. Holds(call[c], d) /\ Settling(call[c], d)
    BY <1>1, <1>6 DEF Holds, Settling, Closing
  <2>2. charges[d] = 0 /\ r \in Mapped
    BY <1>1, <1>2, <2>1 DEF Booked
  <2>3. issuers[d.issuer] = r
    BY <1>1, <1>6, <2>2 DEF IInv, Attached
  <2>4. ~InRecord(d)'
    BY <1>1, <1>4, <1>6, <2>2, <2>3 DEF InRecord
  <2>5. \A b \in Call : call'[b].pc = "close" => call'[b] = call[b]
    BY <1>1, <1>2 DEF IInv, TypeOK
  <2>6. QED
    BY <1>1, <1>2, <2>2, <2>4, <2>5 DEF Booked
<1>7. QED
  BY <1>5, <1>6

LEMMA BooksKept ==
  ASSUME RInv, Books, Undoing, NeverEvicts, MaxLag < Margin, [Next]_vars PROVE Books'
<1>1. CASE UNCHANGED vars \/ Tick
  <2>1. /\ UNCHANGED <<issuers, guard, charges, call, lost>>
        /\ now \in Int /\ now' \in Int /\ now <= now'
    BY <1>1, Times DEF vars, Tick, RInv
  <2>2. \A d \in Doc : Booked(d)' <=> Booked(d)
    BY <2>1 DEF Booked, InRecord, Mapped
  <2>3. QED
    BY <2>1, <2>2, RetainedBefore DEF Books
<1>2. CASE Restart
  <2>1. /\ DOMAIN issuers' = {} /\ charges' = [d \in Doc |-> 0]
        /\ \A c \in Call : call'[c].pc = "idle"
    BY <1>2 DEF Restart, IdleCall
  <2>2. QED
    BY <2>1 DEF Books, Booked, InRecord
<1>3. ASSUME NEW c \in Call, ClaimStep(c) PROVE Books'
  BY <1>3, PartitionBooks, GuardClaimBooks, ChargeBooks DEF ClaimStep, Books
<1>4. ASSUME NEW c \in Call, CloseStep(c) PROVE Books'
  BY <1>4, UnchargeBooks, CallBooks, GuardCloseBooks DEF CloseStep, Books
<1>5. ASSUME NEW c \in Call,
             \/ \E d \in Doc : Receive(c, d)
             \/ \E resp \in Response : Succeed(c, resp)
             \/ Refuse(c) \/ Fail(c) \/ Abandon(c)
      PROVE  Books'
  BY <1>5, CallBooks DEF Books
<1>6. QED
  BY <1>1, <1>2, <1>3, <1>4, <1>5 DEF Next

(* Between calls the charges and the record agree: no handle's budget leaks   *)
(* to a document that is not in the record, and every document in it is       *)
(* charged unless a twin's release took its charge - for any callers,         *)
(* budgets and interleavings, when a call is preempted for less than the      *)
(* margin and no guard evicts (replay.rs, complete).                          *)
THEOREM BooksAgree ==
  ASSUME MaxLag < Margin
  PROVE  Spec /\ []NeverEvicts => []ChargesMatchEntries
<1>1. Init => RInv /\ Books /\ Undoing
  <2>1. ASSUME Init PROVE /\ IInv /\ spent = {} /\ DOMAIN issuers = {}
                          /\ charges = [d \in Doc |-> 0] /\ \A c \in Call : call[c].pc = "idle"
    BY <2>1, InitHolds DEF Init, IdleCall
  <2>2. ASSUME Init PROVE RInv
    BY <2>1, <2>2 DEF RInv, Timely, Remembered, Single, Holds, Claiming, Closing
  <2>3. ASSUME Init PROVE Books /\ Undoing
    BY <2>1, <2>3 DEF Books, Booked, Undoing, InRecord
  <2>4. QED
    BY <2>2, <2>3
<1>2. RInv /\ Books /\ Undoing /\ NeverEvicts /\ [Next]_vars => RInv' /\ Books' /\ Undoing'
  BY RInvKept, BooksKept, UndoingKept DEF RInv
<1>3. RInv /\ Books => ChargesMatchEntries
  <2> SUFFICES ASSUME Books, Running = {}, NEW d \in Doc, Retained(d, now), d \notin lost
               PROVE  LET entries == IF InRecord(d) THEN 1 ELSE 0 IN
                      charges[d] <= entries /\ (Twins(d) = {d} => charges[d] = entries)
    BY DEF ChargesMatchEntries
  <2>1. \A c \in Call : ~Settling(call[c], d)
    BY DEF Running, At, Claiming, Closing, Settling
  <2>2. Booked(d)
    BY DEF Books
  <2>3. QED
    BY <2>1, <2>2 DEF Booked
<1>4. QED
  BY <1>1, <1>2, <1>3, PTL DEF Spec
-----------------------------------------------------------------------------
(* The budgets.  A call that partition let go on has room reserved until it   *)
(* has recorded its claim (of its issuer's bound and of the total) and its    *)
(* charge (of its handle's): with the calls about to spend it, each budget    *)
(* is overrun by less than the number of workers.                             *)
Claimers(r)  == {c \in Call : call[c].pc = "claim" /\ call[c].ref = r}
Claimants    == {c \in Call : call[c].pc = "claim"}
Chargers(h)  == {c \in Call : call[c].pc \in {"claim", "charge"} /\ call[c].doc.handle = h}
Bounded      == Cardinality(Running) <= Workers
Room(A, B, m) == IsFiniteSet(A) /\ Cardinality(A) + Cardinality(B) < m + Workers

RoomyGuards  == \A r \in Ref : Room(DOMAIN guard[r], Claimers(r), PerIssuer)
RoomyHandles == \A h : Room(ChargesOf(charges, h), Chargers(h), PerHandle)
RoomyTotal   == Room(AllHeld(guard, issuers), Claimants, 2 * Total)
Roomy        == RoomyGuards /\ RoomyHandles /\ RoomyTotal

(* Adding one element adds at most one to the cardinality. *)
LEMMA OneMore ==
  ASSUME NEW S, IsFiniteSet(S), NEW x
  PROVE  /\ IsFiniteSet(S \cup {x}) /\ Cardinality(S \cup {x}) \in Nat
         /\ Cardinality(S \cup {x}) <= Cardinality(S) + 1
<1>1. Cardinality(S) \in Nat
  BY FS_CardinalityType
<1>2. /\ IsFiniteSet(S \cup {x})
      /\ Cardinality(S \cup {x}) = IF x \in S THEN Cardinality(S) ELSE Cardinality(S) + 1
  BY FS_AddElement
<1>3. QED
  BY <1>1, <1>2

(* What is spent and what is about to be only shrink. *)
LEMMA RoomShrinks ==
  ASSUME NEW A, NEW B \in SUBSET Call, NEW m \in Nat, Room(A, B, m),
         NEW C \in SUBSET A, NEW D \in SUBSET B
  PROVE  Room(C, D, m)
<1>1. IsFiniteSet(A) /\ IsFiniteSet(B)
  BY ReplayAssumption, FS_Subset DEF Room
<1>2. /\ IsFiniteSet(C) /\ IsFiniteSet(D)
      /\ Cardinality(C) <= Cardinality(A) /\ Cardinality(D) <= Cardinality(B)
  BY <1>1, FS_Subset
<1>3. /\ Cardinality(A) \in Nat /\ Cardinality(B) \in Nat
      /\ Cardinality(C) \in Nat /\ Cardinality(D) \in Nat /\ Workers \in Nat
  BY <1>1, <1>2, FS_CardinalityType, ReplayAssumption
<1>4. QED
  BY <1>2, <1>3 DEF Room

(* One call spends what it was about to. *)
LEMMA RoomMoves ==
  ASSUME NEW A, NEW B \in SUBSET Call, NEW m \in Nat, Room(A, B, m),
         NEW x, NEW C \in SUBSET (A \cup {x}), NEW c \in B, NEW D \in SUBSET (B \ {c})
  PROVE  Room(C, D, m)
<1>1. IsFiniteSet(A) /\ IsFiniteSet(B)
  BY ReplayAssumption, FS_Subset DEF Room
<1>2. /\ IsFiniteSet(A \cup {x}) /\ Cardinality(A \cup {x}) <= Cardinality(A) + 1
      /\ IsFiniteSet(B \ {c}) /\ Cardinality(B \ {c}) = Cardinality(B) - 1
  BY <1>1, OneMore, FS_RemoveElement
<1>3. /\ IsFiniteSet(C) /\ IsFiniteSet(D)
      /\ Cardinality(C) <= Cardinality(A \cup {x}) /\ Cardinality(D) <= Cardinality(B \ {c})
  BY <1>2, FS_Subset
<1>4. /\ Cardinality(A) \in Nat /\ Cardinality(B) \in Nat /\ Cardinality(A \cup {x}) \in Nat
      /\ Cardinality(C) \in Nat /\ Cardinality(D) \in Nat /\ Workers \in Nat
  BY <1>1, <1>2, <1>3, FS_CardinalityType, ReplayAssumption
<1>5. QED
  BY <1>2, <1>3, <1>4 DEF Room

(* A budget found unspent has room for every call that runs. *)
LEMMA RoomOpens ==
  ASSUME NEW A, IsFiniteSet(A), NEW m \in Nat, ~(Cardinality(A) >= m),
         NEW R \in SUBSET Call, Cardinality(R) <= Workers, NEW B \in SUBSET R
  PROVE  Room(A, B, m)
<1>1. IsFiniteSet(R)
  BY ReplayAssumption, FS_Subset
<1>2. IsFiniteSet(B) /\ Cardinality(B) <= Cardinality(R)
  BY <1>1, FS_Subset
<1>3. Cardinality(A) \in Nat /\ Cardinality(B) \in Nat /\ Cardinality(R) \in Nat /\ Workers \in Nat
  BY <1>1, <1>2, FS_CardinalityType, ReplayAssumption
<1>4. QED
  BY <1>2, <1>3 DEF Room

LEMMA BudgetsAreNumbers ==
  /\ PerIssuer \in Nat /\ PerHandle \in Nat /\ 2 * Total \in Nat /\ Workers \in Nat \ {0}
  /\ IsFiniteSet(Call)
BY ReplayAssumption

(* Fewer charges make a shorter list, whatever the handle. *)
LEMMA FewerCharges ==
  ASSUME NEW f \in [Doc -> Nat], NEW g \in [Doc -> Nat], \A d \in Doc : g[d] <= f[d], NEW h
  PROVE  ChargesOf(g, h) \subseteq ChargesOf(f, h)
<1> SUFFICES ASSUME NEW p \in ChargesOf(g, h) PROVE p \in ChargesOf(f, h)
  OBVIOUS
<1>1. PICK d \in Doc : d.handle = h /\ p \in {d} \X (1..g[d])
  BY DEF ChargesOf
<1>2. 1..g[d] \subseteq 1..f[d]
  BY f[d] \in Nat, g[d] \in Nat, g[d] <= f[d]
<1>3. p \in {d} \X (1..f[d])
  BY <1>1, <1>2
<1>4. QED
  BY <1>1, <1>3 DEF ChargesOf

(* Guards that hold less, in no more of a map, hold less together. *)
LEMMA FewerHeld ==
  ASSUME NEW g, NEW m, NEW f, NEW n,
         \A i \in DOMAIN n : \/ DOMAIN f[n[i]] = {}
                              \/ /\ i \in DOMAIN m
                                 /\ DOMAIN f[n[i]] \subseteq DOMAIN g[m[i]]
  PROVE  AllHeld(f, n) \subseteq AllHeld(g, m)
<1> SUFFICES ASSUME NEW p \in AllHeld(f, n) PROVE p \in AllHeld(g, m)
  OBVIOUS
<1>1. PICK i \in DOMAIN n : p \in {i} \X DOMAIN f[n[i]]
  BY DEF AllHeld
<1>2. i \in DOMAIN m /\ p \in {i} \X DOMAIN g[m[i]]
  BY <1>1
<1>3. QED
  BY <1>2 DEF AllHeld

(* A step that spends nothing and reserves nothing keeps the room there is. *)
LEMMA RoomyShrinks ==
  ASSUME IInv, IInv', Roomy,
         \A r \in Ref : DOMAIN guard'[r] \subseteq DOMAIN guard[r],
         AllHeld(guard', issuers') \subseteq AllHeld(guard, issuers),
         \A d \in Doc : charges'[d] <= charges[d],
         \A r : Claimers(r)' \subseteq Claimers(r),
         \A h : Chargers(h)' \subseteq Chargers(h),
         Claimants' \subseteq Claimants
  PROVE  Roomy'
<1>1. /\ Claimants \in SUBSET Call /\ \A r : Claimers(r) \in SUBSET Call
      /\ \A h : Chargers(h) \in SUBSET Call
  BY DEF Claimants, Claimers, Chargers
<1>2. charges \in [Doc -> Nat] /\ charges' \in [Doc -> Nat]
  BY DEF IInv, TypeOK
<1>3. ASSUME NEW r \in Ref PROVE Room(DOMAIN guard'[r], Claimers(r)', PerIssuer)
  BY <1>1, RoomShrinks, BudgetsAreNumbers DEF Roomy, RoomyGuards
<1>4. ASSUME NEW h PROVE Room(ChargesOf(charges', h), Chargers(h)', PerHandle)
  <2>1. ChargesOf(charges', h) \in SUBSET ChargesOf(charges, h)
    BY <1>2, FewerCharges
  <2>2. QED
    BY <1>1, <2>1, RoomShrinks, BudgetsAreNumbers DEF Roomy, RoomyHandles
<1>5. Room(AllHeld(guard', issuers'), Claimants', 2 * Total)
  BY <1>1, RoomShrinks, BudgetsAreNumbers DEF Roomy, RoomyTotal
<1>6. QED
  BY <1>3, <1>4, <1>5 DEF Roomy, RoomyGuards, RoomyHandles, RoomyTotal

(* A call that is not about to claim any more, and is about to charge only    *)
(* what it already was.                                                       *)
LEMMA Reserves ==
  ASSUME IInv, NEW c \in Call, NEW s, call' = [call EXCEPT ![c] = s], s.pc # "claim",
         s.pc = "charge" => call[c].pc = "claim" /\ s.doc = call[c].doc
  PROVE  /\ \A r : Claimers(r)' \subseteq Claimers(r) \ {c}
         /\ \A h : Chargers(h)' \subseteq Chargers(h)
         /\ Claimants' \subseteq Claimants \ {c}
         /\ s.pc # "charge" => \A h : Chargers(h)' \subseteq Chargers(h) \ {c}
<1>1. \A b \in Call : call'[b] = IF b = c THEN s ELSE call[b]
  BY DEF IInv, TypeOK
<1>2. QED
  BY <1>1 DEF Claimers, Chargers, Claimants

(* A call starts to run only while a worker is free. *)
LEMMA RunningStep ==
  ASSUME IInv, Bounded, NEW c \in Call, NEW s, call' = [call EXCEPT ![c] = s],
         \/ s.pc \notin Claiming \cup Closing
         \/ call[c].pc \in Claiming \cup Closing
         \/ Cardinality(Running) < Workers
  PROVE  Bounded'
<1>1. \A b \in Call : call'[b] = IF b = c THEN s ELSE call[b]
  BY DEF IInv, TypeOK
<1>2. IsFiniteSet(Running) /\ Cardinality(Running) \in Nat /\ Workers \in Nat
  BY BudgetsAreNumbers, FS_Subset, FS_CardinalityType, Running \in SUBSET Call DEF Running, At
<1>3. CASE Running' \subseteq Running
  BY <1>2, <1>3, FS_Subset, FS_CardinalityType DEF Bounded
<1>4. CASE ~(Running' \subseteq Running)
  <2>1. Running' \subseteq Running \cup {c} /\ Cardinality(Running) < Workers
    BY <1>1, <1>4 DEF Running, At
  <2>2. /\ IsFiniteSet(Running \cup {c}) /\ Cardinality(Running \cup {c}) \in Nat
        /\ Cardinality(Running \cup {c}) <= Cardinality(Running) + 1
    BY <1>2, OneMore
  <2>3. Cardinality(Running') <= Cardinality(Running \cup {c}) /\ Cardinality(Running') \in Nat
    BY <2>1, <2>2, FS_Subset, FS_CardinalityType
  <2>4. QED
    BY <1>2, <2>1, <2>2, <2>3 DEF Bounded
<1>5. QED
  BY <1>3, <1>4

(* The steps that only let go: every charge stays or goes, every guard stays. *)
LEMMA CallRoomy ==
  ASSUME IInv, IInv', Bounded, Roomy, NEW c \in Call,
         \/ \E d \in Doc : Receive(c, d)
         \/ \E resp \in Response : Succeed(c, resp)
         \/ Refuse(c) \/ Fail(c) \/ Abandon(c) \/ Uncharge(c) \/ Lookup(c)
  PROVE  Bounded' /\ Roomy'
<1>1. call[c] \in CallState /\ UNCHANGED <<guard, issuers>>
  BY CallStates DEF IInv, Receive, Refuse, Succeed, Fail, Abandon, Uncharge, Lookup
<1>2. \A d \in Doc : charges'[d] <= charges[d]
  <2>1. charges \in [Doc -> Nat]
    BY DEF IInv, TypeOK
  <2>2. charges' = charges \/ \A d \in Doc : charges'[d] \in {0, charges[d]}
    BY DEF Receive, Refuse, Succeed, Fail, Abandon, Uncharge, Lookup
  <2>3. QED
    BY <2>1, <2>2
<1> DEFINE Goes(s) ==
             /\ call' = [call EXCEPT ![c] = s] /\ s.pc \notin {"claim", "charge"}
             /\ \/ s.pc \notin Claiming \cup Closing
                \/ call[c].pc \in Claiming \cup Closing
                \/ Cardinality(Running) < Workers
<1>3. \E s : Goes(s)
  <2>1. IdleCall.pc = "idle" /\ "idle" \notin Claiming \cup Closing
    BY DEF IdleCall, Claiming, Closing
  <2>2. CASE Return(c)
    BY <2>1, <2>2 DEF Return
  <2>3. ASSUME NEW d \in Doc, Receive(c, d) PROVE \E s : Goes(s)
    <3>1. [IdleCall EXCEPT !.pc = "admitting", !.doc = d, !.at = now].pc = "admitting"
      BY DEF IdleCall
    <3>2. QED
      BY <2>3, <3>1 DEF Receive
  <2>4. ASSUME NEW resp, NEW pc \in {"uncharge", "lookup"}, Close(c, resp, pc),
               Cardinality(Running) < Workers
        PROVE  \E s : Goes(s)
    <3>1. [call[c] EXCEPT !.pc = pc, !.resp = resp].pc \notin {"claim", "charge"}
      BY <1>1 DEF CallState
    <3>2. call' = [call EXCEPT ![c] = [call[c] EXCEPT !.pc = pc, !.resp = resp]]
      BY <2>4 DEF Close
    <3>3. QED
      BY <2>4, <3>1, <3>2
  <2>5. CASE Uncharge(c)
    <3>1. [call[c] EXCEPT !.pc = "lookup"].pc = "lookup" /\ call[c].pc \in Closing
      BY <1>1, <2>5 DEF CallState, Uncharge, Closing
    <3>2. call' = [call EXCEPT ![c] = [call[c] EXCEPT !.pc = "lookup"]]
      BY <2>5 DEF Uncharge, Goto
    <3>3. QED
      BY <3>1, <3>2
  <2>6. CASE Lookup(c)
    <3> DEFINE s == [call[c] EXCEPT !.pc = "close", !.ref = issuers[call[c].doc.issuer]]
    <3>1. s.pc = "close" /\ call[c].pc \in Closing
      BY <1>1, <2>6 DEF CallState, Lookup, Closing
    <3>2. call' = [call EXCEPT ![c] = s] \/ Return(c)
      BY <2>6 DEF Lookup
    <3> HIDE DEF s
    <3>3. QED
      BY <2>2, <3>1, <3>2
  <2>7. QED
    BY <2>2, <2>3, <2>4, <2>5, <2>6 DEF Refuse, Abandon, Succeed, Fail
<1>4. PICK s : Goes(s)
  BY <1>3
<1>5. Bounded'
  BY <1>4, RunningStep
<1>6. /\ \A r : Claimers(r)' \subseteq Claimers(r)
      /\ \A h : Chargers(h)' \subseteq Chargers(h)
      /\ Claimants' \subseteq Claimants
  BY <1>4, Reserves
<1>7. QED
  BY <1>1, <1>2, <1>5, <1>6, RoomyShrinks

(* charge adds one entry to its handle's list and is no longer about to. *)
LEMMA ChargeRoomy ==
  ASSUME IInv, Bounded, Roomy, NEW c \in Call, Charge(c) PROVE Bounded' /\ Roomy'
<1> DEFINE d == call[c].doc
           s == [call[c] EXCEPT !.pc = "admitted", !.at = 0]
<1>1. /\ call[c] \in CallState /\ d \in Doc /\ call[c].pc = "charge"
      /\ UNCHANGED <<guard, issuers>> /\ charges' = [charges EXCEPT ![d] = @ + 1]
      /\ call' = [call EXCEPT ![c] = s]
  BY CallStates DEF IInv, Charge
<1>2. s.pc = "admitted"
  BY <1>1 DEF CallState
<1>3. charges \in [Doc -> Nat]
  BY DEF IInv, TypeOK
<1> HIDE DEF s
<1>4. Bounded'
  BY <1>1, <1>2, RunningStep DEF Claiming
<1>5. /\ \A r : Claimers(r)' \subseteq Claimers(r)
      /\ \A h : Chargers(h)' \subseteq Chargers(h) \ {c}
      /\ Claimants' \subseteq Claimants
  BY <1>1, <1>2, Reserves
<1>6. /\ Claimants \in SUBSET Call /\ \A r : Claimers(r) \in SUBSET Call
      /\ \A h : Chargers(h) \in SUBSET Call
  BY DEF Claimants, Claimers, Chargers
<1>7. RoomyGuards' /\ RoomyTotal'
  BY <1>1, <1>5, <1>6, RoomShrinks, BudgetsAreNumbers DEF Roomy, RoomyGuards, RoomyTotal
<1>8. ASSUME NEW h PROVE Room(ChargesOf(charges', h), Chargers(h)', PerHandle)
  <2>1. Room(ChargesOf(charges, h), Chargers(h), PerHandle)
    BY DEF Roomy, RoomyHandles
  <2>2. CASE d.handle = h
    <3>1. ChargesOf(charges', h) \subseteq ChargesOf(charges, h) \cup {<<d, charges[d] + 1>>}
      <4> SUFFICES ASSUME NEW p \in ChargesOf(charges', h), p # <<d, charges[d] + 1>>
                   PROVE  p \in ChargesOf(charges, h)
        OBVIOUS
      <4>1. PICK e \in Doc : e.handle = h /\ p \in {e} \X (1..charges'[e])
        BY DEF ChargesOf
      <4>2. PICK n \in 1..charges'[e] : p = <<e, n>>
        BY <4>1
      <4>3. n \in 1..charges[e]
        <5>1. CASE e = d
          BY <1>1, <1>3, <4>2, <5>1
        <5>2. CASE e # d
          BY <1>1, <1>3, <4>2, <5>2
        <5>3. QED
          BY <5>1, <5>2
      <4>4. QED
        BY <4>1, <4>2, <4>3 DEF ChargesOf
    <3>2. c \in Chargers(h) /\ Chargers(h)' \in SUBSET (Chargers(h) \ {c})
      BY <1>1, <1>5, <2>2 DEF Chargers
    <3>3. PICK x : ChargesOf(charges', h) \in SUBSET (ChargesOf(charges, h) \cup {x})
      BY <3>1
    <3>4. PerHandle \in Nat
      BY BudgetsAreNumbers
    <3>5. QED
      BY <1>6, <2>1, <3>2, <3>3, <3>4, RoomMoves
  <2>3. CASE d.handle # h
    <3>1. ChargesOf(charges', h) = ChargesOf(charges, h)
      <4>1. \A e \in Doc : e.handle = h => charges'[e] = charges[e]
        BY <1>1, <1>3, <2>3
      <4>2. QED
        BY <4>1 DEF ChargesOf
    <3>2. Chargers(h)' \in SUBSET Chargers(h)
      BY <1>5
    <3>3. QED
      BY <1>6, <2>1, <3>1, <3>2, RoomShrinks, BudgetsAreNumbers
  <2>4. QED
    BY <2>2, <2>3
<1>9. QED
  BY <1>4, <1>7, <1>8 DEF Roomy, RoomyHandles

(* partition lets a call go on to claim only below the three budgets, and     *)
(* then no more calls than workers are about to spend them.                   *)
LEMMA PartitionRoomy ==
  ASSUME IInv, IInv', Bounded, Roomy, NEW c \in Call, Partition(c)
  PROVE  Bounded' /\ Roomy'
<1> DEFINE d == call[c].doc
           g == Purged(call[c].at)
           m == Kept(g)
           ch == PurgedCharges(call[c].at)
           held == Cardinality(DOMAIN g[GuardOf(m, d.issuer)])
<1>1. call[c].pc = "admitting" /\ call[c] \in CallState /\ d \in Doc
  BY CallStates DEF Partition, IInv
<1>2. /\ g \in [Ref -> Entries] /\ \A q \in Ref : DOMAIN g[q] \subseteq DOMAIN guard[q]
  BY PurgedEntries
<1>3. GuardOf(m, d.issuer) \in Ref
  <2>1. PICK q \in Ref : q \in FreeRef
    BY SomeGuardIsFree DEF IInv
  <2>2. CASE d.issuer \in DOMAIN m
    BY <2>2, NoRefUnmapped DEF GuardOf, Kept, Restrict, Mapped, Range, IInv
  <2>3. CASE d.issuer \notin DOMAIN m
    BY <2>1, <2>3 DEF GuardOf, FreeRef
  <2>4. QED
    BY <2>2, <2>3
<1>4. PICK r \in Ref : r = GuardOf(m, d.issuer)
  BY <1>3
<1> DEFINE s == [call[c] EXCEPT !.pc = "claim", !.ref = r]
           M == [i \in DOMAIN m \cup {d.issuer} |-> IF i = d.issuer THEN r ELSE m[i]]
           known == d.issuer \in DOMAIN m
<1>5. /\ charges' = ch
      /\ \/ issuers' = m /\ guard' = g
         \/ /\ issuers' = M
            /\ guard' = IF known THEN g ELSE [g EXCEPT ![r] = Empty]
      /\ \/ Return(c)
         \/ /\ call' = [call EXCEPT ![c] = s]
            /\ ~OverHandle(ch, d.handle)
            /\ known => ~(Cardinality(DOMAIN g[r]) >= PerIssuer)
            /\ ~(TotalHeld(g, m) >= 2 * Total)
            /\ issuers' = M
            /\ guard' = IF known THEN g ELSE [g EXCEPT ![r] = Empty]
  BY <1>4 DEF Partition, Busy
<1>6. s.pc = "claim" /\ s.ref = r /\ s.doc = d /\ IdleCall.pc = "idle"
  BY <1>1 DEF CallState, IdleCall
<1>7. /\ DOMAIN m \subseteq DOMAIN issuers /\ \A i \in DOMAIN m : m[i] = issuers[i] /\ m[i] \in Ref
      /\ known => m[d.issuer] = r
  BY <1>4 DEF Kept, Restrict, GuardOf, IInv, TypeOK
<1>8. \A e \in Doc : charges'[e] <= charges[e]
  <2>1. \A e \in Doc : charges'[e] \in {0, charges[e]}
    BY <1>5 DEF PurgedCharges
  <2>2. QED
    BY <2>1 DEF IInv, TypeOK
<1>9. \A i \in DOMAIN M : \/ i = d.issuer /\ M[i] = r
                          \/ i \in DOMAIN m /\ M[i] = m[i]
  BY <1>7
<1> HIDE DEF g, m, s, d, ch, M, known
<1>10. \A q \in Ref : DOMAIN guard'[q] \subseteq DOMAIN g[q]
  BY <1>2, <1>5, EmptyEntries
<1>11. AllHeld(guard', issuers') \subseteq AllHeld(g, m)
  <2>1. CASE issuers' = m /\ guard' = g
    BY <2>1
  <2>2. CASE issuers' = M /\ guard' = IF known THEN g ELSE [g EXCEPT ![r] = Empty]
    <3>1. ASSUME NEW i \in DOMAIN M
          PROVE  \/ DOMAIN guard'[M[i]] = {}
                 \/ i \in DOMAIN m /\ DOMAIN guard'[M[i]] \subseteq DOMAIN g[m[i]]
      <4>1. CASE i = d.issuer /\ M[i] = r
        <5>1. CASE known
          BY <1>7, <1>10, <4>1, <5>1 DEF known
        <5>2. CASE ~known
          BY <1>2, <2>2, <4>1, <5>2, EmptyEntries
        <5>3. QED
          BY <5>1, <5>2
      <4>2. CASE i \in DOMAIN m /\ M[i] = m[i]
        BY <1>7, <1>10, <4>2
      <4>3. QED
        BY <1>9, <4>1, <4>2
    <3>2. QED
      BY <2>2, <3>1, FewerHeld
  <2>3. QED
    BY <1>5, <2>1, <2>2
<1>12. AllHeld(g, m) \subseteq AllHeld(guard, issuers)
  BY <1>2, <1>7, FewerHeld
<1>13. CASE Return(c)
  <2>1. Bounded'
    BY <1>1, <1>6, <1>13, RunningStep DEF Return, Claiming
  <2>2. /\ \A q : Claimers(q)' \subseteq Claimers(q)
        /\ \A h : Chargers(h)' \subseteq Chargers(h)
        /\ Claimants' \subseteq Claimants
    BY <1>6, <1>13, Reserves DEF Return
  <2>3. QED
    BY <1>2, <1>8, <1>10, <1>11, <1>12, <2>1, <2>2, RoomyShrinks
<1>14. ASSUME call' = [call EXCEPT ![c] = s],
              ~OverHandle(ch, d.handle),
              known => ~(Cardinality(DOMAIN g[r]) >= PerIssuer),
              ~(TotalHeld(g, m) >= 2 * Total),
              guard' = IF known THEN g ELSE [g EXCEPT ![r] = Empty]
       PROVE  Bounded' /\ Roomy'
  <2>1. Bounded'
    BY <1>1, <1>14, RunningStep DEF Claiming
  <2>2. \A b \in Call : call'[b] = IF b = c THEN s ELSE call[b]
    BY <1>14 DEF IInv, TypeOK
  <2>3. /\ Running' \in SUBSET Call /\ Cardinality(Running') <= Workers
        /\ \A q : Claimers(q)' \in SUBSET Running'
        /\ \A h : Chargers(h)' \in SUBSET Running'
        /\ Claimants' \in SUBSET Running'
    BY <2>1 DEF Bounded, Running, At, Claiming, Claimers, Chargers, Claimants
  <2>4. /\ Claimants \in SUBSET Call /\ \A q : Claimers(q) \in SUBSET Call
        /\ \A h : Chargers(h) \in SUBSET Call
    BY DEF Claimants, Claimers, Chargers
  <2>5. ASSUME NEW q \in Ref PROVE Room(DOMAIN guard'[q], Claimers(q)', PerIssuer)
    <3>1. Room(DOMAIN guard[q], Claimers(q), PerIssuer)
      BY DEF Roomy, RoomyGuards
    <3>2. DOMAIN guard'[q] \in SUBSET DOMAIN guard[q]
      BY <1>2, <1>10
    <3>3. CASE q # r
      <4>1. Claimers(q)' \in SUBSET Claimers(q)
        BY <1>6, <2>2, <3>3 DEF Claimers
      <4>2. QED
        BY <2>4, <3>1, <3>2, <4>1, RoomShrinks, BudgetsAreNumbers
    <3>4. CASE q = r
      <4>1. IsFiniteSet(DOMAIN guard'[q])
        BY <3>1, <3>2, FS_Subset DEF Room
      <4>2. ~(Cardinality(DOMAIN guard'[q]) >= PerIssuer)
        <5>1. CASE known
          BY <1>14, <3>4, <5>1
        <5>2. CASE ~known
          <6>1. DOMAIN guard'[q] = {}
            BY <1>2, <1>14, <3>4, <5>2, EmptyEntries
          <6>2. Cardinality(DOMAIN guard'[q]) = 0
            BY <6>1, FS_EmptySet
          <6>3. QED
            BY <6>2, ReplayAssumption
        <5>3. QED
          BY <5>1, <5>2
      <4>3. QED
        BY <2>3, <4>1, <4>2, RoomOpens, BudgetsAreNumbers
    <3>5. QED
      BY <3>3, <3>4
  <2>6. ASSUME NEW h PROVE Room(ChargesOf(charges', h), Chargers(h)', PerHandle)
    <3>1. Room(ChargesOf(charges, h), Chargers(h), PerHandle)
      BY DEF Roomy, RoomyHandles
    <3>2. ChargesOf(charges', h) \in SUBSET ChargesOf(charges, h)
      BY <1>8, FewerCharges DEF IInv, TypeOK
    <3>3. CASE d.handle # h
      <4>1. Chargers(h)' \in SUBSET Chargers(h)
        BY <1>6, <2>2, <3>3 DEF Chargers
      <4>2. QED
        BY <2>4, <3>1, <3>2, <4>1, RoomShrinks, BudgetsAreNumbers
    <3>4. CASE d.handle = h
      <4>1. IsFiniteSet(ChargesOf(charges', h))
        BY <3>1, <3>2, FS_Subset DEF Room
      <4>2. ~(Cardinality(ChargesOf(charges', h)) >= PerHandle)
        BY <1>5, <1>14, <3>4 DEF OverHandle, Charged
      <4>3. QED
        BY <2>3, <4>1, <4>2, RoomOpens, BudgetsAreNumbers
    <3>5. QED
      BY <3>3, <3>4
  <2>7. Room(AllHeld(guard', issuers'), Claimants', 2 * Total)
    <3>1. IsFiniteSet(AllHeld(g, m))
      BY <1>12, FS_Subset DEF Roomy, RoomyTotal, Room
    <3>2. /\ IsFiniteSet(AllHeld(guard', issuers'))
          /\ Cardinality(AllHeld(guard', issuers')) <= Cardinality(AllHeld(g, m))
      BY <1>11, <3>1, FS_Subset
    <3>3. Cardinality(AllHeld(g, m)) \in Nat /\ Cardinality(AllHeld(guard', issuers')) \in Nat
      BY <3>1, <3>2, FS_CardinalityType
    <3>4. ~(Cardinality(AllHeld(guard', issuers')) >= 2 * Total)
      BY <1>14, <3>2, <3>3, BudgetsAreNumbers DEF TotalHeld
    <3>5. QED
      BY <2>3, <3>2, <3>4, RoomOpens, BudgetsAreNumbers
  <2>8. QED
    BY <2>1, <2>5, <2>6, <2>7 DEF Roomy, RoomyGuards, RoomyHandles, RoomyTotal
<1>15. QED
  BY <1>5, <1>13, <1>14

(* A claim adds at most its document to its guard, and no other guard changes. *)
LEMMA ClaimAdds ==
  ASSUME IInv, NEW c \in Call, GuardClaim(c)
  PROVE  /\ \A q \in Ref \ {call[c].ref} : guard'[q] = guard[q]
         /\ DOMAIN guard'[call[c].ref] \subseteq DOMAIN guard[call[c].ref] \cup {call[c].doc}
<1>1. PICK r \in Ref : r = call[c].ref
  BY CallStates DEF GuardClaim, Holding, IInv
<1>2. PICK d \in Doc : d = call[c].doc
  BY CallStates DEF GuardClaim, IInv
<1>3. guard \in [Ref -> Entries]
  BY DEF IInv, TypeOK
<1>4. DOMAIN Live(c) \subseteq DOMAIN guard[r]
  BY <1>1 DEF Live, Restrict
<1>5. \A out : DOMAIN Record(Restrict(Live(c), DOMAIN Live(c) \ out), d, InFlight)
                 \subseteq DOMAIN guard[r] \cup {d}
  BY <1>4 DEF Record, Restrict
<1>6. \/ guard' = Update(r, c, Live(c))
      \/ \E out \in Evicted(c) :
           guard' = Update(r, c, Record(Restrict(Live(c), DOMAIN Live(c) \ out), d, InFlight))
  BY <1>1, <1>2 DEF GuardClaim
<1>7. \E e : guard' = Update(r, c, e) /\ DOMAIN e \subseteq DOMAIN guard[r] \cup {d}
  <2>1. CASE guard' = Update(r, c, Live(c))
    BY <1>4, <2>1
  <2>2. ASSUME NEW out \in Evicted(c),
               guard' = Update(r, c, Record(Restrict(Live(c), DOMAIN Live(c) \ out), d, InFlight))
        PROVE  \E e : guard' = Update(r, c, e) /\ DOMAIN e \subseteq DOMAIN guard[r] \cup {d}
    BY <1>5, <2>2
  <2>3. QED
    BY <1>6, <2>1, <2>2
<1>8. PICK e : guard' = Update(r, c, e) /\ DOMAIN e \subseteq DOMAIN guard[r] \cup {d}
  BY <1>7
<1>9. QED
  BY <1>1, <1>2, <1>3, <1>8, EmptyEntries DEF Update

(* A claim spends what partition reserved for it. *)
LEMMA GuardClaimRoomy ==
  ASSUME IInv, IInv', Bounded, Roomy, NEW c \in Call, GuardClaim(c)
  PROVE  Bounded' /\ Roomy'
<1>1. PICK r \in Ref : r = call[c].ref
  BY CallStates DEF GuardClaim, Holding, IInv
<1>2. PICK d \in Doc : d = call[c].doc
  BY CallStates DEF GuardClaim, IInv
<1>3. /\ call[c].pc = "claim" /\ call[c] \in CallState /\ UNCHANGED <<issuers, charges>>
  BY CallStates DEF GuardClaim, IInv, TypeOK
<1>4. \E s : /\ call' = [call EXCEPT ![c] = s] /\ s.pc # "claim"
             /\ s.pc = "charge" => s.doc = d
  <2>1. /\ [call[c] EXCEPT !.pc = "charge", !.ref = NoRef].pc = "charge"
        /\ [call[c] EXCEPT !.pc = "charge", !.ref = NoRef].doc = d
        /\ IdleCall.pc = "idle"
    BY <1>2, <1>3 DEF CallState, IdleCall
  <2>2. Return(c) \/ call' = [call EXCEPT ![c] = [call[c] EXCEPT !.pc = "charge", !.ref = NoRef]]
    BY DEF GuardClaim
  <2>3. QED
    BY <2>1, <2>2 DEF Return
<1>5. PICK s : /\ call' = [call EXCEPT ![c] = s] /\ s.pc # "claim"
               /\ s.pc = "charge" => s.doc = d
  BY <1>4
<1>6. Bounded'
  BY <1>3, <1>5, RunningStep DEF Claiming
<1>7. /\ \A q : Claimers(q)' \subseteq Claimers(q) \ {c}
      /\ \A h : Chargers(h)' \subseteq Chargers(h)
      /\ Claimants' \subseteq Claimants \ {c}
  BY <1>2, <1>3, <1>5, Reserves
<1>8. /\ Claimants \in SUBSET Call /\ c \in Claimants
      /\ \A q : Claimers(q) \in SUBSET Call
      /\ \A h : Chargers(h) \in SUBSET Call
  BY <1>3 DEF Claimants, Claimers, Chargers
<1>9. /\ \A q \in Ref \ {r} : guard'[q] = guard[q]
      /\ DOMAIN guard'[r] \subseteq DOMAIN guard[r] \cup {d}
  BY <1>1, <1>2, ClaimAdds
<1>10. ASSUME NEW q \in Ref PROVE Room(DOMAIN guard'[q], Claimers(q)', PerIssuer)
  <2>1. Room(DOMAIN guard[q], Claimers(q), PerIssuer)
    BY DEF Roomy, RoomyGuards
  <2>2. CASE q # r
    <3>1. Claimers(q)' \in SUBSET Claimers(q) /\ DOMAIN guard'[q] \in SUBSET DOMAIN guard[q]
      BY <1>7, <1>9, <2>2
    <3>2. QED
      BY <1>8, <2>1, <3>1, RoomShrinks, BudgetsAreNumbers
  <2>3. CASE q = r
    <3>1. c \in Claimers(q) /\ Claimers(q)' \in SUBSET (Claimers(q) \ {c})
      BY <1>1, <1>3, <1>7, <2>3 DEF Claimers
    <3>2. DOMAIN guard'[q] \in SUBSET (DOMAIN guard[q] \cup {d}) /\ PerIssuer \in Nat
      BY <1>9, <2>3, BudgetsAreNumbers
    <3>3. QED
      BY <1>8, <2>1, <3>1, <3>2, RoomMoves
  <2>4. QED
    BY <2>2, <2>3
<1>11. RoomyHandles'
  BY <1>3, <1>7, <1>8, RoomShrinks, BudgetsAreNumbers DEF Roomy, RoomyHandles
<1>12. Room(AllHeld(guard', issuers'), Claimants', 2 * Total)
  <2>1. AllHeld(guard', issuers') \subseteq AllHeld(guard, issuers) \cup {<<d.issuer, d>>}
    <3> SUFFICES ASSUME NEW p \in AllHeld(guard', issuers'), p # <<d.issuer, d>>
                 PROVE  p \in AllHeld(guard, issuers)
      OBVIOUS
    <3>1. PICK i \in DOMAIN issuers : p \in {i} \X DOMAIN guard'[issuers[i]]
      BY <1>3 DEF AllHeld
    <3>2. issuers[i] \in Ref
      BY DEF IInv, TypeOK
    <3>3. PICK e \in DOMAIN guard'[issuers[i]] : p = <<i, e>>
      BY <3>1
    <3>4. e \in DOMAIN guard[issuers[i]]
      <4>1. CASE issuers[i] # r
        BY <1>9, <3>2, <3>3, <4>1
      <4>2. CASE issuers[i] = r
        <5>1. r \in Mapped
          BY <4>2 DEF Mapped, Range
        <5>2. d.issuer \in DOMAIN issuers /\ issuers[d.issuer] = r
          BY <1>1, <1>2, <5>1 DEF IInv, Attached
        <5>3. i = d.issuer
          BY <4>2, <5>2 DEF IInv, TypeOK, Partitioned
        <5>4. QED
          BY <1>9, <3>3, <4>2, <5>3
      <4>3. QED
        BY <4>1, <4>2
    <3>5. QED
      BY <3>3, <3>4 DEF AllHeld
  <2>2. PICK x : AllHeld(guard', issuers') \in SUBSET (AllHeld(guard, issuers) \cup {x})
    BY <2>1
  <2> DEFINE total  == 2 * Total
             before == AllHeld(guard, issuers)
             after  == AllHeld(guard', issuers')
  <2>3. /\ Claimants' \in SUBSET (Claimants \ {c}) /\ Claimants \in SUBSET Call
        /\ c \in Claimants /\ total \in Nat /\ after \in SUBSET (before \cup {x})
    BY <1>7, <1>8, <2>2, BudgetsAreNumbers
  <2>4. Room(before, Claimants, total)
    BY DEF Roomy, RoomyTotal
  <2> HIDE DEF total, before, after
  <2>5. Room(after, Claimants', total)
    BY <2>3, <2>4, RoomMoves
  <2>6. QED
    BY <2>5 DEF total, after
<1>13. QED
  BY <1>6, <1>10, <1>11, <1>12 DEF Roomy, RoomyGuards, RoomyTotal

(* Guards that hold less under the same map. *)
LEMMA GuardsShrink ==
  ASSUME IInv, UNCHANGED issuers, \A q \in Ref : DOMAIN guard'[q] \subseteq DOMAIN guard[q]
  PROVE  AllHeld(guard', issuers') \subseteq AllHeld(guard, issuers)
<1>1. \A i \in DOMAIN issuers : issuers[i] \in Ref
  BY DEF IInv, TypeOK
<1>2. QED
  BY <1>1, FewerHeld

LEMMA GuardCloseRoomy ==
  ASSUME IInv, IInv', Bounded, Roomy, NEW c \in Call, GuardClose(c)
  PROVE  Bounded' /\ Roomy'
<1>1. /\ call[c].pc = "close" /\ Return(c) /\ IdleCall.pc = "idle" /\ UNCHANGED <<issuers, charges>>
      /\ guard \in [Ref -> Entries] /\ call[c] \in CallState /\ call[c].ref \in Ref
  BY CallStates DEF GuardClose, IdleCall, IInv, TypeOK, Holding
<1>2. Bounded'
  BY <1>1, RunningStep DEF Return, Closing
<1>3. DOMAIN Closed(guard[call[c].ref], call[c].doc, call[c].resp) \subseteq DOMAIN guard[call[c].ref]
  BY <1>1, ClosedEntries DEF CallState
<1>4. \A q \in Ref : DOMAIN guard'[q] \subseteq DOMAIN guard[q]
  BY <1>1, <1>3, EmptyEntries DEF GuardClose, Update
<1>5. \A d \in Doc : charges'[d] <= charges[d]
  BY <1>1 DEF IInv, TypeOK
<1>6. /\ \A r : Claimers(r)' \subseteq Claimers(r)
      /\ \A h : Chargers(h)' \subseteq Chargers(h)
      /\ Claimants' \subseteq Claimants
  BY <1>1, Reserves DEF Return
<1>7. QED
  BY <1>1, <1>2, <1>4, <1>5, <1>6, GuardsShrink, RoomyShrinks

LEMMA RestartRoomy ==
  ASSUME IInv, IInv', Roomy, Restart PROVE Bounded' /\ Roomy'
<1>1. /\ \A c \in Call : call'[c].pc = "idle"
      /\ guard' = [r \in Ref |-> Empty] /\ DOMAIN issuers' = {}
      /\ charges' = [d \in Doc |-> 0]
  BY DEF Restart, IdleCall
<1>2. Running' = {}
  BY <1>1 DEF Running, At, Claiming, Closing
<1>3. Bounded'
  BY <1>2, FS_EmptySet, ReplayAssumption DEF Bounded
<1>4. AllHeld(guard', issuers') = {}
  BY <1>1 DEF AllHeld
<1>5. \A d \in Doc : charges'[d] <= charges[d]
  BY <1>1 DEF IInv, TypeOK
<1>6. \A r \in Ref : DOMAIN guard'[r] \subseteq DOMAIN guard[r]
  BY <1>1, EmptyEntries
<1>7. /\ \A r : Claimers(r)' \subseteq Claimers(r)
      /\ \A h : Chargers(h)' \subseteq Chargers(h)
      /\ Claimants' \subseteq Claimants
  BY <1>1 DEF Claimers, Chargers, Claimants
<1>8. QED
  BY <1>3, <1>4, <1>5, <1>6, <1>7, RoomyShrinks

LEMMA RoomKept ==
  ASSUME IInv, IInv', Bounded, Roomy, [Next]_vars
  PROVE  Bounded' /\ Roomy'
<1>1. CASE UNCHANGED vars \/ Tick
  <2>1. UNCHANGED <<guard, issuers, charges, call>>
    BY <1>1 DEF vars, Tick
  <2>2. QED
    BY <2>1 DEF Bounded, Running, At, Roomy, RoomyGuards, RoomyHandles, RoomyTotal,
                Claimers, Chargers, Claimants
<1>2. ASSUME NEW c \in Call, ClaimStep(c) PROVE Bounded' /\ Roomy'
  BY <1>2, PartitionRoomy, GuardClaimRoomy, ChargeRoomy DEF ClaimStep
<1>3. ASSUME NEW c \in Call, CloseStep(c) PROVE Bounded' /\ Roomy'
  BY <1>3, CallRoomy, GuardCloseRoomy DEF CloseStep
<1>4. QED
  BY <1>1, <1>2, <1>3, CallRoomy, RestartRoomy DEF Next

LEMMA InitRoomy == Init => Bounded /\ Roomy
<1> SUFFICES ASSUME Init PROVE Bounded /\ Roomy
  OBVIOUS
<1>1. /\ \A c \in Call : call[c].pc = "idle"
      /\ guard = [r \in Ref |-> Empty] /\ DOMAIN issuers = {}
      /\ charges = [d \in Doc |-> 0]
  BY DEF Init, IdleCall
<1>2. /\ Running = {} /\ Claimants = {} /\ \A r : Claimers(r) = {}
      /\ \A h : Chargers(h) = {}
  BY <1>1 DEF Running, At, Claiming, Closing, Claimers, Claimants, Chargers
<1>3. /\ AllHeld(guard, issuers) = {} /\ \A r \in Ref : DOMAIN guard[r] = {}
      /\ \A h : ChargesOf(charges, h) = {}
  <2>1. 1..0 = {}
    OBVIOUS
  <2>2. \A h : ChargesOf(charges, h) = {}
    BY <1>1, <2>1 DEF ChargesOf
  <2>3. QED
    BY <1>1, <2>2, EmptyEntries DEF AllHeld
<1>4. \A m \in Nat : Room({}, {}, m)
  BY FS_EmptySet, ReplayAssumption DEF Room
<1>5. Bounded
  BY <1>2, FS_EmptySet, BudgetsAreNumbers DEF Bounded
<1>6. RoomyGuards /\ RoomyHandles
  BY <1>2, <1>3, <1>4, BudgetsAreNumbers DEF RoomyGuards, RoomyHandles
<1>7. RoomyTotal
  <2>1. Room({}, {}, 2 * Total)
    BY <1>4, BudgetsAreNumbers
  <2>2. QED
    BY <1>2, <1>3, <2>1 DEF RoomyTotal
<1>8. QED
  BY <1>5, <1>6, <1>7 DEF Roomy

(* Calls never outnumber the workers, and each budget has room for those that *)
(* were let go on.                                                            *)
LEMMA AlwaysRoomy == Spec => [](IInv /\ Bounded /\ Roomy)
<1>1. Init => IInv /\ Bounded /\ Roomy
  BY InitHolds, InitRoomy
<1>2. IInv /\ Bounded /\ Roomy /\ [Next]_vars => IInv' /\ Bounded' /\ Roomy'
  BY InvariantKept, RoomKept
<1>3. QED
  BY <1>1, <1>2, PTL DEF Spec

(* A set with room reserved is below its bound by more than what is reserved. *)
LEMMA RoomBounds ==
  ASSUME NEW A, NEW B \in SUBSET Call, NEW m \in Nat, Room(A, B, m)
  PROVE  /\ IsFiniteSet(A) /\ Cardinality(A) \in Nat /\ Cardinality(A) < m + Workers
         /\ B # {} => Cardinality(A) < m + Workers - 1
<1>1. IsFiniteSet(A) /\ IsFiniteSet(B)
  BY ReplayAssumption, FS_Subset DEF Room
<1>2. /\ Cardinality(A) \in Nat /\ Cardinality(B) \in Nat /\ Workers \in Nat
      /\ Cardinality(B) = 0 <=> B = {}
  BY <1>1, FS_CardinalityType, FS_EmptySet, ReplayAssumption
<1>3. QED
  BY <1>1, <1>2 DEF Room

(* The three budgets, which one critical section checks and two later ones    *)
(* spend, are never overrun by more than the calls that run beside the one    *)
(* that reached them - for any budgets, workers, callers, documents and       *)
(* interleavings (replay.rs, partition and claim).                            *)
THEOREM BudgetsAreBounded == Spec => []BudgetsBounded
<1>1. IInv /\ Bounded /\ Roomy => BudgetsBounded
  <2> SUFFICES ASSUME IInv, Roomy PROVE BudgetsBounded
    OBVIOUS
  <2>1. /\ Claimants \in SUBSET Call /\ \A r : Claimers(r) \in SUBSET Call
        /\ \A h : Chargers(h) \in SUBSET Call
    BY DEF Claimants, Claimers, Chargers
  <2>2. ASSUME NEW i \in DOMAIN issuers PROVE Held(issuers[i]) < PerIssuer + Workers
    <3>1. issuers[i] \in Ref
      BY DEF IInv, TypeOK
    <3>2. QED
      BY <2>1, <3>1, RoomBounds, BudgetsAreNumbers DEF Roomy, RoomyGuards, Held
  <2>3. ASSUME NEW h PROVE Charged(charges, h) < PerHandle + Workers
    BY <2>1, RoomBounds, BudgetsAreNumbers DEF Roomy, RoomyHandles, Charged
  <2>4. TotalHeld(guard, issuers) < 2 * Total + Workers
    BY <2>1, RoomBounds, BudgetsAreNumbers DEF Roomy, RoomyTotal, TotalHeld
  <2>5. QED
    BY <2>2, <2>3, <2>4 DEF BudgetsBounded
<1>2. QED
  BY <1>1, AlwaysRoomy, PTL

(* With one or two workers a guard never evicts a live entry: the capacity    *)
(* "one above the bound" is enough for two claims that passed the budget      *)
(* together, and for no more (replay.rs, partition).                          *)
THEOREM TwoWorkersNeverEvict ==
  ASSUME Workers <= 2
  PROVE  Spec => []NeverEvicts
<1>1. IInv /\ Bounded /\ Roomy => NeverEvicts
  <2> SUFFICES ASSUME IInv, Roomy, NEW c \in At({"claim"})
               PROVE  Cardinality(DOMAIN Live(c)) < Capacity
    BY DEF NeverEvicts
  <2>1. PICK r \in Ref : r = call[c].ref /\ c \in Call /\ call[c].pc = "claim"
    BY CallStates DEF At, IInv, Holding
  <2>2. Claimers(r) \in SUBSET Call /\ Claimers(r) # {}
    BY <2>1 DEF Claimers
  <2>3. /\ IsFiniteSet(DOMAIN guard[r]) /\ Held(r) \in Nat
        /\ Held(r) < PerIssuer + Workers - 1
    BY <2>2, RoomBounds, BudgetsAreNumbers DEF Roomy, RoomyGuards, Held
  <2>4. Cardinality(DOMAIN Live(c)) <= Held(r) /\ Cardinality(DOMAIN Live(c)) \in Nat
    <3>1. DOMAIN Live(c) \subseteq DOMAIN guard[r]
      BY <2>1 DEF Live, Restrict
    <3>2. QED
      BY <2>3, <3>1, FS_Subset, FS_CardinalityType DEF Held
  <2>5. QED
    BY <2>3, <2>4, BudgetsAreNumbers DEF Capacity
<1>2. QED
  BY <1>1, AlwaysRoomy, PTL

(* So with two workers, and calls preempted for less than the margin, the     *)
(* record executes no document twice unless it has lost it ...                *)
THEOREM TwoWorkersExecuteOnce ==
  ASSUME Workers <= 2, MaxLag < Margin
  PROVE  Spec => ImplementsOnceOnly
BY TwoWorkersNeverEvict, RecordImplementsOnceOnly, PTL

(* ... no second document under a retained identifier is executed ...         *)
THEOREM TwoWorkersConflict ==
  ASSUME Workers <= 2, MaxLag < Margin
  PROVE  Spec => []IdsConflict
BY TwoWorkersNeverEvict, SecondUseOfAnIdConflicts, PTL

(* ... and no handle's budget leaks.                                          *)
THEOREM TwoWorkersBooksAgree ==
  ASSUME Workers <= 2, MaxLag < Margin
  PROVE  Spec => []ChargesMatchEntries
BY TwoWorkersNeverEvict, BooksAgree, PTL
=============================================================================
