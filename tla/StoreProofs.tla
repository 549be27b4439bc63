---------------------------- MODULE StoreProofs -----------------------------
(* The registry's types, its token index and its caps, for any handles,       *)
(* tokens, caps and snapshots.                                                *)
EXTENDS Store, FiniteSetTheorems, TLAPS

(* Dropping handles keeps the index the inverse of the handle map: what is    *)
(* removed from one is removed from the other, and an emptied list goes.      *)
LEMMA DropKeepsIndex ==
  ASSUME NEW G, IndexMatches, Drop(G) PROVE IndexMatches'
<1> DEFINE D == DOMAIN handles \ G
<1> DEFINE In(t) == {h \in DOMAIN handles : handles[h].token = t}
<1> DEFINE Left == {t \in DOMAIN byToken : byToken[t] \ G # {}}
<1>1. handles' = [h \in D |-> handles[h]]
  BY DEF Drop, Restrict
<1>2. byToken' = [t \in Left |-> byToken[t] \ G]
  BY DEF Drop, Unindexed, Restrict
<1>3. DOMAIN byToken = {handles[h].token : h \in DOMAIN handles}
  BY DEF IndexMatches, Index
<1>4. \A t \in DOMAIN byToken : byToken[t] = In(t)
  BY <1>3 DEF IndexMatches, Index
<1>5. DOMAIN handles' = D /\ \A h \in D : handles'[h] = handles[h]
  BY <1>1
<1>6. Left = {handles'[h].token : h \in DOMAIN handles'}
  <2>1. ASSUME NEW h \in D PROVE handles[h].token \in Left
    BY <1>3, <1>4
  <2>2. ASSUME NEW t \in Left PROVE \E h \in D : handles[h].token = t
    BY <1>4
  <2>3. QED
    BY <1>5, <2>1, <2>2
<1>7. \A t \in Left : byToken[t] \ G = {h \in DOMAIN handles' : handles'[h].token = t}
  BY <1>4, <1>5
<1>8. QED
  BY <1>2, <1>6, <1>7 DEF IndexMatches, Index

(* Indexing a handle that is not in the map keeps the index its inverse. *)
LEMMA AddKeepsIndex ==
  ASSUME NEW h, h \notin DOMAIN handles, NEW entry, IndexMatches, Add(h, entry)
  PROVE  IndexMatches'
<1> DEFINE T == DOMAIN byToken \cup {entry.token}
<1>1. DOMAIN handles' = DOMAIN handles \cup {h}
  BY DEF Add
<1>2. handles'[h] = entry /\ \A g \in DOMAIN handles : handles'[g] = handles[g]
  BY DEF Add
<1>3. DOMAIN byToken = {handles[g].token : g \in DOMAIN handles}
  BY DEF IndexMatches, Index
<1>4. \A t \in DOMAIN byToken : byToken[t] = {g \in DOMAIN handles : handles[g].token = t}
  BY <1>3 DEF IndexMatches, Index
<1>5. T = {handles'[g].token : g \in DOMAIN handles'}
  BY <1>1, <1>2, <1>3
<1>6. \A t : Sharing(t) = {g \in DOMAIN handles : handles[g].token = t}
  BY <1>3, <1>4 DEF Sharing
<1>7. \A t \in T : (IF t = entry.token THEN Sharing(t) \cup {h} ELSE byToken[t])
                     = {g \in DOMAIN handles' : handles'[g].token = t}
  BY <1>1, <1>2, <1>4, <1>6
<1>8. byToken' = [t \in T |-> IF t = entry.token THEN Sharing(t) \cup {h} ELSE byToken[t]]
  BY DEF Add
<1>9. QED
  BY <1>5, <1>7, <1>8 DEF IndexMatches, Index

(* Replacing an allowlist leaves every token where it is. *)
LEMMA ProvisionKeepsIndex ==
  ASSUME TypeOK, IndexMatches, NEW h, NEW caller, NEW triggers, Provision(h, caller, triggers)
  PROVE  IndexMatches'
<1>1. byToken' = byToken /\ DOMAIN handles' = DOMAIN handles
  BY DEF Provision
<1>2. \A g \in DOMAIN handles : handles'[g].token = handles[g].token
  BY DEF Provision, TypeOK, Entry
<1>3. QED
  BY <1>1, <1>2 DEF IndexMatches, Index

(* The fields of an entry with a new allowlist. *)
LEMMA TypedEntry ==
  ASSUME NEW e \in Entry, NEW triggers \in Triggers
  PROVE  [e EXCEPT !.triggers = triggers] \in Entry
BY DEF Entry

(* Dropping handles keeps the types. *)
LEMMA DropType ==
  ASSUME TypeOK, NEW G, Drop(G)
  PROVE  /\ DOMAIN handles' \subseteq DOMAIN handles
         /\ handles' \in [DOMAIN handles' -> Entry]
         /\ \A h \in DOMAIN handles' \ Respelled : handles'[h].controller \in Did
         /\ DOMAIN byToken' \subseteq Token
         /\ byToken' \in [DOMAIN byToken' -> SUBSET Handle]
BY DEF TypeOK, Drop, Unindexed, Restrict

(* Every operation keeps the types. *)
LEMMA NextType == TypeOK /\ [Next]_vars => TypeOK'
<1> SUFFICES ASSUME TypeOK, [Next]_vars PROVE TypeOK'
  OBVIOUS
<1> USE StoreAssumption
<1>1. ASSUME NEW h \in Handle, NEW tok \in Token, NEW n \in Name, Insert(h, tok, n)
      PROVE  TypeOK'
  <2> DEFINE entry == [token |-> tok, controller |-> StoredAs(n),
                       triggers |-> {}, createdAt |-> now]
  <2>1. entry \in Entry
    BY DEF Entry, StoredAs, Triggers, TypeOK
  <2>2. Add(h, entry)
    BY <1>1 DEF Insert
  <2>3. /\ DOMAIN handles' = DOMAIN handles \cup {h}
        /\ handles' \in [DOMAIN handles' -> Entry]
    BY <2>1, <2>2 DEF Add, TypeOK
  <2>4. \A t : Sharing(t) \subseteq Handle
    BY DEF Sharing, TypeOK
  <2>5. /\ DOMAIN byToken' \subseteq Token
        /\ byToken' \in [DOMAIN byToken' -> SUBSET Handle]
    BY <2>2, <2>4 DEF Add, TypeOK
  <2>6. \A g \in DOMAIN handles' \ Respelled : handles'[g].controller \in Did
    BY <2>2, <2>3 DEF Add, StoredAs, TypeOK
  <2>7. QED
    BY <1>1, <2>3, <2>5, <2>6 DEF Insert, TypeOK
<1>2. ASSUME NEW h \in Handle, NEW d \in Did, NEW tr \in Triggers, Provision(h, d, tr)
      PROVE  TypeOK'
  <2>1. h \in DOMAIN handles /\ handles[h] \in Entry
    BY <1>2 DEF Provision, MayProvision, TypeOK
  <2>2. handles' = [handles EXCEPT ![h] = [handles[h] EXCEPT !.triggers = tr]]
    BY <1>2 DEF Provision
  <2>3. DOMAIN handles' = DOMAIN handles /\ handles' \in [DOMAIN handles' -> Entry]
    BY <2>1, <2>2, TypedEntry DEF TypeOK
  <2>4. opted' \subseteq issued
    BY <1>2, <2>1 DEF Provision, TypeOK
  <2>5. \A g \in DOMAIN handles' \ Respelled : handles'[g].controller \in Did
    BY <2>2, <2>3 DEF TypeOK, Entry
  <2>6. QED
    BY <1>2, <2>3, <2>4, <2>5 DEF Provision, TypeOK
<1>3. ASSUME NEW h \in Handle, Remove(h) PROVE TypeOK'
  BY <1>3, DropType DEF Remove, TypeOK
<1>4. CASE Sweep
  BY <1>4, DropType DEF Sweep, TypeOK
<1>5. CASE Tick \/ SetBack
  BY <1>5 DEF Tick, SetBack, TypeOK
<1>6. CASE UNCHANGED vars
  BY <1>6 DEF vars, TypeOK
<1>7. QED
  BY <1>1, <1>2, <1>3, <1>4, <1>5, <1>6 DEF Next

(* Every operation keeps the index the inverse of the handle map. *)
LEMMA NextIndex == TypeOK /\ IndexMatches /\ [Next]_vars => IndexMatches'
<1> SUFFICES ASSUME TypeOK, IndexMatches, [Next]_vars PROVE IndexMatches'
  OBVIOUS
<1>1. ASSUME NEW h \in Handle, NEW tok \in Token, NEW n \in Name, Insert(h, tok, n)
      PROVE  IndexMatches'
  BY <1>1, AddKeepsIndex DEF Insert, TypeOK
<1>2. ASSUME NEW h \in Handle, NEW d \in Did, NEW tr \in Triggers, Provision(h, d, tr)
      PROVE  IndexMatches'
  BY <1>2, ProvisionKeepsIndex
<1>3. ASSUME NEW h \in Handle, Remove(h) PROVE IndexMatches'
  BY <1>3, DropKeepsIndex DEF Remove
<1>4. CASE Sweep
  BY <1>4, DropKeepsIndex DEF Sweep
<1>5. CASE Tick \/ SetBack \/ UNCHANGED vars
  BY <1>5 DEF Tick, SetBack, vars, IndexMatches
<1>6. QED
  BY <1>1, <1>2, <1>3, <1>4, <1>5 DEF Next

(* A registry opened from any snapshot is typed and indexed. *)
LEMMA InitStore == Init => TypeOK /\ IndexMatches
<1> SUFFICES ASSUME Init PROVE TypeOK /\ IndexMatches
  OBVIOUS
<1>1. DOMAIN Loaded \subseteq Handle /\ Loaded \in [DOMAIN Loaded -> Entry]
  BY StoreAssumption
<1>2. DOMAIN Index(Loaded) \subseteq Token
  BY <1>1 DEF Index, Entry
<1>3. Index(Loaded) \in [DOMAIN Index(Loaded) -> SUBSET Handle]
  BY <1>1 DEF Index
<1>4. TypeOK
  BY <1>1, <1>2, <1>3, StoreAssumption DEF Init, TypeOK, Respelled
<1>5. QED
  BY <1>4 DEF Init, IndexMatches

(* Every value keeps its type: a controller is always stored as an identity,  *)
(* whatever spelling registered it (store.rs, insert_at); only what an older  *)
(* build stored keeps its spelling.                                           *)
THEOREM TypeCorrect == Spec => []TypeOK
BY InitStore, NextType, PTL DEF Spec

(* The token index and the handle map never drift apart, whatever is added,   *)
(* removed or swept, and whatever snapshot the registry was opened with       *)
(* (store.rs, State).                                                         *)
THEOREM IndexNeverDrifts == Spec => []IndexMatches
BY InitStore, NextType, NextIndex, TypeCorrect, PTL DEF Spec

(* Only a dead token or the time-to-live takes a handle away, and the latter  *)
(* only while the handle holds no trigger (store.rs, remove and               *)
(* sweep_unprovisioned) - however the clock was set in between.               *)
THEOREM HandlesLeaveForAReason == Spec => LeavesOnlyStaleOrDead
<1> DEFINE Reason ==
      \A h \in DOMAIN handles \ DOMAIN handles' :
        h \in dead' \/ (handles[h].triggers = {} /\ now >= handles[h].createdAt + Ttl)
<1>1. TypeOK /\ [Next]_vars => [Reason]_vars
  <2> SUFFICES ASSUME TypeOK, [Next]_vars PROVE Reason
    OBVIOUS
  <2>1. ASSUME DOMAIN handles \subseteq DOMAIN handles' PROVE Reason
    BY <2>1
  <2>2. ASSUME NEW h \in Handle, NEW tok \in Token, NEW n \in Name, Insert(h, tok, n)
        PROVE  Reason
    BY <2>1, <2>2 DEF Insert, Add
  <2>3. ASSUME NEW h \in Handle, NEW d \in Did, NEW tr \in Triggers, Provision(h, d, tr)
        PROVE  Reason
    BY <2>1, <2>3 DEF Provision
  <2>4. ASSUME NEW h \in Handle, Remove(h) PROVE Reason
    BY <2>4 DEF Remove, Drop, Restrict
  <2>5. CASE Sweep
    <3>1. \A h \in DOMAIN handles \ DOMAIN handles' : Stale(h)
      BY <2>5 DEF Sweep, Drop, Restrict
    <3>2. ASSUME NEW h \in DOMAIN handles, Stale(h)
          PROVE  handles[h].triggers = {} /\ now >= handles[h].createdAt + Ttl
      <4>1. handles[h].createdAt \in Nat /\ now \in Nat
        BY StoreAssumption DEF TypeOK, Entry
      <4>2. QED
        BY <3>2, <4>1, StoreAssumption DEF Stale, Age
    <3>3. QED
      BY <3>1, <3>2
  <2>6. CASE Tick \/ SetBack \/ UNCHANGED vars
    BY <2>1, <2>6 DEF Tick, SetBack, vars
  <2>7. QED
    BY <2>2, <2>3, <2>4, <2>5, <2>6 DEF Next
<1>2. QED
  BY <1>1, TypeCorrect, PTL DEF Spec, LeavesOnlyStaleOrDead
-----------------------------------------------------------------------------
(* A set that only shrinks stays within its cap. *)
LEMMA FewerStay ==
  ASSUME NEW S, IsFiniteSet(S), NEW T, T \subseteq S, NEW n \in Nat, AtMost(S, n)
  PROVE  AtMost(T, n)
<1>1. Cardinality(S) \in Nat /\ Cardinality(T) \in Nat /\ Cardinality(T) <= Cardinality(S)
  BY FS_Subset, FS_CardinalityType
<1>2. QED
  BY <1>1 DEF AtMost

(* One more keeps a set within a cap that the check before found unreached,   *)
(* even when a larger snapshot has raised it.                                 *)
LEMMA OneMoreFits ==
  ASSUME NEW S, IsFiniteSet(S), NEW x, NEW T, T \subseteq S \cup {x},
         NEW m \in Nat, NEW n \in Nat, ~(Cardinality(S) >= m)
  PROVE  AtMost(T, Larger(m, n))
<1>1. IsFiniteSet(S \cup {x}) /\ Cardinality(S \cup {x}) <= Cardinality(S) + 1
  BY FS_AddElement, FS_CardinalityType
<1>2. Cardinality(T) <= Cardinality(S \cup {x})
  BY <1>1, FS_Subset
<1>3. Cardinality(S) \in Nat /\ Cardinality(T) \in Nat /\ Cardinality(S \cup {x}) \in Nat
  BY <1>1, FS_Subset, FS_CardinalityType
<1>4. QED
  BY <1>1, <1>2, <1>3 DEF AtMost, Larger

(* What the snapshot held is finite, so that it raises each cap to a number. *)
LoadedFor(t) == {h \in DOMAIN Loaded : Loaded[h].token = t}
LoadedBy(d) == {h \in DOMAIN Loaded : Loaded[h].controller = d}

LEMMA CapsAreNumbers ==
  /\ Cardinality(DOMAIN Loaded) \in Nat
  /\ \A t : Cardinality(LoadedFor(t)) \in Nat
  /\ \A d : Cardinality(LoadedBy(d)) \in Nat
<1>1. IsFiniteSet(DOMAIN Loaded)
  BY FS_Subset, StoreAssumption
<1>2. \A S \in SUBSET DOMAIN Loaded : Cardinality(S) \in Nat
  BY <1>1, FS_Subset, FS_CardinalityType
<1>3. QED
  BY <1>2 DEF LoadedFor, LoadedBy

(* A controller that insert stored is its own identity, so that counting the  *)
(* controllers as they are stored counts each of those under every spelling.  *)
LEMMA StoredBare ==
  ASSUME TypeOK, NEW d
  PROVE  {h \in DOMAIN handles \ Respelled : Bare[handles[h].controller] = d}
           \subseteq ControlledBy(d)
<1>1. \A h \in DOMAIN handles \ Respelled : handles[h].controller \in Did
  BY DEF TypeOK
<1>2. QED
  BY <1>1, StoreAssumption DEF ControlledBy

(* The per-token list that insert counts is every handle of that token. *)
LEMMA SharingCounts == ASSUME IndexMatches, NEW t PROVE Sharing(t) = With(t)
BY DEF IndexMatches, Index, Sharing, With

(* No operation but insert adds a handle or moves one to another token or     *)
(* controller.                                                                *)
Shrinks ==
  /\ DOMAIN handles' \subseteq DOMAIN handles
  /\ \A h \in DOMAIN handles' : /\ handles'[h].token = handles[h].token
                                /\ handles'[h].controller = handles[h].controller

LEMMA OthersShrink ==
  ASSUME TypeOK, [Next]_vars
  PROVE  \/ Shrinks
         \/ \E h \in Handle, tok \in Token, n \in Name : Insert(h, tok, n)
<1>1. ASSUME NEW h \in Handle, NEW d \in Did, NEW tr \in Triggers, Provision(h, d, tr)
      PROVE  Shrinks
  BY <1>1 DEF Provision, Shrinks, TypeOK, Entry
<1>2. ASSUME NEW h \in Handle, Remove(h) PROVE Shrinks
  BY <1>2 DEF Remove, Drop, Restrict, Shrinks
<1>3. CASE Sweep
  BY <1>3 DEF Sweep, Drop, Restrict, Shrinks
<1>4. CASE Tick \/ SetBack \/ UNCHANGED vars
  BY <1>4 DEF Tick, SetBack, vars, Shrinks
<1>5. QED
  BY <1>1, <1>2, <1>3, <1>4 DEF Next

(* Every operation keeps the caps.                                            *)
LEMMA NextCaps == TypeOK /\ TypeOK' /\ IndexMatches /\ CapsHold /\ [Next]_vars => CapsHold'
<1> SUFFICES ASSUME TypeOK, TypeOK', IndexMatches, CapsHold, [Next]_vars PROVE CapsHold'
  OBVIOUS
<1> DEFINE By(d) == {h \in DOMAIN handles \ Respelled : Bare[handles[h].controller] = d}
<1> DEFINE allowed == Larger(MaxHandles, Cardinality(DOMAIN Loaded))
<1> DEFINE perToken(t) == Larger(MaxPerToken, Cardinality(LoadedFor(t)))
<1> DEFINE perController(d) == Larger(MaxPerController, Cardinality(LoadedBy(d)))
<1>1. /\ allowed \in Nat
      /\ \A t : perToken(t) \in Nat
      /\ \A d : perController(d) \in Nat
  BY CapsAreNumbers, StoreAssumption DEF Larger
<1>2. /\ IsFiniteSet(DOMAIN handles)
      /\ \A t : IsFiniteSet(With(t))
      /\ \A d : IsFiniteSet(By(d)) /\ IsFiniteSet(ControlledBy(d))
  <2>1. DOMAIN handles \subseteq Handle /\ IsFiniteSet(Handle)
    BY StoreAssumption DEF TypeOK
  <2>2. \A S \in SUBSET DOMAIN handles : IsFiniteSet(S)
    BY <2>1, FS_Subset
  <2>3. QED
    BY <2>2 DEF With, ControlledBy
<1>3. /\ AtMost(DOMAIN handles, allowed)
      /\ \A t \in Token : AtMost(With(t), perToken(t))
      /\ \A d \in Did : AtMost(By(d), perController(d))
  BY DEF CapsHold, TotalCap, TokenCap, ControllerCap, LoadedFor, LoadedBy
<1>4. /\ AtMost(DOMAIN handles', allowed)
      /\ \A t \in Token : AtMost(With(t)', perToken(t))
      /\ \A d \in Did : AtMost(By(d)', perController(d))
  <2>1. CASE Shrinks
    <3>1. /\ DOMAIN handles' \subseteq DOMAIN handles
          /\ \A t : With(t)' \subseteq With(t)
          /\ \A d : By(d)' \subseteq By(d)
      BY <2>1 DEF Shrinks, With
    <3>2. AtMost(DOMAIN handles', allowed)
      BY <1>1, <1>2, <1>3, <3>1, FewerStay
    <3>3. ASSUME NEW t \in Token PROVE AtMost(With(t)', perToken(t))
      BY <1>1, <1>2, <1>3, <3>1, FewerStay
    <3>4. ASSUME NEW d \in Did PROVE AtMost(By(d)', perController(d))
      <4>1. By(d)' \subseteq By(d) /\ IsFiniteSet(By(d))
        BY <1>2, <3>1
      <4>2. AtMost(By(d), perController(d)) /\ perController(d) \in Nat
        BY <1>1, <1>3
      <4>3. QED
        BY <4>1, <4>2, FewerStay
    <3>5. QED
      BY <3>2, <3>3, <3>4
  <2>2. ASSUME NEW h \in Handle, NEW tok \in Token, NEW n \in Name, Insert(h, tok, n)
        PROVE  /\ AtMost(DOMAIN handles', allowed)
               /\ \A t \in Token : AtMost(With(t)', perToken(t))
               /\ \A d \in Did : AtMost(By(d)', perController(d))
    <3> DEFINE owner == StoredAs(n)
    <3>1. /\ DOMAIN handles' = DOMAIN handles \cup {h}
          /\ handles'[h].token = tok /\ handles'[h].controller = owner
          /\ \A g \in DOMAIN handles : handles'[g] = handles[g] /\ g # h
      BY <2>2 DEF Insert, Add, TypeOK
    <3>2. owner \in Did /\ Bare[owner] = owner
      BY StoreAssumption DEF StoredAs
    <3>3. /\ ~(Cardinality(DOMAIN handles) >= MaxHandles)
          /\ ~(Cardinality(ControlledBy(owner)) >= MaxPerController)
          /\ ~(Cardinality(With(tok)) >= MaxPerToken)
      BY <2>2, SharingCounts DEF Insert, Capped
    <3>4. AtMost(DOMAIN handles', allowed)
      BY <1>2, <3>1, <3>3, OneMoreFits, CapsAreNumbers, StoreAssumption
    <3>5. ASSUME NEW t \in Token PROVE AtMost(With(t)', perToken(t))
      <4>1. CASE t = tok
        <5>1. With(t)' \subseteq With(t) \cup {h}
          BY <3>1 DEF With
        <5>2. QED
          BY <1>2, <3>3, <4>1, <5>1, OneMoreFits, CapsAreNumbers, StoreAssumption
      <4>2. CASE t # tok
        <5>1. With(t)' \subseteq With(t)
          BY <3>1, <4>2 DEF With
        <5>2. QED
          BY <1>1, <1>2, <1>3, <5>1, FewerStay
      <4>3. QED
        BY <4>1, <4>2
    <3>6. ASSUME NEW d \in Did PROVE AtMost(By(d)', perController(d))
      <4>1. CASE d = owner
        <5>1. By(d)' \subseteq ControlledBy(d) \cup {h}
          BY <3>1, StoredBare DEF ControlledBy
        <5>2. QED
          BY <1>2, <3>3, <4>1, <5>1, OneMoreFits, CapsAreNumbers, StoreAssumption
      <4>2. CASE d # owner
        <5>1. By(d)' \subseteq By(d)
          BY <3>1, <3>2, <4>2
        <5>2. QED
          BY <1>1, <1>2, <1>3, <5>1, FewerStay
      <4>3. QED
        BY <4>1, <4>2
    <3>7. QED
      BY <3>4, <3>5, <3>6
  <2>3. QED
    BY <2>1, <2>2, OthersShrink
<1>5. QED
  BY <1>4 DEF CapsHold, TotalCap, TokenCap, ControllerCap, LoadedFor, LoadedBy

(* A registry opened from any snapshot is within its caps, which that         *)
(* snapshot raised.                                                           *)
LEMMA InitCaps == Init => CapsHold
<1> SUFFICES ASSUME Init PROVE CapsHold
  OBVIOUS
<1>1. /\ MaxHandles \in Nat /\ MaxPerToken \in Nat /\ MaxPerController \in Nat
      /\ handles = Loaded
  BY StoreAssumption DEF Init
<1>2. TotalCap
  BY <1>1, CapsAreNumbers DEF TotalCap, AtMost, Larger
<1>3. TokenCap
  BY <1>1, CapsAreNumbers DEF TokenCap, AtMost, Larger, With, LoadedFor
<1>4. ControllerCap
  <2> DEFINE By(d) == {h \in DOMAIN handles \ Respelled : Bare[handles[h].controller] = d}
  <2> DEFINE perController(d) == Larger(MaxPerController, Cardinality(LoadedBy(d)))
  <2>1. \A d : By(d) \subseteq LoadedBy(d)
    BY <1>1, InitStore, StoredBare DEF ControlledBy, LoadedBy
  <2>2. ASSUME NEW d PROVE IsFiniteSet(LoadedBy(d))
    BY FS_Subset, StoreAssumption DEF LoadedBy
  <2>3. ASSUME NEW d \in Did PROVE AtMost(LoadedBy(d), perController(d))
    BY <1>1, CapsAreNumbers DEF AtMost, Larger
  <2>4. \A d : perController(d) \in Nat
    BY <1>1, CapsAreNumbers DEF Larger
  <2>5. ASSUME NEW d \in Did PROVE AtMost(By(d), perController(d))
    BY <2>1, <2>2, <2>3, <2>4, FewerStay
  <2>6. QED
    BY <2>5 DEF ControllerCap, LoadedBy
<1>5. QED
  BY <1>2, <1>3, <1>4 DEF CapsHold

(* No cap is ever exceeded but by what the snapshot already held: not the     *)
(* registry's, not a token's, not a controller's under any spelling of its    *)
(* DID (store.rs, insert_at) - the per-token one because the index insert     *)
(* counts in never drifts from the map.                                       *)
THEOREM CapsAreNeverExceeded == Spec => []CapsHold
BY InitCaps, InitStore, NextType, NextIndex, NextCaps, TypeCorrect, IndexNeverDrifts, PTL DEF Spec
=============================================================================
