---------------------------- MODULE GatewayProofs ----------------------------
(* For any calls, documents, handles, budgets and workers: the handlers use   *)
(* the record and the registry as Replay and Store describe them, so that the *)
(* theorems about those two hold of the gateway; no handler leaks its claim;  *)
(* the answer a duplicate gets is what happened; and a document takes effect  *)
(* once, unless the record lost it, which one worker never does.              *)
EXTENDS Gateway, FiniteSetTheorems, TLAPS

(* The record under the gateway's calls, and the registry, with what is       *)
(* proved about them.                                                         *)
recordCall == [c \in Call |-> AsReplayCall(c)]

RP == INSTANCE ReplayProofs WITH Response <- Responses, call <- recordCall
SP == INSTANCE StoreProofs

(* The constants are what the two describe; documents carry authenticated     *)
(* DIDs, and allowlists are stored by identity.                               *)
ASSUME GatewayAssumption ==
  /\ RP!WindowAssumption /\ RP!ReplayAssumption /\ SP!StoreAssumption
  /\ \A d \in Doc :
       /\ d.kind \in {"provision", "wake"}
       /\ d.issuer \in Name /\ d.triggers \subseteq Did

Pc == {"idle", "arrived", "checked", "admitted"} \cup R!Claiming \cup R!Closing
State == [pc : Pc, doc : Doc \cup {NoDoc}, at : 0..MaxTime, ref : Ref \cup {NoRef},
          resp : Responses \cup {InFlight}]

(* The types of the record and of the calls, and no more calls run than there *)
(* are workers.                                                               *)
CallsOK ==
  /\ call \in [Call -> State]
  /\ \A c \in Call : (call[c].pc = "idle") = (call[c].doc = NoDoc)
WorkersHold == Cardinality(Running) <= Workers
Typed == RP!IInv /\ CallsOK /\ WorkersHold
-----------------------------------------------------------------------------
(* What the assumptions say.                                                  *)
LEMMA RecordConstants ==
  ASSUME RP!ReplayAssumption
  PROVE  /\ IsFiniteSet(Call) /\ Workers \in Nat \ {0} /\ MaxTime \in Nat
         /\ InFlight \notin Responses /\ NoDoc \notin Doc
<1>1. RP!IsFiniteSet(Call) /\ Workers \in Nat \ {0} /\ MaxTime \in Nat
  BY RP!ReplayAssumption
<1>2. InFlight \notin Responses /\ NoDoc \notin Doc
  BY RP!ReplayAssumption
<1>3. QED
  BY <1>1, <1>2 DEF IsFiniteSet, RP!IsFiniteSet

LEMMA RegistryConstants ==
  ASSUME SP!StoreAssumption
  PROVE  /\ Did \subseteq Name /\ Bare \in [Name -> Did] /\ \A d \in Did : Bare[d] = d
         /\ MaxTime \in Nat
BY SP!StoreAssumption

LEMMA Constants ==
  /\ IsFiniteSet(Call) /\ Workers \in Nat \ {0} /\ MaxTime \in Nat
  /\ InFlight \notin Responses /\ NoDoc \notin Doc
  /\ Did \subseteq Name /\ Bare \in [Name -> Did] /\ \A d \in Did : Bare[d] = d
BY GatewayAssumption, RecordConstants, RegistryConstants

(* A call as the record sees it. *)
AsRecord(s) ==
  IF s.pc \in {"arrived", "checked"} THEN [s EXCEPT !.pc = "admitting"] ELSE s

LEMMA RecordCalls ==
  ASSUME CallsOK
  PROVE  /\ DOMAIN recordCall = Call
         /\ \A c \in Call : /\ recordCall[c] = AsRecord(call[c])
                            /\ recordCall[c].ref = call[c].ref
                            /\ recordCall[c].doc = call[c].doc
                            /\ recordCall[c].at = call[c].at
                            /\ recordCall[c].resp = call[c].resp
                            /\ recordCall[c].pc = IF call[c].pc \in {"arrived", "checked"}
                                                  THEN "admitting" ELSE call[c].pc
BY DEF CallsOK, State, recordCall, AsReplayCall, AsRecord

LEMMA OneCall ==
  ASSUME CallsOK, NEW c \in Call, NEW s, call' = [call EXCEPT ![c] = s]
  PROVE  /\ DOMAIN call' = Call /\ call'[c] = s /\ \A b \in Call \ {c} : call'[b] = call[b]
         /\ recordCall' = [recordCall EXCEPT ![c] = AsRecord(s)]
<1>1. DOMAIN call' = Call /\ call'[c] = s /\ \A b \in Call \ {c} : call'[b] = call[b]
  BY DEF CallsOK
<1>2. recordCall' = [recordCall EXCEPT ![c] = AsRecord(s)]
  BY <1>1 DEF recordCall, AsReplayCall, AsRecord
<1>3. QED
  BY <1>1, <1>2

(* A step of one call: the others stay, and it keeps its document until it    *)
(* returns.                                                                   *)
OnlyMoves(c) == call' = [b \in Call |-> call'[b]] /\ \A b \in Call \ {c} : call'[b] = call[b]
Continues(c) ==
  /\ call[c].pc # "idle" /\ call'[c].pc # "idle" /\ call'[c].doc = call[c].doc
  /\ call'[c].pc \in {"arrived", "checked"} => call'[c] \in State
MovesOn(c) == OnlyMoves(c) /\ (call'[c] = R!IdleCall \/ Continues(c))

LEMMA CallsStay ==
  ASSUME CallsOK, RP!TypeOK', NEW c \in Call, OnlyMoves(c),
         call'[c].pc \in {"arrived", "checked"} => call'[c] \in State,
         (call'[c].pc = "idle") = (call'[c].doc = NoDoc)
  PROVE  CallsOK'
<1>1. recordCall' \in [Call -> RP!CallState]
  BY DEF RP!TypeOK
<1>2. call'[c] \in State
  <2>1. recordCall'[c] = AsRecord(call'[c])
    BY DEF recordCall, AsReplayCall, AsRecord
  <2>2. CASE call'[c].pc \notin {"arrived", "checked"}
    <3>1. call'[c] \in RP!CallState
      BY <1>1, <2>1, <2>2 DEF AsRecord
    <3>2. QED
      BY <3>1 DEF RP!CallState, State, Pc, RP!Claiming, RP!Closing, R!Claiming, R!Closing
  <2>3. QED
    BY <2>2
<1>3. QED
  BY <1>2 DEF CallsOK, OnlyMoves

-----------------------------------------------------------------------------
(* The steps of a handler are steps of the record, or leave it alone.         *)
LEMMA RecordReturn ==
  ASSUME CallsOK, NEW c \in Call, R!Return(c)
  PROVE  RP!Return(c)
<1>1. call' = [call EXCEPT ![c] = R!IdleCall]
  BY DEF R!Return
<1>2. AsRecord(R!IdleCall) = RP!IdleCall
  BY DEF AsRecord, R!IdleCall, RP!IdleCall
<1>3. QED
  BY <1>1, <1>2, OneCall DEF RP!Return

(* A step in which a call that is at a point of the record stays at one.      *)
LEMMA RecordCall ==
  ASSUME CallsOK, NEW c \in Call, NEW s, call' = [call EXCEPT ![c] = s],
         s.pc \notin {"arrived", "checked"}
  PROVE  recordCall' = [recordCall EXCEPT ![c] = s]
BY OneCall DEF AsRecord

(* Replay's operators that do not mention the calls are the same here. *)
LEMMA SamePurge ==
  /\ \A t : RP!Purged(t) = R!Purged(t) /\ RP!PurgedCharges(t) = R!PurgedCharges(t)
  /\ \A g : RP!Kept(g) = R!Kept(g)
  /\ \A ch, h : RP!OverHandle(ch, h) <=> R!OverHandle(ch, h)
  /\ \A g, m : RP!TotalHeld(g, m) = R!TotalHeld(g, m)
  /\ \A held, total, active : RP!Busy(held, total, active) <=> R!Busy(held, total, active)
  /\ \A z : RP!Cardinality(z) = R!Cardinality(z)
  /\ RP!Empty = R!Empty /\ RP!IdleCall = R!IdleCall
<1>1. \A z : RP!Cardinality(z) = R!Cardinality(z)
  BY DEF RP!Cardinality, R!Cardinality
<1>2. \A t : RP!Purged(t) = R!Purged(t) /\ RP!PurgedCharges(t) = R!PurgedCharges(t)
  BY DEF RP!Purged, R!Purged, RP!PurgedCharges, R!PurgedCharges, RP!Mapped, R!Mapped,
         RP!Range, R!Range, RP!Restrict, R!Restrict, RP!Retained, R!Retained,
         RP!LastFresh, R!LastFresh
<1>3. \A g : RP!Kept(g) = R!Kept(g)
  BY DEF RP!Kept, R!Kept, RP!Restrict, R!Restrict
<1>4. \A ch, h : RP!OverHandle(ch, h) <=> R!OverHandle(ch, h)
  BY <1>1 DEF RP!OverHandle, R!OverHandle, RP!Charged, R!Charged, RP!ChargesOf, R!ChargesOf
<1>5. \A g, m : RP!TotalHeld(g, m) = R!TotalHeld(g, m)
  BY <1>1 DEF RP!TotalHeld, R!TotalHeld, RP!AllHeld, R!AllHeld
<1>6. \A held, total, active : RP!Busy(held, total, active) <=> R!Busy(held, total, active)
  BY DEF RP!Busy, R!Busy, RP!FairShare, R!FairShare, RP!Max, R!Max
<1>7. RP!Empty = R!Empty /\ RP!IdleCall = R!IdleCall
  BY DEF RP!Empty, R!Empty, RP!IdleCall, R!IdleCall
<1>8. QED
  BY <1>1, <1>2, <1>3, <1>4, <1>5, <1>6, <1>7

(* The ways in which a step of the record changes a call. *)
LEMMA RecordMoves ==
  ASSUME CallsOK, NEW c \in Call, call[c].pc \notin {"arrived", "checked"}
  PROVE  /\ call' = [call EXCEPT ![c].pc = "lookup"]
           => recordCall' = [recordCall EXCEPT ![c].pc = "lookup"]
         /\ \A r : call' = [call EXCEPT ![c].pc = "claim", ![c].ref = r]
           => recordCall' = [recordCall EXCEPT ![c].pc = "claim", ![c].ref = r]
         /\ \A r : call' = [call EXCEPT ![c].pc = "close", ![c].ref = r]
           => recordCall' = [recordCall EXCEPT ![c].pc = "close", ![c].ref = r]
         /\ call' = [call EXCEPT ![c].pc = "charge", ![c].ref = NoRef]
           => recordCall' = [recordCall EXCEPT ![c].pc = "charge", ![c].ref = NoRef]
         /\ call' = [call EXCEPT ![c].pc = "admitted", ![c].at = 0]
           => recordCall' = [recordCall EXCEPT ![c].pc = "admitted", ![c].at = 0]
         /\ \A resp : call' = [call EXCEPT ![c].pc = "lookup", ![c].resp = resp]
           => recordCall' = [recordCall EXCEPT ![c].pc = "lookup", ![c].resp = resp]
         /\ call' = [call EXCEPT ![c].pc = "uncharge", ![c].resp = InFlight]
           => recordCall' = [recordCall EXCEPT ![c].pc = "uncharge", ![c].resp = InFlight]
<1>1. recordCall[c] = call[c] /\ call[c] \in State /\ DOMAIN recordCall = Call
  BY RecordCalls DEF AsRecord, CallsOK
<1>2. ASSUME call' = [call EXCEPT ![c].pc = "lookup"]
      PROVE  recordCall' = [recordCall EXCEPT ![c].pc = "lookup"]
  <2> DEFINE s == [call[c] EXCEPT !.pc = "lookup"]
  <2>1. call' = [call EXCEPT ![c] = s] /\ s.pc = "lookup"
    BY <1>1, <1>2 DEF CallsOK, State
  <2> HIDE DEF s
  <2>2. recordCall' = [recordCall EXCEPT ![c] = s]
    BY <2>1, RecordCall
  <2>3. QED
    BY <1>1, <2>2 DEF s
<1>3. ASSUME NEW r, call' = [call EXCEPT ![c].pc = "claim", ![c].ref = r]
      PROVE  recordCall' = [recordCall EXCEPT ![c].pc = "claim", ![c].ref = r]
  <2> DEFINE s == [call[c] EXCEPT !.pc = "claim", !.ref = r]
  <2>1. call' = [call EXCEPT ![c] = s] /\ s.pc = "claim"
    BY <1>1, <1>3 DEF CallsOK, State
  <2> HIDE DEF s
  <2>2. recordCall' = [recordCall EXCEPT ![c] = s]
    BY <2>1, RecordCall
  <2>3. QED
    BY <1>1, <2>2 DEF s
<1>4. ASSUME NEW r, call' = [call EXCEPT ![c].pc = "close", ![c].ref = r]
      PROVE  recordCall' = [recordCall EXCEPT ![c].pc = "close", ![c].ref = r]
  <2> DEFINE s == [call[c] EXCEPT !.pc = "close", !.ref = r]
  <2>1. call' = [call EXCEPT ![c] = s] /\ s.pc = "close"
    BY <1>1, <1>4 DEF CallsOK, State
  <2> HIDE DEF s
  <2>2. recordCall' = [recordCall EXCEPT ![c] = s]
    BY <2>1, RecordCall
  <2>3. QED
    BY <1>1, <2>2 DEF s
<1>5. ASSUME call' = [call EXCEPT ![c].pc = "charge", ![c].ref = NoRef]
      PROVE  recordCall' = [recordCall EXCEPT ![c].pc = "charge", ![c].ref = NoRef]
  <2> DEFINE s == [call[c] EXCEPT !.pc = "charge", !.ref = NoRef]
  <2>1. call' = [call EXCEPT ![c] = s] /\ s.pc = "charge"
    BY <1>1, <1>5 DEF CallsOK, State
  <2> HIDE DEF s
  <2>2. recordCall' = [recordCall EXCEPT ![c] = s]
    BY <2>1, RecordCall
  <2>3. QED
    BY <1>1, <2>2 DEF s
<1>6. ASSUME call' = [call EXCEPT ![c].pc = "admitted", ![c].at = 0]
      PROVE  recordCall' = [recordCall EXCEPT ![c].pc = "admitted", ![c].at = 0]
  <2> DEFINE s == [call[c] EXCEPT !.pc = "admitted", !.at = 0]
  <2>1. call' = [call EXCEPT ![c] = s] /\ s.pc = "admitted"
    BY <1>1, <1>6 DEF CallsOK, State
  <2> HIDE DEF s
  <2>2. recordCall' = [recordCall EXCEPT ![c] = s]
    BY <2>1, RecordCall
  <2>3. QED
    BY <1>1, <2>2 DEF s
<1>7. ASSUME NEW resp, call' = [call EXCEPT ![c].pc = "lookup", ![c].resp = resp]
      PROVE  recordCall' = [recordCall EXCEPT ![c].pc = "lookup", ![c].resp = resp]
  <2> DEFINE s == [call[c] EXCEPT !.pc = "lookup", !.resp = resp]
  <2>1. call' = [call EXCEPT ![c] = s] /\ s.pc = "lookup"
    BY <1>1, <1>7 DEF CallsOK, State
  <2> HIDE DEF s
  <2>2. recordCall' = [recordCall EXCEPT ![c] = s]
    BY <2>1, RecordCall
  <2>3. QED
    BY <1>1, <2>2 DEF s
<1>8. ASSUME call' = [call EXCEPT ![c].pc = "uncharge", ![c].resp = InFlight]
      PROVE  recordCall' = [recordCall EXCEPT ![c].pc = "uncharge", ![c].resp = InFlight]
  <2> DEFINE s == [call[c] EXCEPT !.pc = "uncharge", !.resp = InFlight]
  <2>1. call' = [call EXCEPT ![c] = s] /\ s.pc = "uncharge"
    BY <1>1, <1>8 DEF CallsOK, State
  <2> HIDE DEF s
  <2>2. recordCall' = [recordCall EXCEPT ![c] = s]
    BY <2>1, RecordCall
  <2>3. QED
    BY <1>1, <2>2 DEF s
<1>9. QED
  BY <1>2, <1>3, <1>4, <1>5, <1>6, <1>7, <1>8

LEMMA SameUpdate ==
  ASSUME CallsOK, NEW c \in Call
  PROVE  \A r, entries : RP!Update(r, c, entries) = R!Update(r, c, entries)
<1>1. \A b \in Call : recordCall[b].ref = call[b].ref
  BY RecordCalls
<1>2. QED
  BY <1>1 DEF RP!Update, R!Update, RP!Outlives, R!Outlives, RP!Mapped, R!Mapped,
              RP!Range, R!Range, RP!Empty, R!Empty

LEMMA RecordPartition ==
  ASSUME CallsOK, NEW c \in Call, R!Partition(c)
  PROVE  RP!Partition(c)
<1>1. recordCall[c] = call[c] /\ call[c].pc = "admitting"
  BY RecordCalls DEF R!Partition, AsRecord
<1>2. RP!FreeRef = R!FreeRef
  <2>1. \A b \in Call : recordCall[b].ref = call[b].ref
    BY RecordCalls
  <2>2. QED
    BY <2>1 DEF RP!FreeRef, R!FreeRef, RP!Mapped, R!Mapped, RP!Range, R!Range
<1>3. R!Return(c) => RP!Return(c)
  BY RecordReturn
<1>4. \A r : call' = [call EXCEPT ![c].pc = "claim", ![c].ref = r]
             => recordCall' = [recordCall EXCEPT ![c].pc = "claim", ![c].ref = r]
  BY <1>1, RecordMoves
<1>5. \A m, i : RP!GuardOf(m, i) = R!GuardOf(m, i)
  BY <1>2 DEF RP!GuardOf, R!GuardOf
<1>6. QED
  BY <1>1, <1>3, <1>4, <1>5, SamePurge DEF R!Partition, RP!Partition

LEMMA RecordGuardClaim ==
  ASSUME CallsOK, NEW c \in Call, R!GuardClaim(c)
  PROVE  RP!GuardClaim(c)
<1>1. recordCall[c] = call[c] /\ call[c].pc = "claim"
  BY RecordCalls DEF R!GuardClaim, AsRecord
<1>2. RP!Live(c) = R!Live(c)
  BY <1>1 DEF RP!Live, R!Live, RP!Restrict, R!Restrict, RP!Retained, R!Retained,
              RP!LastFresh, R!LastFresh
<1>3. RP!Verdict(c) = R!Verdict(c) /\ RP!Evicted(c) = R!Evicted(c)
  BY <1>1, <1>2, SamePurge DEF RP!Verdict, R!Verdict, RP!Prior, R!Prior, RP!Twins, R!Twins,
              RP!Evicted, R!Evicted, RP!Capacity, R!Capacity
<1>4. \A r, entries : RP!Update(r, c, entries) = R!Update(r, c, entries)
  BY SameUpdate
<1>5. \A g, d, resp, z : /\ RP!Record(g, d, resp) = R!Record(g, d, resp)
                         /\ RP!Restrict(g, z) = R!Restrict(g, z)
  BY DEF RP!Record, R!Record, RP!Restrict, R!Restrict
<1>6. call' = [call EXCEPT ![c].pc = "charge", ![c].ref = NoRef]
        => recordCall' = [recordCall EXCEPT ![c].pc = "charge", ![c].ref = NoRef]
  BY <1>1, RecordMoves
<1>7. RP!Mapped = R!Mapped
  BY DEF RP!Mapped, R!Mapped, RP!Range, R!Range
<1>8. CASE R!Verdict(c) = "fresh"
  <2>1. PICK out \in R!Evicted(c) :
          guard' = R!Update(call[c].ref, c,
                     R!Record(R!Restrict(R!Live(c), DOMAIN R!Live(c) \ out), call[c].doc, InFlight))
    BY <1>8 DEF R!GuardClaim
  <2>2. guard' = RP!Update(recordCall[c].ref, c,
                   RP!Record(RP!Restrict(RP!Live(c), DOMAIN RP!Live(c) \ out),
                             recordCall[c].doc, InFlight))
    BY <1>1, <1>2, <1>4, <1>5, <2>1
  <2>3. QED
    BY <1>1, <1>3, <1>6, <1>7, <1>8, <2>2 DEF R!GuardClaim, RP!GuardClaim
<1>9. CASE R!Verdict(c) # "fresh"
  BY <1>1, <1>2, <1>3, <1>4, <1>9, RecordReturn DEF R!GuardClaim, RP!GuardClaim
<1>10. QED
  BY <1>8, <1>9

LEMMA RecordGuardClose ==
  ASSUME CallsOK, NEW c \in Call, R!GuardClose(c)
  PROVE  RP!GuardClose(c)
<1>1. recordCall[c] = call[c] /\ call[c].pc = "close"
  BY RecordCalls DEF R!GuardClose, AsRecord
<1>2. \A r, entries : RP!Update(r, c, entries) = R!Update(r, c, entries)
  BY SameUpdate
<1>3. \A g, d, resp : RP!Closed(g, d, resp) = R!Closed(g, d, resp)
  BY DEF RP!Closed, R!Closed, RP!Answered, R!Answered, RP!Twins, R!Twins, RP!Restrict, R!Restrict
<1>4. QED
  BY <1>1, <1>2, <1>3, RecordReturn DEF R!GuardClose, RP!GuardClose

LEMMA RecordStepIsOne ==
  ASSUME CallsOK, NEW c \in Call, RecordStep(c)
  PROVE  RP!ClaimStep(c) \/ RP!CloseStep(c)
<1>1. ASSUME R!Charge(c) PROVE RP!Charge(c)
  <2>1. recordCall[c] = call[c] /\ call[c].pc = "charge"
    BY <1>1, RecordCalls DEF R!Charge, AsRecord
  <2>2. recordCall' = [recordCall EXCEPT ![c].pc = "admitted", ![c].at = 0]
    BY <1>1, <2>1, RecordMoves DEF R!Charge
  <2>3. QED
    BY <1>1, <2>1, <2>2 DEF R!Charge, RP!Charge
<1>2. ASSUME R!Uncharge(c) PROVE RP!Uncharge(c)
  <2>1. recordCall[c] = call[c] /\ call[c].pc = "uncharge"
    BY <1>2, RecordCalls DEF R!Uncharge, AsRecord
  <2>2. recordCall' = [recordCall EXCEPT ![c].pc = "lookup"]
    BY <1>2, <2>1, RecordMoves DEF R!Uncharge, R!Goto
  <2>3. QED
    BY <1>2, <2>1, <2>2
       DEF R!Uncharge, RP!Uncharge, RP!Goto, R!Released, RP!Released, R!Twins, RP!Twins
<1>3. ASSUME R!Lookup(c) PROVE RP!Lookup(c)
  <2>1. recordCall[c] = call[c] /\ call[c].pc = "lookup"
    BY <1>3, RecordCalls DEF R!Lookup, AsRecord
  <2>2. \A r : call' = [call EXCEPT ![c].pc = "close", ![c].ref = r]
               => recordCall' = [recordCall EXCEPT ![c].pc = "close", ![c].ref = r]
    BY <2>1, RecordMoves
  <2>3. QED
    BY <1>3, <2>1, <2>2, RecordReturn DEF R!Lookup, RP!Lookup
<1>4. QED
  BY <1>1, <1>2, <1>3, RecordPartition, RecordGuardClaim, RecordGuardClose
     DEF RecordStep, R!ClaimStep, R!CloseStep, RP!ClaimStep, RP!CloseStep
-----------------------------------------------------------------------------
(* Workers.  What runs for the record also runs here.                         *)
LEMMA RunningCalls ==
  ASSUME CallsOK
  PROVE  /\ Running \subseteq Call /\ IsFiniteSet(Running) /\ Cardinality(Running) \in Nat
         /\ RP!Running \subseteq Running
         /\ \A c \in Call : IsAt(c, "admitted", "provision") => c \in Running \ RP!Running
<1>1. Running \subseteq Call
  BY DEF Running, R!Running, R!At
<1>2. IsFiniteSet(Running) /\ Cardinality(Running) \in Nat
  BY <1>1, Constants, FS_Subset, FS_CardinalityType
<1>3. RP!Running \subseteq Running
  <2>1. \A c \in Call : recordCall[c].pc = IF call[c].pc \in {"arrived", "checked"}
                                           THEN "admitting" ELSE call[c].pc
    BY RecordCalls
  <2>2. QED
    BY <2>1 DEF RP!Running, RP!At, Running, R!Running, R!At, RP!Claiming, RP!Closing,
                R!Claiming, R!Closing
<1>4. ASSUME NEW c \in Call, IsAt(c, "admitted", "provision")
      PROVE  c \in Running /\ c \notin RP!Running
  <2>1. recordCall[c].pc = "admitted"
    BY <1>4, RecordCalls DEF IsAt
  <2>2. QED
    BY <1>4, <2>1 DEF Running, RP!Running, RP!At, RP!Claiming, RP!Closing
<1>5. QED
  BY <1>1, <1>2, <1>3, <1>4

LEMMA RecordCardinality ==
  \A z : RP!Cardinality(z) = Cardinality(z)
BY DEF RP!Cardinality, Cardinality

(* A call that may run here may run for the record.                           *)
LEMMA WorkerIsFree ==
  ASSUME CallsOK, FreeWorker
  PROVE  RP!Cardinality(RP!Running) < Workers
<1>1. RP!Cardinality(RP!Running) = Cardinality(RP!Running)
  BY RecordCardinality
<1>2. Cardinality(RP!Running) <= Cardinality(Running) /\ Cardinality(RP!Running) \in Nat
  BY RunningCalls, FS_Subset, FS_CardinalityType
<1>3. QED
  BY <1>1, <1>2, Constants, RunningCalls DEF FreeWorker

LEMMA WorkerIsAtHand ==
  ASSUME CallsOK, WorkersHold, NEW c \in Call, IsAt(c, "admitted", "provision")
  PROVE  RP!Cardinality(RP!Running) < Workers
<1>1. RP!Cardinality(RP!Running) = Cardinality(RP!Running)
  BY RecordCardinality
<1>2. RP!Running \subseteq Running \ {c} /\ c \in Running /\ IsFiniteSet(Running)
  BY RunningCalls
<1>3. IsFiniteSet(Running \ {c}) /\ Cardinality(Running \ {c}) = Cardinality(Running) - 1
  BY <1>2, FS_RemoveElement
<1>4. Cardinality(RP!Running) <= Cardinality(Running \ {c}) /\ Cardinality(RP!Running) \in Nat
  BY <1>2, <1>3, FS_Subset, FS_CardinalityType
<1>5. QED
  BY <1>1, <1>3, <1>4, Constants, RunningCalls DEF WorkersHold

LEMMA RecordEffect ==
  ASSUME CallsOK, NEW c \in Call, RP!Cardinality(RP!Running) < Workers, NEW resp
  PROVE  /\ R!Succeed(c, resp) => RP!Succeed(c, resp)
         /\ R!Fail(c) => RP!Fail(c)
<1>1. ASSUME R!Succeed(c, resp) PROVE RP!Succeed(c, resp)
  <2>1. recordCall[c] = call[c] /\ call[c].pc = "admitted"
    BY <1>1, RecordCalls DEF R!Succeed, AsRecord
  <2>2. recordCall' = [recordCall EXCEPT ![c].pc = "lookup", ![c].resp = resp]
    BY <1>1, <2>1, RecordMoves DEF R!Succeed, R!Close
  <2>3. QED
    BY <1>1, <2>1, <2>2 DEF R!Succeed, RP!Succeed, RP!Close
<1>2. ASSUME R!Fail(c) PROVE RP!Fail(c)
  <2>1. recordCall[c] = call[c] /\ call[c].pc = "admitted"
    BY <1>2, RecordCalls DEF R!Fail, AsRecord
  <2>2. recordCall' = [recordCall EXCEPT ![c].pc = "uncharge", ![c].resp = InFlight]
    BY <1>2, <2>1, RecordMoves DEF R!Fail, R!Close
  <2>3. QED
    BY <1>2, <2>1, <2>2 DEF R!Fail, RP!Fail, RP!Close
<1>3. QED
  BY <1>1, <1>2

LEMMA RecordAbandon ==
  ASSUME CallsOK, NEW c \in Call, R!Abandon(c)
  PROVE  RP!Abandon(c)
<1>1. recordCall[c] = call[c] /\ call[c].pc = "admitted"
  BY RecordCalls DEF R!Abandon, AsRecord
<1>2. QED
  BY <1>1, RecordReturn DEF R!Abandon, RP!Abandon
-----------------------------------------------------------------------------
(* Every step of the gateway is one of the record, or leaves the record as it *)
(* is.                                                                        *)
LEMMA RecordArrive ==
  ASSUME CallsOK, NEW c \in Call, NEW d \in Doc, Arrive(c, d)
  PROVE  RP!Receive(c, d)
<1> DEFINE s == [R!IdleCall EXCEPT !.pc = "arrived", !.doc = d, !.at = now]
<1>1. recordCall[c].pc = "idle"
  BY RecordCalls DEF Arrive
<1>2. RP!Cardinality(RP!Running) < Workers
  BY WorkerIsFree DEF Arrive
<1>3. RP!Fresh(d, now)
  BY DEF Arrive, RP!Fresh, R!Fresh, RP!LastFresh, R!LastFresh
<1>4. recordCall' = [recordCall EXCEPT ![c] = AsRecord(s)]
  BY OneCall DEF Arrive
<1>5. AsRecord(s) = [RP!IdleCall EXCEPT !.pc = "admitting", !.doc = d, !.at = now]
  BY DEF AsRecord, RP!IdleCall, R!IdleCall
<1>6. QED
  BY <1>1, <1>2, <1>3, <1>4, <1>5 DEF Arrive, RP!Receive

LEMMA RecordAnswer ==
  ASSUME CallsOK, NEW c \in Call, call[c].pc \in {"arrived", "checked", "admitting"}, Answer(c)
  PROVE  RP!Refuse(c)
<1>1. recordCall[c].pc = "admitting"
  BY RecordCalls
<1>2. QED
  BY <1>1, RecordReturn DEF Answer, RP!Refuse

LEMMA RecordProceed ==
  ASSUME CallsOK, NEW c \in Call, call[c].pc \in {"arrived", "checked"},
         NEW pc \in {"checked", "admitting"}, Proceed(c, pc)
  PROVE  UNCHANGED RP!vars
<1> DEFINE s == [call[c] EXCEPT !.pc = pc]
<1>1. call[c] \in State
  BY DEF CallsOK
<1>2. call' = [call EXCEPT ![c] = s]
  BY <1>1 DEF Proceed, R!Goto, CallsOK
<1>3. AsRecord(s) = AsRecord(call[c])
  BY <1>1 DEF AsRecord, State
<1>4. recordCall' = recordCall
  <2> HIDE DEF s
  <2>1. recordCall' = [recordCall EXCEPT ![c] = AsRecord(call[c])]
    BY <1>2, <1>3, OneCall
  <2>2. QED
    BY <2>1, RecordCalls DEF recordCall
<1>5. QED
  BY <1>4 DEF Proceed, RP!vars

LEMMA RecordTick ==
  ASSUME CallsOK, Tick
  PROVE  RP!Tick
<1>1. recordCall' = recordCall
  BY DEF Tick, R!Tick, recordCall, AsReplayCall
<1>2. ASSUME NEW c \in RP!At(RP!Claiming) PROVE now - recordCall[c].at < MaxLag
  <2>1. recordCall[c].at = call[c].at /\ c \in Call
        /\ recordCall[c].pc = IF call[c].pc \in {"arrived", "checked"}
                              THEN "admitting" ELSE call[c].pc
    BY RecordCalls DEF RP!At
  <2>2. call[c].pc \in {"arrived", "checked"} \/ c \in R!At(R!Claiming)
    BY <2>1 DEF RP!At, R!At, RP!Claiming, R!Claiming
  <2>3. QED
    BY <2>1, <2>2 DEF Tick, R!Tick
<1>3. QED
  BY <1>1, <1>2 DEF Tick, R!Tick, RP!Tick

(* The handlers' calls into the record; the other steps leave it alone. *)
LEMMA RecordHandler ==
  ASSUME Typed, NEW c \in Call, Refuse(c) \/ Advance(c) \/ SendOutcome(c) \/ Disconnect(c)
  PROVE  RP!Next \/ UNCHANGED RP!vars
<1> USE DEF Typed
<1>1. CASE Refuse(c)
  BY <1>1, RecordAnswer DEF Refuse, IsAt, RP!Next
<1>2. CASE CheckController(c) \/ Shortcut(c) \/ AuthorizeWake(c)
  <2>1. /\ call[c].pc \in {"arrived", "checked"}
        /\ Answer(c) \/ Proceed(c, "checked") \/ Proceed(c, "admitting")
    BY <1>2 DEF CheckController, Shortcut, AuthorizeWake, IsAt, AfterCheck
  <2>2. QED
    BY <2>1, RecordAnswer, RecordProceed DEF RP!Next
<1>3. CASE RecordStep(c)
  BY <1>3, RecordStepIsOne DEF RP!Next
<1>4. CASE Apply(c)
  BY <1>4, WorkerIsAtHand, RecordEffect DEF Apply, OnApplied, RP!Next, Responses
<1>5. CASE ApplyRefused(c)
  BY <1>5, WorkerIsAtHand, RecordEffect DEF ApplyRefused, OnRefused, RP!Next
<1>6. CASE SendOutcome(c)
  <2>1. /\ FreeWorker
        /\ R!Fail(c) \/ R!Succeed(c, "delivered") \/ R!Succeed(c, "unregistered")
    BY <1>6 DEF SendOutcome, Delivered, Transient, Unregistered, SendEnds, OnTransient
  <2>2. QED
    BY <2>1, WorkerIsFree, RecordEffect DEF RP!Next, Responses
<1>7. CASE Disconnect(c)
  BY <1>7, RecordAbandon DEF Disconnect, RP!Next
<1>8. QED
  BY <1>1, <1>2, <1>3, <1>4, <1>5, <1>6, <1>7 DEF Advance

LEMMA RecordNext ==
  ASSUME Typed, [Next]_vars
  PROVE  [RP!Next]_RP!vars
<1>1. ASSUME NEW c \in Call, NEW d \in Doc, Arrive(c, d) PROVE RP!Next
  BY <1>1, RecordArrive DEF Typed, RP!Next
<1>2. ASSUME NEW c \in Call, Land(c) PROVE UNCHANGED RP!vars
  BY <1>2 DEF Land, recordVars, RP!vars, recordCall, AsReplayCall
<1>3. ASSUME NEW h \in Handle, NEW tok \in Token, NEW n \in Name, Register(h, tok, n)
      PROVE  UNCHANGED RP!vars
  BY <1>3 DEF Register, S!Insert, recordVars, RP!vars, recordCall, AsReplayCall
<1>4. CASE Sweep
  BY <1>4 DEF Sweep, S!Sweep, recordVars, RP!vars, recordCall, AsReplayCall
<1>5. CASE Tick
  BY <1>5, RecordTick DEF Typed, RP!Next
<1>6. CASE UNCHANGED vars
  BY <1>6 DEF vars, recordVars, RP!vars, recordCall, AsReplayCall
<1>7. QED
  BY <1>1, <1>2, <1>3, <1>4, <1>5, <1>6, RecordHandler DEF Next
-----------------------------------------------------------------------------
(* How a step moves its call.                                                 *)
LEMMA ReturnMoves ==
  ASSUME CallsOK, NEW c \in Call, R!Return(c)
  PROVE  MovesOn(c) /\ call'[c] = R!IdleCall
BY DEF R!Return, MovesOn, OnlyMoves, CallsOK

LEMMA RecordStepMoves ==
  ASSUME CallsOK, NEW c \in Call, RecordStep(c)
  PROVE  /\ MovesOn(c)
         /\ call[c].pc \in R!Claiming \cup R!Closing
<1> USE DEF OnlyMoves, Continues
<1>1. call[c] \in State
  BY DEF CallsOK
<1>2. CASE R!Partition(c)
  <2>1. call[c].pc = "admitting"
    BY <1>2 DEF R!Partition
  <2>2. R!Return(c) \/ \E r : call' = [call EXCEPT ![c].pc = "claim", ![c].ref = r]
    BY <1>2 DEF R!Partition
  <2>3. ASSUME NEW r, call' = [call EXCEPT ![c].pc = "claim", ![c].ref = r] PROVE MovesOn(c)
    BY <1>1, <2>1, <2>3 DEF MovesOn, CallsOK, State
  <2>4. QED
    BY <2>1, <2>2, <2>3, ReturnMoves DEF R!Claiming
<1>3. CASE R!GuardClaim(c)
  BY <1>1, <1>3, ReturnMoves DEF R!GuardClaim, MovesOn, CallsOK, State, R!Claiming
<1>4. CASE R!Charge(c)
  BY <1>1, <1>4 DEF R!Charge, MovesOn, CallsOK, State, R!Claiming
<1>5. CASE R!Uncharge(c)
  BY <1>1, <1>5 DEF R!Uncharge, R!Goto, MovesOn, CallsOK, State, R!Closing
<1>6. CASE R!Lookup(c)
  BY <1>1, <1>6, ReturnMoves DEF R!Lookup, MovesOn, CallsOK, State, R!Closing
<1>7. CASE R!GuardClose(c)
  BY <1>7, ReturnMoves DEF R!GuardClose, R!Closing
<1>8. QED
  BY <1>2, <1>3, <1>4, <1>5, <1>6, <1>7 DEF RecordStep, R!ClaimStep, R!CloseStep

LEMMA EffectMoves ==
  ASSUME CallsOK, NEW c \in Call, NEW resp, R!Succeed(c, resp) \/ R!Fail(c)
  PROVE  MovesOn(c) /\ call[c].pc = "admitted"
<1>1. call[c] \in State
  BY DEF CallsOK
<1>2. CASE R!Succeed(c, resp)
  BY <1>1, <1>2 DEF R!Succeed, R!Close, MovesOn, OnlyMoves, Continues, CallsOK, State
<1>3. CASE R!Fail(c)
  BY <1>1, <1>3 DEF R!Fail, R!Close, MovesOn, OnlyMoves, Continues, CallsOK, State
<1>4. QED
  BY <1>2, <1>3

LEMMA ProceedMoves ==
  ASSUME CallsOK, NEW c \in Call, call[c].pc \in {"arrived", "checked"},
         NEW pc \in {"checked", "admitting"}, Proceed(c, pc)
  PROVE  MovesOn(c) /\ call'[c] = [call[c] EXCEPT !.pc = pc]
<1>1. call[c] \in State
  BY DEF CallsOK
<1>2. call' = [call EXCEPT ![c] = [call[c] EXCEPT !.pc = pc]]
  BY <1>1 DEF Proceed, R!Goto, CallsOK
<1>3. call'[c] = [call[c] EXCEPT !.pc = pc] /\ OnlyMoves(c)
  BY <1>2 DEF OnlyMoves, CallsOK
<1>4. [call[c] EXCEPT !.pc = pc] \in State
  BY <1>1 DEF State, Pc, R!Claiming
<1>5. QED
  BY <1>1, <1>3, <1>4 DEF MovesOn, Continues, State

LEMMA HandlerMoves ==
  ASSUME CallsOK, NEW c \in Call, Refuse(c) \/ Advance(c) \/ SendOutcome(c) \/ Disconnect(c)
  PROVE  MovesOn(c) /\ (c \in Running \/ FreeWorker \/ call'[c].pc = "idle")
<1>1. CASE Refuse(c)
  BY <1>1, ReturnMoves DEF Refuse, Answer, R!IdleCall
<1>2. CASE CheckController(c) \/ Shortcut(c) \/ AuthorizeWake(c)
  <2>1. /\ call[c].pc \in {"arrived", "checked"}
        /\ Answer(c) \/ Proceed(c, "checked") \/ Proceed(c, "admitting")
    BY <1>2 DEF CheckController, Shortcut, AuthorizeWake, IsAt, AfterCheck
  <2>2. c \in Running
    BY <2>1 DEF Running
  <2>3. QED
    BY <2>1, <2>2, ReturnMoves, ProceedMoves DEF Answer
<1>3. CASE RecordStep(c)
  BY <1>3, RecordStepMoves DEF Running, R!Running, R!At
<1>4. CASE Apply(c) \/ ApplyRefused(c)
  BY <1>4, EffectMoves DEF Apply, OnApplied, ApplyRefused, OnRefused, Running
<1>5. CASE SendOutcome(c)
  BY <1>5, EffectMoves
     DEF SendOutcome, Delivered, Transient, Unregistered, SendEnds, OnTransient
<1>6. CASE Disconnect(c)
  BY <1>6, ReturnMoves DEF Disconnect, R!Abandon, R!IdleCall
<1>7. QED
  BY <1>1, <1>2, <1>3, <1>4, <1>5, <1>6 DEF Advance

LEMMA WorkersStay ==
  ASSUME CallsOK, WorkersHold, NEW c \in Call, OnlyMoves(c),
         c \in Running \/ FreeWorker \/ call'[c].pc = "idle"
  PROVE  WorkersHold'
<1>1. IsFiniteSet(Running) /\ Cardinality(Running) \in Nat /\ Workers \in Nat
  BY RunningCalls, Constants
<1>2. ASSUME NEW b \in Call \ {c}, b \in Running' PROVE b \in Running
  BY <1>2 DEF OnlyMoves, Running, R!Running, R!At, IsAt
<1>3. Running' \subseteq Call
  BY DEF Running, R!Running, R!At
<1>4. CASE c \in Running \/ call'[c].pc = "idle"
  <2>1. c \in Running \/ c \notin Running'
    BY <1>4 DEF Running, R!Running, R!At, IsAt, R!Claiming, R!Closing
  <2>2. Running' \subseteq Running
    BY <1>2, <1>3, <2>1
  <2>3. Cardinality(Running') <= Cardinality(Running) /\ Cardinality(Running') \in Nat
    BY <1>1, <2>2, FS_Subset, FS_CardinalityType
  <2>4. QED
    BY <1>1, <2>3 DEF WorkersHold
<1>5. CASE c \notin Running /\ FreeWorker
  <2>1. Running' \subseteq Running \cup {c}
    BY <1>2, <1>3
  <2>2. IsFiniteSet(Running \cup {c}) /\ Cardinality(Running \cup {c}) = Cardinality(Running) + 1
    BY <1>1, <1>5, FS_AddElement
  <2>3. Cardinality(Running') <= Cardinality(Running \cup {c}) /\ Cardinality(Running') \in Nat
    BY <2>1, <2>2, FS_Subset, FS_CardinalityType
  <2>4. QED
    BY <1>1, <1>5, <2>2, <2>3 DEF WorkersHold, FreeWorker
<1>6. QED
  BY <1>4, <1>5

(* The types, and the bound on what runs, are invariant with the record's own *)
(* invariant.                                                                 *)
LEMMA TypedKept ==
  ASSUME Typed, [Next]_vars
  PROVE  Typed'
<1>1. RP!IInv'
  BY GatewayAssumption, RecordNext, RP!InvariantKept DEF Typed
<1>2. RP!TypeOK'
  BY <1>1 DEF RP!IInv
<1>3. CASE call' = call
  <2>1. Running' = Running
    BY <1>3 DEF Running, R!Running, R!At, IsAt
  <2>2. QED
    BY <1>1, <1>3, <2>1 DEF Typed, CallsOK, WorkersHold
<1>4. ASSUME NEW c \in Call, NEW d \in Doc, Arrive(c, d) PROVE Typed'
  <2>1. /\ OnlyMoves(c) /\ FreeWorker
        /\ call'[c] = [R!IdleCall EXCEPT !.pc = "arrived", !.doc = d, !.at = now]
    BY <1>4 DEF Arrive, OnlyMoves, Typed, CallsOK
  <2>2. now \in 0..MaxTime
    BY DEF Typed, RP!IInv, RP!TypeOK
  <2>3. call'[c] \in State /\ call'[c].pc = "arrived" /\ call'[c].doc # NoDoc
    BY <2>1, <2>2, Constants DEF R!IdleCall, State, Pc
  <2>4. CallsOK'
    BY <1>2, <2>1, <2>3, CallsStay DEF Typed
  <2>5. QED
    BY <1>1, <2>1, <2>4, WorkersStay DEF Typed
<1>5. ASSUME NEW c \in Call, Refuse(c) \/ Advance(c) \/ SendOutcome(c) \/ Disconnect(c)
      PROVE  Typed'
  <2>1. MovesOn(c) /\ (c \in Running \/ FreeWorker \/ call'[c].pc = "idle")
    BY <1>5, HandlerMoves DEF Typed
  <2>2. CallsOK'
    <3>1. CASE call'[c] = R!IdleCall
      BY <1>2, <2>1, <3>1, CallsStay DEF Typed, MovesOn, R!IdleCall
    <3>2. CASE Continues(c)
      <4>1. call'[c].doc # NoDoc
        BY <3>2 DEF Continues, Typed, CallsOK
      <4>2. QED
        BY <1>2, <2>1, <3>2, <4>1, CallsStay DEF Typed, MovesOn, Continues
    <3>3. QED
      BY <2>1, <3>1, <3>2 DEF MovesOn
  <2>3. QED
    BY <1>1, <2>1, <2>2, WorkersStay DEF Typed, MovesOn
<1>6. CASE \/ \E c \in Call : Land(c)
           \/ \E h \in Handle, tok \in Token, n \in Name : Register(h, tok, n)
           \/ Sweep \/ Tick \/ UNCHANGED vars
  BY <1>3, <1>6 DEF Land, Register, Sweep, Tick, R!Tick, vars, recordVars
<1>7. QED
  BY <1>4, <1>5, <1>6 DEF Next

LEMMA TypedAtFirst ==
  ASSUME Init PROVE Typed /\ RP!Init
<1>1. call = [c \in Call |-> R!IdleCall]
  BY DEF Init, R!Init
<1>2. recordCall = [c \in Call |-> RP!IdleCall]
  BY <1>1 DEF recordCall, AsReplayCall, R!IdleCall, RP!IdleCall
<1>3. RP!Init
  BY <1>2 DEF Init, R!Init, RP!Init, R!Empty, RP!Empty
<1>4. RP!IInv
  BY <1>3, GatewayAssumption, RP!InitHolds
<1>5. CallsOK
  BY <1>1, Constants DEF CallsOK, R!IdleCall, State, Pc
<1>6. WorkersHold
  <2>1. Running = {}
    BY <1>1 DEF Running, R!Running, R!At, IsAt, R!IdleCall, R!Claiming, R!Closing
  <2>2. QED
    BY <2>1, FS_EmptySet, Constants DEF WorkersHold
<1>7. QED
  BY <1>3, <1>4, <1>5, <1>6 DEF Typed

LEMMA AlwaysTyped == Spec => []Typed
  BY TypedAtFirst, TypedKept, PTL DEF Spec

LEMMA RecordSpec == Spec => RP!Spec
  BY AlwaysTyped, TypedAtFirst, RecordNext, PTL DEF Spec, RP!Spec
-----------------------------------------------------------------------------
(* Record, of UsesRecord, is RP without the theorems.                         *)
LEMMA SameRecord == RP!Spec <=> Record!Spec
<1> USE DEF recordCall
<1>1. RP!Init <=> Record!Init
  BY DEF RP!Init, Record!Init, RP!Empty, Record!Empty, RP!IdleCall, Record!IdleCall
<1>2. ASSUME NEW c \in Call, NEW d \in Doc PROVE RP!Receive(c, d) <=> Record!Receive(c, d)
  BY DEF RP!Receive, Record!Receive, RP!Running, Record!Running, RP!At, Record!At, RP!Claiming,
         Record!Claiming, RP!Closing, Record!Closing, RP!Cardinality,
         Record!Cardinality, RP!IdleCall, Record!IdleCall, RP!Fresh, Record!Fresh,
         RP!LastFresh, Record!LastFresh
<1>3. ASSUME NEW c \in Call PROVE RP!Refuse(c) <=> Record!Refuse(c)
  BY DEF RP!Refuse, Record!Refuse, RP!Return, Record!Return, RP!IdleCall, Record!IdleCall
<1>4. ASSUME NEW c \in Call PROVE RP!Partition(c) <=> Record!Partition(c)
  BY DEF RP!Partition, Record!Partition, RP!Return, Record!Return, RP!IdleCall,
         Record!IdleCall, RP!Purged, Record!Purged, RP!Kept, Record!Kept,
         RP!PurgedCharges, Record!PurgedCharges, RP!OverHandle, Record!OverHandle,
         RP!Charged, Record!Charged, RP!ChargesOf, Record!ChargesOf, RP!GuardOf,
         Record!GuardOf, RP!Busy, Record!Busy, RP!FairShare, Record!FairShare,
         RP!TotalHeld, Record!TotalHeld, RP!AllHeld, Record!AllHeld, RP!Empty,
         Record!Empty, RP!FreeRef, Record!FreeRef, RP!Mapped, Record!Mapped,
         RP!Retained, Record!Retained, RP!LastFresh, Record!LastFresh, RP!Cardinality,
         Record!Cardinality, RP!Range, Record!Range, RP!Restrict, Record!Restrict,
         RP!Max, Record!Max
<1>5. ASSUME NEW c \in Call PROVE RP!GuardClaim(c) <=> Record!GuardClaim(c)
  BY DEF RP!GuardClaim, Record!GuardClaim, RP!Return, Record!Return, RP!IdleCall,
         Record!IdleCall, RP!Verdict, Record!Verdict, RP!Prior, Record!Prior, RP!Live,
         Record!Live, RP!Twins, Record!Twins, RP!Retained, Record!Retained,
         RP!LastFresh, Record!LastFresh, RP!Evicted, Record!Evicted, RP!Capacity,
         Record!Capacity, RP!Cardinality, Record!Cardinality, RP!Update,
         Record!Update, RP!Outlives, Record!Outlives, RP!Empty, Record!Empty,
         RP!Mapped, Record!Mapped, RP!Range, Record!Range, RP!Record, Record!Record,
         RP!Restrict, Record!Restrict
<1>6. ASSUME NEW c \in Call PROVE RP!Charge(c) <=> Record!Charge(c)
  BY DEF RP!Charge, Record!Charge
<1>7. ASSUME NEW c \in Call, NEW resp PROVE RP!Succeed(c, resp) <=> Record!Succeed(c, resp)
  BY DEF RP!Succeed, Record!Succeed, RP!Close, Record!Close, RP!Running, Record!Running, RP!At,
         Record!At, RP!Claiming, Record!Claiming, RP!Closing, Record!Closing,
         RP!Cardinality, Record!Cardinality
<1>8. ASSUME NEW c \in Call PROVE RP!Fail(c) <=> Record!Fail(c)
  BY DEF RP!Fail, Record!Fail, RP!Close, Record!Close, RP!Running, Record!Running, RP!At,
         Record!At, RP!Claiming, Record!Claiming, RP!Closing, Record!Closing,
         RP!Cardinality, Record!Cardinality
<1>9. ASSUME NEW c \in Call PROVE RP!Abandon(c) <=> Record!Abandon(c)
  BY DEF RP!Abandon, Record!Abandon, RP!Return, Record!Return, RP!IdleCall, Record!IdleCall
<1>10. ASSUME NEW c \in Call PROVE RP!Uncharge(c) <=> Record!Uncharge(c)
  BY DEF RP!Uncharge, Record!Uncharge, RP!Goto, Record!Goto, RP!Released, Record!Released,
         RP!Twins, Record!Twins
<1>11. ASSUME NEW c \in Call PROVE RP!Lookup(c) <=> Record!Lookup(c)
  BY DEF RP!Lookup, Record!Lookup, RP!Return, Record!Return, RP!IdleCall, Record!IdleCall
<1>12. ASSUME NEW c \in Call PROVE RP!GuardClose(c) <=> Record!GuardClose(c)
  BY DEF RP!GuardClose, Record!GuardClose, RP!Update, Record!Update, RP!Outlives,
         Record!Outlives, RP!Empty, Record!Empty, RP!Mapped, Record!Mapped, RP!Range,
         Record!Range, RP!Closed, Record!Closed, RP!Answered, Record!Answered,
         RP!Twins, Record!Twins, RP!Restrict, Record!Restrict, RP!Return,
         Record!Return, RP!IdleCall, Record!IdleCall
<1>13. RP!Tick <=> Record!Tick
  BY DEF RP!Tick, Record!Tick, RP!At, Record!At, RP!Claiming, Record!Claiming
<1>14. RP!Restart <=> Record!Restart
  BY DEF RP!Restart, Record!Restart, RP!Executing, Record!Executing, RP!At, Record!At,
         RP!Empty, Record!Empty, RP!IdleCall, Record!IdleCall
<1>15. RP!Next <=> Record!Next
  BY <1>2, <1>3, <1>4, <1>5, <1>6, <1>7, <1>8, <1>9, <1>10, <1>11, <1>12, <1>13, <1>14
     DEF RP!Next, Record!Next, RP!ClaimStep, Record!ClaimStep, RP!CloseStep, Record!CloseStep
<1>16. [RP!Next]_RP!vars <=> [Record!Next]_Record!vars
  BY <1>15 DEF RP!vars, Record!vars
<1>17. QED
  BY <1>1, <1>16, PTL DEF RP!Spec, Record!Spec

(* The handlers use the record only as Replay describes: every step of every  *)
(* handler is a step of Replay or leaves the record alone, for any calls,     *)
(* documents, workers and answers of the push service (api.rs: handle_wake,   *)
(* handle_provision).                                                         *)
THEOREM HandlersUseTheRecord == Spec => UsesRecord
  BY RecordSpec, SameRecord DEF UsesRecord

(* So no handler leaks its claim: an entry in flight is one that a call will  *)
(* still close, or of a document whose client went away during its send.      *)
THEOREM NoHandlerLeaksAClaim == Spec => []NoClaimLeaks
<1>1. RP!Spec => []RP!ClaimsHaveOwners
  BY GatewayAssumption, RP!NoOrphanedClaim
<1>2. Typed /\ RP!ClaimsHaveOwners => NoClaimLeaks
  <2> SUFFICES ASSUME Typed, RP!ClaimsHaveOwners PROVE R!ClaimsHaveOwners
    BY DEF NoClaimLeaks
  <2>1. \A d : RP!Owners(d) = R!Owners(d)
    <3>1. \A c \in Call : /\ recordCall[c].doc = call[c].doc
                          /\ recordCall[c].pc = IF call[c].pc \in {"arrived", "checked"}
                                                THEN "admitting" ELSE call[c].pc
      BY RecordCalls DEF Typed
    <3>2. QED
      BY <3>1 DEF RP!Owners, R!Owners, RP!At, R!At, RP!Closing, R!Closing
  <2>2. QED
    BY <2>1 DEF RP!ClaimsHaveOwners, R!ClaimsHaveOwners
<1>3. QED
  BY <1>1, <1>2, AlwaysTyped, RecordSpec, PTL
-----------------------------------------------------------------------------
(* The registry of the handlers is Store's.                                   *)
LEMMA SameOperations ==
  /\ SP!Init <=> S!Init
  /\ \A h, tok, n : SP!Insert(h, tok, n) <=> S!Insert(h, tok, n)
  /\ \A h, n, tr : SP!Provision(h, n, tr) <=> S!Provision(h, n, tr)
  /\ \A h : SP!Remove(h) <=> S!Remove(h)
  /\ SP!Sweep <=> S!Sweep
  /\ SP!Tick <=> S!Tick
  /\ SP!SetBack <=> S!SetBack
  /\ SP!Triggers = S!Triggers
<1>1. SP!Init <=> S!Init
  BY DEF SP!Init, S!Init, SP!Index, S!Index
<1>2. \A h, tok, n : SP!Insert(h, tok, n) <=> S!Insert(h, tok, n)
  BY DEF SP!Insert, S!Insert, SP!Capped, S!Capped, SP!Sharing, S!Sharing, SP!ControlledBy,
         S!ControlledBy, SP!StoredAs, S!StoredAs, SP!Add, S!Add, SP!Cardinality,
         S!Cardinality
<1>3. \A h : SP!Remove(h) <=> S!Remove(h)
  BY DEF SP!Remove, S!Remove, SP!Drop, S!Drop, SP!Unindexed, S!Unindexed, SP!Restrict,
         S!Restrict
<1>4. \A h, n, tr : SP!Provision(h, n, tr) <=> S!Provision(h, n, tr)
  BY DEF SP!Provision, S!Provision, SP!MayProvision, S!MayProvision, SP!SameReference,
         S!SameReference
<1>5. SP!Sweep <=> S!Sweep
  BY DEF SP!Sweep, S!Sweep, SP!Stale, S!Stale, SP!Age, S!Age, SP!Drop, S!Drop, SP!Unindexed,
         S!Unindexed, SP!Restrict, S!Restrict
<1>6. SP!Tick <=> S!Tick
  BY DEF SP!Tick, S!Tick
<1>7. SP!SetBack <=> S!SetBack
  BY DEF SP!SetBack, S!SetBack
<1>8. SP!Triggers = S!Triggers
  BY DEF SP!Triggers, S!Triggers
<1>9. QED
  BY <1>1, <1>2, <1>3, <1>4, <1>5, <1>6, <1>7, <1>8

LEMMA SameRegistry ==
  /\ SP!Spec <=> S!Spec
  /\ SP!TypeOK <=> S!TypeOK
<1>1. [SP!Next]_SP!vars <=> [S!Next]_S!vars
  BY SameOperations DEF SP!Next, S!Next, SP!vars, S!vars
<1>2. SP!Init <=> S!Init
  BY SameOperations
<1>3. SP!TypeOK <=> S!TypeOK
  BY DEF SP!TypeOK, S!TypeOK, SP!Entry, S!Entry, SP!Triggers, S!Triggers,
         SP!Respelled, S!Respelled
<1>4. QED
  BY <1>1, <1>2, <1>3, PTL DEF SP!Spec, S!Spec

(* The steps that change the registry, or its clock. *)
LEMMA RegistryMoves ==
  ASSUME [Next]_vars
  PROVE  \/ \E h \in Handle, tok \in Token, n \in Name : Register(h, tok, n)
         \/ \E c \in Call : Apply(c) \/ Unregistered(c)
         \/ Sweep \/ Tick
         \/ UNCHANGED S!vars
<1>1. ASSUME NEW c \in Call, NEW d \in Doc, Arrive(c, d) PROVE UNCHANGED S!vars
  BY <1>1 DEF Arrive, storeVars, S!vars
<1>2. ASSUME NEW c \in Call, \/ Refuse(c) \/ CheckController(c) \/ Shortcut(c) \/ AuthorizeWake(c)
      PROVE  UNCHANGED S!vars
  BY <1>2 DEF Refuse, CheckController, Shortcut, AuthorizeWake, Answer, Proceed, storeVars, S!vars
<1>3. ASSUME NEW c \in Call, RecordStep(c) PROVE UNCHANGED S!vars
  BY <1>3 DEF RecordStep, R!ClaimStep, R!CloseStep, R!Partition, R!GuardClaim, R!Charge,
              R!Uncharge, R!Lookup, R!GuardClose, storeVars, S!vars
<1>4. ASSUME NEW c \in Call,
             \/ ApplyRefused(c) \/ Land(c) \/ Delivered(c) \/ Transient(c) \/ Disconnect(c)
      PROVE  UNCHANGED S!vars
  BY <1>4 DEF ApplyRefused, Land, Delivered, Transient, OnTransient, Disconnect, R!Succeed,
              R!Fail, R!Abandon, storeVars, S!vars
<1>5. CASE UNCHANGED vars
  BY <1>5 DEF vars, storeVars, S!vars
<1>6. QED
  BY <1>1, <1>2, <1>3, <1>4, <1>5 DEF Next, Advance, SendOutcome

(* A provision is made under the identity of its issuer, whatever the         *)
(* spelling.                                                                  *)
LEMMA RegistryNext ==
  ASSUME S!TypeOK, Typed, [Next]_vars
  PROVE  [S!Next]_S!vars
<1>1. ASSUME NEW c \in Call, Apply(c) PROVE S!Next
  <2> DEFINE d == call[c].doc
  <2>1. S!Provision(d.handle, d.issuer, d.triggers) /\ call[c].pc = "admitted"
    BY <1>1 DEF Apply, IsAt
  <2>2. d \in Doc
    BY <2>1 DEF Typed, CallsOK, State
  <2>3. d.handle \in Handle /\ d.issuer \in Name /\ d.triggers \in S!Triggers
    BY <2>1, <2>2, GatewayAssumption DEF S!Provision, S!MayProvision, S!TypeOK, S!Triggers
  <2>4. Bare[d.issuer] \in Did /\ Bare[Bare[d.issuer]] = Bare[d.issuer]
    BY <2>3, Constants
  <2> HIDE DEF d
  <2>5. S!Provision(d.handle, Bare[d.issuer], d.triggers)
    BY <2>1, <2>4 DEF S!Provision, S!MayProvision, S!SameReference
  <2>6. QED
    BY <2>3, <2>4, <2>5 DEF S!Next
<1>2. ASSUME NEW c \in Call, Unregistered(c) PROVE S!Next \/ UNCHANGED S!vars
  <2>1. CASE S!Remove(call[c].doc.handle)
    <3>1. call[c].doc.handle \in Handle
      BY <2>1 DEF S!Remove, S!TypeOK
    <3>2. QED
      BY <2>1, <3>1 DEF S!Next
  <2>2. CASE UNCHANGED storeVars
    BY <1>2, <2>2 DEF Unregistered, R!Succeed, storeVars, S!vars
  <2>3. QED
    BY <1>2, <2>1, <2>2 DEF Unregistered
<1>3. ASSUME NEW h \in Handle, NEW tok \in Token, NEW n \in Name, Register(h, tok, n)
      PROVE  S!Next
  BY <1>3 DEF Register, S!Next
<1>4. CASE Sweep
  BY <1>4 DEF Sweep, S!Next
<1>5. CASE Tick
  BY <1>5 DEF Tick, R!Tick, S!Tick, storeVars, S!Next
<1>6. QED
  BY <1>1, <1>2, <1>3, <1>4, <1>5, RegistryMoves

LEMMA RegistryKept ==
  ASSUME S!TypeOK, Typed, [Next]_vars
  PROVE  S!TypeOK'
<1>1. [SP!Next]_SP!vars
  BY RegistryNext, SameOperations DEF SP!Next, S!Next, SP!vars, S!vars
<1>2. SP!TypeOK'
  BY <1>1, SameRegistry, GatewayAssumption, SP!NextType
<1>3. QED
  BY <1>2 DEF SP!TypeOK, S!TypeOK, SP!Entry, S!Entry, SP!Triggers, S!Triggers,
         SP!Respelled, S!Respelled

LEMMA AlwaysRegistered == Spec => []S!TypeOK
<1>1. Init => S!TypeOK
  BY GatewayAssumption, SP!InitStore, SameOperations, SameRegistry DEF Init
<1>2. QED
  BY <1>1, RegistryKept, AlwaysTyped, PTL DEF Spec

(* The handlers use the registry only by its operations, a provision under    *)
(* the identity of its caller (api.rs): so its index, its caps and the        *)
(* reasons for which a handle leaves are the gateway's too.                   *)
THEOREM HandlersUseTheRegistry == Spec => S!Spec
<1>1. Init => S!Init
  BY DEF Init
<1>2. S!TypeOK /\ Typed /\ [Next]_vars => [S!Next]_S!vars
  BY RegistryNext
<1>3. QED
  BY <1>1, <1>2, AlwaysTyped, AlwaysRegistered, PTL DEF Spec, S!Spec

(* In particular the index never drifts, no cap is exceeded, and no handle    *)
(* leaves but for a dead token or its age.                                    *)
THEOREM TheRegistryHolds ==
  Spec => /\ [](S!IndexMatches /\ S!CapsHold)
          /\ S!LeavesOnlyStaleOrDead
<1>1. SP!Spec => [](SP!IndexMatches /\ SP!CapsHold) /\ SP!LeavesOnlyStaleOrDead
  <2>1. SP!Spec => []SP!IndexMatches
    BY GatewayAssumption, SP!IndexNeverDrifts
  <2>2. SP!Spec => []SP!CapsHold
    BY GatewayAssumption, SP!CapsAreNeverExceeded
  <2>3. SP!Spec => SP!LeavesOnlyStaleOrDead
    BY GatewayAssumption, SP!HandlesLeaveForAReason
  <2>4. QED
    BY <2>1, <2>2, <2>3, PTL
<1>2. SP!IndexMatches <=> S!IndexMatches
  BY DEF SP!IndexMatches, S!IndexMatches, SP!Index, S!Index
<1>3. SP!CapsHold <=> S!CapsHold
  BY DEF SP!CapsHold, S!CapsHold, SP!TotalCap, S!TotalCap, SP!TokenCap, S!TokenCap,
         SP!ControllerCap, S!ControllerCap, SP!Respelled, S!Respelled, SP!AtMost,
         S!AtMost, SP!Larger, S!Larger, SP!With, S!With, SP!Cardinality, S!Cardinality
<1>4. SP!LeavesOnlyStaleOrDead <=> S!LeavesOnlyStaleOrDead
  <2> DEFINE Reason == \A h \in DOMAIN handles \ DOMAIN handles' :
                 h \in dead' \/ (handles[h].triggers = {} /\ now >= handles[h].createdAt + Ttl)
  <2>1. [Reason]_SP!vars <=> [Reason]_S!vars
    BY DEF SP!vars, S!vars
  <2>2. QED
    BY <2>1, PTL DEF SP!LeavesOnlyStaleOrDead, S!LeavesOnlyStaleOrDead
<1>5. QED
  BY <1>1, <1>2, <1>3, <1>4, HandlersUseTheRegistry, SameRegistry, PTL
-----------------------------------------------------------------------------
(* Types.                                                                     *)
LandedOK == \A c \in landed : c \in Call /\ IsAt(c, "admitted", "wake")
ServedOK == \A h \in DOMAIN handles \ DOMAIN Loaded : handles[h].controller \in Served
NoopsOK  == noops \subseteq Provisions

(* Whoever is in the middle of a send has not moved, and stays; nobody else   *)
(* counts as landed.                                                          *)
LEMMA LandedStays ==
  ASSUME LandedOK, Typed, [Next]_vars
  PROVE  LandedOK'
<1>1. ASSUME NEW c \in Call, NEW d \in Doc, Arrive(c, d) PROVE LandedOK'
  <2>1. OnlyMoves(c) /\ call[c].pc = "idle" /\ landed' = landed
    BY <1>1 DEF Arrive, OnlyMoves, Typed, CallsOK
  <2>2. QED
    BY <2>1 DEF LandedOK, IsAt, OnlyMoves
<1>2. ASSUME NEW c \in Call, Refuse(c) \/ Advance(c) PROVE LandedOK'
  <2>1. OnlyMoves(c)
    BY <1>2, HandlerMoves DEF Typed, MovesOn
  <2>2. ~IsAt(c, "admitted", "wake") /\ landed' = landed
    <3>1. CASE RecordStep(c)
      BY <3>1, RecordStepMoves DEF Typed, RecordStep, R!Claiming, R!Closing, IsAt
    <3>2. QED
      BY <1>2, <3>1 DEF Refuse, Advance, CheckController, Shortcut, AuthorizeWake, Answer,
         Proceed, Apply, ApplyRefused, IsAt
  <2>3. QED
    BY <2>1, <2>2 DEF LandedOK, IsAt, OnlyMoves
<1>3. ASSUME NEW c \in Call, Land(c) PROVE LandedOK'
  BY <1>3 DEF Land, LandedOK, IsAt, recordVars
<1>4. ASSUME NEW c \in Call, SendOutcome(c) \/ Disconnect(c) PROVE LandedOK'
  <2>1. OnlyMoves(c) /\ landed' = landed \ {c}
    BY <1>4, HandlerMoves DEF Typed, MovesOn, SendOutcome, Delivered, Transient,
       Unregistered, SendEnds, Disconnect
  <2>2. QED
    BY <2>1 DEF LandedOK, IsAt, OnlyMoves
<1>5. CASE \/ \E h \in Handle, tok \in Token, n \in Name : Register(h, tok, n)
           \/ Sweep \/ Tick \/ UNCHANGED vars
  BY <1>5 DEF Register, Sweep, Tick, R!Tick, vars, recordVars, LandedOK, IsAt
<1>6. QED
  BY <1>1, <1>2, <1>3, <1>4, <1>5 DEF Next

(* No step gives a handle to a controller that is not served.                 *)
LEMMA ServedStays ==
  ASSUME ServedOK, S!TypeOK, Typed, [Next]_vars
  PROVE  ServedOK'
<1>1. ASSUME NEW h \in Handle, NEW tok \in Token, NEW n \in Name, Register(h, tok, n)
      PROVE  ServedOK'
  <2>1. Bare[n] \in Served /\ S!Insert(h, tok, n)
    BY <1>1 DEF Register, Serves
  <2>2. /\ DOMAIN handles' = DOMAIN handles \cup {h}
        /\ \A g \in DOMAIN handles \ {h} : handles'[g] = handles[g]
        /\ handles'[h].controller = Bare[n]
    BY <2>1 DEF S!Insert, S!Add, S!StoredAs
  <2>3. QED
    BY <2>1, <2>2 DEF ServedOK
<1>2. CASE /\ DOMAIN handles' \subseteq DOMAIN handles
           /\ \A g \in DOMAIN handles' : handles'[g].controller = handles[g].controller
  BY <1>2 DEF ServedOK
<1>3. ASSUME NEW c \in Call, Apply(c) PROVE ServedOK'
  <2>1. PICK h, n, tr : S!Provision(h, n, tr)
    BY <1>3 DEF Apply
  <2>2. QED
    BY <1>2, <2>1 DEF S!Provision, S!TypeOK, S!Entry
<1>4. ASSUME NEW G, S!Drop(G) PROVE ServedOK'
  BY <1>2, <1>4 DEF S!Drop, S!Restrict
<1>5. CASE UNCHANGED handles
  BY <1>2, <1>5
<1>6. ASSUME NEW c \in Call, Unregistered(c) PROVE ServedOK'
  BY <1>4, <1>5, <1>6 DEF Unregistered, S!Remove, storeVars
<1>7. CASE Sweep
  BY <1>4, <1>7 DEF Sweep, S!Sweep
<1>8. CASE Tick \/ UNCHANGED S!vars
  BY <1>5, <1>8 DEF Tick, storeVars, S!vars
<1>9. QED
  BY <1>1, <1>3, <1>6, <1>7, <1>8, RegistryMoves

LEMMA NoopsStay ==
  ASSUME NoopsOK, Typed, [Next]_vars
  PROVE  NoopsOK'
<1>1. ASSUME NEW c \in Call, Shortcut(c) PROVE NoopsOK'
  <2>1. call[c].doc \in Provisions
    BY <1>1 DEF Shortcut, IsAt, Typed, CallsOK, State, Provisions
  <2>2. QED
    BY <1>1, <2>1 DEF Shortcut, NoopsOK
<1>2. CASE UNCHANGED noops
  BY <1>2 DEF NoopsOK
<1>3. QED
  BY <1>1, <1>2 DEF Next, Arrive, Refuse, Advance, CheckController, AuthorizeWake, RecordStep,
     Apply, ApplyRefused, Land, SendOutcome, Delivered, Transient, Unregistered, Disconnect,
     Register, Sweep, Tick, vars, history

(* Types; only sends that are under way have landed, and no handle is ever    *)
(* issued to a controller that is not served (controllers.rs, allows) - for   *)
(* any snapshot the registry was opened with.                                 *)
THEOREM GatewayTypes == Spec => []TypeOK
<1>1. Init => LandedOK /\ ServedOK /\ NoopsOK
  BY DEF Init, S!Init, LandedOK, ServedOK, NoopsOK
<1>2. LandedOK /\ ServedOK /\ NoopsOK /\ S!TypeOK /\ Typed /\ [Next]_vars
        => LandedOK' /\ ServedOK' /\ NoopsOK'
  BY LandedStays, ServedStays, NoopsStay
<1>3. LandedOK /\ ServedOK /\ NoopsOK /\ S!TypeOK /\ Typed => TypeOK
  <2> SUFFICES ASSUME LandedOK, ServedOK, NoopsOK, S!TypeOK, Typed PROVE TypeOK
    OBVIOUS
  <2>1. /\ \E z \in SUBSET RP!Issuer : issuers \in [z -> Ref]
        /\ guard \in [Ref -> RP!Entries] /\ charges \in [Doc -> Nat] /\ spent \subseteq Doc
    BY DEF Typed, RP!IInv, RP!TypeOK
  <2>2. issuers \in [DOMAIN issuers -> Ref] /\ DOMAIN issuers \subseteq {d.issuer : d \in Doc}
    BY <2>1 DEF RP!Issuer
  <2>3. \A r \in Ref : guard[r] \in [DOMAIN guard[r] -> Responses \cup {InFlight}]
    BY <2>1 DEF RP!Entries
  <2>4. \A c \in Call : (call[c].pc = "idle") = (call[c].doc = NoDoc)
    BY DEF Typed, CallsOK
  <2>5. \A c \in landed : IsAt(c, "admitted", "wake")
    BY DEF LandedOK
  <2>6. QED
    BY <2>1, <2>2, <2>3, <2>4, <2>5 DEF TypeOK, ServedOK, NoopsOK
<1>4. QED
  BY <1>1, <1>2, <1>3, AlwaysTyped, AlwaysRegistered, PTL DEF Spec
-----------------------------------------------------------------------------
(* The inductive invariant behind AnswersAreTrue: an answer happened that is  *)
(* in a guard, or that a call is about to record; a push that has landed was  *)
(* counted; and a wake that passed its check has a handle that was issued, so *)
(* that once it is gone it does not come back.                                *)
Happened(d, resp) ==
  \/ resp = "delivered" /\ d.kind = "wake" /\ pushes[d] > 0
  \/ resp = "unregistered" /\ d.kind = "wake" /\ d.handle \in issued \ DOMAIN handles
  \/ resp = "provisioned" /\ d.kind = "provision" /\ applied[d] > 0

Answers    == \A r \in Ref : \A d \in DOMAIN guard[r] :
               guard[r][d] # InFlight => \E e \in R!Twins(d) : Happened(e, guard[r][d])
Answering  == \A c \in Call : call[c].pc \in R!Closing /\ call[c].resp # InFlight
                                 => Happened(call[c].doc, call[c].resp)
Counted    == \A c \in landed : pushes[call[c].doc] > 0
Passed     == R!Claiming \cup {"admitted"}
WakesKnown == \A c \in Call : call[c].pc \in Passed /\ call[c].doc.kind = "wake"
                                => call[c].doc.handle \in issued
HistoryOK ==
  pushes \in [Wakes -> Nat] /\ confirmed \in [Wakes -> Nat] /\ applied \in [Provisions -> Nat]

TruthInv == Answers /\ Answering /\ Counted /\ WakesKnown /\ HistoryOK
Sound    == Typed /\ S!TypeOK /\ LandedOK /\ TruthInv

LEMMA Bumped ==
  ASSUME NEW D, NEW f \in [D -> Nat], NEW d
  PROVE  /\ Bump(f, d) \in [D -> Nat]
         /\ \A e \in D : f[e] > 0 => Bump(f, d)[e] > 0
         /\ d \in D => Bump(f, d)[d] > 0
<1>1. Bump(f, d) = [f EXCEPT ![d] = IF f[d] < 2 THEN f[d] + 1 ELSE f[d]]
  BY DEF Bump, MaxPushes
<1>2. \A e \in D : /\ f[e] \in Nat
                   /\ Bump(f, d)[e] = IF e = d THEN (IF f[e] < 2 THEN f[e] + 1 ELSE f[e]) ELSE f[e]
  BY <1>1
<1>3. Bump(f, d) \in [D -> Nat]
  <2>1. DOMAIN Bump(f, d) = D /\ Bump(f, d) = [e \in D |-> Bump(f, d)[e]]
    BY <1>1
  <2>2. \A e \in D : Bump(f, d)[e] \in Nat
    BY <1>2
  <2>3. QED
    BY <2>1, <2>2
<1>4. QED
  BY <1>2, <1>3

(* The histories count up. *)
LEMMA HistoryMoves ==
  ASSUME HistoryOK, [Next]_vars
  PROVE  /\ HistoryOK'
         /\ \A d \in Wakes : pushes[d] > 0 => pushes'[d] > 0
         /\ \A d \in Provisions : applied[d] > 0 => applied'[d] > 0
<1>1. CASE UNCHANGED <<pushes, applied, confirmed>>
  BY <1>1 DEF HistoryOK
<1>2. ASSUME NEW c \in Call, Land(c)
      PROVE  pushes' = Bump(pushes, call[c].doc) /\ UNCHANGED <<applied, confirmed>>
  BY <1>2 DEF Land
<1>3. ASSUME NEW c \in Call, Apply(c)
      PROVE  applied' = Bump(applied, call[c].doc) /\ UNCHANGED <<pushes, confirmed>>
  BY <1>3 DEF Apply
<1>4. ASSUME NEW c \in Call, Delivered(c)
      PROVE  confirmed' = Bump(confirmed, call[c].doc) /\ UNCHANGED <<pushes, applied>>
  BY <1>4 DEF Delivered
<1>5. \/ UNCHANGED <<pushes, applied, confirmed>>
      \/ \E c \in Call : Land(c) \/ Apply(c) \/ Delivered(c)
  <2>1. ASSUME NEW c \in Call, Refuse(c) \/ CheckController(c) \/ Shortcut(c) \/ AuthorizeWake(c)
        PROVE  UNCHANGED <<pushes, applied, confirmed>>
    BY <2>1 DEF Refuse, CheckController, Shortcut, AuthorizeWake, history
  <2>2. ASSUME NEW c \in Call,
               RecordStep(c) \/ ApplyRefused(c) \/ Transient(c) \/ Unregistered(c) \/ Disconnect(c)
        PROVE  UNCHANGED <<pushes, applied, confirmed>>
    BY <2>2 DEF RecordStep, ApplyRefused, Transient, Unregistered, Disconnect, history
  <2>3. QED
    BY <2>1, <2>2 DEF Next, Arrive, Advance, SendOutcome, Register, Sweep, Tick, vars, history
<1>6. ASSUME NEW c \in Call, Land(c) \/ Apply(c) \/ Delivered(c)
      PROVE  /\ HistoryOK'
             /\ \A d \in Wakes : pushes[d] > 0 => pushes'[d] > 0
             /\ \A d \in Provisions : applied[d] > 0 => applied'[d] > 0
  <2>1. CASE Land(c)
    <3>1. /\ Bump(pushes, call[c].doc) \in [Wakes -> Nat]
          /\ \A e \in Wakes : pushes[e] > 0 => Bump(pushes, call[c].doc)[e] > 0
      BY Bumped DEF HistoryOK
    <3>2. QED
      BY <1>2, <2>1, <3>1 DEF HistoryOK, Wakes, Provisions
  <2>2. CASE Apply(c)
    <3>1. /\ Bump(applied, call[c].doc) \in [Provisions -> Nat]
          /\ \A e \in Provisions : applied[e] > 0 => Bump(applied, call[c].doc)[e] > 0
      BY Bumped DEF HistoryOK
    <3>2. QED
      BY <1>3, <2>2, <3>1 DEF HistoryOK, Wakes, Provisions
  <2>3. CASE Delivered(c)
    <3>1. Bump(confirmed, call[c].doc) \in [Wakes -> Nat]
      BY Bumped DEF HistoryOK
    <3>2. QED
      BY <1>4, <2>3, <3>1 DEF HistoryOK, Wakes, Provisions
  <2>4. QED
    BY <1>6, <2>1, <2>2, <2>3
<1>7. QED
  BY <1>1, <1>5, <1>6

(* A handle that was issued and is gone stays gone.                           *)
LEMMA GoneStays ==
  ASSUME S!TypeOK, Typed, [Next]_vars
  PROVE  /\ issued \subseteq issued'
         /\ \A h \in issued : h \in DOMAIN handles' => h \in DOMAIN handles
<1>1. ASSUME NEW h, NEW tok, NEW n, Register(h, tok, n)
      PROVE  issued' = issued \cup {h} /\ h \notin issued /\ DOMAIN handles' = DOMAIN handles \cup {h}
  BY <1>1 DEF Register, S!Insert, S!Add
<1>2. ASSUME NEW c \in Call, Apply(c) PROVE issued' = issued /\ DOMAIN handles' = DOMAIN handles
  BY <1>2 DEF Apply, S!Provision
<1>3. ASSUME NEW G, S!Drop(G) PROVE DOMAIN handles' \subseteq DOMAIN handles
  BY <1>3 DEF S!Drop, S!Restrict
<1>4. ASSUME NEW c \in Call, Unregistered(c)
      PROVE  issued' = issued /\ DOMAIN handles' \subseteq DOMAIN handles
  BY <1>3, <1>4 DEF Unregistered, S!Remove, storeVars
<1>5. CASE Sweep
  BY <1>3, <1>5 DEF Sweep, S!Sweep
<1>6. CASE Tick \/ UNCHANGED S!vars
  BY <1>6 DEF Tick, storeVars, S!vars
<1>7. QED
  BY <1>1, <1>2, <1>4, <1>5, <1>6, RegistryMoves

LEMMA HappenedStays ==
  ASSUME Sound, [Next]_vars, NEW d \in Doc, NEW resp, Happened(d, resp)
  PROVE  Happened(d, resp)'
<1>1. /\ \A e \in Wakes : pushes[e] > 0 => pushes'[e] > 0
      /\ \A e \in Provisions : applied[e] > 0 => applied'[e] > 0
  BY HistoryMoves DEF Sound, TruthInv
<1>2. /\ issued \subseteq issued'
      /\ \A h \in issued : h \in DOMAIN handles' => h \in DOMAIN handles
  BY GoneStays DEF Sound
<1>3. QED
  BY <1>1, <1>2 DEF Happened, Wakes, Provisions
-----------------------------------------------------------------------------
(* How a call moves: it stays; it is not admitted; it passes its check; it    *)
(* goes on in the record; or it reports what became of its effect.            *)
Passes(c) ==
  /\ call'[c].pc = "admitting"
  /\ \/ IsAt(c, "arrived", "wake") /\ MayWake(call[c].doc)
     \/ IsAt(c, "checked", "provision")
GoesOn(c) ==
  /\ RecordStep(c)
  /\ \/ call[c].pc \in R!Claiming /\ call'[c].pc \in Passed
     \/ call[c].pc \in R!Closing /\ call'[c].pc \in R!Closing /\ call'[c].resp = call[c].resp
Reports(c) ==
  /\ call[c].pc = "admitted" /\ call'[c].pc \in R!Closing
  /\ \/ call'[c].resp = InFlight
     \/ call'[c].resp = "delivered" /\ Delivered(c)
     \/ call'[c].resp = "unregistered" /\ Unregistered(c)
     \/ call'[c].resp = "provisioned" /\ Apply(c)

Moved(c) ==
  \/ call'[c] = call[c]
  \/ call'[c].pc \in {"idle", "arrived", "checked"}
  \/ call'[c].doc = call[c].doc /\ (Passes(c) \/ GoesOn(c) \/ Reports(c))

LEMMA RecordStepGoesOn ==
  ASSUME CallsOK, NEW c \in Call, RecordStep(c)
  PROVE  call'[c].pc = "idle" \/ (call'[c].doc = call[c].doc /\ GoesOn(c))
<1> USE DEF GoesOn, Passed, R!Claiming, R!Closing
<1>1. call[c] \in State
  BY DEF CallsOK
<1>2. CASE R!Partition(c)
  <2>1. call[c].pc = "admitting"
    BY <1>2 DEF R!Partition
  <2>2. R!Return(c) \/ \E r : call' = [call EXCEPT ![c].pc = "claim", ![c].ref = r]
    BY <1>2 DEF R!Partition
  <2>3. ASSUME NEW r, call' = [call EXCEPT ![c].pc = "claim", ![c].ref = r]
        PROVE  call'[c].doc = call[c].doc /\ GoesOn(c)
    BY <1>1, <2>1, <2>3 DEF CallsOK, State
  <2>4. QED
    BY <2>2, <2>3, ReturnMoves DEF R!IdleCall
<1>3. CASE R!GuardClaim(c)
  BY <1>1, <1>3, ReturnMoves DEF R!GuardClaim, CallsOK, State, R!IdleCall
<1>4. CASE R!Charge(c)
  BY <1>1, <1>4 DEF R!Charge, CallsOK, State
<1>5. CASE R!Uncharge(c)
  BY <1>1, <1>5 DEF R!Uncharge, R!Goto, CallsOK, State
<1>6. CASE R!Lookup(c)
  BY <1>1, <1>6, ReturnMoves DEF R!Lookup, CallsOK, State, R!IdleCall
<1>7. CASE R!GuardClose(c)
  BY <1>7, ReturnMoves DEF R!GuardClose, R!IdleCall
<1>8. QED
  BY <1>2, <1>3, <1>4, <1>5, <1>6, <1>7 DEF RecordStep, R!ClaimStep, R!CloseStep

LEMMA EffectReports ==
  ASSUME CallsOK, NEW c \in Call
  PROVE  /\ R!Fail(c) => /\ call'[c].doc = call[c].doc /\ call[c].pc = "admitted"
                         /\ call'[c].pc \in R!Closing /\ call'[c].resp = InFlight
         /\ \A resp : R!Succeed(c, resp)
                      => /\ call'[c].doc = call[c].doc /\ call[c].pc = "admitted"
                         /\ call'[c].pc \in R!Closing /\ call'[c].resp = resp
<1>1. call[c] \in State
  BY DEF CallsOK
<1>2. QED
  BY <1>1 DEF R!Fail, R!Succeed, R!Close, R!Closing, CallsOK, State

LEMMA CallMoves ==
  ASSUME Typed, [Next]_vars, NEW b \in Call
  PROVE  Moved(b)
<1> USE DEF Moved
<1>1. ASSUME NEW c \in Call, NEW d \in Doc, Arrive(c, d) PROVE Moved(b)
  BY <1>1 DEF Arrive, Typed, CallsOK, R!IdleCall
<1>2. ASSUME NEW c \in Call, Refuse(c) \/ Advance(c) \/ SendOutcome(c) \/ Disconnect(c)
      PROVE  Moved(b)
  <2>1. CASE b # c
    BY <1>2, <2>1, HandlerMoves DEF Typed, MovesOn, OnlyMoves
  <2>2. CASE b = c
    <3>1. R!Return(b) => call'[b].pc = "idle"
      BY ReturnMoves DEF Typed, R!IdleCall
    <3>2. CASE CheckController(b) \/ Shortcut(b) \/ AuthorizeWake(b)
      <4>1. CASE Answer(b)
        BY <3>1, <4>1 DEF Answer
      <4>2. CASE Proceed(b, "checked")
        BY <3>2, <4>2, ProceedMoves
           DEF CheckController, Shortcut, AuthorizeWake, IsAt, Typed, CallsOK, State
      <4>3. CASE Proceed(b, "admitting")
        <5>1. call[b].pc \in {"arrived", "checked"} /\ call[b] \in State
          BY <3>2 DEF CheckController, Shortcut, AuthorizeWake, IsAt, Typed, CallsOK
        <5>2. call'[b].pc = "admitting" /\ call'[b].doc = call[b].doc
          BY <4>3, <5>1, ProceedMoves DEF Typed, State
        <5>3. \/ IsAt(b, "arrived", "wake") /\ (MayWake(call[b].doc) \/ call'[b].pc = "idle")
              \/ IsAt(b, "checked", "provision")
              \/ CheckController(b)
          BY <3>1, <3>2 DEF Shortcut, AuthorizeWake, Answer
        <5>4. ~CheckController(b)
          <6>1. R!Return(b) \/ Proceed(b, "checked") => call'[b].pc # "admitting"
            BY <3>1, <5>1, ProceedMoves DEF Typed, State
          <6>2. QED
            BY <5>2, <6>1 DEF CheckController, Answer
        <5>5. QED
          BY <5>2, <5>3, <5>4 DEF Passes
      <4>4. QED
        BY <3>2, <4>1, <4>2, <4>3 DEF CheckController, Shortcut, AuthorizeWake, AfterCheck
    <3>3. CASE RecordStep(b)
      BY <3>3, RecordStepGoesOn DEF Typed
    <3>4. CASE ApplyRefused(b) \/ Transient(b)
      BY <3>4, EffectReports DEF ApplyRefused, OnRefused, Transient, OnTransient, Reports, Typed
    <3>5. CASE Apply(b) \/ Delivered(b) \/ Unregistered(b)
      BY <3>5, EffectReports DEF Apply, OnApplied, Delivered, Unregistered, Reports, Typed
    <3>6. CASE Refuse(b) \/ Disconnect(b)
      BY <3>1, <3>6 DEF Refuse, Answer, Disconnect, R!Abandon
    <3>7. QED
      BY <1>2, <2>2, <3>2, <3>3, <3>4, <3>5, <3>6 DEF Advance, SendOutcome
  <2>3. QED
    BY <2>1, <2>2
<1>3. CASE \/ \E c \in Call : Land(c)
           \/ \E h \in Handle, tok \in Token, n \in Name : Register(h, tok, n)
           \/ Sweep \/ Tick \/ UNCHANGED vars
  BY <1>3 DEF Land, Register, Sweep, Tick, R!Tick, vars, recordVars
<1>4. QED
  BY <1>1, <1>2, <1>3 DEF Next
-----------------------------------------------------------------------------
(* The parts of the invariant, step by step.  A report is what happened.      *)
LEMMA ReportsAreTrue ==
  ASSUME Sound, [Next]_vars, NEW c \in Call, Reports(c), call'[c].resp # InFlight
  PROVE  Happened(call[c].doc, call[c].resp)'
<1>1. call[c] \in State /\ call[c].pc = "admitted"
  BY DEF Sound, Typed, CallsOK, Reports
<1>2. call[c].doc \in Doc
  BY <1>1, Constants DEF Sound, Typed, CallsOK, State
<1>3. CASE Delivered(c) /\ call'[c].resp = "delivered"
  <2>1. c \in landed /\ pushes[call[c].doc] > 0 /\ call[c].doc.kind = "wake" /\ pushes' = pushes
    BY <1>3 DEF Delivered, SendEnds, IsAt, Sound, TruthInv, Counted
  <2>2. QED
    BY <1>3, <2>1, EffectReports DEF Happened, Delivered, Sound, Typed
<1>4. CASE Unregistered(c) /\ call'[c].resp = "unregistered"
  <2> DEFINE h == call[c].doc.handle
  <2>1. call[c].doc.kind = "wake" /\ h \in issued
    BY <1>1, <1>4 DEF Unregistered, SendEnds, IsAt, Sound, TruthInv, WakesKnown, Passed
  <2>2. h \notin DOMAIN handles' /\ issued' = issued
    BY <1>4 DEF Unregistered, S!Remove, S!Drop, S!Restrict, storeVars
  <2>3. call'[c].doc = call[c].doc
    BY <1>4, EffectReports DEF Unregistered, Sound, Typed
  <2>4. QED
    BY <1>4, <2>1, <2>2, <2>3 DEF Happened
<1>5. CASE Apply(c) /\ call'[c].resp = "provisioned"
  <2>1. call[c].doc \in Provisions /\ applied' = Bump(applied, call[c].doc)
    BY <1>2, <1>5 DEF Apply, IsAt, Provisions
  <2>2. applied'[call[c].doc] > 0
    BY <2>1, Bumped DEF Sound, TruthInv, HistoryOK
  <2>3. call'[c].doc = call[c].doc
    BY <1>5, EffectReports DEF Apply, OnApplied, Sound, Typed
  <2>4. QED
    BY <1>5, <2>1, <2>2, <2>3 DEF Happened, Provisions
<1>6. QED
  BY <1>3, <1>4, <1>5 DEF Reports

LEMMA AnsweringStays ==
  ASSUME Sound, [Next]_vars
  PROVE  Answering'
<1> SUFFICES ASSUME NEW c \in Call, call'[c].pc \in R!Closing, call'[c].resp # InFlight
             PROVE  Happened(call[c].doc, call[c].resp)'
  BY DEF Answering, R!Closing
<1>1. Moved(c) /\ call[c] \in State
  BY CallMoves DEF Sound, Typed, CallsOK
<1>2. CASE Reports(c)
  <2>1. call'[c].doc = call[c].doc
    BY <1>1 DEF Moved, R!Closing
  <2>2. QED
    BY <1>2, <2>1, ReportsAreTrue DEF Happened
<1>3. CASE ~Reports(c)
  <2>1. call[c].pc \in R!Closing /\ call'[c].resp = call[c].resp /\ call'[c].doc = call[c].doc
    BY <1>1, <1>3 DEF Moved, Passes, GoesOn, Passed, R!Closing, R!Claiming
  <2>2. call[c].doc \in Doc
    BY <1>1, <2>1, Constants DEF Sound, Typed, CallsOK, State, R!Closing
  <2>3. Happened(call[c].doc, call[c].resp)
    BY <2>1 DEF Sound, TruthInv, Answering
  <2> DEFINE d == call[c].doc
             resp == call[c].resp
  <2>4. \A e \in Doc : \A x : Happened(e, x) => Happened(e, x)'
    BY HappenedStays
  <2>5. QED
    BY <2>1, <2>2, <2>3, <2>4 DEF Happened
<1>4. QED
  BY <1>2, <1>3

LEMMA WakesKnownStays ==
  ASSUME Sound, [Next]_vars
  PROVE  WakesKnown'
<1> SUFFICES ASSUME NEW c \in Call, call'[c].pc \in Passed, call'[c].doc.kind = "wake"
             PROVE  call'[c].doc.handle \in issued'
  BY DEF WakesKnown, Passed, R!Claiming
<1>1. Moved(c) /\ issued \subseteq issued'
  BY CallMoves, GoneStays DEF Sound
<1>2. call'[c].doc = call[c].doc
  BY <1>1 DEF Moved, Passed, R!Claiming
<1>3. CASE call[c].pc \in Passed
  BY <1>1, <1>2, <1>3 DEF Sound, TruthInv, WakesKnown
<1>4. CASE call[c].pc \notin Passed
  <2>1. MayWake(call[c].doc)
    BY <1>1, <1>2, <1>4 DEF Moved, Passes, GoesOn, Reports, Passed, R!Claiming, R!Closing, IsAt
  <2>2. QED
    BY <1>1, <1>2, <2>1 DEF MayWake, Sound, S!TypeOK
<1>5. QED
  BY <1>3, <1>4

LEMMA CountedStays ==
  ASSUME Sound, [Next]_vars
  PROVE  Counted'
<1> SUFFICES ASSUME NEW c \in landed' PROVE pushes'[call'[c].doc] > 0
  BY DEF Counted
<1>1. c \in Call /\ IsAt(c, "admitted", "wake")'
  BY LandedStays DEF Sound, LandedOK
<1>2. call[c] \in State /\ call'[c].pc = "admitted" /\ call'[c].doc.kind = "wake"
  BY <1>1 DEF IsAt, Sound, Typed, CallsOK
<1>3. CASE c \in landed
  <2>1. call[c].pc = "admitted" /\ call[c].doc.kind = "wake"
    BY <1>3 DEF Sound, LandedOK, IsAt
  <2>2. call[c].doc \in Wakes
    <3>1. call[c].pc = "admitted" /\ call[c].doc.kind = "wake"
      BY <1>2, <2>1
    <3>2. call[c].doc \in Doc
      BY <1>1, <1>2, <3>1, Constants DEF Sound, Typed, CallsOK, State
    <3>3. QED
      BY <3>1, <3>2 DEF Wakes
  <2>3. call'[c].doc = call[c].doc
    BY <1>1, <1>2, CallMoves DEF Sound, Moved
  <2>4. pushes'[call[c].doc] > 0
    BY <1>3, <2>2, HistoryMoves DEF Sound, TruthInv, Counted
  <2>5. QED
    BY <2>3, <2>4
<1>4. CASE c \notin landed
  <2>1. Land(c) /\ call' = call
    <3>1. ASSUME NEW b \in Call, Land(b) PROVE landed' = landed \cup {b} /\ call' = call
      BY <3>1 DEF Land, recordVars
    <3>2. \/ landed' \subseteq landed \/ \E b \in Call : Land(b)
      BY DEF Next, Arrive, Refuse, Advance, CheckController, Shortcut, AuthorizeWake, RecordStep,
         Answer, Proceed, Apply, ApplyRefused, SendOutcome, Delivered, Transient, Unregistered,
         SendEnds, Disconnect, Register, Sweep, Tick, vars
    <3>3. QED
      BY <1>4, <3>1, <3>2
  <2>2. call[c].doc \in Wakes
    <3>1. call[c].pc = "admitted" /\ call[c].doc.kind = "wake"
      BY <1>2, <2>1
    <3>2. call[c].doc \in Doc
      BY <1>1, <1>2, <3>1, Constants DEF Sound, Typed, CallsOK, State
    <3>3. QED
      BY <3>1, <3>2 DEF Wakes
  <2>3. QED
    BY <2>1, <2>2, Bumped DEF Land, Sound, TruthInv, HistoryOK
<1>5. QED
  BY <1>3, <1>4

(* Which steps write to the guards and their map.                             *)
LEMMA RecordWrites ==
  ASSUME [Next]_vars
  PROVE  \/ UNCHANGED <<issuers, guard, lost>>
         \/ \E c \in Call : R!Partition(c) \/ R!GuardClaim(c) \/ R!GuardClose(c)
<1>1. ASSUME NEW c \in Call, Refuse(c) \/ Advance(c) \/ SendOutcome(c) \/ Disconnect(c)
      PROVE  \/ UNCHANGED <<issuers, guard, lost>>
             \/ R!Partition(c) \/ R!GuardClaim(c) \/ R!GuardClose(c)
  <2>1. CASE Refuse(c) \/ CheckController(c) \/ Shortcut(c) \/ AuthorizeWake(c)
    BY <2>1 DEF Refuse, CheckController, Shortcut, AuthorizeWake, Answer, Proceed
  <2>2. CASE RecordStep(c)
    BY <2>2 DEF RecordStep, R!ClaimStep, R!CloseStep, R!Charge, R!Uncharge, R!Lookup
  <2>3. CASE Apply(c) \/ ApplyRefused(c) \/ SendOutcome(c) \/ Disconnect(c)
    BY <2>3 DEF Apply, OnApplied, ApplyRefused, OnRefused, SendOutcome, Delivered, Transient,
       OnTransient, Unregistered, Disconnect, R!Succeed, R!Fail, R!Abandon
  <2>4. QED
    BY <1>1, <2>1, <2>2, <2>3 DEF Advance
<1>2. QED
  BY <1>1 DEF Next, Arrive, Land, Register, Sweep, Tick, R!Tick, vars, recordVars

(* What a guard says of a document it said before, or a call just reported    *)
(* it, of this document or one under the same identifier.                     *)
Says(g, d, resp) == d \in DOMAIN g /\ g[d] = resp

LEMMA GuardMoves ==
  ASSUME Typed, [Next]_vars, NEW r \in Ref, NEW d, NEW resp,
         resp # InFlight, Says(guard'[r], d, resp)
  PROVE  \/ Says(guard[r], d, resp)
         \/ \E c \in Call : /\ call[c].pc \in R!Closing /\ call[c].resp = resp
                            /\ d \in R!Twins(call[c].doc)
<1> USE DEF Says
<1>1. guard \in [Ref -> RP!Entries]
  BY DEF Typed, RP!IInv, RP!TypeOK
<1>2. CASE guard' = guard
  BY <1>2
<1>3. ASSUME NEW c \in Call, R!Partition(c) PROVE Says(guard[r], d, resp)
  <2> DEFINE g == R!Purged(call[c].at)
  <2>1. guard' = g \/ \E q : guard' = [g EXCEPT ![q] = R!Empty]
    BY <1>3 DEF R!Partition
  <2>2. Says(g[r], d, resp) => Says(guard[r], d, resp)
    BY DEF R!Purged, R!Restrict
  <2>3. DOMAIN g = Ref
    BY DEF R!Purged
  <2> HIDE DEF g
  <2>4. guard'[r] = g[r] \/ guard'[r] = R!Empty
    BY <2>1, <2>3
  <2>5. ~Says(R!Empty, d, resp)
    BY DEF R!Empty
  <2>6. QED
    BY <2>2, <2>4, <2>5
<1>4. ASSUME NEW c \in Call, NEW g, guard' = R!Update(call[c].ref, c, g)
      PROVE  Says(guard[r], d, resp) \/ (r = call[c].ref /\ Says(g, d, resp))
  BY <1>1, <1>4 DEF R!Update, R!Empty
<1>5. ASSUME NEW c \in Call, R!GuardClaim(c) PROVE Says(guard[r], d, resp)
  <2>2. Says(R!Live(c), d, resp) => Says(guard[call[c].ref], d, resp)
    BY DEF R!Live, R!Restrict
  <2>3. CASE guard' = R!Update(call[c].ref, c, R!Live(c))
    BY <1>4, <2>2, <2>3
  <2>4. ASSUME NEW out,
               guard' = R!Update(call[c].ref, c, R!Record(R!Restrict(R!Live(c),
                                   DOMAIN R!Live(c) \ out), call[c].doc, InFlight))
        PROVE  Says(guard[r], d, resp)
    <3> DEFINE g == R!Restrict(R!Live(c), DOMAIN R!Live(c) \ out)
    <3>1. Says(R!Record(g, call[c].doc, InFlight), d, resp) => Says(g, d, resp)
      BY DEF R!Record
    <3>2. Says(g, d, resp) => Says(R!Live(c), d, resp)
      BY DEF R!Restrict
    <3>3. QED
      BY <1>4, <2>2, <2>4, <3>1, <3>2
  <2>5. QED
    BY <1>5, <2>3, <2>4 DEF R!GuardClaim
<1>6. ASSUME NEW c \in Call, R!GuardClose(c)
      PROVE  \/ Says(guard[r], d, resp)
             \/ /\ call[c].pc \in R!Closing /\ call[c].resp = resp
                /\ d \in R!Twins(call[c].doc)
  <2> DEFINE g == guard[call[c].ref]
             cl == R!Closed(g, call[c].doc, call[c].resp)
  <2>1. Says(guard[r], d, resp) \/ (r = call[c].ref /\ Says(cl, d, resp))
    BY <1>4, <1>6 DEF R!GuardClose
  <2>2. Says(cl, d, resp) => \/ Says(g, d, resp)
                             \/ call[c].resp = resp /\ d \in R!Twins(call[c].doc)
    BY DEF R!Closed, R!Answered, R!Restrict
  <2>3. call[c].pc \in R!Closing
    BY <1>6 DEF R!GuardClose, R!Closing
  <2>4. QED
    BY <2>1, <2>2, <2>3
<1>7. QED
  BY <1>2, <1>3, <1>5, <1>6, RecordWrites

LEMMA AnswersStay ==
  ASSUME Sound, [Next]_vars
  PROVE  Answers'
<1> SUFFICES ASSUME NEW r \in Ref, NEW d, NEW resp, resp # InFlight, Says(guard'[r], d, resp)
             PROVE  \E e \in R!Twins(d) : Happened(e, resp)'
  BY DEF Answers, R!Twins, Happened, Says
<1>1. d \in Doc
  <2>1. guard' \in [Ref -> RP!Entries]
    BY TypedKept DEF Sound, Typed, RP!IInv, RP!TypeOK, RP!Entries
  <2>2. QED
    BY <2>1 DEF RP!Entries, Says
<1>2. \E e \in R!Twins(d) : Happened(e, resp)
  <2>1. CASE Says(guard[r], d, resp)
    BY <2>1 DEF Says, Sound, TruthInv, Answers
  <2>2. ASSUME NEW c \in Call, call[c].pc \in R!Closing, call[c].resp = resp,
               d \in R!Twins(call[c].doc)
        PROVE  \E e \in R!Twins(d) : Happened(e, resp)
    <3>1. call[c].doc \in Doc
      BY <2>2, Constants DEF Sound, Typed, CallsOK, State, R!Closing
    <3>2. call[c].doc \in R!Twins(d)
      BY <1>1, <2>2, <3>1 DEF R!Twins
    <3>3. QED
      BY <2>2, <3>2 DEF Sound, TruthInv, Answering
  <2>3. QED
    BY <2>1, <2>2, GuardMoves DEF Says, Sound
<1>3. QED
  <2>1. PICK e \in R!Twins(d) : Happened(e, resp)
    BY <1>2
  <2>2. e \in Doc
    BY <2>1 DEF R!Twins
  <2>3. QED
    BY <2>1, <2>2, HappenedStays DEF Happened

LEMMA SoundAtFirst ==
  ASSUME Init PROVE Sound
<1>1. Typed /\ S!TypeOK
  BY TypedAtFirst, GatewayAssumption, SP!InitStore, SameOperations, SameRegistry DEF Init
<1>2. LandedOK /\ Counted /\ HistoryOK
  BY DEF Init, LandedOK, Counted, HistoryOK
<1>3. call = [c \in Call |-> R!IdleCall] /\ guard = [r \in Ref |-> R!Empty]
  BY DEF Init, R!Init
<1>4. Answers /\ Answering /\ WakesKnown
  BY <1>3 DEF Answers, Answering, WakesKnown, Passed, R!Empty, R!IdleCall, R!Claiming, R!Closing
<1>5. QED
  BY <1>1, <1>2, <1>4 DEF Sound, TruthInv

LEMMA SoundKept ==
  ASSUME Sound, [Next]_vars PROVE Sound'
BY TypedKept, RegistryKept, LandedStays, AnswersStay, AnsweringStays, CountedStays, WakesKnownStays,
   HistoryMoves DEF Sound, TruthInv

(* The answer a duplicate gets is what happened, whatever the push service,   *)
(* the clients and the other calls do: a push delivered, a handle removed for *)
(* good, an allowlist set (replay.rs: a duplicate is answered with the stored *)
(* response).                                                                 *)
THEOREM DuplicatesAreToldTheTruth == Spec => []AnswersAreTrue
<1>1. Sound => AnswersAreTrue
  <2> SUFFICES ASSUME Sound, NEW i \in DOMAIN issuers, NEW d \in DOMAIN guard[issuers[i]],
                      guard[issuers[i]][d] # InFlight
               PROVE  \E e \in R!Twins(d) : True(e, guard[issuers[i]][d])
    BY DEF AnswersAreTrue
  <2>1. issuers[i] \in Ref
    BY DEF Sound, Typed, RP!IInv, RP!TypeOK
  <2>2. PICK e \in R!Twins(d) : Happened(e, guard[issuers[i]][d])
    BY <2>1 DEF Sound, TruthInv, Answers
  <2>3. True(e, guard[issuers[i]][d])
    BY <2>2 DEF Happened, True
  <2>4. QED
    BY <2>3
<1>2. QED
  BY <1>1, SoundAtFirst, SoundKept, PTL DEF Spec
-----------------------------------------------------------------------------
(* Effects.  A document that took effect is spent, and a call that is about   *)
(* to let one take effect holds it alone.                                     *)
Noted  == \A d \in Doc : Effects(d) > 0 => d \in spent
Single == \A d \in Doc \ lost : Effects(d) <= 1

Settled == HistoryOK /\ Noted /\ Single

(* What took effect stays so. *)
LEMMA SpentStays ==
  ASSUME Typed, [Next]_vars
  PROVE  spent \subseteq spent' /\ lost \subseteq lost'
<1>1. [RP!Next]_RP!vars
  BY RecordNext
<1>2. QED
  BY <1>1 DEF RP!Next, RP!vars, RP!Receive, RP!Refuse, RP!ClaimStep, RP!Partition, RP!GuardClaim,
     RP!Charge, RP!Succeed, RP!Fail, RP!Abandon, RP!CloseStep, RP!Uncharge, RP!Lookup,
     RP!GuardClose, RP!Tick, RP!Restart

Takes(c) == Apply(c) \/ Delivered(c)

LEMMA BumpedOnce ==
  ASSUME NEW D, NEW f \in [D -> Nat], NEW d \in D
  PROVE  /\ \A e \in D \ {d} : Bump(f, d)[e] = f[e]
         /\ f[d] = 0 => Bump(f, d)[d] = 1
BY DEF Bump, MaxPushes

LEMMA EffectIsTaken ==
  ASSUME Typed, HistoryOK, NEW c \in Call, Takes(c)
  PROVE  \E d \in Doc :
           /\ call[c].doc = d /\ call[c].pc = "admitted"
           /\ spent' = spent \cup {d} /\ lost' = lost
           /\ \A e \in Doc \ {d} : Effects(e)' = Effects(e)
           /\ Effects(d) = 0 => Effects(d)' <= 1
<1>1. PICK resp : R!Succeed(c, resp)
  BY DEF Takes, Apply, OnApplied, Delivered
<1>2. call[c].pc = "admitted" /\ call[c] \in State
  BY <1>1 DEF R!Succeed, Typed, CallsOK
<1>3. PICK d \in Doc : call[c].doc = d
  BY <1>2, Constants DEF Typed, CallsOK, State
<1>4. spent' = spent \cup {d} /\ lost' = lost
  BY <1>1, <1>3 DEF R!Succeed
<1>5. CASE Apply(c)
  <2>1. d \in Provisions /\ applied' = Bump(applied, d) /\ confirmed' = confirmed
    BY <1>3, <1>5 DEF Apply, IsAt, Provisions
  <2>2. /\ \A e \in Provisions \ {d} : applied'[e] = applied[e]
        /\ applied[d] = 0 => applied'[d] = 1
    BY <2>1, BumpedOnce DEF HistoryOK
  <2>3. /\ \A e \in Doc \ {d} : Effects(e)' = Effects(e)
        /\ Effects(d) = 0 => Effects(d)' <= 1
    BY <2>1, <2>2, GatewayAssumption DEF Effects, Provisions
  <2>4. QED
    BY <1>2, <1>3, <1>4, <2>3
<1>6. CASE Delivered(c)
  <2>1. d \in Wakes /\ confirmed' = Bump(confirmed, d) /\ applied' = applied
    BY <1>3, <1>6 DEF Delivered, SendEnds, IsAt, Wakes
  <2>2. /\ \A e \in Wakes \ {d} : confirmed'[e] = confirmed[e]
        /\ confirmed[d] = 0 => confirmed'[d] = 1
    BY <2>1, BumpedOnce DEF HistoryOK
  <2>3. /\ \A e \in Doc \ {d} : Effects(e)' = Effects(e)
        /\ Effects(d) = 0 => Effects(d)' <= 1
    BY <2>1, <2>2 DEF Effects, Wakes
  <2>4. QED
    BY <1>2, <1>3, <1>4, <2>3
<1>7. QED
  BY <1>5, <1>6 DEF Takes

LEMMA EffectsStay ==
  ASSUME [Next]_vars
  PROVE  UNCHANGED <<applied, confirmed>> \/ \E c \in Call : Takes(c)
<1>1. ASSUME NEW c \in Call, Refuse(c) \/ CheckController(c) \/ Shortcut(c) \/ AuthorizeWake(c)
      PROVE  UNCHANGED <<applied, confirmed>>
  BY <1>1 DEF Refuse, CheckController, Shortcut, AuthorizeWake, history
<1>2. ASSUME NEW c \in Call,
             \/ RecordStep(c) \/ ApplyRefused(c) \/ Land(c) \/ Transient(c) \/ Unregistered(c)
             \/ Disconnect(c)
      PROVE  UNCHANGED <<applied, confirmed>>
  BY <1>2 DEF RecordStep, ApplyRefused, Land, Transient, Unregistered, Disconnect, history
<1>3. QED
  BY <1>1, <1>2
     DEF Takes, Next, Arrive, Advance, SendOutcome, Register, Sweep, Tick, vars, history

LEMMA SettledKept ==
  ASSUME Settled, Typed, RP!RInv, [Next]_vars
  PROVE  Settled'
<1>1. HistoryOK' /\ spent \subseteq spent' /\ lost \subseteq lost'
  BY HistoryMoves, SpentStays DEF Settled
<1>2. CASE UNCHANGED <<applied, confirmed>>
  BY <1>1, <1>2 DEF Settled, Noted, Single, Effects
<1>3. ASSUME NEW c \in Call, Takes(c) PROVE Settled'
  <2>1. PICK d \in Doc :
          /\ call[c].doc = d /\ call[c].pc = "admitted"
          /\ spent' = spent \cup {d} /\ lost' = lost
          /\ \A e \in Doc \ {d} : Effects(e)' = Effects(e)
          /\ Effects(d) = 0 => Effects(d)' <= 1
    BY <1>3, EffectIsTaken DEF Settled
  <2>2. d \in lost \/ d \notin spent
    <3>1. recordCall[c].doc = d /\ recordCall[c].pc = "admitted"
      BY <2>1, RecordCalls DEF Typed
    <3>2. RP!Holds(recordCall[c], d)
      BY <3>1 DEF RP!Holds
    <3>3. QED
      BY <3>2 DEF RP!RInv, RP!Single
  <2>3. Effects(d) \in Nat
    BY GatewayAssumption DEF Effects, Settled, HistoryOK, Wakes, Provisions
  <2>4. d \in lost \/ Effects(d)' <= 1
    BY <2>1, <2>2, <2>3 DEF Settled, Noted
  <2>5. Noted'
    <3> SUFFICES ASSUME NEW e \in Doc, (Effects(e) > 0)' PROVE e \in spent'
      BY DEF Noted
    <3>1. QED
      BY <2>1 DEF Settled, Noted
  <2>6. Single'
    <3> SUFFICES ASSUME NEW e \in Doc \ lost' PROVE (Effects(e) <= 1)'
      BY DEF Single
    <3>1. QED
      BY <2>1, <2>4 DEF Settled, Single
  <2>7. QED
    BY <1>1, <2>5, <2>6 DEF Settled
<1>4. QED
  BY <1>2, <1>3, EffectsStay

LEMMA SettledAtFirst ==
  ASSUME Init PROVE Settled
<1>1. \A d \in Doc : Effects(d) = 0
  BY GatewayAssumption DEF Init, Effects, Wakes, Provisions
<1>2. QED
  BY <1>1 DEF Init, Settled, HistoryOK, Noted, Single

LEMMA AlwaysSettled ==
  ASSUME MaxLag < Margin
  PROVE  Spec /\ []RP!NeverEvicts => []Settled
<1>1. RP!Spec /\ []RP!NeverEvicts => []RP!RInv
  BY GatewayAssumption, RP!AlwaysRemembered
<1>2. QED
  BY <1>1, SettledAtFirst, SettledKept, AlwaysTyped, RecordSpec, PTL DEF Spec

(* A document takes effect once: when calls are preempted for less than the   *)
(* retention margin and no guard evicts a live entry, no allowlist is set     *)
(* twice by one document and no wake is reported delivered twice, unless the  *)
(* record has lost the document - for any calls and sends, timed out or not   *)
(* (api.rs: handle_provision, handle_wake).                                   *)
THEOREM EffectsAreSingle ==
  ASSUME MaxLag < Margin
  PROVE  Spec /\ []RP!NeverEvicts => [](\A d \in Doc \ lost : Effects(d) <= 1)
<1>1. Settled => \A d \in Doc \ lost : Effects(d) <= 1
  BY DEF Settled, Single
<1>2. QED
  BY <1>1, AlwaysSettled, PTL

(* With two workers no guard evicts.                                          *)
THEOREM TwoWorkersEffectOnce ==
  ASSUME Workers <= 2, MaxLag < Margin
  PROVE  Spec => [](\A d \in Doc \ lost : Effects(d) <= 1)
<1>1. RP!Spec => []RP!NeverEvicts
  BY GatewayAssumption, RP!TwoWorkersNeverEvict
<1>2. QED
  BY <1>1, EffectsAreSingle, RecordSpec, PTL
-----------------------------------------------------------------------------
(* One worker loses no document while the process runs: nothing comes between *)
(* the partition and the claim, so a claim goes into a guard of the map.      *)
Mapped == \A c \in Call : call[c].pc = "claim" => call[c].ref \in R!Mapped
Kept   == lost = {} /\ Mapped

LEMMA ClaimsComeFromPartition ==
  ASSUME Typed, [Next]_vars, NEW c \in Call, call'[c].pc = "claim"
  PROVE  call'[c] = call[c] \/ R!Partition(c)
<1>1. call'[c] = call[c] \/ RecordStep(c)
  BY CallMoves DEF Moved, Passes, Reports, GoesOn, R!Closing
<1>2. call[c] \in State
  BY DEF Typed, CallsOK
<1>3. ~(R!GuardClaim(c) \/ R!Charge(c) \/ R!CloseStep(c))
  <2>1. ~R!Return(c)
    BY ReturnMoves DEF Typed, R!IdleCall
  <2>2. QED
    BY <1>2, <2>1 DEF R!GuardClaim, R!Charge, R!CloseStep, R!Uncharge, R!Goto, R!Lookup,
       R!GuardClose, Typed, CallsOK, State
<1>4. QED
  BY <1>1, <1>3 DEF RecordStep, R!ClaimStep

LEMMA OneRuns ==
  ASSUME CallsOK, WorkersHold, Workers = 1, NEW b \in Running, NEW c \in Running
  PROVE  b = c
<1> SUFFICES ASSUME b # c PROVE FALSE
  OBVIOUS
<1>1. {b, c} \subseteq Running /\ IsFiniteSet(Running)
  BY RunningCalls
<1>2. Cardinality({b} \cup {c}) = 2 /\ IsFiniteSet({b} \cup {c})
  <2>1. IsFiniteSet({b}) /\ Cardinality({b}) = 1
    BY FS_Singleton
  <2>2. QED
    BY <2>1, FS_AddElement
<1>3. 2 <= Cardinality(Running)
  BY <1>1, <1>2, FS_Subset
<1>4. QED
  BY <1>3, RunningCalls DEF WorkersHold

LEMMA KeptKept ==
  ASSUME Kept, Typed, Workers = 1, [Next]_vars
  PROVE  Kept'
<1>1. ASSUME NEW c \in Call, R!Partition(c), call'[c].pc = "claim"
      PROVE  call'[c].ref \in R!Mapped'
  <2>1. call[c] \in State
    BY DEF Typed, CallsOK
  <2>2. ~R!Return(c)
    BY <1>1, ReturnMoves DEF Typed, R!IdleCall
  <2>3. PICK r, m :
          /\ issuers' = [i \in DOMAIN m \cup {call[c].doc.issuer} |->
                           IF i = call[c].doc.issuer THEN r ELSE m[i]]
          /\ call' = [call EXCEPT ![c].pc = "claim", ![c].ref = r]
    BY <1>1, <2>2 DEF R!Partition
  <2>4. call'[c].ref = r
    BY <2>1, <2>3 DEF Typed, CallsOK, State
  <2>5. QED
    BY <2>3, <2>4 DEF R!Mapped, R!Range
<1>2. lost' = {}
  <2>1. ASSUME NEW c \in Call, R!GuardClaim(c) PROVE lost' = lost
    <3>1. call[c].ref \in R!Mapped
      BY <2>1 DEF R!GuardClaim, Kept, Mapped
    <3>2. QED
      BY <2>1, <3>1 DEF R!GuardClaim
  <2>2. QED
    BY <2>1, RecordWrites DEF R!Partition, R!GuardClose, Kept
<1>3. Mapped'
  <2> SUFFICES ASSUME NEW c \in Call, call'[c].pc = "claim" PROVE call'[c].ref \in R!Mapped'
    BY DEF Mapped
  <2>1. CASE R!Partition(c)
    BY <1>1, <2>1
  <2>2. CASE call'[c] = call[c] /\ ~R!Partition(c)
    <3>1. c \in Running
      BY <2>2 DEF Running, R!Running, R!At, R!Claiming
    <3>2. issuers' = issuers
      <4>1. ASSUME NEW b \in Call, R!Partition(b) PROVE FALSE
        <5>1. b \in Running
          BY <4>1 DEF R!Partition, Running, R!Running, R!At, R!Claiming
        <5>2. QED
          BY <2>2, <3>1, <4>1, <5>1, OneRuns DEF Typed
      <4>2. QED
        BY <4>1, RecordWrites DEF R!GuardClaim, R!GuardClose
    <3>3. QED
      BY <2>2, <3>2 DEF Kept, Mapped, R!Mapped, R!Range
  <2>3. QED
    BY <2>1, <2>2, ClaimsComeFromPartition
<1>4. QED
  BY <1>2, <1>3 DEF Kept

(* So with one worker - a host with one core - every document takes effect    *)
(* at most once: one change of the allowlist, one push reported delivered.    *)
THEOREM OneWorkerEffectOnce ==
  ASSUME Workers = 1, MaxLag < Margin
  PROVE  Spec => []EffectOnce
<1>1. Init => Kept
  BY DEF Init, R!Init, R!IdleCall, Kept, Mapped
<1>2. Kept /\ Settled => EffectOnce
  BY DEF Kept, Settled, Single, EffectOnce
<1>3. RP!Spec => []RP!NeverEvicts
  BY GatewayAssumption, RP!TwoWorkersNeverEvict
<1>4. QED
  BY <1>1, <1>2, <1>3, AlwaysSettled, KeptKept, AlwaysTyped, RecordSpec, PTL DEF Spec
=============================================================================
