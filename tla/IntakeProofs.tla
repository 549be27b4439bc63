---------------------------- MODULE IntakeProofs ----------------------------
(* For any calls, documents, DID documents, keys, budgets and timeouts: what  *)
(* the intake executes was proven by its caller with a key that was good a    *)
(* short time ago, and every budget is its owner's.                           *)
EXTENDS Intake, SequenceTheorems, TLAPS

CallState ==
  [pc : {"idle", "arrived", "resolving", "fetched", "done"}, doc : Doc \cup {NoDoc},
   claim : Name \cup {Nobody}, at : Nat, answer : Nat, caller : Name \cup {Nobody},
   outcome : Outcomes]

(* The types that the steps rely on, histories included.                      *)
CallsOK == call \in [Call -> CallState] /\ \A c \in Call : call[c].at <= now
LimitsOK ==
  /\ DOMAIN bucket \subseteq DidOf
  /\ bucket \in [DOMAIN bucket -> 0..Burst(PerDid)]
  /\ register \in 0..Burst(PerRegister)
  /\ owed \in [DidOf -> 0..Burst(PerDid)]
PublishedOK ==
  /\ version \in [Name -> Nat] /\ until \in [Name -> Seq(Nat)]
  /\ \A n \in Name :
       /\ version[n] \in 1..Len(History[n])
       /\ Len(until[n]) = version[n] - 1
       /\ \A j \in 1..Len(until[n]) : until[n][j] <= now
CacheOK ==
  /\ DOMAIN cache \subseteq Name
  /\ cache \in [DOMAIN cache -> [version : Nat, at : Nat]]

(* A call has an outcome exactly when it is done, and a caller only with one  *)
(* of the outcomes that dispatching it has.                                   *)
Settled(c) ==
  /\ call[c].pc # "idle" => call[c].doc \in Doc
  /\ (call[c].pc = "done") = (call[c].outcome # "none")
  /\ call[c].caller # Nobody => call[c].outcome \in {"executed", "registered", "limited"}

TheProof(d) == CHOOSE p \in d.proof : TRUE

(* A call that waits for a DID document has passed the checks before it, waits*)
(* for its issuer's, and not for longer than the timeout.                     *)
Admissible(d) == ~WrongRecipient(d) /\ d.proof # {} /\ Bound(d, TheProof(d))
Pending(c) ==
  call[c].pc \in {"resolving", "fetched"} =>
    Admissible(call[c].doc) /\ now <= call[c].at + NetTimeout

(* When version i of a DID document, rotated at the times u, was published.   *)
During(u, i, from, to) ==
  /\ i = 1 \/ (i <= Len(u) + 1 /\ u[i - 1] <= to)
  /\ i > Len(u) \/ u[i] >= from

(* The answer of a host was published after its call asked.                   *)
AnswerRecent(c) ==
  call[c].pc = "fetched" =>
    /\ call[c].answer \in 1..version[call[c].doc.issuer]
    /\ During(until[call[c].doc.issuer], call[c].answer, call[c].at, now)

(* A cached document was published a timeout before it was cached or later,   *)
(* and is not kept beyond its lifetime.                                       *)
CacheRecent ==
  \A n \in DOMAIN cache :
    /\ cache[n].version \in 1..version[n]
    /\ cache[n].at <= now /\ now <= cache[n].at + CacheTtl
    /\ During(until[n], cache[n].version, cache[n].at - NetTimeout, now)

(* ExecutesOnlyProven and AuthorisedRecently, of one call.                    *)
Proven(c) ==
  call[c].outcome = "executed" =>
    LET d == call[c].doc IN
    /\ d.intact /\ d.recipient = Gateway /\ d.proof # {}
    /\ \A proof \in d.proof : Holder[proof.signer] = call[c].caller
    /\ call[c].claim # Nobody => Bare[call[c].claim] = call[c].caller
Recent(c) ==
  call[c].outcome = "executed" =>
    LET n == call[c].doc.issuer  t == call[c].at IN
    /\ n \in Name
    /\ \A proof \in call[c].doc.proof : \E i \in 1..version[n] :
         /\ During(until[n], i, t - (CacheTtl + NetTimeout), t)
         /\ Authorises(History[n][i], proof.signer, Bare[n], t)

Typed == now \in 0..MaxTime /\ CallsOK /\ LimitsOK /\ PublishedOK /\ CacheOK
CallOK(c) == Settled(c) /\ Pending(c) /\ AnswerRecent(c) /\ Proven(c) /\ Recent(c)
IInv == Typed /\ (\A c \in Call : CallOK(c)) /\ CacheRecent /\ BudgetsFollowIdentity
-----------------------------------------------------------------------------
(* Lemmas about the operators.                                                *)
LEMMA MinOfTwo ==
  ASSUME NEW a \in Int, NEW b \in Int
  PROVE  Min({a, b}) = IF a <= b THEN a ELSE b
<1>1. \E x \in {a, b} : \A y \in {a, b} : x <= y
  OBVIOUS
<1>2. Min({a, b}) \in {a, b} /\ \A y \in {a, b} : Min({a, b}) <= y
  BY <1>1 DEF Min
<1>3. QED
  BY <1>2

LEMMA Settings ==
  /\ Burst(PerDid) \in Nat \ {0} /\ Rate(PerDid) \in Nat \ {0}
  /\ Burst(PerRegister) \in Nat \ {0} /\ Rate(PerRegister) \in Nat \ {0}
<1>1. ASSUME NEW s, NEW default \in Nat \ {0}, s = {} \/ \E n \in s : n \in Nat /\ s = {n}
      PROVE  Setting(s, default) \in Nat \ {0}
  BY <1>1 DEF Setting
<1>2. QED
  BY <1>1, LimitsAssumption DEF Burst, Rate

LEMMA RefilledBounds ==
  ASSUME NEW config \in {PerDid, PerRegister}, NEW cells \in 0..Burst(config)
  PROVE  Refilled(cells, config) \in 0..Burst(config)
         /\ (cells = Burst(config) => Refilled(cells, config) = Burst(config))
  BY Settings, MinOfTwo DEF Refilled

LEMMA Publication ==
  ASSUME NEW n, NEW i, NEW from, NEW to
  PROVE  PublishedWithin(n, i, from, to) = During(until[n], i, from, to)
  BY DEF PublishedWithin, During

(* The version that is published now, and one that was published then.        *)
LEMMA DuringNow ==
  ASSUME NEW u \in Seq(Nat), NEW t \in Nat, \A j \in 1..Len(u) : u[j] <= t, NEW from
  PROVE  During(u, Len(u) + 1, from, t)
  BY DEF During

LEMMA DuringWidens ==
  ASSUME NEW u \in Seq(Nat), NEW i \in Nat \ {0}, NEW from \in Int, NEW to \in Int,
         During(u, i, from, to), NEW from2 \in Int, NEW to2 \in Int, from2 <= from, to <= to2
  PROVE  During(u, i, from2, to2)
<1>1. i = 1 \/ (i <= Len(u) + 1 /\ u[i - 1] <= to2)
  <2>1. CASE i # 1
    <3>1. i - 1 \in 1..Len(u) /\ u[i - 1] <= to
      BY <2>1 DEF During
    <3>2. u[i - 1] \in Nat
      BY <3>1, ElementOfSeq
    <3>3. QED
      BY <3>1, <3>2
  <2>2. QED
    BY <2>1
<1>2. i > Len(u) \/ u[i] >= from2
  <2>1. CASE i <= Len(u)
    <3>1. u[i] \in Nat /\ u[i] >= from
      BY <2>1, ElementOfSeq DEF During
    <3>2. QED
      BY <3>1
  <2>2. QED
    BY <2>1
<1>3. QED
  BY <1>1, <1>2 DEF During

LEMMA DuringOutlives ==
  ASSUME NEW u \in Seq(Nat), NEW i \in Nat \ {0}, NEW from \in Int, NEW to,
         During(u, i, from, to), NEW t \in Nat, from <= t
  PROVE  During(Append(u, t), i, from, to)
<1>1. /\ Len(Append(u, t)) = Len(u) + 1
      /\ \A j \in 1..Len(u) : Append(u, t)[j] = u[j]
      /\ Append(u, t)[Len(u) + 1] = t
  OBVIOUS
<1>2. i = 1 \/ (i <= Len(Append(u, t)) + 1 /\ Append(u, t)[i - 1] <= to)
  <2>1. CASE i # 1
    <3>1. i - 1 \in 1..Len(u) /\ u[i - 1] <= to
      BY <2>1 DEF During
    <3>2. QED
      BY <1>1, <3>1
  <2>2. QED
    BY <2>1
<1>3. i > Len(Append(u, t)) \/ Append(u, t)[i] >= from
  <2>1. CASE i <= Len(u)
    BY <1>1, <2>1 DEF During
  <2>2. CASE i = Len(u) + 1
    BY <1>1, <2>2
  <2>3. QED
    BY <1>1, <2>1, <2>2
<1>4. QED
  BY <1>2, <1>3 DEF During

(* The proof of a document is the only one it has.                            *)
LEMMA OnlyProof ==
  ASSUME NEW d \in Doc, d.proof # {}
  PROVE  TheProof(d) \in d.proof /\ \A p \in d.proof : p = TheProof(d)
  BY IntakeAssumption DEF TheProof
-----------------------------------------------------------------------------
(* Lemmas about the steps.                                                    *)
LEMMA CallsStay ==
  ASSUME CallsOK, NEW c \in Call, NEW s \in CallState, s.at <= now',
         call' = [call EXCEPT ![c] = s], now <= now', now \in Nat, now' \in Nat
  PROVE  CallsOK' /\ call'[c] = s /\ \A d \in Call : d # c => call'[d] = call[d]
<1>1. call' \in [Call -> CallState]
  BY DEF CallsOK
<1>2. call'[c] = s /\ \A d \in Call : d # c => call'[d] = call[d]
  BY DEF CallsOK
<1>3. ASSUME NEW d \in Call PROVE call'[d].at <= now'
  <2>1. call[d].at \in Nat /\ call[d].at <= now
    BY DEF CallsOK, CallState
  <2>2. QED
    BY <1>2, <2>1
<1>4. QED
  BY <1>1, <1>2, <1>3 DEF CallsOK

(* What a call has is not touched by the steps of others.                     *)
LEMMA OthersKeep ==
  ASSUME NEW c, CallOK(c), call'[c] = call[c],
         UNCHANGED <<now, hasDid, version, until>>
  PROVE  CallOK(c)'
<1>1. Settled(c)' /\ AnswerRecent(c)' /\ Proven(c)' /\ Recent(c)'
  BY DEF CallOK, Settled, AnswerRecent, Proven, Recent
<1>2. Pending(c)'
  BY DEF CallOK, Pending, Admissible, WrongRecipient
<1>3. QED
  BY <1>1, <1>2 DEF CallOK

(* An answered call, and the caller it may have.                              *)
LEMMA AnsweredMoves ==
  ASSUME CallsOK, now \in Nat, now' = now, NEW c \in Call, NEW o \in Outcomes,
         NEW who \in Name \cup {Nobody}, Answered(c, o, who)
  PROVE  /\ CallsOK'
         /\ \A d \in Call : d # c => call'[d] = call[d]
         /\ call'[c].pc = "done" /\ call'[c].at = now /\ call'[c].outcome = o
         /\ call'[c].caller = who /\ call'[c].doc = call[c].doc
         /\ call'[c].claim = call[c].claim
<1> DEFINE s == [call[c] EXCEPT !.pc = "done", !.at = now, !.outcome = o, !.caller = who]
<1>1. call[c] \in CallState
  BY DEF CallsOK
<1>2. /\ s \in CallState /\ s.pc = "done" /\ s.at = now /\ s.outcome = o /\ s.caller = who
      /\ s.doc = call[c].doc /\ s.claim = call[c].claim
  BY <1>1 DEF CallState
<1>3. call' = [call EXCEPT ![c] = s]
  BY DEF Answered, CallsOK
<1> HIDE DEF s
<1>4. s.at <= now'
  BY <1>2
<1>5. QED
  BY <1>2, <1>3, <1>4, CallsStay

(* What the limiter in front of the handlers does, and whom it charges.       *)
Verdict(c, o, who) ==
  /\ Answered(c, o, who)
  /\ o \in Outcomes \ {"none"}
  /\ who # Nobody => o \in {"executed", "registered", "limited"}

LEMMA DispatchVerdict ==
  ASSUME LimitsOK, BudgetsFollowIdentity, NEW c, NEW d \in Doc, NEW caller,
         caller = Nobody \/ (d.issuer \in Name /\ caller = Bare[d.issuer]),
         Dispatch(c, d, caller)
  PROVE  /\ LimitsOK' /\ BudgetsFollowIdentity'
         /\ \E o : Verdict(c, o, caller) /\ (o = "executed" => caller # Nobody)
<1>1. CASE d.kind = "push/register"
  <2>1. register' \in 0..Burst(PerRegister) /\ UNCHANGED <<bucket, owed>>
    BY <1>1, Settings DEF Dispatch, AllowRegister, LimitsOK, Refused
  <2>2. LimitsOK' /\ BudgetsFollowIdentity'
    BY <2>1 DEF LimitsOK, BudgetsFollowIdentity, Cells
  <2>3. Answered(c, "registered", caller) \/ Answered(c, "limited", caller)
    BY <1>1 DEF Dispatch
  <2>4. QED
    BY <2>2, <2>3 DEF Verdict, Outcomes
<1>2. CASE d.kind # "push/register" /\ caller = Nobody
  <2>1. Answered(c, "anonymous", Nobody) /\ UNCHANGED <<bucket, register, owed>>
    BY <1>2 DEF Dispatch, Refused
  <2>2. LimitsOK' /\ BudgetsFollowIdentity'
    BY <2>1 DEF LimitsOK, BudgetsFollowIdentity, Cells
  <2>3. QED
    BY <1>2, <2>1, <2>2 DEF Verdict, Outcomes
<1>3. CASE d.kind # "push/register" /\ caller # Nobody
  <2>1. caller \in DidOf /\ caller = Bare[d.issuer]
    BY <1>3 DEF DidOf
  <2>2. register' = register
    BY <1>3 DEF Dispatch
  <2>3. CASE Cells(caller) > 0
    <3>1. AllowDid(caller) /\ Answered(c, "executed", caller)
          /\ owed' = [owed EXCEPT ![caller] = @ - 1]
      BY <1>3, <2>1, <2>3 DEF Dispatch
    <3>2. Cells(caller) = owed[caller] /\ owed[caller] \in 1..Burst(PerDid)
      BY <2>1, <2>3, Settings DEF BudgetsFollowIdentity, LimitsOK
    <3>3. /\ bucket' = [i \in DOMAIN bucket \cup {caller} |->
                         IF i = caller THEN Cells(i) - 1 ELSE bucket[i]]
          /\ DOMAIN bucket' = DOMAIN bucket \cup {caller}
      BY <3>1 DEF AllowDid
    <3>4. owed' \in [DidOf -> 0..Burst(PerDid)]
          /\ \A i \in DidOf : owed'[i] = IF i = caller THEN owed[caller] - 1 ELSE owed[i]
      BY <2>1, <3>1, <3>2, Settings DEF LimitsOK
    <3>5. /\ bucket'[caller] = owed[caller] - 1
          /\ \A i \in DOMAIN bucket : i # caller => bucket'[i] = bucket[i]
      BY <3>2, <3>3
    <3>6. ASSUME NEW i \in DOMAIN bucket' PROVE bucket'[i] \in 0..Burst(PerDid)
      <4>1. CASE i = caller
        BY <3>2, <3>5, <4>1, Settings
      <4>2. CASE i # caller
        <5>1. i \in DOMAIN bucket
          BY <3>3, <4>2
        <5>2. bucket[i] \in 0..Burst(PerDid)
          BY <5>1 DEF LimitsOK
        <5>3. QED
          BY <3>5, <4>2, <5>1, <5>2
      <4>3. QED
        BY <4>1, <4>2
    <3>7. LimitsOK'
      <4>1. bucket' \in [DOMAIN bucket' -> 0..Burst(PerDid)]
        BY <3>3, <3>6
      <4>2. QED
        BY <2>1, <2>2, <3>3, <3>4, <4>1 DEF LimitsOK
    <3>8. ASSUME NEW i \in DidOf PROVE Cells(i)' = owed'[i]
      <4>1. Cells(i) = owed[i]
        BY DEF BudgetsFollowIdentity
      <4>2. Cells(i)' = IF i \in DOMAIN bucket' THEN bucket'[i] ELSE Burst(PerDid)
        BY DEF Cells
      <4>3. Cells(i) = IF i \in DOMAIN bucket THEN bucket[i] ELSE Burst(PerDid)
        BY DEF Cells
      <4>4. QED
        BY <3>3, <3>4, <3>5, <4>1, <4>2, <4>3
    <3>9. BudgetsFollowIdentity'
      BY <3>8 DEF BudgetsFollowIdentity
    <3>10. QED
      BY <1>3, <3>1, <3>7, <3>9 DEF Verdict, Outcomes
  <2>4. CASE ~(Cells(caller) > 0)
    <3>1. Answered(c, "limited", caller) /\ UNCHANGED <<bucket, owed>>
      BY <1>3, <2>4 DEF Dispatch
    <3>2. LimitsOK' /\ BudgetsFollowIdentity'
      BY <2>2, <3>1 DEF LimitsOK, BudgetsFollowIdentity, Cells
    <3>3. QED
      BY <3>1, <3>2 DEF Verdict, Outcomes
  <2>5. QED
    BY <2>3, <2>4
<1>4. QED
  BY <1>1, <1>2, <1>3

LEMMA RefusedVerdict ==
  ASSUME LimitsOK, BudgetsFollowIdentity, NEW c,
         NEW o \in Outcomes \ {"none", "executed"}, Refused(c, o)
  PROVE  /\ LimitsOK' /\ BudgetsFollowIdentity'
         /\ Verdict(c, o, Nobody)
<1>1. Answered(c, o, Nobody) /\ UNCHANGED <<bucket, register, owed>>
  BY DEF Refused
<1>2. QED
  BY <1>1 DEF LimitsOK, BudgetsFollowIdentity, Cells, Verdict
(* What must hold of a call when it is executed with this DID document.       *)
Sound(c, didDoc) ==
  LET d == call[c].doc IN
  /\ d.intact /\ d.recipient = Gateway
  /\ TheProof(d).signer \in KeyIn(didDoc, TheProof(d).did, TheProof(d).fragment)
  /\ call[c].claim # Nobody => SameReference(call[c].claim, Bare[d.issuer])

LEMMA Bindings ==
  ASSUME NEW d \in Doc, Admissible(d)
  PROVE  d.issuer \in Name /\ TheProof(d).did = d.issuer /\ TheProof(d) \in d.proof
<1>1. d.issuer \in Name \cup {Nobody}
  BY IntakeAssumption
<1>2. QED
  BY <1>1, OnlyProof DEF Admissible, Bound

LEMMA ConcludeVerdict ==
  ASSUME LimitsOK, BudgetsFollowIdentity, NEW c, NEW didDoc, call[c].doc \in Doc,
         Admissible(call[c].doc), Conclude(c, didDoc)
  PROVE  /\ LimitsOK' /\ BudgetsFollowIdentity'
         /\ \E o : \E who \in {Nobody, Bare[call[c].doc.issuer]} :
              /\ Verdict(c, o, who)
              /\ o = "executed" => who = Bare[call[c].doc.issuer] /\ Sound(c, didDoc)
<1> DEFINE d == call[c].doc
           proof == TheProof(d)
           forged == \/ didDoc.size > Large
                     \/ ~d.intact \/ proof.signer \notin KeyIn(didDoc, proof.did, proof.fragment)
           contradicted == call[c].claim # Nobody
                           /\ ~SameReference(call[c].claim, Identity(d.issuer))
<1>1. IF forged THEN Refused(c, "proofInvalid")
      ELSE IF ~hasDid THEN Refused(c, "noDid")
      ELSE IF d.recipient = "none" THEN Refused(c, "noRecipient")
      ELSE IF contradicted THEN Refused(c, "mismatch")
      ELSE IF ~Fresh(d, now) THEN Refused(c, "stale")
      ELSE Dispatch(c, d, Identity(d.issuer))
  BY DEF Conclude, TheProof
<1>2. CASE \E o \in {"proofInvalid", "noDid", "noRecipient", "mismatch", "stale"} : Refused(c, o)
  <2>1. PICK o \in {"proofInvalid", "noDid", "noRecipient", "mismatch", "stale"} : Refused(c, o)
    BY <1>2
  <2>2. o \in Outcomes \ {"none", "executed"}
    BY DEF Outcomes
  <2>3. QED
    BY <2>1, <2>2, RefusedVerdict
<1>3. CASE ~forged /\ hasDid /\ d.recipient # "none" /\ ~contradicted
           /\ Dispatch(c, d, Bare[d.issuer])
  <2>1. d.issuer \in Name
    BY Bindings
  <2>2. d.recipient = Gateway
    BY <1>3 DEF Admissible, WrongRecipient
  <2>3. Sound(c, didDoc)
    BY <1>3, <2>2 DEF Sound, Identity
  <2>4. /\ LimitsOK' /\ BudgetsFollowIdentity'
        /\ \E o : Verdict(c, o, Bare[d.issuer])
    BY <1>3, <2>1, DispatchVerdict
  <2>5. QED
    BY <2>3, <2>4
<1>4. QED
  BY <1>1, <1>2, <1>3 DEF Identity

(* A key that a DID document releases is its subject's, and good now.         *)
LEMMA ReleasedKeys ==
  ASSUME NEW n \in Name, NEW i \in DOMAIN History[n], NEW fragment,
         NEW key \in KeyIn(History[n][i], n, fragment)
  PROVE  Holder[key] = Bare[n] /\ Authorises(History[n][i], key, Bare[n], now)
<1> DEFINE didDoc == History[n][i]
<1>1. PICK f \in DOMAIN didDoc.methods :
        /\ key = didDoc.methods[f].key /\ SameReference(didDoc.id, n)
        /\ SameReference(didDoc.methods[f].controller, n)
        /\ didDoc.methods[f].listed /\ ~didDoc.methods[f].revoked
        /\ \A e \in didDoc.methods[f].expires : e > now
  BY DEF KeyIn
<1>2. Holder[key] = Bare[n]
  BY <1>1, HolderAssumption
<1>3. Bare[didDoc.methods[f].controller] = Bare[n]
  BY <1>1 DEF SameReference
<1>4. QED
  BY <1>1, <1>2, <1>3 DEF Authorises

(* A call that is answered keeps to the invariant.                            *)
LEMMA VerdictOK ==
  ASSUME CallsOK, now \in Nat, UNCHANGED <<now, hasDid, version, until>>,
         \A d \in Call : CallOK(d), NEW c \in Call, call[c].pc # "idle",
         NEW o, NEW who \in Name \cup {Nobody}, Verdict(c, o, who),
         o = "executed" => Proven(c)' /\ Recent(c)'
  PROVE  CallsOK' /\ \A d \in Call : CallOK(d)'
<1>1. /\ CallsOK'
      /\ \A d \in Call : d # c => call'[d] = call[d]
      /\ call'[c].pc = "done" /\ call'[c].at = now /\ call'[c].outcome = o
      /\ call'[c].caller = who /\ call'[c].doc = call[c].doc
      /\ call'[c].claim = call[c].claim
  BY AnsweredMoves DEF Verdict
<1>2. Settled(c)
  BY DEF CallOK
<1>3. Settled(c)' /\ Pending(c)' /\ AnswerRecent(c)'
  BY <1>1, <1>2 DEF Verdict, Settled, Pending, AnswerRecent
<1>4. Proven(c)' /\ Recent(c)'
  BY <1>1 DEF Proven, Recent
<1>5. CallOK(c)'
  BY <1>3, <1>4 DEF CallOK
<1>6. ASSUME NEW d \in Call PROVE CallOK(d)'
  <2>1. CASE d # c
    BY <1>1, <2>1, OthersKeep
  <2>2. QED
    BY <1>5, <2>1
<1>7. QED
  BY <1>1, <1>6
LEMMA ConcludedOK ==
  ASSUME IInv, UNCHANGED <<now, hasDid, version, until>>, NEW c \in Call,
         call[c].pc # "idle", Admissible(call[c].doc),
         NEW i \in 1..version[call[c].doc.issuer],
         During(until[call[c].doc.issuer], i, now - (CacheTtl + NetTimeout), now),
         Conclude(c, History[call[c].doc.issuer][i])
  PROVE  CallsOK' /\ LimitsOK' /\ BudgetsFollowIdentity' /\ \A d \in Call : CallOK(d)'
<1> DEFINE d == call[c].doc
           n == d.issuer
           p == TheProof(d)
<1>1. CallsOK /\ LimitsOK /\ BudgetsFollowIdentity /\ PublishedOK /\ now \in Nat
  BY IntakeAssumption DEF IInv, Typed
<1>2. d \in Doc /\ call[c] \in CallState
  BY <1>1 DEF IInv, CallOK, Settled, CallsOK
<1>3. n \in Name /\ p.did = n /\ p \in d.proof /\ \A q \in d.proof : q = p
  BY <1>2, Bindings, OnlyProof
<1>4. i \in DOMAIN History[n]
  BY <1>1, <1>3, IntakeAssumption DEF PublishedOK
<1>5. PICK o : \E who \in {Nobody, Bare[n]} :
        /\ Verdict(c, o, who)
        /\ o = "executed" => who = Bare[n] /\ Sound(c, History[n][i])
  BY <1>1, <1>2, ConcludeVerdict
<1>6. PICK who \in {Nobody, Bare[n]} :
        /\ Verdict(c, o, who)
        /\ o = "executed" => who = Bare[n] /\ Sound(c, History[n][i])
  BY <1>5
<1>7. LimitsOK' /\ BudgetsFollowIdentity'
  BY <1>1, <1>2, ConcludeVerdict
<1>8. Bare[n] \in Name /\ Bare[Bare[n]] = Bare[n]
  BY <1>3, IntakeAssumption
<1>9. /\ call'[c].at = now /\ call'[c].outcome = o /\ call'[c].caller = who
      /\ call'[c].doc = d /\ call'[c].claim = call[c].claim
  BY <1>1, <1>6, <1>8, AnsweredMoves DEF Verdict
<1>10. ASSUME o = "executed" PROVE Proven(c)' /\ Recent(c)'
  <2>1. who = Bare[n] /\ Sound(c, History[n][i])
    BY <1>6, <1>10
  <2>2. Holder[p.signer] = Bare[n] /\ Authorises(History[n][i], p.signer, Bare[n], now)
    <3>1. p.signer \in KeyIn(History[n][i], n, p.fragment)
      BY <1>3, <2>1 DEF Sound
    <3>2. QED
      BY <1>3, <1>4, <3>1, ReleasedKeys
  <2>3. call[c].claim # Nobody => Bare[call[c].claim] = Bare[n]
    BY <1>8, <2>1 DEF Sound, SameReference
  <2>4. Proven(c)'
    BY <1>3, <1>9, <2>1, <2>2, <2>3 DEF Proven, Sound
  <2>5. Recent(c)'
    BY <1>3, <1>9, <2>2 DEF Recent
  <2>6. QED
    BY <2>4, <2>5
<1>11. CallsOK' /\ \A e \in Call : CallOK(e)'
  BY <1>1, <1>6, <1>8, <1>10, VerdictOK DEF IInv
<1>12. QED
  BY <1>7, <1>11
-----------------------------------------------------------------------------
(* The steps, one by one.                                                     *)
LEMMA EnterOK ==
  ASSUME IInv, NEW c \in Call, NEW d \in Doc, NEW claim \in Name \cup {Nobody},
         Enter(c, "arrived", claim, d)
  PROVE  IInv'
<1> DEFINE s == [IdleCall EXCEPT !.pc = "arrived", !.doc = d, !.claim = claim]
<1>1. /\ s \in CallState /\ s.pc = "arrived" /\ s.doc = d /\ s.at = 0
      /\ s.outcome = "none" /\ s.caller = Nobody
  BY DEF IdleCall, CallState, Outcomes
<1>2. call' = [call EXCEPT ![c] = s] /\ UNCHANGED <<now, bucket, register, owed, still>>
  BY DEF Enter
<1> HIDE DEF s
<1>3. now \in Nat /\ CallsOK
  BY IntakeAssumption DEF IInv, Typed
<1>4. CallsOK' /\ call'[c] = s /\ \A e \in Call : e # c => call'[e] = call[e]
  <2>1. now' \in Nat /\ now <= now' /\ s.at <= now'
    BY <1>1, <1>2, <1>3
  <2>2. QED
    BY <1>1, <1>2, <1>3, <2>1, CallsStay
<1>5. CallOK(c)'
  BY <1>1, <1>4 DEF CallOK, Settled, Pending, AnswerRecent, Proven, Recent
<1>6. ASSUME NEW e \in Call PROVE CallOK(e)'
  BY <1>2, <1>4, <1>5, OthersKeep DEF IInv, still
<1>7. QED
  BY <1>2, <1>4, <1>6
     DEF IInv, Typed, LimitsOK, PublishedOK, CacheOK, CacheRecent, BudgetsFollowIdentity,
         Cells, still

(* Steps that answer a call without asking the limiter.                       *)
LEMMA RefusedOK ==
  ASSUME IInv, UNCHANGED <<now, still>>, NEW c \in Call, call[c].pc # "idle",
         NEW o \in Outcomes \ {"none", "executed"}, Refused(c, o)
  PROVE  IInv'
<1>1. CallsOK /\ LimitsOK /\ BudgetsFollowIdentity /\ now \in Nat
  BY IntakeAssumption DEF IInv, Typed
<1>2. LimitsOK' /\ BudgetsFollowIdentity' /\ Verdict(c, o, Nobody)
  BY <1>1, RefusedVerdict
<1>3. CallsOK' /\ \A d \in Call : CallOK(d)'
  BY <1>1, <1>2, VerdictOK DEF IInv, still
<1>4. QED
  BY <1>2, <1>3 DEF IInv, Typed, PublishedOK, CacheOK, CacheRecent, still

LEMMA UnwrappedOK ==
  ASSUME IInv, NEW c \in Call, Unwrapped(c) PROVE IInv'
<1> DEFINE s == [call[c] EXCEPT !.pc = "done", !.at = now, !.outcome = "malformed"]
<1>1. /\ call[c].pc = "arrived" /\ call' = [call EXCEPT ![c] = s]
      /\ UNCHANGED <<now, bucket, register, owed, still>>
  BY DEF Unwrapped, IInv, Typed, CallsOK
<1>2. now \in Nat /\ CallsOK /\ call[c] \in CallState /\ CallOK(c)
  BY IntakeAssumption DEF IInv, Typed, CallsOK
<1>3. call[c].caller = Nobody /\ call[c].doc \in Doc
  BY <1>1, <1>2 DEF CallOK, Settled
<1>4. /\ s \in CallState /\ s.pc = "done" /\ s.doc \in Doc /\ s.at = now
      /\ s.outcome = "malformed" /\ s.caller = Nobody
  BY <1>2, <1>3 DEF CallState, Outcomes
<1> HIDE DEF s
<1>5. CallsOK' /\ call'[c] = s /\ \A e \in Call : e # c => call'[e] = call[e]
  <2>1. now' \in Nat /\ now <= now' /\ s.at <= now'
    BY <1>1, <1>2, <1>4
  <2>2. QED
    BY <1>1, <1>2, <1>4, <2>1, CallsStay
<1>6. CallOK(c)'
  BY <1>4, <1>5 DEF CallOK, Settled, Pending, AnswerRecent, Proven, Recent
<1>7. ASSUME NEW e \in Call PROVE CallOK(e)'
  BY <1>1, <1>5, <1>6, OthersKeep DEF IInv, still
<1>8. QED
  BY <1>1, <1>5, <1>7
     DEF IInv, Typed, LimitsOK, PublishedOK, CacheOK, CacheRecent, BudgetsFollowIdentity,
         Cells, still
(* A call that asks for a DID document, gets one, or is over: everything but  *)
(* the call itself stays.                                                     *)
LEMMA CallMovesOK ==
  ASSUME IInv, UNCHANGED <<now, bucket, register, owed, still>>, NEW c \in Call,
         NEW s \in CallState, s.at <= now, s.outcome = "none", s.caller = Nobody,
         s.pc # "done", s.pc # "idle" => s.doc \in Doc,
         call' = [call EXCEPT ![c] = s], Pending(c)' /\ AnswerRecent(c)'
  PROVE  IInv'
<1>1. now' \in Nat /\ now \in Nat /\ CallsOK /\ now' = now
  BY IntakeAssumption DEF IInv, Typed
<1>2. CallsOK' /\ call'[c] = s /\ \A e \in Call : e # c => call'[e] = call[e]
  <2>1. now <= now' /\ s.at <= now'
    BY <1>1
  <2>2. QED
    BY <1>1, <2>1, CallsStay
<1>3. CallOK(c)'
  BY <1>2 DEF CallOK, Settled, Proven, Recent
<1>4. ASSUME NEW e \in Call PROVE CallOK(e)'
  BY <1>2, <1>3, OthersKeep DEF IInv, still
<1>5. QED
  BY <1>2, <1>4
     DEF IInv, Typed, LimitsOK, PublishedOK, CacheOK, CacheRecent, BudgetsFollowIdentity,
         Cells, still

LEMMA AuthenticateOK ==
  ASSUME IInv, NEW c \in Call, Authenticate(c) PROVE IInv'
<1> DEFINE d == call[c].doc
           n == d.issuer
<1>1. call[c].pc = "arrived" /\ UNCHANGED <<now, received, still>>
  BY DEF Authenticate
<1>2. /\ CallsOK /\ LimitsOK /\ BudgetsFollowIdentity /\ PublishedOK /\ CacheOK /\ CacheRecent
      /\ now \in Nat /\ call[c] \in CallState /\ Settled(c) /\ d \in Doc
  BY <1>1, IntakeAssumption DEF IInv, Typed, CallOK, CallsOK, Settled
<1>3. CASE Refused(c, "wrongRecipient") \/ Refused(c, "proofInvalid")
  <2>1. PICK o \in {"wrongRecipient", "proofInvalid"} : Refused(c, o)
    BY <1>3
  <2>2. o \in Outcomes \ {"none", "executed"}
    BY DEF Outcomes
  <2>3. QED
    BY <1>1, <2>1, <2>2, RefusedOK
<1>4. CASE Dispatch(c, d, Nobody)
  <2>1. PICK o : Verdict(c, o, Nobody) /\ o # "executed"
    BY <1>2, <1>4, DispatchVerdict
  <2>2. LimitsOK' /\ BudgetsFollowIdentity'
    BY <1>2, <1>4, DispatchVerdict
  <2>3. CallsOK' /\ \A e \in Call : CallOK(e)'
    BY <1>1, <1>2, <2>1, VerdictOK DEF IInv, still
  <2>4. QED
    BY <1>1, <2>2, <2>3 DEF IInv, Typed, PublishedOK, CacheOK, CacheRecent, still
<1>5. CASE /\ Admissible(d)
           /\ IF n \in DOMAIN cache
              THEN Conclude(c, History[n][cache[n].version])
              ELSE /\ call' = [call EXCEPT ![c].pc = "resolving", ![c].at = now]
                   /\ UNCHANGED <<bucket, register, owed>>
  <2>1. n \in Name
    BY <1>2, <1>5, Bindings
  <2>2. CASE n \in DOMAIN cache
    <3> DEFINE i == cache[n].version
    <3>1. /\ i \in 1..version[n] /\ cache[n].at \in Nat
          /\ cache[n].at <= now /\ now <= cache[n].at + CacheTtl
          /\ During(until[n], i, cache[n].at - NetTimeout, now)
      BY <1>2, <2>2 DEF CacheRecent, CacheOK
    <3>2. until[n] \in Seq(Nat) /\ CacheTtl \in Nat /\ NetTimeout \in Nat /\ version[n] \in Nat
      BY <1>2, <2>1, IntakeAssumption DEF PublishedOK
    <3>3. During(until[n], i, now - (CacheTtl + NetTimeout), now)
      <4> DEFINE from == cache[n].at - NetTimeout
                 from2 == now - (CacheTtl + NetTimeout)
      <4>1. from \in Int /\ from2 \in Int /\ from2 <= from /\ now \in Int /\ now <= now
        BY <1>2, <3>1, <3>2
      <4>2. i \in Nat \ {0} /\ During(until[n], i, from, now)
        BY <3>1, <3>2
      <4> HIDE DEF from, from2, i
      <4>3. During(until[n], i, from2, now)
        BY <3>2, <4>1, <4>2, DuringWidens
      <4>4. QED
        BY <4>3 DEF from2
    <3>4. CallsOK' /\ LimitsOK' /\ BudgetsFollowIdentity' /\ \A e \in Call : CallOK(e)'
      BY <1>1, <1>5, <2>2, <3>1, <3>3, ConcludedOK DEF still
    <3>5. QED
      BY <1>1, <3>4 DEF IInv, Typed, PublishedOK, CacheOK, CacheRecent, still
  <2>3. CASE n \notin DOMAIN cache
    <3> DEFINE s == [call[c] EXCEPT !.pc = "resolving", !.at = now]
    <3>1. call' = [call EXCEPT ![c] = s] /\ UNCHANGED <<bucket, register, owed>>
      BY <1>2, <1>5, <2>3 DEF CallsOK
    <3>2. call[c].outcome = "none" /\ call[c].caller = Nobody
      BY <1>1, <1>2 DEF Settled
    <3>3. /\ s \in CallState /\ s.at = now /\ s.outcome = "none" /\ s.caller = Nobody
          /\ s.pc = "resolving" /\ s.doc = d
      BY <1>2, <3>2 DEF CallState
    <3> HIDE DEF s
    <3>4. call'[c] = s
      BY <1>2, <3>1 DEF CallsOK
    <3>5. now' <= now + NetTimeout
      BY <1>1, <1>2, IntakeAssumption
    <3>6. Pending(c)' /\ AnswerRecent(c)'
      BY <1>1, <1>5, <3>3, <3>4, <3>5 DEF Pending, AnswerRecent, Admissible, WrongRecipient, still
    <3>7. s.at <= now
      BY <1>2, <3>3
    <3>8. QED
      BY <1>1, <1>2, <3>1, <3>3, <3>6, <3>7, CallMovesOK
  <2>4. QED
    BY <2>2, <2>3
<1>6. ~WrongRecipient(d) /\ d.proof # {} /\ Bound(d, TheProof(d)) => Admissible(d)
  BY DEF Admissible
<1>7. Admissible(d) => TheProof(d).did = n
  BY <1>2, Bindings
<1>8. QED
  BY <1>3, <1>4, <1>5, <1>6, <1>7 DEF Authenticate, TheProof

LEMMA HostAnswersOK ==
  ASSUME IInv, NEW c \in Call, HostAnswers(c) PROVE IInv'
<1> DEFINE d == call[c].doc
           n == d.issuer
           s == [call[c] EXCEPT !.pc = "fetched", !.answer = version[n]]
<1>1. /\ now \in Nat /\ CallsOK /\ PublishedOK /\ call[c] \in CallState
      /\ Settled(c) /\ Pending(c) /\ call[c].at \in Nat /\ call[c].at <= now
  BY IntakeAssumption DEF IInv, Typed, CallOK, CallsOK, CallState
<1>2. call[c].pc = "resolving" /\ UNCHANGED <<now, bucket, register, owed, received, still>>
  BY DEF HostAnswers
<1>3. d \in Doc /\ Admissible(d)
  BY <1>1, <1>2 DEF Settled, Pending
<1>4. n \in Name /\ Resolving(c) = n
  BY <1>3, Bindings DEF Resolving, TheProof
<1>5. call' = [call EXCEPT ![c] = s]
  BY <1>1, <1>4 DEF HostAnswers, CallsOK
<1>6. call[c].outcome = "none" /\ call[c].caller = Nobody
  BY <1>1, <1>2 DEF Settled
<1>7. version[n] \in Nat
  BY <1>1, <1>4 DEF PublishedOK
<1>8. /\ s \in CallState /\ s.at = call[c].at /\ s.outcome = "none" /\ s.caller = Nobody
      /\ s.pc = "fetched" /\ s.doc = d /\ s.answer = version[n]
  BY <1>1, <1>6, <1>7 DEF CallState
<1> HIDE DEF s
<1>9. call'[c] = s
  BY <1>1, <1>5 DEF CallsOK
<1>10. Pending(c)'
  BY <1>1, <1>2, <1>3, <1>8, <1>9 DEF Pending, Admissible, WrongRecipient, still
<1>11. AnswerRecent(c)'
  <2>1. /\ until[n] \in Seq(Nat) /\ version[n] = Len(until[n]) + 1 /\ version[n] \in 1..version[n]
        /\ \A j \in 1..Len(until[n]) : until[n][j] <= now
    <3>1. version[n] \in 1..Len(History[n]) /\ Len(until[n]) = version[n] - 1
          /\ until[n] \in Seq(Nat) /\ \A j \in 1..Len(until[n]) : until[n][j] <= now
      BY <1>1, <1>4 DEF PublishedOK
    <3>2. version[n] \in Nat /\ version[n] >= 1
      BY <1>4, <1>7, <3>1, IntakeAssumption
    <3>3. QED
      BY <3>1, <3>2
  <2>2. During(until[n], version[n], s.at, now)
    BY <1>1, <2>1, DuringNow
  <2>3. QED
    BY <1>2, <1>8, <1>9, <2>1, <2>2 DEF AnswerRecent, still
<1>12. QED
  BY <1>1, <1>2, <1>3, <1>5, <1>8, <1>10, <1>11, CallMovesOK
LEMMA ResolvedOK ==
  ASSUME IInv, NEW c \in Call, Resolved(c) PROVE IInv'
<1> DEFINE d == call[c].doc
           n == d.issuer
           i == call[c].answer
           entry == [version |-> i, at |-> now]
<1>1. call[c].pc = "fetched" /\ UNCHANGED <<now, received, hasDid, version, until, restarts>>
  BY DEF Resolved
<1>2. /\ now \in Nat /\ CallsOK /\ PublishedOK /\ CacheOK /\ CacheRecent
      /\ Settled(c) /\ Pending(c) /\ AnswerRecent(c)
      /\ call[c].at \in Nat /\ call[c].at <= now /\ i \in Nat
  BY IntakeAssumption DEF IInv, Typed, CallOK, CallsOK, CallState
<1>3. d \in Doc /\ Admissible(d) /\ now <= call[c].at + NetTimeout
  BY <1>1, <1>2 DEF Settled, Pending
<1>4. n \in Name /\ Resolving(c) = n
  BY <1>3, Bindings DEF Resolving, TheProof
<1>5. /\ i \in 1..version[n] /\ During(until[n], i, call[c].at, now)
      /\ until[n] \in Seq(Nat) /\ i \in Nat \ {0}
      /\ CacheTtl \in Nat /\ NetTimeout \in Nat
  BY <1>1, <1>2, <1>4, IntakeAssumption DEF AnswerRecent, PublishedOK
<1>6. During(until[n], i, now - NetTimeout, now)
      /\ During(until[n], i, now - (CacheTtl + NetTimeout), now)
  <2> DEFINE from == call[c].at
             near == now - NetTimeout
             far == now - (CacheTtl + NetTimeout)
  <2>1. from \in Int /\ near \in Int /\ far \in Int /\ near <= from /\ far <= from
        /\ now \in Int /\ now <= now
    BY <1>2, <1>3, <1>5
  <2>2. i \in Nat \ {0} /\ During(until[n], i, from, now)
    BY <1>5
  <2> HIDE DEF from, near, far, i
  <2>3. During(until[n], i, near, now) /\ During(until[n], i, far, now)
    BY <1>5, <2>1, <2>2, DuringWidens
  <2>4. QED
    BY <2>3 DEF near, far
<1>7. Conclude(c, History[n][i])
  BY <1>4 DEF Resolved
<1>8. CallsOK' /\ LimitsOK' /\ BudgetsFollowIdentity' /\ \A e \in Call : CallOK(e)'
  BY <1>1, <1>3, <1>5, <1>6, <1>7, ConcludedOK
<1>9. cache' = [m \in DOMAIN cache \cup {n} |-> IF m = n THEN entry ELSE cache[m]]
  BY <1>4 DEF Resolved
<1>10. entry \in [version : Nat, at : Nat] /\ entry.version = i /\ entry.at = now
  BY <1>2
<1> HIDE DEF entry
<1>11. CacheOK'
  <2>1. \A m \in DOMAIN cache \cup {n} :
          (IF m = n THEN entry ELSE cache[m]) \in [version : Nat, at : Nat]
    BY <1>2, <1>10 DEF CacheOK
  <2>2. cache' \in [DOMAIN cache \cup {n} -> [version : Nat, at : Nat]]
    BY <1>9, <2>1
  <2>3. QED
    BY <1>2, <1>4, <2>2 DEF CacheOK
<1>12. CacheRecent'
  <2> SUFFICES ASSUME NEW m \in DOMAIN cache'
               PROVE  /\ cache'[m].version \in 1..version[m]
                      /\ cache'[m].at <= now /\ now <= cache'[m].at + CacheTtl
                      /\ During(until[m], cache'[m].version, cache'[m].at - NetTimeout, now)
    BY <1>1 DEF CacheRecent
  <2>1. CASE m = n
    <3>1. cache'[m] = entry
      BY <1>9, <2>1
    <3>2. now <= now + CacheTtl
      BY <1>2, <1>5
    <3>3. QED
      BY <1>2, <1>5, <1>6, <1>10, <2>1, <3>1, <3>2
  <2>2. CASE m # n
    <3>1. m \in DOMAIN cache /\ cache'[m] = cache[m]
      BY <1>9, <2>2
    <3>2. QED
      BY <1>2, <3>1 DEF CacheRecent
  <2>3. QED
    BY <2>1, <2>2
<1>13. QED
  BY <1>1, <1>8, <1>11, <1>12 DEF IInv, Typed, PublishedOK

LEMMA ResolutionFailsOK ==
  ASSUME IInv, NEW c \in Call, ResolutionFails(c) PROVE IInv'
<1>1. call[c].pc # "idle" /\ Refused(c, "proofInvalid") /\ UNCHANGED <<now, still>>
  BY DEF ResolutionFails
<1>2. "proofInvalid" \in Outcomes \ {"none", "executed"}
  BY DEF Outcomes
<1>3. QED
  BY <1>1, <1>2, RefusedOK

LEMMA FinishOK ==
  ASSUME IInv, NEW c \in Call, Finish(c) PROVE IInv'
<1>1. call' = [call EXCEPT ![c] = IdleCall] /\ UNCHANGED <<now, bucket, register, owed, still>>
  BY DEF Finish
<1>2. /\ IdleCall \in CallState /\ IdleCall.at = 0 /\ IdleCall.outcome = "none"
      /\ IdleCall.caller = Nobody /\ IdleCall.pc = "idle"
  BY DEF IdleCall, CallState, Outcomes
<1>3. IdleCall.at <= now
  BY <1>2, IntakeAssumption DEF IInv, Typed
<1>4. call'[c] = IdleCall
  BY <1>1 DEF IInv, Typed, CallsOK
<1>5. Pending(c)' /\ AnswerRecent(c)'
  BY <1>2, <1>4 DEF Pending, AnswerRecent
<1>6. QED
  BY <1>1, <1>2, <1>3, <1>5, CallMovesOK

(* A rotation is later than anything the invariant relates to the past.       *)
LEMMA PublishOK ==
  ASSUME IInv, NEW n \in Name, Publish(n) PROVE IInv'
<1>1. /\ version[n] < Len(History[n])
      /\ version' = [version EXCEPT ![n] = @ + 1]
      /\ until' = [until EXCEPT ![n] = Append(until[n], now)]
      /\ UNCHANGED <<now, bucket, register, owed, hasDid, call, cache, received, restarts>>
  BY DEF Publish
<1>2. PublishedOK /\ CallsOK /\ CacheOK /\ CacheRecent /\ now \in Nat
  BY IntakeAssumption DEF IInv, Typed
<1>3. \A m \in Name : /\ version[m] \in Nat /\ until[m] \in Seq(Nat)
                      /\ version[m] \in 1..Len(History[m]) /\ Len(History[m]) \in Nat
                      /\ Len(until[m]) = version[m] - 1
                      /\ \A j \in 1..Len(until[m]) : until[m][j] <= now
  BY <1>2, IntakeAssumption DEF PublishedOK
<1>4. ASSUME NEW m \in Name
      PROVE  /\ m = n => version'[m] = version[m] + 1 /\ until'[m] = Append(until[m], now)
             /\ m # n => version'[m] = version[m] /\ until'[m] = until[m]
  BY <1>1, <1>2 DEF PublishedOK
<1>5. PublishedOK'
  <2>1. version' \in [Name -> Nat] /\ until' \in [Name -> Seq(Nat)]
    BY <1>1, <1>2, <1>3 DEF PublishedOK
  <2>2. ASSUME NEW m \in Name
        PROVE  /\ version'[m] \in 1..Len(History[m]) /\ Len(until'[m]) = version'[m] - 1
               /\ \A j \in 1..Len(until'[m]) : until'[m][j] <= now
    <3>1. CASE m = n
      <4>1. version'[m] \in 1..Len(History[m])
        BY <1>1, <1>3, <1>4, <3>1
      <4>2. Len(until'[m]) = Len(until[m]) + 1
        BY <1>2, <1>3, <1>4, <3>1
      <4>3. Len(until'[m]) = version'[m] - 1
        BY <1>3, <1>4, <3>1, <4>2
      <4>4. ASSUME NEW j \in 1..Len(until'[m]) PROVE until'[m][j] <= now
        <5>1. until[m] \in Seq(Nat) /\ until'[m] = Append(until[m], now)
              /\ \A k \in 1..Len(until[m]) : until[m][k] <= now
          BY <1>3, <1>4, <3>1
        <5>2. CASE j \in 1..Len(until[m])
          BY <5>1, <5>2
        <5>3. CASE j = Len(until[m]) + 1
          BY <1>2, <5>1, <5>3
        <5>4. QED
          BY <4>2, <5>1, <5>2, <5>3
      <4>5. QED
        BY <4>1, <4>3, <4>4
    <3>2. CASE m # n
      BY <1>3, <1>4, <3>2
    <3>3. QED
      BY <3>1, <3>2
  <2>3. QED
    BY <1>1, <2>1, <2>2 DEF PublishedOK
<1>6. ASSUME NEW m \in Name, NEW i \in 1..version[m], NEW from \in Int, from <= now, NEW to,
             During(until[m], i, from, to)
      PROVE  i \in 1..version'[m] /\ During(until'[m], i, from, to)
  <2>1. i \in Nat \ {0} /\ until[m] \in Seq(Nat) /\ version[m] \in Nat
    BY <1>3
  <2>2. i \in 1..version'[m]
    BY <1>3, <1>4, <2>1
  <2>3. QED
    BY <1>2, <1>4, <1>6, <2>1, <2>2, DuringOutlives
<1>7. CacheRecent'
  <2> SUFFICES ASSUME NEW m \in DOMAIN cache
               PROVE  cache[m].version \in 1..version'[m]
                      /\ During(until'[m], cache[m].version, cache[m].at - NetTimeout, now)
    BY <1>1, <1>2 DEF CacheRecent
  <2>1. /\ m \in Name /\ cache[m].version \in 1..version[m] /\ cache[m].at \in Nat
        /\ cache[m].at <= now
        /\ During(until[m], cache[m].version, cache[m].at - NetTimeout, now)
    BY <1>2 DEF CacheRecent, CacheOK
  <2>2. cache[m].at - NetTimeout \in Int /\ cache[m].at - NetTimeout <= now
    BY <1>2, <2>1, IntakeAssumption
  <2>3. QED
    BY <1>6, <2>1, <2>2
<1>8. ASSUME NEW c \in Call PROVE CallOK(c)'
  <2>1. CallOK(c) /\ call[c] \in CallState /\ call[c].at \in Nat /\ call[c].at <= now
    BY <1>2 DEF IInv, CallsOK, CallState
  <2>2. Settled(c)' /\ Proven(c)'
    BY <1>1, <2>1 DEF CallOK, Settled, Proven
  <2>3. Pending(c)'
    BY <1>1, <2>1 DEF CallOK, Pending, Admissible, WrongRecipient
  <2>4. AnswerRecent(c)'
    <3>1. SUFFICES ASSUME call[c].pc = "fetched"
                   PROVE  /\ call[c].answer \in 1..version'[call[c].doc.issuer]
                          /\ During(until'[call[c].doc.issuer], call[c].answer, call[c].at, now)
      BY <1>1 DEF AnswerRecent
    <3>2. call[c].doc.issuer \in Name
      BY <2>1, <3>1, Bindings DEF CallOK, Settled, Pending
    <3>3. /\ call[c].answer \in 1..version[call[c].doc.issuer]
          /\ During(until[call[c].doc.issuer], call[c].answer, call[c].at, now)
      BY <2>1, <3>1 DEF CallOK, AnswerRecent
    <3>4. QED
      BY <1>6, <2>1, <3>2, <3>3
  <2>5. Recent(c)'
    <3> DEFINE m == call[c].doc.issuer
               from == call[c].at - (CacheTtl + NetTimeout)
    <3>1. SUFFICES ASSUME call[c].outcome = "executed"
                   PROVE  /\ m \in Name
                          /\ \A proof \in call[c].doc.proof : \E i \in 1..version'[m] :
                               /\ During(until'[m], i, from, call[c].at)
                               /\ Authorises(History[m][i], proof.signer, Bare[m], call[c].at)
      BY <1>1 DEF Recent
    <3>2. /\ m \in Name
          /\ \A proof \in call[c].doc.proof : \E i \in 1..version[m] :
               /\ During(until[m], i, from, call[c].at)
               /\ Authorises(History[m][i], proof.signer, Bare[m], call[c].at)
      BY <2>1, <3>1 DEF CallOK, Recent
    <3>3. from \in Int /\ from <= now
      BY <1>2, <2>1, IntakeAssumption
    <3> HIDE DEF from
    <3>4. ASSUME NEW proof \in call[c].doc.proof
          PROVE  \E i \in 1..version'[m] :
                   /\ During(until'[m], i, from, call[c].at)
                   /\ Authorises(History[m][i], proof.signer, Bare[m], call[c].at)
      <4>1. PICK i \in 1..version[m] :
              /\ During(until[m], i, from, call[c].at)
              /\ Authorises(History[m][i], proof.signer, Bare[m], call[c].at)
        BY <3>2
      <4>2. i \in 1..version'[m] /\ During(until'[m], i, from, call[c].at)
        BY <1>6, <3>2, <3>3, <4>1
      <4>3. QED
        BY <4>1, <4>2
    <3>5. QED
      BY <3>2, <3>4
  <2>6. QED
    BY <2>2, <2>3, <2>4, <2>5 DEF CallOK
<1>9. QED
  BY <1>1, <1>5, <1>7, <1>8
     DEF IInv, Typed, CallsOK, LimitsOK, CacheOK, BudgetsFollowIdentity, Cells
(* A bucket that the timer drops is full, as a new one is.                    *)
LEMMA ShrinkLimitsOK ==
  ASSUME IInv, ShrinkLimits PROVE IInv'
<1>1. /\ bucket' = [i \in {j \in DOMAIN bucket : ~Droppable(bucket[j])} |-> bucket[i]]
      /\ UNCHANGED <<now, register, owed, call, received, still>>
  BY DEF ShrinkLimits, Shrink, Restrict
<1>2. LimitsOK /\ BudgetsFollowIdentity
  BY DEF IInv, Typed
<1>3. LimitsOK'
  <2>1. \A i \in {j \in DOMAIN bucket : ~Droppable(bucket[j])} : bucket[i] \in 0..Burst(PerDid)
    BY <1>2 DEF LimitsOK
  <2>2. DOMAIN bucket' \subseteq DidOf /\ bucket' \in [DOMAIN bucket' -> 0..Burst(PerDid)]
    BY <1>1, <1>2, <2>1 DEF LimitsOK
  <2>3. QED
    BY <1>1, <1>2, <2>2 DEF LimitsOK
<1>4. BudgetsFollowIdentity'
  BY <1>1, <1>2 DEF BudgetsFollowIdentity, Cells, Droppable
<1>5. ASSUME NEW c \in Call PROVE CallOK(c)'
  BY <1>1, OthersKeep DEF IInv, still
<1>6. QED
  BY <1>1, <1>3, <1>4, <1>5 DEF IInv, Typed, CallsOK, PublishedOK, CacheOK, CacheRecent, still

LEMMA TickOK ==
  ASSUME IInv, Tick PROVE IInv'
<1>1. /\ now < MaxTime /\ now' = now + 1
      /\ \A c \in Call : call[c].pc \in {"idle", "resolving", "fetched"}
      /\ \A c \in Call : call[c].pc # "idle" => now < call[c].at + NetTimeout
      /\ bucket' = [i \in DOMAIN bucket |-> Refilled(bucket[i], PerDid)]
      /\ register' = Refilled(register, PerRegister)
      /\ owed' = [i \in DidOf |-> Refilled(owed[i], PerDid)]
      /\ cache' = [n \in {m \in DOMAIN cache : ~Expired(m, now + 1)} |-> cache[n]]
      /\ UNCHANGED <<hasDid, call, version, until, received, restarts>>
  BY DEF Tick, Refill, Restrict
<1>2. /\ CallsOK /\ LimitsOK /\ PublishedOK /\ CacheOK /\ CacheRecent /\ BudgetsFollowIdentity
      /\ now \in Nat /\ now' \in Nat /\ now' \in 0..MaxTime /\ now <= now' /\ MaxTime \in Nat
  BY <1>1, IntakeAssumption DEF IInv, Typed
<1>3. LimitsOK'
  <2>1. /\ \A i \in DOMAIN bucket : Refilled(bucket[i], PerDid) \in 0..Burst(PerDid)
        /\ \A i \in DidOf : Refilled(owed[i], PerDid) \in 0..Burst(PerDid)
        /\ Refilled(register, PerRegister) \in 0..Burst(PerRegister)
    <3>1. \A cells \in 0..Burst(PerDid) : Refilled(cells, PerDid) \in 0..Burst(PerDid)
      BY RefilledBounds
    <3>2. \A cells \in 0..Burst(PerRegister) :
             Refilled(cells, PerRegister) \in 0..Burst(PerRegister)
      BY RefilledBounds
    <3>3. QED
      BY <1>2, <3>1, <3>2 DEF LimitsOK
  <2>2. DOMAIN bucket' = DOMAIN bucket /\ bucket' \in [DOMAIN bucket' -> 0..Burst(PerDid)]
    BY <1>1, <2>1
  <2>3. QED
    BY <1>1, <1>2, <2>1, <2>2 DEF LimitsOK
<1>4. BudgetsFollowIdentity'
  <2> SUFFICES ASSUME NEW i \in DidOf PROVE Cells(i)' = owed'[i]
    BY DEF BudgetsFollowIdentity
  <2>1. Cells(i) = owed[i] /\ owed'[i] = Refilled(owed[i], PerDid)
    BY <1>1, <1>2 DEF BudgetsFollowIdentity
  <2>2. CASE i \in DOMAIN bucket
    BY <1>1, <2>1, <2>2 DEF Cells
  <2>3. CASE i \notin DOMAIN bucket
    <3>1. owed[i] = Burst(PerDid) /\ Cells(i)' = Burst(PerDid)
      BY <1>1, <2>1, <2>3 DEF Cells
    <3>2. Burst(PerDid) \in 0..Burst(PerDid)
      BY Settings
    <3>3. QED
      BY <2>1, <3>1, <3>2, RefilledBounds
  <2>4. QED
    BY <2>2, <2>3
<1>5. CacheOK' /\ CacheRecent'
  <2>1. ASSUME NEW n \in DOMAIN cache'
        PROVE  /\ n \in DOMAIN cache /\ cache'[n] = cache[n] /\ n \in Name
               /\ cache[n].at \in Nat /\ cache[n].version \in Nat
               /\ ~(cache[n].at + CacheTtl <= now + 1)
    BY <1>1, <1>2 DEF CacheOK, Expired
  <2>2. CacheOK'
    <3>1. DOMAIN cache' \subseteq Name
      BY <2>1
    <3>2. \A n \in {m \in DOMAIN cache : ~Expired(m, now + 1)} :
             cache[n] \in [version : Nat, at : Nat]
      BY <1>2 DEF CacheOK
    <3>3. QED
      BY <1>1, <3>1, <3>2 DEF CacheOK
  <2>3. CacheRecent'
    <3> SUFFICES ASSUME NEW n \in DOMAIN cache'
                 PROVE  /\ cache'[n].version \in 1..version[n]
                        /\ cache'[n].at <= now' /\ now' <= cache'[n].at + CacheTtl
                        /\ During(until[n], cache'[n].version, cache'[n].at - NetTimeout, now')
      BY <1>1 DEF CacheRecent
    <3>1. /\ cache[n].version \in 1..version[n] /\ cache[n].at <= now
          /\ During(until[n], cache[n].version, cache[n].at - NetTimeout, now)
      BY <1>2, <2>1 DEF CacheRecent
    <3>2. cache[n].at <= now' /\ now' <= cache[n].at + CacheTtl
      BY <1>1, <1>2, <2>1, <3>1, IntakeAssumption
    <3>3. During(until[n], cache[n].version, cache[n].at - NetTimeout, now')
      <4> DEFINE from == cache[n].at - NetTimeout
                 i == cache[n].version
      <4>1. /\ from \in Int /\ from <= from /\ i \in Nat \ {0} /\ now \in Int /\ now' \in Int
            /\ until[n] \in Seq(Nat) /\ During(until[n], i, from, now)
        BY <1>2, <2>1, <3>1, IntakeAssumption DEF PublishedOK
      <4> HIDE DEF from, i
      <4>2. During(until[n], i, from, now')
        BY <1>2, <4>1, DuringWidens
      <4>3. QED
        BY <4>2 DEF from, i
    <3>4. QED
      BY <2>1, <3>1, <3>2, <3>3
  <2>4. QED
    BY <2>2, <2>3
<1>6. PublishedOK'
  <2>1. ASSUME NEW n \in Name, NEW j \in 1..Len(until[n]) PROVE until[n][j] <= now'
    <3>1. until[n] \in Seq(Nat) /\ until[n][j] <= now
      BY <1>2 DEF PublishedOK
    <3>2. until[n][j] \in Nat
      BY <3>1, ElementOfSeq
    <3>3. QED
      BY <1>2, <3>1, <3>2
  <2>2. QED
    BY <1>1, <1>2, <2>1 DEF PublishedOK
<1>7. CallsOK'
  <2>1. ASSUME NEW c \in Call PROVE call[c].at <= now'
    BY <1>2 DEF CallsOK, CallState
  <2>2. QED
    BY <1>1, <1>2, <2>1 DEF CallsOK
<1>8. ASSUME NEW c \in Call PROVE CallOK(c)'
  <2>1. /\ CallOK(c) /\ call'[c] = call[c] /\ call[c].at \in Nat
    BY <1>1, <1>2 DEF IInv, CallsOK, CallState
  <2>2. Settled(c)' /\ Proven(c)' /\ Recent(c)'
    BY <1>1, <2>1 DEF CallOK, Settled, Proven, Recent
  <2>3. Pending(c)'
    <3>1. CASE call[c].pc # "idle"
      <4>1. now' <= call[c].at + NetTimeout
        BY <1>1, <1>2, <2>1, <3>1, IntakeAssumption
      <4>2. QED
        BY <1>1, <2>1, <4>1 DEF CallOK, Pending, Admissible, WrongRecipient
    <3>2. CASE call[c].pc = "idle"
      BY <2>1, <3>2 DEF Pending
    <3>3. QED
      BY <3>1, <3>2
  <2>4. AnswerRecent(c)'
    <3> DEFINE n == call[c].doc.issuer
               i == call[c].answer
               from == call[c].at
    <3>1. SUFFICES ASSUME call[c].pc = "fetched"
                   PROVE  i \in 1..version[n] /\ During(until[n], i, from, now')
      BY <1>1 DEF AnswerRecent
    <3>2. n \in Name
      BY <2>1, <3>1, Bindings DEF CallOK, Settled, Pending
    <3>3. /\ i \in 1..version[n] /\ During(until[n], i, from, now) /\ until[n] \in Seq(Nat)
          /\ i \in Nat \ {0} /\ from \in Int /\ from <= from /\ now \in Int /\ now' \in Int
      BY <1>2, <2>1, <3>1, <3>2 DEF CallOK, AnswerRecent, PublishedOK
    <3> HIDE DEF n, i, from
    <3>4. During(until[n], i, from, now')
      BY <1>2, <3>3, DuringWidens
    <3>5. QED
      BY <3>3, <3>4
  <2>5. QED
    BY <2>2, <2>3, <2>4 DEF CallOK
<1>9. QED
  BY <1>2, <1>3, <1>4, <1>5, <1>6, <1>7, <1>8 DEF IInv, Typed

(* A fresh process: no calls, nothing cached, and every bucket full.          *)
LEMMA FreshCalls ==
  /\ IdleCall \in CallState /\ IdleCall.at = 0 /\ IdleCall.outcome = "none"
  /\ IdleCall.caller = Nobody /\ IdleCall.pc = "idle"
  BY DEF IdleCall, CallState, Outcomes

LEMMA InitOK ==
  ASSUME Init PROVE IInv
<1>1. CallsOK
  <2>1. \A c \in Call : call[c].at <= now
    BY FreshCalls DEF Init
  <2>2. QED
    BY FreshCalls, <2>1 DEF CallsOK, Init
<1>2. LimitsOK /\ BudgetsFollowIdentity
  BY Settings DEF LimitsOK, BudgetsFollowIdentity, Cells, Init, limitsInit
<1>3. CacheOK /\ CacheRecent
  BY DEF CacheOK, CacheRecent, Init
<1>4. PublishedOK
  BY IntakeAssumption DEF PublishedOK, Init
<1>5. ASSUME NEW c \in Call PROVE CallOK(c)
  <2>1. call[c] = IdleCall
    BY DEF Init
  <2>2. QED
    BY FreshCalls, <2>1 DEF CallOK, Settled, Pending, AnswerRecent, Proven, Recent
<1>6. now \in 0..MaxTime
  BY IntakeAssumption DEF Init
<1>7. QED
  BY <1>1, <1>2, <1>3, <1>4, <1>5, <1>6 DEF IInv, Typed

LEMMA RestartOK ==
  ASSUME IInv, Restart PROVE IInv'
<1>1. /\ call' = [c \in Call |-> IdleCall] /\ cache' = [n \in {} |-> 0]
      /\ bucket' = [i \in {} |-> 0] /\ register' = Burst(PerRegister)
      /\ owed' = [i \in DidOf |-> Burst(PerDid)]
      /\ UNCHANGED <<now, hasDid, version, until, received>>
  BY DEF Restart
<1>2. now' \in 0..MaxTime /\ PublishedOK'
  BY <1>1 DEF IInv, Typed, PublishedOK
<1>3. CallsOK'
  <2>1. \A c \in Call : call'[c].at <= now'
    BY <1>1, <1>2, FreshCalls, IntakeAssumption
  <2>2. QED
    BY <1>1, FreshCalls, <2>1 DEF CallsOK
<1>4. LimitsOK' /\ BudgetsFollowIdentity'
  BY <1>1, Settings DEF LimitsOK, BudgetsFollowIdentity, Cells
<1>5. CacheOK' /\ CacheRecent'
  BY <1>1 DEF CacheOK, CacheRecent
<1>6. ASSUME NEW c \in Call PROVE CallOK(c)'
  <2>1. call'[c] = IdleCall
    BY <1>1
  <2>2. QED
    BY FreshCalls, <2>1 DEF CallOK, Settled, Pending, AnswerRecent, Proven, Recent
<1>7. QED
  BY <1>2, <1>3, <1>4, <1>5, <1>6 DEF IInv, Typed
-----------------------------------------------------------------------------
LEMMA Inductive == IInv /\ [Next]_vars => IInv'
<1> SUFFICES ASSUME IInv, [Next]_vars PROVE IInv'
  OBVIOUS
<1>1. ASSUME NEW c \in Call, NEW d \in Doc,
             \/ ReceiveHttps(c, d)
             \/ \E claim \in Claim : ReceiveDidcomm(c, claim, d)
             \/ \E p \in Peer : ReceiveTsp(c, p, d)
      PROVE  IInv'
  <2>1. PICK claim \in Name \cup {Nobody} : Enter(c, "arrived", claim, d)
    BY <1>1, IntakeAssumption DEF ReceiveHttps, ReceiveDidcomm, ReceiveTsp
  <2>2. QED
    BY <2>1, EnterOK
<1>2. ASSUME NEW c \in Call,
             \/ Unwrapped(c) \/ Authenticate(c) \/ HostAnswers(c) \/ Resolved(c)
             \/ ResolutionFails(c) \/ Finish(c)
      PROVE  IInv'
  BY <1>2, UnwrappedOK, AuthenticateOK, HostAnswersOK, ResolvedOK, ResolutionFailsOK, FinishOK
<1>3. ASSUME NEW n \in Name, Publish(n) PROVE IInv'
  BY <1>3, PublishOK
<1>4. CASE ShrinkLimits \/ Tick \/ Restart
  BY <1>4, ShrinkLimitsOK, TickOK, RestartOK
<1>5. CASE UNCHANGED vars
  <2>1. \A c \in Call : CallOK(c)'
    BY <1>5, OthersKeep DEF IInv, vars
  <2>2. QED
    BY <1>5, <2>1
       DEF vars, IInv, Typed, CallsOK, LimitsOK, PublishedOK, CacheOK, CacheRecent,
           BudgetsFollowIdentity, Cells
<1>6. QED
  BY <1>1, <1>2, <1>3, <1>4, <1>5 DEF Next

LEMMA Invariant == Spec => []IInv
  BY InitOK, Inductive, PTL DEF Spec

(* Calls, buckets, cached documents and rotations have their types; a call    *)
(* that waits for a DID document waits no longer than the network timeout, and*)
(* only one whose proof was accepted has a caller.                            *)
THEOREM IntakeTypes == Spec => []TypeOK
<1>1. IInv => TypeOK
  <2> SUFFICES ASSUME IInv PROVE TypeOK
    OBVIOUS
  <2>1. ASSUME NEW c \in Call
        PROVE  /\ call[c].pc \in {"idle", "arrived", "resolving", "fetched", "done"}
               /\ call[c].outcome \in Outcomes
               /\ (call[c].pc = "done") = (call[c].outcome # "none")
               /\ call[c].caller # Nobody => call[c].outcome \in {"executed", "registered", "limited"}
               /\ call[c].pc \in {"resolving", "fetched"} => now <= call[c].at + NetTimeout
    BY DEF IInv, Typed, CallsOK, CallState, CallOK, Settled, Pending
  <2>2. \A i \in DOMAIN bucket : i \in Name /\ bucket[i] \in 0..Burst(PerDid)
    BY IntakeAssumption DEF IInv, Typed, LimitsOK, DidOf
  <2>3. register \in 0..Burst(PerRegister) /\ now \in 0..MaxTime
    BY DEF IInv, Typed, LimitsOK
  <2>4. \A n \in DOMAIN cache : cache[n].version \in 1..version[n] /\ cache[n].at <= now
    BY DEF IInv, CacheRecent
  <2>5. \A n \in Name : Len(until[n]) = version[n] - 1
    BY DEF IInv, Typed, PublishedOK
  <2>6. QED
    BY <2>1, <2>2, <2>3, <2>4, <2>5 DEF TypeOK
<1>2. QED
  BY <1>1, Invariant, PTL

(* Whatever is executed was signed by its caller, intact and for this gateway,*)
(* and the transport's claim does not contradict it: authenticate, under any  *)
(* rotation, cached or raced.                                                 *)
THEOREM OnlyProvenExecutes == Spec => []ExecutesOnlyProven
<1>1. IInv => ExecutesOnlyProven
  BY DEF IInv, CallOK, Proven, ExecutesOnlyProven
<1>2. QED
  BY <1>1, Invariant, PTL

(* The key that proved it was authorised, neither revoked nor expired, within *)
(* the cache's lifetime plus the network timeout: a rotation takes effect by  *)
(* then, however fetches and rotations interleave.                            *)
THEOREM KeysWereGoodRecently == Spec => []AuthorisedRecently
<1>1. IInv => AuthorisedRecently
  <2> SUFFICES ASSUME IInv, NEW c \in Call, call[c].outcome = "executed",
                      NEW proof \in call[c].doc.proof
               PROVE  \E i \in 1..Len(History[call[c].doc.issuer]) :
                        /\ PublishedWithin(call[c].doc.issuer, i,
                                            call[c].at - (CacheTtl + NetTimeout), call[c].at)
                        /\ Authorises(History[call[c].doc.issuer][i], proof.signer,
                                       Bare[call[c].doc.issuer], call[c].at)
    BY DEF AuthorisedRecently
  <2> DEFINE n == call[c].doc.issuer
             t == call[c].at
  <2>1. n \in Name
    BY DEF IInv, CallOK, Recent
  <2>2. PICK i \in 1..version[n] :
          /\ During(until[n], i, t - (CacheTtl + NetTimeout), t)
          /\ Authorises(History[n][i], proof.signer, Bare[n], t)
    BY DEF IInv, CallOK, Recent
  <2>3. i \in 1..Len(History[n])
    BY <2>1, IntakeAssumption DEF IInv, Typed, PublishedOK
  <2>4. QED
    BY <2>2, <2>3, Publication
<1>2. QED
  BY <1>1, Invariant, PTL

(* Every DID has the budget of a bucket that is never dropped, charged for    *)
(* what was executed in its name under any spelling and for nothing else.     *)
THEOREM BudgetsAreTheirOwners == Spec => []BudgetsFollowIdentity
<1>1. IInv => BudgetsFollowIdentity
  BY DEF IInv
<1>2. QED
  BY <1>1, Invariant, PTL
=============================================================================
