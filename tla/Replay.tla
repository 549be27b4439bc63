------------------------------- MODULE Replay -------------------------------
(* The record of accepted document identifiers (replay.rs) and its concurrent *)
(* callers.  One action per critical section: a mutex section, or one call of *)
(* the issuer's guard (trust_tasks_rs::InMemoryReplayGuard, external).        *)
(*                                                                            *)
(* A call is one document being handled: admitting, its claim (partition,      *)
(* claim, charge), then - admitted - the effect, then complete (uncharge,     *)
(* lookup, close).  claim and complete contain no suspension point that is    *)
(* ever pending, so a call in one of them holds a worker thread: Workers is   *)
(* the number of threads of the tokio runtime.                                *)
EXTENDS Window, FiniteSets, Functions, FiniteSetsExt

CONSTANTS
  Call,         \* the calls in progress at one time
  Doc,          \* documents: records [issuer, id, handle, issued, expires, ...]
  Response,     \* responses a completed execution can record
  Ref,          \* identities of guards (Arc<InMemoryReplayGuard>)
  NoDoc, NoRef, InFlight,
  PerIssuer, PerHandle, Total,     \* the three budgets
  Workers,      \* runtime worker threads
  MaxLag,       \* how long a call may be preempted inside claim
  MaxTime, MaxRestarts             \* bounds of the model

Issuer == {d.issuer : d \in Doc}

(* Times are seconds, and there is always a guard that nobody holds. *)
ASSUME ReplayAssumption ==
  /\ PerIssuer \in Nat \ {0} /\ PerHandle \in Nat \ {0} /\ Total \in Nat \ {0}
  /\ Workers \in Nat \ {0}
  /\ MaxLag \in Nat /\ MaxTime \in Nat /\ MaxRestarts \in Nat
  /\ InFlight \notin Response /\ NoDoc \notin Doc /\ NoRef \notin Ref
  /\ IsFiniteSet(Call) /\ IsFiniteSet(Doc) /\ IsFiniteSet(Ref)
  /\ Cardinality(Ref) > Cardinality(Issuer) + Cardinality(Call)
  /\ \A d \in Doc : d.issued \in Int /\ d.expires \subseteq Int

VARIABLES
  now,        \* the wall clock, in seconds
  issuers,    \* issuer -> identity of its guard (Inner::issuers)
  guard,      \* identity -> (document -> InFlight or its response)
  charges,    \* document -> number of entries for it in Inner::handles
  call,       \* the state of each call
  spent,      \* history: documents that took effect, or may have
  lost,       \* history: documents whose entry is in no guard of the map any more
  restarts    \* history: restarts so far

vars == <<now, issuers, guard, charges, call, spent, lost, restarts>>

(* The documents under one key (issuer, id), which their digests tell apart.   *)
Twins(d) == {e \in Doc : e.issuer = d.issuer /\ e.id = d.id}

Empty == [d \in {} |-> InFlight]
IdleCall == [pc |-> "idle", doc |-> NoDoc, at |-> 0, ref |-> NoRef, resp |-> InFlight]

Claiming == {"admitting", "claim", "charge"}
Closing  == {"uncharge", "lookup", "close"}
CallState ==
  [pc : {"idle", "admitted"} \cup Claiming \cup Closing, doc : Doc \cup {NoDoc},
   at : 0..MaxTime, ref : Ref \cup {NoRef}, resp : Response \cup {InFlight}]

At(S)    == {c \in Call : call[c].pc \in S}
Running  == At(Claiming \cup Closing)
Executing == At({"charge", "admitted"})   \* the holders of a fresh claim

Held(r)          == Cardinality(DOMAIN guard[r])

(* The list of charges against a handle, its entries numbered by document. *)
ChargesOf(ch, h) == UNION {{d} \X (1..ch[d]) : d \in {e \in Doc : e.handle = h}}
Charged(ch, h)   == Cardinality(ChargesOf(ch, h))

Mapped           == Range(issuers)
FreeRef          == Ref \ (Mapped \cup {call[c].ref : c \in Call})

(* What a guard can hold: documents, in flight or with a response. *)
Entries == UNION {[S -> Response \cup {InFlight}] : S \in SUBSET Doc}

(* The guards of the map are partitions: one per issuer, holding documents of *)
(* that issuer only.                                                          *)
Partitioned ==
  \A i \in DOMAIN issuers :
    /\ \A j \in DOMAIN issuers \ {i} : issuers[j] # issuers[i]
    /\ \A d \in DOMAIN guard[issuers[i]] : d.issuer = i

(* Types, the partition of the guards by issuer, and the bound on restarts.   *)
TypeOK ==
  /\ now \in 0..MaxTime
  /\ \E S \in SUBSET Issuer : issuers \in [S -> Ref]
  /\ guard \in [Ref -> Entries]
  /\ charges \in [Doc -> Nat]
  /\ call \in [Call -> CallState]
  /\ spent \subseteq Doc
  /\ lost \subseteq Doc
  /\ restarts \in 0..MaxRestarts
  /\ Partitioned

Init ==
  /\ now = 0
  /\ issuers = [i \in {} |-> NoRef]
  /\ guard = [r \in Ref |-> Empty]
  /\ charges = [d \in Doc |-> 0]
  /\ call = [c \in Call |-> IdleCall]
  /\ spent = {}
  /\ lost = {}
  /\ restarts = 0

Goto(c, pc) == call' = [call EXCEPT ![c].pc = pc]
Return(c)   == call' = [call EXCEPT ![c] = IdleCall]
(* The call goes on to complete, with a response or with None (InFlight). *)
Close(c, resp, pc) == call' = [call EXCEPT ![c].pc = pc, ![c].resp = resp]

(* receive_document: the clock is read once, the window checked, and the      *)
(* document goes to the dispatch core.  A document outside its window is      *)
(* answered without touching anything.                                        *)
Receive(c, d) ==
  /\ call[c].pc = "idle"
  /\ Cardinality(Running) < Workers
  /\ Fresh(d, now)
  /\ call' = [call EXCEPT ![c] = [IdleCall EXCEPT !.pc = "admitting", !.doc = d, !.at = now]]
  /\ UNCHANGED <<now, issuers, guard, charges, spent, lost, restarts>>

(* Answered before admission: not authorised, rate limited, no sender, ... *)
Refuse(c) ==
  /\ call[c].pc = "admitting"
  /\ Return(c)
  /\ UNCHANGED <<now, issuers, guard, charges, spent, lost, restarts>>
-----------------------------------------------------------------------------
(* partition: under one lock, purge every guard in the map and every charge,  *)
(* drop the guards left empty, check the budgets, find or create the guard.   *)
Purged_IgnoringSkew(t) ==
  [r \in Ref |-> IF r \in Mapped
                 THEN Restrict(guard[r], {d \in DOMAIN guard[r] : t < d.issued + MaxAge})
                 ELSE guard[r]]

Purged(t) ==
  [r \in Ref |-> IF r \in Mapped
                 THEN Restrict(guard[r], {d \in DOMAIN guard[r] : Retained(d, t)})
                 ELSE guard[r]]

Kept(g) == Restrict(issuers, {i \in DOMAIN issuers : DOMAIN g[issuers[i]] # {}})

PurgedCharges(t) == [d \in Doc |-> IF Retained(d, t) THEN charges[d] ELSE 0]

FairShare(active) == Max({1, Total \div active})

Busy(held, total, active) ==
  \/ held >= PerIssuer
  \/ total >= 2 * Total
  \/ total >= Total /\ held >= FairShare(active)

OverHandle_Never(ch, h) == FALSE
OverHandle(ch, h) == Charged(ch, h) >= PerHandle

(* What the guards of the map m hold, counted under each issuer. *)
AllHeld(g, m)   == UNION {{i} \X DOMAIN g[m[i]] : i \in DOMAIN m}
TotalHeld(g, m) == Cardinality(AllHeld(g, m))

GuardOf_Shared(m, i) ==
  CHOOSE r \in (IF m = << >> THEN FreeRef ELSE Range(m)) : TRUE

(* The issuer's guard in the map m, or a new one: entry().or_insert_with(). *)
GuardOf(m, i) == IF i \in DOMAIN m THEN m[i] ELSE CHOOSE r \in FreeRef : TRUE

Partition(c) ==
  LET d == call[c].doc
      g == Purged(call[c].at)
      m == Kept(g)
      ch == PurgedCharges(call[c].at)
      active == Cardinality(DOMAIN m \cup {d.issuer})
  IN
  /\ call[c].pc = "admitting"
  /\ charges' = ch
  /\ \/ /\ OverHandle(ch, d.handle)
        /\ issuers' = m
        /\ guard' = g
        /\ Return(c)
     \/ /\ ~OverHandle(ch, d.handle)
        /\ LET r    == GuardOf(m, d.issuer)
               held == IF d.issuer \in DOMAIN m THEN Cardinality(DOMAIN g[r]) ELSE 0
           IN   /\ issuers' = [i \in DOMAIN m \cup {d.issuer} |-> IF i = d.issuer THEN r ELSE m[i]]
                /\ guard' = IF d.issuer \in DOMAIN m THEN g ELSE [g EXCEPT ![r] = Empty]
                /\ IF Busy(held, TotalHeld(g, m), active)
                   THEN Return(c)
                   ELSE call' = [call EXCEPT ![c].pc = "claim", ![c].ref = r]
  /\ UNCHANGED <<now, spent, lost, restarts>>
-----------------------------------------------------------------------------
(* External: InMemoryReplayGuard::claim.  Entries past their retention are    *)
(* gone; an entry under the same id makes the document a duplicate (same      *)
(* digest) or a conflict (another); otherwise it is recorded in flight, and a *)
(* guard at its capacity evicts an entry first.                               *)
Live(c)  == Restrict(guard[call[c].ref],
                     {d \in DOMAIN guard[call[c].ref] : Retained(d, call[c].at)})

Prior(c) == DOMAIN Live(c) \cap Twins(call[c].doc)

(* What the guard says of the document. *)
Verdict(c) ==
  IF Prior(c) = {} THEN "fresh"
  ELSE IF call[c].doc \notin Prior(c) THEN "conflict"
  ELSE IF Live(c)[call[c].doc] = InFlight THEN "accepted" ELSE "answered"

(* "Capacity one above the bound, so the guard itself never evicts." *)
Capacity == PerIssuer + 1

Evicted(c) ==
  IF Cardinality(DOMAIN Live(c)) >= Capacity THEN {{e} : e \in DOMAIN Live(c)} ELSE {{}}

(* A guard lives while the map or a call holds it. *)
Outlives(r, c) == r \in Mapped \/ \E b \in Call \ {c} : call[b].ref = r
Update(r, c, entries) == [guard EXCEPT ![r] = IF Outlives(r, c) THEN entries ELSE Empty]

Record(g, d, resp) == [e \in DOMAIN g \cup {d} |-> IF e = d THEN resp ELSE g[e]]

(* claim, second half: only a fresh document goes on to be charged. *)
GuardClaim(c) ==
  LET r == call[c].ref
      d == call[c].doc
  IN
  /\ call[c].pc = "claim"
  /\ \/ /\ Verdict(c) = "fresh"
        /\ \E out \in Evicted(c) :
             guard' = Update(r, c, Record(Restrict(Live(c), DOMAIN Live(c) \ out), d, InFlight))
        /\ call' = [call EXCEPT ![c].pc = "charge", ![c].ref = NoRef]
        /\ lost' = IF r \in Mapped THEN lost ELSE lost \cup {d}
     \/ /\ Verdict(c) # "fresh"
        /\ guard' = Update(r, c, Live(c))
        /\ Return(c)
        /\ UNCHANGED lost
  /\ UNCHANGED <<now, issuers, charges, spent, restarts>>

(* charge: push onto the handle's list.  The document is now admitted, and    *)
(* the time read in receive_document is not used again.                       *)
Charge(c) ==
  /\ call[c].pc = "charge"
  /\ charges' = [charges EXCEPT ![call[c].doc] = @ + 1]
  /\ call' = [call EXCEPT ![c].pc = "admitted", ![c].at = 0]
  /\ UNCHANGED <<now, issuers, guard, spent, lost, restarts>>
-----------------------------------------------------------------------------
(* complete: the effect ran (a response), or it did not happen (None). *)
Succeed(c, resp) ==
  /\ call[c].pc = "admitted"
  /\ Cardinality(Running) < Workers
  /\ Close(c, resp, "lookup")
  /\ spent' = spent \cup {call[c].doc}
  /\ UNCHANGED <<now, issuers, guard, charges, lost, restarts>>

Fail(c) ==
  /\ call[c].pc = "admitted"
  /\ Cardinality(Running) < Workers
  /\ Close(c, InFlight, "uncharge")
  /\ UNCHANGED <<now, issuers, guard, charges, spent, lost, restarts>>

(* The handler's future is dropped while the effect is awaited: nothing runs  *)
(* complete, and whether the effect happened is not known.                    *)
Abandon(c) ==
  /\ call[c].pc = "admitted"
  /\ Return(c)
  /\ spent' = spent \cup {call[c].doc}
  /\ UNCHANGED <<now, issuers, guard, charges, lost, restarts>>

(* uncharge: drop every charge of this handle under this key. *)
Released_None(d) == {}
Released(d) == {e \in Twins(d) : e.handle = d.handle}

Uncharge(c) ==
  /\ call[c].pc = "uncharge"
  /\ charges' = [d \in Doc |-> IF d \in Released(call[c].doc) THEN 0 ELSE charges[d]]
  /\ Goto(c, "lookup")
  /\ UNCHANGED <<now, issuers, guard, spent, lost, restarts>>

(* The issuer's current guard, if it still has one. *)
Lookup(c) ==
  LET i == call[c].doc.issuer IN
  /\ call[c].pc = "lookup"
  /\ IF i \in DOMAIN issuers
     THEN call' = [call EXCEPT ![c].pc = "close", ![c].ref = issuers[i]]
     ELSE Return(c)
  /\ UNCHANGED <<now, issuers, guard, charges, spent, lost, restarts>>

(* External: record_response, which is told the identifier only, or release   *)
(* of exactly this document's claim; an entry that is gone stays gone         *)
(* (reported, and only logged here).                                          *)
Answered(g, d, resp) == [e \in DOMAIN g |-> IF e \in Twins(d) THEN resp ELSE g[e]]

Closed_NotReleased(g, d, resp) == Answered(g, d, resp)
Closed(g, d, resp) ==
  IF resp = InFlight THEN Restrict(g, DOMAIN g \ {d}) ELSE Answered(g, d, resp)

GuardClose(c) ==
  LET r == call[c].ref IN
  /\ call[c].pc = "close"
  /\ guard' = Update(r, c, Closed(guard[r], call[c].doc, call[c].resp))
  /\ Return(c)
  /\ UNCHANGED <<now, issuers, charges, spent, lost, restarts>>
-----------------------------------------------------------------------------
(* Time passes; a call inside claim is preempted for at most MaxLag. *)
Tick ==
  /\ now < MaxTime
  /\ \A c \in At(Claiming) : now - call[c].at < MaxLag
  /\ now' = now + 1
  /\ UNCHANGED <<issuers, guard, charges, call, spent, lost, restarts>>

(* The process restarts: the record is per process, in memory. *)
Restart ==
  /\ restarts < MaxRestarts
  /\ restarts' = restarts + 1
  /\ issuers' = [i \in {} |-> NoRef]
  /\ guard' = [r \in Ref |-> Empty]
  /\ charges' = [d \in Doc |-> 0]
  /\ spent' = spent \cup {call[c].doc : c \in At({"admitted"})}
  /\ lost' = lost \cup spent' \cup {call[c].doc : c \in Executing}
  /\ call' = [c \in Call |-> IdleCall]
  /\ UNCHANGED now

(* The steps of a call inside the record. *)
ClaimStep(c) == Partition(c) \/ GuardClaim(c) \/ Charge(c)
CloseStep(c) == Uncharge(c) \/ Lookup(c) \/ GuardClose(c)

Next ==
  \/ \E c \in Call :
       \/ \E d \in Doc : Receive(c, d)
       \/ Refuse(c)
       \/ ClaimStep(c)
       \/ \E resp \in Response : Succeed(c, resp)
       \/ Fail(c)
       \/ Abandon(c)
       \/ CloseStep(c)
  \/ Tick
  \/ Restart

Spec == Init /\ [][Next]_vars
-----------------------------------------------------------------------------
(* The calls that will still close the claim of document d. *)
Owners(d) == {c \in At({"charge", "admitted"} \cup Closing) : call[c].doc = d}

(* The record implements OnceOnly for every document it has not lost, and it  *)
(* loses one only when the claim went into a guard that partition had         *)
(* meanwhile dropped from the map, or when the process restarts after the     *)
(* document took effect.  The retention margin covers a claim preempted for   *)
(* less than it.                                                              *)
Once == INSTANCE OnceOnly WITH
  executing <- [d \in Doc |-> IF d \in lost THEN {} ELSE {c \in Executing : call[c].doc = d}],
  spent <- spent \ lost

ImplementsOnceOnly == Once!Spec

(* No document is executed by two calls at once, and none is executed again   *)
(* after it took effect (README, "A second delivery of an accepted document   *)
(* is ... not executed again").                                               *)
Exclusive(c) ==
  /\ call[c].doc \notin spent
  /\ \A b \in Executing \ {c} : call[b].doc # call[c].doc

ExecutesOnce == \A c \in Executing : Exclusive(c)

(* Of two documents under one identifier of their issuer, the second is not   *)
(* executed while the record of the first is retained (intake.rs, "a          *)
(* different document under the same issuer's accepted id gets idConflict").  *)
IdsConflict ==
  \A c \in Executing : \A e \in Twins(call[c].doc) \ {call[c].doc} :
    Retained(e, now) /\ Retained(call[c].doc, now) /\ {e, call[c].doc} \cap lost = {} =>
      /\ e \notin spent
      /\ \A b \in Executing : call[b].doc # e

(* The budgets are checked in one critical section and spent in two later     *)
(* ones, so they can be overrun - by at most the claims that run beside the   *)
(* one that reached the bound.                                                *)
BudgetsBounded ==
  /\ \A i \in DOMAIN issuers : Held(issuers[i]) < PerIssuer + Workers
  /\ \A h \in {d.handle : d \in Doc} : Charged(charges, h) < PerHandle + Workers
  /\ TotalHeld(guard, issuers) < 2 * Total + Workers

(* A guard never evicts a live entry to make room for a fresh one (replay.rs, *)
(* "Capacity one above the bound, so the guard itself never evicts").         *)
NeverEvicts ==
  \A c \in At({"claim"}) : Verdict(c) = "fresh" => Cardinality(DOMAIN Live(c)) < Capacity

(* A claim left in flight is one a call will still close, unless that call    *)
(* was abandoned: a document is refused as "already accepted" without a       *)
(* response only while it is being executed or after it may have been.        *)
ClaimsHaveOwners ==
  \A i \in DOMAIN issuers : \A d \in DOMAIN guard[issuers[i]] :
    guard[issuers[i]][d] = InFlight => Owners(d) # {} \/ d \in spent

(* Between calls the two books of the record agree: a document that was not   *)
(* lost is charged to its handle only while its issuer's guard holds it - no  *)
(* handle's budget leaks.  It is charged exactly then, unless another         *)
(* document shares its identifier: uncharge does not tell them apart.         *)
InRecord(d) == d.issuer \in DOMAIN issuers /\ d \in DOMAIN guard[issuers[d.issuer]]
ChargesMatchEntries ==
  Running = {} =>
    \A d \in Doc : Retained(d, now) /\ d \notin lost =>
      LET entries == IF InRecord(d) THEN 1 ELSE 0 IN
      charges[d] <= entries /\ (Twins(d) = {d} => charges[d] = entries)

(* An issuer below its own bound that holds less than its fair share is not   *)
(* refused for what other issuers hold (README, "a set of invented            *)
(* controllers cannot lock out an issuer that is not flooding").              *)
FairShareAdmits ==
  \A i \in Issuer :
    LET held   == IF i \in DOMAIN issuers THEN Held(issuers[i]) ELSE 0
        active == Cardinality(DOMAIN issuers \cup {i})
    IN held < PerIssuer /\ held < FairShare(active)
         => ~Busy(held, TotalHeld(guard, issuers), active)
=============================================================================
