------------------------------- MODULE Store --------------------------------
(* The handle registry (store.rs): opaque handle -> push registration,        *)
(* controller and trigger allowlist, with the per-token index under the same  *)
(* lock.  Every operation below is one write section of that lock.            *)
EXTENDS Integers, FiniteSets, Functions

CONSTANTS
  Handle,            \* handles that can be drawn (128 random bits: never twice)
  Token,             \* push destinations, as token_digest tells them apart
  Did,               \* identities
  Name,              \* spellings of a DID: with or without a ?src= locator
  Bare,              \* Name -> Did: strip_scid_src
  MaxHandles, MaxPerToken, MaxPerController, Ttl,    \* StoreLimits
  Loaded,            \* the handles a snapshot was opened with
  MaxTime,           \* bound of the model: the last second
  MaxBackstep, MaxBacksteps   \* how far, and how often, the clock may be set back

Triggers == SUBSET Did
Entry == [token : Token, controller : Name, triggers : Triggers, createdAt : 0..MaxTime]

ASSUME StoreAssumption ==
  /\ IsFiniteSet(Handle) /\ Did \subseteq Name
  /\ Bare \in [Name -> Did] /\ \A d \in Did : Bare[d] = d
  /\ MaxHandles \in Nat /\ MaxPerToken \in Nat /\ MaxPerController \in Nat
  /\ Ttl \in Nat \ {0} /\ MaxTime \in Nat
  /\ MaxBackstep \in Nat /\ MaxBacksteps \in Nat
  /\ \E S \in SUBSET Handle : Loaded \in [S -> Entry]

VARIABLES
  now,         \* wall clock, unix seconds
  handles,     \* State::handles
  byToken,     \* State::by_token: token -> the handles registered against it
  issued,      \* history: handles ever drawn
  dead,        \* history: handles whose token was reported unregistered
  opted,       \* history: handles that were given a non-empty allowlist
  backsteps    \* history: times the clock was set back

vars == <<now, handles, byToken, issued, dead, opted, backsteps>>

With(tok) == {h \in DOMAIN handles : handles[h].token = tok}
ControlledBy(d) == {h \in DOMAIN handles : handles[h].controller = d}
Sharing(tok) == IF tok \in DOMAIN byToken THEN byToken[tok] ELSE {}

(* A snapshot of an older build may hold a controller as it was spelled; it   *)
(* is loaded as it is.                                                        *)
Respelled == {h \in DOMAIN Loaded : Loaded[h].controller \notin Did}

(* Types: insert stores controllers as identities, never with a locator, and  *)
(* only handles that were drawn are live.                                     *)
TypeOK ==
  /\ now \in 0..MaxTime
  /\ DOMAIN handles \subseteq Handle /\ handles \in [DOMAIN handles -> Entry]
  /\ \A h \in DOMAIN handles \ Respelled : handles[h].controller \in Did
  /\ DOMAIN byToken \subseteq Token /\ byToken \in [DOMAIN byToken -> SUBSET Handle]
  /\ DOMAIN handles \subseteq issued
  /\ issued \subseteq Handle
  /\ dead \subseteq issued /\ opted \subseteq issued
  /\ backsteps \in 0..MaxBacksteps

(* open_with_limits: the snapshot as it is, over the caps or not, reindexed. *)
Index(hs) == [t \in {hs[h].token : h \in DOMAIN hs} |-> {h \in DOMAIN hs : hs[h].token = t}]

Init ==
  /\ now = 0
  /\ handles = Loaded
  /\ byToken = Index(Loaded)
  /\ issued = DOMAIN Loaded
  /\ dead = {}
  /\ opted = {h \in DOMAIN Loaded : Loaded[h].triggers # {}}
  /\ backsteps = 0
-----------------------------------------------------------------------------
(* State::add: index the record, then store it. *)
Add(h, entry) ==
  /\ byToken' = [t \in DOMAIN byToken \cup {entry.token} |->
                   IF t = entry.token THEN Sharing(t) \cup {h} ELSE byToken[t]]
  /\ handles' = [g \in DOMAIN handles \cup {h} |-> IF g = h THEN entry ELSE handles[g]]

(* State::drop_handle for every handle of S: an emptied list leaves the index. *)
Unindexed_Kept(S) == [t \in DOMAIN byToken |-> byToken[t] \ S]
Unindexed(S) == Restrict([t \in DOMAIN byToken |-> byToken[t] \ S],
                         {t \in DOMAIN byToken : byToken[t] \ S # {}})

Drop(S) ==
  /\ handles' = Restrict(handles, DOMAIN handles \ S)
  /\ byToken' = Unindexed(S)

(* The controller is stored by identity, without its locator. *)
StoredAs_Verbatim(n) == n
StoredAs(n) == Bare[n]

(* same_reference: two spellings of one identity. *)
SameReference(m, n) == Bare[m] = Bare[n]

Capped_Late(tok, d) ==
  \/ Cardinality(DOMAIN handles) >= MaxHandles
  \/ Cardinality(ControlledBy(d)) >= MaxPerController
  \/ Cardinality(Sharing(tok)) > MaxPerToken

Capped(tok, d) ==
  \/ Cardinality(DOMAIN handles) >= MaxHandles
  \/ Cardinality(ControlledBy(d)) >= MaxPerController
  \/ Cardinality(Sharing(tok)) >= MaxPerToken

(* insert, for a handle just drawn.  A capped registration changes nothing.   *)
(* Bound of the model: the clock still has a time-to-live to run.             *)
Insert(h, tok, n) ==
  /\ h \notin issued
  /\ now + Ttl <= MaxTime
  /\ ~Capped(tok, StoredAs(n))
  /\ Add(h, [token |-> tok, controller |-> StoredAs(n), triggers |-> {}, createdAt |-> now])
  /\ issued' = issued \cup {h}
  /\ UNCHANGED <<now, dead, opted, backsteps>>

(* provision: only the controller; the allowlist is replaced as a whole. *)
MayProvision(h, caller) ==
  /\ h \in DOMAIN handles
  /\ SameReference(handles[h].controller, caller)

Provision(h, caller, triggers) ==
  /\ MayProvision(h, caller)
  /\ handles' = [handles EXCEPT ![h].triggers = triggers]
  /\ opted' = IF triggers = {} THEN opted ELSE opted \cup {h}
  /\ UNCHANGED <<now, byToken, issued, dead, backsteps>>

(* remove: the push service reported the token permanently unregistered. *)
Remove(h) ==
  /\ h \in DOMAIN handles
  /\ Drop({h})
  /\ dead' = dead \cup {h}
  /\ UNCHANGED <<now, issued, opted, backsteps>>

(* now.saturating_sub(created_at) *)
Age_Wrapping(h) == (now - handles[h].createdAt) % (2 * MaxTime)
Age(h) == IF now < handles[h].createdAt THEN 0 ELSE now - handles[h].createdAt

Stale_NeverOpted(h) == h \notin opted /\ handles[h].triggers = {} /\ Age(h) >= Ttl
Stale(h) == handles[h].triggers = {} /\ Age(h) >= Ttl

(* sweep_unprovisioned: one pass removes every stale handle. *)
Sweep ==
  LET S == {h \in DOMAIN handles : Stale(h)} IN
  /\ S # {}
  /\ Drop(S)
  /\ UNCHANGED <<now, issued, dead, opted, backsteps>>
-----------------------------------------------------------------------------
Tick ==
  /\ now < MaxTime
  /\ now' = now + 1
  /\ UNCHANGED <<handles, byToken, issued, dead, opted, backsteps>>

(* SystemTime follows the system's clock, which can be set back. *)
SetBack ==
  /\ backsteps < MaxBacksteps
  /\ backsteps' = backsteps + 1
  /\ \E t \in 0..MaxTime : t < now /\ now <= t + MaxBackstep /\ now' = t
  /\ UNCHANGED <<handles, byToken, issued, dead, opted>>

Next ==
  \/ \E h \in Handle, tok \in Token, n \in Name : Insert(h, tok, n)
  \/ \E h \in Handle, d \in Did, tr \in Triggers : Provision(h, d, tr)
  \/ \E h \in Handle : Remove(h)
  \/ Sweep
  \/ Tick
  \/ SetBack

Spec == Init /\ [][Next]_vars

(* sweep_loop runs every minute until shutdown, and the clock advances. *)
Fairness == WF_vars(Sweep) /\ WF_vars(Tick)
FairSpec == Spec /\ Fairness
-----------------------------------------------------------------------------
(* The index is exactly the inverse of the handle map, with no empty list:    *)
(* what insert counts per token is what is stored, whatever was removed in    *)
(* between (State, "under one lock so they cannot drift apart").              *)
IndexMatches == byToken = Index(handles)

AtMost(S, n) == Cardinality(S) <= n

(* No cap is ever exceeded - except by what the snapshot already held, which  *)
(* is loaded as it is and only drains.  A controller counts as one identity   *)
(* under every spelling it registers with; what a snapshot holds under        *)
(* another spelling insert does not count, and neither is it counted here.    *)
Larger(m, n) == IF m > n THEN m ELSE n
TotalCap == AtMost(DOMAIN handles, Larger(MaxHandles, Cardinality(DOMAIN Loaded)))
TokenCap == \A t \in Token :
  AtMost(With(t), Larger(MaxPerToken, Cardinality({h \in DOMAIN Loaded : Loaded[h].token = t})))
ControllerCap == \A d \in Did :
  AtMost({h \in DOMAIN handles \ Respelled : Bare[handles[h].controller] = d},
         Larger(MaxPerController, Cardinality({h \in DOMAIN Loaded : Loaded[h].controller = d})))
CapsHold == TotalCap /\ TokenCap /\ ControllerCap

(* A handle leaves the registry only because its token was reported dead, or  *)
(* because it holds no trigger and the time-to-live has passed since it was   *)
(* issued - never earlier, even when the clock was set back meanwhile.        *)
LeavesOnlyStaleOrDead ==
  [][\A h \in DOMAIN handles \ DOMAIN handles' :
       h \in dead' \/ (handles[h].triggers = {} /\ now >= handles[h].createdAt + Ttl)]_vars

(* An unprovisioned handle does not stay: it is provisioned or leaves         *)
(* (store.rs, "Unprovisioned handles expire ... bounded churn").              *)
Unprovisioned(h) == h \in DOMAIN handles /\ handles[h].triggers = {}
UnprovisionedExpire == \A h \in Handle : Unprovisioned(h) ~> ~Unprovisioned(h)
=============================================================================
