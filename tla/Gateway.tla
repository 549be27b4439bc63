------------------------------ MODULE Gateway -------------------------------
(* The dispatch core (api.rs: handle_register, handle_provision, handle_wake) *)
(* over the registry (Store) and the record of accepted documents (Replay).   *)
(* A provision or a wake is a sequence of critical sections of those two      *)
(* between which any other call can run; only the send to the push service    *)
(* is awaited.                                                                *)
EXTENDS Integers, FiniteSets, Functions

CONSTANTS
  Call, Ref, NoDoc, NoRef, InFlight,
  Doc,      \* documents: Replay's fields and kind ("provision" or "wake"), triggers
  MaxAge, Skew, Margin, PerIssuer, PerHandle, Total,
  Workers, MaxLag, MaxTime, MaxRestarts,
  Handle, Token, Did, Name, Bare,
  MaxHandles, MaxPerToken, MaxPerController, Ttl, Loaded, MaxBackstep, MaxBacksteps,
  Served    \* the controllers GATEWAY_ALLOWED_CONTROLLERS lists

VARIABLES
  now,
  issuers, guard, charges, call, spent, lost, restarts,   \* Replay
  handles, byToken, issued, dead, opted, backsteps,         \* Store
  landed,    \* calls whose push the push service has delivered
  pushes,    \* history: wake document -> pushes delivered to the device
  applied,   \* history: provision document -> times it set the allowlist
  confirmed, \* history: wake document -> times its push was reported delivered
  noops      \* history: provisions answered because they change nothing

recordVars == <<issuers, guard, charges, call, spent, lost, restarts>>
storeVars  == <<handles, byToken, issued, dead, opted, backsteps>>
history    == <<pushes, applied, confirmed, noops>>
vars == <<now, recordVars, storeVars, landed, history>>

Responses == {"delivered", "unregistered", "provisioned"}

R == INSTANCE Replay WITH Response <- Responses
S == INSTANCE Store

Provisions == {d \in Doc : d.kind = "provision"}
Wakes      == {d \in Doc : d.kind = "wake"}

(* Pushes stop being counted at MaxPushes. *)
MaxPushes == 2
Bump(f, d) == [f EXCEPT ![d] = IF @ < MaxPushes THEN @ + 1 ELSE @]

Init ==
  /\ R!Init
  /\ S!Init
  /\ landed = {}
  /\ pushes = [d \in Wakes |-> 0]
  /\ applied = [d \in Provisions |-> 0]
  /\ confirmed = [d \in Wakes |-> 0]
  /\ noops = {}

(* Calls at a point of their handler, and those that hold a worker thread.    *)
IsAt(c, pc, kind) == call[c].pc = pc /\ call[c].doc.kind = kind
Running == R!Running \cup {c \in Call : call[c].pc \in {"arrived", "checked"}}
                     \cup {c \in Call : IsAt(c, "admitted", "provision")}
FreeWorker == Cardinality(Running) < Workers

Allowlist(h) == handles[h].triggers
-----------------------------------------------------------------------------
(* receive_document: authenticated, inside its window, its time read. *)
Arrive(c, d) ==
  /\ call[c].pc = "idle"
  /\ FreeWorker
  /\ R!Fresh(d, now)
  /\ call' = [call EXCEPT ![c] = [R!IdleCall EXCEPT !.pc = "arrived", !.doc = d, !.at = now]]
  /\ UNCHANGED <<now, issuers, guard, charges, spent, lost, restarts, storeVars, landed, history>>

(* Continue at pc, or answer at once, leaving everything else alone. *)
Proceed(c, pc) ==
  /\ R!Goto(c, pc)
  /\ UNCHANGED <<now, issuers, guard, charges, spent, lost, restarts, storeVars, landed>>

Answer(c) ==
  /\ R!Return(c)
  /\ UNCHANGED <<now, issuers, guard, charges, spent, lost, restarts, storeVars, landed>>

(* Refused before anything is touched: rate limited ahead of the handler, or  *)
(* - a wake - without a sender for the platform of its handle.                *)
Refuse(c) ==
  /\ call[c].pc = "arrived" \/ IsAt(c, "admitting", "wake")
  /\ Answer(c)
  /\ UNCHANGED history

(* controllers.allows *)
Serves_Any(n) == TRUE
Serves(n) == Bare[n] \in Served

(* controllers.allows and check_controller: authorise before admitting. *)
MayControl(d) == Serves(d.issuer) /\ S!MayProvision(d.handle, d.issuer)

CheckController(c) ==
  /\ IsAt(c, "arrived", "provision")
  /\ IF MayControl(call[c].doc) THEN Proceed(c, "checked") ELSE Answer(c)
  /\ UNCHANGED history

(* allowlist_is: a provision that changes nothing is answered without a claim. *)
ChangesNothing(d) == d.handle \in DOMAIN handles /\ Allowlist(d.handle) = d.triggers

AfterCheck_Unadmitted == "admitted"
AfterCheck == "admitting"

Shortcut(c) ==
  /\ IsAt(c, "checked", "provision")
  /\ IF ChangesNothing(call[c].doc)
     THEN /\ Answer(c)
          /\ noops' = noops \cup {call[c].doc}
     ELSE /\ Proceed(c, AfterCheck)
          /\ UNCHANGED noops
  /\ UNCHANGED <<pushes, applied, confirmed>>

(* authorize_wake: the trigger must be on the allowlist now. *)
MayWake(d) == d.handle \in DOMAIN handles /\ d.issuer \in Allowlist(d.handle)

AuthorizeWake(c) ==
  /\ IsAt(c, "arrived", "wake")
  /\ IF MayWake(call[c].doc) THEN Proceed(c, "admitting") ELSE Answer(c)
  /\ UNCHANGED history

(* admit and complete: the steps of the record. *)
RecordStep(c) ==
  /\ R!ClaimStep(c) \/ R!CloseStep(c)
  /\ UNCHANGED <<storeVars, landed, history>>
-----------------------------------------------------------------------------
(* provision, checked again under the write lock; then complete. *)
OnApplied_Released(c) == R!Fail(c)
OnApplied(c) == R!Succeed(c, "provisioned")

OnRefused_Return(c) == R!Return(c) /\ UNCHANGED <<issuers, guard, charges, spent, lost, restarts>>
OnRefused(c) == R!Fail(c)

Apply(c) ==
  LET d == call[c].doc IN
  /\ IsAt(c, "admitted", "provision")
  /\ S!Provision(d.handle, d.issuer, d.triggers)
  /\ OnApplied(c)
  /\ applied' = Bump(applied, d)
  /\ UNCHANGED <<landed, pushes, confirmed, noops>>

(* The handle went away between the check and the write: release the claim.   *)
ApplyRefused(c) ==
  /\ IsAt(c, "admitted", "provision")
  /\ ~S!MayProvision(call[c].doc.handle, call[c].doc.issuer)
  /\ OnRefused(c)
  /\ UNCHANGED <<now, storeVars, landed, history>>
-----------------------------------------------------------------------------
(* External: the push service delivers the push of a send under way. *)
Land(c) ==
  /\ IsAt(c, "admitted", "wake")
  /\ c \notin landed
  /\ landed' = landed \cup {c}
  /\ pushes' = Bump(pushes, call[c].doc)
  /\ UNCHANGED <<now, recordVars, storeVars, applied, confirmed, noops>>

(* The send of a wake ended; the call runs again when a worker is free. *)
SendEnds(c) ==
  /\ IsAt(c, "admitted", "wake")
  /\ FreeWorker
  /\ landed' = landed \ {c}

Delivered(c) ==
  /\ SendEnds(c)
  /\ c \in landed
  /\ R!Succeed(c, "delivered")
  /\ confirmed' = Bump(confirmed, call[c].doc)
  /\ UNCHANGED <<storeVars, pushes, applied, noops>>

(* A transient failure, or WAKE_SEND_TIMEOUT with the answer still out: the   *)
(* claim is released, whether or not the push landed.                         *)
OnTransient_Recorded(c) == R!Succeed(c, "delivered")
OnTransient_NoTimeout(c) == c \in landed /\ R!Fail(c)
OnTransient(c) == R!Fail(c)

Transient(c) ==
  /\ SendEnds(c)
  /\ OnTransient(c)
  /\ UNCHANGED <<storeVars, history>>

(* The service has dropped the token: so does the registry (S!Remove, unless  *)
(* another wake removed the handle first).                                    *)
Unregistered(c) ==
  LET h == call[c].doc.handle IN
  /\ SendEnds(c)
  /\ c \notin landed
  /\ \/ S!Remove(h)
     \/ h \notin DOMAIN handles /\ UNCHANGED storeVars
  /\ R!Succeed(c, "unregistered")
  /\ UNCHANGED history

(* The HTTP client goes away during the send and the handler is dropped. *)
Disconnect(c) ==
  /\ IsAt(c, "admitted", "wake")
  /\ R!Abandon(c)
  /\ landed' = landed \ {c}
  /\ UNCHANGED <<storeVars, history>>
-----------------------------------------------------------------------------
(* push/register, anonymous: a controller that is served, and the caps. *)
Register(h, tok, n) ==
  /\ Serves(n)
  /\ S!Insert(h, tok, n)
  /\ UNCHANGED <<recordVars, landed, history>>

Sweep == S!Sweep /\ UNCHANGED <<recordVars, landed, history>>

Tick ==
  /\ \A c \in Call : call[c].pc \in {"arrived", "checked"} => now - call[c].at < MaxLag
  /\ R!Tick
  /\ UNCHANGED <<storeVars, landed, history>>

Advance(c) ==
  \/ CheckController(c) \/ Shortcut(c) \/ AuthorizeWake(c)
  \/ RecordStep(c) \/ Apply(c) \/ ApplyRefused(c)

SendOutcome(c) == Delivered(c) \/ Transient(c) \/ Unregistered(c)

Next ==
  \/ \E c \in Call :
       \/ \E d \in Doc : Arrive(c, d)
       \/ Refuse(c)
       \/ Advance(c)
       \/ Land(c)
       \/ SendOutcome(c)
       \/ Disconnect(c)
  \/ \E h \in Handle, tok \in Token, n \in Name : Register(h, tok, n)
  \/ Sweep
  \/ Tick

Spec == Init /\ [][Next]_vars

(* A worker thread runs on, and the timeout ends every send - whatever the    *)
(* push service does.                                                         *)
Fairness == \A c \in Call : WF_vars(Advance(c)) /\ SF_vars(Transient(c))
FairSpec == Spec /\ Fairness
-----------------------------------------------------------------------------
(* Types, and: a push is under way only in an admitted wake, and no handle is *)
(* ever issued to a controller that is not served.                            *)
TypeOK ==
  /\ S!TypeOK
  /\ issuers \in [DOMAIN issuers -> Ref]
  /\ DOMAIN issuers \subseteq {d.issuer : d \in Doc}
  /\ \A r \in Ref : guard[r] \in [DOMAIN guard[r] -> Responses \cup {InFlight}]
  /\ charges \in [Doc -> Nat]
  /\ \A c \in Call : (call[c].pc = "idle") = (call[c].doc = NoDoc)
  /\ \A c \in landed : IsAt(c, "admitted", "wake")
  /\ \A h \in DOMAIN handles \ DOMAIN Loaded : handles[h].controller \in Served
  /\ spent \subseteq Doc /\ noops \subseteq Provisions

(* The handlers use the record only the way Replay describes: nothing is      *)
(* executed that was not admitted, nothing is completed twice, and whatever   *)
(* holds of Replay for every caller holds of the gateway.                     *)
AsReplayCall(c) ==
  IF call[c].pc \in {"arrived", "checked"} THEN [call[c] EXCEPT !.pc = "admitting"] ELSE call[c]

Record == INSTANCE Replay WITH
  Response <- Responses, call <- [c \in Call |-> AsReplayCall(c)]

UsesRecord == Record!Spec

(* Every way out of a handler closes the claim it made: a claim is in flight  *)
(* only while a call is going to close it, or after a client's disconnect     *)
(* dropped the handler in the middle of a send.                               *)
NoClaimLeaks == R!ClaimsHaveOwners

(* A document takes effect at most once: one change of the allowlist, one     *)
(* push reported delivered.                                                   *)
Effects(d) == IF d.kind = "wake" THEN confirmed[d] ELSE applied[d]
EffectOnce == \A d \in Doc : Effects(d) <= 1

(* The answer a duplicate gets is what happened: a delivered push, a removed  *)
(* handle, an allowlist that was set - by this document, or by one under the  *)
(* same identifier whose record had expired before its send ended.            *)
True(d, resp) ==
  CASE resp = "delivered"    -> d.kind = "wake" /\ pushes[d] > 0
    [] resp = "unregistered" -> d.kind = "wake" /\ d.handle \notin DOMAIN handles
    [] resp = "provisioned"  -> d.kind = "provision" /\ applied[d] > 0

AnswersAreTrue ==
  \A i \in DOMAIN issuers : \A d \in DOMAIN guard[issuers[i]] :
    guard[issuers[i]][d] # InFlight =>
      \E e \in R!Twins(d) : True(e, guard[issuers[i]][d])

(* Every document is answered, whatever the push service does. *)
EveryCallAnswered == \A c \in Call : []<>(call[c].pc = "idle")

(* Replaying a provision that was answered because it changed nothing is      *)
(* harmless (api.rs, "Re-applying the stored allowlist changes nothing ...    *)
(* replaying it is harmless by construction"): it never sets the allowlist    *)
(* afterwards.                                                                *)
ReplayHarmless == [][\A d \in noops : applied'[d] = applied[d]]_vars
=============================================================================
