------------------------------- MODULE Intake -------------------------------
(* The one intake of every transport (intake.rs): a document comes over HTTPS,*)
(* DIDComm (didcomm.rs) or TSP (tsp.rs), its proof is verified against the    *)
(* issuer's cached DID document (proof.rs, resolver.rs), its caller is charged*)
(* (limits.rs) and it is handed to the dispatch core, which is Gateway.  That *)
(* a TSP peer has a relationship is Relationships.                            *)
EXTENDS Window, Limits, Sequences, FiniteSets

CONSTANTS
  Call, NoDoc,
  Doc,         \* documents, see DocType
  Name, Bare,  \* spellings of DIDs, strip_scid_src
  Peer,        \* the VIDs that TSP authenticates
  Claim,       \* what a DIDComm message can give as its sender
  Nobody,      \* no issuer, no claim
  Key, Holder, \* signing keys; Key -> the DID that holds it
  History,     \* Name -> the DID documents it resolves to, in order of publication
  Large,       \* MAX_DID_DOCUMENT_BYTES, with the size of a document in units
  CacheTtl,    \* GATEWAY_DID_CACHE_TTL_SECS
  NetTimeout,  \* GATEWAY_DID_NETWORK_TIMEOUT_MS, in seconds
  MaxTime, MaxReceived, MaxRestarts   \* bounds of the model

VARIABLES
  now,
  hasDid,     \* an identity is provisioned: the gateway has a DID
  call,
  cache,      \* Name -> [version, at] of the resolver's cached documents
  version,    \* Name -> which of its History is published
  until,      \* history: Name -> when each superseded version ended
  owed,       \* history: DID -> the cells of a bucket that is never dropped
  received, restarts

vars == <<now, bucket, register, hasDid, call, cache, version, until, owed,
          received, restarts>>
still == <<hasDid, cache, version, until, restarts>>

Gateway == "gateway"
DidOf == {Bare[n] : n \in Name}

(* The part of a DID document that verification reads: its subject, its size, *)
(* and for each of its methods the key, who controls it, whether it is listed *)
(* (or embedded) under authentication, whether it was revoked, its expiry.    *)
Method == [key : Key, controller : Name, listed : BOOLEAN, revoked : BOOLEAN,
           expires : SUBSET Nat]

(* proof is {} or {[suite, purpose, did, fragment, signer]}; intact says that *)
(* the signature covers the document as received.                             *)
ASSUME IntakeAssumption ==
  /\ Bare \in [Name -> Name] /\ \A n \in Name : Bare[Bare[n]] = Bare[n]
  /\ Holder \in [Key -> Name]
  /\ Peer \subseteq Name /\ Nobody \notin Name /\ Claim \subseteq Name \cup {Nobody}
  /\ \A d \in Doc :
       /\ d.issuer \in Name \cup {Nobody}
       /\ \A p, q \in d.proof : p = q
       /\ d.recipient \in {Gateway, "other", "none"}
       /\ d.kind \in {"push/register", "push/provision", "push/wake"}
  /\ \A n \in Name :
       /\ Len(History[n]) \in Nat \ {0} /\ DOMAIN History[n] = 1..Len(History[n])
       /\ \A i \in DOMAIN History[n] : \A f \in DOMAIN History[n][i].methods :
            LET m == History[n][i].methods[f] IN
            /\ m.key \in Key /\ m.controller \in Name
            /\ \A e \in m.expires : e \in Nat
  /\ {CacheTtl, NetTimeout, MaxTime, MaxReceived, MaxRestarts} \subseteq Nat

SameReference(a, b) == a \in Name /\ b \in Name /\ Bare[a] = Bare[b]

(* External: a DID's own document tells which keys its subject holds.  What   *)
(* it says of others' keys, or another's document of them, may be wrong.      *)
ASSUME HolderAssumption ==
  \A n \in Name : \A i \in DOMAIN History[n] : LET didDoc == History[n][i] IN
    \A f \in DOMAIN didDoc.methods : LET m == didDoc.methods[f] IN
      SameReference(didDoc.id, n) /\ SameReference(m.controller, n) => Holder[m.key] = Bare[n]

IdleCall == [pc |-> "idle", doc |-> NoDoc, claim |-> Nobody, at |-> 0,
             answer |-> 0, caller |-> Nobody, outcome |-> "none"]

Outcomes == {"none", "executed", "registered", "anonymous", "limited", "wrongRecipient",
             "proofInvalid", "noDid", "noRecipient", "mismatch", "stale", "malformed"}

(* Types, and: a call that waits for a DID document has not been answered,    *)
(* and one that has been carries a caller exactly when its proof was accepted.*)
TypeOK ==
  /\ now \in 0..MaxTime
  /\ \A i \in DOMAIN bucket : i \in Name /\ bucket[i] \in 0..Burst(PerDid)
  /\ register \in 0..Burst(PerRegister)
  /\ \A c \in Call :
       /\ call[c].pc \in {"idle", "arrived", "resolving", "fetched", "done"}
       /\ call[c].outcome \in Outcomes
       /\ (call[c].pc = "done") = (call[c].outcome # "none")
       /\ call[c].caller # Nobody => call[c].outcome \in {"executed", "registered", "limited"}
       /\ call[c].pc \in {"resolving", "fetched"} => now <= call[c].at + NetTimeout
  /\ \A n \in DOMAIN cache : cache[n].version \in 1..version[n] /\ cache[n].at <= now
  /\ \A n \in Name : Len(until[n]) = version[n] - 1

Init ==
  /\ now = 0 /\ limitsInit
  /\ hasDid \in BOOLEAN
  /\ call = [c \in Call |-> IdleCall]
  /\ cache = [n \in {} |-> 0]
  /\ version = [n \in Name |-> 1]
  /\ until = [n \in Name |-> <<>>]
  /\ owed = [i \in DidOf |-> Burst(PerDid)]
  /\ received = 0 /\ restarts = 0
-----------------------------------------------------------------------------
Enter(c, pc, claim, d) ==
  /\ call[c].pc = "idle"
  /\ received < MaxReceived
  /\ received' = received + 1
  /\ call' = [call EXCEPT ![c] = [IdleCall EXCEPT !.pc = pc, !.doc = d, !.claim = claim]]
  /\ UNCHANGED <<now, bucket, register, owed, still>>

(* POST /trust-tasks makes no claim; a DIDComm message may carry any from; a  *)
(* TSP sender is authenticated.  The mediator's listener, for the latter two, *)
(* runs only when there is an identity.                                       *)
ReceiveHttps(c, d)          == Enter(c, "arrived", Nobody, d)
ReceiveDidcomm(c, claim, d) == hasDid /\ Enter(c, "arrived", claim, d)
ReceiveTsp(c, p, d)         == hasDid /\ Enter(c, "arrived", p, d)

(* A document that came over TSP without its envelope is not executed.        *)
Unwrapped(c) ==
  /\ call[c].pc = "arrived" /\ call[c].claim \in Peer
  /\ call' = [call EXCEPT ![c].pc = "done", ![c].at = now, ![c].outcome = "malformed"]
  /\ UNCHANGED <<now, bucket, register, owed, received, still>>

Answered(c, outcome, caller) ==
  call' = [call EXCEPT ![c].pc = "done", ![c].at = now, ![c].outcome = outcome,
                       ![c].caller = caller]
Refused_AsClaimed(c, outcome) ==
  Answered(c, outcome, call[c].claim) /\ UNCHANGED <<bucket, register, owed>>
Refused(c, outcome) ==
  Answered(c, outcome, Nobody) /\ UNCHANGED <<bucket, register, owed>>

(* The limiter in front of the handlers: push/register draws on one budget,   *)
(* the others on their caller's; an anonymous one is charged to nobody and    *)
(* refused by its handler for want of a proof.                                *)
Dispatch(c, d, caller) ==
  \/ /\ d.kind = "push/register"
     /\ IF register > 0
        THEN AllowRegister /\ Answered(c, "registered", caller) /\ UNCHANGED <<bucket, owed>>
        ELSE Answered(c, "limited", caller) /\ UNCHANGED <<bucket, register, owed>>
  \/ /\ d.kind # "push/register" /\ caller = Nobody
     /\ Refused(c, "anonymous")
  \/ /\ d.kind # "push/register" /\ caller # Nobody
     /\ IF Cells(caller) > 0
        THEN /\ AllowDid(caller) /\ Answered(c, "executed", caller)
             /\ owed' = [owed EXCEPT ![Bare[d.issuer]] = @ - 1]
        ELSE Answered(c, "limited", caller) /\ UNCHANGED <<bucket, owed>>
     /\ UNCHANGED register

(* authenticate, up to the resolution of the issuer: the recipient when there *)
(* is one, then the proof's shape and its binding to the issuer.              *)
WrongRecipient(d) == d.recipient # "none" /\ (~hasDid \/ d.recipient # Gateway)

Bound(d, proof) ==
  /\ d.issuer # Nobody
  /\ proof.suite = "eddsa-jcs-2022" /\ proof.purpose = "authentication"
  /\ proof.did = d.issuer /\ proof.fragment # ""

(* External: the resolver's cache drops an entry at the end of its lifetime.  *)
Expired(n, t) == cache[n].at + CacheTtl <= t

(* key_for_purpose_in: {} or the one key that the document releases.          *)
KeyIn_Uncontrolled(doc, issuer, fragment) ==
  {doc.methods[f].key : f \in {g \in DOMAIN doc.methods :
     /\ g = fragment /\ SameReference(doc.id, issuer)
     /\ doc.methods[g].listed /\ ~doc.methods[g].revoked
     /\ \A e \in doc.methods[g].expires : e > now}}
KeyIn_Revoked(doc, issuer, fragment) ==
  {doc.methods[f].key : f \in {g \in DOMAIN doc.methods :
     /\ g = fragment /\ SameReference(doc.id, issuer)
     /\ SameReference(doc.methods[g].controller, issuer)
     /\ doc.methods[g].listed
     /\ \A e \in doc.methods[g].expires : e > now}}
KeyIn(doc, issuer, fragment) ==
  {doc.methods[f].key : f \in {g \in DOMAIN doc.methods :
     /\ g = fragment /\ SameReference(doc.id, issuer)
     /\ SameReference(doc.methods[g].controller, issuer)
     /\ doc.methods[g].listed /\ ~doc.methods[g].revoked
     /\ \A e \in doc.methods[g].expires : e > now}}

(* strip_scid_src: a caller is known by its DID, however it was spelt.        *)
Identity_AsSpelt(issuer) == issuer
Identity(issuer) == Bare[issuer]

(* verify_issuer and authenticate once the issuer's DID document is there,    *)
(* then check_window and the dispatch: nothing is awaited in between.         *)
Conclude(c, didDoc) ==
  LET d == call[c].doc
      proof == CHOOSE p \in d.proof : TRUE
  IN
  IF \/ didDoc.size > Large
     \/ ~d.intact \/ proof.signer \notin KeyIn(didDoc, proof.did, proof.fragment)
  THEN Refused(c, "proofInvalid")
  ELSE IF ~hasDid THEN Refused(c, "noDid")
  ELSE IF d.recipient = "none" THEN Refused(c, "noRecipient")
  ELSE IF call[c].claim # Nobody /\ ~SameReference(call[c].claim, Identity(d.issuer))
  THEN Refused(c, "mismatch")
  ELSE IF ~Fresh(d, now) THEN Refused(c, "stale")
  ELSE Dispatch(c, d, Identity(d.issuer))

Authenticate(c) ==
  LET d == call[c].doc
      proof == CHOOSE p \in d.proof : TRUE
  IN
  /\ call[c].pc = "arrived"
  /\ \/ /\ WrongRecipient(d)
        /\ Refused(c, "wrongRecipient")
     \/ /\ ~WrongRecipient(d) /\ d.proof = {}
        /\ Dispatch(c, d, Nobody)
     \/ /\ ~WrongRecipient(d) /\ d.proof # {} /\ ~Bound(d, proof)
        /\ Refused(c, "proofInvalid")
     \/ /\ ~WrongRecipient(d) /\ d.proof # {} /\ Bound(d, proof)
        /\ IF proof.did \in DOMAIN cache
           THEN Conclude(c, History[proof.did][cache[proof.did].version])
           ELSE /\ call' = [call EXCEPT ![c].pc = "resolving", ![c].at = now]
                /\ UNCHANGED <<bucket, register, owed>>
  /\ UNCHANGED <<now, received, still>>
-----------------------------------------------------------------------------
(* External: the resolver's fetch.  The issuer's host answers with what it    *)
(* publishes; the answer arrives, is cached and used, or the fetch fails.     *)
Resolving(c) == (CHOOSE p \in call[c].doc.proof : TRUE).did

HostAnswers(c) ==
  /\ call[c].pc = "resolving"
  /\ call' = [call EXCEPT ![c].pc = "fetched", ![c].answer = version[Resolving(c)]]
  /\ UNCHANGED <<now, bucket, register, owed, received, still>>

Resolved(c) ==
  /\ call[c].pc = "fetched"
  /\ cache' = [n \in DOMAIN cache \cup {Resolving(c)} |->
       IF n = Resolving(c) THEN [version |-> call[c].answer, at |-> now] ELSE cache[n]]
  /\ Conclude(c, History[Resolving(c)][call[c].answer])
  /\ UNCHANGED <<now, received, hasDid, version, until, restarts>>

ResolutionFails(c) ==
  /\ call[c].pc \in {"resolving", "fetched"}
  /\ Refused(c, "proofInvalid")
  /\ UNCHANGED <<now, received, still>>

(* External: a DID's subject publishes the next version of its document.      *)
Publish(n) ==
  /\ version[n] < Len(History[n])
  /\ version' = [version EXCEPT ![n] = @ + 1]
  /\ until' = [until EXCEPT ![n] = Append(@, now)]
  /\ UNCHANGED <<now, bucket, register, owed, hasDid, call, cache, received, restarts>>

Finish(c) ==
  /\ call[c].pc = "done"
  /\ call' = [call EXCEPT ![c] = IdleCall]
  /\ UNCHANGED <<now, bucket, register, owed, received, still>>

(* The maintenance timer of main. *)
ShrinkLimits ==
  /\ \E i \in DOMAIN bucket : Droppable(bucket[i])
  /\ Shrink
  /\ UNCHANGED <<now, owed, call, received, still>>

(* Nothing but the fetch is awaited, and that ends by its timeout.            *)
Tick ==
  /\ now < MaxTime
  /\ \A c \in Call : call[c].pc \in {"idle", "resolving", "fetched"}
  /\ \A c \in Call : call[c].pc # "idle" => now < call[c].at + NetTimeout
  /\ now' = now + 1
  /\ Refill
  /\ owed' = [i \in DidOf |-> Refilled(owed[i], PerDid)]
  /\ cache' = Restrict(cache, {n \in DOMAIN cache : ~Expired(n, now + 1)})
  /\ UNCHANGED <<hasDid, call, version, until, received, restarts>>

(* The process ends, in whatever way, and another starts. *)
Restart ==
  /\ restarts < MaxRestarts
  /\ restarts' = restarts + 1
  /\ call' = [c \in Call |-> IdleCall]
  /\ cache' = [n \in {} |-> 0]
  /\ bucket' = [i \in {} |-> 0] /\ register' = Burst(PerRegister)
  /\ owed' = [i \in DidOf |-> Burst(PerDid)]
  /\ UNCHANGED <<now, hasDid, version, until, received>>

Next ==
  \/ \E c \in Call :
       \/ \E d \in Doc :
            \/ ReceiveHttps(c, d)
            \/ \E claim \in Claim : ReceiveDidcomm(c, claim, d)
            \/ \E p \in Peer : ReceiveTsp(c, p, d)
       \/ Unwrapped(c) \/ Authenticate(c) \/ HostAnswers(c) \/ Resolved(c)
       \/ ResolutionFails(c) \/ Finish(c)
  \/ \E n \in Name : Publish(n)
  \/ ShrinkLimits \/ Tick \/ Restart

Spec == Init /\ [][Next]_vars

-----------------------------------------------------------------------------
(* What is executed was said by its caller and to this gateway: the holder of *)
(* the signing key is the caller, the document is intact and addressed to the *)
(* gateway, and a transport's claim can contradict but never replace that.    *)
(* (intake.rs:62, tsp.rs:26 "Accepting grants nothing".)                      *)
ExecutesOnlyProven ==
  \A c \in Call : call[c].outcome = "executed" =>
    LET d == call[c].doc IN
    /\ d.intact /\ d.recipient = Gateway /\ d.proof # {}
    /\ \A proof \in d.proof : Holder[proof.signer] = call[c].caller
    /\ call[c].claim # Nobody => Bare[call[c].claim] = call[c].caller

(* And the key was good: its holder's DID document authorised it, neither     *)
(* revoked nor expired, within the cache's lifetime plus a resolution of the  *)
(* moment it was used. So a rotation takes effect by then. (proof.rs:100)     *)
PublishedWithin(n, i, from, to) ==
  /\ i = 1 \/ (i <= Len(until[n]) + 1 /\ until[n][i - 1] <= to)
  /\ i > Len(until[n]) \/ until[n][i] >= from

Authorises(didDoc, key, holder, t) ==
  \E f \in DOMAIN didDoc.methods : LET m == didDoc.methods[f] IN
    /\ m.key = key /\ Bare[m.controller] = holder /\ m.listed /\ ~m.revoked
    /\ \A e \in m.expires : e > t

AuthorisedRecently ==
  \A c \in Call : call[c].outcome = "executed" =>
    LET n == call[c].doc.issuer  t == call[c].at IN
    \A proof \in call[c].doc.proof : \E i \in 1..Len(History[n]) :
      /\ PublishedWithin(n, i, t - (CacheTtl + NetTimeout), t)
      /\ Authorises(History[n][i], proof.signer, Bare[n], t)

(* Every DID is charged for exactly what was executed in its name, under all  *)
(* its spellings together, for nothing that others sent, and as if no bucket  *)
(* were ever dropped.  (limits.rs:171 "free of policy effect"; api.rs:319.)   *)
BudgetsFollowIdentity == \A i \in DidOf : Cells(i) = owed[i]
=============================================================================
