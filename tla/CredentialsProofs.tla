------------------------- MODULE CredentialsProofs --------------------------
(* Proofs about Credentials: no push runs on under a token its service no     *)
(* longer takes, and tokens are not regenerated faster than the refresh, for  *)
(* any number of callers and any lifetimes the assumption allows.             *)
(*                                                                            *)
(* A call's token outlives the call (Covered) because the token was good for  *)
(* a whole timeout after the time the call read, if it lasts that long; that  *)
(* needs a cached token to be dated no later than it was granted (Dated), and *)
(* a call never to outlive its timeout (Timely).  A caller that exchanges     *)
(* found nothing usable, and nobody else can have changed the cache since     *)
(* (Needed): it holds the mutex.                                              *)
EXTENDS Credentials, TLAPS

(* A token good at a time, and for a whole timeout from then if it lasts.     *)
Room(pc, at, until, ttl) ==
  at <= until /\ (pc = "apns" \/ Lasting(ttl) => at + SendTimeout <= until)

Timely  == \A c \in Call : call[c].pc # "idle" =>
             call[c].at <= now /\ now <= call[c].at + SendTimeout
Dated   == \A t \in access : t.obtainedAt + t.ttl <= t.until
Covered == \A c \in Call : call[c].pc \in {"apns", "fcm"} =>
             Room(call[c].pc, call[c].at, call[c].until, call[c].ttl)
Needed  == \A c \in Call : call[c].pc = "exchange" => Usable(c) = {}

IInv == TypeOK /\ Timely /\ Dated /\ Covered /\ Needed

LEMMA InitInv == Init => IInv
<1> SUFFICES ASSUME Init PROVE IInv
  OBVIOUS
<1> USE CredentialsAssumption DEF Init, IdleCall
<1>1. call \in [Call -> Progress]
  BY DEF Progress
<1>2. TypeOK
  BY <1>1 DEF TypeOK
<1>3. Timely /\ Dated /\ Covered /\ Needed
  BY DEF Timely, Dated, Covered, Needed
<1>4. QED
  BY <1>2, <1>3 DEF IInv

(* What the start of a send leaves behind. *)
LEMMA Sending ==
  ASSUME call \in [Call -> Progress], NEW c \in Call, NEW pc \in {"apns", "fcm"},
         NEW until \in Nat, NEW ttl \in Nat, Send(c, pc, until, ttl)
  PROVE  /\ call' \in [Call -> Progress]
         /\ call'[c].pc = pc /\ call'[c].at = call[c].at /\ call'[c].until = until
         /\ call'[c].ttl = ttl
         /\ \A b \in Call \ {c} : call'[b] = call[b]
<1>1. call[c].at \in 0..MaxTime
  BY DEF Progress
<1>2. [pc |-> pc, at |-> call[c].at, until |-> until, ttl |-> ttl] \in Progress
  BY <1>1 DEF Progress
<1>3. QED
  BY <1>2 DEF Send

(* Every step keeps the types, and the mutex with the call that exchanges.    *)
LEMMA NextType == TypeOK /\ [Next]_vars => TypeOK'
<1> SUFFICES ASSUME TypeOK, [Next]_vars PROVE TypeOK'
  OBVIOUS
<1> USE CredentialsAssumption DEF TypeOK
<1>1. ASSUME NEW c \in Call, NEW pc \in {"sign", "wait"}, Begin(c, pc) PROVE TypeOK'
  BY <1>1 DEF Begin, IdleCall, Progress
<1>2. ASSUME NEW c \in Call, Sign(c) PROVE TypeOK'
  <2>1. call[c].at \in 0..MaxTime
    BY DEF Progress
  <2>2. PICK iat \in 0..MaxTime :
          provider' = {iat} /\ Send(c, "apns", iat + ApnsLifetime, ApnsLifetime)
    BY <1>2, <2>1 DEF Sign
  <2>3. iat + ApnsLifetime \in Nat
    OBVIOUS
  <2>4. /\ call' \in [Call -> Progress] /\ call'[c].pc = "apns"
        /\ \A b \in Call \ {c} : call'[b] = call[b]
    BY <2>2, <2>3, Sending
  <2>5. QED
    BY <1>2, <2>2, <2>4 DEF Sign
<1>3. ASSUME NEW c \in Call, Acquire(c) PROVE TypeOK'
  <2>1. ASSUME NEW t \in Usable(c), Send(c, "fcm", t.until, t.ttl), UNCHANGED holder PROVE TypeOK'
    <3>1. t.until \in Nat /\ t.ttl \in Nat
      BY DEF Usable, Access
    <3>2. /\ call' \in [Call -> Progress] /\ call'[c].pc = "fcm"
          /\ \A b \in Call \ {c} : call'[b] = call[b]
      BY <2>1, <3>1, Sending
    <3>3. QED
      BY <1>3, <2>1, <3>2 DEF Acquire
  <2>2. CASE holder' = c /\ call' = [call EXCEPT ![c].pc = "exchange"]
    BY <1>3, <2>2 DEF Acquire, Progress
  <2>3. QED
    BY <1>3, <2>1, <2>2 DEF Acquire
<1>4. ASSUME NEW c \in Call, NEW ttl \in Lifetimes, Granted(c, ttl) PROVE TypeOK'
  <2>1. ttl \in Nat /\ now + ttl \in Nat /\ call[c].at \in 0..MaxTime
    <3>1. ttl \in Nat
      BY CredentialsAssumption
    <3>2. call[c] \in Progress
      OBVIOUS
    <3>3. QED
      BY <3>1, <3>2 DEF Progress
  <2>2. access' \subseteq Access /\ \A s, t \in access' : s = t
    BY <1>4, <2>1 DEF Granted, Access
  <2>3. Send(c, "fcm", now + ttl, ttl) /\ holder = c /\ holder' = NoCall
    BY <1>4 DEF Granted
  <2>4. /\ call' \in [Call -> Progress] /\ call'[c].pc = "fcm"
        /\ \A b \in Call \ {c} : call'[b] = call[b]
    BY <2>1, <2>3, Sending
  <2>5. \A b \in Call : (call'[b].pc = "exchange") = (holder' = b)
    BY <2>3, <2>4
  <2>6. QED
    BY <1>4, <2>2, <2>4, <2>5 DEF Granted
<1>5. ASSUME NEW c \in Call, End(c) PROVE TypeOK'
  BY <1>5 DEF End, Released, IdleCall, Progress
<1>6. CASE Tick
  BY <1>6 DEF Tick
<1>7. CASE UNCHANGED vars
  BY <1>7 DEF vars
<1>8. QED
  BY <1>1, <1>2, <1>3, <1>4, <1>5, <1>6, <1>7 DEF Next

(* The tokens a send may start under. *)
LEMMA Starts ==
  ASSUME TypeOK, Dated, NEW c \in Call
  PROVE  /\ Sign(c) => \E u \in Nat : /\ Send(c, "apns", u, ApnsLifetime)
                                      /\ Room("apns", call[c].at, u, ApnsLifetime)
         /\ \A t \in Usable(c) : /\ t.until \in Nat /\ t.ttl \in Nat
                                 /\ Room("fcm", call[c].at, t.until, t.ttl)
<1> USE CredentialsAssumption DEF TypeOK, Since
<1>1. call[c].at \in 0..MaxTime
  BY DEF Progress
<1>2. ASSUME Sign(c)
      PROVE  \E u \in Nat : /\ Send(c, "apns", u, ApnsLifetime)
                            /\ Room("apns", call[c].at, u, ApnsLifetime)
  <2>1. PICK iat \in 0..MaxTime :
          Send(c, "apns", iat + ApnsLifetime, ApnsLifetime) /\ Since(call[c].at, iat) < ApnsRefresh
    BY <1>1, <1>2 DEF Sign
  <2>2. Room("apns", call[c].at, iat + ApnsLifetime, ApnsLifetime) /\ iat + ApnsLifetime \in Nat
    BY <1>1, <2>1 DEF Room
  <2>3. QED
    BY <2>1, <2>2
<1>3. ASSUME NEW t \in Usable(c)
      PROVE  /\ t.until \in Nat /\ t.ttl \in Nat
             /\ Room("fcm", call[c].at, t.until, t.ttl)
  <2>1. t \in access /\ t.obtainedAt \in Nat /\ t.ttl \in Nat \ {0} /\ t.until \in Nat
    <3>1. t \in access /\ t \in Access
      BY DEF Usable
    <3>2. t.obtainedAt \in 0..MaxTime /\ t.ttl \in Lifetimes /\ t.until \in Nat
      BY <3>1 DEF Access
    <3>3. t.ttl \in Nat \ {0}
      BY <3>2
    <3>4. t.obtainedAt \in Nat
      BY <3>2
    <3>5. QED
      BY <3>1, <3>2, <3>3, <3>4
  <2>2. Window(t) <= t.ttl /\ Window(t) <= FcmRefresh /\ Window(t) \in Nat
    BY <2>1 DEF Window
  <2>3. Since(call[c].at, t.obtainedAt) < Window(t)
    BY DEF Usable
  <2>4. t.obtainedAt + t.ttl <= t.until
    BY <2>1 DEF Dated
  <2>5. call[c].at <= t.until
    BY <1>1, <2>1, <2>2, <2>3, <2>4
  <2>6. ASSUME Lasting(t.ttl) PROVE call[c].at + SendTimeout <= t.until
    BY <1>1, <2>1, <2>2, <2>3, <2>4, <2>6 DEF Lasting
  <2>7. QED
    BY <2>1, <2>5, <2>6 DEF Room, Lasting
<1>4. QED
  BY <1>2, <1>3

(* A call reads the clock as it begins, time waits for its timeout, and a     *)
(* send only starts under a token good for the whole of it.                   *)
LEMMA NextTimed ==
  TypeOK /\ Timely /\ Dated /\ Covered /\ [Next]_vars => Timely' /\ Covered'
<1> SUFFICES ASSUME TypeOK, Timely, Dated, Covered, [Next]_vars PROVE Timely' /\ Covered'
  OBVIOUS
<1> USE CredentialsAssumption DEF TypeOK, Timely, Covered
<1>0. \A b \in Call : call[b].at \in 0..MaxTime /\ call[b].until \in Nat
  BY DEF Progress
<1>1. ASSUME NEW c \in Call, NEW pc \in {"sign", "wait"}, Begin(c, pc)
      PROVE  Timely' /\ Covered'
  BY <1>0, <1>1 DEF Begin, IdleCall
<1>2. ASSUME NEW c \in Call, NEW pc \in {"apns", "fcm"}, NEW u \in Nat, NEW l \in Nat,
             Send(c, pc, u, l), call[c].pc # "idle", Room(pc, call[c].at, u, l), UNCHANGED now
      PROVE  Timely' /\ Covered'
  <2>1. /\ call'[c].pc = pc /\ call'[c].at = call[c].at /\ call'[c].until = u
        /\ call'[c].ttl = l
        /\ \A b \in Call \ {c} : call'[b] = call[b]
    BY <1>2, Sending
  <2>2. QED
    BY <1>0, <1>2, <2>1
<1>3. ASSUME NEW c \in Call, Sign(c) PROVE Timely' /\ Covered'
  <2>1. PICK u \in Nat : /\ Send(c, "apns", u, ApnsLifetime)
                         /\ Room("apns", call[c].at, u, ApnsLifetime)
    BY <1>3, Starts
  <2>2. QED
    BY <1>2, <1>3, <2>1 DEF Sign
<1>4. ASSUME NEW c \in Call, Acquire(c) PROVE Timely' /\ Covered'
  <2>1. ASSUME NEW t \in Usable(c), Send(c, "fcm", t.until, t.ttl) PROVE Timely' /\ Covered'
    <3>1. /\ t.until \in Nat /\ t.ttl \in Nat
          /\ Room("fcm", call[c].at, t.until, t.ttl)
      BY Starts
    <3>2. QED
      BY <1>2, <1>4, <2>1, <3>1 DEF Acquire
  <2>2. CASE call' = [call EXCEPT ![c].pc = "exchange"]
    BY <1>0, <1>4, <2>2 DEF Acquire
  <2>3. QED
    BY <1>4, <2>1, <2>2 DEF Acquire
<1>5. ASSUME NEW c \in Call, NEW ttl \in Lifetimes, Granted(c, ttl)
      PROVE  Timely' /\ Covered'
  <2>1. ttl \in Nat /\ now \in Nat /\ now + ttl \in Nat
    <3>1. ttl \in Nat
      OBVIOUS
    <3>2. now \in Nat
      OBVIOUS
    <3>3. QED
      BY <3>1, <3>2
  <2>2. Room("fcm", call[c].at, now + ttl, ttl)
    BY <1>0, <1>5, <2>1 DEF Granted, Room, Lasting
  <2>3. QED
    BY <1>2, <1>5, <2>1, <2>2 DEF Granted
<1>6. ASSUME NEW c \in Call, End(c) PROVE Timely' /\ Covered'
  BY <1>0, <1>6 DEF End, IdleCall
<1>7. CASE Tick
  BY <1>0, <1>7 DEF Tick
<1>8. CASE UNCHANGED vars
  BY <1>8 DEF vars
<1>9. QED
  BY <1>1, <1>3, <1>4, <1>5, <1>6, <1>7, <1>8 DEF Next

(* Only a grant changes the cache, and it dates the token before now.         *)
LEMMA NextDated == TypeOK /\ Timely /\ Dated /\ [Next]_vars => Dated'
<1> SUFFICES ASSUME TypeOK, Timely, Dated, [Next]_vars PROVE Dated'
  OBVIOUS
<1> USE CredentialsAssumption DEF TypeOK, Progress, Timely, Dated
<1>1. ASSUME NEW c \in Call, NEW ttl \in Lifetimes, Granted(c, ttl) PROVE Dated'
  <2>1. call[c].at <= now /\ call[c].at \in 0..MaxTime /\ ttl \in Nat
    BY <1>1 DEF Granted
  <2>2. QED
    BY <1>1, <2>1 DEF Granted
<1>2. CASE UNCHANGED access
  BY <1>2
<1>3. QED
  BY <1>1, <1>2 DEF Next, Begin, Sign, Acquire, End, Tick, vars

(* A caller that exchanges holds the mutex, and only it changes the cache.    *)
LEMMA NextNeeded == TypeOK /\ Needed /\ [Next]_vars => Needed'
<1> SUFFICES ASSUME TypeOK, Needed, [Next]_vars,
                    NEW b \in Call, call'[b].pc = "exchange"
             PROVE  Usable(b)' = {}
  BY DEF Needed
<1> USE CredentialsAssumption DEF TypeOK, Needed, Usable
<1>1. ASSUME call[b].pc = "exchange", UNCHANGED access, call'[b].at = call[b].at
      PROVE  Usable(b)' = {}
  BY <1>1
<1>2. ASSUME NEW c \in Call, NEW pc \in {"sign", "wait"}, Begin(c, pc) PROVE Usable(b)' = {}
  BY <1>1, <1>2 DEF Begin, IdleCall
<1>3. ASSUME NEW c \in Call, NEW pc \in {"apns", "fcm"}, NEW u \in Nat, NEW l \in Nat,
             Send(c, pc, u, l)
      PROVE  call'[b] = call[b]
  <2>1. call'[c].pc = pc /\ \A a \in Call \ {c} : call'[a] = call[a]
    BY <1>3, Sending
  <2>2. QED
    BY <2>1
<1>4. ASSUME NEW c \in Call, Sign(c) PROVE Usable(b)' = {}
  <2>1. PICK iat \in 0..MaxTime : Send(c, "apns", iat + ApnsLifetime, ApnsLifetime)
    BY <1>4 DEF Sign, Progress
  <2>2. call'[b] = call[b]
    BY <1>3, <2>1
  <2>3. QED
    BY <1>1, <1>4, <2>2 DEF Sign
<1>5. ASSUME NEW c \in Call, Acquire(c) PROVE Usable(b)' = {}
  <2>1. ASSUME NEW t \in Usable(c), Send(c, "fcm", t.until, t.ttl) PROVE Usable(b)' = {}
    <3>1. t.until \in Nat /\ t.ttl \in Nat
      BY DEF Access
    <3>2. call'[b] = call[b]
      BY <1>3, <2>1, <3>1
    <3>3. QED
      BY <1>1, <1>5, <3>2 DEF Acquire
  <2>2. CASE Usable(c) = {} /\ call' = [call EXCEPT ![c].pc = "exchange"]
    <3>1. call'[b].at = call[b].at /\ (b = c \/ call[b].pc = "exchange")
      BY <2>2 DEF Progress
    <3>2. QED
      BY <1>1, <1>5, <2>2, <3>1 DEF Acquire
  <2>3. QED
    BY <1>5, <2>1, <2>2 DEF Acquire
<1>6. ASSUME NEW c \in Call, NEW ttl \in Lifetimes, Granted(c, ttl) PROVE Usable(b)' = {}
  <2>1. now + ttl \in Nat /\ holder = c
    BY <1>6 DEF Granted
  <2>2. call'[b] = call[b] /\ call'[c].pc = "fcm"
    <3>1. Send(c, "fcm", now + ttl, ttl)
      BY <1>6 DEF Granted
    <3>2. call'[c].pc = "fcm"
      BY <2>1, <3>1, Sending
    <3>3. QED
      BY <1>3, <2>1, <3>1, <3>2
  <2>3. b # c /\ call[b].pc = "exchange"
    BY <2>2
  <2>4. QED
    BY <2>1, <2>3
<1>7. ASSUME NEW c \in Call, End(c) PROVE Usable(b)' = {}
  BY <1>1, <1>7 DEF End, IdleCall
<1>8. CASE Tick \/ UNCHANGED vars
  BY <1>1, <1>8 DEF Tick, vars
<1>9. QED
  BY <1>2, <1>4, <1>5, <1>6, <1>7, <1>8 DEF Next

(* The strengthened invariant holds of every behaviour of the token caches.   *)
THEOREM Invariance == Spec => []IInv
<1>1. IInv /\ [Next]_vars => IInv'
  BY NextType, NextTimed, NextDated, NextNeeded DEF IInv
<1>2. QED
  BY InitInv, <1>1, PTL DEF Spec

(* The caches and their callers are always of their types, and FCM's mutex is *)
(* held exactly by the call that is exchanging (sender.rs, access_token).     *)
THEOREM TypeCorrect == Spec => []TypeOK
<1>1. IInv => TypeOK
  BY DEF IInv
<1>2. QED
  BY Invariance, <1>1, PTL

(* No push is under way with a token its service no longer takes, for any     *)
(* timeout and refresh that leave room for each other within the lifetime;    *)
(* one with less room was good when its sender read the clock.                *)
THEOREM TokensAreFresh == Spec => []NoStaleToken
<1>1. IInv => NoStaleToken
  <2> SUFFICES ASSUME IInv, NEW c \in Call, call[c].pc \in {"apns", "fcm"}
               PROVE  /\ call[c].at <= call[c].until
                      /\ call[c].pc = "apns" \/ Lasting(call[c].ttl) => now <= call[c].until
    BY DEF NoStaleToken
  <2>1. /\ call[c].at \in 0..MaxTime /\ call[c].until \in Nat /\ now \in 0..MaxTime
        /\ SendTimeout \in Nat /\ MaxTime \in Nat
    BY CredentialsAssumption DEF IInv, TypeOK, Progress
  <2>2. /\ now <= call[c].at + SendTimeout /\ call[c].at <= call[c].until
        /\ call[c].pc = "apns" \/ Lasting(call[c].ttl) => call[c].at + SendTimeout <= call[c].until
    BY DEF IInv, Timely, Covered, Room
  <2>3. QED
    BY <2>1, <2>2
<1>2. QED
  BY Invariance, <1>1, PTL

(* However many callers find an old token at once, one replaces it, and not   *)
(* before the refresh: the others find the new one under the mutex.           *)
THEOREM RefreshesAreSpaced == Spec => RefreshesSpaced
<1> DEFINE Spaced ==
      /\ \A old \in provider, new \in provider' : new # old => new >= old + ApnsRefresh
      /\ \A old \in access, new \in access' :
           new # old => new.obtainedAt >= old.obtainedAt + Window(old)
<1>1. IInv /\ [Next]_vars => [Spaced]_vars
  <2> SUFFICES ASSUME IInv, Next PROVE Spaced
    OBVIOUS
  <2> USE CredentialsAssumption DEF IInv, TypeOK
  <2>0. \A s, t \in provider : s = t
    OBVIOUS
  <2>1. ASSUME NEW c \in Call, Sign(c) PROVE Spaced
    <3>1. call[c].at \in 0..MaxTime
      BY DEF Progress
    <3>2. ASSUME NEW old \in provider, NEW new \in provider', new # old
          PROVE  new >= old + ApnsRefresh
      <4>1. old \in 0..MaxTime
        OBVIOUS
      <4>2. new = call[c].at /\ ~(Since(call[c].at, old) < ApnsRefresh)
        BY <2>0, <2>1, <3>2 DEF Sign
      <4>3. QED
        BY <3>1, <4>1, <4>2 DEF Since
    <3>3. UNCHANGED access
      BY <2>1 DEF Sign
    <3>4. QED
      BY <3>2, <3>3
  <2>2. ASSUME NEW c \in Call, NEW ttl \in Lifetimes, Granted(c, ttl) PROVE Spaced
    <3>1. ASSUME NEW old \in access, NEW new \in access'
          PROVE  new.obtainedAt >= old.obtainedAt + Window(old)
      <4>1. new.obtainedAt = call[c].at /\ call[c].at \in 0..MaxTime
        BY <2>2, <3>1 DEF Granted, Progress
      <4>2. old.obtainedAt \in 0..MaxTime /\ old.ttl \in Lifetimes
        BY <3>1 DEF Access
      <4>3. old.ttl \in Nat \ {0}
        BY <4>2
      <4>4. ~(Since(call[c].at, old.obtainedAt) < Window(old)) /\ Window(old) \in Nat \ {0}
        BY <2>2, <3>1, <4>3 DEF Granted, Needed, Usable, Window
      <4>5. QED
        BY <4>1, <4>2, <4>4 DEF Since
    <3>2. UNCHANGED provider
      BY <2>2 DEF Granted
    <3>3. QED
      BY <2>0, <3>1, <3>2
  <2>3. CASE UNCHANGED <<provider, access>>
    BY <2>0, <2>3
  <2>4. QED
    BY <2>1, <2>2, <2>3 DEF Next, Begin, Acquire, End, Tick
<1>2. QED
  BY Invariance, <1>1, PTL DEF Spec, RefreshesSpaced
=============================================================================
