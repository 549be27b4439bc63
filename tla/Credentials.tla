---------------------------- MODULE Credentials -----------------------------
(* The tokens that authorise a push (sender.rs): the provider token APNs is   *)
(* given, signed here, and the access token FCM is given, exchanged with the  *)
(* token service.  Each is cached behind a mutex and shared by every wake.    *)
(* A caller reads the clock before it waits for the mutex, and what it finds  *)
(* there can be newer than the time it read.                                  *)
EXTENDS Integers

CONSTANTS
  Call,          \* wakes being sent
  NoCall,
  ApnsRefresh,   \* APNS_TOKEN_REFRESH_SECS (40 min)
  FcmRefresh,    \* FCM_TOKEN_REFRESH_SECS (50 min)
  ApnsLifetime,  \* how long APNs takes a provider token (1 h)
  Lifetimes,     \* the expires_in values the token service grants (~1 h, or less)
  SendTimeout,   \* WAKE_SEND_TIMEOUT (15 s)
  MaxTime        \* bound of the model: the last second

(* The whole of a send, the wait for its token included, is under the timeout. *)
ASSUME CredentialsAssumption ==
  /\ ApnsRefresh \in Nat \ {0} /\ FcmRefresh \in Nat \ {0} /\ ApnsLifetime \in Nat
  /\ SendTimeout \in Nat /\ MaxTime \in Nat /\ Lifetimes \subseteq Nat \ {0}
  /\ NoCall \notin Call
  /\ ApnsRefresh + SendTimeout <= ApnsLifetime

(* A lifetime that leaves room for the refresh and for a send. *)
Lasting(ttl) == FcmRefresh + SendTimeout <= ttl

VARIABLES
  now,       \* the wall clock, in seconds
  provider,  \* ApnsSender::token: {} or the CachedToken, by its iat
  access,    \* FcmSender::token: {} or the CachedAccessToken
  holder,    \* the call holding FcmSender::token, a tokio mutex
  call       \* Call -> its progress

vars == <<now, provider, access, holder, call>>

Access == [obtainedAt : 0..MaxTime, ttl : Lifetimes, until : Nat]
Progress == [pc : {"idle", "sign", "wait", "exchange", "apns", "fcm"},
             at : 0..MaxTime, until : Nat, ttl : Nat]
IdleCall == [pc |-> "idle", at |-> 0, until |-> 0, ttl |-> 0]

(* Types, and: the mutex is held by a call that is exchanging, so a caller    *)
(* that is timed out or dropped in an exchange does not wedge the cache.      *)
TypeOK ==
  /\ now \in 0..MaxTime
  /\ provider \in {{}} \cup {{t} : t \in 0..MaxTime}
  /\ access \subseteq Access /\ \A s, t \in access : s = t
  /\ call \in [Call -> Progress]
  /\ \A c \in Call : (call[c].pc = "exchange") = (holder = c)
  /\ holder \in Call \cup {NoCall}

Init ==
  /\ now = 0
  /\ provider = {}
  /\ access = {}
  /\ holder = NoCall
  /\ call = [c \in Call |-> IdleCall]

(* now.saturating_sub(then) *)
Since_Wrapping(t, then) == (t - then) % (2 * MaxTime + 1)
Since(t, then) == IF t < then THEN 0 ELSE t - then

(* A send begins: the clock is read, then the mutex is waited for. *)
Begin(c, pc) ==
  /\ call[c].pc = "idle"
  /\ call' = [call EXCEPT ![c] = [IdleCall EXCEPT !.pc = pc, !.at = now]]
  /\ UNCHANGED <<now, provider, access, holder>>

(* The push is sent under a token of that lifetime, good until then. *)
Send(c, pc, until, ttl) ==
  call' = [call EXCEPT ![c] =
             [pc |-> pc, at |-> call[c].at, until |-> until, ttl |-> ttl]]
-----------------------------------------------------------------------------
(* provider_token, under its mutex: reuse the token or sign another. *)
Sign(c) ==
  LET reusable == {iat \in provider : Since(call[c].at, iat) < ApnsRefresh}
      token    == IF reusable # {} THEN reusable ELSE {call[c].at}
  IN
  /\ call[c].pc = "sign"
  /\ provider' = token
  /\ \E iat \in token : Send(c, "apns", iat + ApnsLifetime, ApnsLifetime)
  /\ UNCHANGED <<now, access, holder>>
-----------------------------------------------------------------------------
(* access_token: with the mutex, reuse the token or go and exchange one. *)
Window_Lifetime(t) == t.ttl
Window(t) == IF t.ttl < FcmRefresh THEN t.ttl ELSE FcmRefresh

Usable(c) == {t \in access : Since(call[c].at, t.obtainedAt) < Window(t)}

Acquire(c) ==
  /\ call[c].pc = "wait"
  /\ holder = NoCall
  /\ \/ /\ \E t \in Usable(c) : Send(c, "fcm", t.until, t.ttl)
        /\ UNCHANGED holder
     \/ /\ Usable(c) = {}
        /\ holder' = c
        /\ call' = [call EXCEPT ![c].pc = "exchange"]
  /\ UNCHANGED <<now, provider, access>>

(* The token service grants a token, good for ttl from now on.  It is dated   *)
(* by the clock the caller read before it asked.                              *)
Granted(c, ttl) ==
  /\ call[c].pc = "exchange"
  /\ access' = {[obtainedAt |-> call[c].at, ttl |-> ttl, until |-> now + ttl]}
  /\ holder' = NoCall
  /\ Send(c, "fcm", now + ttl, ttl)
  /\ UNCHANGED <<now, provider>>

(* The mutex a call holds is free once the call ends. *)
Released_Kept(c) == holder
Released(c) == IF holder = c THEN NoCall ELSE holder

(* The exchange fails, or the send ends: answered by the service, timed out,  *)
(* or dropped with its handler, wherever it is.                               *)
End(c) ==
  /\ call[c].pc # "idle"
  /\ holder' = Released(c)
  /\ call' = [call EXCEPT ![c] = IdleCall]
  /\ UNCHANGED <<now, provider, access>>
-----------------------------------------------------------------------------
(* Time passes; the timeout ends every send that has run for SendTimeout. *)
Tick ==
  /\ now < MaxTime
  /\ \A c \in Call : call[c].pc # "idle" => now - call[c].at < SendTimeout
  /\ now' = now + 1
  /\ UNCHANGED <<provider, access, holder, call>>

Next ==
  \/ \E c \in Call :
       \/ Begin(c, "sign") \/ Begin(c, "wait")
       \/ Sign(c)
       \/ Acquire(c)
       \/ \E ttl \in Lifetimes : Granted(c, ttl)
       \/ End(c)
  \/ Tick

Spec == Init /\ [][Next]_vars
-----------------------------------------------------------------------------
(* No push is under way with a token its service no longer takes: the refresh *)
(* leaves room for a caller that read the clock and then waited (sender.rs,   *)
(* "40 minutes sits safely inside that window", "a little before its ~1h      *)
(* expiry").  A token granted for less than a refresh and a timeout can       *)
(* expire under a send, but was good when its sender read the clock.          *)
NoStaleToken ==
  \A c \in Call : call[c].pc \in {"apns", "fcm"} =>
    /\ call[c].at <= call[c].until
    /\ call[c].pc = "apns" \/ Lasting(call[c].ttl) => now <= call[c].until

(* Tokens are not regenerated faster than the refresh, however many callers   *)
(* find an old one at once and whatever time each of them read (sender.rs,    *)
(* "refuses tokens regenerated more than once per ~20 minutes").              *)
RefreshesSpaced ==
  [][/\ \A old \in provider, new \in provider' : new # old => new >= old + ApnsRefresh
     /\ \A old \in access, new \in access' :
          new # old => new.obtainedAt >= old.obtainedAt + Window(old)]_vars
=============================================================================
