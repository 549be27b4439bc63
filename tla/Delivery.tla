------------------------------ MODULE Delivery ------------------------------
(* From a registration to a push service's answer, across restarts: what a    *)
(* process accepts and reloads under its configuration (types.rs, store.rs:   *)
(* open_with_limits, main.rs), which sender a wake goes to, what that sender  *)
(* connects to, and what it makes of the answer (sender.rs, api.rs).  Who may *)
(* wake is Gateway, when the snapshot is written is Snapshot.                 *)
EXTENDS Egress, FiniteSets, Functions

CONSTANTS
  Handle,         \* handles that can be drawn (128 random bits: never twice)
  Registration,   \* what a push/register can ask for
  Config,         \* configurations a start can find: Egress's, with senders and echo
  Answers,        \* sets of addresses a name can resolve to
  Call, NoHandle, NoAddress,
  Old,            \* the snapshot an older build left: Handle -> Registration
  MaxRestarts     \* bound of the model

Platform == {"webpush", "apns", "fcm"}

(* A configuration whose senders all initialised. *)
ASSUME DeliveryAssumption ==
  /\ \A c \in Config : c.senders \subseteq Platform /\ c.echo \in BOOLEAN
  /\ \A r \in Registration : r.platform \in Platform
  /\ \E S \in SUBSET Handle : Old \in [S -> Registration]
  /\ NoHandle \notin Handle
  /\ \A A \in Answers : A \subseteq Address4 \cup Address6
  /\ NoAddress \notin UNION Answers
  /\ MaxRestarts \in Nat

VARIABLES
  config,    \* of the running process
  store,     \* handle -> registration
  disk,      \* the snapshot: handle -> registration
  call,      \* the wakes being sent
  drawn,     \* history: handle -> the registration it was issued for
  durable,   \* history: handles that have been in the snapshot
  dropped,   \* history: handles a start did not load
  gone,      \* registrations whose push service has given up their token
  restarts

vars == <<config, store, disk, call, drawn, durable, dropped, gone, restarts>>

Outcome == {"refused", "delivered", "unregistered", "transient"}
IdleCall == [pc |-> "idle", handle |-> NoHandle, sender |-> "none",
             addr |-> NoAddress, accepted |-> FALSE, outcome |-> "none"]

Address == UNION Answers
CallState == [pc : {"idle", "resolving", "dialled", "done"},
              handle : Handle \cup {NoHandle}, sender : Platform \cup {"echo", "none"},
              addr : Address \cup {NoAddress}, accepted : BOOLEAN,
              outcome : Outcome \cup {"none"}]

(* Types, and: an address is held exactly while a connection is open, and     *)
(* nothing is stored that was not drawn.                                      *)
TypeOK ==
  /\ config \in Config /\ Starts(config)
  /\ call \in [Call -> CallState]
  /\ \A c \in Call : (call[c].pc = "dialled") = (call[c].addr # NoAddress)
  /\ \A c \in Call : (call[c].pc = "idle") = (call[c].handle = NoHandle)
  /\ drawn \in [DOMAIN drawn -> Registration] /\ DOMAIN drawn \subseteq Handle
  /\ DOMAIN store \subseteq DOMAIN drawn /\ \A h \in DOMAIN store : store[h] = drawn[h]
  /\ DOMAIN disk \subseteq durable /\ \A h \in DOMAIN disk : disk[h] = drawn[h]
  /\ durable \subseteq DOMAIN drawn /\ dropped \subseteq durable
  /\ gone \subseteq Registration
  /\ restarts \in 0..MaxRestarts
-----------------------------------------------------------------------------
(* open_with_limits: the records of the snapshot that the policy accepts.     *)
Loaded_Unfiltered(cfg, file) == file
Loaded(cfg, file) == Restrict(file, {h \in DOMAIN file : Accepts(cfg, file[h])})

Refused(cfg, file) == {h \in DOMAIN file : ~Accepts(cfg, file[h])}

Init ==
  /\ config \in {c \in Config : Starts(c)}
  /\ disk = Old
  /\ store = Loaded(config, Old)
  /\ call = [c \in Call |-> IdleCall]
  /\ drawn = Old
  /\ durable = DOMAIN Old
  /\ dropped = Refused(config, Old)
  /\ gone = {}
  /\ restarts = 0

(* The process ends, in whatever way, and another starts - if the egress      *)
(* policy parses, which it must before the snapshot is opened.  A snapshot    *)
(* that cannot be read or parsed counts as empty.                             *)
Restart(cfg, readable) ==
  /\ restarts < MaxRestarts
  /\ Starts(cfg)
  /\ config' = cfg
  /\ store' = Loaded(cfg, IF readable THEN disk ELSE Restrict(disk, {}))
  /\ dropped' = dropped \cup IF readable THEN Refused(cfg, disk) ELSE DOMAIN disk
  /\ call' = [c \in Call |-> IdleCall]
  /\ restarts' = restarts + 1
  /\ UNCHANGED <<disk, drawn, durable, gone>>

(* A snapshot is written. *)
Flush ==
  /\ disk # store
  /\ disk' = store
  /\ durable' = durable \cup DOMAIN store
  /\ UNCHANGED <<config, store, call, drawn, dropped, gone, restarts>>

(* main: the sender of a platform whose credentials are configured, else the  *)
(* echo sender if it is opted into, which takes every platform.  It is the    *)
(* last in the list, and select takes the first that handles the platform.    *)
SendersFor_EchoFirst(platform) ==
  IF config.echo THEN {"echo"} ELSE {platform} \cap config.senders
SendersFor(platform) ==
  IF platform \in config.senders THEN {platform}
  ELSE IF config.echo THEN {"echo"} ELSE {}

(* handle_register: validated, a sender for its platform, a fresh handle.     *)
(* The controller and the registry's caps are Gateway's and Store's.          *)
Register(h, reg) ==
  /\ h \notin DOMAIN drawn
  /\ Accepts(config, reg)
  /\ SendersFor(reg.platform) # {}
  /\ store' = [g \in DOMAIN store \cup {h} |-> IF g = h THEN reg ELSE store[g]]
  /\ drawn' = [g \in DOMAIN drawn \cup {h} |-> IF g = h THEN reg ELSE drawn[g]]
  /\ UNCHANGED <<config, disk, call, durable, dropped, gone, restarts>>

(* External: a push service gives up a token that was registered with us.     *)
GiveUp(reg) ==
  /\ reg \in Range(drawn) \ gone
  /\ gone' = gone \cup {reg}
  /\ UNCHANGED <<config, store, disk, call, drawn, durable, dropped, restarts>>
-----------------------------------------------------------------------------
Goto(c, state) ==
  /\ call' = [call EXCEPT ![c] = state]
  /\ UNCHANGED <<config, disk, drawn, durable, dropped, gone, restarts>>

End_Connected(c, outcome) ==
  /\ Goto(c, [call[c] EXCEPT !.pc = "done", !.outcome = outcome])
  /\ store' = IF outcome = "unregistered"
              THEN Restrict(store, DOMAIN store \ {call[c].handle}) ELSE store

(* The send ended; the handle of a token that is gone is removed (handle_wake).*)
End(c, outcome) ==
  /\ Goto(c, [call[c] EXCEPT !.pc = "done", !.addr = NoAddress, !.outcome = outcome])
  /\ store' = IF outcome = "unregistered"
              THEN Restrict(store, DOMAIN store \ {call[c].handle}) ELSE store

(* The check a sender makes before it connects: WebPushSender of the endpoint *)
(* and the keys, ApnsSender of the token, FcmSender none.                     *)
Sendable(reg) ==
  /\ reg.platform # "fcm" => reg.wellFormed
  /\ reg.platform = "webpush" => AcceptsEndpoint(config, reg.endpoint)

(* An authorised wake, with a sender for its platform.  The echo sender       *)
(* reports a delivery and sends nothing.                                      *)
Wake(c, h) ==
  /\ call[c].pc = "idle"
  /\ h \in DOMAIN store
  /\ \E s \in SendersFor(store[h].platform) :
       Goto(c, [IdleCall EXCEPT
         !.pc = IF s = "echo" \/ ~Sendable(store[h]) THEN "done" ELSE "resolving",
         !.handle = h, !.sender = s,
         !.outcome = IF s = "echo" THEN "delivered"
                     ELSE IF Sendable(store[h]) THEN "none" ELSE "transient"])
  /\ UNCHANGED store

(* A handle the registry does not hold, or one whose platform has lost its    *)
(* sender since it was registered.                                            *)
Refuse(c, h) ==
  /\ call[c].pc = "idle"
  /\ h \in DOMAIN store => SendersFor(store[h].platform) = {}
  /\ Goto(c, [IdleCall EXCEPT !.pc = "done", !.handle = h, !.outcome = "refused"])
  /\ UNCHANGED store

(* The client dials one of the addresses the guarded resolver returned; a     *)
(* name with an answer that is not public is not dialled at all.              *)
Dial(c, answers) ==
  /\ call[c].pc = "resolving"
  /\ Resolves(answers)
  /\ \E a \in answers : Goto(c, [call[c] EXCEPT !.pc = "dialled", !.addr = a])
  /\ UNCHANGED store

(* External: what a push service answers for a token it still has, and for    *)
(* one it has given up; "" is a body that names no reason.                    *)
Reply(status, reason) == [status |-> status, reason |-> reason]
Success(platform) == Reply(IF platform = "webpush" THEN 201 ELSE 200, "")
Troubles == {Reply(302, ""), Reply(400, ""), Reply(403, "InvalidProviderToken"),
             Reply(429, "TooManyRequests"), Reply(503, "")}
Goodbyes(platform) ==
  CASE platform = "webpush" -> {Reply(404, ""), Reply(410, "")}
    [] platform = "apns"    -> {Reply(410, ""), Reply(410, "Unregistered"),
                                Reply(400, "BadDeviceToken"),
                                Reply(400, "DeviceTokenNotForTopic")}
    [] platform = "fcm"     -> {Reply(404, ""), Reply(400, "UNREGISTERED"),
                                Reply(400, "registration-token-not-registered")}

(* What each sender makes of an answer.  No redirect is followed.             *)
Delivers(reply) == reply.status >= 200 /\ reply.status < 300
GaveUp_AnyBadRequest(platform, reply) == reply.status \in {400, 404, 410}
GaveUp(platform, reply) ==
  \/ platform = "webpush" /\ reply.status \in {404, 410}
  \/ platform = "apns" /\ \/ reply.status = 410
                          \/ reply.reason \in {"Unregistered", "BadDeviceToken",
                                               "DeviceTokenNotForTopic"}
  \/ platform = "fcm" /\ \/ reply.status = 404
                         \/ reply.reason \in {"UNREGISTERED",
                                              "registration-token-not-registered"}

OutcomeOf(platform, reply) ==
  IF Delivers(reply) THEN "delivered"
  ELSE IF GaveUp(platform, reply) THEN "unregistered" ELSE "transient"

Accept(c) ==
  LET reg == drawn[call[c].handle] IN
  /\ call[c].pc = "dialled"
  /\ ~call[c].accepted
  /\ reg \notin gone
  /\ Goto(c, [call[c] EXCEPT !.accepted = TRUE])
  /\ UNCHANGED store

Answer(c) ==
  LET reg == drawn[call[c].handle]
      replies == IF call[c].accepted THEN {Success(reg.platform)}
                 ELSE Troubles \cup IF reg \in gone THEN Goodbyes(reg.platform) ELSE {}
  IN
  /\ call[c].pc = "dialled"
  /\ \E reply \in replies : End(c, OutcomeOf(reg.platform, reply))

(* No address, no token for the service, no connection, or the timeout.       *)
GivesUp(c) ==
  /\ call[c].pc \in {"resolving", "dialled"}
  /\ End(c, "transient")

(* The answer to the wake is out. *)
Finish(c) ==
  /\ call[c].pc = "done"
  /\ Goto(c, IdleCall)
  /\ UNCHANGED store

Next ==
  \/ \E cfg \in Config, readable \in BOOLEAN : Restart(cfg, readable)
  \/ Flush
  \/ \E h \in Handle, reg \in Registration : Register(h, reg)
  \/ \E reg \in Registration : GiveUp(reg)
  \/ \E c \in Call :
       \/ \E h \in Handle : Wake(c, h) \/ Refuse(c, h)
       \/ \E answers \in Answers : Dial(c, answers)
       \/ Accept(c) \/ Answer(c) \/ GivesUp(c) \/ Finish(c)

Spec == Init /\ [][Next]_vars
-----------------------------------------------------------------------------
(* What a process serves, it would also register today: a policy narrowed     *)
(* between two starts takes effect on the handles a snapshot brings back.     *)
(* (store.rs:296; the validation that push/register makes, types.rs.)         *)
StoreWithinPolicy == \A h \in DOMAIN store : Accepts(config, store[h])

(* No connection is opened to an address inside a special-purpose block, nor, *)
(* for Web Push, to a host the policy in force does not list, whatever a name *)
(* resolves to and whenever the registration was made.  (egress.rs:405)       *)
DialsOnlyPublic ==
  \A c \in Call : call[c].pc = "dialled" =>
    LET reg == drawn[call[c].handle] IN
    /\ Routable(call[c].addr)
    /\ reg.platform = "webpush" =>
         /\ reg.endpoint.scheme = "https"
         /\ \E r \in HostRules(config) : Matches(r, reg.endpoint.host)

(* And a name whose one address is outside them is never refused: whenever a  *)
(* wake waits for an address, the guard lets through exactly what no special- *)
(* purpose block contains, plain or embedded.  (egress.rs:340)                *)
ExactOnAnswers == \A a \in Address : Resolves({a}) <=> Routable(a)
GuardIsExact == \A c \in Call : call[c].pc = "resolving" => ExactOnAnswers

(* "delivered" means that the platform's own service took the wake, unless    *)
(* the operator opted into the echo sender and the platform has no other; and *)
(* "unregistered", on which the controller forgets a handle, that the service *)
(* gave the token up and that the registry no longer holds the handle.        *)
(* (main.rs:227 "a dropped wake is a security control that silently did not   *)
(* happen"; api.rs, handle_wake.)                                             *)
OutcomesAreTrue ==
  \A c \in Call : LET w == call[c]  reg == drawn[w.handle] IN
    /\ w.outcome = "delivered" =>
         \/ w.accepted
         \/ config.echo /\ reg.platform \notin config.senders
    /\ w.outcome = "unregistered" => reg \in gone /\ w.handle \notin DOMAIN store

(* A handle that has been written to the snapshot is served until the push    *)
(* service gives up its token, except for what a start may drop: a record     *)
(* the policy of that start refuses, or all of them when the file could not   *)
(* be read.  (store.rs:294; the sweep and the owner's requests are Store's.)  *)
HandlesSurvive ==
  \A h \in durable : h \in DOMAIN store \/ drawn[h] \in gone \/ h \in dropped
=============================================================================
