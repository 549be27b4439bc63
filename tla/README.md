# Formal models of vti-push-gateway

TLA+ models of the push gateway, checked with TLC on small instances and, where
the argument carries to every instance, proved with TLAPS. Source references are
relative to the repository root (`src/replay.rs` is the crate's replay record).

## The system

The gateway gives a device an opaque *handle* for its push token
(`push/register`), lets the handle's controller VTA set the list of DIDs that may
wake it (`push/provision`), and fires a contentless push when one of them asks
(`push/wake`). Documents arrive over HTTPS, DIDComm or TSP and meet the same
intake, the same dispatch core and the same state.

| Component | State | Operations | What makes it correct |
|---|---|---|---|
| Intake (`intake.rs`, `proof.rs`, `resolver.rs`, the adapters `tsp.rs` and `didcomm.rs`) | the resolver's cached DID documents | receive, authenticate, verify_issuer, check_window, receive_document | the caller is who signed, with a key that was good lately; a document is fresh only while its record is retained |
| Dispatch core (`api.rs`, `controllers.rs`) | none of its own; awaits a send | handle_register, handle_provision, handle_wake | authorised before admitted, admitted before executed, every claim closed, answers true |
| Replay record (`replay.rs`) | per issuer a guard of (id, digest, response); per handle a list of charges; one mutex, but a guard is used outside it | claim, complete | a document is executed once; budgets hold; a budget is refunded |
| Handle registry (`store.rs`) | handle map and per-token index under one RwLock | insert, provision, remove, sweep, lookups | index and map agree, caps hold, handles leave for a reason and do leave |
| Snapshot (`store.rs`, `relationships.rs`, `secretfile.rs`) | dirty flag, file | mark_dirty, flush, flush_loop, Drop | no change is forgotten, no mixture in the file, a clean shutdown is durable |
| Senders (`sender.rs`, assembled in `main.rs`) | two token caches behind mutexes | send, provider_token, access_token, select | no push under an expired token, tokens not regenerated too often, outcomes that are true |
| Egress policy (`egress.rs`) and registrations (`types.rs`) | configuration, read once at the start | validate_webpush_endpoint, apns_topic_allowed, is_public_ip, GuardedResolver, validate | only listed hosts and public addresses are connected to, also for registrations of an earlier policy |
| TSP relationships (`relationships.rs`, `tsp.rs`) | byte map kept through the SDK's store, its snapshot | handle_control (accept), touch, evict_idle, flush, open | a live relationship is not judged idle, an abandoned one leaves |
| Rate limits (`limits.rs`) | a bucket for registrations, buckets per DID (library) | allow_register, allow_did, shrink | a DID pays for what it did and nothing else; shrinking changes no verdict |
| Identity, metrics, `main.rs` | configuration, counters | startup, timers, shutdown | - |

How they interact: a transport calls `receive_document`, which authenticates the
document (it may wait for the issuer's DID document), reads the clock once, checks the window and calls the dispatch core
with a `DocumentOnce`. The core reads the registry to authorise, claims in the
record, applies the effect (a registry write, or a send awaited for at most
`WAKE_SEND_TIMEOUT`) and completes the claim. Background tasks sweep the
registry, flush the snapshots and shrink the limiter. Everything shared is behind
a mutex or RwLock that is released between those steps, and that is where the
behaviour gets hard:

- a decision taken under one lock is used under a later one (budgets, controller
  checks, the guard returned by `partition`, the dirty flag and the rename);
- time is read once and used later, and the wall clock may be set back;
- a send can time out after it landed, and an HTTP client can leave in the middle;
- a restart forgets the record, the limiters and the caches, and reloads the registry
  from its last snapshot under a configuration that may have changed;
- a DID document is cached, fetched while it is being replaced, and used by its age;
- two flushes can run together at shutdown.

`PROJECT.json` lists each of these as a hazard, at its line, with the properties
that would catch it going wrong.

## Modules

| Module | Models | State and actions |
|---|---|---|
| `Window` | `check_window`, `RETENTION_MARGIN` | `Fresh(d, t)`, `Retained(d, t)` |
| `OnceOnly` | *abstract*: what the record promises | a document is started when nobody executes it and it has not taken effect; finished, undone, or lost |
| `Replay` | `replay.rs` and its concurrent callers | `issuers`/`guard` are `Inner::issuers` and the guards by identity (so that a guard can leave the map while a call holds it), `charges` is `Inner::handles`, `call` the callers. One action per lock section or guard call: `Partition`, `GuardClaim`, `Charge`; `Uncharge`, `Lookup`, `GuardClose` |
| `Store` | the registry of `store.rs` | `handles`, `byToken`; `Insert`, `Provision`, `Remove`, `Sweep`, one action per write section; `SetBack` sets the clock back |
| `Gateway` | the handlers of `api.rs` over `Replay` and `Store` | instances of both share its variables; `CheckController`, `Shortcut`, `RecordStep`, `Apply`, `ApplyRefused` for a provision, `AuthorizeWake`, `RecordStep`, `Land`, `Delivered`, `Transient`, `Unregistered`, `Disconnect` for a wake |
| `DurableMap` | *abstract*: what a snapshot promises | the file moves forward to states the map was in; a crash returns the map to the file |
| `Snapshot` | dirty flag, `flush`, `flush_loop`, shutdown, `Drop` | `flush[f]` is where each flusher is: `Swap`, `Serialize`, `WriteOk`/`WriteFail`; `Cancel`, `Drop`, `Exit`, `Crash` |
| `Credentials` | the token caches of `sender.rs` | `Sign` is `provider_token`; `Acquire`, `Granted` are `access_token`; `End` is every way a send ends |
| `Egress` | `egress.rs`, the validation of `types.rs` | no state: `Matches`, `AcceptsEndpoint`, `Accepts`, `PublicV4`, `PublicV6`, `Resolves`; and `Routable`, the reference over the blocks as prefixes that the octet tests are compared with |
| `Delivery` | a registration's life over restarts, from `push/register` to a push service's answer (`types.rs`, `store.rs: open_with_limits`, `main.rs`, `sender.rs`) | `config` is what the running process was started with, `store`/`disk` the registry and its snapshot, `call` the wakes; `Register`, `Flush`, `Restart`, `Wake`, `Dial`, `Answer`, `GivesUp`. The push service is `Accept`, `GiveUp` and the answers it may give |
| `Limits` | `limits.rs` | `bucket`, `register`; operations that `Intake` uses |
| `Intake` | `intake.rs` with `proof.rs`, `resolver.rs` and the adapters | `cache` is the resolver's, `version`/`until` what the DIDs' subjects publish; `ReceiveHttps`, `ReceiveDidcomm`, `ReceiveTsp`, `Authenticate`, `HostAnswers`, `Resolved`, `ResolutionFails`. `Conclude` is everything between the DID document's arrival and the dispatch, where nothing is awaited |
| `Relationships` | `relationships.rs`, `tsp.rs` | `rel` is the byte map, one access an action: `Invite`, `Frame` and `Touch` (the gate and the stamp), `SweepRead` and `SweepDelete` (`evict_idle`), `Flush`, `Restart` |
| `MC...` | instances | documents, handles, identities and symmetry for TLC. `MCGateway` extends `GatewayProofs`, so that its runs evaluate what the proofs assume of the constants |
| `ReplayProofs`, `StoreProofs`, `GatewayProofs`, `SnapshotProofs`, `CredentialsProofs`, `DeliveryProofs`, `IntakeProofs`, `RelationshipsProofs` | proofs | see below |

What is abstracted, and why nothing is lost by it:

- A document is its issuer, identifier, handle, times and, in `Gateway`, its
  operation. Two documents with one issuer and identifier and different digests
  are two elements of `Doc`.
- The library guard (`InMemoryReplayGuard`) is external: purge, claim,
  record_response and release are modelled from how `replay.rs` uses them.
  record_response is told only the identifier, so it writes whatever document
  holds it; release is told the digest too.
- An allowlist is a set. `allowlist_is` compares lists, so sending the same DIDs in
  another order counts as a change and is admitted like one; the result is the same.
- The three outcomes of a send are chosen freely in `Gateway`; `Delivery` derives them
  from the sender, its checks and the answer, and has no concurrency with provisions.
- A host name is the sequence of its labels, an address of its octets or segments, a
  URL its scheme, host and one word for the rest. `wellFormed` stands for the field
  checks that no policy depends on (lengths, alphabets, key formats).
- A signature is two facts of a document: who signed it and whether it covers it.
  A DID document is its subject, its size and what each of its methods says.
- The resolver, its cache, the limiter's buckets, the SDK's relationship store with
  its gate and its eviction policy are external: modelled from how the code uses them.
- Tokens are their digests. Spellings of a DID (`?src=` locators) are members of
  `Name` with `Bare` as `strip_scid_src`. Handles are never drawn twice.
- Registration is never refused in `Replay` and `Gateway` for its payload, and
  the limiters are a refusal at any time (`Refuse`): both leave state alone. The
  payload is judged in `Delivery`, the limiters are `Limits`.
- The clock ticks in seconds (in `Relationships`, in hours). The expiry boundaries (`<` against `<=`) are those
  of the code.
- The map behind a snapshot is the number of changes made to it; `Store` has the
  map itself. The serialisation cannot fail for the types it is given.

## Runs

| Run | Question | Instance |
|---|---|---|
| `MCReplay` | Is each document executed at most once while the record holds it (`ImplementsOnceOnly`), a second document under an accepted identifier not at all (`IdsConflict`), do the books agree (`ChargesMatchEntries`, `ClaimsHaveOwners`), do the budgets hold up to the workers (`BudgetsBounded`)? | 2 callers, 2 workers, 3 documents of 2 issuers with one identifier, 1 restart, 4 seconds |
| `MCStore` | `IndexMatches`, `CapsHold`, `LeavesOnlyStaleOrDead`, `UnprovisionedExpire` | opened with 3 handles, at the total cap, over a token's and over a controller's, one of them under a controller spelled with a locator, one created "in the future"; 1 more to draw, 1 set-back of the clock by up to 2 s |
| `MCSnapshot` | `NoChangeForgotten`, `CleanShutdownDurableAlone`, `ImplementsDurableMap`, `EventuallyDurable` | 2 mutators, the loop and main, 3 changes, 1 crash, any write may fail |
| `MCGateway` | `NoClaimLeaks`, `EffectOnce`, `AnswersAreTrue`, `UsesRecord` (the handlers use the record as `Replay` describes: refinement), `EveryCallAnswered` | 2 calls, 1 worker, a grant, a revocation and two wakes under one identifier, 1 handle, sweeps and dead tokens |
| `MCDelivery` | Does what is served pass the policy in force (`StoreWithinPolicy`), is nothing but listed hosts and public addresses connected to (`DialsOnlyPublic`, `GuardIsExact`), do the answers say what happened (`OutcomesAreTrue`), does a written handle survive (`HandlesSurvive`)? | 2 wakes, 1 handle to draw and 1 left by an older build, 10 registrations, 3 configurations that start and 2 that do not, 2 restarts, both sides of every edge of every block, plain and embedded in 4 ways |
| `MCIntake` | Is only what its caller signed executed (`ExecutesOnlyProven`), with a key its DID document authorised at most a cache lifetime and a resolution ago (`AuthorisedRecently`), on its own budget (`BudgetsFollowIdentity`)? | 15 documents over 3 transports, 3 of them received; a controller with two spellings who rotates a key out and lets the next expire, a stranger, two hosts that serve what they should not; 4 seconds, 1 restart |
| `MCRelationships` | Is a relationship in use never judged idle (`SweepsOnlySilent`), does an abandoned one leave (`AbandonedLeave`)? | 2 peers, 2 tasks, 3 invites, a policy of 1 and 4 steps of the clock, 1 restart |
| `MCCredentials` | `NoStaleToken`, `RefreshesSpaced` | 3 calls, refreshes of 2 and 3, lifetimes of 4 for APNs and of 1 and 5 for FCM (less than a refresh, and just a refresh and a timeout), timeout 2, 9 seconds |

The bounds are chosen so that the interesting case happens at least once with a
neighbour on either side: clocks run past every window, refresh and time-to-live
of the instance; all three documents of `MCReplay` are charged to one handle of bound
1, so that this budget is reached and overrun (they are too few to overrun the bounds of
2 per issuer and in total: those two parts of `BudgetsBounded` rest on the theorem
`BudgetsAreBounded`, and eviction, which needs an issuer's bound overrun, on
`TwoWorkersNeverEvict`); in `MCStore` the total cap, a token's and a controller's are
each the only one that refuses some registration; identities of guards exceed what the map and the
calls can hold together, so a fresh one is always free. `MCIntake` has one call at a
time: calls meet only in the cache and the buckets, each of which a step reads and
writes at once, and the races that matter, with rotations, timeouts and the sweep,
need one (two calls with two documents pass as well, at 2.2 million states). Two
restarts let `MCDelivery` go from a wide policy to a narrow one and back. Each property of each run
is broken by a plausible bug in the code (`mutants` in `PROJECT.json`), which is
how we know that the bounds reach what the property is about: a retention
without its margin, a charge that is not released, a cap checked after the fact, an
age that wraps, a flag that is not put back, a token kept for its lifetime.

`CHECK_DEADLOCK FALSE` stands in every configuration but `MCDelivery`'s because the
clocks and counters are bounded and a stopped process does nothing. In `MCDelivery` a
wake can always be asked for, and TLC checks that no call gets stuck.

### Where the code and its words disagree

Each run below checks one sentence of the repository and finds it violated.

| Run | Sentence | What happens |
|---|---|---|
| `MCReplayStray` | README: a second delivery is "not executed again" | A claims in a guard that B's `partition` saw empty and dropped between A's `partition` and A's claim. Two workers, no failure. |
| `MCReplayCrowd` | README: invented controllers "cannot lock out an issuer that is not flooding" | shares are taken against those present and not reclaimed: the hard bound is reached, and it refuses an issuer that holds nothing |
| `MCSnapshotOverlap` | `src/main.rs`: "one last snapshot so a clean shutdown is durable" | main's flush and the loop's write at once; the older bytes are renamed last |
| `MCGatewayNoop` | `src/api.rs`: replaying a provision that changed nothing "is harmless by construction" | after the controller revoked, the replay grants again |

Smaller disagreements the models show, which have no run of their own:

- "A provisioned handle is never swept, however old" (README): a handle whose
  controller later empties its allowlist is swept at the next pass, because its
  age counts from its creation. `LeavesOnlyStaleOrDead` states what does hold.
- "Nothing was delivered" on a transient failure (`src/api.rs`): after the timeout
  the push may have landed. `EffectOnce` counts pushes *reported* delivered; the
  retry may ring twice.
- A second delivery is not always answered with the first response: it meets
  authorisation, the limiters and the budgets first, and can be told that the
  handle is unknown or the record busy.
- A restart forgets the record, "which the acceptance window makes safe"
  (`src/replay.rs:24`): only a restart that takes longer than the window. A document
  accepted just before a shorter one is accepted again; `OnceOnly` counts it as lost.
- "The guard itself never evicts" (`src/replay.rs:130`) holds with two workers
  (`TwoWorkersNeverEvict`). With three, three claims can pass the budget before any of
  them is in the guard, and the third evicts a live entry.
- A sender that fails to initialise is logged as "echo fallback" (`src/main.rs:162`,
  `181`, `195`, `207`), and `src/main.rs:143` says the echo sender is the fallback for
  anything left; since it became opt-in the platform then has no sender at all.
- "missing -> fresh" (`src/store.rs:294`): every error of reading the snapshot starts
  an empty registry, and its next flush overwrites the file. `HandlesSurvive` counts
  these handles among what a start may drop.
- `touch` is said to stamp "every inbound frame it admits" (`src/relationships.rs:43`):
  only frames that are envelopes with a document are stamped. A peer that sends
  anything else for the length of the policy is swept although it is not silent.
- "So a live relationship never goes idle and only an abandoned one is swept"
  (`src/relationships.rs:43-44`): the sweep reads all relationships and then deletes those
  it found idle. A frame heard between its read and its delete is admitted and stamped, and the
  relationship goes nevertheless; the peer has to invite again. `SweepsOnlySilent` is about
  what the sweep had read: it allows a deletion when the peer came back at or after that.
- "Stored by identity" (`src/store.rs:427`) holds of what this build stores.
  A controller that an older build stored with its `?src=` locator is loaded as it was
  spelled; it may still provision its handles, but the cap per controller compares strings and
  does not count them. `ControllerCap` bounds the others, and these only drain.
- A send may outlive its record (15 s against a margin of 1 s). Its response is
  then recorded under whatever document of the same identifier was accepted
  since, so `AnswersAreTrue` allows the answer to be a twin's; likewise
  `uncharge` refunds a twin's charge, so `ChargesMatchEntries` demands equality
  only of a document without twins.

## Fairness

Safety runs use `Spec` without fairness. The others assume:

- `Store`: the sweep and the clock go on. `sweep_loop` ticks every minute until
  shutdown.
- `Snapshot`: the loop's ticker goes on, a mutator that left the lock goes on to
  set the flag (there is no suspension point between), and a write that is tried
  again and again succeeds sometimes (strong fairness: a disk that fails for ever
  is not promised anything).
- `Relationships`: the timers go on (flush, sweep), a task that is about to stamp a peer
  does, the SDK finishes a sweep it began, and time passes; all weak. Nothing is
  assumed of peers: that they stop is what "abandoned" means, and the bound on time
  makes it so.
- `Gateway`: a call that runs goes on (weak), and a send ends by its timeout
  whatever the push service does. The latter needs a free worker, which others
  may take in between, hence strong fairness of `Transient`; nothing is assumed
  of the push service, of clients or of any other outcome.

## Proofs

`tlapm` checks every proof; nothing is assumed beyond the constants' named
assumptions and what a theorem itself names. Each result holds for every number of
callers, handles, documents and changes, and every value of the limits that the
assumption allows. All the invariants the runs check are proved, some of them under
the conditions given here.

- `ReplayProofs`, the window: `FreshIsRetained` - a document accepted at t has not been
  purged by anyone whose clock is below t + margin; `ForgottenIsStale` - what a purge
  drops is never fresh again. Together they are why the record may forget.
- `ReplayProofs`, types and claims: `TypeCorrect` - the guards of the map stay
  partitioned by issuer.
  That is not inductive alone: a call that left `partition` writes into its guard
  later, so the strengthening says that a guard a call holds is, if the map still
  has it, the one of the call's issuer (`Attached`, with `Busied` for which calls
  hold one). A new guard must be one that nobody holds; `SomeGuardIsFree` counts
  that there is one. `NoOrphanedClaim` - an entry in flight is one that a call
  still owes an answer to that guard (`Claimed`): until it looks the guard up it
  owes it to whichever guard its issuer has, afterwards to that one only.
- `ReplayProofs`, once only: `RecordImplementsOnceOnly` - if a call is preempted inside
  claim for less than the margin and no guard evicts, `Replay` implements `OnceOnly` for
  every document it has not lost. The invariant: a document that a call holds, or
  that took effect, is in the record or too old to be claimed (`Remembered`), since
  a purge works with a clock that is not ahead (`Timely`); so a claim that comes
  out fresh is the only one (`Single`). On the same two conditions:
  - `SecondUseOfAnIdConflicts`: of two documents under one identifier that are both
    retained and not lost, at most one is held or took effect (`Apart`). A claim
    finds the other in the guard, because both go into the guard of their issuer.
  - `BooksAgree`: between calls the charges agree with the record (`Books`). While
    calls run they do not, so the invariant names the calls in between: a document
    whose call is about to charge it, or has taken the charge back and not yet released
    the claim, is not charged (`Settling`, `Booked`); and only a call without a response
    takes a charge back (`Undoing`).
- `ReplayProofs`, budgets: `BudgetsAreBounded` needs no condition. A budget is checked
  before the entry is made, so the invariant bounds the entries together with the calls
  about to make one (`Roomy`), and no more calls than workers are in between.
  `TwoWorkersNeverEvict` follows: with two workers the capacity "one above the bound" is
  enough. With three it is not (see above). So for two workers the second of the two
  conditions goes away: `TwoWorkersExecuteOnce`, `TwoWorkersConflict`,
  `TwoWorkersBooksAgree`. The first is about the scheduler: the margin is a second, and
  claim never waits.
- `StoreProofs`: `TypeCorrect`, `IndexNeverDrifts`, `HandlesLeaveForAReason`. The
  index invariant is inductive with the types; the two lemmas `AddKeepsIndex` and
  `DropKeepsIndex` carry it over the two ways the map changes. `CapsAreNeverExceeded`
  needs it: `insert` counts the list in the index, and what is bounded is the map. That
  a controller is counted under every spelling follows from the types, `insert` storing the
  bare one; handles loaded under another spelling (`Respelled`) are left out of that count.
- `GatewayProofs` proves of the handlers that they use the record and the registry as
  the two modules describe, step by step, and takes over what is proved of those two:
  - `HandlersUseTheRecord` is the refinement `UsesRecord`. A call that has not reached the
    record yet looks to it like one about to be admitted (`recordCall`). `Replay` takes a
    worker for an effect to end, where `Apply` goes on with the one it has: that the
    record sees a free one then is `WorkersHold`, that no more calls run than there are
    workers, of which the record sees one less.
  - `HandlersUseTheRegistry`: the gateway implements `Store`. A handler provisions under
    the caller's spelling, `Store` under an identity: `SameReference` makes it one.
    `TheRegistryHolds` takes over index, caps and reasons to leave.
  - `NoHandlerLeaksAClaim` is `NoOrphanedClaim` seen through `recordCall`.
  - `GatewayTypes`, with `LandedOK`, `ServedOK` and `NoopsOK` for its parts.
  - `DuplicatesAreToldTheTruth` is `AnswersAreTrue`, unconditionally. The invariant follows an
    answer from the effect to the guard: what a call is about to record has happened
    (`Answering`), a push that landed is counted (`Counted`), and "the handle is gone"
    stays true because a wake that passed its check has a handle that was drawn
    (`WakesKnown`), and a drawn handle that left is not drawn again (`GoneStays`).
  - `EffectsAreSingle`: whatever took effect is spent (`Noted`), and a call about to have an
    effect holds its document alone (`Single` of the record), so the second effect never
    comes - for a document that is not lost, on the two conditions above.
    `TwoWorkersEffectOnce` drops the second; `OneWorkerEffectOnce` is `EffectOnce` for every
    document: with one worker nothing runs between `partition` and the claim, so the claim
    goes into a guard of the map and nothing is lost (`Kept`).
- `SnapshotProofs`: `TypeCorrect`, `ChangesAreNotForgotten`, `ShutdownIsDurable`,
  `SnapshotImplementsDurableMap`. `NoChangeForgotten` is not inductive: a second
  flush could finish with older bytes after the first one cleared the flag. The
  strengthening says that without overlap at most one flusher is busy (`Alone`),
  that bytes which no longer match the map imply that the change since is
  announced (`Covered`), and what is left of the flags after the tasks ended
  (`LastFlush`, `NoneLeft`). The refinement follows from it, since a write then
  never moves the file backwards.
- `CredentialsProofs`: `TypeCorrect`, `TokensAreFresh`, `RefreshesAreSpaced`. A push
  outlives neither its timeout (`Timely`) nor its token (`Covered`), because a cached
  token is dated no later than it was granted (`Dated`); and a caller that exchanges
  found nothing usable and, as it holds the mutex, nobody can have changed that
  (`Needed`). The assumption is that refresh plus timeout is at most the lifetime:
  40 min + 15 s against an hour for APNs. For FCM it is no assumption but a condition on
  each token (`Lasting`), 50 min + 15 s against the hour that is usually granted: a shorter
  one, for which `access_token` takes the lifetime as its window, is only shown to be good when
  the send read the clock. That the service grants at least a second is assumed.
- `DeliveryProofs`, addresses: `GuardIsExactV4`, `GuardIsExactEverywhere` -
  `is_public_ip` refuses an address exactly when one of the special-purpose blocks its
  comments name contains it, or the IPv4 address it embeds. The blocks are given as
  prefixes, the code compares octets and segments with ranges and masks; one lemma per
  shape of block turns membership into a condition on octets or segments
  (`OctetPairBlocks`, `PartialSegmentBlocks`), and the rest is propositional. A run
  can try the edges only; `MCDelivery` does, as `GuardIsExact`.
- `DeliveryProofs`, deliveries: every property of `MCDelivery`, for any registrations,
  configurations and answers of the resolver. `ServesItsPolicy` is inductive by itself.
  `NoHandleIsLost` needs that the snapshot keeps what it had for the same reasons
  (`SnapshotKeeps`), or a restart could lose a handle that the registry still served;
  `AnswersAreTruthful` that the handle of a send exists (`Known`), since its
  registration is looked up; `ConnectsOnlyToPublic` that a call which waits for an
  address passed its sender's checks (`Checked`), and `GuardIsExactEverywhere`. The
  lemmas `...Moves` say once what each step of a call changes. That answers are told
  apart rightly is `AnswersMean`: no answer a service gives for a token it still has
  is taken for a farewell. The assumption on answers is that they are IPv4 or IPv6
  addresses.
- `IntakeProofs`: `IntakeTypes`, `OnlyProvenExecutes`, `KeysWereGoodRecently`,
  `BudgetsAreTheirOwners`. Verification happens after a wait, so the invariant carries
  over the wait that the checks before it passed and that it was no longer than the
  timeout (`Pending`). A document that a host answered with was published since the
  call asked (`AnswerRecent`), one in the cache at most a timeout before it was put there,
  which is at most a lifetime ago (`CacheRecent`): the two add up to what
  `AuthorisedRecently` allows. `HolderAssumption` is the one thing taken on trust, and is
  not about this code: a subject that lists a key of its own under its own identity
  holds it.
- `RelationshipsProofs`: `RelationshipsTypes`, `OnlySilentAreSwept`. A frame's stamp is on
  the relationship, or a task is about to put it there within the same step of the clock
  (`FramesStamped`); so what the sweep's read finds old has been silent, and stays out of
  use until its deletes unless it came back after the read (`SilentOrBack`).

To the prover every instance of a module has operators of its own: the lemmas `Same...` and
`Record...` of `GatewayProofs` say that those of the handlers and those of the theorems agree.

Only model-checked: liveness (`UnprovisionedExpire`, `EventuallyDurable`,
`EveryCallAnswered`, `AbandonedLeave`), since fairness and ENABLED are beyond the prover;
and the `EffectOnce` of more workers for documents the record may lose, which is false
(`MCReplayStray`). Recursive definitions and induction over data, which are beyond it too,
occur nowhere here; sizes are cardinalities of sets for that reason (`ChargesOf`, `AllHeld`).

## Not modelled

- Cryptography (signatures, encryption of pushes, tokens' contents), JSON and URL
  parsing, the wording of requests and answers.
- The field bounds of `types.rs`, one flag here, and the normalisation of allowlists.
- The per-IP limiter in front of the HTTP router: configured here, but all of it is
  the library's.
- The capacity of the resolver's cache and its host policy: an entry dropped early or
  a refused host is a resolution more, or one that fails.
- Identity files, secret files' modes, metrics, the advertisement check at startup
  (it only logs), command line and key generation: I/O, or counters nobody reads.
- The mediator connection and its reconnects, which are the service library's.
- A wall clock that is set back, except for the registry's ages: the other models'
  clocks are monotone. A push service that rejects a token before its time.

## Plan

1. Done: `Window`, `Replay` with `OnceOnly`, `Store`, `Snapshot` with `DurableMap`,
   `Gateway`, `Credentials`, `Egress`, `Delivery`, `Limits`, `Intake`,
   `Relationships`, and the proofs above.
2. Proofs of the lemmas about fair shares (`FairShare`, `Busy`), and of how many entries a
   guard can lose to eviction with more workers than two.
3. `EffectOnce` without the condition on preemption where there is one worker, and a bound
   on what a lost document can do with more.
4. `Credentials` with tokens that a push service rejects early.
