# websub-sub in TLA+

`websub-sub` is a Rust library for WebSub subscribers, with an example program.
A user subscribes to a topic at a hub: a row is inserted and a request is sent.
The hub verifies the intent by calling back, the row becomes active for the
lease that the hub grants, and content is pushed to the callback from then on.
Before a lease ends, a background task subscribes anew under another id, and
the verification of the new subscription retires the old one.

This directory models that life cycle, the scheduler, the stream of updates, the
delivery of content, the commands of the example and the migrations in TLA+,
checks them with TLC on small instances, and proves the safety properties with
TLAPS for all of them. Paths below are relative to the repository.

## The system

| component | state | operations | modules |
|---|---|---|---|
| subscription table (`src/db.rs`, `src/db/diesel*.rs`, `src/schema.rs`) | rows `id, hub, topic, secret, expires_at`; a NULL expiry means inactive | the queries and updates of `ConnectionRef` | `SubscriptionStore` |
| hub requests (`src/hub.rs`) | none; a request is a spawned task | `subscribe`, `unsubscribe` | `SubscriberService`, `ConcurrentService`, `Commands` |
| service (`src/subscriber/service.rs`) | the pool, the scheduler's handle | `call` (verification of intent, content), `renew_subscriptions` | `SubscriberService`, `ConcurrentService`; content in `Delivery` |
| scheduler (`src/subscriber/scheduler.rs`) | `next_tick`, the registered waker, the `Sleep` | `Scheduler::poll`, `Handle::hasten`, the drop of the handle | `Scheduler`; one action per poll in the services |
| renewal task (`src/subscriber/renew_subscriptions.rs`) | running or completed | `Tick::tick` | `SubscriberService`, `ConcurrentService` |
| construction (`src/subscriber.rs`) | - | `Builder::build_service`, `Subscriber::new`, `prepare_callback_prefix` | `SubscriberService` (`Init`, `Restart`, `first_tick`), `Delivery` |
| callback ids (`src/util/callback_id.rs`) | - | `encode`, `decode` | `CallbackId`, `Delivery` |
| accept loop, back-off (`src/subscriber.rs`, `src/util/backoff.rs`) | the listener, the wait and its `Sleep`, the channel of updates | `accept_all`, `Backoff::increase`, `poll_next` | `AcceptLoop` |
| signatures and content (`src/signature.rs`, `src/subscriber/update/`) | the running digest of a body | choice of the header, `poll_data` | `Delivery` |
| commands of the example (`example/src/cmd`) | - | `subscribe`, `unsubscribe`, `run` | `Commands`, `ExampleProgram` |
| feed parser of the example (`example/src/feed.rs`) | - | `from_str`, `parse`, `take_meta`, the conversions to `Feed` | `Feed` |
| migrations (`migrations/`) | four tables, of which one is left | each `up.sql` and `down.sql` | `Migrations` |

How they interact: the commands and the service share the table; the service
tells the renewal task about a new expiry through `Handle::hasten`, an atomic
minimum and a wake-up; the renewal task writes the table and spawns requests;
hubs answer requests by calling the service, in any order and at any time.
The stream accepts connections and serves each in a task of its own, which
sends updates into the channel that the stream reads; the stream, the
connections and the renewal task share the service by an `Arc`, and the stream
ends when the others have let go of it.

What is hard about it: a key (a hub and topic) may have several rows, verified
in any order while the task renews them; requests and answers get lost; a
transaction may be rolled back after requests were spawned in it; the renewal
task may end; the process may restart; and on a multi-threaded runtime the
service and the task run at the same time. `PROJECT.json` lists the hazards one
by one, at the line where each bites.

## The modules

### SubscriptionStore

The table as a function from ids to rows, and one operator per SQL statement of
`ConnectionRef`, named as in the code. The `secret` column is left out: only the
verification of content reads it, and `Delivery` gives every id its own. `diesel1.rs` and `diesel2.rs` issue the same
statements; the map points to the latter.

### SubscriberService

The core: service, hub requests, renewal task and construction, composed with
the table, a network and hubs. One action is one synchronous stretch of code.
`Service::call` and `Scheduler::poll` have no `await`, so this is what a
current-thread runtime executes.

| variable | in the code |
|---|---|
| `db` | the table |
| `next_tick`, `woken` | `Handle::next_tick`; whether the task of the scheduler is to be polled |
| `sleep` | the deadline of `Scheduler::sleep` (`NoTick`: none) |
| `renewer` | whether the future `RenewSubscriptions` has completed |
| `outbox` | requests in tasks that were spawned and have not been sent |
| `inbox`, `hub_subs` | the hubs: requests not verified yet, subscriptions held |
| `now`, `faults`, `unheard` | the clock; bookkeeping of faults |

Actions: `Subscribe`, `Unsubscribe` (the user); `SendRequest`; `PollPending`,
`PollTick`, `PollTickFails` (the renewal task); `VerifySubscribe*`,
`VerifyUnsubscribe*`, `PushGone` (`Service::call`, with what the hub makes of
the answer); `LeaseEnds` (the hub); `LoseRequest`, `Restart`, `Advance` (the
environment). A faulty
request, answer, transaction, tick or process is a `Fault` of its kind, allowed
by the constant `Faults` and bounded by `MaxFaults`.

Hubs do what the code needs of them and what WebSub says: they verify what they
receive, keep a subscription when they get the challenge back, give up after a
404, ask again after an error, and end a subscription after a 410. A hub that
loses the answer keeps the request and asks again. A hub's subscription carries
the end of the lease that it granted (`until`, which is what the service stores
as the expiry); from then on the hub may end it at any time (`LeaseEnds`), and
the service hears nothing of that. So a renewal that is lost, late or never
made does end the service of a key, and the properties about service say when.

The callback of a row is the constant function `Callback`, so that nothing is
assumed of `callback_id` in the proofs; the runs take the identity, and
`CallbackId` says for which ids that is what the code does.

### ConcurrentService

SubscriberService on several threads, with SQLite as the example opens it
(`example/src/common.rs`: a pool, WAL, a busy timeout). It extends
SubscriberService and replaces each action that touches shared state more than
once by its accesses: for a verification the look-up, the hasten, the first
read, the first write, the commit and the answer; for a tick the first read,
the first write, the commit, the query for the next expiry and the store to
`next_tick`. Everything else is the action of SubscriberService.

The transactions of diesel begin DEFERRED: reads see a snapshot; the first
write makes a transaction the only writer, and is refused if somebody else has
committed since the snapshot (`stale`). `draft` is the table inside the writing
transaction. Requests spawned by a transaction are in `outbox` before the
commit. This is modelled from SQLite's documented behaviour and is external to
the repository. The first write also fails if another transaction is between
its first write and its commit: SQLite answers `SQLITE_BUSY` to the upgrade of
a read transaction at once (`Busy`), and no busy timeout waits for it.

`now_unix` and the first read of a tick or of a verification are one step; the
handle's operations are atomic here and taken apart in `Scheduler`. Faults are
left out of this module.

### Scheduler

`scheduler.rs` on its own, between any two accesses to the state that it shares
with hastening threads, with the timer and with whoever drops the service. The
result of a tick is any time or none, one that is past already included, or an
error. The accesses to
`next_tick` are Relaxed in the code; `AtomicWaker::register` and `wake` order
them (a hasten that a poll did not see finds the registered waker), so the
steps are interleaved. A `Sleep` that is polled keeps the waker, also when it
is ready, and keeps it through a reset: that is what tokio's timer does. The
second between a Unix time and an `Instant` is not modelled.

### CallbackId

`encode` and `decode` with base64 under them, on ids of eight bytes. A
behaviour makes a callback and routes a request by it, or routes any of a set
of texts.

### Lease and Alarm

The abstract specifications. `Lease` is what a user may rely on, without ids,
requests or a task: keys that are wanted, at most one lease to each, granted one
at a time, given up all at once when they are due and never before.
`SubscriberService` implements it (`ImplementsLease`): the wanted keys are those
with rows, the lease of a key the expiries of its active rows. `Alarm` is what
`scheduler.rs` promises: it may be hastened at any time, never rings early, is
set by the answer, and stops only when it is let go of or the answer fails.
`Scheduler` implements it (`ImplementsAlarm`): it rings while a tick runs.

### AcceptLoop

The stream `Subscriber` and the consumer that the example has, step by step
within a poll: the `Sleep` of the back-off, the listener, the channel, the
strong count. Around it, in any order: a listener that gets a connection, an
error or its end; connections that send updates and close; the renewal task
that holds an `Arc` for the time of a poll; a stream that is handed to another
task; the timer. What matters are the wakers: a `Sleep` keeps that of its last
poll through a reset, and gives it up when it fires. `first_error`, `moved`,
`late` and `counted` are history variables; `late` counts the updates that are
sent after a poll has found the channel empty and before it counts the Arcs.

### Delivery, with Feed

One request from its callback to the feed that is printed. `Delivery` extends
`CallbackId`: the URL is made by the service or by a command, from an argument
with or without a trailing slash; the path is stripped and decoded; the
signature headers are folded; the body goes to the consumer buffer by buffer,
with the digest updated by each chunk; at the end the digest is compared.
Digests are what they are digests of, which is what is assumed of HMAC.
`RequestsAssumption` says what may come in: any headers, with digests by the
secret that the callback's hub was told or by none; that of another subscription
is random and not known where it is. A consumer may poll again after an error. `Feed` is the parser: the choice by
media type, topic and hubs from links (with the namespace rules for RSS), the
link of an entry. The crates that read XML are external.

### Commands and ExampleProgram

`Commands` is one run of `subscribe` or `unsubscribe`, with an error or a panic
at each point where the code has one; requests of `unsubscribe` are tasks that
run while the transaction is open, and a server answers the hubs from the
committed table. `ExampleProgram` is the process: one of `run` (construction,
then `AcceptLoop`), a command, or diesel's program with the migrations.

### Migrations

Every migration up and down, one action each, with the rows that the program of
each version writes between them (earlier releases are external), with and
without the enforcement of foreign keys, which depends on how SQLite was built.

## What the runs check

Deadlock is not checked in any run: the clock is bounded, and an idle service
waits for ever. `\* Faulty variant` operators in the modules are the
mutations named in `PROJECT.json`; each property is violated by at least one.

| run | instance | properties and what they show |
|---|---|---|
| `Service_hubs` | 2 hubs, 1 topic, 4 ids, margin 1, leases 1, 3 and 9 (at most the margin; longer; saturating at `I64Max` = 9), clock up to 3, no faults | `TypeOK`, `AtMostOneActive`, `RenewedInTime`, `NoSilentOrphan`, `RenewalUnderWay`, `KeyKept`, `TickMakesProgress`: renewals and verifications in any order lose no key, forget none, leave no orphan at a hub, and are in time |
| `Service_faults` | 1 key, 3 ids, leases 1 and 4, clock up to 3, so that a lease of 1 runs out at the hub; all five kinds of faults, 2 of them | `SchedulerCovers`, `HubAgrees`, `StaysServed`, `ImplementsLease`: what survives faults |
| `Service_live` | 1 key, 3 ids, lease 3, fair, no faults | `DueIsRenewed`, `RenewalCompletes`, `DueKeyGetsNewLease` |
| `Service_lost_renewal` | as above with one lost request | violates `DueKeyGetsNewLease` |
| `Concurrent_safety` | 2 threads, 1 key, 3 ids, lease 2, clock up to 2 (the lease is renewed before its end, at it, or not at all) | `ConcurrentTypeOK`, `AtMostOneActive`, `CoveredUnlessMissed`, `VerifiedRowKeepsKey`, `StaysServedOrAnswered`: which overlaps leave a row uncovered, and which a key without rows or service |
| `Concurrent_late_commit` | 1 thread, lease 3 | violates `CoversWhenQuiet` |
| `Concurrent_verify` | 2 threads | violates `VerificationKeepsKey` |
| `Concurrent_busy` | 1 thread | violates `RenewalGoesOn` |
| `Scheduler` | 2 threads, times 0 to 3, fair | `NoLostWakeup`, `StaysReachable`, `HastenHonoured`, `ImplementsAlarm`, `DueTicks`, `EndsAfterDrop` |
| `CallbackId_routing` | ids over the bytes 0, 1, 200; every text of up to 4 characters over six, and of 10 to 12 over two; for one id, up to 3 signature headers of 8 sorts, 5 media types and 4 bodies | `OwnCallbackAccepted`, `ClearedFromLastZero`, `AcceptedTextIsCanonical`, `CompleteIsSigned`, `SignedIsDelivered`, `NotMisattributed` |
| `CallbackId_roundtrip` | the same ids | violates `RoundTrip` |
| `Example` | a stream on 2 tasks, 1 connection, 1 update at a time, `MAX_BACKOFF` = 2, clock up to 5; commands on 3 ids, 3 hubs of which one is no URI, 2 topics, 5 answers of a topic URL; migrations with 3 subscriptions | `GivesUpAfterSeries`, `RetryWakesPoller`, `NothingLeftAtEnd`, `EndNoticed`, `KeepsServing`; `AskedOnSuccess`, `LeftoversBounded`; `ReferencesHold`, `LeasesSurvive` |

The bounds. Three ids are a row, the row that renews it and one more of the
same key, which is what a verification has to remove; the fourth gives two hubs
a row each and both renewals at once. Ids are reused when no hub and no message
mentions them, so histories are longer than the number of ids. `Subscribe`
leaves as many ids unused as there are keys, so that a renewal always finds
one. With margin 1, a lease of 1 is due when it starts, a lease of 3 has time
before, at and after its refresh time within the clock's bound, and a lease of
9 saturates. Two faults are an error that ends the renewal task and one more, or
a lost answer and the restart that follows. Ids (and threads) are symmetric in the runs without liveness.

A `MAX_BACKOFF` of 2 gives a series of two waits, 1 and 2, the first set from
the present and the second from the previous deadline; with five ticks of the
clock it fails at once, or succeeds and begins again with the old `Sleep`. Two
tasks are the one that polls and the one that a waker was left for. The strong
count is 1, 2 or 3 with one connection and the renewal task. The feeds name two
or three hubs, one of them bad, in both formats and with every way to declare a
prefix. Three subscriptions are an old and a new one of a renewal, and one apart.

Fairness. `FairSpec` assumes that the executor polls a woken task, that spawned
requests run to their end and that hubs verify what they receive. It assumes
nothing of users, faults or the clock. In `Scheduler` it is the executor and
the timer of tokio, a tick that returns, and a call of `hasten` that ends. The
clock is not fair: a property about a due tick starts when the time has come.
`ExampleSpec` assumes that a task that is woken is polled to the end of its poll
(`PollStream`) and that the timer fires (`FireSleep`). It does not assume that
the sender of a body ends it, or that a listener runs dry; `KeepsServing` says
what holds when the stream comes back to rest again and again, and not
otherwise: `print_all` reads one body at a time, and nothing is accepted
meanwhile.

### What was found

* `encode` cuts an id before its last zero byte, whatever lies above it
  (`src/util/callback_id.rs:6`). About 2.7 percent of random ids have a zero
  byte below a most significant byte that is not; their callbacks lead to
  another id, and the subscription is never verified. `RoundTripsExactly` proves
  that it is these ids and no others.
* A renewal request that is lost is not repeated (`src/subscriber/service.rs:82`):
  the old row is inactive by then, and ticks only look at active rows.
* A tick that asks for the next expiry between the hasten and the commit of a
  verification does not know the new row, and its result replaces the hastened
  tick (`service.rs:257`). The same holds of a hasten between that query and the
  store. `CoveredUnlessMissed` shows that there is no other way.
* A verification whose row is deleted after the look-up deletes every other row
  of the key, activates none and answers with the challenge (`service.rs:269`).
  Two verifications of one key can do this to each other, and so can a user who
  unsubscribes and subscribes anew. `VerifiedRowKeepsKey` shows that there is no
  other way.
* A commit between the first read and the first write of the renewal's
  transaction makes the tick fail, and renewals end for good (`service.rs:64`).

These are the findings, each a run that violates a statement of the repository.
Behaviours that the passing properties had to allow for, or that need no run:

* The comment on `Handle::hasten` (`scheduler.rs:116`) names the wrong case: it
  does nothing if the current next tick is *not* after the time given.
* The request of a renewal is spawned before its transaction commits
  (`service.rs:85`). On several threads a hub may be asked, and ask back, before
  the commit: it meets no row and gives up after the 404, and the commit
  deactivates the old row. `StaysServedOrAnswered` allows for the lease that runs
  out then; `RenewalUnderWay` says that on one thread this does not happen.
* An update that a connection sends between the poll of the channel and the count
  of the Arcs, before it closes, is lost with the stream (`subscriber.rs:183`).
  `NothingLeftAtEnd` shows that no other update is.
* A wait is added to the previous deadline (`backoff.rs:52`). If an error comes
  long after it, the new deadline has passed already, and errors escalate to the
  limit without a wait in between. Since the first of a series they still span
  the whole sum of waits (`GivesUpAfterSeries`).
* `increase` resets a `Sleep` that is kept from an earlier series without
  polling it, so the first wait of a second series wakes the task that polled
  the stream at the end of the first (`RetryWakesPoller`).
* A stream whose listener has ended waits for the others to drop the service,
  and nobody tells it (`subscriber.rs:185`, a TODO of the code). `EndNoticed`
  says that this is so only for an `Arc` that its last poll has counted, or for
  a poll within a wait.
* Only the builder of the service makes the callback end with a slash
  (`subscriber.rs:308`). A command that is given one without makes URLs that the
  service answers with 404 (`OwnCallbackAccepted`); the comment in `hub.rs:202`
  takes it as ensured.
* A hub that is not a URI panics after its row was created (`hub.rs:159`), and
  the row then makes every `unsubscribe` from its topic panic and roll back.
* With requests sent inside the transaction, a hub may be asked about rows that
  stay. It asks back, and is refused: `LeftoversBounded` says that this is all.
* A hub whose question arrives before the commit of `unsubscribe` is refused as
  well, and keeps a subscription whose row goes a moment later.
* A consumer that polls a body again after a signature mismatch gets an end
  without an error if a header signs the empty body: the verifier was reset.
  `to_bytes`, which the example uses, does not do that (`CompleteIsSigned`).
* The last migration's way back drops `subscriptions` after the leases were
  copied to a table that refers to it. If foreign keys are enforced, all leases
  are deleted, though no subscription (`LeasesSurvive`).
* A hub ends a lease at its expiry and tells nobody. A row stays active in the
  table past that only while the renewal task has ended or is late (`HubAgrees`),
  and a key is no longer served then, or once its row is inactive and no new
  lease has followed (`StaysServed`, `StaysServedOrAnswered`).

## What is proved

Every safety property that a passing run checks is a theorem; eight modules hold
the proofs. Each theorem is of every value of the constants that satisfies the
assumptions of its module; those, as `StoreAssumption`, `ServiceAssumption` or
`RequestsAssumption`, are evaluated by TLC in each run.

| module | theorem | states |
|---|---|---|
| `SubscriberServiceProofs` | `TypeCorrect` | `Spec => []TypeOK`: expiries stay in the i64, and no earlier than the margin |
| | `OneActive` | `Spec => []AtMostOneActive` |
| | `SchedulerCoversActive` | `Spec => []SchedulerCovers` |
| | `RenewsInTime` | `Spec => []RenewedInTime` |
| | `TicksMakeProgress` | `Spec => TickMakesProgress` |
| | `KeysAreKept` | `Spec => KeyKept` |
| `SubscriberLeaseProofs` | `ServiceKeepsLeases` | `Spec => ImplementsLease` |
| `SubscriberHubProofs` | `HubsAgree`, `KeysStayServed` | `Spec => []HubAgrees`, `Spec => StaysServed`, under `CallbackRoundTrips` |
| | `OrphansAreTold`, `RenewalsUnderWay` | `Spec => []NoSilentOrphan`, `[]RenewalUnderWay`, under `CallbackRoundTrips` and `NothingLost` |
| `SchedulerProofs` | `SchedulerTypeCorrect`, `WakeupsAreKept`, `TaskStaysReachable`, `HastensAreHonoured` | `Spec => []TypeOK`, `[]NoLostWakeup`, `[]StaysReachable`, `[]HastenHonoured` |
| | `SchedulerIsAlarm` | `Spec => ImplementsAlarm` |
| `AcceptLoopProofs` | `AcceptTypeCorrect`, `GivesUp`, `RetriesWakePoller`, `NothingIsLeft`, `EndIsNoticed` | `AcceptSpec => []AcceptTypeOK`, `[]GivesUpAfterSeries`, `[]RetryWakesPoller`, `[]NothingLeftAtEnd`, `[]EndNoticed` |
| `ExampleProofs` | `HubsAreAskedOnSuccess`, `LeftoversStayBounded` | `CommandsSpec => []AskedOnSuccess`, `[]LeftoversBounded` |
| | `ReferencesAlwaysHold`, `LeasesAlwaysSurvive` | `MigrationSpec => []ReferencesHold`, `LeasesSurvive` |
| | `ExampleIsSafe` | `ExampleSpec` implies the eight safety properties of the run `Example` |
| `ConcurrentServiceProofs` | `ConcurrentTypeCorrect`, `CoversUnlessMissed` | `ConcurrentSpec => []ConcurrentTypeOK`, `[]CoveredUnlessMissed` |
| | `ConcurrentOneActive`, `VerifiedRowsKeepKeys`, `KeysStayServedOrAnswered` | `ConcurrentSpec => []AtMostOneActive`, `VerifiedRowKeepsKey`, `StaysServedOrAnswered`, under `CallbackRoundTrips` |
| `DeliveryProofs` | `RoundTripsExactly` | for which ids of eight bytes `decode(encode(id))` is `id` |
| | `ClearsFromLastZero`, `AcceptsCanonicalTexts` | `DeliverySpec => []ClearedFromLastZero`, `[]AcceptedTextIsCanonical` |
| | `KnowsOwnCallbacks`, `CompletesSigned`, `DeliversSigned`, `AttributesRightly` | `DeliverySpec => []OwnCallbackAccepted`, `[]CompleteIsSigned`, `[]SignedIsDelivered`, `[]NotMisattributed` |

**The service.** `ServiceAssumption` asks that the margin does not exceed the time at which the
process starts, and that the clock plus the margin stays below `I64Max`;
outside of it `refresh_time` wraps or the threshold of a renewal panics.

The inductive invariant is `IInv == TypeOK /\ AtMostOneActive /\ SchedulerInv`.
`SchedulerCovers` alone is not inductive: a `hasten` moves `next_tick` and not
the `Sleep`, so the promise has to be made of the earlier of the two, together
with the fact that a `Sleep` may be later than `next_tick` only while a wake-up
is pending. `TypeOK` carries the lower bound of expiries that keeps
`refresh_time` from wrapping and monotonic. The lemmas come in layers: the least
expiry of a table and what each update keeps; arithmetic of refresh times;
what each of the service's operations does to rows and keys (`RenewTable` and
`VerifyTable` for any table, so that they serve drafts too); one step of
`NextIInv` for each action; the theorems. `KeysAreKept` needs one thing more,
that a verification keeps the row it activates and touches no other key.

`ServiceKeepsLeases` uses `IInv` and shows each action to be a step of `Lease` or
a stutter: that a verification leaves one lease to the key, and that the
threshold of a renewal takes the rows that are `Due`, all of them and no others.

**Ids and hubs.** `HubsAgree`, `KeysStayServed`, `OrphansAreTold` and
`RenewalsUnderWay` need to know that an
id in a request or at a hub is that of a row of the same key, or of none
(`KeysInv`): rows never change their key, and an id that somebody knows is not
drawn again. They assume that `decode` gives back what was encoded
(`CallbackRoundTrips`), which `CallbackId_roundtrip` refutes for some ids and
`RoundTripsExactly` proves for all others; that is the price of those ids. `NothingLost` excludes lost requests and
restarts, after which an orphan is indeed not told. `WhoDeletes` and
`RemovedAreGone` say by which steps a row goes, and that a hub ends a
subscription only after that. `HeldInv` is what is inductive of `HubAgrees`: an
active row that the hub has heard of is held, with the end of its lease the
expiry in the table, or that has passed. The rest is `LateIfExpired`, which uses
that the scheduler covers active rows (`IInv`): a row that is past its expiry is
past its refresh time, so the task is due or has ended. `KeysStayServed` then
looks at how a key can lose its service: by the row, which `WhoDeletes` answers;
by a hub that ends the subscription of a row that is gone; or by `LeaseEnds`,
where the two together say that no active row of the key had any of its lease
left. `RenewalUnderWay` is inductive together with `IInv` and `KeysInv`.

**Threads.** `CInv` is the inductive invariant of `ConcurrentService` whatever
the callbacks: what each worker and the tick hold at each stage (`JobsInv`), that
only one of them is between its first write and its commit (`WriterInv`), that a
snapshot that is not stale is the table (`SnapshotInv`), that the draft is what
the writer has made of it (`DraftInv`), and `CoverInv`: the wake-up covers the
active rows, the one that a verification has written but not committed included,
except those that are in `missed`; and what a tick is about to store covers
them. From this follows `CoveredUnlessMissed`: `missed` are the rows
whose hasten or commit the last query of a tick did not see, and no others.

`KInv` is about keys. With threads even `AtMostOneActive` needs
`CallbackRoundTrips`: a verification keeps the key that it looked up, and the row
that its callback leads to may be deleted, and its id drawn again for another
key, before it writes; an id that a hub still knows is not drawn again, which
protects the row only if the callback leads to that id. The draft keeps the
rows of every key but those that its writer deletes (`DraftKeepsRows`).
`HeldOrAnswered` takes the place of `HeldInv`: an active row is held, has
expired, or the answer to its hub is still with the worker that has activated
it; the job and the draft therefore agree on the end of the lease (`DraftInv`).
`WorkerAssumption` says that no worker is called like the renewal task or like
nobody.

**The scheduler.** `SchedulerInv` says of each point of a poll what a hasten
finds: the waker is registered or the task is woken (`WakeInv`), what was loaded
of `next_tick` is still its value or a wake comes, and the `Sleep` is never
earlier than `next_tick` outside of a reset (`SleepInv`), from which follows that
the alarm does not ring early.

**The stream.** `SeriesInv` is the closed form of the waits,
`deadline = first_error + 2 * wait - 1`, which gives `GivesUpAfterSeries`.
`WakerInv` follows the waker of the `Sleep`, also of one that is kept without a
wait. `EndInv` says what a poll knows at each of its steps, of the listener and of
the channel: when the Arcs are counted, what the channel holds has been sent
since it was found empty. A stream that counted before it polled the channel
would break it (`AcceptNone_SkipsChannel`).

**The commands.** `SubscribeInv` and `UnsubscribeInv` bound what is left behind:
all rows but the one in `ids` are known to their hubs; the committed table is
that of the start or that without the doomed rows. `AskedInv` and `ToldInv` are
what success takes: each hub is done or to do, each doomed row is to be deleted,
has a task, or its hub has been asked. `CommandsAssumption` says that links are
strings, as topics and hubs are.

**The migrations.** `ReferencesHold` is inductive only together with the tables
that a version lacks being empty (`TablesInv`), as a migration down makes them
anew. **The process** is a stutter of its parts, so `ExampleIsSafe` combines
their theorems.

**Callback ids.** Base64 works on groups of three bytes and four characters:
`EncodedGroup` and `DecodedGroup` give the digits of the g-th group in closed
form, from which follow, for sequences of any length, `DecodeOfEncode`,
`EncodeOfDecode` for the texts that are accepted, and `EncodeIsValid`. No
induction is needed. `CutAtLastZero` is what the search for the last zero yields.

**Deliveries.** The loops over headers and buffers are recursive functions on an
interval. Induction is done on sets (`UpTo`: a set that contains zero and each
successor contains the bound), by the least element that is missing;
`LoopExists` gives the function that a recursion defines, `TakesStrongest` what
the loop over the headers takes, `FlattenRounds` the chunks of the first
buffers. `DeliveryInv` is inductive: what is not called any more was decoded, or
its path was refused (`AnswerInv`); the consumer has got the buffers that are not
unread (`ProgressInv`); the digest is, by the method of the signature and with
the secret of the subscription, of what was delivered, until a mismatch resets
it (`VerifierInv`). `CompleteIsSigned` is not inductive without the last, as it
says nothing of a body that is still being read.

Only model-checked:

* all liveness properties, since fairness and ENABLED are out of the prover's
  reach: `DueIsRenewed`, `RenewalCompletes`, `DueKeyGetsNewLease`, `DueTicks`,
  `EndsAfterDrop`, `KeepsServing`;
* the violations, each on its instance.

`AtMostOneActive` and `KeyKept` hold under faults as well; they are proved for
all combinations of them, and checked by TLC without.

## What is not modelled

* Liveness beyond one fair instance, and any bound on how long a hub takes.
* `src/util`: aliases of traits, conversions between clocks, deserialization,
  mocks. A Unix time is the time of a tick throughout: the overflow of an
  `Instant` (`util/time.rs:46`) is out of the models.
* The macro of `diesel1.rs` that parses the names of columns at compile time.
* A margin that exceeds the present time (`service.rs:291`): excluded by
  `ServiceAssumption`.
* A draw of 64 random bits that repeats an id which a hub still knows (`Unused`).
* Hubs that end a lease before its time, or extend it without being asked. A
  hub that counts the lease from a later time than the service holds the
  subscription longer than the table says, which is `LeaseEnds` taken late.
* Errors of SQLite other than the refusal of a first write.
* Logging, HTTP status codes that are only logged, the layout of what is
  printed, the reading of XML.

## Plan

Done, in this order: the life cycle with faults and liveness; the scheduler;
callback ids; threads and transactions; the stream; the delivery of content and
the parser; the commands and the process; the migrations; the refinements
`Lease` and `Alarm`; the proofs above. What is left:

1. Faults in `ConcurrentService`.
2. `Lease` as the abstract specification of `ConcurrentService` too, up to the
   behaviours that `CoveredUnlessMissed` and `VerifiedRowKeepsKey` allow.
3. The parser: what `take_meta` finds, as a property of every document.
