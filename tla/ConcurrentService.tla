------------------------- MODULE ConcurrentService -------------------------
(***************************************************************************)
(* SubscriberService on a multi-threaded runtime, with the pool of SQLite  *)
(* connections of the example (example/src/common.rs: WAL, a busy timeout).*)
(* Threads run Service::call, for verifications of different requests, and *)
(* the renewal task at the same time: what SubscriberService does in one   *)
(* action is here as many as it has accesses to shared state.              *)
(*                                                                         *)
(* A statement outside of a transaction is atomic.  A transaction reads    *)
(* first, from a snapshot, and becomes the only writer with its first      *)
(* write, which fails at once if the table has changed since or if another *)
(* transaction writes: SQLite's answer to a BEGIN that is DEFERRED, as     *)
(* diesel's is, for which no busy timeout waits.  Nobody else sees its     *)
(* writes before it commits.  Requests are spawned, and may be sent,       *)
(* before.                                                                 *)
(*                                                                         *)
(* The faults of SubscriberService are left out: what goes wrong here goes *)
(* wrong by the order of the steps alone.                                  *)
(***************************************************************************)
EXTENDS SubscriberService

CONSTANT Worker    \* threads that run Service::call

None == "none"     \* no actor

ASSUME WorkerAssumption == {"renewal", None} \cap Worker = {}

Actor == Worker \cup {"renewal"}    \* who runs transactions on the pool

VARIABLES
    job,     \* what each worker is doing
    tick,    \* what Tick::tick is doing
    writer,  \* the actor whose transaction writes, or None
    draft,   \* the table as that transaction sees it; empty without one
    stale,   \* actors whose snapshot is older than the table
    missed   \* history: rows that the last tick could not know of

concurrency == <<job, tick, writer, draft, stale, missed>>

allvars == <<vars, concurrency>>

Idle == [stage |-> "idle"]

\* What the code still uses of its local variables, stage by stage.
Job ==
    {Idle}
    \cup [stage : {"hasten", "begin"}, m : Request, hub : Hub, expires_at : Nat]
    \cup [stage : {"write"}, m : Request, hub : Hub, expires_at : Nat, old : SUBSET Id]
    \cup [stage : {"commit", "reply"}, m : Request, until : Nat]

TickState ==
    {Idle}
    \cup [stage : {"write"}, threshold : Nat, expiring : SUBSET Id]
    \cup [stage : {"commit", "query"}]
    \cup [stage : {"store"}, result : 0..NoTick]

ConcurrentTypeOK ==
    /\ TypeOK
    /\ job \in [Worker -> Job]
    /\ tick \in TickState
    /\ writer \in Actor \cup {None}
    /\ draft \in Table
    /\ stale \subseteq Actor
    /\ missed \subseteq Id

ConcurrentInit ==
    /\ Init
    /\ job = [w \in Worker |-> Idle]
    /\ tick = Idle
    /\ writer = None
    /\ draft = EmptyTable
    /\ stale = {}
    /\ missed = {}

-----------------------------------------------------------------------------
(* Transactions                                                            *)

\* The actors that have read and not written yet.
Reading == {w \in Worker : job[w].stage = "write"}
               \cup (IF tick.stage = "write" THEN {"renewal"} ELSE {})

\* A new version of the table outdates the snapshots there are.
Outdate == stale' = IF db' = db THEN stale ELSE stale \cup Reading

\* The first write of the actor is refused.
Busy(actor) == writer # None \/ actor \in stale

BeginWrite(actor, t) ==
    /\ writer' = actor
    /\ draft' = t

Commit(actor) ==
    /\ writer = actor
    /\ db' = draft
    /\ writer' = None
    /\ draft' = EmptyTable
    /\ Outdate

-----------------------------------------------------------------------------
(* Service::verify_intent for hub.mode=subscribe                           *)

\* The hub's request is parsed and the inactive row looked up.  (A hub does
\* not verify one request twice at a time.)
Check(w, m, lease) ==
    /\ job[w] = Idle
    /\ Pending(m, "subscribe")
    /\ \A v \in Worker : job[v] # Idle => job[v].m # m
    /\ \E hub \in get_hub_of_inactive_subscription(db, Callback[m.id], m.topic) :
           job' = [job EXCEPT ![w] = [stage |-> "hasten", m |-> m, hub |-> hub,
                                      expires_at |-> expiry(lease)]]
    /\ UNCHANGED <<vars, tick, writer, draft, stale, missed>>

\* A hasten after the query of a tick is overwritten by its result.
Hasten(w) ==
    /\ job[w].stage = "hasten"
    /\ hasten(refresh_time(job[w].expires_at))
    /\ job' = [job EXCEPT ![w].stage = "begin"]
    /\ missed' = IF tick.stage = "store"
                 THEN missed \cup {Callback[job[w].m.id]} ELSE missed
    /\ UNCHANGED <<db, now, sleep, renewer, outbox, inbox, hub_subs, history,
                   tick, writer, draft, stale>>

\* The transaction begins, and reads the old subscriptions.
ReadOld(w) ==
    /\ job[w].stage = "begin"
    /\ job' = [job EXCEPT ![w] =
                  [stage |-> "write", m |-> @.m, hub |-> @.hub,
                   expires_at |-> @.expires_at,
                   old |-> get_old_subscriptions(db, Callback[@.m.id], @.hub, @.m.topic)]]
    /\ UNCHANGED <<vars, tick, writer, draft, stale, missed>>

\* Faulty variant: the old rows are left where they are.
RemoveAndActivate_KeepsOld(w) ==
    LET j == job[w]
    IN  /\ j.stage = "write" /\ ~Busy(w)
        /\ BeginWrite(w, activate_subscription(db, Callback[j.m.id], j.expires_at))
        /\ outbox' = outbox \cup Requests("unsubscribe", j.old, j.hub, j.m.topic)
        /\ job' = [job EXCEPT ![w] = [stage |-> "commit", m |-> j.m,
                                      until |-> j.expires_at]]
        /\ UNCHANGED <<db, now, scheduler, inbox, hub_subs, history, tick, stale, missed>>

\* The old rows are deleted, their requests are spawned, and the new row is
\* activated, if it is still there: the result of the UPDATE is not used.
RemoveAndActivate(w) ==
    LET j == job[w]
    IN  /\ j.stage = "write" /\ ~Busy(w)
        /\ BeginWrite(w, activate_subscription(delete_subscriptions(db, j.old),
                                               Callback[j.m.id], j.expires_at))
        /\ outbox' = outbox \cup Requests("unsubscribe", j.old, j.hub, j.m.topic)
        /\ job' = [job EXCEPT ![w] = [stage |-> "commit", m |-> j.m,
                                      until |-> j.expires_at]]
        /\ UNCHANGED <<db, now, scheduler, inbox, hub_subs, history, tick, stale, missed>>

\* It is an error for the hub, which asks again.
VerifyBusy(w) ==
    /\ job[w].stage = "write" /\ Busy(w)
    /\ job' = [job EXCEPT ![w] = Idle]
    /\ stale' = stale \ {w}
    /\ UNCHANGED <<vars, tick, writer, draft, missed>>

CommitVerify(w) ==
    /\ job[w].stage = "commit"
    /\ Commit(w)
    /\ job' = [job EXCEPT ![w].stage = "reply"]
    /\ UNCHANGED <<now, scheduler, outbox, inbox, hub_subs, history, tick, missed>>

\* The challenge reaches the hub, which counts the lease from its request.
Reply(w) ==
    LET m == job[w].m
    IN  /\ job[w].stage = "reply"
        /\ inbox' = inbox \ {m}
        /\ hub_subs' = hub_subs \cup {Subscribed(m, job[w].until)}
        /\ job' = [job EXCEPT ![w] = Idle]
        /\ UNCHANGED <<db, now, scheduler, outbox, history, tick, writer, draft,
                       stale, missed>>

-----------------------------------------------------------------------------
(* Scheduler::poll and Tick::tick                                          *)

\* The Sleep has elapsed.  The transaction begins with the expiring rows; if
\* there are none, that is all of it.
TickBegin ==
    /\ tick = Idle
    /\ PollDue
    /\ Wakeup <= now
    /\ tick' = IF Expiring = {} THEN [stage |-> "query"]
               ELSE [stage |-> "write", threshold |-> renewal_threshold,
                     expiring |-> Expiring]
    /\ sleep' = Wakeup
    /\ woken' = FALSE
    /\ UNCHANGED <<db, now, next_tick, renewer, outbox, inbox, hub_subs, history,
                   job, writer, draft, stale, missed>>

\* New rows are inserted, their requests are spawned, and the old rows are
\* deactivated.
Renew ==
    /\ tick.stage = "write" /\ ~Busy("renewal")
    /\ \E ids \in SUBSET Unused : \E g \in Bijection(ids, tick.expiring) :
           /\ BeginWrite("renewal",
                  deactivate_subscriptions_expire_before(
                      create_subscriptions(db, [i \in ids |-> Key(db[g[i]])]),
                      tick.threshold))
           /\ outbox' = outbox \cup RenewalRequests(ids, g)
    /\ tick' = [stage |-> "commit"]
    /\ UNCHANGED <<db, now, scheduler, inbox, hub_subs, history, job, stale, missed>>

\* The first write is refused: Tick::tick fails, and the future completes.
RenewBusy ==
    /\ tick.stage = "write" /\ Busy("renewal")
    /\ renewer' = "stopped"
    /\ tick' = Idle
    /\ stale' = stale \ {"renewal"}
    /\ UNCHANGED <<db, now, next_tick, sleep, woken, outbox, inbox, hub_subs,
                   history, job, writer, draft, missed>>

CommitRenewal ==
    /\ tick.stage = "commit"
    /\ Commit("renewal")
    /\ tick' = [stage |-> "query"]
    /\ UNCHANGED <<now, scheduler, outbox, inbox, hub_subs, history, job, missed>>

\* The worker has hastened the tick and not committed its row.
Uncommitted(w) == job[w].stage \in {"begin", "write", "commit"}

\* Faulty variant: the result of the query is taken for the next tick.
QueryNextExpiry_Raw ==
    /\ tick.stage = "query"
    /\ tick' = [stage |-> "store", result |-> get_next_expiry(db)]
    /\ missed' = {Callback[job[w].m.id] : w \in {v \in Worker : Uncommitted(v)}}
    /\ UNCHANGED <<vars, job, writer, draft, stale>>

\* get_next_expiry sees every row but those.
QueryNextExpiry ==
    /\ tick.stage = "query"
    /\ tick' = [stage |-> "store", result |-> tick_result(db)]
    /\ missed' = {Callback[job[w].m.id] : w \in {v \in Worker : Uncommitted(v)}}
    /\ UNCHANGED <<vars, job, writer, draft, stale>>

\* Faulty variant: the Sleep is dropped, as if there was no next tick.
StoreTick_NoSleep ==
    /\ tick.stage = "store"
    /\ next_tick' = tick.result
    /\ sleep' = NoTick
    /\ tick' = Idle
    /\ UNCHANGED <<db, now, woken, renewer, outbox, inbox, hub_subs, history,
                   job, writer, draft, stale, missed>>

StoreTick ==
    /\ tick.stage = "store"
    /\ next_tick' = tick.result
    /\ sleep' = tick.result
    /\ tick' = Idle
    /\ UNCHANGED <<db, now, woken, renewer, outbox, inbox, hub_subs, history,
                   job, writer, draft, stale, missed>>

-----------------------------------------------------------------------------
(* What SubscriberService does in one statement or transaction             *)

\* The commands subscribe and unsubscribe are processes of their own.
UserStep(hub, topic) ==
    /\ writer = None
    /\ Subscribe(hub, topic) \/ Unsubscribe(hub, topic)
    /\ Outdate
    /\ UNCHANGED <<job, tick, writer, draft, missed>>

\* The hub's other exchanges are one query each.
HubStep(m) ==
    /\ \A w \in Worker : job[w] # Idle => job[w].m # m
    /\ VerifySubscribeRejected(m) \/ VerifyUnsubscribe(m) \/ VerifyUnsubscribeRejected(m)
    /\ UNCHANGED concurrency

PollStep == tick = Idle /\ PollPending /\ UNCHANGED concurrency

SendStep(m) == SendRequest(m) /\ UNCHANGED concurrency

WorkerStep(w) == Hasten(w) \/ ReadOld(w) \/ RemoveAndActivate(w) \/ VerifyBusy(w)
                     \/ CommitVerify(w) \/ Reply(w)

TickStep == TickBegin \/ Renew \/ RenewBusy \/ CommitRenewal \/ QueryNextExpiry
                \/ StoreTick

ConcurrentNext ==
    \/ \E hub \in Hub, topic \in Topic : UserStep(hub, topic)
    \/ \E w \in Worker, m \in inbox, lease \in Lease : Check(w, m, lease)
    \/ \E w \in Worker : WorkerStep(w)
    \/ TickStep
    \/ \E m \in inbox : HubStep(m)
    \/ PollStep
    \/ \E m \in outbox : SendStep(m)
    \/ \E s \in hub_subs : (PushGone(s) \/ LeaseEnds(s)) /\ UNCHANGED concurrency
    \/ Advance /\ UNCHANGED concurrency

ConcurrentSpec == ConcurrentInit /\ [][ConcurrentNext]_allvars

\* Threads run what they have begun, the executor polls the renewal task,
\* requests are sent, and hubs verify what they receive.
ConcurrentFairness ==
    /\ WF_allvars(TickStep)
    /\ WF_allvars(PollStep)
    /\ \A w \in Worker : WF_allvars(WorkerStep(w))
    /\ \A m \in Request :
          /\ WF_allvars(SendStep(m))
          /\ WF_allvars(HubStep(m))
          /\ WF_allvars(\E w \in Worker, lease \in Lease : Check(w, m, lease))

ConcurrentFairSpec == ConcurrentSpec /\ ConcurrentFairness

-----------------------------------------------------------------------------
(* Properties                                                              *)

\* A row is covered, unless its verification overlapped the last tick: it
\* had hastened the tick, but not committed, when the tick asked for the
\* next expiry, or hastened it after that and before the result was stored.
CoveredUnlessMissed ==
    renewer = "running" /\ tick = Idle =>
        \A i \in Active(db) \ missed :
            EffectiveWakeup <= refresh_time(db[i].expires_at)

\* Every active row is covered once no one is busy: what the documentation
\* of RenewSubscriptions promises.
CoversWhenQuiet ==
    renewer = "running" /\ tick = Idle /\ (\A w \in Worker : job[w] = Idle) =>
        \A i \in Active(db) : EffectiveWakeup <= refresh_time(db[i].expires_at)

\* A verification removes old subscriptions: it never takes the last row of
\* a key with it.
VerificationKeepsKey ==
    [][\A hub \in Hub, topic \in Topic :
           RowsOf(db, hub, topic) # {} /\ RowsOf(db', hub, topic) = {}
               => UserStep(hub, topic)]_allvars

\* The row was looked up, and was gone before the transaction.
VerifiedTooLate(w) == CommitVerify(w) /\ Callback[job[w].m.id] \notin Rows(db)

\* Only such a verification, or the user, leaves a key without rows: a
\* verification whose row is there keeps it, whatever the others commit
\* between its look-up and its own commit.
VerifiedRowKeepsKey ==
    [][\A hub \in Hub, topic \in Topic :
           RowsOf(db, hub, topic) # {} /\ RowsOf(db', hub, topic) = {}
               => \/ UserStep(hub, topic)
                  \/ \E w \in Worker : VerifiedTooLate(w)]_allvars

\* A key that is served, or about to be because the answer is on its way to
\* the hub.
ServedOrAnswering(hub, topic) ==
    \/ Served(hub, topic)
    \/ \E w \in Worker : /\ job[w].stage = "reply"
                         /\ job[w].m.hub = hub /\ job[w].m.topic = topic
                         /\ Callback[job[w].m.id] \in RowsOf(db, hub, topic)

\* The lease of a subscription at a hub runs out for want of a renewal: the
\* tick is late, in the middle of its work or asleep for want of a hasten
\* that it missed, or it has run and no lease has followed.
LapsesOnThreads(hub, topic) ==
    /\ \/ RenewalLate \/ tick # Idle
       \/ RowsOf(db, hub, topic) \cap Active(db) \subseteq missed
    /\ \E s \in hub_subs : LeaseEnds(s)

\* Renewal is seamless on threads, too: a key stays served until the user
\* unsubscribes, a verification that comes too late removes the row that it
\* did not know of, or the lease runs out unrenewed.
StaysServedOrAnswered ==
    [][\A hub \in Hub, topic \in Topic :
           ServedOrAnswering(hub, topic) /\ ~ServedOrAnswering(hub, topic)'
               => \/ UserStep(hub, topic)
                  \/ \E w \in Worker : VerifiedTooLate(w)
                  \/ LapsesOnThreads(hub, topic)]_allvars

\* Renewals go on: nothing but a fault, and there is none here, ends the
\* task that is to drive them.
RenewalGoesOn == renewer = "running"

=============================================================================
