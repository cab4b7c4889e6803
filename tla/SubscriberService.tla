------------------------- MODULE SubscriberService -------------------------
(***************************************************************************)
(* The subscriber: its Service (src/src/subscriber/service.rs), the        *)
(* requests it sends to hubs (src/src/hub.rs), the renewal task            *)
(* (renew_subscriptions.rs driven by scheduler.rs) and the way             *)
(* subscriber.rs starts them, composed with the subscription table and     *)
(* with hubs as the code and the WebSub exchange need them.                *)
(*                                                                         *)
(* An action is one synchronous stretch of code: Service::call and         *)
(* Scheduler::poll contain no await, so on a current-thread runtime no     *)
(* task runs inside them.  The requests they spawn are separate tasks, and *)
(* run later, in any order.                                                *)
(*                                                                         *)
(* Times are Unix times in seconds.  Ids that a hub or a message still     *)
(* mentions are not picked again: the code draws 64 random bits.           *)
(***************************************************************************)
EXTENDS SubscriptionStore, Functions

CONSTANTS
    Margin,     \* Builder::renewal_margin
    Lease,      \* the lease_seconds a hub may grant
    I64Max,     \* i64::MAX
    Start,      \* the time at which the first process starts
    MaxTime,    \* bound on the clock
    Faults,     \* the faults of this instance, a subset of FaultKinds
    MaxFaults,  \* bound on their number
    Callback    \* callback_id::decode after callback_id::encode

FaultKinds ==
    {"lose_request",  \* a request never reaches its hub, or the hub drops it
     "lose_reply",    \* a hub misses the answer to its verification
     "rollback",      \* a transaction of a verification is rolled back
     "tick_error",    \* an error ends the renewal task
     "restart"}       \* the process ends and is started again

\* The margin reaches back from Start to the epoch at most, and the clock
\* plus the margin stays an i64: otherwise the code panics or wraps.
ASSUME ServiceAssumption ==
    /\ Margin \in Nat /\ Start \in Nat /\ MaxTime \in Nat /\ I64Max \in Nat
    /\ Lease \subseteq Nat
    /\ Margin <= Start
    /\ Start + MaxTime + Margin < I64Max
    /\ Faults \subseteq FaultKinds
    /\ MaxFaults \in Nat
    /\ Callback \in [Id -> Id]

U64Max == 2 * I64Max + 1
NoTick == U64Max    \* u64::MAX stands for "no tick" in Handle::next_tick

Earlier(a, b) == IF a <= b THEN a ELSE b

VARIABLES
    db,         \* the table
    now,        \* the clock
    next_tick,  \* Handle::next_tick
    sleep,      \* the deadline of Scheduler::sleep; NoTick is its None
    woken,      \* the renewal task is woken, by its spawning or by a hasten
    renewer,    \* "running", or "stopped" once its future has completed
    outbox,     \* requests spawned and not sent yet
    inbox,      \* requests hubs have received and not verified yet
    hub_subs,   \* the subscriptions hubs hold
    faults,     \* the number of faults so far
    unheard     \* history: rows whose last activation the hub has not heard of

vars == <<db, now, next_tick, sleep, woken, renewer, outbox, inbox, hub_subs,
          faults, unheard>>

history == <<faults, unheard>>

scheduler == <<next_tick, sleep, woken, renewer>>

Request == [mode : {"subscribe", "unsubscribe"},
            hub : Hub, topic : Topic, id : Id]

\* What a hub holds: whom it delivers to, and until when.
HubSub == [hub : Hub, topic : Topic, id : Id, until : Nat]

TypeOK ==
    /\ db \in Table
    /\ \A i \in Active(db) : db[i].expires_at \in Margin..I64Max
    /\ now \in Start..(Start + MaxTime)
    /\ next_tick \in 0..NoTick
    /\ sleep \in 0..NoTick
    /\ woken \in BOOLEAN
    /\ renewer \in {"running", "stopped"}
    /\ outbox \subseteq Request
    /\ inbox \subseteq Request
    /\ hub_subs \subseteq HubSub
    /\ faults \in 0..MaxFaults
    /\ unheard \subseteq Id

-----------------------------------------------------------------------------
(* Helpers of the code                                                     *)

\* The u64 subtraction wraps; ServiceAssumption keeps it from doing so for
\* an expiry that the service has computed itself.
refresh_time(expires_at) ==
    IF Margin <= expires_at THEN expires_at - Margin
                            ELSE U64Max + 1 + expires_at - Margin

\* Faulty variant: the expiry in an i64 without the saturation.
expiry_NoSaturation(lease) == now + lease

expiry(lease) == Earlier(now + lease, I64Max)

\* Faulty variant: only what has expired already is renewed.
renewal_threshold_NoMargin == now

renewal_threshold == now + Margin + 1

\* The result of Tick::tick on the table t, as next_tick stores it.
tick_result(t) ==
    LET e == get_next_expiry(t) IN IF e = Null THEN NoTick ELSE refresh_time(e)

\* Faulty variant: the service starts with a tick at the expiry itself.
first_tick_NoMargin(t) ==
    LET e == get_next_expiry(t) IN IF e = Null THEN NoTick ELSE e

\* The first tick of Builder::build_service: the subtraction saturates.
first_tick(t) ==
    LET e == get_next_expiry(t)
    IN  IF e = Null THEN NoTick
        ELSE IF Margin <= e THEN e - Margin ELSE 0

Requests(mode, ids, hub, topic) ==
    {[mode |-> mode, hub |-> hub, topic |-> topic, id |-> i] : i \in ids}

\* Ids that create_subscription may pick.
Unused == {i \in Id \ Rows(db) : /\ \A m \in outbox \cup inbox : m.id # i
                                 /\ \A s \in hub_subs : s.id # i}

Key(row) == [hub |-> row.hub, topic |-> row.topic]

-----------------------------------------------------------------------------
(* The handle of the scheduler                                             *)

\* Faulty variant: the minimum is stored but the task is not woken.
hasten_NoWake(t) == /\ next_tick' = Earlier(next_tick, t)
                    /\ UNCHANGED woken

hasten(t) == /\ next_tick' = Earlier(next_tick, t)
             /\ woken' = (woken \/ t < next_tick)

-----------------------------------------------------------------------------
(* The user: subscribe and unsubscribe                                     *)

Init ==
    /\ db = EmptyTable
    /\ now = Start
    /\ next_tick = first_tick(EmptyTable)
    /\ sleep = first_tick(EmptyTable)
    /\ woken = TRUE
    /\ renewer = "running"
    /\ outbox = {}
    /\ inbox = {}
    /\ hub_subs = {}
    /\ faults = 0
    /\ unheard = {}

\* hub::subscribe: the row is inserted, inactive, and the request is sent by
\* a task of its own.  (Bound: the ids left suffice to renew every key.)
Subscribe(hub, topic) ==
    \E id \in Unused :
        /\ Cardinality(Unused) > Cardinality(Hub \X Topic)
        /\ db' = create_subscriptions(db,
                     [i \in {id} |-> [hub |-> hub, topic |-> topic]])
        /\ outbox' = outbox \cup Requests("subscribe", {id}, hub, topic)
        /\ UNCHANGED <<now, scheduler, inbox, hub_subs, history>>

\* The command `unsubscribe`: hub::unsubscribe for every row of the key, in
\* one transaction, each row deleted before its request is sent.
Unsubscribe(hub, topic) ==
    LET ids == RowsOf(db, hub, topic)
    IN  /\ ids # {}
        /\ db' = delete_subscriptions(db, ids)
        /\ outbox' = outbox \cup Requests("unsubscribe", ids, hub, topic)
        /\ UNCHANGED <<now, scheduler, inbox, hub_subs, history>>

\* A spawned request reaches its hub.
SendRequest(m) ==
    /\ m \in outbox
    /\ outbox' = outbox \ {m}
    /\ inbox' = inbox \cup {m}
    /\ UNCHANGED <<db, now, scheduler, hub_subs, history>>

-----------------------------------------------------------------------------
(* The renewal task                                                        *)

Wakeup == Earlier(sleep, next_tick)

PollDue == renewer = "running" /\ (woken \/ sleep <= now)

\* Scheduler::poll when the sleep, reset to an earlier next_tick or set
\* where there was none, has not elapsed.
PollPending ==
    /\ PollDue
    /\ Wakeup > now
    /\ sleep' = Wakeup
    /\ woken' = FALSE
    /\ UNCHANGED <<db, now, next_tick, renewer, outbox, inbox, hub_subs, history>>

Expiring == get_subscriptions_expire_before(db, renewal_threshold)

\* The requests for new subscriptions with these ids, each for the key of
\* the row g[i] that it renews.
RenewalRequests(ids, g) ==
    UNION {Requests("subscribe", {i}, db[g[i]].hub, db[g[i]].topic) : i \in ids}

\* Faulty variant: the renewed rows are inserted, but no request is sent.
renew_subscriptions_NoRequest(ids, g) ==
    /\ db' = deactivate_subscriptions_expire_before(
                 create_subscriptions(db, [i \in ids |-> Key(db[g[i]])]),
                 renewal_threshold)
    /\ UNCHANGED outbox

\* Service::renew_subscriptions: `g` maps each id picked to the expiring row
\* that it renews.  The old rows stay, inactive, until the new ones are
\* verified.
renew_subscriptions(ids, g) ==
    /\ db' = deactivate_subscriptions_expire_before(
                 create_subscriptions(db, [i \in ids |-> Key(db[g[i]])]),
                 renewal_threshold)
    /\ outbox' = outbox \cup RenewalRequests(ids, g)

\* Scheduler::poll when the sleep has elapsed: Tick::tick renews, and the
\* next expiry decides the next tick.
PollTick ==
    /\ PollDue
    /\ Wakeup <= now
    /\ \E ids \in SUBSET Unused : \E g \in Bijection(ids, Expiring) :
           renew_subscriptions(ids, g)
    /\ next_tick' = tick_result(db')
    /\ sleep' = tick_result(db')
    /\ woken' = FALSE
    /\ UNCHANGED <<now, renewer, inbox, hub_subs, history>>

Fault(kind) ==
    /\ kind \in Faults
    /\ faults < MaxFaults
    /\ faults' = faults + 1

\* Scheduler::poll when Tick::tick fails: the future completes.  The error
\* came before the commit, with some requests already spawned, or after it.
PollTickFails ==
    /\ PollDue
    /\ Wakeup <= now
    /\ Fault("tick_error")
    /\ \/ \E ids \in SUBSET Unused : \E sub \in SUBSET Expiring :
              \E g \in Bijection(ids, sub) :
                  /\ outbox' = outbox \cup RenewalRequests(ids, g)
                  /\ UNCHANGED db
       \/ \E ids \in SUBSET Unused : \E g \in Bijection(ids, Expiring) :
              renew_subscriptions(ids, g)
    /\ renewer' = "stopped"
    /\ sleep' = Wakeup
    /\ woken' = FALSE
    /\ UNCHANGED <<now, next_tick, inbox, hub_subs, unheard>>

-----------------------------------------------------------------------------
(* Service::call: verification of intent and content distribution          *)

\* Faulty variant: the old rows are deleted without telling the hub.
remove_old_and_activate_Silent(id, hub, topic, expires_at) ==
    LET old == get_old_subscriptions(db, id, hub, topic)
    IN  /\ db' = activate_subscription(delete_subscriptions(db, old), id, expires_at)
        /\ outbox' = outbox

\* The transaction of verify_intent.
remove_old_and_activate(id, hub, topic, expires_at) ==
    LET old == get_old_subscriptions(db, id, hub, topic)
    IN  /\ db' = activate_subscription(delete_subscriptions(db, old), id, expires_at)
        /\ outbox' = outbox \cup Requests("unsubscribe", old, hub, topic)

\* verify_intent for hub.mode=subscribe, when it answers with the challenge.
\* The row gives the hub; the request gives the id and the topic.
verify_intent_subscribe(m, lease) ==
    \E hub \in get_hub_of_inactive_subscription(db, Callback[m.id], m.topic) :
        /\ hasten(refresh_time(expiry(lease)))
        /\ remove_old_and_activate(Callback[m.id], hub, m.topic, expiry(lease))

Pending(m, mode) == m \in inbox /\ m.mode = mode

\* The subscription of the request m, live at its hub until the given time.
Subscribed(m, until) == [hub |-> m.hub, topic |-> m.topic, id |-> m.id, until |-> until]

\* The hub gets the challenge back: the subscription is live on its side, for
\* the lease that it has offered.
VerifySubscribe(m, lease) ==
    /\ Pending(m, "subscribe")
    /\ verify_intent_subscribe(m, lease)
    /\ inbox' = inbox \ {m}
    /\ hub_subs' = hub_subs \cup {Subscribed(m, expiry(lease))}
    /\ unheard' = unheard \ {Callback[m.id]}
    /\ UNCHANGED <<now, sleep, renewer, faults>>

\* The hub misses the answer; the request stays with it for a retry.
VerifySubscribeUnheard(m, lease) ==
    /\ Pending(m, "subscribe")
    /\ Fault("lose_reply")
    /\ verify_intent_subscribe(m, lease)
    /\ unheard' = unheard \cup {Callback[m.id]}
    /\ UNCHANGED <<now, sleep, renewer, inbox, hub_subs>>

\* The transaction fails: the handle is hastened already, requests to
\* unsubscribe from some of the old rows are spawned already, and the hub is
\* answered with an error.
VerifySubscribeFails(m, lease) ==
    /\ Pending(m, "subscribe")
    /\ Fault("rollback")
    /\ \E hub \in get_hub_of_inactive_subscription(db, Callback[m.id], m.topic) :
           \E ids \in SUBSET get_old_subscriptions(db, Callback[m.id], hub, m.topic) :
               /\ hasten(refresh_time(expiry(lease)))
               /\ outbox' = outbox \cup Requests("unsubscribe", ids, hub, m.topic)
    /\ UNCHANGED <<db, now, sleep, renewer, inbox, hub_subs, unheard>>

\* No inactive row: 404, and the hub gives the request up.
VerifySubscribeRejected(m) ==
    /\ Pending(m, "subscribe")
    /\ get_hub_of_inactive_subscription(db, Callback[m.id], m.topic) = {}
    /\ inbox' = inbox \ {m}
    /\ UNCHANGED <<db, now, scheduler, outbox, hub_subs, history>>

\* verify_intent for hub.mode=unsubscribe: confirmed when the row is gone.
VerifyUnsubscribe(m) ==
    /\ Pending(m, "unsubscribe")
    /\ ~subscription_exists(db, Callback[m.id], m.topic)
    /\ inbox' = inbox \ {m}
    /\ hub_subs' = {s \in hub_subs : ~(s.id = m.id /\ Key(s) = Key(m))}
    /\ UNCHANGED <<db, now, scheduler, outbox, history>>

VerifyUnsubscribeRejected(m) ==
    /\ Pending(m, "unsubscribe")
    /\ subscription_exists(db, Callback[m.id], m.topic)
    /\ inbox' = inbox \ {m}
    /\ UNCHANGED <<db, now, scheduler, outbox, hub_subs, history>>

\* Content for a callback without a row: 410, and the hub ends the
\* subscription.  (Content for a row, whatever its state, changes nothing.)
PushGone(s) ==
    /\ s \in hub_subs
    /\ Callback[s.id] \notin Rows(db)
    /\ hub_subs' = hub_subs \ {s}
    /\ UNCHANGED <<db, now, scheduler, outbox, inbox, history>>

\* The lease that the hub has granted runs out, and the hub stops to deliver,
\* then or later.  The service hears nothing of it.
LeaseEnds(s) ==
    /\ s \in hub_subs
    /\ s.until <= now
    /\ hub_subs' = hub_subs \ {s}
    /\ UNCHANGED <<db, now, scheduler, outbox, inbox, history>>

-----------------------------------------------------------------------------
(* The environment: lost requests, restarts, time                          *)

LoseRequest(m) ==
    /\ m \in outbox \cup inbox
    /\ Fault("lose_request")
    /\ outbox' = outbox \ {m}
    /\ inbox' = inbox \ {m}
    /\ UNCHANGED <<db, now, scheduler, hub_subs, unheard>>

\* The requests of the old process that were not sent are lost; the new one
\* reads the first tick from the table.
Restart ==
    /\ Fault("restart")
    /\ outbox' = {}
    /\ next_tick' = first_tick(db)
    /\ sleep' = first_tick(db)
    /\ woken' = TRUE
    /\ renewer' = "running"
    /\ UNCHANGED <<db, now, inbox, hub_subs, unheard>>

Advance ==
    /\ now < Start + MaxTime
    /\ now' = now + 1
    /\ UNCHANGED <<db, scheduler, outbox, inbox, hub_subs, history>>

-----------------------------------------------------------------------------
HubVerifies(m) ==
    \/ \E lease \in Lease : VerifySubscribe(m, lease)
    \/ VerifySubscribeRejected(m)
    \/ VerifyUnsubscribe(m)
    \/ VerifyUnsubscribeRejected(m)

Next ==
    \/ \E hub \in Hub, topic \in Topic :
           Subscribe(hub, topic) \/ Unsubscribe(hub, topic)
    \/ PollPending
    \/ PollTick
    \/ PollTickFails
    \/ \E m \in outbox : SendRequest(m)
    \/ \E m \in inbox : HubVerifies(m)
    \/ \E m \in inbox, lease \in Lease :
           VerifySubscribeUnheard(m, lease) \/ VerifySubscribeFails(m, lease)
    \/ \E s \in hub_subs : PushGone(s) \/ LeaseEnds(s)
    \/ \E m \in outbox \cup inbox : LoseRequest(m)
    \/ Restart
    \/ Advance

Spec == Init /\ [][Next]_vars

\* The executor polls a woken task, spawned requests run to their end, and
\* hubs verify what they receive.  Nothing is assumed of users or the clock.
Fairness ==
    /\ WF_vars(PollPending)
    /\ WF_vars(PollTick)
    /\ \A m \in Request : WF_vars(SendRequest(m)) /\ WF_vars(HubVerifies(m))

FairSpec == Spec /\ Fairness

-----------------------------------------------------------------------------
(* Safety                                                                  *)

\* A hub and topic never have two active subscriptions, whatever is lost,
\* rolled back or restarted: verify_intent removes every other row of the
\* key in the transaction that activates one.
AtMostOneActive ==
    \A i, j \in Active(db) : Key(db[i]) = Key(db[j]) => i = j

\* Every active subscription will be looked at in time: while the renewal
\* task runs, it wakes up no later than the time at which any active row
\* asks to be renewed.  A pending wake-up counts with the time it will set.
EffectiveWakeup == IF woken THEN Wakeup ELSE sleep

SchedulerCovers ==
    renewer = "running" =>
        \A i \in Active(db) : EffectiveWakeup <= refresh_time(db[i].expires_at)

\* Why it does: the sleep is behind next_tick only while a wake-up is
\* pending, and the earlier of the two covers every active row.
SchedulerInv ==
    renewer = "running" =>
        /\ ~woken => sleep <= next_tick
        /\ \A i \in Active(db) : Wakeup <= refresh_time(db[i].expires_at)

\* Only the user ends a subscription: renewals and verifications never
\* remove the last row of a hub and topic.
KeyKept ==
    [][\A hub \in Hub, topic \in Topic :
           RowsOf(db, hub, topic) # {} /\ RowsOf(db', hub, topic) = {}
               => Unsubscribe(hub, topic)]_vars

\* A hub and topic is served while a hub holds a subscription of it whose
\* callback the service still accepts.
Served(hub, topic) ==
    \E s \in hub_subs : /\ s.hub = hub /\ s.topic = topic
                        /\ Callback[s.id] \in RowsOf(db, hub, topic)

\* The renewal task has ended, or its tick is due and has not run yet.
RenewalLate == renewer = "stopped" \/ PollDue

\* The lease of a subscription at a hub runs out for want of a renewal: the
\* tick is late, or it has run and no lease followed that the hub knows of.
LapsesUnrenewed(hub, topic) ==
    /\ RenewalLate \/ RowsOf(db, hub, topic) \cap Active(db) \subseteq unheard
    /\ \E s \in hub_subs : LeaseEnds(s)

\* Renewal is seamless: a key that is served stays served through every
\* renewal, until the user unsubscribes from it, a hub misses the answer to
\* the verification that ends the old subscription, or the lease runs out
\* unrenewed.  It does not run out while the table calls the key active and
\* the renewal task keeps up.
StaysServed ==
    [][\A hub \in Hub, topic \in Topic :
           Served(hub, topic) /\ ~Served(hub, topic)'
               => \/ Unsubscribe(hub, topic)
                  \/ \E m \in inbox, lease \in Lease :
                         VerifySubscribeUnheard(m, lease)
                  \/ LapsesUnrenewed(hub, topic)]_vars

\* The hub holds the subscription of the row i, until the expiry in the table.
HubHolds(i) ==
    \E s \in hub_subs : /\ Callback[s.id] = i /\ Key(s) = Key(db[i])
                        /\ s.until = db[i].expires_at

\* What the table calls active the hub holds, until the same time, if it has
\* heard the answer: the service confirms an unsubscription only for a row
\* that is gone, so a request spawned by a transaction that was rolled back
\* does no harm; and the hub ends the lease of an active row only if the
\* renewal task was late to give it up.
HubAgrees ==
    \A i \in Active(db) \ unheard :
        HubHolds(i) \/ (db[i].expires_at <= now /\ RenewalLate)

\* No key is forgotten: one of its rows is active, or a request for one is on
\* its way to the hub or waits there to be verified.  Otherwise nothing would
\* ever subscribe to it again, as a tick looks at active rows only.
RenewalUnderWay ==
    \A hub \in Hub, topic \in Topic :
        RowsOf(db, hub, topic) # {} =>
            \E i \in RowsOf(db, hub, topic) :
                \/ i \in Active(db)
                \/ \E m \in outbox \cup inbox :
                      m.mode = "subscribe" /\ Callback[m.id] = i /\ Key(m) = Key(db[i])

\* The subscriber leaves nothing behind: a hub that holds a subscription
\* whose row is gone is about to be asked to unsubscribe.
NoSilentOrphan ==
    \A s \in hub_subs :
        Callback[s.id] \notin Rows(db) =>
            \E m \in outbox \cup inbox :
                m.mode = "unsubscribe" /\ m.id = s.id /\ Key(m) = Key(s)

\* A tick never asks for another tick at once: what it leaves active is not
\* due yet, so the task cannot spin.
TickMakesProgress == [][PollTick => next_tick' > now]_vars

\* Renewal is in time: whenever the renewal task has nothing to do, neither
\* woken nor with a Sleep that has elapsed, no active subscription has
\* reached its refresh time.
RenewedInTime ==
    renewer = "running" /\ ~PollDue =>
        \A i \in Active(db) : refresh_time(db[i].expires_at) > now

\* The service implements the leases of module Lease, whatever is lost,
\* rolled back or restarted: of the table, only which keys have rows and
\* when their active rows expire.
LeaseOf == INSTANCE Lease WITH
    Keys     <- Hub \X Topic,
    Expiries <- Margin..I64Max,
    wanted   <- {k \in Hub \X Topic : RowsOf(db, k[1], k[2]) # {}},
    lease    <- [k \in Hub \X Topic |->
                    {db[i].expires_at : i \in RowsOf(db, k[1], k[2]) \cap Active(db)}]

\* renew_subscriptions.rs, service.rs: the leases of the table are those of a
\* user who wants some keys, of hubs that grant leases one by one, and of a
\* renewal that gives up all that are due at once and none before its time.
ImplementsLease == LeaseOf!LeaseSpec

-----------------------------------------------------------------------------
(* Liveness, without faults                                                *)

\* An active subscription that is due is renewed, or removed.
DueIsRenewed ==
    \A i \in Id :
        (i \in Active(db) /\ refresh_time(db[i].expires_at) <= now)
            ~> (i \notin Active(db))

\* A subscription, new or being renewed, becomes active unless the user
\* ends it.
RenewalCompletes ==
    \A hub \in Hub, topic \in Topic :
        RowsOf(db, hub, topic) # {}
            ~> \/ RowsOf(db, hub, topic) = {}
               \/ RowsOf(db, hub, topic) \cap Active(db) # {}

\* A subscription that is due gets a new lease, or the user ends it.  (Of
\* leases longer than the margin: any other is due as soon as it starts.)
DueKeyGetsNewLease ==
    \A hub \in Hub, topic \in Topic :
        (\E i \in RowsOf(db, hub, topic) \cap Active(db) :
             refresh_time(db[i].expires_at) <= now)
            ~> \/ RowsOf(db, hub, topic) = {}
               \/ \E i \in RowsOf(db, hub, topic) \cap Active(db) :
                      refresh_time(db[i].expires_at) > now

=============================================================================
