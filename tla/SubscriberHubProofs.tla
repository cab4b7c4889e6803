-------------------------- MODULE SubscriberHubProofs --------------------------
(***************************************************************************)
(* What the table of SubscriberService and the hubs know of each other:    *)
(* proofs for every set of ids, hubs and topics, every margin, lease and   *)
(* bound, and ids whose callbacks decode to themselves.                    *)
(***************************************************************************)
EXTENDS SubscriberServiceProofs

\* callback_id::decode gives back the id that was encoded.  (Of a u64 with a
\* zero byte inside it does not: module CallbackId.)
CallbackRoundTrips == \A i \in Id : Callback[i] = i

-----------------------------------------------------------------------------
(* Keys                                                                    *)

\* A request, or a subscription at a hub, has the key of the row of its id,
\* as long as there is one: a row never changes its key, and an id that is
\* still known is not taken for another row.
SameKey(x) == x.id \in Rows(db) => Key(db[x.id]) = Key(x)

KeysInv ==
    /\ \A m \in outbox \cup inbox : SameKey(m)
    /\ \A s \in hub_subs : SameKey(s)

\* What a change of the table means for the keys: a row that there was keeps
\* its key, and a new one has an id that nobody knows.
KeepsKeys ==
    \A i \in Rows(db') : \/ i \in Rows(db) /\ Key(db'[i]) = Key(db[i])
                         \/ i \in Unused

\* What hub::subscribe and hub::unsubscribe spawn names rows of before or after.
Spawned(requests) ==
    \A m \in requests : m.id \in Rows(db') => Key(db'[m.id]) = Key(m)

\* Such a change keeps KeysInv.
LEMMA KeysKept ==
    ASSUME KeysInv, KeepsKeys, NEW requests, Spawned(requests),
           outbox' \cup inbox' \subseteq outbox \cup inbox \cup requests,
           \A s \in hub_subs' \ hub_subs : \E m \in inbox : m.id = s.id /\ Key(m) = Key(s)
    PROVE  KeysInv'
<1>1. ASSUME NEW m \in outbox' \cup inbox', m.id \in Rows(db') PROVE Key(db'[m.id]) = Key(m)
    BY <1>1 DEF KeysInv, SameKey, KeepsKeys, Spawned, Unused
<1>2. ASSUME NEW s \in hub_subs', s.id \in Rows(db') PROVE Key(db'[s.id]) = Key(s)
    <2>1. CASE s \in hub_subs
        BY <1>2, <2>1 DEF KeysInv, SameKey, KeepsKeys, Unused
    <2>2. CASE s \notin hub_subs
        <3>1. PICK m \in inbox : m.id = s.id /\ Key(m) = Key(s)
            BY <2>2
        <3> QED  BY <1>2, <3>1 DEF KeysInv, SameKey, KeepsKeys, Unused
    <2> QED  BY <2>1, <2>2
<1> QED  BY <1>1, <1>2 DEF KeysInv, SameKey

\* hub::subscribe
LEMMA SubscribeKeys ==
    ASSUME TypeOK, NEW hub \in Hub, NEW topic \in Topic, Subscribe(hub, topic)
    PROVE  /\ KeepsKeys
           /\ \E id \in Unused :
                /\ Rows(db') = Rows(db) \cup {id}
                /\ Active(db') = Active(db)
                /\ \A i \in Rows(db) : db'[i] = db[i]
                /\ Spawned(Requests("subscribe", {id}, hub, topic))
                /\ outbox' = outbox \cup Requests("subscribe", {id}, hub, topic)
<1>1. PICK id \in Unused :
        /\ db' = create_subscriptions(db, [i \in {id} |-> [hub |-> hub, topic |-> topic]])
        /\ outbox' = outbox \cup Requests("subscribe", {id}, hub, topic)
    BY DEF Subscribe
<1>2. id \in Id \ Rows(db)
    BY DEF Unused
<1>3. /\ db'[id] = [hub |-> hub, topic |-> topic, expires_at |-> Null]
      /\ \A i \in Id : i # id => db'[i] = db[i]
    BY <1>1, <1>2 DEF create_subscriptions
<1>4. db'[id] # NoRow
    BY <1>3, StoreAssumption DEF Row
<1>5. Rows(db') = Rows(db) \cup {id} /\ Active(db') = Active(db)
    BY <1>2, <1>3, <1>4 DEF Rows, Active
<1>6. \A i \in Rows(db) : db'[i] = db[i]
    BY <1>2, <1>3 DEF Rows
<1>7. KeepsKeys
    BY <1>5, <1>6 DEF KeepsKeys
<1>8. Spawned(Requests("subscribe", {id}, hub, topic))
    BY <1>3 DEF Spawned, Requests, Key
<1> QED  BY <1>1, <1>5, <1>6, <1>7, <1>8

\* Service::renew_subscriptions
LEMMA RenewKeys ==
    ASSUME TypeOK, NEW ids \in SUBSET Unused, NEW g \in Bijection(ids, Expiring),
           renew_subscriptions(ids, g)
    PROVE  /\ KeepsKeys
           /\ Rows(db) \subseteq Rows(db')
           /\ Spawned(RenewalRequests(ids, g))
BY RenewFacts DEF KeepsKeys, Spawned

\* hub::unsubscribe for rows of one key: their requests name their keys.
LEMMA DeleteKeys ==
    ASSUME TypeOK, NEW ids, NEW hub, NEW topic, ids \subseteq RowsOf(db, hub, topic),
           KeepsKeys
    PROVE  Spawned(Requests("unsubscribe", ids, hub, topic))
BY DEF Spawned, Requests, KeepsKeys, RowsOf, Key, Unused

\* verify_intent: the row of the callback becomes active, the other rows of
\* its key go, and their hub is asked to unsubscribe from each.
LEMMA VerifyKeys ==
    ASSUME TypeOK, CallbackRoundTrips, NEW m \in inbox, NEW lease \in Lease,
           verify_intent_subscribe(m, lease)
    PROVE  \E hub \in Hub :
             LET old == RowsOf(db, hub, m.topic) \ {m.id}
             IN  /\ m.id \in Rows(db) /\ m.id \in Id
                 /\ Key(db[m.id]) = [hub |-> hub, topic |-> m.topic]
                 /\ Rows(db') = Rows(db) \ old
                 /\ m.id \in Rows(db')
                 /\ Active(db') \subseteq Active(db) \cup {m.id}
                 /\ m.id \in Active(db') /\ db'[m.id].expires_at = expiry(lease)
                 /\ \A i \in Rows(db') : i # m.id => db'[i] = db[i]
                 /\ \A i \in Rows(db') : Key(db'[i]) = Key(db[i])
                 /\ outbox' = outbox \cup Requests("unsubscribe", old, hub, m.topic)
                 /\ KeepsKeys
                 /\ Spawned(Requests("unsubscribe", old, hub, m.topic))
<1> DEFINE id == m.id
           e == expiry(lease)
<1>0. Callback[m.id] = id
    BY DEF CallbackRoundTrips, TypeOK, Request
<1>1. PICK hub \in get_hub_of_inactive_subscription(db, id, m.topic) :
        remove_old_and_activate(id, hub, m.topic, e)
    BY <1>0 DEF verify_intent_subscribe
<1>2. /\ id \in Rows(db) /\ hub \in Hub /\ m.topic \in Topic
      /\ db[id].hub = hub /\ db[id].topic = m.topic
    BY <1>1 DEF get_hub_of_inactive_subscription, TypeOK, Request
<1>3. /\ db' = activate_subscription(
                   delete_subscriptions(db, get_old_subscriptions(db, id, hub, m.topic)), id, e)
      /\ outbox' = outbox \cup
                   Requests("unsubscribe", RowsOf(db, hub, m.topic) \ {id}, hub, m.topic)
    BY <1>1 DEF remove_old_and_activate, get_old_subscriptions
<1>4. e \in Nat /\ id \in Id
    BY <1>2, ExpiryFacts, ServiceAssumption DEF Rows
<1> HIDE DEF e
<1> DEFINE old == RowsOf(db, hub, m.topic) \ {id}
<1>5. /\ Rows(db') = Rows(db) \ old
      /\ Active(db') = (Active(db) \ old) \cup (Rows(db) \cap {id})
      /\ \A i \in Rows(db') : i # id => db'[i] = db[i]
      /\ id \in Rows(db) => Key(db'[id]) = Key(db[id]) /\ db'[id].expires_at = e
    BY <1>3, <1>4, VerifyTable
<1>6. /\ id \in Rows(db') /\ Active(db') \subseteq Active(db) \cup {id}
      /\ id \in Active(db') /\ db'[id].expires_at = e
    BY <1>2, <1>5
<1>7. \A i \in Rows(db') : Key(db'[i]) = Key(db[i])
    BY <1>2, <1>5
<1>8. KeepsKeys
    BY <1>5, <1>7 DEF KeepsKeys
<1>9. Spawned(Requests("unsubscribe", old, hub, m.topic))
    BY <1>8, DeleteKeys
<1>10. Key(db[id]) = [hub |-> hub, topic |-> m.topic]
    BY <1>2 DEF Key
<1> QED  BY <1>2, <1>3, <1>4, <1>5, <1>6, <1>7, <1>8, <1>9, <1>10 DEF e

\* A step that leaves the table keeps KeysInv if it only moves or drops
\* requests and subscriptions.
LEMMA SameTableKeys ==
    ASSUME KeysInv, db' = db, outbox' \cup inbox' \subseteq outbox \cup inbox,
           hub_subs' \subseteq hub_subs
    PROVE  KeysInv'
BY DEF KeysInv, SameKey

\* The user's commands keep it.
LEMMA UserKeys ==
    ASSUME TypeOK, KeysInv, NEW hub \in Hub, NEW topic \in Topic,
           Subscribe(hub, topic) \/ Unsubscribe(hub, topic)
    PROVE  KeysInv'
<1>1. ASSUME Subscribe(hub, topic) PROVE KeysInv'
    <2>1. PICK id \in Unused :
            /\ KeepsKeys
            /\ Spawned(Requests("subscribe", {id}, hub, topic))
            /\ outbox' = outbox \cup Requests("subscribe", {id}, hub, topic)
        BY <1>1, SubscribeKeys
    <2>2. UNCHANGED <<inbox, hub_subs>>
        BY <1>1 DEF Subscribe
    <2> QED  BY <2>1, <2>2, KeysKept
<1>2. ASSUME Unsubscribe(hub, topic) PROVE KeysInv'
    <2> DEFINE ids == RowsOf(db, hub, topic)
    <2>1. /\ db' = delete_subscriptions(db, ids)
          /\ outbox' = outbox \cup Requests("unsubscribe", ids, hub, topic)
          /\ UNCHANGED <<inbox, hub_subs>>
        BY <1>2 DEF Unsubscribe
    <2>2. Rows(db') = Rows(db) \ ids /\ \A i \in Id \ ids : db'[i] = db[i]
        BY <2>1, DeleteFacts DEF TypeOK
    <2>3. KeepsKeys
        BY <2>2 DEF KeepsKeys, Rows
    <2>4. Spawned(Requests("unsubscribe", ids, hub, topic))
        BY <2>3, DeleteKeys
    <2> QED  BY <2>1, <2>3, <2>4, KeysKept
<1> QED  BY <1>1, <1>2

\* Every step keeps it.
LEMMA KeysStep ==
    ASSUME IInv, KeysInv, CallbackRoundTrips, [Next]_vars
    PROVE  KeysInv'
<1> USE DEF IInv
<1>0. ASSUME db' = db PROVE KeepsKeys
    BY <1>0 DEF KeepsKeys
<1>1. ASSUME NEW hub \in Hub, NEW topic \in Topic,
             Subscribe(hub, topic) \/ Unsubscribe(hub, topic)
      PROVE  KeysInv'
    BY <1>1, UserKeys
<1>2. ASSUME NEW ids \in SUBSET Unused, NEW g \in Bijection(ids, Expiring),
             renew_subscriptions(ids, g), UNCHANGED <<inbox, hub_subs>>
      PROVE  KeysInv'
    <2>1. outbox' = outbox \cup RenewalRequests(ids, g)
        BY <1>2 DEF renew_subscriptions
    <2> QED  BY <1>2, <2>1, RenewKeys, KeysKept
<1>3. CASE PollTick
    BY <1>2, <1>3 DEF PollTick
<1>4. CASE PollTickFails
    <2>1. ASSUME NEW ids \in SUBSET Unused, NEW sub \in SUBSET Expiring,
                 NEW g \in Bijection(ids, sub),
                 outbox' = outbox \cup RenewalRequests(ids, g), db' = db
          PROVE  KeysInv'
        <3>1. Spawned(RenewalRequests(ids, g))
            BY <2>1 DEF Spawned, RenewalRequests, Requests, Unused
        <3> QED  BY <1>0, <1>4, <2>1, <3>1, KeysKept DEF PollTickFails
    <2> QED  BY <1>2, <1>4, <2>1 DEF PollTickFails
<1>5. ASSUME NEW m \in inbox, NEW lease \in Lease, verify_intent_subscribe(m, lease),
             inbox' \subseteq inbox,
             hub_subs' \subseteq hub_subs \cup {Subscribed(m, expiry(lease))}
      PROVE  KeysInv'
    <2>1. PICK hub \in Hub :
             LET old == RowsOf(db, hub, m.topic) \ {m.id}
             IN  /\ outbox' = outbox \cup Requests("unsubscribe", old, hub, m.topic)
                 /\ KeepsKeys
                 /\ Spawned(Requests("unsubscribe", old, hub, m.topic))
        BY <1>5, VerifyKeys
    <2>2. \A s \in hub_subs' \ hub_subs : \E n \in inbox : n.id = s.id /\ Key(n) = Key(s)
        BY <1>5 DEF Key, Subscribed
    <2> QED  BY <1>5, <2>1, <2>2, KeysKept
<1>6. ASSUME NEW m \in inbox, HubVerifies(m) PROVE KeysInv'
    <2>1. ASSUME NEW lease \in Lease, VerifySubscribe(m, lease) PROVE KeysInv'
        BY <1>5, <2>1 DEF VerifySubscribe
    <2>2. CASE VerifySubscribeRejected(m) \/ VerifyUnsubscribe(m) \/ VerifyUnsubscribeRejected(m)
        BY <2>2, SameTableKeys
        DEF VerifySubscribeRejected, VerifyUnsubscribe, VerifyUnsubscribeRejected
    <2> QED  BY <1>6, <2>1, <2>2 DEF HubVerifies
<1>7. ASSUME NEW m \in inbox, NEW lease \in Lease, VerifySubscribeUnheard(m, lease)
      PROVE  KeysInv'
    BY <1>5, <1>7 DEF VerifySubscribeUnheard
<1>8. ASSUME NEW m \in inbox, NEW lease \in Lease, VerifySubscribeFails(m, lease)
      PROVE  KeysInv'
    <2>1. PICK hub \in get_hub_of_inactive_subscription(db, Callback[m.id], m.topic) :
           \E ids \in SUBSET get_old_subscriptions(db, Callback[m.id], hub, m.topic) :
               outbox' = outbox \cup Requests("unsubscribe", ids, hub, m.topic)
        BY <1>8 DEF VerifySubscribeFails
    <2>2. PICK ids \in SUBSET RowsOf(db, hub, m.topic) :
               outbox' = outbox \cup Requests("unsubscribe", ids, hub, m.topic)
        BY <2>1 DEF get_old_subscriptions
    <2>3. UNCHANGED <<db, inbox, hub_subs>>
        BY <1>8 DEF VerifySubscribeFails
    <2>4. KeepsKeys
        BY <1>0, <2>3
    <2>5. Spawned(Requests("unsubscribe", ids, hub, m.topic))
        BY <2>2, <2>4, DeleteKeys
    <2> QED  BY <2>2, <2>3, <2>4, <2>5, KeysKept
<1>9. ASSUME NEW m, SendRequest(m) \/ LoseRequest(m) \/ PushGone(m) \/ LeaseEnds(m)
      PROVE  KeysInv'
    BY <1>9, SameTableKeys DEF SendRequest, LoseRequest, PushGone, LeaseEnds
<1>10. CASE PollPending \/ Restart \/ Advance \/ UNCHANGED vars
    BY <1>10, SameTableKeys DEF PollPending, Restart, Advance, scheduler, history, vars
<1> QED
    BY <1>1, <1>3, <1>4, <1>6, <1>7, <1>8, <1>9, <1>10 DEF Next

-----------------------------------------------------------------------------
(* What a hub holds                                                        *)

\* A hub ends a subscription when its lease ends, or when its row is gone: it
\* is told so by the answer to its verification or to its content.
LEMMA RemovedAreGone ==
    ASSUME IInv, KeysInv, CallbackRoundTrips, [Next]_vars,
           NEW s \in hub_subs, s \notin hub_subs'
    PROVE  s.id \notin Rows(db) \/ LeaseEnds(s)
<1> USE DEF IInv
<1>1. ASSUME NEW m \in inbox, VerifyUnsubscribe(m) PROVE s.id \notin Rows(db)
    <2>1. s.id = m.id
        BY <1>1 DEF VerifyUnsubscribe
    <2>2. ~subscription_exists(db, m.id, m.topic)
        BY <1>1 DEF VerifyUnsubscribe, CallbackRoundTrips, TypeOK, Request
    <2>3. m.id \in Rows(db) => db[m.id].topic = m.topic
        BY DEF KeysInv, SameKey, Key
    <2> QED  BY <2>1, <2>2, <2>3 DEF subscription_exists
<1>2. ASSUME NEW r \in hub_subs, PushGone(r) PROVE s.id \notin Rows(db)
    BY <1>2 DEF PushGone, CallbackRoundTrips, TypeOK, HubSub
<1>3. ASSUME NEW r \in hub_subs, LeaseEnds(r) PROVE LeaseEnds(s)
    <2>1. r = s
        BY <1>3 DEF LeaseEnds
    <2> QED  BY <1>3, <2>1
<1> QED
    BY <1>1, <1>2, <1>3
    DEF Next, vars, scheduler, history, HubVerifies, Subscribe, Unsubscribe, PollPending,
        PollTick, PollTickFails, SendRequest, VerifySubscribe, VerifySubscribeRejected,
        VerifyUnsubscribeRejected, VerifySubscribeUnheard, VerifySubscribeFails,
        LoseRequest, Restart, Advance

\* Rows go in two ways: with all rows of a key that the user ends, or with
\* the other rows of a key whose verification activates one.
LEMMA WhoDeletes ==
    ASSUME IInv, CallbackRoundTrips, [Next]_vars, NEW i \in Rows(db)
    PROVE  \/ i \in Rows(db') /\ Key(db'[i]) = Key(db[i])
           \/ \E hub \in Hub, topic \in Topic :
                 i \in RowsOf(db, hub, topic) /\ Unsubscribe(hub, topic)
           \/ \E m \in inbox, lease \in Lease :
                 /\ VerifySubscribe(m, lease) \/ VerifySubscribeUnheard(m, lease)
                 /\ m.id \in Rows(db) /\ Key(db[i]) = Key(db[m.id])
                 /\ [mode |-> "unsubscribe", hub |-> db[i].hub, topic |-> m.topic, id |-> i]
                        \in outbox'
<1> USE DEF IInv
<1> DEFINE Stays == i \in Rows(db') /\ Key(db'[i]) = Key(db[i])
<1>1. ASSUME db' = db PROVE Stays
    BY <1>1
<1>2. ASSUME NEW hub \in Hub, NEW topic \in Topic, Subscribe(hub, topic) PROVE Stays
    BY <1>2, SubscribeKeys
<1>3. ASSUME NEW hub \in Hub, NEW topic \in Topic, Unsubscribe(hub, topic),
             i \notin RowsOf(db, hub, topic)
      PROVE  Stays
    <2>1. /\ Rows(db') = Rows(db) \ RowsOf(db, hub, topic)
          /\ \A j \in Id \ RowsOf(db, hub, topic) : db'[j] = db[j]
        BY <1>3, DeleteFacts DEF Unsubscribe, TypeOK
    <2> QED  BY <1>3, <2>1 DEF Rows
<1>4. ASSUME NEW ids \in SUBSET Unused, NEW g \in Bijection(ids, Expiring),
             renew_subscriptions(ids, g)
      PROVE  Stays
    BY <1>4, RenewFacts
<1>5. ASSUME NEW m \in inbox, NEW lease \in Lease, verify_intent_subscribe(m, lease), ~Stays
      PROVE  /\ m.id \in Rows(db) /\ Key(db[i]) = Key(db[m.id])
             /\ [mode |-> "unsubscribe", hub |-> db[i].hub, topic |-> m.topic, id |-> i]
                   \in outbox'
    <2>1. PICK hub \in Hub :
             LET old == RowsOf(db, hub, m.topic) \ {m.id}
             IN  /\ m.id \in Rows(db)
                 /\ Key(db[m.id]) = [hub |-> hub, topic |-> m.topic]
                 /\ Rows(db') = Rows(db) \ old
                 /\ \A j \in Rows(db') : Key(db'[j]) = Key(db[j])
                 /\ outbox' = outbox \cup Requests("unsubscribe", old, hub, m.topic)
        BY <1>5, VerifyKeys
    <2>2. i \in RowsOf(db, hub, m.topic) \ {m.id}
        BY <1>5, <2>1
    <2>3. db[i].hub = hub /\ db[i].topic = m.topic
        BY <2>2 DEF RowsOf
    <2>4. Key(db[i]) = Key(db[m.id])
        BY <2>1, <2>3 DEF Key
    <2>5. [mode |-> "unsubscribe", hub |-> hub, topic |-> m.topic, id |-> i]
              \in Requests("unsubscribe", RowsOf(db, hub, m.topic) \ {m.id}, hub, m.topic)
        BY <2>2 DEF Requests
    <2> QED  BY <2>1, <2>3, <2>4, <2>5
<1> HIDE DEF Stays
<1>6. CASE PollTick
    BY <1>4, <1>6 DEF PollTick, Stays
<1>7. CASE PollTickFails
    BY <1>1, <1>4, <1>7 DEF PollTickFails, Stays
<1>8. ASSUME NEW m \in inbox, HubVerifies(m), ~Stays
      PROVE  \E lease \in Lease : VerifySubscribe(m, lease) /\ verify_intent_subscribe(m, lease)
    BY <1>1, <1>8
    DEF HubVerifies, VerifySubscribe, VerifySubscribeRejected, VerifyUnsubscribe,
        VerifyUnsubscribeRejected
<1>9. ASSUME NEW m \in inbox, NEW lease \in Lease,
             VerifySubscribeUnheard(m, lease) \/ VerifySubscribeFails(m, lease), ~Stays
      PROVE  VerifySubscribeUnheard(m, lease) /\ verify_intent_subscribe(m, lease)
    BY <1>1, <1>9 DEF VerifySubscribeUnheard, VerifySubscribeFails
<1>10. ASSUME NEW m, SendRequest(m) \/ LoseRequest(m) \/ PushGone(m) \/ LeaseEnds(m)
       PROVE  Stays
    BY <1>1, <1>10 DEF SendRequest, LoseRequest, PushGone, LeaseEnds
<1>11. CASE PollPending \/ Restart \/ Advance \/ UNCHANGED vars
    BY <1>1, <1>11 DEF PollPending, Restart, Advance, vars
<1>12. CASE Stays
    BY <1>12 DEF Stays
<1>13. CASE ~Stays
    BY <1>2, <1>3, <1>5, <1>6, <1>7, <1>8, <1>9, <1>10, <1>11, <1>13 DEF Next
<1> QED  BY <1>12, <1>13

-----------------------------------------------------------------------------
(* The theorems                                                            *)

\* The invariant with the keys.
LEMMA KeysInvariant == CallbackRoundTrips /\ Spec => [](IInv /\ KeysInv)
<1>1. Init => KeysInv
    BY DEF Init, KeysInv
<1>2. CallbackRoundTrips /\ IInv /\ KeysInv /\ [Next]_vars => IInv' /\ KeysInv'
    BY NextIInv, KeysStep
<1>3. CallbackRoundTrips => []CallbackRoundTrips
    <2>1. CallbackRoundTrips => CallbackRoundTrips'
        BY DEF CallbackRoundTrips
    <2> QED  BY <2>1, PTL
<1> QED  BY InitIInv, <1>1, <1>2, <1>3, PTL DEF Spec

\* The part of HubAgrees that is inductive: a hub that heard the answer holds
\* the active row until the row's expiry.
HeldInv ==
    \A i \in Active(db) \ unheard : HubHolds(i) \/ db[i].expires_at <= now

\* An active row is past its expiry only if the renewal task is late.
LEMMA LateIfExpired ==
    ASSUME IInv, NEW i \in Active(db), db[i].expires_at <= now
    PROVE  RenewalLate
<1> USE DEF IInv
<1> SUFFICES ASSUME ~RenewalLate PROVE FALSE
    OBVIOUS
<1>1. renewer = "running" /\ ~PollDue
    BY DEF RenewalLate, TypeOK
<1>2. refresh_time(db[i].expires_at) > now
    BY <1>1, InTime DEF RenewedInTime
<1>3. db[i].expires_at \in Margin..I64Max
    BY DEF TypeOK
<1>4. refresh_time(db[i].expires_at) = db[i].expires_at - Margin
    BY <1>3, TimeFacts
<1>5. now \in Nat
    BY ServiceAssumption DEF TypeOK
<1> QED  BY <1>2, <1>3, <1>4, <1>5, ServiceAssumption

\* The clock does not go back.
LEMMA TimePasses ==
    ASSUME TypeOK, [Next]_vars
    PROVE  now <= now'
<1>1. now \in Nat
    BY ServiceAssumption DEF TypeOK
<1>2. now' = now \/ Advance
    BY DEF Next, vars, HubVerifies, Subscribe, Unsubscribe, PollPending, PollTick,
           PollTickFails, SendRequest, VerifySubscribe, VerifySubscribeRejected,
           VerifyUnsubscribe, VerifyUnsubscribeRejected, VerifySubscribeUnheard,
           VerifySubscribeFails, PushGone, LeaseEnds, LoseRequest, Restart
<1> QED  BY <1>1, <1>2 DEF Advance

\* A verification activates one row, and the hub that hears of it, or has
\* asked for it, knows it by the same key and for the same time.
LEMMA HeldStep ==
    ASSUME IInv, KeysInv, HeldInv, CallbackRoundTrips, [Next]_vars
    PROVE  HeldInv'
<1> USE DEF IInv
<1> DEFINE Held(i) == HubHolds(i)' \/ db'[i].expires_at <= now'
<1> SUFFICES ASSUME NEW i \in Active(db') \ unheard' PROVE Held(i)
    BY DEF HeldInv
<1>0. i \in Id /\ i \in Rows(db')
    BY DEF Active, Rows
<1>1. ASSUME i \in Active(db) \ unheard, db'[i] = db[i] PROVE Held(i)
    <2>1. db[i].expires_at \in Nat /\ now \in Nat /\ now' \in Nat /\ now <= now'
        BY <1>1, TimePasses, NextIInv, ServiceAssumption DEF TypeOK
    <2>2. CASE db[i].expires_at <= now
        BY <1>1, <2>1, <2>2
    <2>3. CASE HubHolds(i)
        <3>1. PICK s \in hub_subs : /\ Callback[s.id] = i /\ Key(s) = Key(db[i])
                                   /\ s.until = db[i].expires_at
            BY <2>3 DEF HubHolds
        <3>2. s.id = i /\ i \in Rows(db)
            BY <1>1, <3>1 DEF CallbackRoundTrips, TypeOK, HubSub, Active
        <3>3. CASE s \in hub_subs'
            BY <1>1, <3>1, <3>3 DEF HubHolds
        <3>4. CASE LeaseEnds(s)
            <4>1. db[i].expires_at <= now
                BY <3>1, <3>4 DEF LeaseEnds
            <4> QED  BY <2>2, <4>1
        <3> QED  BY <3>2, <3>3, <3>4, RemovedAreGone
    <2> QED  BY <1>1, <2>2, <2>3 DEF HeldInv
<1> HIDE DEF Held
<1>2. ASSUME OnlyDeactivates(db, db'), unheard' = unheard PROVE Held(i)
    BY <1>1, <1>2 DEF OnlyDeactivates
<1>3. ASSUME NEW m \in inbox, NEW lease \in Lease,
             VerifySubscribe(m, lease) \/ VerifySubscribeUnheard(m, lease)
      PROVE  Held(i)
    <2>0. Callback[m.id] = m.id /\ verify_intent_subscribe(m, lease)
        BY <1>3 DEF VerifySubscribe, VerifySubscribeUnheard, CallbackRoundTrips, TypeOK, Request
    <2>1. /\ m.id \in Rows(db) /\ m.id \in Id
          /\ Active(db') \subseteq Active(db) \cup {m.id}
          /\ db'[m.id].expires_at = expiry(lease)
          /\ \A j \in Rows(db') : j # m.id => db'[j] = db[j]
          /\ Key(db'[m.id]) = Key(db[m.id])
        BY <2>0, VerifyKeys
    <2>2. unheard' = unheard \ {m.id} \/ unheard' = unheard \cup {m.id}
        BY <1>3, <2>0 DEF VerifySubscribe, VerifySubscribeUnheard
    <2>3. CASE i # m.id
        BY <1>0, <1>1, <2>1, <2>2, <2>3
    <2>4. CASE i = m.id
        <3>1. VerifySubscribe(m, lease)
            BY <1>3, <2>0, <2>4 DEF VerifySubscribeUnheard
        <3> DEFINE s == Subscribed(m, expiry(lease))
        <3>2. s \in hub_subs'
            BY <3>1 DEF VerifySubscribe
        <3>3. Key(s) = Key(m) /\ Key(db[m.id]) = Key(m)
            BY <2>1 DEF KeysInv, SameKey, Key, Subscribed
        <3>4. Callback[s.id] = i /\ s.until = db'[i].expires_at /\ Key(s) = Key(db'[i])
            BY <2>0, <2>1, <2>4, <3>3 DEF Subscribed
        <3>5. HubHolds(i)'
            BY <3>2, <3>4 DEF HubHolds
        <3> QED  BY <3>5 DEF Held
    <2> QED  BY <2>3, <2>4
<1>4. ASSUME db' = db, unheard' = unheard PROVE Held(i)
    BY <1>1, <1>4
<1>5. ASSUME NEW hub \in Hub, NEW topic \in Topic,
             Subscribe(hub, topic) \/ Unsubscribe(hub, topic)
      PROVE  Held(i)
    <2>1. unheard' = unheard
        BY <1>5 DEF Subscribe, Unsubscribe, history
    <2> QED  BY <1>2, <1>5, <2>1, SubscribeFacts, UnsubscribeFacts
<1>6. CASE PollTick
    BY <1>2, <1>6, RenewFacts DEF PollTick, history
<1>7. CASE PollTickFails
    <2>1. unheard' = unheard
        BY <1>7 DEF PollTickFails
    <2>2. db' = db \/ OnlyDeactivates(db, db')
        BY <1>7, RenewFacts DEF PollTickFails
    <2> QED  BY <1>2, <1>4, <2>1, <2>2
<1>8. ASSUME NEW m \in inbox, HubVerifies(m) PROVE Held(i)
    BY <1>3, <1>4, <1>8
    DEF HubVerifies, VerifySubscribeRejected, VerifyUnsubscribe, VerifyUnsubscribeRejected, history
<1>9. ASSUME NEW m \in inbox, NEW lease \in Lease,
             VerifySubscribeUnheard(m, lease) \/ VerifySubscribeFails(m, lease)
      PROVE  Held(i)
    BY <1>3, <1>4, <1>9 DEF VerifySubscribeFails
<1>10. ASSUME NEW m, SendRequest(m) \/ LoseRequest(m) \/ PushGone(m) \/ LeaseEnds(m)
       PROVE  Held(i)
    BY <1>4, <1>10 DEF SendRequest, LoseRequest, PushGone, LeaseEnds, history
<1>11. CASE PollPending \/ Restart \/ Advance \/ UNCHANGED vars
    BY <1>4, <1>11 DEF PollPending, Restart, Advance, history, vars
<1> QED
    BY <1>3, <1>5, <1>6, <1>7, <1>8, <1>9, <1>10, <1>11 DEF Next

\* It holds of every behaviour.
LEMMA HeldInvariant == CallbackRoundTrips /\ Spec => [](IInv /\ KeysInv /\ HeldInv)
<1>1. Init => HeldInv
    <2> SUFFICES ASSUME Init PROVE Active(db) = {}
        BY DEF HeldInv
    <2> QED  BY DEF Init, EmptyTable, Active, Rows
<1>2. CallbackRoundTrips /\ IInv /\ KeysInv /\ HeldInv /\ [Next]_vars => HeldInv'
    BY HeldStep
<1>3. CallbackRoundTrips => []CallbackRoundTrips
    <2>1. CallbackRoundTrips => CallbackRoundTrips'
        BY DEF CallbackRoundTrips
    <2> QED  BY <2>1, PTL
<1> QED  BY <1>1, <1>2, <1>3, KeysInvariant, PTL DEF Spec

\* Whatever is lost, rolled back or restarted: a hub that heard the answer
\* holds what the table calls active, until the expiry in the table; past it
\* a row is active only while the renewal task is late.
THEOREM HubsAgree == CallbackRoundTrips /\ Spec => []HubAgrees
<1>1. IInv /\ HeldInv => HubAgrees
    BY LateIfExpired DEF HeldInv, HubAgrees
<1> QED  BY <1>1, HeldInvariant, PTL

\* A hub that ends a lease leaves the key served by another subscription,
\* unless the renewal is late or there is no other.
LEMMA EndedServes ==
    ASSUME IInv, HeldInv, CallbackRoundTrips,
           NEW hub \in Hub, NEW topic \in Topic, ~Served(hub, topic)',
           NEW s \in hub_subs, LeaseEnds(s)
    PROVE  LapsesUnrenewed(hub, topic)
<1> USE DEF IInv
<1> SUFFICES ASSUME ~RenewalLate, NEW i \in RowsOf(db, hub, topic) \cap Active(db), i \notin unheard
             PROVE  FALSE
    BY DEF LapsesUnrenewed
<1>1. db[i].expires_at > now
    <2>1. ~(db[i].expires_at <= now)
        BY LateIfExpired
    <2> QED  BY <2>1, ServiceAssumption DEF TypeOK
<1>2. PICK q \in hub_subs : /\ Callback[q.id] = i /\ Key(q) = Key(db[i])
                           /\ q.until = db[i].expires_at
    BY <1>1, LateIfExpired DEF HeldInv, HubHolds
<1>3. q # s
    <2>1. s.until <= now
        BY DEF LeaseEnds
    <2> QED  BY <1>1, <1>2, <2>1, ServiceAssumption DEF TypeOK
<1>4. q \in hub_subs' /\ db' = db
    BY <1>3 DEF LeaseEnds
<1>5. q.hub = hub /\ q.topic = topic
    BY <1>2 DEF Key, RowsOf
<1> QED  BY <1>2, <1>4, <1>5 DEF Served

\* A row of a served key goes only with its key, or when the hub that has
\* just heard of another row of the key holds that one instead.
LEMMA ServedStep ==
    ASSUME IInv, KeysInv, HeldInv, CallbackRoundTrips, [Next]_vars,
           NEW hub \in Hub, NEW topic \in Topic, Served(hub, topic), ~Served(hub, topic)'
    PROVE  \/ Unsubscribe(hub, topic)
           \/ \E m \in inbox, lease \in Lease : VerifySubscribeUnheard(m, lease)
           \/ LapsesUnrenewed(hub, topic)
<1> USE DEF IInv
<1>1. PICK s \in hub_subs : /\ s.hub = hub /\ s.topic = topic
                            /\ s.id \in RowsOf(db, hub, topic)
    BY DEF Served, CallbackRoundTrips, TypeOK, HubSub
<1>2. s.id \in Rows(db) /\ s.id \in Id /\ Callback[s.id] = s.id
    BY <1>1 DEF RowsOf, Rows, CallbackRoundTrips, TypeOK, HubSub
<1>3. CASE LeaseEnds(s)
    BY <1>1, <1>3, EndedServes
<1>4. CASE s \in hub_subs'
    <2>1. ~(s.id \in Rows(db') /\ Key(db'[s.id]) = Key(db[s.id]))
        <3> SUFFICES ASSUME s.id \in Rows(db'), Key(db'[s.id]) = Key(db[s.id]) PROVE FALSE
            OBVIOUS
        <3>1. s.id \in RowsOf(db', hub, topic)
            BY <1>1 DEF RowsOf, Key
        <3> QED  BY <1>1, <1>2, <1>4, <3>1 DEF Served, RowsOf, Rows
    <2>2. ASSUME NEW h \in Hub, NEW t \in Topic, s.id \in RowsOf(db, h, t), Unsubscribe(h, t)
          PROVE  Unsubscribe(hub, topic)
        <3>1. h = hub /\ t = topic
            BY <1>1, <2>2 DEF RowsOf
        <3> QED  BY <2>2, <3>1
    <2>3. ASSUME NEW m \in inbox, NEW lease \in Lease, VerifySubscribe(m, lease),
                 m.id \in Rows(db), Key(db[s.id]) = Key(db[m.id])
          PROVE  FALSE
        <3> DEFINE r == Subscribed(m, expiry(lease))
        <3>1. r \in hub_subs' /\ r.hub = m.hub /\ r.topic = m.topic /\ r.id = m.id
            BY <2>3 DEF VerifySubscribe, Subscribed
        <3>2. Key(db[m.id]) = Key(m) /\ Callback[m.id] = m.id
            BY <2>3 DEF KeysInv, SameKey, CallbackRoundTrips, TypeOK, Request
        <3>3. m.hub = hub /\ m.topic = topic
            BY <1>1, <2>3, <3>2 DEF Key, RowsOf
        <3>4. m.id \in Rows(db') /\ Key(db'[m.id]) = Key(db[m.id])
            BY <2>3, VerifyKeys DEF VerifySubscribe
        <3>5. m.id \in RowsOf(db', hub, topic)
            BY <3>2, <3>3, <3>4 DEF RowsOf, Key
        <3> QED  BY <3>1, <3>2, <3>3, <3>5 DEF Served, RowsOf, Rows
    <2> QED  BY <1>2, <2>1, <2>2, <2>3, WhoDeletes
<1> QED  BY <1>2, <1>3, <1>4, RemovedAreGone

\* Renewal is seamless: a key that is served stays so until the user ends it,
\* a hub misses the answer that ends the old subscription, or the lease at
\* the hub runs out although the key has no active row, or the tick is late.
THEOREM KeysStayServed == CallbackRoundTrips /\ Spec => StaysServed
<1>1. CallbackRoundTrips /\ IInv /\ KeysInv /\ HeldInv /\ [Next]_vars
          => [\A hub \in Hub, topic \in Topic :
                 Served(hub, topic) /\ ~Served(hub, topic)'
                     => \/ Unsubscribe(hub, topic)
                        \/ \E m \in inbox, lease \in Lease :
                               VerifySubscribeUnheard(m, lease)
                        \/ LapsesUnrenewed(hub, topic)]_vars
    BY ServedStep
<1>2. CallbackRoundTrips => []CallbackRoundTrips
    <2>1. CallbackRoundTrips => CallbackRoundTrips'
        BY DEF CallbackRoundTrips
    <2> QED  BY <2>1, PTL
<1> QED  BY <1>1, <1>2, HeldInvariant, PTL DEF Spec, StaysServed

-----------------------------------------------------------------------------
(* Orphans                                                                 *)

\* No request is lost, on its way or with the process.
NothingLost == Faults \cap {"lose_request", "restart"} = {}

\* A request to unsubscribe is withdrawn only with the subscription, and made
\* in the transaction that deletes the row.
LEMMA OrphanStep ==
    ASSUME IInv, KeysInv, NoSilentOrphan, CallbackRoundTrips, NothingLost, [Next]_vars
    PROVE  NoSilentOrphan'
<1> USE DEF IInv
<1> DEFINE Asked(s) == \E m \in outbox' \cup inbox' :
                          m.mode = "unsubscribe" /\ m.id = s.id /\ Key(m) = Key(s)
<1> SUFFICES ASSUME NEW s \in hub_subs', Callback[s.id] \notin Rows(db') PROVE Asked(s)
    BY DEF NoSilentOrphan
<1>1. CASE s \notin hub_subs
    <2>1. PICK m \in inbox, lease \in Lease :
             VerifySubscribe(m, lease) /\ s = Subscribed(m, expiry(lease))
        <3>1. PICK m \in inbox : HubVerifies(m)
            BY <1>1
            DEF Next, vars, scheduler, history, Subscribe, Unsubscribe, PollPending, PollTick,
                PollTickFails, SendRequest, VerifySubscribeUnheard, VerifySubscribeFails,
                PushGone, LeaseEnds, LoseRequest, Restart, Advance
        <3>2. PICK lease \in Lease : VerifySubscribe(m, lease)
            BY <1>1, <3>1
            DEF HubVerifies, VerifySubscribeRejected, VerifyUnsubscribe, VerifyUnsubscribeRejected
        <3>3. s = Subscribed(m, expiry(lease))
            BY <1>1, <3>2 DEF VerifySubscribe
        <3> QED  BY <3>2, <3>3
    <2>2. m.id \in Rows(db') /\ m.id \in Id
        BY <2>1, VerifyKeys DEF VerifySubscribe
    <2> QED  BY <2>1, <2>2 DEF CallbackRoundTrips, Subscribed
<1>2. CASE s \in hub_subs
    <2>0. s.id \in Id /\ Callback[s.id] = s.id /\ s \in HubSub
        BY <1>2 DEF CallbackRoundTrips, TypeOK, HubSub
    <2>1. CASE s.id \in Rows(db)
        <3>1. Key(db[s.id]) = Key(s)
            BY <1>2, <2>1 DEF KeysInv, SameKey
        <3>2. ASSUME NEW hub \in Hub, NEW topic \in Topic, s.id \in RowsOf(db, hub, topic),
                     Unsubscribe(hub, topic)
              PROVE  Asked(s)
            <4> DEFINE r == [mode |-> "unsubscribe", hub |-> hub, topic |-> topic, id |-> s.id]
            <4>1. r \in outbox'
                BY <3>2 DEF Unsubscribe, Requests
            <4>2. Key(r) = Key(s)
                BY <3>1, <3>2 DEF Key, RowsOf
            <4> QED  BY <4>1, <4>2
        <3>3. ASSUME NEW m \in inbox,
                     m.id \in Rows(db), Key(db[s.id]) = Key(db[m.id]),
                     [mode |-> "unsubscribe", hub |-> db[s.id].hub, topic |-> m.topic,
                      id |-> s.id] \in outbox'
              PROVE  Asked(s)
            <4> DEFINE r == [mode |-> "unsubscribe", hub |-> db[s.id].hub, topic |-> m.topic,
                             id |-> s.id]
            <4>1. Key(db[m.id]) = Key(m)
                BY <3>3 DEF KeysInv, SameKey
            <4>2. Key(r) = Key(s)
                BY <3>1, <3>3, <4>1 DEF Key
            <4> QED  BY <3>3, <4>2
        <3> QED  BY <2>0, <2>1, <3>2, <3>3, WhoDeletes
    <2>2. CASE s.id \notin Rows(db)
        <3>1. PICK m \in outbox \cup inbox :
                 m.mode = "unsubscribe" /\ m.id = s.id /\ Key(m) = Key(s)
            BY <1>2, <2>0, <2>2 DEF NoSilentOrphan
        <3>2. Callback[m.id] = m.id /\ m.hub = s.hub /\ m.topic = s.topic
            BY <2>0, <3>1 DEF Key
        <3>3. ~VerifyUnsubscribeRejected(m)
            BY <2>2, <3>1, <3>2 DEF VerifyUnsubscribeRejected, subscription_exists
        <3>4. ~VerifyUnsubscribe(m)
            BY <3>1 DEF VerifyUnsubscribe
        <3>5. ~\E n \in outbox \cup inbox : LoseRequest(n)
            BY DEF NothingLost, LoseRequest, Fault
        <3>6. ~Restart
            BY DEF NothingLost, Restart, Fault
        <3>7. m \in outbox' \cup inbox'
            BY <3>1, <3>3, <3>4, <3>5, <3>6
            DEF Next, vars, scheduler, history, HubVerifies, Subscribe, Unsubscribe, PollPending,
                PollTick, PollTickFails, renew_subscriptions, SendRequest, VerifySubscribe,
                VerifySubscribeRejected, VerifyUnsubscribe, VerifyUnsubscribeRejected,
                VerifySubscribeUnheard, VerifySubscribeFails, verify_intent_subscribe,
                remove_old_and_activate, Pending, PushGone, LeaseEnds, Advance
        <3> QED  BY <3>1, <3>7
    <2> QED  BY <2>1, <2>2
<1> QED  BY <1>1, <1>2

\* As long as requests get to the hubs, no hub keeps a subscription that the
\* table has forgotten without being about to hear of it.
THEOREM OrphansAreTold == CallbackRoundTrips /\ NothingLost /\ Spec => []NoSilentOrphan
<1>1. Init => NoSilentOrphan
    BY DEF Init, NoSilentOrphan
<1>2. CallbackRoundTrips /\ NothingLost /\ IInv /\ KeysInv /\ NoSilentOrphan /\ [Next]_vars
          => NoSilentOrphan'
    BY OrphanStep
<1>3. CallbackRoundTrips /\ NothingLost => [](CallbackRoundTrips /\ NothingLost)
    <2>1. CallbackRoundTrips /\ NothingLost => CallbackRoundTrips' /\ NothingLost'
        BY DEF CallbackRoundTrips, NothingLost
    <2> QED  BY <2>1, PTL
<1> QED  BY <1>1, <1>2, <1>3, KeysInvariant, PTL DEF Spec

-----------------------------------------------------------------------------
(* Keys are not forgotten                                                  *)

\* The row i is active, or a hub will be, or has been, asked for it.
UnderWay(i) ==
    \/ i \in Active(db)
    \/ \E m \in outbox \cup inbox :
          m.mode = "subscribe" /\ Callback[m.id] = i /\ Key(m) = Key(db[i])

\* One of the rows of a key is.
KeyUnderWay(hub, topic) == \E i \in RowsOf(db, hub, topic) : UnderWay(i)

\* It stays so if nothing of it goes.
LEMMA UnderWayKept ==
    ASSUME NEW hub \in Hub, NEW topic \in Topic,
           NEW i \in RowsOf(db, hub, topic), i \in RowsOf(db', hub, topic), UnderWay(i),
           i \in Active(db) => i \in Active(db'),
           \A m \in outbox \cup inbox :
              m.mode = "subscribe" /\ Callback[m.id] = i => m \in outbox' \cup inbox'
    PROVE  UnderWay(i)'
<1>1. Key(db'[i]) = Key(db[i])
    BY DEF RowsOf, Key
<1> QED  BY <1>1 DEF UnderWay

\* hub::subscribe asks for the row that it inserts.
LEMMA SubscribeUnderWay ==
    ASSUME TypeOK, RenewalUnderWay, CallbackRoundTrips,
           NEW h \in Hub, NEW t \in Topic, Subscribe(h, t),
           NEW hub \in Hub, NEW topic \in Topic, RowsOf(db', hub, topic) # {}
    PROVE  KeyUnderWay(hub, topic)'
<1>1. PICK id \in Unused :
         /\ Rows(db') = Rows(db) \cup {id}
         /\ Active(db') = Active(db)
         /\ \A i \in Rows(db) : db'[i] = db[i]
         /\ Spawned(Requests("subscribe", {id}, h, t))
         /\ outbox' = outbox \cup Requests("subscribe", {id}, h, t)
    BY SubscribeKeys
<1>2. inbox' = inbox
    BY DEF Subscribe
<1>3. CASE RowsOf(db, hub, topic) # {}
    <2>1. PICK i \in RowsOf(db, hub, topic) : UnderWay(i)
        BY <1>3 DEF RenewalUnderWay, UnderWay
    <2>2. i \in RowsOf(db', hub, topic)
        BY <1>1 DEF RowsOf
    <2> QED  BY <1>1, <1>2, <2>1, <2>2, UnderWayKept DEF KeyUnderWay
<1>4. CASE RowsOf(db, hub, topic) = {}
    <2>1. id \in RowsOf(db', hub, topic) /\ id \in Id
        BY <1>1, <1>4 DEF RowsOf, Unused
    <2> DEFINE m == [mode |-> "subscribe", hub |-> h, topic |-> t, id |-> id]
    <2>2. m \in Requests("subscribe", {id}, h, t)
        BY DEF Requests
    <2>3. Key(m) = Key(db'[id])
        BY <1>1, <2>1, <2>2 DEF Spawned, RowsOf
    <2>4. UnderWay(id)'
        BY <1>1, <2>1, <2>2, <2>3 DEF UnderWay, CallbackRoundTrips
    <2> QED  BY <2>1, <2>4 DEF KeyUnderWay
<1> QED  BY <1>3, <1>4

\* hub::unsubscribe ends a key as a whole.
LEMMA UnsubscribeUnderWay ==
    ASSUME TypeOK, RenewalUnderWay, NEW h \in Hub, NEW t \in Topic, Unsubscribe(h, t),
           NEW hub \in Hub, NEW topic \in Topic, RowsOf(db', hub, topic) # {}
    PROVE  KeyUnderWay(hub, topic)'
<1> DEFINE gone == RowsOf(db, h, t)
<1>1. /\ Rows(db') = Rows(db) \ gone /\ Active(db') = Active(db) \ gone
      /\ \A i \in Id \ gone : db'[i] = db[i]
    BY DeleteFacts DEF Unsubscribe, TypeOK
<1>2. outbox \subseteq outbox' /\ inbox' = inbox
    BY DEF Unsubscribe
<1>3. RowsOf(db', hub, topic) \subseteq RowsOf(db, hub, topic) \ gone
    BY <1>1 DEF RowsOf, Rows
<1>4. PICK i \in RowsOf(db, hub, topic) : UnderWay(i)
    BY <1>3 DEF RenewalUnderWay, UnderWay
<1>5. i \notin gone
    BY <1>3, <1>4 DEF RowsOf
<1>6. i \in RowsOf(db', hub, topic)
    BY <1>1, <1>4, <1>5 DEF RowsOf, Rows
<1> QED  BY <1>1, <1>2, <1>4, <1>5, <1>6, UnderWayKept DEF KeyUnderWay

\* Service::renew_subscriptions asks for a row of each key that it takes the
\* active row from.
LEMMA RenewUnderWay ==
    ASSUME TypeOK, RenewalUnderWay, CallbackRoundTrips,
           NEW ids \in SUBSET Unused, NEW g \in Bijection(ids, Expiring),
           renew_subscriptions(ids, g), inbox' = inbox,
           NEW hub \in Hub, NEW topic \in Topic, RowsOf(db', hub, topic) # {}
    PROVE  KeyUnderWay(hub, topic)'
<1>1. /\ outbox' = outbox \cup RenewalRequests(ids, g)
      /\ Rows(db') = Rows(db) \cup ids
      /\ \A i \in Rows(db) : i \in Rows(db') /\ Key(db'[i]) = Key(db[i])
      /\ \A m \in RenewalRequests(ids, g) : m.id \in ids /\ Key(db'[m.id]) = Key(m)
      /\ \A k \in ids : \E i \in Rows(db) : Key(db'[k]) = Key(db[i])
      /\ \A i \in Active(db) \ Active(db') : \E m \in RenewalRequests(ids, g) :
            m.mode = "subscribe" /\ m.id \in Id /\ Key(m) = Key(db[i])
    BY RenewFacts
<1>2. RowsOf(db, hub, topic) # {}
    <2>1. PICK k \in Rows(db') : Key(db'[k]) = [hub |-> hub, topic |-> topic]
        BY DEF RowsOf, Key
    <2>2. PICK i \in Rows(db) : Key(db[i]) = [hub |-> hub, topic |-> topic]
        BY <1>1, <2>1
    <2> QED  BY <2>2 DEF RowsOf, Key
<1>3. PICK i \in RowsOf(db, hub, topic) : UnderWay(i)
    BY <1>2 DEF RenewalUnderWay, UnderWay
<1>4. i \in RowsOf(db', hub, topic) /\ i \in Rows(db)
    BY <1>1, <1>3 DEF RowsOf, Key
<1>5. CASE i \in Active(db) => i \in Active(db')
    BY <1>1, <1>3, <1>4, <1>5, UnderWayKept DEF KeyUnderWay
<1>6. CASE i \in Active(db) \ Active(db')
    <2>1. PICK m \in RenewalRequests(ids, g) :
             m.mode = "subscribe" /\ m.id \in Id /\ Key(m) = Key(db[i])
        BY <1>1, <1>6
    <2>2. Key(db'[m.id]) = Key(m) /\ m.id \in Rows(db') /\ m \in outbox'
        BY <1>1, <2>1
    <2>3. m.id \in RowsOf(db', hub, topic)
        BY <1>3, <2>1, <2>2 DEF RowsOf, Key
    <2>4. UnderWay(m.id)'
        BY <2>1, <2>2 DEF UnderWay, CallbackRoundTrips
    <2> QED  BY <2>3, <2>4 DEF KeyUnderWay
<1> QED  BY <1>5, <1>6

\* Service::verify_intent deletes rows of one key, whose row it activates.
LEMMA VerifyUnderWay ==
    ASSUME TypeOK, KeysInv, RenewalUnderWay, CallbackRoundTrips,
           NEW m \in inbox, NEW lease \in Lease, verify_intent_subscribe(m, lease),
           inbox \ {m} \subseteq inbox',
           NEW hub \in Hub, NEW topic \in Topic, RowsOf(db', hub, topic) # {}
    PROVE  KeyUnderWay(hub, topic)'
<1>1. PICK h \in Hub :
         LET old == RowsOf(db, h, m.topic) \ {m.id}
         IN  /\ m.id \in Rows(db) /\ m.id \in Id
             /\ Key(db[m.id]) = [hub |-> h, topic |-> m.topic]
             /\ Rows(db') = Rows(db) \ old
             /\ m.id \in Rows(db') /\ m.id \in Active(db')
             /\ \A i \in Rows(db') : i # m.id => db'[i] = db[i]
             /\ \A i \in Rows(db') : Key(db'[i]) = Key(db[i])
             /\ outbox' = outbox \cup Requests("unsubscribe", old, h, m.topic)
    BY VerifyKeys
<1>2. CASE Key(db[m.id]) = [hub |-> hub, topic |-> topic]
    <2>1. m.id \in RowsOf(db', hub, topic)
        BY <1>1, <1>2 DEF RowsOf, Key
    <2> QED  BY <1>1, <2>1 DEF UnderWay, KeyUnderWay
<1>3. CASE Key(db[m.id]) # [hub |-> hub, topic |-> topic]
    <2>1. RowsOf(db, hub, topic) # {}
        <3>1. PICK k \in Rows(db') : Key(db'[k]) = [hub |-> hub, topic |-> topic]
            BY DEF RowsOf, Key
        <3>2. k \in Rows(db) /\ Key(db[k]) = [hub |-> hub, topic |-> topic]
            BY <1>1, <3>1
        <3> QED  BY <3>2 DEF RowsOf, Key
    <2>2. PICK i \in RowsOf(db, hub, topic) : UnderWay(i)
        BY <2>1 DEF RenewalUnderWay, UnderWay
    <2>3. Key(db[i]) = [hub |-> hub, topic |-> topic] /\ i \in Rows(db)
        BY DEF RowsOf, Key
    <2>4. i # m.id /\ i \notin RowsOf(db, h, m.topic)
        BY <1>1, <1>3, <2>3 DEF RowsOf
    <2>5. i \in Rows(db') /\ db'[i] = db[i]
        BY <1>1, <2>3, <2>4
    <2>6. i \in RowsOf(db', hub, topic) /\ (i \in Active(db) => i \in Active(db'))
        BY <2>5 DEF RowsOf, Active
    <2>7. \A n \in outbox \cup inbox : Callback[n.id] = i => n \in outbox' \cup inbox'
        BY <1>1, <2>4 DEF CallbackRoundTrips
    <2> QED  BY <2>2, <2>6, <2>7, UnderWayKept DEF KeyUnderWay
<1> QED  BY <1>2, <1>3

\* A step that leaves the table keeps it, if the requests to subscribe that
\* it takes have an active row or none.
LEMMA SameTableUnderWay ==
    ASSUME RenewalUnderWay, db' = db,
           \A m \in outbox \cup inbox :
              m.mode = "subscribe" /\ m \notin outbox' \cup inbox' =>
                 \A i \in Rows(db) : Callback[m.id] = i /\ Key(m) = Key(db[i]) => i \in Active(db),
           NEW hub \in Hub, NEW topic \in Topic, RowsOf(db', hub, topic) # {}
    PROVE  KeyUnderWay(hub, topic)'
<1>1. PICK i \in RowsOf(db, hub, topic) : UnderWay(i)
    BY DEF RenewalUnderWay, UnderWay
<1>2. i \in Rows(db)
    BY DEF RowsOf
<1>3. UnderWay(i)'
    BY <1>1, <1>2 DEF UnderWay
<1> QED  BY <1>3 DEF KeyUnderWay

\* No step forgets a key, as long as the steps lose no request.
LEMMA UnderWayStep ==
    ASSUME IInv, KeysInv, RenewalUnderWay, CallbackRoundTrips, NothingLost, [Next]_vars
    PROVE  RenewalUnderWay'
<1> USE DEF IInv
<1> SUFFICES ASSUME NEW hub \in Hub, NEW topic \in Topic, RowsOf(db', hub, topic) # {}
             PROVE  KeyUnderWay(hub, topic)'
    BY DEF RenewalUnderWay, UnderWay, KeyUnderWay
<1>1. ASSUME NEW h \in Hub, NEW t \in Topic, Subscribe(h, t) \/ Unsubscribe(h, t) PROVE KeyUnderWay(hub, topic)'
    BY <1>1, SubscribeUnderWay, UnsubscribeUnderWay
<1>2. ASSUME NEW ids \in SUBSET Unused, NEW g \in Bijection(ids, Expiring),
             renew_subscriptions(ids, g), inbox' = inbox
      PROVE  KeyUnderWay(hub, topic)'
    BY <1>2, RenewUnderWay
<1>3. ASSUME NEW m \in inbox, NEW lease \in Lease, verify_intent_subscribe(m, lease),
             inbox \ {m} \subseteq inbox'
      PROVE  KeyUnderWay(hub, topic)'
    BY <1>3, VerifyUnderWay
<1>4. ASSUME db' = db, outbox \cup inbox \subseteq outbox' \cup inbox' PROVE KeyUnderWay(hub, topic)'
    BY <1>4, SameTableUnderWay
<1>5. ASSUME NEW m \in inbox, VerifySubscribeRejected(m) PROVE KeyUnderWay(hub, topic)'
    <2>1. /\ db' = db /\ outbox' = outbox /\ inbox' = inbox \ {m}
          /\ get_hub_of_inactive_subscription(db, Callback[m.id], m.topic) = {}
        BY <1>5 DEF VerifySubscribeRejected
    <2>2. ASSUME NEW i \in Rows(db), Callback[m.id] = i, Key(m) = Key(db[i])
          PROVE  i \in Active(db)
        <3>1. db[i].hub \in Hub /\ db[i].topic = m.topic
            BY <2>2, RowType DEF TypeOK, Key
        <3>2. db[i].expires_at # Null
            BY <2>1, <2>2, <3>1 DEF get_hub_of_inactive_subscription
        <3> QED  BY <3>2 DEF Active
    <2> QED  BY <2>1, <2>2, SameTableUnderWay
<1>6. ASSUME NEW m \in inbox, VerifyUnsubscribe(m) \/ VerifyUnsubscribeRejected(m) PROVE KeyUnderWay(hub, topic)'
    <2>1. m.mode = "unsubscribe" /\ db' = db /\ outbox' = outbox /\ inbox' = inbox \ {m}
        BY <1>6 DEF VerifyUnsubscribe, VerifyUnsubscribeRejected, Pending
    <2> QED  BY <2>1, SameTableUnderWay
<1>7. CASE PollTickFails
    BY <1>2, <1>4, <1>7 DEF PollTickFails
<1>8. CASE PollTick
    BY <1>2, <1>8 DEF PollTick
<1>9. ASSUME NEW m \in inbox, HubVerifies(m) PROVE KeyUnderWay(hub, topic)'
    BY <1>3, <1>5, <1>6, <1>9 DEF HubVerifies, VerifySubscribe
<1>10. ASSUME NEW m \in inbox, NEW lease \in Lease,
              VerifySubscribeUnheard(m, lease) \/ VerifySubscribeFails(m, lease)
       PROVE  KeyUnderWay(hub, topic)'
    BY <1>3, <1>4, <1>10 DEF VerifySubscribeUnheard, VerifySubscribeFails
<1>11. ASSUME NEW m, SendRequest(m) \/ PushGone(m) \/ LeaseEnds(m) PROVE KeyUnderWay(hub, topic)'
    BY <1>4, <1>11 DEF SendRequest, PushGone, LeaseEnds
<1>12. CASE PollPending \/ Advance \/ UNCHANGED vars
    BY <1>4, <1>12 DEF PollPending, Advance, vars
<1>13. ~Restart /\ \A m : ~LoseRequest(m)
    BY DEF NothingLost, Restart, LoseRequest, Fault
<1> QED
    BY <1>1, <1>7, <1>8, <1>9, <1>10, <1>11, <1>12, <1>13 DEF Next

\* While no request is lost, every key in the table has an active row, or is
\* on the way to one: a tick that gives a lease up has asked for the next.
THEOREM RenewalsUnderWay == CallbackRoundTrips /\ NothingLost /\ Spec => []RenewalUnderWay
<1>1. Init => RenewalUnderWay
    <2> SUFFICES ASSUME Init PROVE Rows(db) = {}
        BY DEF RenewalUnderWay, RowsOf
    <2> QED  BY DEF Init, EmptyTable, Rows
<1>2. CallbackRoundTrips /\ NothingLost /\ IInv /\ KeysInv /\ RenewalUnderWay /\ [Next]_vars
          => RenewalUnderWay'
    BY UnderWayStep
<1>3. CallbackRoundTrips /\ NothingLost => [](CallbackRoundTrips /\ NothingLost)
    <2>1. CallbackRoundTrips /\ NothingLost => CallbackRoundTrips' /\ NothingLost'
        BY DEF CallbackRoundTrips, NothingLost
    <2> QED  BY <2>1, PTL
<1> QED  BY <1>1, <1>2, <1>3, KeysInvariant, PTL DEF Spec

=============================================================================
