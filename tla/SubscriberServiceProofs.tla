---------------------- MODULE SubscriberServiceProofs ----------------------
(***************************************************************************)
(* Proofs about SubscriberService, for every set of ids, hubs and topics,  *)
(* every margin, lease and bound, every combination of faults and every    *)
(* callback encoding.                                                      *)
(***************************************************************************)
EXTENDS SubscriberService, WellFoundedInduction, TLAPS

-----------------------------------------------------------------------------
(* The table                                                               *)

\* A set of naturals that is not empty has a least element: the ORDER BY of
\* get_next_expiry puts a row first.
LEMMA LeastElement ==
    ASSUME NEW E \in SUBSET Nat, E # {}
    PROVE  \E e \in E : \A f \in E : e <= f
<1> DEFINE R == {p \in Nat \X Nat : p[1] < p[2]}
<1>1. IsWellFoundedOn(R, Nat)
    BY NatLessThanWellFounded DEF OpToRel
<1>2. PICK e \in E : \A f \in E : ~(<<f, e>> \in R)
    <2> HIDE DEF R
    <2> QED  BY <1>1, WFMin
<1>3. \A f \in E : ~(f < e)
    BY <1>2
<1> QED  BY <1>3

\* get_next_expiry gives the earliest expiry of the active rows, and NULL
\* when there is none.
LEMMA NextExpiry ==
    ASSUME NEW t \in Table
    PROVE  /\ Active(t) = {} => get_next_expiry(t) = Null
           /\ Active(t) # {} =>
                /\ \E i \in Active(t) : get_next_expiry(t) = t[i].expires_at
                /\ get_next_expiry(t) \in Nat
                /\ get_next_expiry(t) # Null
                /\ \A i \in Active(t) : get_next_expiry(t) <= t[i].expires_at
<1> DEFINE E == {t[i].expires_at : i \in Active(t)}
<1>1. E \in SUBSET Nat
    BY DEF Table, Row, Active, Rows
<1>2. CASE E = {}
    BY <1>2 DEF get_next_expiry
<1>3. CASE E # {}
    <2>1. PICK e \in E : \A f \in E : e <= f
        BY <1>1, <1>3, LeastElement
    <2>2. /\ get_next_expiry(t) \in E
          /\ \A f \in E : get_next_expiry(t) <= f
        <3>1. get_next_expiry(t) = CHOOSE x \in E : \A f \in E : x <= f
            BY <1>3 DEF get_next_expiry
        <3> HIDE DEF E
        <3> QED  BY <2>1, <3>1
    <2> QED  BY <1>1, <1>3, <2>2, StoreAssumption
<1> QED  BY <1>2, <1>3

\* Inserts do not touch the rows there are, nor add active ones.
LEMMA CreateFacts ==
    ASSUME NEW t \in Table, NEW ids \in SUBSET (Id \ Rows(t)),
           NEW new \in [ids -> [hub : Hub, topic : Topic]]
    PROVE  LET u == create_subscriptions(t, new)
           IN  /\ u \in Table
               /\ Active(u) = Active(t)
               /\ \A i \in Id \ ids : u[i] = t[i]
               /\ Rows(u) = Rows(t) \cup ids
BY StoreAssumption
DEF Table, Row, Active, Rows, create_subscriptions

\* Deactivating keeps every row and its key, and leaves active exactly the
\* rows that expire after the threshold.
LEMMA DeactivateFacts ==
    ASSUME NEW t \in Table, NEW before \in Nat
    PROVE  LET u == deactivate_subscriptions_expire_before(t, before)
           IN  /\ u \in Table
               /\ Active(u) = {i \in Active(t) : t[i].expires_at > before}
               /\ \A i \in Active(u) : u[i] = t[i]
               /\ Rows(u) = Rows(t)
               /\ \A i \in Rows(t) : u[i].hub = t[i].hub /\ u[i].topic = t[i].topic
BY StoreAssumption
DEF Table, Row, Active, Rows, deactivate_subscriptions_expire_before,
    get_subscriptions_expire_before

\* Deleting removes the rows named and leaves the others as they are.
LEMMA DeleteFacts ==
    ASSUME NEW t \in Table, NEW ids
    PROVE  LET u == delete_subscriptions(t, ids)
           IN  /\ u \in Table
               /\ Active(u) = Active(t) \ ids
               /\ Rows(u) = Rows(t) \ ids
               /\ \A i \in Id \ ids : u[i] = t[i]
BY DEF Table, Active, Rows, delete_subscriptions

\* Activating changes the expiry of one row, if there is such a row.
LEMMA ActivateFacts ==
    ASSUME NEW t \in Table, NEW id \in Id, NEW e \in Nat
    PROVE  LET u == activate_subscription(t, id, e)
           IN  /\ u \in Table
               /\ Rows(u) = Rows(t)
               /\ Active(u) = Active(t) \cup (Rows(t) \cap {id})
               /\ \A i \in Id \ {id} : u[i] = t[i]
               /\ id \in Rows(t) => /\ u[id].hub = t[id].hub
                                    /\ u[id].topic = t[id].topic
                                    /\ u[id].expires_at = e
BY StoreAssumption
DEF Table, Row, Active, Rows, activate_subscription

-----------------------------------------------------------------------------
(* Times                                                                   *)

\* What the service computes stays in range, and refresh times keep the
\* order of the expiries they are computed from.
LEMMA TimeFacts ==
    /\ \A e \in Margin..I64Max : /\ refresh_time(e) = e - Margin
                                 /\ refresh_time(e) \in 0..I64Max
    /\ NoTick \in Nat /\ I64Max < NoTick
BY ServiceAssumption DEF refresh_time, NoTick, U64Max

\* The expiry of a lease is an i64, and no earlier than the margin.
LEMMA ExpiryFacts ==
    ASSUME TypeOK, NEW lease \in Lease
    PROVE  expiry(lease) \in Margin..I64Max
BY ServiceAssumption DEF TypeOK, expiry, Earlier

\* What a hub holds of a request is a subscription.
LEMMA SubscribedType ==
    ASSUME NEW m \in Request, NEW until \in Nat
    PROVE  Subscribed(m, until) \in HubSub
BY DEF Request, Subscribed, HubSub

\* The threshold of renew_subscriptions does not overflow.
LEMMA ThresholdFacts ==
    ASSUME TypeOK
    PROVE  renewal_threshold \in Nat /\ renewal_threshold >= now + Margin + 1
BY ServiceAssumption DEF TypeOK, renewal_threshold

\* The tick that a table asks for, after a poll or at a start, is no later
\* than the refresh time of any of its active rows.
LEMMA TickFacts ==
    ASSUME NEW t \in Table, \A i \in Active(t) : t[i].expires_at \in Margin..I64Max
    PROVE  /\ tick_result(t) \in 0..NoTick
           /\ \A i \in Active(t) : tick_result(t) <= refresh_time(t[i].expires_at)
           /\ first_tick(t) = tick_result(t)
           /\ tick_result(t) # NoTick =>
                \E i \in Active(t) : tick_result(t) = refresh_time(t[i].expires_at)
<1> USE ServiceAssumption
<1>1. CASE Active(t) = {}
    BY <1>1, NextExpiry, TimeFacts DEF tick_result, first_tick
<1>2. CASE Active(t) # {}
    <2> DEFINE e == get_next_expiry(t)
    <2>1. /\ e \in Margin..I64Max
          /\ e # Null
          /\ \E i \in Active(t) : e = t[i].expires_at
          /\ \A i \in Active(t) : e <= t[i].expires_at
        BY <1>2, NextExpiry
    <2>2. tick_result(t) = refresh_time(e) /\ first_tick(t) = e - Margin
        BY <2>1 DEF tick_result, first_tick
    <2> HIDE DEF e
    <2> QED  BY <2>1, <2>2, TimeFacts
<1> QED  BY <1>1, <1>2

-----------------------------------------------------------------------------
(* What each change of the table does to it                                *)

\* The active rows of u are active rows of t, unchanged.
OnlyDeactivates(t, u) ==
    /\ u \in Table
    /\ Active(u) \subseteq Active(t)
    /\ \A i \in Active(u) : u[i] = t[i]

\* What hub::subscribe and hub::unsubscribe spawn are requests.
LEMMA RequestsType ==
    ASSUME NEW mode \in {"subscribe", "unsubscribe"}, NEW ids \in SUBSET Id,
           NEW hub \in Hub, NEW topic \in Topic
    PROVE  Requests(mode, ids, hub, topic) \subseteq Request
BY DEF Requests, Request

\* A row that there is has a hub, a topic and thus a key.
LEMMA RowType ==
    ASSUME NEW t \in Table, NEW i \in Rows(t)
    PROVE  /\ i \in Id /\ t[i].hub \in Hub /\ t[i].topic \in Topic
           /\ Key(t[i]) \in [hub : Hub, topic : Topic]
BY DEF Table, Row, Rows, Key

\* hub::subscribe
LEMMA SubscribeFacts ==
    ASSUME TypeOK, NEW hub \in Hub, NEW topic \in Topic, Subscribe(hub, topic)
    PROVE  OnlyDeactivates(db, db') /\ outbox' \subseteq Request
           /\ \A i \in Rows(db) : i \in Rows(db') /\ Key(db'[i]) = Key(db[i])
<1>1. PICK id \in Unused :
        /\ db' = create_subscriptions(db, [i \in {id} |-> [hub |-> hub, topic |-> topic]])
        /\ outbox' = outbox \cup Requests("subscribe", {id}, hub, topic)
    BY DEF Subscribe
<1> DEFINE ids == {id}
           new == [i \in ids |-> [hub |-> hub, topic |-> topic]]
<1>2. ids \in SUBSET (Id \ Rows(db))
    BY DEF Unused
<1>3. new \in [ids -> [hub : Hub, topic : Topic]]
    OBVIOUS
<1>4. db' = create_subscriptions(db, new)
    BY <1>1
<1>5. Requests("subscribe", ids, hub, topic) \subseteq Request
    BY <1>2, RequestsType
<1>6. outbox' \subseteq Request
    BY <1>1, <1>5 DEF TypeOK
<1> HIDE DEF new, ids
<1>7. /\ db' \in Table
      /\ Active(db') = Active(db)
      /\ \A i \in Id \ ids : db'[i] = db[i]
      /\ Rows(db') = Rows(db) \cup ids
    <2>1. db \in Table
        BY DEF TypeOK
    <2> QED  BY <1>2, <1>3, <1>4, <2>1, CreateFacts
<1>8. Active(db) \subseteq Rows(db) /\ Rows(db) \subseteq Id \ ids
    BY <1>2 DEF Active, Rows
<1> QED  BY <1>6, <1>7, <1>8 DEF OnlyDeactivates

\* hub::unsubscribe for the rows of a key
LEMMA UnsubscribeFacts ==
    ASSUME TypeOK, NEW hub \in Hub, NEW topic \in Topic, Unsubscribe(hub, topic)
    PROVE  OnlyDeactivates(db, db') /\ outbox' \subseteq Request
<1>1. RowsOf(db, hub, topic) \in SUBSET Id
    BY DEF RowsOf, Rows
<1>2. /\ db' = delete_subscriptions(db, RowsOf(db, hub, topic))
      /\ outbox' = outbox \cup Requests("unsubscribe", RowsOf(db, hub, topic), hub, topic)
    BY DEF Unsubscribe
<1>3. /\ db' \in Table
      /\ Active(db') = Active(db) \ RowsOf(db, hub, topic)
      /\ \A i \in Id \ RowsOf(db, hub, topic) : db'[i] = db[i]
    BY <1>2, DeleteFacts DEF TypeOK
<1>4. Active(db) \subseteq Id
    BY DEF Active, Rows
<1> QED  BY <1>1, <1>2, <1>3, <1>4, RequestsType DEF OnlyDeactivates, TypeOK

\* What renew_subscriptions sends are requests.
LEMMA RenewalRequestsType ==
    ASSUME TypeOK, NEW ids \in SUBSET Unused, NEW S \in SUBSET Active(db),
           NEW g \in Bijection(ids, S)
    PROVE  RenewalRequests(ids, g) \subseteq Request
<1>1. \A i \in ids : i \in Id /\ g[i] \in Rows(db)
    BY DEF Unused, Bijection, Injection, Active
<1>2. \A i \in ids : Requests("subscribe", {i}, db[g[i]].hub, db[g[i]].topic) \subseteq Request
    BY <1>1, RowType, RequestsType DEF TypeOK
<1> QED  BY <1>2 DEF RenewalRequests

\* Inserting rows for those that expire before a time, and deactivating
\* these: no row or key is lost, what is left active expires after that
\* time, each new row has the key that its hub is asked for, and each row
\* that is deactivated has a new one of its key.
LEMMA RenewTable ==
    ASSUME TypeOK, NEW before \in Nat, NEW ids \in SUBSET Unused,
           NEW g \in Bijection(ids, get_subscriptions_expire_before(db, before)), NEW u,
           u = deactivate_subscriptions_expire_before(
                   create_subscriptions(db, [i \in ids |-> Key(db[g[i]])]), before)
    PROVE  /\ OnlyDeactivates(db, u)
           /\ RenewalRequests(ids, g) \subseteq Request
           /\ \A i \in Active(u) : u[i].expires_at > before
           /\ Rows(u) = Rows(db) \cup ids
           /\ \A i \in Rows(db) : Key(u[i]) = Key(db[i])
           /\ \A m \in RenewalRequests(ids, g) : m.id \in ids /\ Key(u[m.id]) = Key(m)
           /\ \A k \in ids : \E i \in Rows(db) : Key(u[k]) = Key(db[i])
           /\ \A i \in Active(db) \ Active(u) : \E m \in RenewalRequests(ids, g) :
                 m.mode = "subscribe" /\ m.id \in Id /\ Key(m) = Key(db[i])
<1> DEFINE new == [i \in ids |-> Key(db[g[i]])]
           t == create_subscriptions(db, new)
<1>1. get_subscriptions_expire_before(db, before) \in SUBSET Active(db)
    BY DEF get_subscriptions_expire_before
<1>2. \A i \in ids : g[i] \in Rows(db)
    BY <1>1 DEF Bijection, Injection, Active
<1>3. new \in [ids -> [hub : Hub, topic : Topic]]
    BY <1>2, RowType DEF TypeOK
<1>4. ids \in SUBSET (Id \ Rows(db))
    BY DEF Unused
<1>5. \A i \in ids : t[i].hub = db[g[i]].hub /\ t[i].topic = db[g[i]].topic
    BY <1>4 DEF create_subscriptions, Key
<1> HIDE DEF new
<1>6. /\ t \in Table
      /\ Active(t) = Active(db)
      /\ \A i \in Id \ ids : t[i] = db[i]
      /\ Rows(t) = Rows(db) \cup ids
    BY <1>3, <1>4, CreateFacts DEF TypeOK
<1>7. u = deactivate_subscriptions_expire_before(t, before)
    BY DEF new
<1> HIDE DEF t
<1>8. /\ u \in Table
      /\ Active(u) = {i \in Active(t) : t[i].expires_at > before}
      /\ \A i \in Active(u) : u[i] = t[i]
      /\ Rows(u) = Rows(t)
      /\ \A i \in Rows(t) : u[i].hub = t[i].hub /\ u[i].topic = t[i].topic
    <2>1. LET v == deactivate_subscriptions_expire_before(t, before)
          IN  /\ v \in Table
              /\ Active(v) = {i \in Active(t) : t[i].expires_at > before}
              /\ \A i \in Active(v) : v[i] = t[i]
              /\ Rows(v) = Rows(t)
              /\ \A i \in Rows(t) : v[i].hub = t[i].hub /\ v[i].topic = t[i].topic
        BY <1>6, DeactivateFacts
    <2> QED  BY <1>7, <2>1
<1>9. Active(db) \subseteq Rows(db) /\ Rows(db) \subseteq Id \ ids
    BY <1>4 DEF Active, Rows
<1>10. OnlyDeactivates(db, u) /\ \A i \in Rows(db) : Key(u[i]) = Key(db[i])
    BY <1>6, <1>8, <1>9 DEF OnlyDeactivates, Key
<1>11. RenewalRequests(ids, g) \subseteq Request
    BY <1>1, RenewalRequestsType
<1>12. \A m \in RenewalRequests(ids, g) : m.id \in ids /\ Key(u[m.id]) = Key(m)
    <2>1. \A i \in ids : u[i].hub = db[g[i]].hub /\ u[i].topic = db[g[i]].topic
        BY <1>5, <1>6, <1>8
    <2>2. \A m \in RenewalRequests(ids, g) :
             m.id \in ids /\ m.hub = db[g[m.id]].hub /\ m.topic = db[g[m.id]].topic
        BY DEF RenewalRequests, Requests
    <2> QED  BY <2>1, <2>2 DEF Key
<1>13. ASSUME NEW k \in ids PROVE \E i \in Rows(db) : Key(u[k]) = Key(db[i])
    <2>1. u[k].hub = db[g[k]].hub /\ u[k].topic = db[g[k]].topic
        BY <1>5, <1>6, <1>8
    <2> QED  BY <1>2, <2>1 DEF Key
<1>14. ASSUME NEW i \in Active(db) \ Active(u)
       PROVE  \E m \in RenewalRequests(ids, g) :
                 m.mode = "subscribe" /\ m.id \in Id /\ Key(m) = Key(db[i])
    <2>1. i \in Id /\ t[i] = db[i] /\ db[i].expires_at \in Nat
        BY <1>6, <1>9, ServiceAssumption DEF TypeOK, Rows
    <2>2. i \in get_subscriptions_expire_before(db, before)
        BY <1>6, <1>8, <2>1 DEF get_subscriptions_expire_before
    <2>3. PICK k \in ids : g[k] = i
        BY <2>2 DEF Bijection, Surjection
    <2> DEFINE m == [mode |-> "subscribe", hub |-> db[i].hub, topic |-> db[i].topic, id |-> k]
    <2>4. m \in RenewalRequests(ids, g)
        BY <2>3 DEF RenewalRequests, Requests
    <2>5. m.mode = "subscribe" /\ m.id \in Id /\ Key(m) = Key(db[i])
        BY <1>4 DEF Key
    <2> QED  BY <2>4, <2>5
<1> QED  BY <1>6, <1>8, <1>10, <1>11, <1>12, <1>13, <1>14

\* Service::renew_subscriptions: the threshold is that of the time it runs.
LEMMA RenewFacts ==
    ASSUME TypeOK, NEW ids \in SUBSET Unused, NEW g \in Bijection(ids, Expiring),
           renew_subscriptions(ids, g)
    PROVE  /\ OnlyDeactivates(db, db')
           /\ outbox' = outbox \cup RenewalRequests(ids, g)
           /\ outbox' \subseteq Request
           /\ \A i \in Active(db') : db'[i].expires_at > renewal_threshold
           /\ Rows(db') = Rows(db) \cup ids
           /\ \A i \in Rows(db) : i \in Rows(db') /\ Key(db'[i]) = Key(db[i])
           /\ \A m \in RenewalRequests(ids, g) : m.id \in ids /\ Key(db'[m.id]) = Key(m)
           /\ \A k \in ids : \E i \in Rows(db) : Key(db'[k]) = Key(db[i])
           /\ \A i \in Active(db) \ Active(db') : \E m \in RenewalRequests(ids, g) :
                 m.mode = "subscribe" /\ m.id \in Id /\ Key(m) = Key(db[i])
<1>1. /\ renewal_threshold \in Nat
      /\ g \in Bijection(ids, get_subscriptions_expire_before(db, renewal_threshold))
    BY ThresholdFacts DEF Expiring
<1>2. /\ db' = deactivate_subscriptions_expire_before(
                   create_subscriptions(db, [i \in ids |-> Key(db[g[i]])]), renewal_threshold)
      /\ outbox' = outbox \cup RenewalRequests(ids, g)
    BY DEF renew_subscriptions
<1> QED  BY <1>1, <1>2, RenewTable DEF TypeOK

\* Deleting the other rows of a key and activating one: it is the only one
\* left of its key, if it is there, and no other key is touched.
LEMMA VerifyTable ==
    ASSUME TypeOK, NEW id \in Id, NEW hub, NEW topic, NEW e \in Nat, NEW u,
           u = activate_subscription(
                   delete_subscriptions(db, get_old_subscriptions(db, id, hub, topic)), id, e)
    PROVE  LET old == RowsOf(db, hub, topic) \ {id}
           IN  /\ u \in Table
               /\ Rows(u) = Rows(db) \ old
               /\ Active(u) = (Active(db) \ old) \cup (Rows(db) \cap {id})
               /\ \A i \in Rows(u) : i # id => u[i] = db[i]
               /\ id \in Rows(db) => Key(u[id]) = Key(db[id]) /\ u[id].expires_at = e
<1> DEFINE old == RowsOf(db, hub, topic) \ {id}
           t == delete_subscriptions(db, old)
<1>1. u = activate_subscription(t, id, e) /\ id \notin old
    BY DEF get_old_subscriptions
<1> HIDE DEF old
<1>2. /\ t \in Table
      /\ Active(t) = Active(db) \ old
      /\ Rows(t) = Rows(db) \ old
      /\ \A i \in Id \ old : t[i] = db[i]
    BY DeleteFacts DEF TypeOK
<1> HIDE DEF t
<1>3. /\ u \in Table
      /\ Rows(u) = Rows(t)
      /\ Active(u) = Active(t) \cup (Rows(t) \cap {id})
      /\ \A i \in Id \ {id} : u[i] = t[i]
      /\ id \in Rows(t) => /\ u[id].hub = t[id].hub
                           /\ u[id].topic = t[id].topic
                           /\ u[id].expires_at = e
    BY <1>1, <1>2, ActivateFacts
<1>4. Rows(t) \cap {id} = Rows(db) \cap {id} /\ Rows(db) \subseteq Id /\ t[id] = db[id]
    BY <1>1, <1>2 DEF Rows
<1>5. id \in Rows(db) => Key(u[id]) = Key(db[id]) /\ u[id].expires_at = e
    BY <1>3, <1>4 DEF Key
<1>6. \A i \in Rows(u) : i # id => u[i] = db[i]
    BY <1>2, <1>3, <1>4
<1> QED  BY <1>2, <1>3, <1>4, <1>5, <1>6 DEF old

\* Service::verify_intent: the row of the callback becomes the only one of
\* its key, and no other key is touched.
LEMMA VerifyFacts ==
    ASSUME TypeOK, NEW m \in inbox, NEW lease \in Lease,
           verify_intent_subscribe(m, lease)
    PROVE  \E hub \in Hub :
             LET id == Callback[m.id]
             IN  /\ id \in Rows(db)
                 /\ Key(db[id]) = [hub |-> hub, topic |-> m.topic]
                 /\ db' \in Table
                 /\ id \in Active(db')
                 /\ Key(db'[id]) = Key(db[id])
                 /\ db'[id].expires_at = expiry(lease)
                 /\ Active(db') \subseteq Active(db) \cup {id}
                 /\ \A i \in Active(db') : i # id => db'[i] = db[i] /\ Key(db[i]) # Key(db[id])
                 /\ \A i \in Rows(db) : Key(db[i]) # Key(db[id]) =>
                                          i \in Rows(db') /\ db'[i] = db[i]
                 /\ outbox' \subseteq Request
                 /\ hasten(refresh_time(expiry(lease)))
<1> DEFINE id == Callback[m.id]
           e == expiry(lease)
<1>1. PICK hub \in get_hub_of_inactive_subscription(db, id, m.topic) :
        /\ hasten(refresh_time(e))
        /\ remove_old_and_activate(id, hub, m.topic, e)
    BY DEF verify_intent_subscribe
<1>2. /\ id \in Rows(db) /\ hub \in Hub
      /\ db[id].hub = hub /\ db[id].topic = m.topic
    BY <1>1 DEF get_hub_of_inactive_subscription
<1>3. id \in Id /\ m.topic \in Topic
    BY <1>2 DEF Rows, TypeOK, Request
<1>4. /\ db' = activate_subscription(
                   delete_subscriptions(db, get_old_subscriptions(db, id, hub, m.topic)), id, e)
      /\ outbox' = outbox \cup
                   Requests("unsubscribe", RowsOf(db, hub, m.topic) \ {id}, hub, m.topic)
    BY <1>1 DEF remove_old_and_activate, get_old_subscriptions
<1>5. e \in Nat
    BY ExpiryFacts, ServiceAssumption
<1> DEFINE old == RowsOf(db, hub, m.topic) \ {id}
<1>6. old = {i \in Rows(db) : Key(db[i]) = Key(db[id])} \ {id}
    BY <1>2 DEF RowsOf, Key
<1>7. old \in SUBSET Id /\ old \subseteq Rows(db) /\ Active(db) \subseteq Rows(db)
    BY DEF RowsOf, Rows, Active
<1> HIDE DEF e, id
<1>8. /\ db' \in Table
      /\ Rows(db') = Rows(db) \ old
      /\ Active(db') = (Active(db) \ old) \cup (Rows(db) \cap {id})
      /\ \A i \in Rows(db') : i # id => db'[i] = db[i]
      /\ id \in Rows(db) => Key(db'[id]) = Key(db[id]) /\ db'[id].expires_at = e
    BY <1>3, <1>4, <1>5, VerifyTable
<1> HIDE DEF old
<1>9. Key(db[id]) = [hub |-> hub, topic |-> m.topic]
    BY <1>2 DEF Key
<1>10. id \in Active(db') /\ Active(db') \subseteq Active(db) \cup {id}
    BY <1>2, <1>8
<1>11. \A i \in Active(db') : i # id => db'[i] = db[i] /\ Key(db[i]) # Key(db[id])
    BY <1>6, <1>7, <1>8
<1>12. \A i \in Rows(db) : Key(db[i]) # Key(db[id]) => i \in Rows(db') /\ db'[i] = db[i]
    BY <1>2, <1>6, <1>8
<1>13. outbox' \subseteq Request
    BY <1>2, <1>3, <1>4, <1>7, RequestsType DEF TypeOK, old
<1> QED  BY <1>1, <1>2, <1>8, <1>9, <1>10, <1>11, <1>12, <1>13 DEF id, e

-----------------------------------------------------------------------------
(* The inductive invariant                                                 *)

IInv == TypeOK /\ AtMostOneActive /\ SchedulerInv

\* Deactivating and deleting rows keeps what is said of the active ones.
LEMMA FewerActive ==
    ASSUME TypeOK, AtMostOneActive, OnlyDeactivates(db, db')
    PROVE  /\ \A i \in Active(db') : db'[i].expires_at \in Margin..I64Max
           /\ AtMostOneActive'
BY DEF TypeOK, AtMostOneActive, OnlyDeactivates

\* Builder::build_service starts the service in the invariant.
LEMMA InitIInv == Init => IInv
<1> SUFFICES ASSUME Init PROVE IInv
    OBVIOUS
<1>1. EmptyTable \in Table /\ Active(EmptyTable) = {}
    BY DEF EmptyTable, Table, Active, Rows
<1>2. db \in Table /\ Active(db) = {}
    BY <1>1 DEF Init
<1>3. first_tick(EmptyTable) \in 0..NoTick
    BY <1>1, TickFacts
<1>4. TypeOK
    BY <1>2, <1>3, ServiceAssumption DEF Init, TypeOK
<1>5. AtMostOneActive /\ SchedulerInv
    BY <1>2 DEF AtMostOneActive, SchedulerInv, Init
<1> QED  BY <1>4, <1>5 DEF IInv

\* Hastening to the refresh time of the row just activated covers it, and
\* moves the wake-up of the others no later.
LEMMA HastenCovers ==
    ASSUME TypeOK, SchedulerInv, NEW id, NEW e \in Margin..I64Max,
           hasten(refresh_time(e)), sleep' = sleep, renewer' = renewer,
           Active(db') \subseteq Active(db) \cup {id},
           \A i \in Active(db') : i # id => db'[i] = db[i],
           id \in Active(db') => db'[id].expires_at = e
    PROVE  /\ next_tick' \in 0..NoTick /\ woken' \in BOOLEAN
           /\ SchedulerInv'
<1> DEFINE r == refresh_time(e)
<1>1. r \in 0..NoTick
    BY TimeFacts, ServiceAssumption
<1>2. next_tick' = Earlier(next_tick, r) /\ woken' = (woken \/ r < next_tick)
    BY DEF hasten
<1> HIDE DEF r
<1>3. next_tick' \in 0..NoTick /\ next_tick' <= next_tick /\ next_tick' <= r
    BY <1>1, <1>2 DEF TypeOK, Earlier
<1>4. woken' \in BOOLEAN
    BY <1>2 DEF TypeOK
<1>5. SchedulerInv'
    <2> SUFFICES ASSUME renewer = "running"
                 PROVE  /\ ~woken' => sleep <= next_tick'
                        /\ \A i \in Active(db') :
                             Earlier(sleep, next_tick') <= refresh_time(db'[i].expires_at)
        BY DEF SchedulerInv, Wakeup
    <2>1. ASSUME ~woken' PROVE sleep <= next_tick'
        <3>1. ~woken /\ ~(r < next_tick)
            BY <1>2, <2>1
        <3>2. next_tick' = next_tick
            BY <1>1, <1>2, <3>1 DEF TypeOK, Earlier
        <3> QED  BY <3>1, <3>2 DEF SchedulerInv
    <2>2. Earlier(sleep, next_tick') <= r
        BY <1>1, <1>3 DEF TypeOK, Earlier
    <2>3. Earlier(sleep, next_tick') <= Earlier(sleep, next_tick)
        BY <1>3 DEF TypeOK, Earlier
    <2>4. ASSUME NEW i \in Active(db), db'[i] = db[i]
          PROVE  Earlier(sleep, next_tick') <= refresh_time(db'[i].expires_at)
        <3>1. Earlier(sleep, next_tick) <= refresh_time(db[i].expires_at)
            BY DEF SchedulerInv, Wakeup
        <3>2. refresh_time(db[i].expires_at) \in 0..I64Max
            BY TimeFacts DEF TypeOK
        <3> QED  BY <1>3, <2>3, <2>4, <3>1, <3>2, ServiceAssumption DEF TypeOK, Earlier
    <2>5. ASSUME NEW i \in Active(db')
          PROVE  Earlier(sleep, next_tick') <= refresh_time(db'[i].expires_at)
        <3>1. CASE i = id
            BY <2>2, <3>1 DEF r
        <3>2. CASE i # id
            BY <2>4, <3>2
        <3> QED  BY <3>1, <3>2
    <2> QED  BY <2>1, <2>5
<1> QED  BY <1>3, <1>4, <1>5

\* A poll that ticks: what stays active is covered by the tick that the new
\* table asks for.
LEMMA PollTickIInv ==
    ASSUME IInv, PollTick
    PROVE  IInv' /\ next_tick' > now
<1> USE DEF IInv
<1>1. \E ids \in SUBSET Unused : \E g \in Bijection(ids, Expiring) :
         renew_subscriptions(ids, g)
    BY DEF PollTick
<1>2. /\ OnlyDeactivates(db, db')
      /\ outbox' \subseteq Request
      /\ \A i \in Active(db') : db'[i].expires_at > renewal_threshold
    BY <1>1, RenewFacts
<1>3. /\ \A i \in Active(db') : db'[i].expires_at \in Margin..I64Max
      /\ AtMostOneActive'
    BY <1>2, FewerActive
<1>4. db' \in Table
    BY <1>2 DEF OnlyDeactivates
<1>5. /\ tick_result(db') \in 0..NoTick
      /\ \A i \in Active(db') : tick_result(db') <= refresh_time(db'[i].expires_at)
      /\ tick_result(db') # NoTick =>
            \E i \in Active(db') : tick_result(db') = refresh_time(db'[i].expires_at)
    BY <1>3, <1>4, TickFacts
<1>6. TypeOK'
    BY <1>2, <1>3, <1>4, <1>5 DEF TypeOK, PollTick, history
<1>7. SchedulerInv'
    BY <1>5 DEF SchedulerInv, Wakeup, Earlier, PollTick
<1>8. next_tick' > now
    <2>1. CASE tick_result(db') = NoTick
        BY <2>1, ServiceAssumption DEF PollTick, NoTick, U64Max, TypeOK
    <2>2. CASE tick_result(db') # NoTick
        <3>1. PICK i \in Active(db') : tick_result(db') = refresh_time(db'[i].expires_at)
            BY <1>5, <2>2
        <3>2. refresh_time(db'[i].expires_at) = db'[i].expires_at - Margin
            BY <1>3, TimeFacts
        <3> QED
            BY <1>2, <1>3, <3>1, <3>2, ThresholdFacts, ServiceAssumption
            DEF PollTick, TypeOK
    <2> QED  BY <2>1, <2>2
<1> QED  BY <1>3, <1>6, <1>7, <1>8

\* A poll whose tick fails: the table is as after a poll that ticks, or
\* untouched, and the scheduler promises nothing any more.
LEMMA PollTickFailsIInv ==
    ASSUME IInv, PollTickFails
    PROVE  IInv'
<1> USE DEF IInv
<1>1. OnlyDeactivates(db, db') /\ outbox' \subseteq Request
    <2>1. CASE \E ids \in SUBSET Unused : \E sub \in SUBSET Expiring :
                 \E g \in Bijection(ids, sub) :
                     /\ outbox' = outbox \cup RenewalRequests(ids, g)
                     /\ UNCHANGED db
        <3>1. SUBSET Expiring \subseteq SUBSET Active(db)
            BY DEF Expiring, get_subscriptions_expire_before
        <3> QED  BY <2>1, <3>1, RenewalRequestsType DEF OnlyDeactivates, TypeOK
    <2>2. CASE \E ids \in SUBSET Unused : \E g \in Bijection(ids, Expiring) :
                 renew_subscriptions(ids, g)
        BY <2>2, RenewFacts
    <2> QED  BY <2>1, <2>2 DEF PollTickFails
<1>2. /\ \A i \in Active(db') : db'[i].expires_at \in Margin..I64Max
      /\ AtMostOneActive'
    BY <1>1, FewerActive
<1>3. TypeOK'
    <2>1. db' \in Table
        BY <1>1 DEF OnlyDeactivates
    <2>2. sleep' \in 0..NoTick
        BY DEF PollTickFails, Wakeup, Earlier, TypeOK
    <2>3. faults' \in 0..MaxFaults
        BY ServiceAssumption DEF PollTickFails, Fault, TypeOK
    <2> QED  BY <1>1, <1>2, <2>1, <2>2, <2>3 DEF TypeOK, PollTickFails
<1>4. SchedulerInv'
    BY DEF SchedulerInv, PollTickFails
<1> QED  BY <1>2, <1>3, <1>4

\* Service::verify_intent, whether the hub hears the answer or not, keeps
\* the invariant: the handle is hastened before the row is activated.
LEMMA VerifyIInv ==
    ASSUME IInv, NEW m \in inbox, NEW lease \in Lease,
           verify_intent_subscribe(m, lease),
           UNCHANGED <<now, sleep, renewer>>,
           inbox' \subseteq inbox, hub_subs' \subseteq HubSub,
           faults' \in 0..MaxFaults, unheard' \subseteq Id
    PROVE  IInv'
<1> USE DEF IInv
<1> DEFINE id == Callback[m.id]
<1>1. /\ db' \in Table
      /\ id \in Active(db')
      /\ Key(db'[id]) = Key(db[id])
      /\ db'[id].expires_at = expiry(lease)
      /\ Active(db') \subseteq Active(db) \cup {id}
      /\ \A i \in Active(db') : i # id => db'[i] = db[i] /\ Key(db[i]) # Key(db[id])
      /\ outbox' \subseteq Request
      /\ hasten(refresh_time(expiry(lease)))
    BY VerifyFacts
<1>2. expiry(lease) \in Margin..I64Max
    BY ExpiryFacts
<1> HIDE DEF id
<1>3. next_tick' \in 0..NoTick /\ woken' \in BOOLEAN /\ SchedulerInv'
    BY <1>1, <1>2, HastenCovers
<1>4. \A i \in Active(db') : db'[i].expires_at \in Margin..I64Max
    BY <1>1, <1>2 DEF TypeOK
<1>5. TypeOK'
    BY <1>1, <1>3, <1>4 DEF TypeOK
<1>6. AtMostOneActive'
    BY <1>1 DEF AtMostOneActive
<1> QED  BY <1>3, <1>5, <1>6

\* Every step keeps the invariant.
LEMMA NextIInv == IInv /\ [Next]_vars => IInv'
<1> SUFFICES ASSUME IInv, [Next]_vars PROVE IInv'
    OBVIOUS
<1> USE DEF IInv
<1>1. ASSUME NEW hub \in Hub, NEW topic \in Topic, Subscribe(hub, topic)
      PROVE  IInv'
    <2>1. OnlyDeactivates(db, db') /\ outbox' \subseteq Request
        BY <1>1, SubscribeFacts
    <2>2. UNCHANGED <<now, scheduler, inbox, hub_subs, history>>
        BY <1>1 DEF Subscribe
    <2> QED
        BY <2>1, <2>2, FewerActive
        DEF OnlyDeactivates, TypeOK, scheduler, history, SchedulerInv, Wakeup
<1>2. ASSUME NEW hub \in Hub, NEW topic \in Topic, Unsubscribe(hub, topic)
      PROVE  IInv'
    <2>1. OnlyDeactivates(db, db') /\ outbox' \subseteq Request
        BY <1>2, UnsubscribeFacts
    <2>2. UNCHANGED <<now, scheduler, inbox, hub_subs, history>>
        BY <1>2 DEF Unsubscribe
    <2> QED
        BY <2>1, <2>2, FewerActive
        DEF OnlyDeactivates, TypeOK, scheduler, history, SchedulerInv, Wakeup
<1>3. ASSUME PollPending
      PROVE  IInv'
    <2>1. TypeOK'
        BY <1>3 DEF TypeOK, PollPending, Wakeup, Earlier, history
    <2>2. AtMostOneActive'
        BY <1>3 DEF AtMostOneActive, PollPending
    <2>3. SchedulerInv'
        <3>1. Wakeup' = Wakeup /\ sleep' <= next_tick'
            BY <1>3 DEF TypeOK, PollPending, Wakeup, Earlier
        <3> QED  BY <1>3, <3>1 DEF SchedulerInv, PollPending
    <2> QED  BY <2>1, <2>2, <2>3
<1>4. ASSUME PollTick
      PROVE  IInv'
    BY <1>4, PollTickIInv
<1>5. ASSUME PollTickFails
      PROVE  IInv'
    BY <1>5, PollTickFailsIInv
<1>6. ASSUME NEW m \in outbox, SendRequest(m)
      PROVE  IInv'
    BY <1>6
    DEF SendRequest, TypeOK, AtMostOneActive, SchedulerInv, Wakeup, scheduler, history
<1>7. ASSUME NEW m \in inbox, NEW lease \in Lease, VerifySubscribe(m, lease)
      PROVE  IInv'
    <2>1. Subscribed(m, expiry(lease)) \in HubSub
        BY SubscribedType, ExpiryFacts, ServiceAssumption DEF TypeOK
    <2>2. /\ verify_intent_subscribe(m, lease)
          /\ UNCHANGED <<now, sleep, renewer>>
          /\ inbox' \subseteq inbox /\ hub_subs' \subseteq HubSub
          /\ faults' \in 0..MaxFaults /\ unheard' \subseteq Id
        BY <1>7, <2>1 DEF VerifySubscribe, TypeOK
    <2> QED  BY <2>2, VerifyIInv
<1>8. ASSUME NEW m \in inbox, NEW lease \in Lease, VerifySubscribeUnheard(m, lease)
      PROVE  IInv'
    <2>1. /\ verify_intent_subscribe(m, lease)
          /\ UNCHANGED <<now, sleep, renewer>>
          /\ inbox' \subseteq inbox /\ hub_subs' \subseteq HubSub
          /\ faults' \in 0..MaxFaults
          /\ unheard' = unheard \cup {Callback[m.id]}
        BY <1>8, ServiceAssumption DEF VerifySubscribeUnheard, Fault, TypeOK
    <2>2. Callback[m.id] \in Id
        BY ServiceAssumption DEF TypeOK, Request
    <2>3. unheard' \subseteq Id
        BY <2>1, <2>2 DEF TypeOK
    <2> QED  BY <2>1, <2>3, VerifyIInv
<1>9. ASSUME NEW m \in inbox, NEW lease \in Lease, VerifySubscribeFails(m, lease)
      PROVE  IInv'
    <2>1. PICK hub \in get_hub_of_inactive_subscription(db, Callback[m.id], m.topic) :
              \E ids \in SUBSET get_old_subscriptions(db, Callback[m.id], hub, m.topic) :
                 /\ hasten(refresh_time(expiry(lease)))
                 /\ outbox' = outbox \cup Requests("unsubscribe", ids, hub, m.topic)
        BY <1>9 DEF VerifySubscribeFails
    <2>2. /\ hub \in Hub /\ m.topic \in Topic
          /\ Callback[m.id] \notin Active(db)
        BY <2>1 DEF get_hub_of_inactive_subscription, Active, TypeOK, Request
    <2>3. get_old_subscriptions(db, Callback[m.id], hub, m.topic) \subseteq Id
        BY DEF get_old_subscriptions, RowsOf, Rows
    <2>4. outbox' \subseteq Request
        BY <2>1, <2>2, <2>3, RequestsType DEF TypeOK
    <2>5. /\ UNCHANGED <<db, now, sleep, renewer, inbox, hub_subs, unheard>>
          /\ faults' \in 0..MaxFaults
        BY <1>9, ServiceAssumption DEF VerifySubscribeFails, Fault, TypeOK
    <2>6. next_tick' \in 0..NoTick /\ woken' \in BOOLEAN /\ SchedulerInv'
        BY <2>1, <2>2, <2>5, ExpiryFacts, HastenCovers
    <2> QED  BY <2>4, <2>5, <2>6 DEF TypeOK, AtMostOneActive
<1>10. ASSUME NEW m \in inbox,
              \/ VerifySubscribeRejected(m)
              \/ VerifyUnsubscribe(m)
              \/ VerifyUnsubscribeRejected(m)
       PROVE  IInv'
    BY <1>10
    DEF VerifySubscribeRejected, VerifyUnsubscribe, VerifyUnsubscribeRejected,
        TypeOK, AtMostOneActive, SchedulerInv, Wakeup, scheduler, history
<1>11. ASSUME NEW s \in hub_subs, PushGone(s) \/ LeaseEnds(s)
       PROVE  IInv'
    BY <1>11
    DEF PushGone, LeaseEnds, TypeOK, AtMostOneActive, SchedulerInv, Wakeup, scheduler, history
<1>12. ASSUME NEW m \in outbox \cup inbox, LoseRequest(m)
       PROVE  IInv'
    <2>1. faults' \in 0..MaxFaults
        BY <1>12, ServiceAssumption DEF LoseRequest, Fault, TypeOK
    <2> QED
        BY <1>12, <2>1
        DEF LoseRequest, TypeOK, AtMostOneActive, SchedulerInv, Wakeup, scheduler
<1>13. ASSUME Restart
       PROVE  IInv'
    <2>1. faults' \in 0..MaxFaults
        BY <1>13, ServiceAssumption DEF Restart, Fault, TypeOK
    <2>2. /\ first_tick(db) \in 0..NoTick
          /\ \A i \in Active(db) : first_tick(db) <= refresh_time(db[i].expires_at)
        BY TickFacts DEF TypeOK
    <2>3. TypeOK' /\ AtMostOneActive'
        BY <1>13, <2>1, <2>2 DEF Restart, TypeOK, AtMostOneActive
    <2>4. SchedulerInv'
        BY <1>13, <2>2 DEF Restart, SchedulerInv, Wakeup, Earlier
    <2> QED  BY <2>3, <2>4
<1>14. ASSUME Advance
       PROVE  IInv'
    <2>1. now' \in Start..(Start + MaxTime)
        BY <1>14, ServiceAssumption DEF Advance, TypeOK
    <2> QED
        BY <1>14, <2>1
        DEF Advance, TypeOK, AtMostOneActive, SchedulerInv, Wakeup, scheduler, history
<1>15. ASSUME UNCHANGED vars
       PROVE  IInv'
    BY <1>15 DEF vars, TypeOK, AtMostOneActive, SchedulerInv, Wakeup
<1> QED
    BY <1>1, <1>2, <1>3, <1>4, <1>5, <1>6, <1>7, <1>8, <1>9, <1>10, <1>11, <1>12,
       <1>13, <1>14, <1>15
    DEF Next, HubVerifies

\* The invariant holds of every behaviour.
THEOREM Invariance == Spec => []IInv
<1> QED  BY InitIInv, NextIInv, PTL DEF Spec

-----------------------------------------------------------------------------
(* The properties                                                          *)

\* Every value stays in its type: no expiry leaves the i64, no tick the u64.
THEOREM TypeCorrect == Spec => []TypeOK
<1>1. IInv => TypeOK
    BY DEF IInv
<1> QED  BY <1>1, Invariance, PTL

\* verify_intent leaves one active row to a hub and topic, through lost
\* messages, rolled-back transactions, failed ticks and restarts.
THEOREM OneActive == Spec => []AtMostOneActive
<1>1. IInv => AtMostOneActive
    BY DEF IInv
<1> QED  BY <1>1, Invariance, PTL

\* The renewal task, while it runs, wakes up by the refresh time of every
\* active row.
THEOREM SchedulerCoversActive == Spec => []SchedulerCovers
<1>1. IInv => SchedulerCovers
    BY DEF IInv, SchedulerInv, SchedulerCovers, EffectiveWakeup, TypeOK, Wakeup, Earlier
<1> QED  BY <1>1, Invariance, PTL

\* No tick asks for the next one at once.
THEOREM TicksMakeProgress == Spec => TickMakesProgress
<1>1. IInv /\ [Next]_vars => [PollTick => next_tick' > now]_vars
    BY PollTickIInv
<1> QED  BY <1>1, Invariance, PTL DEF Spec, TickMakesProgress

\* A task with nothing to do sleeps past no refresh time.
LEMMA InTime == IInv => RenewedInTime
<1> SUFFICES ASSUME IInv, renewer = "running", ~PollDue, NEW i \in Active(db)
             PROVE  refresh_time(db[i].expires_at) > now
    BY DEF RenewedInTime
<1>1. ~woken /\ sleep > now
    BY ServiceAssumption DEF PollDue, IInv, TypeOK
<1>2. Wakeup = sleep /\ Wakeup <= refresh_time(db[i].expires_at)
    BY <1>1 DEF IInv, SchedulerInv, TypeOK, Wakeup, Earlier
<1>3. refresh_time(db[i].expires_at) \in 0..I64Max
    BY TimeFacts DEF IInv, TypeOK
<1> QED  BY <1>1, <1>2, <1>3, ServiceAssumption DEF IInv, TypeOK

\* Whenever the renewal task has nothing to do, no active subscription has
\* reached its refresh time.
THEOREM RenewsInTime == Spec => []RenewedInTime
<1> QED  BY InTime, Invariance, PTL

\* A step that keeps every row with its key keeps every key.
LEMMA RowsKept ==
    ASSUME \A i \in Rows(db) : i \in Rows(db') /\ Key(db'[i]) = Key(db[i]),
           NEW hub, NEW topic, RowsOf(db, hub, topic) # {}
    PROVE  RowsOf(db', hub, topic) # {}
BY DEF RowsOf, Key

\* verify_intent may delete rows of the key that it verifies, but not the
\* row that it activates.
LEMMA VerifyKeepsKeys ==
    ASSUME TypeOK, NEW m \in inbox, NEW lease \in Lease,
           verify_intent_subscribe(m, lease),
           NEW hub, NEW topic, RowsOf(db, hub, topic) # {}
    PROVE  RowsOf(db', hub, topic) # {}
<1> DEFINE id == Callback[m.id]
<1>1. /\ id \in Active(db')
      /\ Key(db'[id]) = Key(db[id])
      /\ \A i \in Rows(db) : Key(db[i]) # Key(db[id]) => i \in Rows(db') /\ db'[i] = db[i]
    BY VerifyFacts
<1>2. id \in Rows(db')
    BY <1>1 DEF Active
<1>3. PICK i \in Rows(db) : db[i].hub = hub /\ db[i].topic = topic
    BY DEF RowsOf
<1> HIDE DEF id
<1>4. CASE Key(db[i]) = Key(db[id])
    BY <1>1, <1>2, <1>3, <1>4 DEF RowsOf, Key
<1>5. CASE Key(db[i]) # Key(db[id])
    BY <1>1, <1>3, <1>5 DEF RowsOf
<1> QED  BY <1>4, <1>5

\* Renewals, verifications, failed transactions and restarts never remove
\* the last row of a hub and topic: only the user does.
THEOREM KeysAreKept == Spec => KeyKept
<1>1. ASSUME IInv, [Next]_vars, NEW hub \in Hub, NEW topic \in Topic,
             RowsOf(db, hub, topic) # {}, RowsOf(db', hub, topic) = {}
      PROVE  Unsubscribe(hub, topic)
    <2> USE DEF IInv
    <2>1. ASSUME db' = db PROVE FALSE
        BY <1>1, <2>1
    <2>2. ASSUME NEW h \in Hub, NEW t \in Topic, Subscribe(h, t)
          PROVE  FALSE
        BY <1>1, <2>2, SubscribeFacts, RowsKept
    <2>3. ASSUME NEW h \in Hub, NEW t \in Topic, Unsubscribe(h, t)
          PROVE  Unsubscribe(hub, topic)
        <3>1. h = hub /\ t = topic
            <4>1. PICK i \in RowsOf(db, hub, topic) : i \in RowsOf(db, h, t)
                BY <1>1, <2>3, DeleteFacts DEF Unsubscribe, RowsOf, Rows, TypeOK
            <4> QED  BY <4>1 DEF RowsOf
        <3> QED  BY <2>3, <3>1
    <2>4. ASSUME NEW ids \in SUBSET Unused, NEW g \in Bijection(ids, Expiring),
                 renew_subscriptions(ids, g)
          PROVE  FALSE
        BY <1>1, <2>4, RenewFacts, RowsKept
    <2>5. ASSUME NEW m \in inbox, NEW lease \in Lease, verify_intent_subscribe(m, lease)
          PROVE  FALSE
        BY <1>1, <2>5, VerifyKeepsKeys
    <2>6. CASE PollTick
        BY <2>4, <2>6 DEF PollTick
    <2>7. CASE PollTickFails
        BY <2>1, <2>4, <2>7 DEF PollTickFails
    <2>8. ASSUME NEW m \in inbox, HubVerifies(m)
          PROVE  FALSE
        BY <2>1, <2>5, <2>8
        DEF HubVerifies, VerifySubscribe, VerifySubscribeRejected, VerifyUnsubscribe,
            VerifyUnsubscribeRejected
    <2>9. ASSUME NEW m \in inbox, NEW lease \in Lease,
                 VerifySubscribeUnheard(m, lease) \/ VerifySubscribeFails(m, lease)
          PROVE  FALSE
        BY <2>1, <2>5, <2>9 DEF VerifySubscribeUnheard, VerifySubscribeFails
    <2> QED
        BY <1>1, <2>1, <2>2, <2>3, <2>6, <2>7, <2>8, <2>9
        DEF Next, vars, PollPending, SendRequest, PushGone, LeaseEnds, LoseRequest, Restart,
            Advance
<1>2. IInv /\ [Next]_vars =>
        [\A hub \in Hub, topic \in Topic :
            RowsOf(db, hub, topic) # {} /\ RowsOf(db', hub, topic) = {}
                => Unsubscribe(hub, topic)]_vars
    BY <1>1
<1> QED  BY <1>2, Invariance, PTL DEF Spec, KeyKept

=============================================================================
