------------------------- MODULE SubscriberLeaseProofs -------------------------
(***************************************************************************)
(* SubscriberService implements Lease: proofs for every set of ids, hubs   *)
(* and topics, every margin, lease and bound, and every combination of     *)
(* faults.                                                                 *)
(***************************************************************************)
EXTENDS SubscriberServiceProofs

-----------------------------------------------------------------------------
(* The table as leases                                                     *)

KeySet == Hub \X Topic

\* The keys that have rows, and the expiries of the active ones.
WantedIn(t) == {k \in KeySet : RowsOf(t, k[1], k[2]) # {}}

ActiveOf(t, k) == {i \in Active(t) : t[i].hub = k[1] /\ t[i].topic = k[2]}

LeasesIn(t) == [k \in KeySet |-> {t[i].expires_at : i \in ActiveOf(t, k)}]

\* The refinement mapping of ImplementsLease, in these words.
LEMMA Mapping ==
    ASSUME NEW t
    PROVE  /\ {k \in Hub \X Topic : RowsOf(t, k[1], k[2]) # {}} = WantedIn(t)
           /\ [k \in Hub \X Topic |->
                  {t[i].expires_at : i \in RowsOf(t, k[1], k[2]) \cap Active(t)}] = LeasesIn(t)
<1>1. \A k \in KeySet : RowsOf(t, k[1], k[2]) \cap Active(t) = ActiveOf(t, k)
    BY DEF RowsOf, Active, ActiveOf
<1> QED  BY <1>1 DEF KeySet, WantedIn, LeasesIn

\* Two tables with the same keys have the same users; two with the same
\* active rows have the same leases.
LEMMA SameLeases ==
    ASSUME NEW t, NEW u, Active(u) = Active(t), \A i \in Active(t) : u[i] = t[i]
    PROVE  LeasesIn(u) = LeasesIn(t)
<1>1. \A k \in KeySet : ActiveOf(u, k) = ActiveOf(t, k)
    BY DEF ActiveOf
<1>2. \A k \in KeySet : \A i \in ActiveOf(t, k) : u[i].expires_at = t[i].expires_at
    BY DEF ActiveOf
<1>3. \A k \in KeySet : {u[i].expires_at : i \in ActiveOf(u, k)}
                          = {t[i].expires_at : i \in ActiveOf(t, k)}
    BY <1>1, <1>2
<1> QED  BY <1>3 DEF LeasesIn

-----------------------------------------------------------------------------
(* What each change of the table does to the leases                        *)

\* hub::subscribe adds a key, or a row to a key that is wanted.
LEMMA SubscribeWants ==
    ASSUME TypeOK, NEW hub \in Hub, NEW topic \in Topic, Subscribe(hub, topic)
    PROVE  /\ WantedIn(db') = WantedIn(db) \cup {<<hub, topic>>}
           /\ LeasesIn(db') = LeasesIn(db)
<1>1. PICK id \in Unused :
        db' = create_subscriptions(db, [i \in {id} |-> [hub |-> hub, topic |-> topic]])
    BY DEF Subscribe
<1>2. id \in Id \ Rows(db)
    BY <1>1 DEF Unused
<1>3. /\ db'[id] = [hub |-> hub, topic |-> topic, expires_at |-> Null]
      /\ \A i \in Id : i # id => db'[i] = db[i]
    BY <1>1, <1>2 DEF create_subscriptions
<1>4. db'[id] # NoRow
    BY <1>3, StoreAssumption DEF Row
<1>5. Rows(db') = Rows(db) \cup {id} /\ Active(db') = Active(db) /\ id \notin Active(db)
    BY <1>2, <1>3, <1>4 DEF Rows, Active
<1>6. \A h \in Hub, t \in Topic :
        RowsOf(db', h, t) = IF h = hub /\ t = topic THEN RowsOf(db, h, t) \cup {id}
                                                    ELSE RowsOf(db, h, t)
    BY <1>2, <1>3, <1>5 DEF RowsOf, Rows
<1>7. WantedIn(db') = WantedIn(db) \cup {<<hub, topic>>}
    BY <1>6 DEF WantedIn, KeySet
<1>8. \A i \in Active(db) : db'[i] = db[i]
    BY <1>3, <1>5 DEF Active, Rows
<1> QED  BY <1>5, <1>7, <1>8, SameLeases

\* hub::unsubscribe for every row of a key ends the key and its lease.
LEMMA UnsubscribeCancels ==
    ASSUME TypeOK, NEW hub \in Hub, NEW topic \in Topic, Unsubscribe(hub, topic)
    PROVE  /\ WantedIn(db') = WantedIn(db) \ {<<hub, topic>>}
           /\ LeasesIn(db') = [LeasesIn(db) EXCEPT ![<<hub, topic>>] = {}]
<1> DEFINE ids == RowsOf(db, hub, topic)
<1>1. /\ Active(db') = Active(db) \ ids
      /\ Rows(db') = Rows(db) \ ids
      /\ \A i \in Id \ ids : db'[i] = db[i]
    BY DeleteFacts DEF Unsubscribe, TypeOK
<1>2. \A k \in KeySet : RowsOf(db', k[1], k[2])
                          = IF k = <<hub, topic>> THEN {} ELSE RowsOf(db, k[1], k[2])
    BY <1>1 DEF RowsOf, Rows, KeySet
<1>3. WantedIn(db') = WantedIn(db) \ {<<hub, topic>>}
    BY <1>2 DEF WantedIn
<1>4. \A k \in KeySet : ActiveOf(db', k) = IF k = <<hub, topic>> THEN {} ELSE ActiveOf(db, k)
    BY <1>1 DEF ActiveOf, RowsOf, Rows, Active, KeySet
<1>5. \A k \in KeySet \ {<<hub, topic>>} :
          {db'[i].expires_at : i \in ActiveOf(db', k)} = {db[i].expires_at : i \in ActiveOf(db, k)}
    <2>1. \A k \in KeySet \ {<<hub, topic>>} : \A i \in ActiveOf(db, k) : db'[i] = db[i]
        BY <1>1, <1>4 DEF ActiveOf, Active, Rows
    <2> QED  BY <1>4, <2>1
<1>6. {db'[i].expires_at : i \in ActiveOf(db', <<hub, topic>>)} = {}
    BY <1>4 DEF KeySet
<1>7. LeasesIn(db') = [LeasesIn(db) EXCEPT ![<<hub, topic>>] = {}]
    BY <1>5, <1>6 DEF LeasesIn
<1> QED  BY <1>3, <1>7

\* Service::renew_subscriptions gives up the leases that are due, and wants
\* what was wanted.
LEMMA RenewGivesUp ==
    ASSUME TypeOK, NEW ids \in SUBSET Unused, NEW g \in Bijection(ids, Expiring),
           renew_subscriptions(ids, g)
    PROVE  /\ WantedIn(db') = WantedIn(db)
           /\ LeasesIn(db') = [k \in KeySet |-> {e \in LeasesIn(db)[k] : e > renewal_threshold}]
<1> DEFINE new == [i \in ids |-> Key(db[g[i]])]
           t == create_subscriptions(db, new)
<1>1. \A i \in ids : g[i] \in Rows(db)
    BY DEF Bijection, Injection, Expiring, get_subscriptions_expire_before, Active
<1>2. new \in [ids -> [hub : Hub, topic : Topic]]
    BY <1>1, RowType DEF TypeOK
<1>3. ids \in SUBSET (Id \ Rows(db))
    BY DEF Unused
<1>4. db' = deactivate_subscriptions_expire_before(t, renewal_threshold)
    BY DEF renew_subscriptions
<1>5. \A i \in ids : t[i].hub = db[g[i]].hub /\ t[i].topic = db[g[i]].topic
    BY <1>3 DEF create_subscriptions, Key
<1> HIDE DEF new
<1>6. /\ t \in Table
      /\ Active(t) = Active(db)
      /\ \A i \in Id \ ids : t[i] = db[i]
      /\ Rows(t) = Rows(db) \cup ids
    BY <1>2, <1>3, CreateFacts DEF TypeOK
<1> HIDE DEF t
<1>7. /\ Active(db') = {i \in Active(t) : t[i].expires_at > renewal_threshold}
      /\ \A i \in Active(db') : db'[i] = t[i]
      /\ Rows(db') = Rows(t)
      /\ \A i \in Rows(t) : db'[i].hub = t[i].hub /\ db'[i].topic = t[i].topic
    BY <1>4, <1>6, DeactivateFacts, ThresholdFacts
<1>8. Active(db) \subseteq Rows(db) /\ Rows(db) \subseteq Id \ ids
    BY <1>3 DEF Active, Rows
<1>9. \A i \in Rows(db) : db'[i].hub = db[i].hub /\ db'[i].topic = db[i].topic
    BY <1>6, <1>7, <1>8
<1>10. \A i \in Rows(db') : \E j \in Rows(db) : db'[i].hub = db[j].hub /\ db'[i].topic = db[j].topic
    BY <1>1, <1>5, <1>6, <1>7, <1>9
<1>11. \A h \in Hub, topic \in Topic : RowsOf(db', h, topic) # {} <=> RowsOf(db, h, topic) # {}
    BY <1>6, <1>7, <1>9, <1>10 DEF RowsOf
<1>12. WantedIn(db') = WantedIn(db)
    BY <1>11 DEF WantedIn, KeySet
<1>13. /\ Active(db') = {i \in Active(db) : db[i].expires_at > renewal_threshold}
       /\ \A i \in Active(db') : db'[i] = db[i]
    BY <1>6, <1>7, <1>8
<1>14. \A k \in KeySet : ActiveOf(db', k) = {i \in ActiveOf(db, k) : db[i].expires_at > renewal_threshold}
    BY <1>13 DEF ActiveOf
<1>15. \A k \in KeySet : \A i \in ActiveOf(db', k) : db'[i].expires_at = db[i].expires_at
    BY <1>13 DEF ActiveOf
<1>16. \A k \in KeySet :
          {db'[i].expires_at : i \in ActiveOf(db', k)}
            = {e \in {db[i].expires_at : i \in ActiveOf(db, k)} : e > renewal_threshold}
    BY <1>14, <1>15
<1>17. LeasesIn(db') = [k \in KeySet |-> {e \in LeasesIn(db)[k] : e > renewal_threshold}]
    BY <1>16 DEF LeasesIn
<1> QED  BY <1>12, <1>17

\* Service::verify_intent grants a lease to one key that is wanted.
LEMMA VerifyGrants ==
    ASSUME TypeOK, NEW m \in inbox, NEW lease \in Lease,
           verify_intent_subscribe(m, lease)
    PROVE  \E k \in WantedIn(db) :
             /\ WantedIn(db') = WantedIn(db)
             /\ LeasesIn(db') = [LeasesIn(db) EXCEPT ![k] = {expiry(lease)}]
<1> DEFINE id == Callback[m.id]
           e == expiry(lease)
<1>1. PICK hub \in get_hub_of_inactive_subscription(db, id, m.topic) :
        remove_old_and_activate(id, hub, m.topic, e)
    BY DEF verify_intent_subscribe
<1>2. /\ id \in Rows(db) /\ hub \in Hub /\ m.topic \in Topic
      /\ db[id].hub = hub /\ db[id].topic = m.topic
    BY <1>1 DEF get_hub_of_inactive_subscription, TypeOK, Request
<1> DEFINE k == <<hub, m.topic>>
           old == RowsOf(db, hub, m.topic) \ {id}
           t == delete_subscriptions(db, old)
<1>3. db' = activate_subscription(t, id, e)
    BY <1>1 DEF remove_old_and_activate, get_old_subscriptions
<1>4. e \in Nat /\ id \in Id
    BY <1>2, ExpiryFacts, ServiceAssumption DEF Rows
<1>5. k \in WantedIn(db)
    BY <1>2 DEF WantedIn, RowsOf, KeySet
<1> HIDE DEF e, id
<1>6. /\ t \in Table
      /\ Active(t) = Active(db) \ old
      /\ Rows(t) = Rows(db) \ old
      /\ \A i \in Id \ old : t[i] = db[i]
    BY DeleteFacts DEF TypeOK
<1>7. old \subseteq Rows(db) /\ id \notin old
    BY DEF RowsOf
<1>8. \A i \in Rows(db) : i \in old <=> i # id /\ db[i].hub = hub /\ db[i].topic = m.topic
    BY DEF RowsOf
<1> HIDE DEF t, old
<1>9. /\ Rows(db') = Rows(t)
      /\ Active(db') = Active(t) \cup (Rows(t) \cap {id})
      /\ \A i \in Id \ {id} : db'[i] = t[i]
      /\ id \in Rows(t) => /\ db'[id].hub = t[id].hub
                           /\ db'[id].topic = t[id].topic
                           /\ db'[id].expires_at = e
    BY <1>3, <1>4, <1>6, ActivateFacts
<1>10. Active(db) \subseteq Rows(db) /\ Rows(db) \subseteq Id
    BY DEF Active, Rows
<1>11. /\ id \in Rows(t)
       /\ db'[id].hub = hub /\ db'[id].topic = m.topic /\ db'[id].expires_at = e
    BY <1>2, <1>4, <1>6, <1>7, <1>9
<1>12. \A i \in Rows(db') : i # id => db'[i] = db[i] /\ i \notin old
    BY <1>6, <1>9, <1>10
<1>13. \A l \in KeySet : l # k => RowsOf(db', l[1], l[2]) = RowsOf(db, l[1], l[2])
    BY <1>2, <1>6, <1>8, <1>9, <1>11, <1>12 DEF RowsOf, KeySet
<1>14. id \in RowsOf(db', hub, m.topic)
    BY <1>9, <1>11 DEF RowsOf
<1>15. WantedIn(db') = WantedIn(db)
    BY <1>5, <1>13, <1>14 DEF WantedIn
<1>16. ActiveOf(db', k) = {id}
    BY <1>8, <1>9, <1>10, <1>11, <1>12, <1>6 DEF ActiveOf
<1>17. \A l \in KeySet : l # k => ActiveOf(db', l) = ActiveOf(db, l)
    <2> SUFFICES ASSUME NEW l \in KeySet, l # k PROVE ActiveOf(db', l) = ActiveOf(db, l)
        OBVIOUS
    <2>1. ~(hub = l[1] /\ m.topic = l[2])
        BY DEF KeySet
    <2>2. ASSUME NEW i \in ActiveOf(db', l) PROVE i \in ActiveOf(db, l)
        BY <1>6, <1>9, <1>11, <1>12, <2>1, <2>2 DEF ActiveOf, Active
    <2>3. ASSUME NEW i \in ActiveOf(db, l) PROVE i \in ActiveOf(db', l)
        <3>1. i # id /\ i \in Active(db) /\ i \in Rows(db)
            BY <1>2, <1>10, <2>1, <2>3 DEF ActiveOf
        <3>2. i \notin old
            BY <1>8, <2>1, <2>3, <3>1 DEF ActiveOf
        <3> QED  BY <1>6, <1>9, <1>10, <2>3, <3>1, <3>2 DEF ActiveOf
    <2> QED  BY <2>2, <2>3
<1>18. \A l \in KeySet : l # k => {db'[i].expires_at : i \in ActiveOf(db', l)}
                                  = {db[i].expires_at : i \in ActiveOf(db, l)}
    <2>1. \A l \in KeySet : l # k => \A i \in ActiveOf(db', l) : db'[i] = db[i]
        <3> SUFFICES ASSUME NEW l \in KeySet, l # k, NEW i \in ActiveOf(db', l)
                     PROVE  db'[i] = db[i]
            OBVIOUS
        <3>1. i # id
            BY <1>11 DEF ActiveOf, KeySet
        <3> QED  BY <1>12, <3>1 DEF ActiveOf, Active
    <2> QED  BY <1>17, <2>1
<1>19. {db'[i].expires_at : i \in ActiveOf(db', k)} = {e}
    BY <1>11, <1>16
<1>20. LeasesIn(db') = [LeasesIn(db) EXCEPT ![k] = {e}]
    BY <1>18, <1>19 DEF LeasesIn
<1> QED  BY <1>5, <1>15, <1>20 DEF e

-----------------------------------------------------------------------------
(* The refinement                                                          *)

\* A step that leaves the table and the clock is none of the leases'.
LEMMA LeaseStutters ==
    ASSUME UNCHANGED <<db, now>>
    PROVE  UNCHANGED LeaseOf!lease_vars
BY DEF LeaseOf!lease_vars, RowsOf, Rows, Active

\* The steps of the service as steps of the leases.
LEMMA LeaseStep ==
    ASSUME IInv, [Next]_vars
    PROVE  [LeaseOf!LeaseNext]_(LeaseOf!lease_vars)
<1> USE DEF IInv
<1>0. /\ {k \in Hub \X Topic : RowsOf(db, k[1], k[2]) # {}} = WantedIn(db)
      /\ {k \in Hub \X Topic : RowsOf(db', k[1], k[2]) # {}} = WantedIn(db')
      /\ [k \in Hub \X Topic |->
             {db[i].expires_at : i \in RowsOf(db, k[1], k[2]) \cap Active(db)}] = LeasesIn(db)
      /\ [k \in Hub \X Topic |->
             {db'[i].expires_at : i \in RowsOf(db', k[1], k[2]) \cap Active(db')}] = LeasesIn(db')
    BY Mapping
<1>1. ASSUME UNCHANGED <<db, now>> PROVE [LeaseOf!LeaseNext]_(LeaseOf!lease_vars)
    BY <1>1, LeaseStutters
<1>2. ASSUME NEW hub \in Hub, NEW topic \in Topic, Subscribe(hub, topic)
      PROVE  LeaseOf!LeaseNext
    <2>1. now' = now
        BY <1>2 DEF Subscribe
    <2>2. LeaseOf!Want(<<hub, topic>>)
        BY <1>0, <1>2, <2>1, SubscribeWants DEF LeaseOf!Want
    <2> QED  BY <2>2 DEF LeaseOf!LeaseNext
<1>3. ASSUME NEW hub \in Hub, NEW topic \in Topic, Unsubscribe(hub, topic)
      PROVE  LeaseOf!LeaseNext
    <2>1. now' = now
        BY <1>3 DEF Unsubscribe
    <2>2. LeaseOf!Cancel(<<hub, topic>>)
        BY <1>0, <1>3, <2>1, UnsubscribeCancels DEF LeaseOf!Cancel
    <2> QED  BY <2>2 DEF LeaseOf!LeaseNext
<1>4. ASSUME NEW ids \in SUBSET Unused, NEW g \in Bijection(ids, Expiring),
             renew_subscriptions(ids, g), now' = now
      PROVE  LeaseOf!LeaseNext
    <2>1. /\ WantedIn(db') = WantedIn(db)
          /\ LeasesIn(db') = [k \in KeySet |-> {e \in LeasesIn(db)[k] : e > renewal_threshold}]
        BY <1>4, RenewGivesUp
    <2>2. \A k \in KeySet : \A e \in LeasesIn(db)[k] : e \in Nat
        BY ServiceAssumption DEF LeasesIn, ActiveOf, TypeOK
    <2>3. \A k \in KeySet : {e \in LeasesIn(db)[k] : e > renewal_threshold}
                              = {e \in LeasesIn(db)[k] : ~LeaseOf!Due(e)}
        BY <2>2, ServiceAssumption DEF renewal_threshold, LeaseOf!Due, TypeOK
    <2>4. LeasesIn(db') = [k \in KeySet |-> {e \in LeasesIn(db)[k] : ~LeaseOf!Due(e)}]
        BY <2>1, <2>3
    <2>5. LeaseOf!GiveUpDue
        BY <1>0, <1>4, <2>1, <2>4 DEF LeaseOf!GiveUpDue, KeySet
    <2> QED  BY <2>5 DEF LeaseOf!LeaseNext
<1>5. ASSUME NEW m \in inbox, NEW lease \in Lease, verify_intent_subscribe(m, lease), now' = now
      PROVE  LeaseOf!LeaseNext
    <2>1. PICK k \in WantedIn(db) :
             /\ WantedIn(db') = WantedIn(db)
             /\ LeasesIn(db') = [LeasesIn(db) EXCEPT ![k] = {expiry(lease)}]
        BY <1>5, VerifyGrants
    <2>2. k \in Hub \X Topic
        BY DEF WantedIn, KeySet
    <2>3. PICK e \in Margin..I64Max : e = expiry(lease)
        BY ExpiryFacts
    <2>4. LeaseOf!Grant(k, e)
        BY <1>0, <1>5, <2>1, <2>3 DEF LeaseOf!Grant
    <2> QED  BY <2>2, <2>4 DEF LeaseOf!LeaseNext
<1>6. CASE PollTick
    BY <1>4, <1>6 DEF PollTick
<1>7. CASE PollTickFails
    BY <1>1, <1>4, <1>7 DEF PollTickFails
<1>8. ASSUME NEW m \in inbox, HubVerifies(m) PROVE [LeaseOf!LeaseNext]_(LeaseOf!lease_vars)
    BY <1>1, <1>5, <1>8
    DEF HubVerifies, VerifySubscribe, VerifySubscribeRejected, VerifyUnsubscribe,
        VerifyUnsubscribeRejected
<1>9. ASSUME NEW m \in inbox, NEW lease \in Lease,
             VerifySubscribeUnheard(m, lease) \/ VerifySubscribeFails(m, lease)
      PROVE  [LeaseOf!LeaseNext]_(LeaseOf!lease_vars)
    BY <1>1, <1>5, <1>9 DEF VerifySubscribeUnheard, VerifySubscribeFails
<1>10. CASE Advance
    <2>1. now' = now + 1 /\ db' = db
        BY <1>10 DEF Advance
    <2>2. LeaseOf!Pass
        BY <1>0, <2>1 DEF LeaseOf!Pass
    <2> QED  BY <2>2 DEF LeaseOf!LeaseNext
<1>11. CASE PollPending
    BY <1>1, <1>11 DEF PollPending
<1>12. ASSUME NEW m, SendRequest(m) \/ LoseRequest(m) \/ PushGone(m) \/ LeaseEnds(m)
       PROVE  [LeaseOf!LeaseNext]_(LeaseOf!lease_vars)
    BY <1>1, <1>12 DEF SendRequest, LoseRequest, PushGone, LeaseEnds
<1>13. CASE Restart
    BY <1>1, <1>13 DEF Restart
<1>14. CASE UNCHANGED vars
    BY <1>1, <1>14 DEF vars
<1> QED
    BY <1>2, <1>3, <1>6, <1>7, <1>8, <1>9, <1>10, <1>11, <1>12, <1>13, <1>14 DEF Next

\* renew_subscriptions.rs, service.rs: the table is that of a user who wants
\* some keys, of hubs that grant leases one by one, and of a renewal that
\* gives up all that are due at once and none before its time, whatever is
\* lost, rolled back or restarted.
THEOREM ServiceKeepsLeases == Spec => ImplementsLease
<1>1. Init => LeaseOf!LeaseInit
    <2> SUFFICES ASSUME Init PROVE LeaseOf!LeaseInit
        OBVIOUS
    <2>1. Rows(db) = {} /\ now \in Nat
        BY ServiceAssumption DEF Init, EmptyTable, Rows
    <2>2. \A k \in Hub \X Topic : RowsOf(db, k[1], k[2]) = {}
        BY <2>1 DEF RowsOf
    <2> QED  BY <2>1, <2>2 DEF LeaseOf!LeaseInit
<1>2. IInv /\ [Next]_vars => [LeaseOf!LeaseNext]_(LeaseOf!lease_vars)
    BY LeaseStep
<1> QED
    BY <1>1, <1>2, Invariance, PTL DEF Spec, ImplementsLease, LeaseOf!LeaseSpec

=============================================================================
