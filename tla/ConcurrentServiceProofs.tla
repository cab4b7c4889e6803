------------------------ MODULE ConcurrentServiceProofs ------------------------
(***************************************************************************)
(* Proofs about ConcurrentService, for every set of workers, ids, hubs and *)
(* topics, and every margin, lease and bound.                              *)
(***************************************************************************)
EXTENDS ConcurrentService, SubscriberHubProofs

-----------------------------------------------------------------------------
(* The inductive invariant                                                 *)

\* The row that a worker verifies.
Verified(w) == Callback[job[w].m.id]

\* A request stays with its hub while a worker verifies it, and no other
\* worker does.
JobsInv ==
    /\ \A w \in Worker : job[w] # Idle => job[w].m \in inbox
    /\ \A v, w \in Worker :
          job[v] # Idle /\ job[w] # Idle /\ job[v].m = job[w].m => v = w
    /\ \A w \in Worker : job[w].stage \in {"hasten", "begin", "write"} =>
          job[w].expires_at \in Margin..I64Max

\* One transaction writes, the one of an actor that is about to commit; and
\* only who has read and not written can be outdated.
WriterInv ==
    /\ \A w \in Worker : writer = w <=> job[w].stage = "commit"
    /\ writer = "renewal" <=> tick.stage = "commit"
    /\ writer = None => draft = EmptyTable
    /\ stale \subseteq Reading

\* What an actor has read is still so, unless it is outdated.
SnapshotInv ==
    /\ \A w \in Worker \ stale : job[w].stage = "write" =>
          job[w].old = get_old_subscriptions(db, Verified(w), job[w].hub, job[w].m.topic)
    /\ tick.stage = "write" /\ "renewal" \notin stale =>
          tick.expiring = get_subscriptions_expire_before(db, tick.threshold)

\* A verification activates its row, for the lease that its hub has asked
\* about, and no other; a renewal activates none.
DraftInv ==
    /\ \A i \in Active(draft) : draft[i].expires_at \in Margin..I64Max
    /\ \A w \in Worker : writer = w =>
          \A i \in Active(draft) :
             IF i = Verified(w) THEN draft[i].expires_at = job[w].until
                                ELSE i \in Active(db) /\ draft[i] = db[i]
    /\ writer = "renewal" => \A i \in Active(draft) : i \in Active(db) /\ draft[i] = db[i]

\* Waking up at time t is in time for every row, committed or not, but those
\* that the last tick could not know of.
Covers(t) ==
    /\ \A i \in Active(db) \ missed : t <= refresh_time(db[i].expires_at)
    /\ \A i \in Active(draft) \ missed : t <= refresh_time(draft[i].expires_at)
    /\ \A w \in Worker :
          job[w].stage \in {"begin", "write"} /\ Verified(w) \notin missed =>
             t <= refresh_time(job[w].expires_at)

CoverInv ==
    /\ ~woken => sleep <= next_tick
    /\ renewer = "running" /\ tick = Idle => Covers(Wakeup)
    /\ tick.stage = "store" =>
          Covers(tick.result) /\ \A w \in Worker : Uncommitted(w) => Verified(w) \in missed

CInv == ConcurrentTypeOK /\ JobsInv /\ WriterInv /\ SnapshotInv /\ DraftInv /\ CoverInv

-----------------------------------------------------------------------------
(* Keys, of ids whose callbacks decode to themselves                       *)

\* The rows of the draft have the keys by which hubs know them.
DraftKeys ==
    \A x \in outbox \cup inbox \cup hub_subs :
        x.id \in Rows(draft) => Key(draft[x.id]) = Key(x)

\* A worker looks for old rows at the hub that asks it.
HubsInv ==
    \A w \in Worker : job[w].stage \in {"hasten", "begin", "write"} =>
        job[w].hub = job[w].m.hub

\* A verification deletes rows of its key alone, and never the row that it
\* verifies; a renewal deletes none.
DraftKeepsRows ==
    /\ \A w \in Worker : writer = w =>
          /\ Rows(draft) \subseteq Rows(db)
          /\ \A i \in Rows(db) :
                \/ i \in Rows(draft) /\ Key(draft[i]) = Key(db[i])
                \/ Key(db[i]) = Key(job[w].m) /\ i # job[w].m.id
    /\ writer = "renewal" =>
          \A i \in Rows(db) : i \in Rows(draft) /\ Key(draft[i]) = Key(db[i])

DraftOneActive ==
    \A i, j \in Active(draft) : Key(draft[i]) = Key(draft[j]) => i = j

KInv == KeysInv /\ DraftKeys /\ HubsInv /\ DraftKeepsRows /\ AtMostOneActive /\ DraftOneActive

-----------------------------------------------------------------------------
(* What workers and the tick hold                                          *)

\* Stage by stage, the local variables of a worker have their types.
LEMMA JobFacts ==
    ASSUME NEW j \in Job
    PROVE  /\ j.stage \in {"idle", "hasten", "begin", "write", "commit", "reply"}
           /\ j.stage = "idle" <=> j = Idle
           /\ j # Idle => j.m \in Request
           /\ j.stage \in {"hasten", "begin", "write"} => j.hub \in Hub /\ j.expires_at \in Nat
           /\ j.stage = "write" => j.old \in SUBSET Id
           /\ j.stage \in {"commit", "reply"} => j.until \in Nat
BY DEF Job, Idle

\* A request names an id, a hub and a topic, and its callback another id.
LEMMA RequestFacts ==
    ASSUME NEW m \in Request
    PROVE  /\ m.id \in Id /\ m.hub \in Hub /\ m.topic \in Topic
           /\ Callback[m.id] \in Id
BY ServiceAssumption DEF Request

\* The same of Tick::tick.
LEMMA TickStateFacts ==
    ASSUME tick \in TickState
    PROVE  /\ tick.stage \in {"idle", "write", "commit", "query", "store"}
           /\ tick.stage = "idle" <=> tick = Idle
           /\ tick.stage = "write" => tick.threshold \in Nat /\ tick.expiring \in SUBSET Id
           /\ tick.stage = "store" => tick.result \in 0..NoTick
BY DEF TickState, Idle

\* None is no actor.
LEMMA Actors ==
    /\ "renewal" \notin Worker /\ None \notin Worker /\ None # "renewal"
BY WorkerAssumption DEF None

\* The service starts in the invariant.
LEMMA InitCInv == ConcurrentInit => CInv
<1> SUFFICES ASSUME ConcurrentInit PROVE CInv
    OBVIOUS
<1>1. TypeOK
    BY InitIInv DEF ConcurrentInit, IInv
<1>2. draft \in Table /\ Active(draft) = {} /\ Active(db) = {}
    BY DEF ConcurrentInit, Init, EmptyTable, Table, Active, Rows
<1>3. \A w \in Worker : job[w] = Idle /\ job[w].stage = "idle"
    BY DEF ConcurrentInit, Idle
<1>4. tick = Idle /\ tick.stage = "idle" /\ writer = None /\ stale = {}
    BY DEF ConcurrentInit, Idle
<1>5. ConcurrentTypeOK
    BY <1>1, <1>2 DEF ConcurrentTypeOK, ConcurrentInit, Job, TickState
<1>6. JobsInv /\ SnapshotInv
    BY <1>3, <1>4 DEF JobsInv, SnapshotInv
<1>7. WriterInv
    BY <1>3, <1>4, Actors DEF WriterInv, ConcurrentInit, Reading
<1>8. DraftInv /\ CoverInv
    BY <1>2, <1>3, <1>4 DEF DraftInv, CoverInv, Covers, ConcurrentInit, Init
<1> QED  BY <1>5, <1>6, <1>7, <1>8 DEF CInv

-----------------------------------------------------------------------------
(* The steps of a worker                                                   *)

\* Service::verify_intent looks the inactive row up.
LEMMA CheckCInv ==
    ASSUME CInv, NEW w \in Worker, NEW m \in inbox, NEW lease \in Lease, Check(w, m, lease)
    PROVE  CInv'
<1> USE DEF CInv
<1>1. PICK hub \in get_hub_of_inactive_subscription(db, Callback[m.id], m.topic) :
         job' = [job EXCEPT ![w] = [stage |-> "hasten", m |-> m, hub |-> hub,
                                    expires_at |-> expiry(lease)]]
    BY DEF Check
<1>2. /\ hub \in Hub /\ m \in Request
      /\ expiry(lease) \in Margin..I64Max /\ expiry(lease) \in Nat
    BY <1>1, ExpiryFacts, ServiceAssumption
    DEF get_hub_of_inactive_subscription, ConcurrentTypeOK, TypeOK
<1> DEFINE k == [stage |-> "hasten", m |-> m, hub |-> hub, expires_at |-> expiry(lease)]
<1>3. /\ k \in Job /\ k.stage = "hasten" /\ k.m = m /\ k.expires_at = expiry(lease)
    BY <1>2 DEF Job
<1>4. job' = [job EXCEPT ![w] = k]
    BY <1>1
<1>5. /\ job[w] = Idle /\ job[w].stage = "idle"
      /\ \A v \in Worker : job[v] # Idle => job[v].m # m
    BY DEF Check, Idle
<1>6. UNCHANGED <<db, now, next_tick, sleep, woken, renewer, outbox, inbox, hub_subs,
                  faults, unheard, tick, writer, draft, stale, missed>>
    BY DEF Check, vars
<1> HIDE DEF k
<1>7. job' \in [Worker -> Job] /\ job'[w] = k /\ \A v \in Worker : v # w => job'[v] = job[v]
    BY <1>3, <1>4 DEF ConcurrentTypeOK
<1>8. ConcurrentTypeOK'
    BY <1>6, <1>7 DEF ConcurrentTypeOK, TypeOK
<1>9. JobsInv'
    BY <1>2, <1>3, <1>5, <1>6, <1>7 DEF JobsInv
<1>10. Reading' = Reading
    BY <1>3, <1>5, <1>6, <1>7 DEF Reading
<1>11. WriterInv'
    BY <1>3, <1>5, <1>6, <1>7, <1>10 DEF WriterInv
<1>12. SnapshotInv'
    BY <1>3, <1>6, <1>7 DEF SnapshotInv, Verified
<1>13. DraftInv'
    BY <1>5, <1>6, <1>7, <1>11 DEF DraftInv, Verified, WriterInv
<1>14. CoverInv'
    BY <1>3, <1>6, <1>7 DEF CoverInv, Covers, Verified, Wakeup, Uncommitted
<1> QED  BY <1>8, <1>9, <1>11, <1>12, <1>13, <1>14

\* A worker goes on to its next stage with what it holds.
LEMMA JobMoves ==
    ASSUME NEW j \in Job
    PROVE  /\ j.stage = "hasten" =>
                LET k == [j EXCEPT !.stage = "begin"]
                IN  /\ k \in Job /\ k.stage = "begin"
                    /\ k.m = j.m /\ k.hub = j.hub /\ k.expires_at = j.expires_at
           /\ j.stage = "commit" =>
                LET k == [j EXCEPT !.stage = "reply"]
                IN  k \in Job /\ k.stage = "reply" /\ k.m = j.m /\ k.until = j.until
BY DEF Job, Idle

\* Handle::hasten moves the wake-up no later, and wakes the task up if it
\* sleeps for longer.
LEMMA HastenFacts ==
    ASSUME TypeOK, ~woken => sleep <= next_tick, NEW e \in Margin..I64Max,
           hasten(refresh_time(e)), sleep' = sleep
    PROVE  /\ next_tick' \in 0..NoTick /\ woken' \in BOOLEAN
           /\ ~woken' => sleep' <= next_tick'
           /\ Wakeup' \in Nat /\ Wakeup' <= Wakeup /\ Wakeup' <= refresh_time(e)
<1> DEFINE r == refresh_time(e)
<1>1. r \in 0..NoTick
    BY TimeFacts, ServiceAssumption
<1>2. next_tick' = Earlier(next_tick, r) /\ woken' = (woken \/ r < next_tick)
    BY DEF hasten
<1> HIDE DEF r
<1>3. next_tick' \in 0..NoTick /\ next_tick' <= next_tick /\ next_tick' <= r
    BY <1>1, <1>2 DEF TypeOK, Earlier
<1>4. woken' \in BOOLEAN
    BY <1>2 DEF TypeOK
<1>5. ASSUME ~woken' PROVE sleep' <= next_tick'
    <2>1. ~woken /\ ~(r < next_tick)
        BY <1>2, <1>5
    <2>2. next_tick' = next_tick
        BY <1>1, <1>2, <2>1 DEF TypeOK, Earlier
    <2> QED  BY <2>1, <2>2
<1>6. Wakeup' \in Nat /\ Wakeup' <= Wakeup /\ Wakeup' <= r
    BY <1>1, <1>3 DEF TypeOK, Wakeup, Earlier
<1> QED  BY <1>3, <1>4, <1>5, <1>6 DEF r

\* Waking up earlier covers as much.
LEMMA EarlierCovers ==
    ASSUME CInv, NEW t \in Nat, NEW u \in Nat, t <= u, Covers(u)
    PROVE  Covers(t)
<1> USE DEF CInv
<1>1. \A e \in Margin..I64Max : refresh_time(e) \in Nat
    BY TimeFacts, ServiceAssumption
<1>2. ASSUME NEW e \in Margin..I64Max, u <= refresh_time(e) PROVE t <= refresh_time(e)
    BY <1>1, <1>2
<1> QED  BY <1>2 DEF Covers, ConcurrentTypeOK, TypeOK, DraftInv, JobsInv

\* Hasten: covered from here on, but for a tick that is about to store what
\* it has read.
LEMMA HastenCInv ==
    ASSUME CInv, NEW w \in Worker, Hasten(w)
    PROVE  CInv'
<1> USE DEF CInv
<1> DEFINE j == job[w]
           k == [job[w] EXCEPT !.stage = "begin"]
<1>1. j \in Job /\ j.stage = "hasten" /\ hasten(refresh_time(j.expires_at))
    BY DEF Hasten, ConcurrentTypeOK
<1>2. job' = [job EXCEPT ![w] = k]
    BY DEF Hasten
<1>3. /\ k \in Job /\ k.stage = "begin"
      /\ k.m = j.m /\ k.hub = j.hub /\ k.expires_at = j.expires_at
    BY <1>1, JobMoves
<1>4. missed' = IF tick.stage = "store" THEN missed \cup {Verified(w)} ELSE missed
    BY DEF Hasten, Verified
<1>5. UNCHANGED <<db, now, sleep, renewer, outbox, inbox, hub_subs, faults, unheard,
                  tick, writer, draft, stale>>
    BY DEF Hasten, history
<1> HIDE DEF k
<1>6. j # Idle /\ k # Idle /\ j.m \in Request /\ Verified(w) \in Id
    BY <1>1, <1>3, JobFacts, RequestFacts DEF Verified
<1>7. job' \in [Worker -> Job] /\ job'[w] = k /\ \A v \in Worker : v # w => job'[v] = job[v]
    BY <1>2, <1>3 DEF ConcurrentTypeOK
<1>8. \A v \in Worker : Verified(v)' = Verified(v)
    BY <1>3, <1>7 DEF Verified
<1>9. j.expires_at \in Margin..I64Max /\ (~woken => sleep <= next_tick)
    BY <1>1 DEF JobsInv, CoverInv
<1>10. /\ next_tick' \in 0..NoTick /\ woken' \in BOOLEAN
       /\ ~woken' => sleep' <= next_tick'
       /\ Wakeup' \in Nat /\ Wakeup' <= Wakeup /\ Wakeup' <= refresh_time(j.expires_at)
    BY <1>1, <1>5, <1>9, HastenFacts DEF ConcurrentTypeOK
<1>11. ConcurrentTypeOK'
    BY <1>4, <1>5, <1>6, <1>7, <1>10 DEF ConcurrentTypeOK, TypeOK
<1>12. JobsInv'
    BY <1>1, <1>3, <1>5, <1>6, <1>7 DEF JobsInv
<1>13. Reading' = Reading
    BY <1>1, <1>3, <1>5, <1>7 DEF Reading
<1>14. WriterInv'
    BY <1>1, <1>3, <1>5, <1>7, <1>13 DEF WriterInv
<1>15. SnapshotInv'
    BY <1>3, <1>5, <1>7, <1>8 DEF SnapshotInv
<1>16. DraftInv'
    BY <1>1, <1>5, <1>7, <1>8 DEF DraftInv, WriterInv
<1>17. ASSUME tick = Idle PROVE CoverInv'
    <2>1. tick.stage = "idle" /\ missed' = missed /\ Wakeup \in Nat
        BY <1>4, <1>17 DEF Idle, Wakeup, Earlier, ConcurrentTypeOK, TypeOK
    <2>2. ASSUME renewer = "running" PROVE Covers(Wakeup)'
        <3>1. Covers(Wakeup')
            BY <1>10, <1>17, <2>1, <2>2, EarlierCovers DEF CoverInv
        <3> QED  BY <1>3, <1>5, <1>7, <1>8, <1>10, <2>1, <3>1 DEF Covers
    <2> QED  BY <1>5, <1>10, <2>1, <2>2 DEF CoverInv
<1>18. ASSUME tick.stage = "store" PROVE CoverInv'
    <2>1. tick # Idle /\ missed' = missed \cup {Verified(w)}
        BY <1>4, <1>18 DEF Idle
    <2>2. Covers(tick.result)' /\ \A v \in Worker : Uncommitted(v)' => Verified(v) \in missed'
        BY <1>3, <1>5, <1>7, <1>8, <1>18, <2>1 DEF CoverInv, Covers, Uncommitted
    <2> QED  BY <1>5, <1>8, <1>10, <2>1, <2>2 DEF CoverInv
<1>19. ASSUME tick # Idle /\ tick.stage # "store" PROVE CoverInv'
    BY <1>5, <1>10, <1>19 DEF CoverInv
<1> QED  BY <1>11, <1>12, <1>14, <1>15, <1>16, <1>17, <1>18, <1>19

\* The transaction begins: what it reads is current.
LEMMA ReadOldCInv ==
    ASSUME CInv, NEW w \in Worker, ReadOld(w)
    PROVE  CInv'
<1> USE DEF CInv
<1> DEFINE j == job[w]
           k == [stage |-> "write", m |-> j.m, hub |-> j.hub, expires_at |-> j.expires_at,
                 old |-> get_old_subscriptions(db, Callback[j.m.id], j.hub, j.m.topic)]
<1>1. j \in Job /\ j.stage = "begin"
    BY DEF ReadOld, ConcurrentTypeOK
<1>2. j # Idle /\ j.m \in Request /\ j.hub \in Hub /\ j.expires_at \in Nat
    BY <1>1, JobFacts
<1>3. get_old_subscriptions(db, Callback[j.m.id], j.hub, j.m.topic) \in SUBSET Id
    BY DEF get_old_subscriptions, RowsOf, Rows
<1>4. /\ k \in Job /\ k # Idle /\ k.stage = "write"
      /\ k.m = j.m /\ k.hub = j.hub /\ k.expires_at = j.expires_at
      /\ k.old = get_old_subscriptions(db, Verified(w), j.hub, j.m.topic)
    BY <1>2, <1>3 DEF Job, Idle, Verified
<1>5. job' = [job EXCEPT ![w] = k]
    BY DEF ReadOld
<1>6. UNCHANGED <<db, now, next_tick, sleep, woken, renewer, outbox, inbox, hub_subs,
                  faults, unheard, tick, writer, draft, stale, missed>>
    BY DEF ReadOld, vars
<1> HIDE DEF k
<1>7. job' \in [Worker -> Job] /\ job'[w] = k /\ \A v \in Worker : v # w => job'[v] = job[v]
    BY <1>4, <1>5 DEF ConcurrentTypeOK
<1>8. \A v \in Worker : Verified(v)' = Verified(v)
    BY <1>4, <1>7 DEF Verified
<1>9. ConcurrentTypeOK'
    BY <1>6, <1>7 DEF ConcurrentTypeOK, TypeOK
<1>10. JobsInv'
    BY <1>1, <1>2, <1>4, <1>6, <1>7 DEF JobsInv
<1>11. Reading' = Reading \cup {w}
    BY <1>4, <1>6, <1>7 DEF Reading
<1>12. WriterInv'
    BY <1>1, <1>4, <1>6, <1>7, <1>11 DEF WriterInv
<1>13. SnapshotInv'
    BY <1>4, <1>6, <1>7, <1>8 DEF SnapshotInv
<1>14. DraftInv'
    BY <1>1, <1>6, <1>7, <1>8 DEF DraftInv, WriterInv
<1>15. CoverInv'
    BY <1>1, <1>4, <1>6, <1>7, <1>8 DEF CoverInv, Covers, Uncommitted, Wakeup
<1> QED  BY <1>9, <1>10, <1>12, <1>13, <1>14, <1>15

\* The first writes of the transaction: the row is active in the draft, and
\* the expiry that it gets is the one that the tick was hastened for.
LEMMA RemoveAndActivateCInv ==
    ASSUME CInv, NEW w \in Worker, RemoveAndActivate(w)
    PROVE  CInv'
<1> USE DEF CInv
<1> DEFINE j == job[w]
           k == [stage |-> "commit", m |-> j.m, until |-> j.expires_at]
<1>1. j \in Job /\ j.stage = "write" /\ writer = None /\ w \notin stale
    BY DEF RemoveAndActivate, Busy, ConcurrentTypeOK
<1>2. /\ j # Idle /\ j.m \in Request /\ j.hub \in Hub /\ j.expires_at \in Nat
      /\ Verified(w) \in Id
    BY <1>1, JobFacts, RequestFacts DEF Verified
<1>3. j.old = get_old_subscriptions(db, Verified(w), j.hub, j.m.topic)
    BY <1>1 DEF SnapshotInv
<1>4. k \in Job /\ k # Idle /\ k.stage = "commit" /\ k.m = j.m /\ k.until = j.expires_at
    BY <1>2 DEF Job, Idle
<1>5. job' = [job EXCEPT ![w] = k]
    BY DEF RemoveAndActivate
<1>6. /\ UNCHANGED <<db, now, next_tick, sleep, woken, renewer, inbox, hub_subs,
                     faults, unheard, tick, stale, missed>>
      /\ writer' = w
      /\ outbox' = outbox \cup Requests("unsubscribe", j.old, j.hub, j.m.topic)
      /\ draft' = activate_subscription(delete_subscriptions(db, j.old), Verified(w), j.expires_at)
    BY DEF RemoveAndActivate, BeginWrite, scheduler, history, Verified
<1> HIDE DEF k
<1>7. job' \in [Worker -> Job] /\ job'[w] = k /\ \A v \in Worker : v # w => job'[v] = job[v]
    BY <1>4, <1>5 DEF ConcurrentTypeOK
<1>8. \A v \in Worker : Verified(v)' = Verified(v)
    BY <1>4, <1>7 DEF Verified
<1>9. /\ draft' \in Table
      /\ Active(draft') \subseteq Active(db) \cup {Verified(w)}
      /\ \A i \in Active(draft') : i # Verified(w) => i \in Active(db) /\ draft'[i] = db[i]
      /\ Verified(w) \in Active(draft') => draft'[Verified(w)].expires_at = j.expires_at
    <2> DEFINE old == RowsOf(db, j.hub, j.m.topic) \ {Verified(w)}
    <2>1. /\ draft' \in Table
          /\ Rows(draft') = Rows(db) \ old
          /\ Active(draft') = (Active(db) \ old) \cup (Rows(db) \cap {Verified(w)})
          /\ \A i \in Rows(draft') : i # Verified(w) => draft'[i] = db[i]
          /\ Verified(w) \in Rows(db) => draft'[Verified(w)].expires_at = j.expires_at
        BY <1>2, <1>3, <1>6, VerifyTable DEF ConcurrentTypeOK
    <2>2. Active(draft') \subseteq Rows(draft')
        BY DEF Active
    <2> QED  BY <2>1, <2>2
<1>10. outbox' \subseteq Request
    <2>1. j.old \in SUBSET Id /\ j.m.topic \in Topic
        BY <1>1, <1>2, JobFacts, RequestFacts
    <2> QED  BY <1>2, <1>6, <2>1, RequestsType DEF ConcurrentTypeOK, TypeOK
<1>11. j.expires_at \in Margin..I64Max
    BY <1>1 DEF JobsInv
<1>12. ConcurrentTypeOK'
    BY <1>6, <1>7, <1>9, <1>10 DEF ConcurrentTypeOK, TypeOK, Actor
<1>13. JobsInv'
    BY <1>1, <1>2, <1>4, <1>6, <1>7 DEF JobsInv
<1>14. Reading' = Reading \ {w}
    BY <1>4, <1>6, <1>7, Actors DEF Reading
<1>15. WriterInv'
    BY <1>1, <1>4, <1>6, <1>7, <1>14, Actors DEF WriterInv
<1>16. SnapshotInv'
    BY <1>4, <1>6, <1>7, <1>8 DEF SnapshotInv
<1>17. DraftInv'
    <2>1. \A i \in Active(draft') : draft'[i].expires_at \in Margin..I64Max
        BY <1>9, <1>11 DEF ConcurrentTypeOK, TypeOK
    <2>2. \A i \in Active(draft') :
             IF i = Verified(w) THEN draft'[i].expires_at = job'[w].until
                                ELSE i \in Active(db) /\ draft'[i] = db[i]
        BY <1>4, <1>7, <1>9
    <2>3. \A v \in Worker : writer' = v => v = w
        BY <1>6
    <2> QED  BY <1>6, <1>8, <2>1, <2>2, <2>3, Actors DEF DraftInv
<1>18. ASSUME NEW t, Covers(t) PROVE Covers(t)'
    <2>1. ASSUME NEW i \in Active(draft') \ missed
          PROVE  t <= refresh_time(draft'[i].expires_at)
        <3>1. CASE i = Verified(w)
            BY <1>1, <1>9, <1>18, <2>1, <3>1 DEF Covers
        <3>2. CASE i # Verified(w)
            BY <1>9, <1>18, <2>1, <3>2 DEF Covers
        <3> QED  BY <3>1, <3>2
    <2> QED  BY <1>4, <1>6, <1>7, <1>8, <1>18, <2>1 DEF Covers
<1>19. CoverInv'
    <2>1. \A v \in Worker : Uncommitted(v)' => Uncommitted(v)
        BY <1>1, <1>7 DEF Uncommitted
    <2>2. Wakeup' = Wakeup
        BY <1>6 DEF Wakeup
    <2> QED  BY <1>6, <1>8, <1>18, <2>1, <2>2 DEF CoverInv
<1> QED  BY <1>12, <1>13, <1>15, <1>16, <1>17, <1>19

\* A transaction that is refused leaves nothing but an earlier wake-up.
LEMMA VerifyBusyCInv ==
    ASSUME CInv, NEW w \in Worker, VerifyBusy(w)
    PROVE  CInv'
<1> USE DEF CInv
<1>1. job[w].stage = "write" /\ job' = [job EXCEPT ![w] = Idle] /\ stale' = stale \ {w}
    BY DEF VerifyBusy
<1>2. UNCHANGED <<db, now, next_tick, sleep, woken, renewer, outbox, inbox, hub_subs,
                  faults, unheard, tick, writer, draft, missed>>
    BY DEF VerifyBusy, vars
<1>3. Idle \in Job /\ Idle.stage = "idle"
    BY DEF Job, Idle
<1>4. job' \in [Worker -> Job] /\ job'[w] = Idle /\ \A v \in Worker : v # w => job'[v] = job[v]
    BY <1>1, <1>3 DEF ConcurrentTypeOK
<1>5. ConcurrentTypeOK'
    BY <1>1, <1>2, <1>4 DEF ConcurrentTypeOK, TypeOK
<1>6. JobsInv'
    BY <1>2, <1>3, <1>4 DEF JobsInv
<1>7. Reading' = Reading \ {w}
    BY <1>2, <1>3, <1>4, Actors DEF Reading
<1>8. WriterInv'
    BY <1>1, <1>2, <1>3, <1>4, <1>7 DEF WriterInv
<1>9. SnapshotInv'
    BY <1>1, <1>2, <1>3, <1>4, Actors DEF SnapshotInv, Verified
<1>10. DraftInv'
    BY <1>1, <1>2, <1>4 DEF DraftInv, Verified, WriterInv
<1>11. CoverInv'
    BY <1>2, <1>3, <1>4 DEF CoverInv, Covers, Verified, Uncommitted, Wakeup
<1> QED  BY <1>5, <1>6, <1>8, <1>9, <1>10, <1>11

\* The commit: every snapshot that is older is outdated.
LEMMA CommitVerifyCInv ==
    ASSUME CInv, NEW w \in Worker, CommitVerify(w)
    PROVE  CInv'
<1> USE DEF CInv
<1> DEFINE j == job[w]
           k == [job[w] EXCEPT !.stage = "reply"]
<1>1. j \in Job /\ j.stage = "commit" /\ writer = w
    BY DEF CommitVerify, Commit, ConcurrentTypeOK
<1>2. job' = [job EXCEPT ![w] = k]
    BY DEF CommitVerify
<1>3. k \in Job /\ k.stage = "reply" /\ k.m = j.m
    BY <1>1, JobMoves
<1>4. /\ db' = draft /\ writer' = None /\ draft' = EmptyTable
      /\ stale' = IF db' = db THEN stale ELSE stale \cup Reading
      /\ UNCHANGED <<now, next_tick, sleep, woken, renewer, outbox, inbox, hub_subs,
                     faults, unheard, tick, missed>>
    BY DEF CommitVerify, Commit, Outdate, scheduler, history
<1> HIDE DEF k
<1>5. j # Idle /\ k # Idle
    BY <1>1, <1>3, JobFacts
<1>6. job' \in [Worker -> Job] /\ job'[w] = k /\ \A v \in Worker : v # w => job'[v] = job[v]
    BY <1>2, <1>3 DEF ConcurrentTypeOK
<1>7. \A v \in Worker : Verified(v)' = Verified(v)
    BY <1>3, <1>6 DEF Verified
<1>8. draft' \in Table /\ Active(draft') = {}
    BY <1>4 DEF EmptyTable, Table, Active, Rows
<1>9. Reading' = Reading
    BY <1>1, <1>3, <1>4, <1>6 DEF Reading
<1>10. Reading \subseteq Actor
    BY DEF Reading, Actor
<1>11. ConcurrentTypeOK'
    BY <1>4, <1>6, <1>8, <1>10 DEF ConcurrentTypeOK, TypeOK, DraftInv
<1>12. JobsInv'
    BY <1>1, <1>3, <1>4, <1>5, <1>6 DEF JobsInv
<1>13. WriterInv'
    BY <1>1, <1>3, <1>4, <1>6, <1>9, Actors DEF WriterInv
<1>14. SnapshotInv'
    BY <1>1, <1>3, <1>4, <1>6, <1>7 DEF SnapshotInv, Reading
<1>15. DraftInv'
    BY <1>4, <1>8, Actors DEF DraftInv
<1>16. ASSUME NEW t, Covers(t) PROVE Covers(t)'
    BY <1>3, <1>4, <1>6, <1>7, <1>8, <1>16 DEF Covers
<1>17. CoverInv'
    <2>1. \A v \in Worker : Uncommitted(v)' => Uncommitted(v)
        BY <1>3, <1>6 DEF Uncommitted
    <2>2. Wakeup' = Wakeup
        BY <1>4 DEF Wakeup
    <2> QED  BY <1>4, <1>7, <1>16, <2>1, <2>2 DEF CoverInv
<1> QED  BY <1>11, <1>12, <1>13, <1>14, <1>15, <1>17

\* The answer reaches the hub, and the request is done with.
LEMMA ReplyCInv ==
    ASSUME CInv, NEW w \in Worker, Reply(w)
    PROVE  CInv'
<1> USE DEF CInv
<1> DEFINE m == job[w].m
<1>1. /\ job[w].stage = "reply" /\ job' = [job EXCEPT ![w] = Idle]
      /\ inbox' = inbox \ {m}
      /\ hub_subs' = hub_subs \cup {Subscribed(m, job[w].until)}
      /\ UNCHANGED <<db, now, next_tick, sleep, woken, renewer, outbox, faults, unheard,
                     tick, writer, draft, stale, missed>>
    BY DEF Reply, scheduler, history
<1>2. Idle \in Job /\ Idle.stage = "idle"
    BY DEF Job, Idle
<1>3. job[w] # Idle /\ m \in Request /\ job[w].until \in Nat
    BY <1>1, <1>2, JobFacts DEF ConcurrentTypeOK
<1>4. job' \in [Worker -> Job] /\ job'[w] = Idle /\ \A v \in Worker : v # w => job'[v] = job[v]
    BY <1>1, <1>2 DEF ConcurrentTypeOK
<1>5. Subscribed(m, job[w].until) \in HubSub
    BY <1>3, SubscribedType
<1>6. ConcurrentTypeOK'
    BY <1>1, <1>4, <1>5 DEF ConcurrentTypeOK, TypeOK
<1>7. JobsInv'
    BY <1>1, <1>2, <1>3, <1>4 DEF JobsInv
<1>8. Reading' = Reading
    BY <1>1, <1>2, <1>4 DEF Reading
<1>9. WriterInv'
    BY <1>1, <1>2, <1>4, <1>8 DEF WriterInv
<1>10. SnapshotInv'
    BY <1>1, <1>2, <1>4 DEF SnapshotInv, Verified
<1>11. DraftInv'
    BY <1>1, <1>4 DEF DraftInv, Verified, WriterInv
<1>12. CoverInv'
    BY <1>1, <1>2, <1>4 DEF CoverInv, Covers, Verified, Uncommitted, Wakeup
<1> QED  BY <1>6, <1>7, <1>9, <1>10, <1>11, <1>12

-----------------------------------------------------------------------------
(* The steps of the renewal task                                           *)

\* A poll resets the Sleep to the earlier of the two times.
LEMMA SleepFacts ==
    ASSUME TypeOK, sleep' = Wakeup, next_tick' = next_tick
    PROVE  sleep' \in 0..NoTick /\ sleep' <= next_tick' /\ Wakeup' = Wakeup
BY DEF TypeOK, Wakeup, Earlier

\* The tick begins: what it reads is current.
LEMMA TickBeginCInv ==
    ASSUME CInv, TickBegin
    PROVE  CInv'
<1> USE DEF CInv
<1>1. /\ tick = Idle /\ tick.stage = "idle"
      /\ tick' = IF Expiring = {} THEN [stage |-> "query"]
                 ELSE [stage |-> "write", threshold |-> renewal_threshold,
                       expiring |-> Expiring]
      /\ sleep' = Wakeup /\ woken' = FALSE
      /\ UNCHANGED <<db, now, next_tick, renewer, outbox, inbox, hub_subs, faults, unheard,
                     job, writer, draft, stale, missed>>
    BY DEF TickBegin, history, Idle
<1>2. /\ renewal_threshold \in Nat /\ Expiring \in SUBSET Id
      /\ Expiring = get_subscriptions_expire_before(db, renewal_threshold)
    BY ThresholdFacts
    DEF Expiring, get_subscriptions_expire_before, Active, Rows, ConcurrentTypeOK
<1>3. /\ tick' \in TickState /\ tick'.stage \in {"query", "write"} /\ tick' # Idle
      /\ tick'.stage = "write" =>
            tick'.threshold = renewal_threshold /\ tick'.expiring = Expiring
    BY <1>1, <1>2 DEF TickState, Idle
<1>4. sleep' \in 0..NoTick /\ sleep' <= next_tick'
    BY <1>1, SleepFacts DEF ConcurrentTypeOK
<1>5. ConcurrentTypeOK'
    BY <1>1, <1>3, <1>4 DEF ConcurrentTypeOK, TypeOK
<1>6. JobsInv'
    BY <1>1 DEF JobsInv
<1>7. Reading \subseteq Reading'
    BY <1>1 DEF Reading
<1>8. WriterInv'
    BY <1>1, <1>3, <1>7 DEF WriterInv
<1>9. SnapshotInv'
    BY <1>1, <1>2, <1>3 DEF SnapshotInv, Verified
<1>10. DraftInv'
    BY <1>1 DEF DraftInv, Verified
<1>11. CoverInv'
    BY <1>3, <1>4 DEF CoverInv
<1> QED  BY <1>5, <1>6, <1>8, <1>9, <1>10, <1>11

\* Service::renew_subscriptions: its rows are in the draft, and none of the
\* active ones is new.
LEMMA RenewCInv ==
    ASSUME CInv, Renew
    PROVE  CInv'
<1> USE DEF CInv
<1>0. PICK ids \in SUBSET Unused : \E g \in Bijection(ids, tick.expiring) :
         /\ BeginWrite("renewal",
               deactivate_subscriptions_expire_before(
                   create_subscriptions(db, [i \in ids |-> Key(db[g[i]])]), tick.threshold))
         /\ outbox' = outbox \cup RenewalRequests(ids, g)
    BY DEF Renew
<1>1. PICK g \in Bijection(ids, tick.expiring) :
         /\ BeginWrite("renewal",
               deactivate_subscriptions_expire_before(
                   create_subscriptions(db, [i \in ids |-> Key(db[g[i]])]), tick.threshold))
         /\ outbox' = outbox \cup RenewalRequests(ids, g)
    BY <1>0
<1>2. /\ tick.stage = "write" /\ writer = None /\ "renewal" \notin stale
      /\ tick' = [stage |-> "commit"]
      /\ UNCHANGED <<db, now, next_tick, sleep, woken, renewer, inbox, hub_subs, faults,
                     unheard, job, stale, missed>>
    BY DEF Renew, Busy, scheduler, history
<1>3. tick.threshold \in Nat
    BY <1>2, TickStateFacts DEF ConcurrentTypeOK
<1>4. tick.expiring = get_subscriptions_expire_before(db, tick.threshold)
    BY <1>2 DEF SnapshotInv
<1>5. /\ writer' = "renewal"
      /\ draft' = deactivate_subscriptions_expire_before(
                      create_subscriptions(db, [i \in ids |-> Key(db[g[i]])]), tick.threshold)
    BY <1>1 DEF BeginWrite
<1>6. OnlyDeactivates(db, draft') /\ RenewalRequests(ids, g) \subseteq Request
    BY <1>3, <1>4, <1>5, RenewTable DEF ConcurrentTypeOK
<1>7. tick' \in TickState /\ tick'.stage = "commit" /\ tick' # Idle
    BY <1>2 DEF TickState, Idle
<1>8. ConcurrentTypeOK'
    BY <1>1, <1>2, <1>5, <1>6, <1>7 DEF ConcurrentTypeOK, TypeOK, Actor, OnlyDeactivates
<1>9. JobsInv'
    BY <1>2 DEF JobsInv
<1>10. Reading' = Reading \ {"renewal"}
    BY <1>2, <1>7, Actors DEF Reading
<1>11. WriterInv'
    BY <1>2, <1>5, <1>7, <1>10, Actors DEF WriterInv
<1>12. SnapshotInv'
    BY <1>2, <1>7 DEF SnapshotInv, Verified
<1>13. DraftInv'
    BY <1>2, <1>5, <1>6, Actors DEF DraftInv, OnlyDeactivates, ConcurrentTypeOK, TypeOK
<1>14. CoverInv'
    BY <1>2, <1>7 DEF CoverInv
<1> QED  BY <1>8, <1>9, <1>11, <1>12, <1>13, <1>14

\* A tick that is refused ends the task: it promises nothing any more.
LEMMA RenewBusyCInv ==
    ASSUME CInv, RenewBusy
    PROVE  CInv'
<1> USE DEF CInv
<1>1. /\ tick.stage = "write" /\ renewer' = "stopped" /\ tick' = Idle
      /\ stale' = stale \ {"renewal"}
      /\ UNCHANGED <<db, now, next_tick, sleep, woken, outbox, inbox, hub_subs, faults,
                     unheard, job, writer, draft, missed>>
    BY DEF RenewBusy, history
<1>2. tick' \in TickState /\ tick'.stage = "idle"
    BY <1>1 DEF TickState, Idle
<1>3. ConcurrentTypeOK'
    BY <1>1, <1>2 DEF ConcurrentTypeOK, TypeOK
<1>4. JobsInv'
    BY <1>1 DEF JobsInv
<1>5. Reading' = Reading \ {"renewal"}
    BY <1>1, <1>2, Actors DEF Reading
<1>6. WriterInv'
    BY <1>1, <1>2, <1>5 DEF WriterInv
<1>7. SnapshotInv'
    BY <1>1, <1>2, Actors DEF SnapshotInv, Verified
<1>8. DraftInv'
    BY <1>1 DEF DraftInv, Verified
<1>9. CoverInv'
    BY <1>1, <1>2 DEF CoverInv
<1> QED  BY <1>3, <1>4, <1>6, <1>7, <1>8, <1>9

\* The commit of the renewal.
LEMMA CommitRenewalCInv ==
    ASSUME CInv, CommitRenewal
    PROVE  CInv'
<1> USE DEF CInv
<1>1. /\ tick.stage = "commit" /\ writer = "renewal" /\ tick' = [stage |-> "query"]
      /\ db' = draft /\ writer' = None /\ draft' = EmptyTable
      /\ stale' = IF db' = db THEN stale ELSE stale \cup Reading
      /\ UNCHANGED <<now, next_tick, sleep, woken, renewer, outbox, inbox, hub_subs,
                     faults, unheard, job, missed>>
    BY DEF CommitRenewal, Commit, Outdate, scheduler, history
<1>2. tick' \in TickState /\ tick'.stage = "query" /\ tick' # Idle
    BY <1>1 DEF TickState, Idle
<1>3. draft' \in Table /\ Active(draft') = {}
    BY <1>1 DEF EmptyTable, Table, Active, Rows
<1>4. Reading' = Reading /\ Reading \subseteq Actor
    BY <1>1, <1>2 DEF Reading, Actor
<1>5. ConcurrentTypeOK'
    BY <1>1, <1>2, <1>3, <1>4 DEF ConcurrentTypeOK, TypeOK, DraftInv
<1>6. JobsInv'
    BY <1>1 DEF JobsInv
<1>7. WriterInv'
    BY <1>1, <1>2, <1>4, Actors DEF WriterInv
<1>8. SnapshotInv'
    BY <1>1, <1>2 DEF SnapshotInv, Verified, Reading
<1>9. DraftInv'
    BY <1>1, <1>3, Actors DEF DraftInv
<1>10. CoverInv'
    BY <1>1, <1>2 DEF CoverInv
<1> QED  BY <1>5, <1>6, <1>7, <1>8, <1>9, <1>10

\* get_next_expiry sees what is committed: the rest is missed.
LEMMA QueryCInv ==
    ASSUME CInv, QueryNextExpiry
    PROVE  CInv'
<1> USE DEF CInv
<1>1. /\ tick.stage = "query"
      /\ tick' = [stage |-> "store", result |-> tick_result(db)]
      /\ missed' = {Verified(w) : w \in {v \in Worker : Uncommitted(v)}}
      /\ UNCHANGED <<db, now, next_tick, sleep, woken, renewer, outbox, inbox, hub_subs,
                     faults, unheard, job, writer, draft, stale>>
    BY DEF QueryNextExpiry, Verified, vars
<1>2. /\ tick_result(db) \in 0..NoTick
      /\ \A i \in Active(db) : tick_result(db) <= refresh_time(db[i].expires_at)
    BY TickFacts DEF ConcurrentTypeOK, TypeOK
<1>3. /\ tick' \in TickState /\ tick'.stage = "store" /\ tick' # Idle
      /\ tick'.result = tick_result(db)
    BY <1>1, <1>2 DEF TickState, Idle
<1>4. \A w \in Worker : Uncommitted(w) => Verified(w) \in Id
    BY JobFacts, RequestFacts DEF Uncommitted, Verified, ConcurrentTypeOK, Idle
<1>5. missed' \subseteq Id
    BY <1>1, <1>4
<1>6. ConcurrentTypeOK'
    BY <1>1, <1>3, <1>5 DEF ConcurrentTypeOK, TypeOK
<1>7. JobsInv'
    BY <1>1 DEF JobsInv
<1>8. Reading' = Reading
    BY <1>1, <1>3 DEF Reading
<1>9. WriterInv'
    BY <1>1, <1>3, <1>8 DEF WriterInv
<1>10. SnapshotInv'
    BY <1>1, <1>3 DEF SnapshotInv, Verified
<1>11. DraftInv'
    BY <1>1 DEF DraftInv, Verified
<1>12. \A w \in Worker : Verified(w)' = Verified(w) /\ Uncommitted(w)' = Uncommitted(w)
    BY <1>1 DEF Verified, Uncommitted
<1>13. \A w \in Worker : Uncommitted(w) => Verified(w) \in missed'
    BY <1>1
<1>14. ASSUME NEW i \in Active(draft), i \notin missed'
       PROVE  i \in Active(db) /\ draft[i] = db[i]
    <2>1. writer # None
        BY <1>14 DEF WriterInv, EmptyTable, Active, Rows
    <2>2. writer # "renewal"
        BY <1>1 DEF WriterInv
    <2>3. PICK w \in Worker : writer = w
        BY <2>1, <2>2 DEF ConcurrentTypeOK, Actor
    <2>4. Uncommitted(w)
        BY <2>3 DEF WriterInv, Uncommitted
    <2> QED  BY <1>13, <1>14, <2>3, <2>4 DEF DraftInv
<1>15. Covers(tick.result)'
    <2>1. \A i \in Active(db)' \ missed' : tick_result(db) <= refresh_time(db'[i].expires_at)
        BY <1>1, <1>2
    <2>2. \A i \in Active(draft)' \ missed' :
             tick_result(db) <= refresh_time(draft'[i].expires_at)
        BY <1>1, <1>2, <1>14
    <2>3. \A w \in Worker : job'[w].stage \in {"begin", "write"} => Verified(w)' \in missed'
        BY <1>1, <1>12, <1>13 DEF Uncommitted
    <2> QED  BY <1>3, <2>1, <2>2, <2>3 DEF Covers
<1>16. CoverInv'
    BY <1>1, <1>3, <1>12, <1>13, <1>15 DEF CoverInv
<1> QED  BY <1>6, <1>7, <1>9, <1>10, <1>11, <1>16

\* The result is stored, and the Sleep reset.
LEMMA StoreTickCInv ==
    ASSUME CInv, StoreTick
    PROVE  CInv'
<1> USE DEF CInv
<1>1. /\ tick.stage = "store" /\ tick' = Idle
      /\ next_tick' = tick.result /\ sleep' = tick.result
      /\ UNCHANGED <<db, now, woken, renewer, outbox, inbox, hub_subs, faults, unheard,
                     job, writer, draft, stale, missed>>
    BY DEF StoreTick, history
<1>2. tick' \in TickState /\ tick'.stage = "idle" /\ tick.result \in 0..NoTick
    BY <1>1, TickStateFacts DEF TickState, Idle, ConcurrentTypeOK
<1>3. Wakeup' = tick.result
    BY <1>1 DEF Wakeup, Earlier
<1>4. ConcurrentTypeOK'
    BY <1>1, <1>2 DEF ConcurrentTypeOK, TypeOK
<1>5. JobsInv'
    BY <1>1 DEF JobsInv
<1>6. Reading' = Reading
    BY <1>1, <1>2 DEF Reading
<1>7. WriterInv'
    BY <1>1, <1>2, <1>6 DEF WriterInv
<1>8. SnapshotInv'
    BY <1>1, <1>2 DEF SnapshotInv, Verified
<1>9. DraftInv'
    BY <1>1 DEF DraftInv, Verified
<1>10. Covers(Wakeup)'
    <2>1. Covers(tick.result)
        BY <1>1 DEF CoverInv
    <2> QED  BY <1>1, <1>3, <2>1 DEF Covers, Verified
<1>11. sleep' <= next_tick'
    BY <1>1, <1>2
<1>12. CoverInv'
    BY <1>2, <1>10, <1>11 DEF CoverInv
<1> QED  BY <1>4, <1>5, <1>7, <1>8, <1>9, <1>12

-----------------------------------------------------------------------------
(* The other steps                                                         *)

\* The commands of the user: no transaction of another writes meanwhile.
LEMMA UserCInv ==
    ASSUME CInv, NEW hub \in Hub, NEW topic \in Topic, UserStep(hub, topic)
    PROVE  CInv'
<1> USE DEF CInv
<1>1. OnlyDeactivates(db, db') /\ outbox' \subseteq Request
    BY SubscribeFacts, UnsubscribeFacts DEF UserStep, ConcurrentTypeOK
<1>2. /\ writer = None
      /\ stale' = IF db' = db THEN stale ELSE stale \cup Reading
      /\ UNCHANGED <<now, next_tick, sleep, woken, renewer, inbox, hub_subs, faults, unheard,
                     job, tick, writer, draft, missed>>
    BY DEF UserStep, Outdate, Subscribe, Unsubscribe, scheduler, history
<1>3. Reading' = Reading /\ Reading \subseteq Actor
    BY <1>2 DEF Reading, Actor
<1>4. ConcurrentTypeOK'
    BY <1>1, <1>2, <1>3 DEF ConcurrentTypeOK, TypeOK, OnlyDeactivates
<1>5. JobsInv'
    BY <1>2 DEF JobsInv
<1>6. WriterInv'
    BY <1>2, <1>3 DEF WriterInv
<1>7. SnapshotInv'
    BY <1>2 DEF SnapshotInv, Verified, Reading
<1>8. DraftInv'
    BY <1>2, Actors DEF DraftInv
<1>9. ASSUME NEW t, Covers(t) PROVE Covers(t)'
    BY <1>1, <1>2, <1>9 DEF Covers, OnlyDeactivates, Verified
<1>10. CoverInv'
    BY <1>2, <1>9 DEF CoverInv, Wakeup, Uncommitted, Verified
<1> QED  BY <1>4, <1>5, <1>6, <1>7, <1>8, <1>10

\* A poll that only resets the Sleep.
LEMMA PollStepCInv ==
    ASSUME CInv, PollStep
    PROVE  CInv'
<1> USE DEF CInv
<1>1. /\ sleep' = Wakeup /\ woken' = FALSE
      /\ UNCHANGED <<db, now, next_tick, renewer, outbox, inbox, hub_subs, faults, unheard>>
      /\ UNCHANGED <<job, tick, writer, draft, stale, missed>>
    BY DEF PollStep, PollPending, history, concurrency
<1>2. sleep' \in 0..NoTick /\ sleep' <= next_tick' /\ Wakeup' = Wakeup
    BY <1>1, SleepFacts DEF ConcurrentTypeOK
<1>3. ConcurrentTypeOK'
    BY <1>1, <1>2 DEF ConcurrentTypeOK, TypeOK
<1>4. JobsInv' /\ WriterInv' /\ SnapshotInv' /\ DraftInv'
    BY <1>1 DEF JobsInv, WriterInv, SnapshotInv, DraftInv, Verified, Reading
<1>5. CoverInv'
    BY <1>1, <1>2 DEF CoverInv, Covers, Verified, Uncommitted
<1> QED  BY <1>3, <1>4, <1>5

\* A step that leaves the table, the task and the workers, and the requests
\* that the workers verify.
LEMMA OtherCInv ==
    ASSUME CInv, UNCHANGED <<db, next_tick, sleep, woken, renewer, faults, unheard>>,
           UNCHANGED <<job, tick, writer, draft, stale, missed>>,
           now' \in Start..(Start + MaxTime),
           outbox' \subseteq Request, inbox' \subseteq Request, hub_subs' \subseteq HubSub,
           \A w \in Worker : job[w] # Idle => job[w].m \in inbox'
    PROVE  CInv'
<1> USE DEF CInv
<1>1. ConcurrentTypeOK'
    BY DEF ConcurrentTypeOK, TypeOK
<1>2. JobsInv' /\ WriterInv' /\ SnapshotInv' /\ DraftInv'
    BY DEF JobsInv, WriterInv, SnapshotInv, DraftInv, Verified, Reading
<1>3. CoverInv'
    BY DEF CoverInv, Covers, Verified, Uncommitted, Wakeup
<1> QED  BY <1>1, <1>2, <1>3

\* Every step keeps the invariant.
LEMMA NextCInv == CInv /\ [ConcurrentNext]_allvars => CInv'
<1> SUFFICES ASSUME CInv, [ConcurrentNext]_allvars PROVE CInv'
    OBVIOUS
<1> USE DEF CInv
<1>1. /\ \A w \in Worker : job[w] # Idle => job[w].m \in inbox
      /\ now \in Start..(Start + MaxTime)
      /\ outbox \subseteq Request /\ inbox \subseteq Request /\ hub_subs \subseteq HubSub
    BY DEF ConcurrentTypeOK, TypeOK, JobsInv
<1>2. ASSUME NEW w \in Worker, WorkerStep(w) PROVE CInv'
    BY <1>2, HastenCInv, ReadOldCInv, RemoveAndActivateCInv, VerifyBusyCInv,
       CommitVerifyCInv, ReplyCInv
    DEF WorkerStep
<1>3. ASSUME TickStep PROVE CInv'
    BY <1>3, TickBeginCInv, RenewCInv, RenewBusyCInv, CommitRenewalCInv, QueryCInv,
       StoreTickCInv
    DEF TickStep
<1>4. ASSUME NEW m \in inbox, HubStep(m) PROVE CInv'
    BY <1>1, <1>4, OtherCInv
    DEF HubStep, VerifySubscribeRejected, VerifyUnsubscribe, VerifyUnsubscribeRejected,
        scheduler, history, concurrency
<1>5. ASSUME NEW m \in outbox, SendStep(m) PROVE CInv'
    BY <1>1, <1>5, OtherCInv DEF SendStep, SendRequest, scheduler, history, concurrency
<1>6. ASSUME NEW s \in hub_subs, PushGone(s) \/ LeaseEnds(s), UNCHANGED concurrency
      PROVE  CInv'
    BY <1>1, <1>6, OtherCInv DEF PushGone, LeaseEnds, scheduler, history, concurrency
<1>7. ASSUME Advance, UNCHANGED concurrency PROVE CInv'
    <2>1. now' \in Start..(Start + MaxTime)
        BY <1>1, <1>7, ServiceAssumption DEF Advance
    <2> QED  BY <1>1, <1>7, <2>1, OtherCInv DEF Advance, scheduler, history, concurrency
<1>8. ASSUME UNCHANGED allvars PROVE CInv'
    BY <1>1, <1>8, OtherCInv DEF allvars, vars, concurrency
<1> QED
    BY <1>2, <1>3, <1>4, <1>5, <1>6, <1>7, <1>8, CheckCInv, UserCInv, PollStepCInv
    DEF ConcurrentNext

\* The invariant holds of every behaviour.
THEOREM ConcurrentInvariance == ConcurrentSpec => []CInv
<1> QED  BY InitCInv, NextCInv, PTL DEF ConcurrentSpec

-----------------------------------------------------------------------------
(* Keys                                                                    *)

\* The request that a worker serves, and the row that it is about.
LEMMA VerifiedFacts ==
    ASSUME CInv, KInv, CallbackRoundTrips, NEW w \in Worker, job[w] # Idle
    PROVE  /\ job[w].m \in inbox /\ job[w].m \in Request
           /\ Verified(w) = job[w].m.id /\ Verified(w) \in Id
           /\ Verified(w) \in Rows(db) => Key(db[Verified(w)]) = Key(job[w].m)
<1>1. job[w].m \in inbox /\ job[w].m \in Request
    BY JobFacts DEF CInv, JobsInv, ConcurrentTypeOK
<1>2. job[w].m.id \in Id
    BY <1>1, RequestFacts
<1>3. Verified(w) = job[w].m.id
    BY <1>2 DEF Verified, CallbackRoundTrips
<1> QED  BY <1>1, <1>2, <1>3 DEF KInv, KeysInv, SameKey

\* A step that leaves both tables keeps what is said of the keys if it only
\* moves or drops requests and subscriptions.
LEMMA SameTablesK ==
    ASSUME KInv, UNCHANGED <<db, draft, writer>>, HubsInv',
           outbox' \cup inbox' \subseteq outbox \cup inbox,
           \A s \in hub_subs' \ hub_subs : \E m \in inbox : m.id = s.id /\ Key(m) = Key(s),
           \A w \in Worker : writer = w => job'[w].m = job[w].m
    PROVE  KInv'
<1> USE DEF KInv
<1>1. \A x \in outbox' \cup inbox' \cup hub_subs' :
         \E y \in outbox \cup inbox \cup hub_subs : y.id = x.id /\ Key(y) = Key(x)
    OBVIOUS
<1>2. KeysInv' /\ DraftKeys'
    BY <1>1 DEF KeysInv, DraftKeys, SameKey
<1>3. DraftKeepsRows' /\ AtMostOneActive' /\ DraftOneActive'
    BY DEF DraftKeepsRows, AtMostOneActive, DraftOneActive
<1> QED  BY <1>2, <1>3

\* A commit makes the draft the table.
LEMMA CommitK ==
    ASSUME KInv, NEW actor, Commit(actor), HubsInv', UNCHANGED <<outbox, inbox, hub_subs>>
    PROVE  KInv'
<1> USE DEF KInv
<1>1. db' = draft /\ writer' = None /\ draft' = EmptyTable
    BY DEF Commit
<1>2. Rows(draft') = {} /\ Active(draft') = {}
    BY <1>1 DEF EmptyTable, Active, Rows
<1>3. KeysInv' /\ DraftKeys'
    BY <1>1, <1>2 DEF KeysInv, DraftKeys, SameKey
<1>4. AtMostOneActive' /\ DraftOneActive'
    BY <1>1, <1>2 DEF AtMostOneActive, DraftOneActive
<1>5. DraftKeepsRows'
    BY <1>1, Actors DEF DraftKeepsRows
<1> QED  BY <1>3, <1>4, <1>5

\* The look-up finds the hub that asks.
LEMMA CheckK ==
    ASSUME CInv, KInv, CallbackRoundTrips, NEW w \in Worker, NEW m \in inbox,
           NEW lease \in Lease, Check(w, m, lease)
    PROVE  KInv'
<1>1. PICK hub \in get_hub_of_inactive_subscription(db, Callback[m.id], m.topic) :
         job' = [job EXCEPT ![w] = [stage |-> "hasten", m |-> m, hub |-> hub,
                                    expires_at |-> expiry(lease)]]
    BY DEF Check
<1>2. /\ UNCHANGED <<db, outbox, inbox, hub_subs, writer, draft>>
      /\ job[w].stage = "idle"
    BY DEF Check, vars, Idle
<1>3. Callback[m.id] = m.id
    BY RequestFacts DEF CInv, ConcurrentTypeOK, TypeOK, CallbackRoundTrips
<1>4. hub = m.hub
    BY <1>1, <1>3 DEF get_hub_of_inactive_subscription, KInv, KeysInv, SameKey, Key
<1>5. /\ job'[w].stage = "hasten" /\ job'[w].m = m /\ job'[w].hub = hub
      /\ \A v \in Worker : v # w => job'[v] = job[v]
    BY <1>1 DEF CInv, ConcurrentTypeOK
<1>6. HubsInv'
    BY <1>4, <1>5 DEF KInv, HubsInv
<1>7. \A v \in Worker : writer = v => job'[v].m = job[v].m
    BY <1>2, <1>5 DEF CInv, WriterInv
<1> QED  BY <1>2, <1>6, <1>7, SameTablesK

\* The transaction of verify_intent: of the key of its request, it leaves
\* the row that it verifies.
LEMMA RemoveAndActivateK ==
    ASSUME CInv, KInv, CallbackRoundTrips, NEW w \in Worker, RemoveAndActivate(w)
    PROVE  KInv'
<1> USE DEF CInv, KInv
<1> DEFINE j == job[w]
           id == Verified(w)
           old == RowsOf(db, j.hub, j.m.topic) \ {id}
<1>1. j \in Job /\ j.stage = "write" /\ w \notin stale /\ j # Idle
    BY JobFacts DEF RemoveAndActivate, Busy, ConcurrentTypeOK
<1>2. /\ job' = [job EXCEPT ![w] = [stage |-> "commit", m |-> j.m, until |-> j.expires_at]]
      /\ UNCHANGED <<db, inbox, hub_subs>>
      /\ writer' = w
      /\ outbox' = outbox \cup Requests("unsubscribe", j.old, j.hub, j.m.topic)
      /\ draft' = activate_subscription(delete_subscriptions(db, j.old), id, j.expires_at)
    BY DEF RemoveAndActivate, BeginWrite, Verified
<1>3. j.old = get_old_subscriptions(db, id, j.hub, j.m.topic) /\ j.hub = j.m.hub
    BY <1>1 DEF SnapshotInv, HubsInv
<1>4. /\ j.m \in inbox /\ id = j.m.id /\ id \in Id
      /\ id \in Rows(db) => Key(db[id]) = Key(j.m)
    BY <1>1, VerifiedFacts
<1>5. j.old = old /\ old = {i \in Rows(db) : Key(db[i]) = Key(j.m)} \ {id}
    BY <1>3 DEF get_old_subscriptions, RowsOf, Key
<1>6. j.expires_at \in Nat
    BY <1>1, JobFacts
<1> HIDE DEF id, old
<1>7. /\ Rows(draft') = Rows(db) \ old
      /\ Active(draft') = (Active(db) \ old) \cup (Rows(db) \cap {id})
      /\ \A i \in Rows(draft') : i # id => draft'[i] = db[i]
      /\ id \in Rows(db) => Key(draft'[id]) = Key(db[id])
    BY <1>2, <1>3, <1>4, <1>6, VerifyTable DEF ConcurrentTypeOK, old
<1>8. \A i \in Rows(draft') : i \in Rows(db) /\ Key(draft'[i]) = Key(db[i])
    BY <1>7
<1>9. job'[w].stage = "commit" /\ job'[w].m = j.m /\ \A v \in Worker : v # w => job'[v] = job[v]
    BY <1>2 DEF ConcurrentTypeOK
<1>10. \A x \in outbox' \cup inbox' \cup hub_subs' : x.id \in Rows(db) => Key(db[x.id]) = Key(x)
    <2>1. \A x \in Requests("unsubscribe", j.old, j.hub, j.m.topic) : Key(db[x.id]) = Key(x)
        BY <1>3, <1>5 DEF Requests, Key
    <2> QED  BY <1>2, <2>1 DEF KeysInv, SameKey
<1>11. KeysInv' /\ DraftKeys'
    BY <1>2, <1>8, <1>10 DEF KeysInv, DraftKeys, SameKey
<1>12. HubsInv'
    BY <1>9 DEF HubsInv
<1>13. DraftKeepsRows'
    <2>1. \A i \in Rows(db) : \/ i \in Rows(draft') /\ Key(draft'[i]) = Key(db[i])
                              \/ Key(db[i]) = Key(j.m) /\ i # j.m.id
        BY <1>4, <1>5, <1>7, <1>8
    <2> QED  BY <1>2, <1>8, <1>9, <2>1, Actors DEF DraftKeepsRows
<1>14. AtMostOneActive'
    BY <1>2 DEF AtMostOneActive
<1>15. DraftOneActive'
    <2> SUFFICES ASSUME NEW a \in Active(draft'), NEW b \in Active(draft'),
                        Key(draft'[a]) = Key(draft'[b])
                 PROVE  a = b
        BY DEF DraftOneActive
    <2>1. /\ Active(db) \subseteq Rows(db) /\ Active(draft') \subseteq Rows(draft')
          /\ Key(db[a]) = Key(db[b])
        BY <1>8 DEF Active
    <2>2. CASE a # id /\ b # id
        BY <1>7, <2>1, <2>2 DEF AtMostOneActive
    <2>3. CASE a = id \/ b = id
        BY <1>4, <1>5, <1>7, <2>1, <2>3
    <2> QED  BY <2>2, <2>3
<1> QED  BY <1>11, <1>12, <1>13, <1>14, <1>15

\* Service::renew_subscriptions: the requests for the new rows name their
\* keys, and no one else knows of their ids.
LEMMA RenewK ==
    ASSUME CInv, KInv, Renew
    PROVE  KInv'
<1> USE DEF CInv, KInv
<1>1. PICK ids \in SUBSET Unused : \E g \in Bijection(ids, tick.expiring) :
         /\ BeginWrite("renewal",
               deactivate_subscriptions_expire_before(
                   create_subscriptions(db, [i \in ids |-> Key(db[g[i]])]), tick.threshold))
         /\ outbox' = outbox \cup RenewalRequests(ids, g)
    BY DEF Renew
<1>2. PICK g \in Bijection(ids, tick.expiring) :
         /\ BeginWrite("renewal",
               deactivate_subscriptions_expire_before(
                   create_subscriptions(db, [i \in ids |-> Key(db[g[i]])]), tick.threshold))
         /\ outbox' = outbox \cup RenewalRequests(ids, g)
    BY <1>1
<1>3. tick.stage = "write" /\ "renewal" \notin stale /\ UNCHANGED <<db, inbox, hub_subs, job>>
    BY DEF Renew, Busy
<1>4. /\ tick.threshold \in Nat
      /\ tick.expiring = get_subscriptions_expire_before(db, tick.threshold)
    BY <1>3, TickStateFacts DEF ConcurrentTypeOK, SnapshotInv
<1>5. /\ writer' = "renewal"
      /\ draft' = deactivate_subscriptions_expire_before(
                      create_subscriptions(db, [i \in ids |-> Key(db[g[i]])]), tick.threshold)
    BY <1>2 DEF BeginWrite
<1>6. /\ OnlyDeactivates(db, draft')
      /\ Rows(draft') = Rows(db) \cup ids
      /\ \A i \in Rows(db) : Key(draft'[i]) = Key(db[i])
      /\ \A m \in RenewalRequests(ids, g) : m.id \in ids /\ Key(draft'[m.id]) = Key(m)
    BY <1>4, <1>5, RenewTable DEF ConcurrentTypeOK
<1>7. /\ \A x \in outbox \cup inbox \cup hub_subs : x.id \notin ids
      /\ ids \cap Rows(db) = {}
    BY DEF Unused
<1>8. KeysInv'
    BY <1>2, <1>3, <1>6, <1>7 DEF KeysInv, SameKey
<1>9. DraftKeys'
    BY <1>2, <1>3, <1>6, <1>7 DEF DraftKeys, KeysInv, SameKey
<1>10. HubsInv' /\ AtMostOneActive'
    BY <1>3 DEF HubsInv, AtMostOneActive
<1>11. DraftKeepsRows'
    BY <1>3, <1>5, <1>6, Actors DEF DraftKeepsRows
<1>12. DraftOneActive'
    BY <1>6 DEF DraftOneActive, AtMostOneActive, OnlyDeactivates
<1> QED  BY <1>8, <1>9, <1>10, <1>11, <1>12

\* The commands of the user.
LEMMA UserK ==
    ASSUME CInv, KInv, NEW hub \in Hub, NEW topic \in Topic, UserStep(hub, topic)
    PROVE  KInv'
<1> USE DEF CInv, KInv
<1>1. Subscribe(hub, topic) \/ Unsubscribe(hub, topic)
    BY DEF UserStep
<1>2. writer = None /\ UNCHANGED <<job, writer, draft>>
    BY DEF UserStep
<1>3. draft = EmptyTable
    BY <1>2 DEF WriterInv
<1>4. Rows(draft) = {} /\ Active(draft) = {}
    BY <1>3 DEF EmptyTable, Rows, Active
<1>5. KeysInv'
    BY <1>1, UserKeys DEF ConcurrentTypeOK
<1>6. OnlyDeactivates(db, db')
    BY <1>1, SubscribeFacts, UnsubscribeFacts DEF ConcurrentTypeOK
<1>7. AtMostOneActive'
    BY <1>6, FewerActive DEF ConcurrentTypeOK
<1>8. DraftKeys' /\ HubsInv' /\ DraftOneActive'
    BY <1>2, <1>4 DEF DraftKeys, HubsInv, DraftOneActive
<1>9. DraftKeepsRows'
    BY <1>2, Actors DEF DraftKeepsRows
<1> QED  BY <1>5, <1>7, <1>8, <1>9

\* The other steps of a worker keep its hub and its request.
LEMMA WorkerK ==
    ASSUME CInv, KInv, CallbackRoundTrips, NEW w \in Worker, WorkerStep(w)
    PROVE  KInv'
<1> USE DEF CInv, KInv
<1>1. job \in [Worker -> Job] /\ job[w] \in Job
    BY DEF ConcurrentTypeOK
<1>2. CASE Hasten(w)
    <2>1. /\ job' = [job EXCEPT ![w] = [job[w] EXCEPT !.stage = "begin"]]
          /\ job[w].stage = "hasten"
          /\ UNCHANGED <<db, outbox, inbox, hub_subs, writer, draft>>
        BY <1>2 DEF Hasten
    <2>2. /\ job'[w].stage = "begin" /\ job'[w].m = job[w].m /\ job'[w].hub = job[w].hub
          /\ \A v \in Worker : v # w => job'[v] = job[v]
        BY <1>1, <2>1, JobMoves
    <2>3. HubsInv'
        BY <2>1, <2>2 DEF HubsInv
    <2> QED  BY <2>1, <2>2, <2>3, SameTablesK
<1>3. CASE ReadOld(w)
    <2>1. /\ job[w].stage = "begin"
          /\ UNCHANGED <<db, outbox, inbox, hub_subs, writer, draft>>
          /\ job'[w].stage = "write" /\ job'[w].m = job[w].m /\ job'[w].hub = job[w].hub
          /\ \A v \in Worker : v # w => job'[v] = job[v]
        BY <1>1, <1>3 DEF ReadOld, vars
    <2>2. HubsInv'
        BY <2>1 DEF HubsInv
    <2> QED  BY <2>1, <2>2, SameTablesK
<1>4. CASE RemoveAndActivate(w)
    BY <1>4, RemoveAndActivateK
<1>5. CASE VerifyBusy(w)
    <2>1. /\ job[w].stage = "write"
          /\ UNCHANGED <<db, outbox, inbox, hub_subs, writer, draft>>
          /\ job'[w].stage = "idle"
          /\ \A v \in Worker : v # w => job'[v] = job[v]
        BY <1>1, <1>5 DEF VerifyBusy, vars, Idle
    <2>2. HubsInv'
        BY <2>1 DEF HubsInv
    <2>3. \A v \in Worker : writer = v => job'[v].m = job[v].m
        BY <2>1 DEF WriterInv
    <2> QED  BY <2>1, <2>2, <2>3, SameTablesK
<1>6. CASE CommitVerify(w)
    <2>1. /\ job' = [job EXCEPT ![w] = [job[w] EXCEPT !.stage = "reply"]]
          /\ job[w].stage = "commit"
          /\ Commit(w) /\ UNCHANGED <<outbox, inbox, hub_subs>>
        BY <1>6 DEF CommitVerify
    <2>2. job'[w].stage = "reply" /\ \A v \in Worker : v # w => job'[v] = job[v]
        BY <1>1, <2>1, JobMoves
    <2>3. HubsInv'
        BY <2>2 DEF HubsInv
    <2> QED  BY <2>1, <2>3, CommitK
<1>7. CASE Reply(w)
    <2> DEFINE m == job[w].m
    <2>1. /\ job[w].stage = "reply"
          /\ UNCHANGED <<db, outbox, writer, draft>>
          /\ inbox' = inbox \ {m}
          /\ hub_subs' = hub_subs \cup {Subscribed(m, job[w].until)}
          /\ job'[w].stage = "idle"
          /\ \A v \in Worker : v # w => job'[v] = job[v]
        BY <1>1, <1>7 DEF Reply, Idle
    <2>2. m \in inbox
        BY <1>1, <2>1, JobFacts, VerifiedFacts
    <2>3. \A s \in hub_subs' \ hub_subs : m.id = s.id /\ Key(m) = Key(s)
        BY <2>1 DEF Subscribed, Key
    <2>4. HubsInv'
        BY <2>1 DEF HubsInv
    <2>5. \A v \in Worker : writer = v => job'[v].m = job[v].m
        BY <2>1 DEF WriterInv
    <2> QED  BY <2>1, <2>2, <2>3, <2>4, <2>5, SameTablesK
<1> QED  BY <1>2, <1>3, <1>4, <1>5, <1>6, <1>7 DEF WorkerStep

\* Every step keeps what is said of the keys.
LEMMA NextK ==
    ASSUME CInv, KInv, CallbackRoundTrips, [ConcurrentNext]_allvars
    PROVE  KInv'
<1>1. ASSUME UNCHANGED job PROVE HubsInv'
    BY <1>1 DEF KInv, HubsInv
<1>2. CASE CommitRenewal
    BY <1>1, <1>2, CommitK DEF CommitRenewal
<1>3. CASE TickStep
    BY <1>1, <1>2, <1>3, RenewK, SameTablesK
    DEF TickStep, TickBegin, RenewBusy, QueryNextExpiry, StoreTick, history, vars
<1>4. ASSUME NEW m \in inbox, HubStep(m) PROVE KInv'
    BY <1>1, <1>4, SameTablesK
    DEF HubStep, VerifySubscribeRejected, VerifyUnsubscribe, VerifyUnsubscribeRejected,
        concurrency
<1>5. ASSUME NEW m \in outbox, SendStep(m) PROVE KInv'
    BY <1>1, <1>5, SameTablesK DEF SendStep, SendRequest, concurrency
<1>6. ASSUME NEW s \in hub_subs, PushGone(s) \/ LeaseEnds(s), UNCHANGED concurrency
      PROVE  KInv'
    BY <1>1, <1>6, SameTablesK DEF PushGone, LeaseEnds, concurrency
<1>7. CASE PollStep \/ (Advance /\ UNCHANGED concurrency) \/ UNCHANGED allvars
    BY <1>1, <1>7, SameTablesK DEF PollStep, PollPending, Advance, concurrency, allvars, vars
<1> QED
    BY <1>3, <1>4, <1>5, <1>6, <1>7, CheckK, WorkerK, UserK DEF ConcurrentNext

\* It holds of every behaviour.
LEMMA KInvariance == CallbackRoundTrips /\ ConcurrentSpec => []KInv
<1>1. ConcurrentInit => KInv
    BY Actors
    DEF ConcurrentInit, Init, KInv, KeysInv, DraftKeys, HubsInv, DraftKeepsRows,
        AtMostOneActive, DraftOneActive, EmptyTable, Rows, Active, Idle
<1>2. CallbackRoundTrips /\ CInv /\ KInv /\ [ConcurrentNext]_allvars => KInv'
    BY NextK
<1>3. CallbackRoundTrips => []CallbackRoundTrips
    <2>1. CallbackRoundTrips => CallbackRoundTrips'
        BY DEF CallbackRoundTrips
    <2> QED  BY <2>1, PTL
<1> QED  BY <1>1, <1>2, <1>3, ConcurrentInvariance, PTL DEF ConcurrentSpec

-----------------------------------------------------------------------------
(* The invariants that the runs check                                      *)

\* Every value stays in its type, whatever the interleaving: no expiry that
\* is on its way through a transaction leaves the i64, no tick the u64.
THEOREM ConcurrentTypeCorrect == ConcurrentSpec => []ConcurrentTypeOK
<1>1. CInv => ConcurrentTypeOK
    BY DEF CInv
<1> QED  BY <1>1, ConcurrentInvariance, PTL

\* While the renewal task runs and is not at work, it wakes up in time for
\* every active row but those whose verification overlapped its last tick.
THEOREM CoversUnlessMissed == ConcurrentSpec => []CoveredUnlessMissed
<1>1. CInv => CoveredUnlessMissed
    <2> SUFFICES ASSUME CInv, renewer = "running", tick = Idle, NEW i \in Active(db) \ missed
                 PROVE  EffectiveWakeup <= refresh_time(db[i].expires_at)
        BY DEF CoveredUnlessMissed
    <2>1. Wakeup <= refresh_time(db[i].expires_at) /\ (~woken => sleep <= next_tick)
        BY DEF CInv, CoverInv, Covers
    <2>2. EffectiveWakeup = Wakeup
        BY <2>1 DEF EffectiveWakeup, Wakeup, Earlier, CInv, ConcurrentTypeOK, TypeOK
    <2> QED  BY <2>1, <2>2
<1> QED  BY <1>1, ConcurrentInvariance, PTL

\* Verifications of one key on several threads, renewals and the user's
\* commands between them: a hub and topic never has two active rows.
THEOREM ConcurrentOneActive == CallbackRoundTrips /\ ConcurrentSpec => []AtMostOneActive
<1>1. KInv => AtMostOneActive
    BY DEF KInv
<1> QED  BY <1>1, KInvariance, PTL

-----------------------------------------------------------------------------
(* Whose steps take rows away                                              *)

\* The table changes in three ways.
LEMMA WhoWrites ==
    ASSUME [ConcurrentNext]_allvars, db' # db
    PROVE  \/ \E hub \in Hub, topic \in Topic : UserStep(hub, topic)
           \/ \E w \in Worker : CommitVerify(w)
           \/ CommitRenewal
BY DEF ConcurrentNext, allvars, vars, Check, WorkerStep, Hasten, ReadOld, RemoveAndActivate,
       VerifyBusy, Reply, TickStep, TickBegin, Renew, RenewBusy, QueryNextExpiry, StoreTick,
       HubStep, VerifySubscribeRejected, VerifyUnsubscribe, VerifyUnsubscribeRejected,
       PollStep, PollPending, SendStep, SendRequest, PushGone, LeaseEnds, Advance

\* A row goes with all rows of its key, which the user ends, or with the
\* other rows of a key of which a verification activates one.
LEMMA RowGoes ==
    ASSUME CInv, KInv, CallbackRoundTrips, [ConcurrentNext]_allvars, NEW i \in Rows(db),
           ~(i \in Rows(db') /\ Key(db'[i]) = Key(db[i]))
    PROVE  \/ \E hub \in Hub, topic \in Topic :
                 i \in RowsOf(db, hub, topic) /\ UserStep(hub, topic)
           \/ \E w \in Worker :
                 /\ CommitVerify(w) /\ job[w].stage = "commit" /\ job[w] # Idle
                 /\ Key(db[i]) = Key(job[w].m)
                 /\ Verified(w) \in Rows(db) =>
                       Verified(w) \in Rows(db') /\ Key(db'[Verified(w)]) = Key(job[w].m)
<1> USE DEF CInv, KInv
<1>1. db' # db
    OBVIOUS
<1>2. ASSUME NEW hub \in Hub, NEW topic \in Topic, UserStep(hub, topic)
      PROVE  i \in RowsOf(db, hub, topic)
    <2>1. CASE Subscribe(hub, topic)
        BY <2>1, SubscribeFacts DEF ConcurrentTypeOK
    <2>2. CASE Unsubscribe(hub, topic)
        <3>1. /\ Rows(db') = Rows(db) \ RowsOf(db, hub, topic)
              /\ \A k \in Id \ RowsOf(db, hub, topic) : db'[k] = db[k]
            BY <2>2, DeleteFacts DEF Unsubscribe, ConcurrentTypeOK, TypeOK
        <3> QED  BY <3>1 DEF Rows
    <2> QED  BY <1>2, <2>1, <2>2 DEF UserStep
<1>3. ASSUME NEW w \in Worker, CommitVerify(w)
      PROVE  /\ job[w].stage = "commit" /\ job[w] # Idle
             /\ Key(db[i]) = Key(job[w].m)
             /\ Verified(w) \in Rows(db) =>
                   Verified(w) \in Rows(db') /\ Key(db'[Verified(w)]) = Key(job[w].m)
    <2>1. job[w].stage = "commit" /\ writer = w /\ db' = draft
        BY <1>3 DEF CommitVerify, Commit
    <2>2. job[w] # Idle
        BY <2>1, JobFacts DEF ConcurrentTypeOK
    <2>3. /\ Verified(w) = job[w].m.id
          /\ Verified(w) \in Rows(db) => Key(db[Verified(w)]) = Key(job[w].m)
        BY <2>2, VerifiedFacts
    <2>4. \A k \in Rows(db) : \/ k \in Rows(db') /\ Key(db'[k]) = Key(db[k])
                              \/ Key(db[k]) = Key(job[w].m) /\ k # Verified(w)
        BY <2>1, <2>3 DEF DraftKeepsRows
    <2> QED  BY <2>1, <2>2, <2>3, <2>4
<1>4. ~CommitRenewal
    BY DEF CommitRenewal, Commit, DraftKeepsRows
<1> QED  BY <1>1, <1>2, <1>3, <1>4, WhoWrites

\* Whatever the others commit between the look-up of a verification and its
\* own commit: unless its row is gone by then, the key keeps a row.
THEOREM VerifiedRowsKeepKeys == CallbackRoundTrips /\ ConcurrentSpec => VerifiedRowKeepsKey
<1>1. ASSUME CInv, KInv, CallbackRoundTrips, [ConcurrentNext]_allvars,
             NEW hub \in Hub, NEW topic \in Topic,
             RowsOf(db, hub, topic) # {}, RowsOf(db', hub, topic) = {}
      PROVE  UserStep(hub, topic) \/ \E w \in Worker : VerifiedTooLate(w)
    <2>1. PICK i \in Rows(db) : db[i].hub = hub /\ db[i].topic = topic
        BY <1>1 DEF RowsOf
    <2>2. ~(i \in Rows(db') /\ Key(db'[i]) = Key(db[i]))
        BY <1>1, <2>1 DEF RowsOf, Key
    <2>3. ASSUME NEW h \in Hub, NEW t \in Topic, i \in RowsOf(db, h, t), UserStep(h, t)
          PROVE  UserStep(hub, topic)
        <3>1. h = hub /\ t = topic
            BY <2>1, <2>3 DEF RowsOf
        <3> QED  BY <2>3, <3>1
    <2>4. ASSUME NEW w \in Worker, CommitVerify(w), Key(db[i]) = Key(job[w].m),
                 Verified(w) \in Rows(db) =>
                    Verified(w) \in Rows(db') /\ Key(db'[Verified(w)]) = Key(job[w].m)
          PROVE  VerifiedTooLate(w)
        <3>1. Verified(w) \notin Rows(db)
            <4> SUFFICES ASSUME Verified(w) \in Rows(db') , Key(db'[Verified(w)]) = Key(db[i])
                         PROVE  FALSE
                BY <2>4
            <4> QED  BY <1>1, <2>1 DEF RowsOf, Key
        <3> QED  BY <2>4, <3>1 DEF VerifiedTooLate, Verified
    <2> QED  BY <1>1, <2>1, <2>2, <2>3, <2>4, RowGoes
<1>2. CallbackRoundTrips /\ CInv /\ KInv /\ [ConcurrentNext]_allvars =>
        [\A hub \in Hub, topic \in Topic :
            RowsOf(db, hub, topic) # {} /\ RowsOf(db', hub, topic) = {}
                => \/ UserStep(hub, topic)
                   \/ \E w \in Worker : VerifiedTooLate(w)]_allvars
    BY <1>1
<1>3. CallbackRoundTrips => []CallbackRoundTrips
    <2>1. CallbackRoundTrips => CallbackRoundTrips'
        BY DEF CallbackRoundTrips
    <2> QED  BY <2>1, PTL
<1> QED
    BY <1>2, <1>3, ConcurrentInvariance, KInvariance, PTL
    DEF ConcurrentSpec, VerifiedRowKeepsKey

-----------------------------------------------------------------------------
(* What a hub holds                                                        *)

\* If a row of a key goes, the user ends the key, a verification comes too
\* late, or the answer for another row of the key is on its way to the hub.
LEMMA RowGoesAnswered ==
    ASSUME CInv, KInv, CallbackRoundTrips, [ConcurrentNext]_allvars,
           NEW hub \in Hub, NEW topic \in Topic, NEW i \in RowsOf(db, hub, topic),
           i \notin RowsOf(db', hub, topic)
    PROVE  \/ UserStep(hub, topic)
           \/ \E w \in Worker : VerifiedTooLate(w)
           \/ ServedOrAnswering(hub, topic)'
<1> USE DEF CInv, KInv
<1>1. i \in Rows(db) /\ db[i].hub = hub /\ db[i].topic = topic
    BY DEF RowsOf
<1>2. ~(i \in Rows(db') /\ Key(db'[i]) = Key(db[i]))
    BY <1>1 DEF RowsOf, Key
<1>3. ASSUME NEW h \in Hub, NEW t \in Topic, i \in RowsOf(db, h, t), UserStep(h, t)
      PROVE  UserStep(hub, topic)
    <2>1. h = hub /\ t = topic
        BY <1>1, <1>3 DEF RowsOf
    <2> QED  BY <1>3, <2>1
<1>4. ASSUME NEW w \in Worker, CommitVerify(w), job[w].stage = "commit",
             Key(db[i]) = Key(job[w].m), Verified(w) \in Rows(db),
             Verified(w) \in Rows(db') /\ Key(db'[Verified(w)]) = Key(job[w].m)
      PROVE  ServedOrAnswering(hub, topic)'
    <2>1. job' = [job EXCEPT ![w] = [job[w] EXCEPT !.stage = "reply"]]
        BY <1>4 DEF CommitVerify
    <2>2. job'[w].stage = "reply" /\ job'[w].m = job[w].m
        BY <1>4, <2>1, JobMoves DEF ConcurrentTypeOK
    <2>3. job[w].m.hub = hub /\ job[w].m.topic = topic
        BY <1>1, <1>4 DEF Key
    <2>4. Callback[job'[w].m.id] \in RowsOf(db', hub, topic)
        BY <1>4, <2>2, <2>3 DEF RowsOf, Key, Verified
    <2> QED  BY <2>2, <2>3, <2>4 DEF ServedOrAnswering
<1> QED  BY <1>1, <1>2, <1>3, <1>4, RowGoes DEF VerifiedTooLate, Verified

\* A hub ends a subscription when its row is gone, or its lease has run out.
LEMMA EndedAreGone ==
    ASSUME CInv, KInv, CallbackRoundTrips, [ConcurrentNext]_allvars,
           NEW s \in hub_subs, s \notin hub_subs'
    PROVE  s.id \notin Rows(db) \/ LeaseEnds(s)
<1> USE DEF CInv, KInv
<1>1. PICK x : PushGone(x) \/ LeaseEnds(x) \/ (x \in inbox /\ VerifyUnsubscribe(x))
    BY DEF ConcurrentNext, allvars, vars, UserStep, Subscribe, Unsubscribe, Check, WorkerStep,
           Hasten, ReadOld, RemoveAndActivate, VerifyBusy, CommitVerify, Reply, TickStep,
           TickBegin, Renew, RenewBusy, CommitRenewal, QueryNextExpiry, StoreTick, HubStep,
           VerifySubscribeRejected, VerifyUnsubscribeRejected, PollStep, PollPending,
           SendStep, SendRequest, Advance
<1>2. CASE PushGone(x)
    BY <1>2 DEF PushGone, CallbackRoundTrips, ConcurrentTypeOK, TypeOK, HubSub
<1>3. CASE x \in inbox /\ VerifyUnsubscribe(x)
    <2>1. s.id = x.id /\ Callback[x.id] = x.id
        BY <1>3 DEF VerifyUnsubscribe, CallbackRoundTrips, ConcurrentTypeOK, TypeOK, Request
    <2>2. ~subscription_exists(db, x.id, x.topic)
        BY <1>3, <2>1 DEF VerifyUnsubscribe
    <2>3. x.id \in Rows(db) => db[x.id].topic = x.topic
        BY <1>3 DEF KeysInv, SameKey, Key
    <2> QED  BY <2>1, <2>2, <2>3 DEF subscription_exists
<1>4. CASE LeaseEnds(x)
    BY <1>4 DEF LeaseEnds
<1> QED  BY <1>1, <1>2, <1>3, <1>4

\* A worker that answers does nothing else.
LEMMA AnswerGoesOut ==
    ASSUME CInv, [ConcurrentNext]_allvars, NEW w \in Worker, job[w].stage = "reply"
    PROVE  job'[w] = job[w] \/ Reply(w)
<1> SUFFICES ASSUME job'[w] # job[w] PROVE Reply(w)
    OBVIOUS
<1>1. job \in [Worker -> Job] /\ Idle.stage = "idle"
    BY DEF CInv, ConcurrentTypeOK, Idle
<1>2. ~UNCHANGED job
    OBVIOUS
<1>3. ASSUME NEW v \in Worker, NEW k, job' = [job EXCEPT ![v] = k] PROVE v = w
    BY <1>1, <1>3
<1>4. ASSUME NEW v \in Worker, NEW m \in inbox, NEW lease \in Lease, Check(v, m, lease)
      PROVE  FALSE
    BY <1>1, <1>3, <1>4 DEF Check
<1>5. PICK v \in Worker : WorkerStep(v)
    BY <1>2, <1>4
    DEF ConcurrentNext, allvars, UserStep, TickStep, TickBegin, Renew, RenewBusy,
        CommitRenewal, QueryNextExpiry, StoreTick, HubStep, PollStep, SendStep, concurrency
<1>6. v = w
    <2>1. \E k : job' = [job EXCEPT ![v] = k]
        BY <1>5 DEF WorkerStep, Hasten, ReadOld, RemoveAndActivate, VerifyBusy, CommitVerify, Reply
    <2> QED  BY <1>3, <2>1
<1> QED
    BY <1>5, <1>6 DEF WorkerStep, Hasten, ReadOld, RemoveAndActivate, VerifyBusy, CommitVerify

\* An active row is one that its hub holds until the same time, or is about
\* to hold when it gets the answer, unless its lease has run out.
Answering(w, i) ==
    /\ job[w].stage = "reply" /\ Verified(w) = i
    /\ Key(job[w].m) = Key(db[i]) /\ job[w].until = db[i].expires_at

HeldOrAnswered ==
    \A i \in Active(db) :
        \/ db[i].expires_at <= now
        \/ HubHolds(i)
        \/ \E w \in Worker : Answering(w, i)

\* The clock does not go back.
LEMMA ClockAdvances ==
    ASSUME CInv, [ConcurrentNext]_allvars
    PROVE  now \in Nat /\ now' \in Nat /\ now <= now'
<1>1. now \in Nat
    BY ServiceAssumption DEF CInv, ConcurrentTypeOK, TypeOK
<1>2. now' = now \/ now' = now + 1
    BY DEF ConcurrentNext, allvars, vars, UserStep, Subscribe, Unsubscribe, Check, WorkerStep,
           Hasten, ReadOld, RemoveAndActivate, VerifyBusy, CommitVerify, Reply, TickStep,
           TickBegin, Renew, RenewBusy, CommitRenewal, QueryNextExpiry, StoreTick, HubStep,
           VerifySubscribeRejected, VerifyUnsubscribe, VerifyUnsubscribeRejected, PollStep,
           PollPending, SendStep, SendRequest, PushGone, LeaseEnds, Advance
<1> QED  BY <1>1, <1>2

\* A row that is active stays held, as long as the table says the same of it.
LEMMA StaysHeld ==
    ASSUME CInv, KInv, CallbackRoundTrips, HeldOrAnswered, [ConcurrentNext]_allvars,
           NEW i \in Active(db), i \in Active(db'), db'[i] = db[i]
    PROVE  \/ db'[i].expires_at <= now'
           \/ HubHolds(i)'
           \/ \E w \in Worker : Answering(w, i)'
<1> USE DEF CInv
<1>1. now \in Nat /\ now' \in Nat /\ now <= now'
    BY ClockAdvances
<1>2. db[i].expires_at \in Nat /\ i \in Rows(db)
    BY ServiceAssumption DEF ConcurrentTypeOK, TypeOK, Active
<1>3. CASE db[i].expires_at <= now
    BY <1>1, <1>2, <1>3
<1>4. CASE HubHolds(i)
    <2>1. PICK s \in hub_subs : /\ Callback[s.id] = i /\ Key(s) = Key(db[i])
                                /\ s.until = db[i].expires_at
        BY <1>4 DEF HubHolds
    <2>2. s.id = i
        BY <2>1 DEF CallbackRoundTrips, ConcurrentTypeOK, TypeOK, HubSub
    <2>3. CASE s \in hub_subs'
        BY <2>1, <2>3 DEF HubHolds
    <2>4. CASE s \notin hub_subs'
        <3>1. LeaseEnds(s)
            BY <1>2, <2>2, <2>4, EndedAreGone
        <3>2. db[i].expires_at <= now
            BY <2>1, <3>1 DEF LeaseEnds
        <3> QED  BY <1>1, <1>2, <3>2
    <2> QED  BY <2>3, <2>4
<1>5. ASSUME NEW w \in Worker, Answering(w, i)
      PROVE  HubHolds(i)' \/ Answering(w, i)'
    <2>1. CASE job'[w] = job[w]
        BY <1>5, <2>1 DEF Answering, Verified
    <2>2. CASE Reply(w)
        <3> DEFINE s == Subscribed(job[w].m, job[w].until)
        <3>1. s \in hub_subs'
            BY <2>2 DEF Reply
        <3>2. /\ Callback[s.id] = i /\ Key(s) = Key(db'[i])
              /\ s.until = db'[i].expires_at
            BY <1>5 DEF Answering, Verified, Subscribed, Key
        <3> QED  BY <3>1, <3>2 DEF HubHolds
    <2> QED  BY <1>5, <2>1, <2>2, AnswerGoesOut DEF Answering
<1> QED  BY <1>3, <1>4, <1>5 DEF HeldOrAnswered

\* A row becomes active by a commit whose answer follows.
LEMMA HeldOrAnsweredStep ==
    ASSUME CInv, KInv, CallbackRoundTrips, HeldOrAnswered, [ConcurrentNext]_allvars
    PROVE  HeldOrAnswered'
<1> USE DEF CInv, KInv
<1> SUFFICES ASSUME NEW i \in Active(db')
             PROVE  \/ db'[i].expires_at <= now'
                    \/ HubHolds(i)'
                    \/ \E w \in Worker : Answering(w, i)'
    BY DEF HeldOrAnswered
<1>1. CASE i \in Active(db) /\ db'[i] = db[i]
    BY <1>1, StaysHeld
<1>2. CASE ~(i \in Active(db) /\ db'[i] = db[i])
    <2>1. db' # db
        BY <1>2
    <2>2. ASSUME NEW hub \in Hub, NEW topic \in Topic, UserStep(hub, topic) PROVE FALSE
        <3>1. OnlyDeactivates(db, db')
            BY <2>2, SubscribeFacts, UnsubscribeFacts DEF UserStep, ConcurrentTypeOK
        <3> QED  BY <1>2, <3>1 DEF OnlyDeactivates
    <2>3. ~CommitRenewal
        BY <1>2 DEF CommitRenewal, Commit, DraftInv
    <2>4. PICK w \in Worker : CommitVerify(w)
        BY <2>1, <2>2, <2>3, WhoWrites
    <2>5. job[w].stage = "commit" /\ writer = w /\ db' = draft /\ job[w] # Idle
        BY <2>4, JobFacts DEF CommitVerify, Commit, ConcurrentTypeOK
    <2>6. i = Verified(w) /\ draft[i].expires_at = job[w].until
        BY <1>2, <2>5 DEF DraftInv
    <2>7. Key(draft[i]) = Key(job[w].m)
        <3>1. i = job[w].m.id /\ job[w].m \in inbox /\ i \in Rows(draft)
            BY <2>5, <2>6, VerifiedFacts DEF Active
        <3> QED  BY <3>1 DEF DraftKeys
    <2>8. job' = [job EXCEPT ![w] = [job[w] EXCEPT !.stage = "reply"]]
        BY <2>4 DEF CommitVerify
    <2>9. job'[w].stage = "reply" /\ job'[w].m = job[w].m /\ job'[w].until = job[w].until
        BY <2>5, <2>8, JobMoves DEF ConcurrentTypeOK
    <2>10. Answering(w, i)'
        BY <2>5, <2>6, <2>7, <2>9 DEF Answering, Verified
    <2> QED  BY <2>10
<1> QED  BY <1>1, <1>2

\* It holds of every behaviour.
LEMMA HeldOrAnsweredInvariance == CallbackRoundTrips /\ ConcurrentSpec => []HeldOrAnswered
<1>1. ConcurrentInit => HeldOrAnswered
    BY DEF ConcurrentInit, Init, EmptyTable, Active, Rows, HeldOrAnswered
<1>2. CallbackRoundTrips /\ CInv /\ KInv /\ HeldOrAnswered /\ [ConcurrentNext]_allvars
          => HeldOrAnswered'
    BY HeldOrAnsweredStep
<1>3. CallbackRoundTrips => []CallbackRoundTrips
    <2>1. CallbackRoundTrips => CallbackRoundTrips'
        BY DEF CallbackRoundTrips
    <2> QED  BY <2>1, PTL
<1> QED  BY <1>1, <1>2, <1>3, ConcurrentInvariance, KInvariance, PTL DEF ConcurrentSpec

\* An active row that the renewal task is in time for has not run out.
LEMMA InTimeNotExpired ==
    ASSUME CInv, ~RenewalLate, tick = Idle, NEW i \in Active(db) \ missed
    PROVE  db[i].expires_at > now
<1> USE DEF CInv
<1>1. /\ renewer = "running" /\ ~woken /\ ~(sleep <= now)
      /\ now \in Nat /\ sleep \in Nat /\ next_tick \in Nat
      /\ db[i].expires_at \in Margin..I64Max
    BY ServiceAssumption DEF RenewalLate, PollDue, ConcurrentTypeOK, TypeOK
<1>2. sleep <= next_tick /\ Wakeup <= refresh_time(db[i].expires_at)
    BY <1>1 DEF CoverInv, Covers
<1>3. Wakeup = sleep
    BY <1>1, <1>2 DEF Wakeup, Earlier
<1>4. refresh_time(db[i].expires_at) = db[i].expires_at - Margin
    BY <1>1, ServiceAssumption DEF refresh_time
<1> QED  BY <1>1, <1>2, <1>3, <1>4, ServiceAssumption

\* The end of a lease leaves the key served if the table calls a row of it
\* active that the renewal task is in time for.
LEMMA LapseUnrenewed ==
    ASSUME CInv, KInv, CallbackRoundTrips, HeldOrAnswered, [ConcurrentNext]_allvars,
           NEW s \in hub_subs, LeaseEnds(s),
           NEW hub \in Hub, NEW topic \in Topic, ~ServedOrAnswering(hub, topic)'
    PROVE  LapsesOnThreads(hub, topic)
<1> USE DEF CInv
<1> SUFFICES ASSUME ~RenewalLate, tick = Idle,
                    NEW i \in RowsOf(db, hub, topic) \cap Active(db), i \notin missed
             PROVE  FALSE
    BY DEF LapsesOnThreads
<1>1. s.until <= now /\ hub_subs' = hub_subs \ {s} /\ db' = db /\ s \notin hub_subs'
    BY DEF LeaseEnds
<1>2. db[i].expires_at > now /\ now \in Nat /\ db[i].expires_at \in Nat
    BY InTimeNotExpired, ServiceAssumption DEF ConcurrentTypeOK, TypeOK
<1>3. i \in Rows(db) /\ db[i].hub = hub /\ db[i].topic = topic
    BY DEF RowsOf
<1>4. CASE HubHolds(i)
    <2>1. PICK r \in hub_subs : /\ Callback[r.id] = i /\ Key(r) = Key(db[i])
                                /\ r.until = db[i].expires_at
        BY <1>4 DEF HubHolds
    <2>2. r # s
        BY <1>1, <1>2, <2>1
    <2>3. r.hub = hub /\ r.topic = topic
        BY <1>3, <2>1 DEF Key
    <2> QED  BY <1>1, <2>1, <2>2, <2>3 DEF ServedOrAnswering, Served
<1>5. ASSUME NEW w \in Worker, Answering(w, i) PROVE FALSE
    <2>1. job'[w] = job[w]
        BY <1>1, <1>5, AnswerGoesOut DEF Answering, Reply
    <2>2. job[w].m.hub = hub /\ job[w].m.topic = topic
        BY <1>3, <1>5 DEF Answering, Key
    <2> QED  BY <1>1, <1>5, <2>1, <2>2 DEF ServedOrAnswering, Answering, Verified
<1> QED  BY <1>2, <1>4, <1>5 DEF HeldOrAnswered

\* A key that is served, or about to be, is so after any step but three.
LEMMA ServedOrAnsweringStep ==
    ASSUME CInv, KInv, CallbackRoundTrips, [ConcurrentNext]_allvars,
           NEW hub \in Hub, NEW topic \in Topic,
           HeldOrAnswered,
           ServedOrAnswering(hub, topic), ~ServedOrAnswering(hub, topic)'
    PROVE  \/ UserStep(hub, topic)
           \/ \E w \in Worker : VerifiedTooLate(w)
           \/ LapsesOnThreads(hub, topic)
<1> USE DEF CInv, KInv
<1>1. CASE Served(hub, topic)
    <2>1. PICK s \in hub_subs : /\ s.hub = hub /\ s.topic = topic
                                /\ Callback[s.id] \in RowsOf(db, hub, topic)
        BY <1>1 DEF Served
    <2>2. Callback[s.id] = s.id
        BY DEF CallbackRoundTrips, ConcurrentTypeOK, TypeOK, HubSub
    <2>3. CASE s \in hub_subs'
        <3>1. Callback[s.id] \notin RowsOf(db', hub, topic)
            BY <2>1, <2>3 DEF ServedOrAnswering, Served
        <3> QED  BY <2>1, <3>1, RowGoesAnswered
    <2>4. CASE s \notin hub_subs'
        <3>1. LeaseEnds(s)
            BY <2>1, <2>2, <2>4, EndedAreGone DEF RowsOf
        <3> QED  BY <3>1, LapseUnrenewed
    <2> QED  BY <2>3, <2>4
<1>2. CASE ~Served(hub, topic)
    <2>1. PICK w \in Worker : /\ job[w].stage = "reply"
                              /\ job[w].m.hub = hub /\ job[w].m.topic = topic
                              /\ Callback[job[w].m.id] \in RowsOf(db, hub, topic)
        BY <1>2 DEF ServedOrAnswering
    <2>2. CASE Reply(w)
        <3> DEFINE s == Subscribed(job[w].m, job[w].until)
        <3>1. s \in hub_subs' /\ db' = db
            BY <2>2 DEF Reply
        <3>2. s.hub = hub /\ s.topic = topic /\ Callback[s.id] \in RowsOf(db', hub, topic)
            BY <2>1, <3>1 DEF Subscribed
        <3>3. Served(hub, topic)'
            BY <3>1, <3>2 DEF Served
        <3> QED  BY <3>3 DEF ServedOrAnswering
    <2>3. CASE job'[w] = job[w]
        <3>1. Callback[job[w].m.id] \notin RowsOf(db', hub, topic)
            BY <2>1, <2>3 DEF ServedOrAnswering
        <3> QED  BY <2>1, <3>1, RowGoesAnswered
    <2> QED  BY <2>1, <2>2, <2>3, AnswerGoesOut
<1> QED  BY <1>1, <1>2

\* Renewal is seamless on threads, too: a served key stays served, with the
\* answer to the hub on its way at the latest, until the user ends it, a
\* verification that comes too late takes the row of another with it, or
\* its lease runs out at the hub while the renewal task is late, at work, or
\* has missed the row.
THEOREM KeysStayServedOrAnswered ==
    CallbackRoundTrips /\ ConcurrentSpec => StaysServedOrAnswered
<1>1. CallbackRoundTrips /\ CInv /\ KInv /\ HeldOrAnswered /\ [ConcurrentNext]_allvars =>
        [\A hub \in Hub, topic \in Topic :
            ServedOrAnswering(hub, topic) /\ ~ServedOrAnswering(hub, topic)'
                => \/ UserStep(hub, topic)
                   \/ \E w \in Worker : VerifiedTooLate(w)
                   \/ LapsesOnThreads(hub, topic)]_allvars
    BY ServedOrAnsweringStep
<1>2. CallbackRoundTrips => []CallbackRoundTrips
    <2>1. CallbackRoundTrips => CallbackRoundTrips'
        BY DEF CallbackRoundTrips
    <2> QED  BY <2>1, PTL
<1> QED
    BY <1>1, <1>2, ConcurrentInvariance, KInvariance, HeldOrAnsweredInvariance, PTL
    DEF ConcurrentSpec, StaysServedOrAnswered
=============================================================================
