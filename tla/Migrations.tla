------------------------------ MODULE Migrations ------------------------------
(***************************************************************************)
(* The migrations of the database (src/migrations), up and down, one       *)
(* action each: diesel runs each in a transaction of its own.              *)
(*                                                                         *)
(* Between them the program of that version writes: today's at the last    *)
(* version, earlier releases (external: not in the repository) before.     *)
(* What is kept of a row is its id and when its lease ends; hub, topic and *)
(* secret are copied with it.                                              *)
(*                                                                         *)
(* Nothing in the repository says whether SQLite enforces foreign keys:    *)
(* that is a default of the library diesel was built with.  If it does, a  *)
(* DROP TABLE deletes the rows first, and the deletion cascades.           *)
(***************************************************************************)
EXTENDS Integers, FiniteSets, Functions

CONSTANTS
    Subscription,  \* ids
    Expiry,        \* values of expires_at
    NoExpiry       \* its NULL

ASSUME MigrationAssumption == NoExpiry \notin Expiry

VARIABLES
    version,       \* migrations applied
    enforced,      \* foreign keys are enforced
    subscriptions, \* id -> expires_at (NoExpiry as long as there is no column)
    active,        \* active_subscriptions: id -> expires_at
    pending,       \* pending_subscriptions: ids
    renewing       \* renewing_subscriptions: <<old, new>>

migration_vars == <<version, enforced, subscriptions, active, pending, renewing>>

LastVersion == 8

Empty == [i \in {} |-> NoExpiry]

MigrationInit ==
    /\ version = 0
    /\ enforced \in BOOLEAN
    /\ subscriptions = Empty /\ active = Empty
    /\ pending = {} /\ renewing = {}

\* What DROP TABLE subscriptions leaves of a table that refers to it.
Cascade(table) == IF enforced THEN Restrict(table, {}) ELSE table

-----------------------------------------------------------------------------
(* Up                                                                      *)

\* The tables are created one by one: nothing to move.
create_tables_up ==
    /\ version < 4
    /\ version' = version + 1
    /\ UNCHANGED <<enforced, subscriptions, active, pending, renewing>>

\* Each of the columns becomes unique; the copy fails if one is not.
alter_renewing_primary_key_up ==
    /\ version = 4
    /\ \A p, q \in renewing : (p[1] = q[1] \/ p[2] = q[2]) => p = q
    /\ version' = 5
    /\ UNCHANGED <<enforced, subscriptions, active, pending, renewing>>

\* renewing_subscriptions is copied, and refers to subscriptions instead.
drop_pending_up ==
    /\ version = 5
    /\ version' = 6
    /\ pending' = {}
    /\ UNCHANGED <<enforced, subscriptions, active, renewing>>

drop_renewing_up ==
    /\ version = 6
    /\ version' = 7
    /\ renewing' = {}
    /\ UNCHANGED <<enforced, subscriptions, active, pending>>

\* Faulty variant: an inner join.
drop_active_up_InnerJoin ==
    /\ version = 7
    /\ version' = 8
    /\ subscriptions' = [i \in DOMAIN subscriptions \cap DOMAIN active |-> active[i]]
    /\ active' = Empty
    /\ UNCHANGED <<enforced, pending, renewing>>

\* The left outer join of both tables; then the old ones go.
drop_active_up ==
    /\ version = 7
    /\ version' = 8
    /\ subscriptions' = [i \in DOMAIN subscriptions |->
                            IF i \in DOMAIN active THEN active[i] ELSE NoExpiry]
    /\ active' = Empty
    /\ UNCHANGED <<enforced, pending, renewing>>

-----------------------------------------------------------------------------
(* Down                                                                    *)

\* The leases move to a table of their own, which refers to subscriptions;
\* DROP TABLE subscriptions comes after that.
drop_active_down ==
    /\ version = 8
    /\ version' = 7
    /\ subscriptions' = [i \in DOMAIN subscriptions |-> NoExpiry]
    /\ active' = Cascade(Restrict(subscriptions,
                            {i \in DOMAIN subscriptions : subscriptions[i] # NoExpiry}))
    /\ UNCHANGED <<enforced, pending, renewing>>

drop_renewing_down ==
    /\ version = 7
    /\ version' = 6
    /\ UNCHANGED <<enforced, subscriptions, active, pending, renewing>>

\* Faulty variant: the new table of pending subscriptions stays empty.
drop_pending_down_Empty ==
    /\ version = 6
    /\ version' = 5
    /\ UNCHANGED <<enforced, subscriptions, active, pending, renewing>>

\* The new subscriptions of renewals are pending; others are forgotten.
drop_pending_down ==
    /\ version = 6
    /\ version' = 5
    /\ pending' = {p[2] : p \in renewing}
    /\ UNCHANGED <<enforced, subscriptions, active, renewing>>

alter_renewing_primary_key_down ==
    /\ version = 5
    /\ version' = 4
    /\ UNCHANGED <<enforced, subscriptions, active, pending, renewing>>

\* The tables are dropped, the last one first.
create_tables_down ==
    /\ version \in 1..4
    /\ version' = version - 1
    /\ renewing' = {}
    /\ pending' = IF version <= 3 THEN {} ELSE pending
    /\ active' = IF version <= 2 THEN Empty ELSE active
    /\ subscriptions' = IF version = 1 THEN Empty ELSE subscriptions
    /\ UNCHANGED enforced

-----------------------------------------------------------------------------
(* The program of a version                                                *)

Insert(i) ==
    /\ version >= 1
    /\ i \notin DOMAIN subscriptions
    /\ subscriptions' = [j \in DOMAIN subscriptions \cup {i} |->
                            IF j = i THEN NoExpiry ELSE subscriptions[j]]
    /\ pending' = IF version \in 3..5 THEN pending \cup {i} ELSE pending
    /\ UNCHANGED <<version, enforced, active, renewing>>

\* A verification; a renewal ends with it.
Activate(i, e) ==
    /\ version >= 2
    /\ i \in DOMAIN subscriptions
    /\ IF version = LastVersion
       THEN subscriptions' = [subscriptions EXCEPT ![i] = e] /\ UNCHANGED active
       ELSE /\ active' = [j \in DOMAIN active \cup {i} |-> IF j = i THEN e ELSE active[j]]
            /\ UNCHANGED subscriptions
    /\ pending' = pending \ {i}
    /\ renewing' = {p \in renewing : p[2] # i}
    /\ UNCHANGED <<version, enforced>>

Renew(old, new) ==
    /\ version \in 4..6
    /\ old \in DOMAIN active
    /\ new \in (IF version < 6 THEN pending ELSE DOMAIN subscriptions \ DOMAIN active)
    /\ version > 4 => \A p \in renewing : p[1] # old /\ p[2] # new
    /\ renewing' = renewing \cup {<<old, new>>}
    /\ UNCHANGED <<version, enforced, subscriptions, active, pending>>

\* Today's program: a lease is over, or a subscription is removed.
Deactivate(i) ==
    /\ version = LastVersion
    /\ i \in DOMAIN subscriptions
    /\ subscriptions' = [subscriptions EXCEPT ![i] = NoExpiry]
    /\ UNCHANGED <<version, enforced, active, pending, renewing>>

Delete(i) ==
    /\ version = LastVersion
    /\ i \in DOMAIN subscriptions
    /\ subscriptions' = Restrict(subscriptions, DOMAIN subscriptions \ {i})
    /\ UNCHANGED <<version, enforced, active, pending, renewing>>

-----------------------------------------------------------------------------
MigrationNext ==
    \/ create_tables_up \/ alter_renewing_primary_key_up \/ drop_pending_up
    \/ drop_renewing_up \/ drop_active_up
    \/ drop_active_down \/ drop_renewing_down \/ drop_pending_down
    \/ alter_renewing_primary_key_down \/ create_tables_down
    \/ \E i \in Subscription :
          \/ Insert(i) \/ Deactivate(i) \/ Delete(i)
          \/ \E e \in Expiry : Activate(i, e)
          \/ \E j \in Subscription : Renew(i, j)

MigrationSpec == MigrationInit /\ [][MigrationNext]_migration_vars

-----------------------------------------------------------------------------
(* Properties                                                              *)

\* Which subscriptions there are, and when their leases end.
Leases == [i \in DOMAIN subscriptions |->
              IF i \in DOMAIN active THEN active[i] ELSE subscriptions[i]]

\* migrations/*: a migration keeps every subscription and its lease, up, and
\* down as long as there is a place for them; but with foreign keys enforced
\* the way back from the last version loses every lease, and only the leases:
\* each subscription is still there, and inactive.
LeasesSurvive ==
    [][version' # version /\ (version' > version \/ version' >= 2)
          => Leases' = IF enforced /\ version = LastVersion
                       THEN [i \in DOMAIN Leases |-> NoExpiry]
                       ELSE Leases]_migration_vars

\* The constraints of the tables at each version: every row that a FOREIGN
\* KEY names exists, also where foreign keys are not enforced.
ReferencesHold ==
    /\ DOMAIN active \subseteq DOMAIN subscriptions
    /\ pending \subseteq DOMAIN subscriptions
    /\ \A p \in renewing :
          /\ p[1] \in DOMAIN active
          /\ p[2] \in (IF version < 6 THEN pending ELSE DOMAIN subscriptions)

=============================================================================
