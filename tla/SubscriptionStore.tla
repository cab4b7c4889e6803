------------------------- MODULE SubscriptionStore -------------------------
(***************************************************************************)
(* The `subscriptions` table (src/src/schema.rs) and the operations of the *)
(* trait ConnectionRef (src/src/db.rs) as src/src/db/diesel2.rs implements *)
(* them; src/src/db/diesel1.rs issues the same statements.                 *)
(*                                                                         *)
(* A table is a function on every id: a row, or NoRow where no row has the *)
(* primary key.  Each operator is one SQL statement; what is atomic is     *)
(* decided by the module that calls them.  The secret column is left out:  *)
(* it is written once, with the row, and only the content check reads it.  *)
(***************************************************************************)
EXTENDS Integers, FiniteSets

CONSTANTS
    Id,     \* the values of the primary key (u64, stored as i64)
    Hub,    \* hub URLs
    Topic,  \* topic URLs
    Null,   \* the SQL NULL of expires_at: the subscription is inactive
    NoRow   \* no row has this id

Row == [hub : Hub, topic : Topic, expires_at : Nat \cup {Null}]

ASSUME StoreAssumption == Null \notin Nat /\ NoRow \notin Row

Table == [Id -> Row \cup {NoRow}]

EmptyTable == [i \in Id |-> NoRow]

Rows(t) == {i \in Id : t[i] # NoRow}

Active(t) == {i \in Rows(t) : t[i].expires_at # Null}

\* The rows of one hub and topic: a key of the user's point of view.
RowsOf(t, hub, topic) ==
    {i \in Rows(t) : t[i].hub = hub /\ t[i].topic = topic}

-----------------------------------------------------------------------------
(* Queries                                                                 *)

\* Faulty variant: no look at the table at all.
subscription_exists_Unchecked(t, id, topic) == FALSE

subscription_exists(t, id, topic) == id \in Rows(t) /\ t[id].topic = topic

\* SQL's `expires_at <= before` is not true of NULL.
get_subscriptions_expire_before(t, before) ==
    {i \in Active(t) : t[i].expires_at <= before}

\* The Option<String> of the code as a set of at most one hub.
get_hub_of_inactive_subscription(t, id, topic) ==
    {h \in Hub : /\ id \in Rows(t)
                 /\ t[id].topic = topic
                 /\ t[id].expires_at = Null
                 /\ t[id].hub = h}

\* Faulty variants: only the inactive rows of the key; the row of the id as
\* well; the rows of the topic at every hub.
get_old_subscriptions_Inactive(t, id, hub, topic) ==
    RowsOf(t, hub, topic) \ (Active(t) \cup {id})

get_old_subscriptions_WithSelf(t, id, hub, topic) == RowsOf(t, hub, topic)

get_old_subscriptions_AnyHub(t, id, hub, topic) ==
    {i \in Rows(t) : t[i].topic = topic} \ {id}

get_old_subscriptions(t, id, hub, topic) == RowsOf(t, hub, topic) \ {id}

get_next_expiry(t) ==
    LET E == {t[i].expires_at : i \in Active(t)}
    IN  IF E = {} THEN Null ELSE CHOOSE e \in E : \A f \in E : e <= f

-----------------------------------------------------------------------------
(* Updates                                                                 *)

\* One INSERT for each id in the domain of `new`, which maps the ids the
\* code picks to the key it inserts under them.  The retry on a unique
\* violation ends with an id that has no row: the caller's guard.
create_subscriptions(t, new) ==
    [i \in Id |-> IF i \in DOMAIN new
                  THEN [hub |-> new[i].hub, topic |-> new[i].topic,
                        expires_at |-> Null]
                  ELSE t[i]]

\* An UPDATE of an id without a row changes nothing and is not an error.
activate_subscription(t, id, expires_at) ==
    [i \in Id |-> IF i = id /\ i \in Rows(t)
                  THEN [hub |-> t[i].hub, topic |-> t[i].topic,
                        expires_at |-> expires_at]
                  ELSE t[i]]

\* Faulty variant: the rows go at once.
deactivate_subscriptions_expire_before_Deletes(t, before) ==
    [i \in Id |-> IF i \in get_subscriptions_expire_before(t, before)
                  THEN NoRow ELSE t[i]]

deactivate_subscriptions_expire_before(t, before) ==
    [i \in Id |-> IF i \in get_subscriptions_expire_before(t, before)
                  THEN [hub |-> t[i].hub, topic |-> t[i].topic,
                        expires_at |-> Null]
                  ELSE t[i]]

delete_subscriptions(t, ids) == [i \in Id |-> IF i \in ids THEN NoRow ELSE t[i]]
=============================================================================
