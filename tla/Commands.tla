------------------------------- MODULE Commands -------------------------------
(***************************************************************************)
(* The commands `subscribe` and `unsubscribe` of the example               *)
(* (src/example/src/cmd), one of them from its start to its end, with the  *)
(* functions of src/src/hub.rs that they call.                             *)
(*                                                                         *)
(* They share the table with a server, which answers a hub's question      *)
(* about an unsubscription from what is committed.  The requests of        *)
(* `unsubscribe` are tasks of a multi-threaded runtime: they run from the  *)
(* moment they are spawned, inside the transaction, and end with main.     *)
(***************************************************************************)
EXTENDS SubscriptionStore, Feed

CONSTANTS
    NotUri,     \* hubs that are not URIs
    Responses   \* what a topic URL answers: [ok, media, document]

\* The feed in a response.  A media type that is missing or unknown is taken
\* for XML.
read_feed(response) ==
    LET known == IF response.media = Absent THEN Absent ELSE from_str(response.media)
    IN  parse(IF known = Absent THEN "Xml" ELSE known, response.document)

\* The links of a feed are strings, and so are topics and hubs.
ASSUME CommandsAssumption ==
    /\ NotUri \subseteq Hub
    /\ Absent \notin Hub
    /\ \A response \in Responses :
          response.ok /\ read_feed(response) # Absent =>
              /\ take_meta(read_feed(response)).hubs \in Seq(Hub)
              /\ take_meta(read_feed(response)).topic \in Topic \cup {Absent}

VARIABLES
    command,   \* "subscribe" or "unsubscribe"
    opt,       \* its arguments: [hub, topic, callback], whether the last has a path
    step,      \* where main is
    db, draft, \* the table as committed, and in main's transaction
    topic,     \* the topic of `subscribe`
    todo,      \* hubs to subscribe at, in order
    ids,       \* ids to unsubscribe from
    tasks,     \* ids whose requests have been spawned and not been sent
    failed,    \* a task has ended with an error
    asked,     \* ids whose request has reached the hub
    verifying, \* ids about which the hub will ask back
    ended,     \* ids whose subscription the hub has ended
    found,     \* history: the hubs that `subscribe` is to ask
    before     \* history: the table at the start

command_vars == <<command, opt, step, db, draft, topic, todo, ids, tasks, failed,
                  asked, verifying, ended, found, before>>

\* A table with room for the subscriptions of a command.
CommandsInit ==
    /\ command \in {"subscribe", "unsubscribe"}
    /\ opt \in [hub : Hub \cup {Absent}, topic : Topic, callback : BOOLEAN]
    /\ step = "start"
    /\ db \in [Id -> [hub : Hub, topic : Topic, expires_at : {Null}] \cup {NoRow}]
    /\ command = "subscribe" => db = EmptyTable
    /\ draft = db /\ before = db
    /\ topic = opt.topic /\ todo = <<>> /\ found = {}
    /\ ids = {} /\ tasks = {} /\ failed = FALSE
    /\ asked = {} /\ verifying = {} /\ ended = {}

Idle == <<db, draft, ids, tasks, failed, asked, verifying, ended, before>>

\* main returns an error at a `?`, at any point where one may occur.
Fails == step' = "error"

-----------------------------------------------------------------------------
(* subscribe                                                               *)

SubscribeAtHub ==
    /\ command = "subscribe" /\ step = "start"
    /\ opt.hub # Absent
    /\ todo' = <<opt.hub>> /\ found' = {opt.hub}
    /\ step' = "loop"
    /\ UNCHANGED <<command, opt, topic, Idle>>

\* No URI, no answer, another status than OK, or half a body.
DiscoverFails ==
    /\ command = "subscribe" /\ step = "start"
    /\ opt.hub = Absent
    /\ Fails
    /\ UNCHANGED <<command, opt, topic, todo, found, Idle>>

\* The document is parsed; what is not a feed is a panic.
Discover(response) ==
    /\ command = "subscribe" /\ step = "start"
    /\ opt.hub = Absent
    /\ response.ok
    /\ LET feed == read_feed(response)
       IN  IF feed = Absent
           THEN step' = "panicked" /\ UNCHANGED <<topic, todo, found>>
           ELSE /\ topic' = IF take_meta(feed).topic = Absent
                            THEN opt.topic ELSE take_meta(feed).topic
                /\ todo' = take_meta(feed).hubs
                /\ found' = {todo'[k] : k \in DOMAIN todo'}
                /\ step' = "loop"
    /\ UNCHANGED <<command, opt, Idle>>

\* The request cannot be built: make_callback needs a path in the callback,
\* and Request::builder a URI for the hub.
Panics(hub) == ~opt.callback \/ hub \in NotUri

\* hub::subscribe: the row, then the request.
CreateRow ==
    /\ command = "subscribe" /\ step = "loop"
    /\ todo # <<>>
    /\ \E i \in Id \ Rows(db) :
          /\ db' = create_subscriptions(db, [j \in {i} |-> [hub   |-> Head(todo),
                                                            topic |-> topic]])
          /\ ids' = {i}
    /\ step' = IF Panics(Head(todo)) THEN "panicked" ELSE "asking"
    /\ UNCHANGED <<command, opt, draft, topic, todo, tasks, failed, asked, verifying,
                   ended, found, before>>

CreateRowFails ==
    /\ command = "subscribe" /\ step = "loop"
    /\ todo # <<>>
    /\ Fails
    /\ UNCHANGED <<command, opt, topic, todo, found, Idle>>

\* Faulty variant: an error is logged, and the next hub asked.
AwaitRequest_GoesOn ==
    /\ command = "subscribe" /\ step = "asking"
    /\ asked' \in {asked, asked \cup ids}
    /\ todo' = Tail(todo) /\ ids' = {} /\ step' = "loop"
    /\ UNCHANGED <<command, opt, db, draft, topic, tasks, failed, verifying, ended,
                   found, before>>

\* The response, of whatever status, or an error, before or after the hub
\* has got the request.
AwaitRequest ==
    /\ command = "subscribe" /\ step = "asking"
    /\ \/ /\ asked' = asked \cup ids
          /\ todo' = Tail(todo) /\ ids' = {} /\ step' = "loop"
       \/ /\ asked' \in {asked, asked \cup ids}
          /\ Fails
          /\ UNCHANGED <<todo, ids>>
    /\ UNCHANGED <<command, opt, db, draft, topic, tasks, failed, verifying, ended,
                   found, before>>

SubscribeDone ==
    /\ command = "subscribe" /\ step = "loop"
    /\ todo = <<>>
    /\ step' = "ok"
    /\ UNCHANGED <<command, opt, topic, todo, found, Idle>>

-----------------------------------------------------------------------------
(* unsubscribe                                                             *)

\* The rows that the arguments select in a table.
Selected(t) ==
    {i \in Rows(t) : /\ t[i].topic = opt.topic
                     /\ opt.hub # Absent => t[i].hub = opt.hub}

\* The transaction begins with a query.
BeginUnsubscribe ==
    /\ command = "unsubscribe" /\ step = "start"
    /\ ids' = Selected(db)
    /\ draft' = db
    /\ step' = "transaction"
    /\ UNCHANGED <<command, opt, db, topic, todo, tasks, failed, asked, verifying,
                   ended, found, before>>

\* hub::unsubscribe of one of them, and its task.  A panic rolls back.
DeleteRow(i) ==
    /\ command = "unsubscribe" /\ step = "transaction"
    /\ i \in ids
    /\ ids' = ids \ {i}
    /\ draft' = delete_subscriptions(draft, {i})
    /\ IF Panics(draft[i].hub)
       THEN step' = "panicked" /\ tasks' = {}
       ELSE tasks' = tasks \cup {i} /\ UNCHANGED step
    /\ UNCHANGED <<command, opt, db, topic, todo, failed, asked, verifying, ended,
                   found, before>>

\* Faulty variant: an error commits what has been done.
TransactionFails_Commits ==
    /\ command = "unsubscribe" /\ step \in {"start", "transaction"}
    /\ Fails
    /\ db' = draft
    /\ tasks' = {}
    /\ UNCHANGED <<command, opt, draft, topic, todo, ids, failed, asked, verifying,
                   ended, found, before>>

\* Any statement of the transaction, or its commit: nothing is deleted.
\* What the tasks have done by now is done.
TransactionFails ==
    /\ command = "unsubscribe" /\ step \in {"start", "transaction"}
    /\ Fails
    /\ tasks' = {}
    /\ UNCHANGED <<command, opt, db, draft, topic, todo, ids, failed, asked, verifying,
                   ended, found, before>>

Commit ==
    /\ command = "unsubscribe" /\ step = "transaction"
    /\ ids = {}
    /\ db' = draft
    /\ step' = "waiting"
    /\ UNCHANGED <<command, opt, draft, topic, todo, ids, tasks, failed, asked,
                   verifying, ended, found, before>>

\* A task of the runtime; the hub gets the request, or an error occurs, or both.
SendUnsubscribe(i) ==
    /\ command = "unsubscribe" /\ step \in {"transaction", "waiting"}
    /\ i \in tasks
    /\ tasks' = tasks \ {i}
    /\ \/ asked' = asked \cup {i} /\ verifying' = verifying \cup {i} /\ UNCHANGED failed
       \/ asked' = asked \cup {i} /\ verifying' = verifying \cup {i} /\ failed' = TRUE
       \/ failed' = TRUE /\ UNCHANGED <<asked, verifying>>
    /\ UNCHANGED <<command, opt, step, db, draft, topic, todo, ids, ended, found, before>>

\* try_for_each: the first error ends main, and with it the other tasks.
TasksDone ==
    /\ command = "unsubscribe" /\ step = "waiting"
    /\ tasks = {} \/ failed
    /\ step' = IF failed THEN "error" ELSE "ok"
    /\ tasks' = {}
    /\ UNCHANGED <<command, opt, db, draft, topic, todo, ids, failed, asked, verifying,
                   ended, found, before>>

\* A hub asks the server, which looks at the committed table, and ends the
\* subscription if it is told so.
VerifyUnsubscription(i) ==
    /\ i \in verifying
    /\ verifying' = verifying \ {i}
    /\ ended' = IF subscription_exists(db, i, opt.topic) THEN ended ELSE ended \cup {i}
    /\ UNCHANGED <<command, opt, step, db, draft, topic, todo, ids, tasks, failed, asked,
                   found, before>>

-----------------------------------------------------------------------------
CommandsNext ==
    \/ SubscribeAtHub \/ DiscoverFails \/ CreateRow \/ CreateRowFails \/ AwaitRequest
    \/ \E response \in Responses : Discover(response)
    \/ SubscribeDone
    \/ BeginUnsubscribe \/ TransactionFails \/ Commit \/ TasksDone
    \/ \E i \in Id : DeleteRow(i) \/ SendUnsubscribe(i) \/ VerifyUnsubscription(i)

CommandsSpec == CommandsInit /\ [][CommandsNext]_command_vars

-----------------------------------------------------------------------------
(* Properties                                                              *)

\* cmd/subscribe.rs, cmd/unsubscribe.rs: a command that ends without an error
\* has told every hub that it had to: of a row for the topic that the feed
\* itself names, or that each of the rows is gone.
AskedOnSuccess ==
    step = "ok" =>
        IF command = "subscribe"
        THEN \A hub \in found : RowsOf(db, hub, topic) \cap asked # {}
        ELSE Selected(before) \subseteq asked /\ Selected(db) = {}

\* unsubscribe.rs:27: one that ends with an error leaves behind at most one
\* row that its hub has not heard of, or else all of the rows it was to
\* remove, with hubs that were asked but are refused.
LeftoversBounded ==
    IF command = "subscribe"
    THEN \A i, j \in Rows(db) \ asked : i = j
    ELSE /\ db \in {before, delete_subscriptions(before, Selected(before))}
         /\ ended \cap Rows(db) = {}
         /\ asked \cap Rows(db) # {} => step \in {"transaction", "error", "panicked"}

=============================================================================
