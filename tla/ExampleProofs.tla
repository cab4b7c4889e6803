----------------------------- MODULE ExampleProofs -----------------------------
(***************************************************************************)
(* Proofs about the example: its commands, for every set of ids, hubs,     *)
(* topics and responses and every table that a command may meet; its       *)
(* migrations, for every set of ids and every set of expiries and of NULL; *)
(* and ExampleProgram, of which what is proved of the stream               *)
(* (AcceptLoopProofs), the commands and the migrations by themselves holds *)
(* whichever of them a process carries out.                                *)
(***************************************************************************)
EXTENDS ExampleProgram, AcceptLoopProofs

-----------------------------------------------------------------------------
(* Commands: subscribe                                                     *)

\* A row is made when all rows before it are known to their hubs; from then
\* on it is the one in ids, until main goes on to the next hub or ends.
SubscribeInv ==
    command = "subscribe" =>
        /\ step \notin {"transaction", "waiting"}
        /\ verifying = {}
        /\ step \in {"start", "loop", "ok"} => Rows(db) \subseteq asked
        /\ \A i, j \in Rows(db) \ asked : i = j
        /\ step = "asking" => Rows(db) \ asked \subseteq ids

\* Every step keeps it.
LEMMA SubscribeStep ==
    ASSUME SubscribeInv, [CommandsNext]_command_vars
    PROVE  SubscribeInv'
<1>1. CASE SubscribeAtHub
    BY <1>1 DEF SubscribeAtHub, Idle, SubscribeInv, Rows
<1>2. CASE DiscoverFails
    BY <1>2 DEF DiscoverFails, Idle, Fails, SubscribeInv, Rows
<1>3. CASE CreateRow
    BY <1>3 DEF CreateRow, create_subscriptions, SubscribeInv, Rows
<1>4. CASE CreateRowFails
    BY <1>4 DEF CreateRowFails, Idle, Fails, SubscribeInv, Rows
<1>5. CASE AwaitRequest
    BY <1>5 DEF AwaitRequest, Fails, SubscribeInv, Rows
<1>6. ASSUME NEW response \in Responses, Discover(response) PROVE  SubscribeInv'
    BY <1>6 DEF Discover, Idle, SubscribeInv, Rows
<1>7. CASE SubscribeDone
    BY <1>7 DEF SubscribeDone, Idle, SubscribeInv, Rows
<1>8. CASE BeginUnsubscribe
    BY <1>8 DEF BeginUnsubscribe, SubscribeInv, Rows
<1>9. CASE TransactionFails
    BY <1>9 DEF TransactionFails, Fails, SubscribeInv, Rows
<1>10. CASE Commit
    BY <1>10 DEF Commit, SubscribeInv, Rows
<1>11. CASE TasksDone
    BY <1>11 DEF TasksDone, SubscribeInv, Rows
<1>12. ASSUME NEW i \in Id, DeleteRow(i) PROVE  SubscribeInv'
    BY <1>12 DEF DeleteRow, delete_subscriptions, SubscribeInv, Rows
<1>13. ASSUME NEW i \in Id, SendUnsubscribe(i) PROVE  SubscribeInv'
    BY <1>13 DEF SendUnsubscribe, SubscribeInv, Rows
<1>14. ASSUME NEW i \in Id, VerifyUnsubscription(i) PROVE  SubscribeInv'
    BY <1>14 DEF VerifyUnsubscription, subscription_exists, SubscribeInv, Rows
<1>15. CASE UNCHANGED command_vars
    BY <1>15 DEF command_vars, SubscribeInv, Rows
<1> QED
    BY <1>1, <1>2, <1>3, <1>4, <1>5, <1>6, <1>7, <1>8, <1>9, <1>10, <1>11, <1>12, <1>13, <1>14, <1>15 DEF CommandsNext

-----------------------------------------------------------------------------
(* Commands: unsubscribe                                                   *)

\* The rows that the command is to remove.
Doomed == Selected(before)

\* What has been committed is all or nothing; in the transaction, the rows
\* in ids are those to come.  Only rows of Doomed have tasks and requests.
UnsubscribeInv ==
    command = "unsubscribe" =>
        /\ step \in {"start", "transaction", "waiting", "ok", "error", "panicked"}
        /\ db = before \/ db = delete_subscriptions(before, Doomed)
        /\ step \in {"start", "transaction", "panicked"} => db = before
        /\ step \in {"waiting", "ok"} => db = delete_subscriptions(before, Doomed)
        /\ step = "transaction" =>
              ids \subseteq Doomed /\ draft = delete_subscriptions(before, Doomed \ ids)
        /\ step = "start" => tasks = {} /\ asked = {}
        /\ tasks \cup asked \cup verifying \subseteq Doomed
        /\ ended \cap Rows(db) = {}

\* The table is a function on the ids.
TableInv == before \in [Id -> Row \cup {NoRow}]

\* A deleted row is no row.
LEMMA DeletedRows ==
    ASSUME NEW t, NEW deleted
    PROVE  Rows(delete_subscriptions(t, deleted)) = Rows(t) \ deleted
BY DEF delete_subscriptions, Rows

\* Deleting nothing.
LEMMA DeleteNone ==
    ASSUME NEW t \in [Id -> Row \cup {NoRow}]
    PROVE  delete_subscriptions(t, {}) = t
BY DEF delete_subscriptions

\* Every step keeps the invariant of `unsubscribe`.
LEMMA UnsubscribeStep ==
    ASSUME TableInv, UnsubscribeInv, [CommandsNext]_command_vars
    PROVE  UnsubscribeInv'
<1> SUFFICES ASSUME command' = "unsubscribe" PROVE UnsubscribeInv'
    BY DEF UnsubscribeInv
<1>0. command' = command /\ opt' = opt /\ before' = before
    BY DEF CommandsNext, command_vars, Idle, SubscribeAtHub, DiscoverFails, CreateRow,
           CreateRowFails, AwaitRequest, Discover, SubscribeDone, BeginUnsubscribe,
           TransactionFails, Commit, TasksDone, DeleteRow, SendUnsubscribe,
           VerifyUnsubscription
<1>1. Doomed' = Doomed
    BY <1>0 DEF Doomed, Selected, Rows
<1>2. CASE BeginUnsubscribe
    <2>1. db = before /\ ids' = Doomed /\ draft' = before
        BY <1>0, <1>2 DEF BeginUnsubscribe, UnsubscribeInv, Doomed
    <2>2. Doomed \ ids' = {}
        BY <2>1
    <2>3. draft' = delete_subscriptions(before, Doomed \ ids')
        BY <2>1, <2>2, DeleteNone DEF TableInv
    <2>4. Rows(db)' = Rows(db)
        BY <1>2 DEF BeginUnsubscribe, Rows
    <2>5. delete_subscriptions(before, Doomed \ ids)' = delete_subscriptions(before, Doomed \ ids')
        BY <1>0, <1>1 DEF delete_subscriptions
    <2>6. step' = "transaction" /\ UNCHANGED <<db, tasks, asked, verifying, ended>>
        BY <1>2 DEF BeginUnsubscribe
    <2> QED
        BY <1>0, <1>1, <2>1, <2>3, <2>4, <2>5, <2>6 DEF UnsubscribeInv
<1>3. ASSUME NEW i \in Id, DeleteRow(i) PROVE UnsubscribeInv'
    <2>1. ids \subseteq Doomed /\ draft = delete_subscriptions(before, Doomed \ ids)
        BY <1>0, <1>3 DEF DeleteRow, UnsubscribeInv
    <2>2. Doomed \ ids' = (Doomed \ ids) \cup {i}
        BY <1>3, <2>1 DEF DeleteRow
    <2>3. draft' = delete_subscriptions(before, Doomed \ ids')
        <3>1. delete_subscriptions(delete_subscriptions(before, Doomed \ ids), {i})
                = delete_subscriptions(before, (Doomed \ ids) \cup {i})
            BY DEF delete_subscriptions
        <3>2. draft' = delete_subscriptions(draft, {i})
            BY <1>3 DEF DeleteRow
        <3> QED  BY <2>1, <2>2, <3>1, <3>2
    <2>4. i \in Doomed
        BY <1>3, <2>1 DEF DeleteRow
    <2> QED
        BY <1>0, <1>1, <1>3, <2>1, <2>3, <2>4 DEF DeleteRow, UnsubscribeInv, delete_subscriptions, Rows
<1>4. CASE TransactionFails
    BY <1>0, <1>1, <1>4 DEF TransactionFails, Fails, UnsubscribeInv, delete_subscriptions, Rows
<1>5. CASE Commit
    <2>1. db = before /\ db' = delete_subscriptions(before, Doomed)
        <3>1. Doomed \ ids = Doomed
            BY <1>5 DEF Commit
        <3> QED  BY <1>0, <1>5, <3>1 DEF Commit, UnsubscribeInv
    <2>2. Rows(db') \subseteq Rows(db)
        BY <2>1, DeletedRows
    <2>3. ended' \cap Rows(db') = {}
        BY <1>0, <1>5, <2>2 DEF Commit, UnsubscribeInv
    <2>4. Rows(db)' = Rows(db')
        BY DEF Rows
    <2>5. step' = "waiting" /\ UNCHANGED <<tasks, asked, verifying, ended>>
        BY <1>5 DEF Commit
    <2>6. delete_subscriptions(before, Doomed)' = delete_subscriptions(before, Doomed)
        BY <1>0, <1>1 DEF delete_subscriptions
    <2> QED
        BY <1>0, <1>1, <2>1, <2>3, <2>4, <2>5, <2>6 DEF UnsubscribeInv
<1>6. CASE TasksDone
    BY <1>0, <1>1, <1>6 DEF TasksDone, UnsubscribeInv, delete_subscriptions, Rows
<1>7. ASSUME NEW i \in Id, SendUnsubscribe(i) PROVE UnsubscribeInv'
    BY <1>0, <1>1, <1>7 DEF SendUnsubscribe, UnsubscribeInv, delete_subscriptions, Rows
<1>8. ASSUME NEW i \in Id, VerifyUnsubscription(i) PROVE UnsubscribeInv'
    <2>1. i \in Doomed
        BY <1>0, <1>8 DEF VerifyUnsubscription, UnsubscribeInv
    <2>2. i \in Rows(db) => subscription_exists(db, i, opt.topic)
        BY <1>0, <1>8, <2>1
        DEF UnsubscribeInv, Doomed, Selected, Rows, delete_subscriptions, subscription_exists
    <2>3. ended' \cap Rows(db) = {}
        BY <1>0, <1>8, <2>2 DEF VerifyUnsubscription, UnsubscribeInv
    <2> QED
        BY <1>0, <1>1, <1>8, <2>3 DEF VerifyUnsubscription, UnsubscribeInv, delete_subscriptions, Rows
<1>9. CASE UNCHANGED command_vars
    BY <1>1, <1>9 DEF command_vars, UnsubscribeInv, delete_subscriptions, Rows
<1>10. CASE \/ SubscribeAtHub \/ DiscoverFails \/ CreateRow \/ CreateRowFails
            \/ AwaitRequest \/ SubscribeDone
            \/ \E response \in Responses : Discover(response)
    BY <1>0, <1>10
    DEF SubscribeAtHub, DiscoverFails, CreateRow, CreateRowFails, AwaitRequest, SubscribeDone,
        Discover
<1> QED
    BY <1>2, <1>3, <1>4, <1>5, <1>6, <1>7, <1>8, <1>9, <1>10 DEF CommandsNext

\* The rows at the start are not touched.
LEMMA TableStep ==
    ASSUME TableInv, [CommandsNext]_command_vars
    PROVE  TableInv'
BY DEF TableInv, CommandsNext, command_vars, Idle, SubscribeAtHub, DiscoverFails, CreateRow,
       CreateRowFails, AwaitRequest, Discover, SubscribeDone, BeginUnsubscribe,
       TransactionFails, Commit, TasksDone, DeleteRow, SendUnsubscribe, VerifyUnsubscription

-----------------------------------------------------------------------------
(* Commands: who has been asked                                            *)

\* The hubs that are still to be asked.
HubsToDo == {todo[k] : k \in 1..Len(todo)}

\* The hubs of `subscribe` that have been asked about a row of their own.
HubsDone == {hub \in Hub : RowsOf(db, hub, topic) \cap asked # {}}

\* Each hub is one or the other, and the row in ids is the next one's.
AskedInv ==
    command = "subscribe" =>
        /\ step \in {"start", "loop", "asking", "ok", "error", "panicked"}
        /\ opt.topic \in Topic /\ opt.hub \in Hub \cup {Absent}
        /\ topic \in Topic /\ todo \in Seq(Hub)
        /\ step \in {"loop", "asking", "ok"} => found \subseteq HubsToDo \cup HubsDone
        /\ step = "asking" =>
              todo # <<>> /\ ids \cap RowsOf(db, Head(todo), topic) # {}
        /\ step = "ok" => todo = <<>>

\* Every step keeps it.
LEMMA AskedStep ==
    ASSUME AskedInv, [CommandsNext]_command_vars
    PROVE  AskedInv'
<1> SUFFICES ASSUME command' = "subscribe" PROVE AskedInv'
    BY DEF AskedInv
<1>0. command' = command /\ opt' = opt
    BY DEF CommandsNext, command_vars, Idle, SubscribeAtHub, DiscoverFails, CreateRow,
           CreateRowFails, AwaitRequest, Discover, SubscribeDone, BeginUnsubscribe,
           TransactionFails, Commit, TasksDone, DeleteRow, SendUnsubscribe,
           VerifyUnsubscription
<1>1. CASE SubscribeAtHub
    BY <1>0, <1>1, CommandsAssumption DEF SubscribeAtHub, Idle, AskedInv, HubsToDo
<1>2. ASSUME NEW response \in Responses, Discover(response) PROVE AskedInv'
    <2>1. CASE read_feed(response) = Absent
        BY <1>0, <1>2, <2>1 DEF Discover, Idle, AskedInv
    <2>2. CASE read_feed(response) # Absent
        <3>1. /\ todo' \in Seq(Hub) /\ topic' \in Topic
              /\ step' = "loop"
              /\ found' = {todo'[k] : k \in DOMAIN todo'}
            BY <1>0, <1>2, <2>2, CommandsAssumption DEF Discover, AskedInv
        <3>2. found' \subseteq HubsToDo'
            BY <3>1 DEF HubsToDo
        <3> QED  BY <1>0, <3>1, <3>2 DEF AskedInv
    <2> QED  BY <2>1, <2>2
<1>3. CASE CreateRow
    <2>1. PICK i \in Id \ Rows(db) :
             /\ db' = create_subscriptions(db, [j \in {i} |-> [hub   |-> Head(todo),
                                                              topic |-> topic]])
             /\ ids' = {i}
        BY <1>3 DEF CreateRow
    <2>2. todo \in Seq(Hub) /\ todo # <<>> /\ topic \in Topic
        BY <1>0, <1>3 DEF CreateRow, AskedInv
    <2>3. Head(todo) \in Hub
        BY <2>2
    <2>4. /\ db'[i] = [hub |-> Head(todo), topic |-> topic, expires_at |-> Null]
          /\ \A j \in Id : j # i => db'[j] = db[j]
        BY <2>1 DEF create_subscriptions
    <2>5. db'[i] # NoRow
        BY <2>2, <2>3, <2>4, StoreAssumption DEF Row
    <2>6. i \in RowsOf(db, Head(todo), topic)'
        BY <1>3, <2>4, <2>5 DEF CreateRow, RowsOf, Rows
    <2>7. HubsDone \subseteq HubsDone'
        BY <1>3, <2>1, <2>4 DEF CreateRow, HubsDone, RowsOf, Rows
    <2>8. /\ step' \in {"asking", "panicked"} /\ todo # <<>>
          /\ UNCHANGED <<todo, topic, found, asked>>
          /\ HubsToDo' = HubsToDo
          /\ found \subseteq HubsToDo \cup HubsDone
        BY <1>0, <1>3 DEF CreateRow, AskedInv, HubsToDo
    <2>9. ids' \cap RowsOf(db, Head(todo), topic)' # {}
        BY <2>1, <2>6
    <2> QED
        BY <1>0, <2>2, <2>7, <2>8, <2>9 DEF AskedInv
<1>4. CASE AwaitRequest
    <2>1. CASE step' = "error"
        BY <1>0, <1>4, <2>1 DEF AwaitRequest, AskedInv
    <2>2. CASE step' # "error"
        <3>1. /\ asked' = asked \cup ids /\ todo' = Tail(todo) /\ step' = "loop"
              /\ UNCHANGED <<db, topic, found>>
            BY <1>4, <2>2 DEF AwaitRequest, Fails
        <3>2. /\ todo \in Seq(Hub) /\ todo # <<>> /\ topic \in Topic
              /\ ids \cap RowsOf(db, Head(todo), topic) # {}
              /\ found \subseteq HubsToDo \cup HubsDone
            BY <1>0, <1>4 DEF AwaitRequest, AskedInv
        <3>3. HubsToDo \subseteq {Head(todo)} \cup HubsToDo'
            <4>1. ASSUME NEW k \in 1..Len(todo), k # 1
                  PROVE  k - 1 \in 1..Len(Tail(todo)) /\ Tail(todo)[k - 1] = todo[k]
                BY <3>2, <4>1
            <4>2. todo[1] = Head(todo)
                BY <3>2
            <4>3. \A j \in 1..Len(Tail(todo)) : Tail(todo)[j] \in HubsToDo'
                BY <3>1 DEF HubsToDo
            <4>4. ASSUME NEW k \in 1..Len(todo)
                  PROVE  todo[k] \in {Head(todo)} \cup HubsToDo'
                <5>1. CASE k = 1
                    BY <4>2, <5>1
                <5>2. CASE k # 1
                    BY <4>1, <4>3, <5>2
                <5> QED  BY <5>1, <5>2
            <4> QED  BY <4>4 DEF HubsToDo
        <3>4. Head(todo) \in HubsDone'
            BY <3>1, <3>2 DEF HubsDone, RowsOf, Rows
        <3>5. HubsDone \subseteq HubsDone'
            BY <3>1 DEF HubsDone, RowsOf, Rows
        <3>6. todo' \in Seq(Hub)
            BY <3>1, <3>2
        <3> QED
            BY <1>0, <1>4, <3>1, <3>2, <3>3, <3>4, <3>5, <3>6 DEF AskedInv
    <2> QED  BY <2>1, <2>2
<1>5. CASE SubscribeDone
    BY <1>0, <1>5 DEF SubscribeDone, Idle, AskedInv, HubsToDo, HubsDone, RowsOf, Rows
<1>6. CASE DiscoverFails \/ CreateRowFails
    BY <1>0, <1>6 DEF DiscoverFails, CreateRowFails, Fails, Idle, AskedInv
<1>7. ASSUME NEW i \in Id, VerifyUnsubscription(i) PROVE AskedInv'
    BY <1>0, <1>7 DEF VerifyUnsubscription, AskedInv, HubsToDo, HubsDone, RowsOf, Rows
<1>8. CASE UNCHANGED command_vars
    BY <1>8 DEF command_vars, AskedInv, HubsToDo, HubsDone, RowsOf, Rows
<1>9. CASE \/ BeginUnsubscribe \/ TransactionFails \/ Commit \/ TasksDone
           \/ \E i \in Id : DeleteRow(i) \/ SendUnsubscribe(i)
    BY <1>0, <1>9
    DEF BeginUnsubscribe, TransactionFails, Commit, TasksDone, DeleteRow, SendUnsubscribe
<1> QED
    BY <1>1, <1>2, <1>3, <1>4, <1>5, <1>6, <1>7, <1>8, <1>9 DEF CommandsNext

\* The hubs of `unsubscribe`: a row of Doomed is still to be deleted, or has a
\* task, or its hub has been asked, unless a task has failed.
ToldInv ==
    command = "unsubscribe" =>
        /\ step \in {"start", "transaction", "waiting", "ok", "error", "panicked"}
        /\ step = "transaction" => failed \/ Doomed \subseteq ids \cup tasks \cup asked
        /\ step = "waiting" => failed \/ Doomed \subseteq tasks \cup asked
        /\ step = "ok" => Doomed \subseteq asked

\* Every step keeps it.
LEMMA ToldStep ==
    ASSUME UnsubscribeInv, ToldInv, [CommandsNext]_command_vars
    PROVE  ToldInv'
<1> SUFFICES ASSUME command' = "unsubscribe" PROVE ToldInv'
    BY DEF ToldInv
<1>0. command' = command /\ opt' = opt /\ before' = before
    BY DEF CommandsNext, command_vars, Idle, SubscribeAtHub, DiscoverFails, CreateRow,
           CreateRowFails, AwaitRequest, Discover, SubscribeDone, BeginUnsubscribe,
           TransactionFails, Commit, TasksDone, DeleteRow, SendUnsubscribe,
           VerifyUnsubscription
<1>1. Doomed' = Doomed
    BY <1>0 DEF Doomed, Selected, Rows
<1> USE DEF ToldInv
<1>2. CASE BeginUnsubscribe
    <2>1. db = before /\ ids' = Doomed /\ step' = "transaction"
        BY <1>0, <1>2 DEF BeginUnsubscribe, UnsubscribeInv, Doomed
    <2> QED  BY <1>1, <2>1
<1>3. ASSUME NEW i \in Id, DeleteRow(i) PROVE ToldInv'
    BY <1>0, <1>1, <1>3 DEF DeleteRow
<1>4. CASE TransactionFails
    BY <1>0, <1>1, <1>4 DEF TransactionFails, Fails
<1>5. CASE Commit
    BY <1>0, <1>1, <1>5 DEF Commit
<1>6. CASE TasksDone
    BY <1>0, <1>1, <1>6 DEF TasksDone
<1>7. ASSUME NEW i \in Id, SendUnsubscribe(i) PROVE ToldInv'
    BY <1>0, <1>1, <1>7 DEF SendUnsubscribe
<1>8. ASSUME NEW i \in Id, VerifyUnsubscription(i) PROVE ToldInv'
    BY <1>0, <1>1, <1>8 DEF VerifyUnsubscription
<1>9. CASE UNCHANGED command_vars
    BY <1>1, <1>9 DEF command_vars
<1>10. CASE \/ SubscribeAtHub \/ DiscoverFails \/ CreateRow \/ CreateRowFails
            \/ AwaitRequest \/ SubscribeDone
            \/ \E response \in Responses : Discover(response)
    BY <1>0, <1>10
    DEF SubscribeAtHub, DiscoverFails, CreateRow, CreateRowFails, AwaitRequest, SubscribeDone,
        Discover
<1> QED
    BY <1>2, <1>3, <1>4, <1>5, <1>6, <1>7, <1>8, <1>9, <1>10 DEF CommandsNext

-----------------------------------------------------------------------------
(* Commands: the theorems                                                  *)

\* The invariant of both commands.
CommandsInv ==
    /\ command \in {"subscribe", "unsubscribe"}
    /\ TableInv /\ SubscribeInv /\ UnsubscribeInv /\ AskedInv /\ ToldInv

\* A command starts with a table, and has done nothing.
LEMMA CommandsInitially == CommandsInit => CommandsInv
<1> SUFFICES ASSUME CommandsInit PROVE CommandsInv
    OBVIOUS
<1>1. TableInv
    BY DEF CommandsInit, TableInv, Row
<1>2. SubscribeInv
    BY DEF CommandsInit, SubscribeInv, Rows, EmptyTable
<1>3. UnsubscribeInv
    BY DEF CommandsInit, UnsubscribeInv
<1>4. AskedInv
    BY DEF CommandsInit, AskedInv
<1>5. ToldInv
    BY DEF CommandsInit, ToldInv
<1> QED  BY <1>1, <1>2, <1>3, <1>4, <1>5 DEF CommandsInit, CommandsInv

\* Every step keeps it.
LEMMA CommandsStep ==
    ASSUME CommandsInv, [CommandsNext]_command_vars
    PROVE  CommandsInv'
<1>1. command' = command
    BY DEF CommandsNext, command_vars, SubscribeAtHub, DiscoverFails, CreateRow,
           CreateRowFails, AwaitRequest, Discover, SubscribeDone, BeginUnsubscribe,
           TransactionFails, Commit, TasksDone, DeleteRow, SendUnsubscribe,
           VerifyUnsubscription
<1> QED
    BY <1>1, TableStep, SubscribeStep, UnsubscribeStep, AskedStep, ToldStep DEF CommandsInv

\* What is left behind, and what the hubs know of it.
LEMMA LeftoversAreBounded == CommandsInv => LeftoversBounded
<1> SUFFICES ASSUME CommandsInv PROVE LeftoversBounded
    OBVIOUS
<1>1. CASE command = "subscribe"
    BY <1>1 DEF CommandsInv, SubscribeInv, LeftoversBounded
<1>2. CASE command = "unsubscribe"
    <2>1. step \in {"waiting", "ok"} => asked \cap Rows(db) = {}
        BY <1>2, DeletedRows DEF CommandsInv, UnsubscribeInv
    <2>2. step = "start" => asked = {}
        BY <1>2 DEF CommandsInv, UnsubscribeInv
    <2> QED
        BY <1>2, <2>1, <2>2 DEF CommandsInv, UnsubscribeInv, LeftoversBounded, Doomed
<1> QED  BY <1>1, <1>2 DEF CommandsInv

\* cmd/unsubscribe.rs, cmd/subscribe.rs: a command that fails leaves at most
\* one row that its hub has not heard of, or all rows as they were.
THEOREM LeftoversStayBounded == CommandsSpec => []LeftoversBounded
<1>1. CommandsInv /\ [CommandsNext]_command_vars => CommandsInv'
    BY CommandsStep
<1> QED  BY CommandsInitially, <1>1, LeftoversAreBounded, PTL DEF CommandsSpec

\* Whom a command has told when it ends well.
LEMMA AllAreAsked == CommandsInv => AskedOnSuccess
<1> SUFFICES ASSUME CommandsInv, step = "ok" PROVE AskedOnSuccess
    BY DEF AskedOnSuccess
<1>1. CASE command = "subscribe"
    <2>1. HubsToDo = {}
        BY <1>1 DEF CommandsInv, AskedInv, HubsToDo
    <2> QED  BY <1>1, <2>1 DEF CommandsInv, AskedInv, HubsDone, AskedOnSuccess
<1>2. CASE command = "unsubscribe"
    <2>1. Doomed \subseteq asked /\ db = delete_subscriptions(before, Doomed)
        BY <1>2 DEF CommandsInv, UnsubscribeInv, ToldInv
    <2>2. Selected(db) \subseteq Doomed
        BY <2>1 DEF Selected, Doomed, Rows, delete_subscriptions
    <2>3. Selected(db) \subseteq Rows(before) \ Doomed
        BY <2>1, DeletedRows DEF Selected
    <2> QED  BY <1>2, <2>1, <2>2, <2>3 DEF Doomed, AskedOnSuccess
<1> QED  BY <1>1, <1>2 DEF CommandsInv

\* cmd/subscribe.rs, cmd/unsubscribe.rs: a command that ends without an error
\* has told every hub that it had to.
THEOREM HubsAreAskedOnSuccess == CommandsSpec => []AskedOnSuccess
<1>1. CommandsInv /\ [CommandsNext]_command_vars => CommandsInv'
    BY CommandsStep
<1> QED  BY CommandsInitially, <1>1, AllAreAsked, PTL DEF CommandsSpec

-----------------------------------------------------------------------------
(* Migrations: the tables of each version                                  *)

\* What the tables hold at a version that has them, and that they are empty
\* at the others.  NULL is what a lease is as long as it has no column.
TablesInv ==
    /\ version \in 0..LastVersion
    /\ version < LastVersion => \A i \in DOMAIN subscriptions : subscriptions[i] = NoExpiry
    /\ version < 1 => DOMAIN subscriptions = {}
    /\ version < 2 \/ version = LastVersion => DOMAIN active = {}
    /\ version < 3 \/ version >= 6 => pending = {}
    /\ version < 4 \/ version >= 7 => renewing = {}
    /\ ReferencesHold

\* Every migration, and every write of a version, keeps it: ReferencesHold
\* is inductive only with the tables that a version lacks being empty, as
\* the tables a DOWN migration makes anew refer to them.
LEMMA TablesStep ==
    ASSUME TablesInv, [MigrationNext]_migration_vars
    PROVE  TablesInv'
<1> USE DEF LastVersion
<1>1. CASE create_tables_up
    BY <1>1 DEF create_tables_up, TablesInv, ReferencesHold, Empty
<1>2. CASE alter_renewing_primary_key_up
    BY <1>2 DEF alter_renewing_primary_key_up, TablesInv, ReferencesHold, Empty
<1>3. CASE drop_pending_up
    BY <1>3 DEF drop_pending_up, TablesInv, ReferencesHold, Empty
<1>4. CASE drop_renewing_up
    BY <1>4 DEF drop_renewing_up, TablesInv, ReferencesHold, Empty
<1>5. CASE drop_active_up
    BY <1>5 DEF drop_active_up, TablesInv, ReferencesHold, Empty
<1>6. CASE drop_active_down
    BY <1>6 DEF drop_active_down, Cascade, Restrict, TablesInv, ReferencesHold, Empty
<1>7. CASE drop_renewing_down
    BY <1>7 DEF drop_renewing_down, TablesInv, ReferencesHold, Empty
<1>8. CASE drop_pending_down
    BY <1>8 DEF drop_pending_down, TablesInv, ReferencesHold, Empty
<1>9. CASE alter_renewing_primary_key_down
    BY <1>9 DEF alter_renewing_primary_key_down, TablesInv, ReferencesHold, Empty
<1>10. CASE create_tables_down
    BY <1>10 DEF create_tables_down, TablesInv, ReferencesHold, Empty
<1>11. ASSUME NEW i \in Subscription, Insert(i) PROVE  TablesInv'
    BY <1>11 DEF Insert, TablesInv, ReferencesHold, Empty
<1>12. ASSUME NEW i \in Subscription, Deactivate(i) PROVE  TablesInv'
    BY <1>12 DEF Deactivate, TablesInv, ReferencesHold, Empty
<1>13. ASSUME NEW i \in Subscription, Delete(i) PROVE  TablesInv'
    BY <1>13 DEF Delete, Restrict, TablesInv, ReferencesHold, Empty
<1>14. ASSUME NEW i \in Subscription, NEW e \in Expiry, Activate(i, e) PROVE  TablesInv'
    BY <1>14 DEF Activate, TablesInv, ReferencesHold, Empty
<1>15. ASSUME NEW i \in Subscription, NEW j \in Subscription, Renew(i, j) PROVE  TablesInv'
    BY <1>15 DEF Renew, TablesInv, ReferencesHold, Empty
<1>16. CASE UNCHANGED migration_vars
    BY <1>16 DEF migration_vars, TablesInv, ReferencesHold, Empty
<1> QED
    BY <1>1, <1>2, <1>3, <1>4, <1>5, <1>6, <1>7, <1>8, <1>9, <1>10, <1>11, <1>12, <1>13, <1>14, <1>15, <1>16 DEF MigrationNext

\* Nothing is in the database to begin with.
LEMMA TablesInit == MigrationInit => TablesInv
BY DEF MigrationInit, TablesInv, ReferencesHold, Empty, LastVersion

\* migrations/*: every row that a foreign key names exists, at every
\* version, also where SQLite does not look after it.
THEOREM ReferencesAlwaysHold == MigrationSpec => []ReferencesHold
<1>1. TablesInv /\ [MigrationNext]_migration_vars => TablesInv'
    BY TablesStep
<1>2. TablesInv => ReferencesHold
    BY DEF TablesInv
<1> QED  BY TablesInit, <1>1, <1>2, PTL DEF MigrationSpec

-----------------------------------------------------------------------------
(* Migrations: the leases                                                  *)

\* What a migration does to the leases.
LeasesKept ==
    version' # version /\ (version' > version \/ version' >= 2)
        => Leases' = IF enforced /\ version = LastVersion
                     THEN [i \in DOMAIN Leases |-> NoExpiry]
                     ELSE Leases

\* A migration moves the leases, or leaves them where they are.
LEMMA LeasesStep ==
    ASSUME TablesInv, [MigrationNext]_migration_vars
    PROVE  LeasesKept
<1> USE DEF LastVersion
<1>1. CASE create_tables_up
    BY <1>1 DEF create_tables_up, LeasesKept, Leases, TablesInv, Empty
<1>2. CASE alter_renewing_primary_key_up
    BY <1>2 DEF alter_renewing_primary_key_up, LeasesKept, Leases, TablesInv, Empty
<1>3. CASE drop_pending_up
    BY <1>3 DEF drop_pending_up, LeasesKept, Leases, TablesInv, Empty
<1>4. CASE drop_renewing_up
    BY <1>4 DEF drop_renewing_up, LeasesKept, Leases, TablesInv, Empty
<1>5. CASE drop_active_up
    BY <1>5 DEF drop_active_up, LeasesKept, Leases, TablesInv, Empty
<1>6. CASE drop_active_down
    BY <1>6 DEF drop_active_down, Cascade, Restrict, LeasesKept, Leases, TablesInv, Empty
<1>7. CASE drop_renewing_down
    BY <1>7 DEF drop_renewing_down, LeasesKept, Leases, TablesInv, Empty
<1>8. CASE drop_pending_down
    BY <1>8 DEF drop_pending_down, LeasesKept, Leases, TablesInv, Empty
<1>9. CASE alter_renewing_primary_key_down
    BY <1>9 DEF alter_renewing_primary_key_down, LeasesKept, Leases, TablesInv, Empty
<1>10. CASE create_tables_down
    BY <1>10 DEF create_tables_down, LeasesKept, Leases, TablesInv, Empty
<1>11. ASSUME NEW i \in Subscription, Insert(i) PROVE  LeasesKept
    BY <1>11 DEF Insert, LeasesKept, Leases, TablesInv, Empty
<1>12. ASSUME NEW i \in Subscription, Deactivate(i) PROVE  LeasesKept
    BY <1>12 DEF Deactivate, LeasesKept, Leases, TablesInv, Empty
<1>13. ASSUME NEW i \in Subscription, Delete(i) PROVE  LeasesKept
    BY <1>13 DEF Delete, Restrict, LeasesKept, Leases, TablesInv, Empty
<1>14. ASSUME NEW i \in Subscription, NEW e \in Expiry, Activate(i, e) PROVE  LeasesKept
    BY <1>14 DEF Activate, LeasesKept, Leases, TablesInv, Empty
<1>15. ASSUME NEW i \in Subscription, NEW j \in Subscription, Renew(i, j) PROVE  LeasesKept
    BY <1>15 DEF Renew, LeasesKept, Leases, TablesInv, Empty
<1>16. CASE UNCHANGED migration_vars
    BY <1>16 DEF migration_vars, LeasesKept, Leases, TablesInv, Empty
<1> QED
    BY <1>1, <1>2, <1>3, <1>4, <1>5, <1>6, <1>7, <1>8, <1>9, <1>10, <1>11, <1>12, <1>13, <1>14, <1>15, <1>16 DEF MigrationNext

\* migrations/*: up, every subscription and its lease survive; down as well,
\* except that undoing the last migration with foreign keys enforced ends the
\* leases, of subscriptions that are still there.
THEOREM LeasesAlwaysSurvive == MigrationSpec => LeasesSurvive
<1>1. TablesInv /\ [MigrationNext]_migration_vars => TablesInv'
    BY TablesStep
<1>2. TablesInv /\ [MigrationNext]_migration_vars
          => [version' # version /\ (version' > version \/ version' >= 2)
                => Leases' = IF enforced /\ version = LastVersion
                             THEN [i \in DOMAIN Leases |-> NoExpiry]
                             ELSE Leases]_migration_vars
    BY LeasesStep DEF LeasesKept
<1> QED  BY TablesInit, <1>1, <1>2, PTL DEF MigrationSpec, LeasesSurvive

-----------------------------------------------------------------------------
(* The process                                                             *)

\* A process is a stream that may not be polled at all.
LEMMA ExampleAccepts == ExampleSpec => AcceptSpec
<1>1. ExampleInit => AcceptInit
    BY DEF ExampleInit
<1>2. [ExampleNext]_example_vars => [AcceptNext]_accept_vars
    BY DEF ExampleNext, example_vars, StartRun, EndRun, Up
<1> QED  BY <1>1, <1>2, PTL DEF ExampleSpec, AcceptSpec

\* It is also a database that may not be migrated at all.
LEMMA ExampleMigrates == ExampleSpec => MigrationSpec
<1>1. ExampleInit => MigrationInit
    BY DEF ExampleInit
<1>2. [ExampleNext]_example_vars => [MigrationNext]_migration_vars
    BY DEF ExampleNext, example_vars, Up
<1> QED  BY <1>1, <1>2, PTL DEF ExampleSpec, MigrationSpec

\* And the table of a command, which others leave as it is.
ExampleInv ==
    IF program = "command" THEN CommandsInv ELSE AskedOnSuccess /\ LeftoversBounded

\* It holds when a command starts.
LEMMA ExampleInvInit == ExampleInit => ExampleInv
<1> SUFFICES ASSUME ExampleInit PROVE ExampleInv
    OBVIOUS
<1>1. CASE program = "command"
    BY <1>1, CommandsInitially DEF ExampleInit, ExampleInv
<1>2. CASE program # "command"
    <2>1. command = "subscribe" /\ step = "start" /\ db = EmptyTable
        BY <1>2 DEF ExampleInit
    <2> QED
        BY <1>2, <2>1 DEF ExampleInv, AskedOnSuccess, LeftoversBounded, EmptyTable, Rows
<1> QED  BY <1>1, <1>2

\* A step of the command keeps it, and so does a step of another program.
LEMMA ExampleInvStep == ExampleInv /\ [ExampleNext]_example_vars => ExampleInv'
<1> SUFFICES ASSUME ExampleInv, [ExampleNext]_example_vars PROVE ExampleInv'
    OBVIOUS
<1>1. CASE program = "command"
    <2>1. program' = program /\ [CommandsNext]_command_vars
        BY <1>1 DEF ExampleNext, example_vars, StartRun, EndRun, Up
    <2> QED  BY <1>1, <2>1, CommandsStep DEF ExampleInv
<1>2. CASE program # "command"
    <2>1. program' = program /\ UNCHANGED command_vars
        BY <1>2 DEF ExampleNext, example_vars, StartRun, EndRun, Up
    <2>2. UNCHANGED <<AskedOnSuccess, LeftoversBounded>>
        BY <2>1 DEF command_vars, AskedOnSuccess, LeftoversBounded, RowsOf, Rows, Selected,
            delete_subscriptions
    <2> QED  BY <1>2, <2>1, <2>2 DEF ExampleInv
<1> QED  BY <1>1, <1>2

\* src/example: what holds of its parts holds of the process.
THEOREM ExampleIsSafe ==
    ExampleSpec => /\ []GivesUpAfterSeries /\ []RetryWakesPoller
                   /\ []NothingLeftAtEnd /\ []EndNoticed
                   /\ []AskedOnSuccess /\ []LeftoversBounded
                   /\ []ReferencesHold /\ LeasesSurvive
<1>1. ExampleInv => AskedOnSuccess /\ LeftoversBounded
    BY AllAreAsked, LeftoversAreBounded DEF ExampleInv
<1>2. ExampleSpec => []AskedOnSuccess /\ []LeftoversBounded
    BY ExampleInvInit, ExampleInvStep, <1>1, PTL DEF ExampleSpec
<1> QED
    BY <1>2, ExampleAccepts, ExampleMigrates, GivesUp, RetriesWakePoller, NothingIsLeft,
       EndIsNoticed, ReferencesAlwaysHold, LeasesAlwaysSurvive, PTL
=============================================================================
