------------------------------ MODULE AcceptLoop ------------------------------
(***************************************************************************)
(* The stream Subscriber (src/src/subscriber.rs): accept_all with its      *)
(* Backoff (src/src/util/backoff.rs), poll_next, and the consumer of the   *)
(* updates as the example has it (print_all).                              *)
(*                                                                         *)
(* A poll is taken apart at each access to what it shares: the Sleep with  *)
(* the timer, the listener with the network, the channel and the strong    *)
(* count of the Arc with the connections, which run in tasks of their own, *)
(* and with the renewal task.  A waker is the task that it wakes.          *)
(*                                                                         *)
(* A Sleep keeps the waker of its last poll through a reset, and gives it  *)
(* up when it fires; a deadline in the past fires at once.  A listener and *)
(* a channel keep a waker when they are polled and have nothing.           *)
(***************************************************************************)
EXTENDS Integers

CONSTANTS
    Task,        \* tasks that may poll the stream
    Nobody,      \* no waker
    MAX_BACKOFF, \* an error at this wait is given to the consumer
    NoTimer,     \* the None of Backoff::inner
    MaxTime,     \* bound on the clock
    MaxConns,    \* bound on the connections open at a time
    MaxQueue     \* bound on the updates in the channel

ASSUME AcceptAssumption ==
    /\ Nobody \notin Task
    /\ MAX_BACKOFF \in Nat /\ MaxTime \in Nat /\ MaxConns \in Nat /\ MaxQueue \in Nat
    /\ NoTimer \in Int /\ NoTimer < 0

INITIAL_WAIT == 1

VARIABLES
    clock,
    incoming,    \* what the listener has: "empty", "sock", "error" or "end"
    in_task,     \* the waker that the listener keeps
    wait,        \* Inner::wait, 0 without an Inner
    deadline,    \* of Inner::sleep, NoTimer without an Inner
    fired,       \* the Sleep has elapsed
    timer_task,  \* the waker that the Sleep keeps
    queue,       \* the number of updates in the channel
    rx_task,     \* the waker that the channel keeps
    conns,       \* connections open; each holds an Arc of the service
    upgraded,    \* the renewal task holds one, for the time of a poll
    poller,      \* the task that owns the stream
    notified,    \* tasks to be polled
    at,          \* where the stream or its consumer is
    incoming_done,
    first_error, \* history: the time of the first error since a connection
    moved,       \* history: the stream has changed tasks since the Sleep was polled
    late,        \* history: updates sent after the last poll that found the
                 \* channel empty, and before its count of the Arcs
    counted      \* history: the strong count that the last poll has read, or 0

backoff == <<wait, deadline, fired, timer_task, first_error, moved>>
channel == <<queue, rx_task>>
accept_vars == <<clock, incoming, in_task, backoff, channel, conns, upgraded,
                 poller, notified, at, incoming_done, late, counted>>

strong_count == 1 + conns + (IF upgraded THEN 1 ELSE 0)

AcceptTypeOK ==
    /\ clock \in 0..MaxTime
    /\ incoming \in {"empty", "sock", "error", "end"}
    /\ wait \in 0..(2 * MAX_BACKOFF)
    /\ deadline \in Nat \cup {NoTimer}
    /\ fired \in BOOLEAN
    /\ {in_task, timer_task, rx_task} \subseteq Task \cup {Nobody}
    /\ queue \in 0..MaxQueue /\ conns \in 0..MaxConns /\ upgraded \in BOOLEAN
    /\ poller \in Task /\ notified \subseteq Task
    /\ at \in {"idle", "accept", "recv", "count", "reading", "ended", "failed"}
    /\ incoming_done \in BOOLEAN /\ moved \in BOOLEAN
    /\ first_error \in 0..MaxTime \cup {NoTimer}
    /\ late \in Nat /\ counted \in Nat

\* Builder::build; the stream goes to a task that polls it.
AcceptInit ==
    /\ clock = 0
    /\ incoming = "empty" /\ in_task = Nobody
    /\ wait = 0 /\ deadline = NoTimer /\ fired = FALSE /\ timer_task = Nobody
    /\ queue = 0 /\ rx_task = Nobody
    /\ conns = 0 /\ upgraded = FALSE
    /\ poller \in Task /\ notified = {poller}
    /\ at = "idle" /\ incoming_done = FALSE
    /\ first_error = NoTimer /\ moved = FALSE /\ late = 0 /\ counted = 0

-----------------------------------------------------------------------------
(* Backoff                                                                 *)

\* Faulty variant: the deadline of an earlier series of errors is taken up.
increase_OldDeadline ==
    /\ wait' = IF wait = 0 THEN INITIAL_WAIT ELSE 2 * wait
    /\ deadline' = (IF deadline = NoTimer THEN clock ELSE deadline) + wait'
    /\ timer_task' = IF deadline = NoTimer THEN poller ELSE timer_task
    /\ moved' = (moved /\ deadline # NoTimer)
    /\ fired' = FALSE

\* Backoff::increase.  The wait is added to the present in the first wait of
\* a series, to the previous deadline later on.  Only a new Sleep is polled.
increase ==
    /\ \/ /\ wait = 0
          /\ wait' = INITIAL_WAIT
          /\ deadline' = clock + INITIAL_WAIT
       \/ /\ wait > 0
          /\ wait' = 2 * wait
          /\ deadline' = deadline + 2 * wait
    /\ timer_task' = IF deadline = NoTimer THEN poller ELSE timer_task
    /\ moved' = (moved /\ deadline # NoTimer)
    /\ fired' = FALSE

-----------------------------------------------------------------------------
(* A poll of the stream                                                    *)

\* Faulty variant: the Backoff is not polled, only looked at.
PollBackoff_NoWaker ==
    /\ at = "idle"
    /\ poller \in notified
    /\ notified' = notified \ {poller}
    /\ incoming_done' = FALSE
    /\ counted' = 0
    /\ UNCHANGED <<timer_task, moved>>
    /\ at' = IF wait > 0 /\ ~fired THEN "recv" ELSE "accept"
    /\ UNCHANGED <<clock, incoming, in_task, wait, deadline, fired, first_error,
                   channel, conns, upgraded, poller, late>>

\* The executor polls the task, and accept_all polls the Backoff: its Sleep
\* is polled, and keeps the waker, if there is a wait.
PollBackoff ==
    /\ at = "idle"
    /\ poller \in notified
    /\ notified' = notified \ {poller}
    /\ incoming_done' = FALSE
    /\ counted' = 0
    /\ timer_task' = IF wait > 0 THEN poller ELSE timer_task
    /\ moved' = (moved /\ wait = 0)
    /\ at' = IF wait > 0 /\ ~fired THEN "recv" ELSE "accept"
    /\ UNCHANGED <<clock, incoming, in_task, wait, deadline, fired, first_error,
                   channel, conns, upgraded, poller, late>>

\* The loop of accept_all: nothing yet,
AcceptPending ==
    /\ at = "accept"
    /\ incoming = "empty"
    /\ in_task' = poller
    /\ at' = "recv"
    /\ UNCHANGED <<clock, incoming, backoff, channel, conns, upgraded, poller,
                   notified, incoming_done, late, counted>>

\* Faulty variant: the end of the listener is found before the channel is
\* polled, and the Arcs are counted at once.
AcceptNone_SkipsChannel ==
    /\ at = "accept"
    /\ incoming = "end"
    /\ incoming_done' = TRUE
    /\ at' = "count"
    /\ UNCHANGED <<clock, incoming, in_task, backoff, channel, conns, upgraded,
                   poller, notified, late, counted>>

\* the end of the listener,
AcceptNone ==
    /\ at = "accept"
    /\ incoming = "end"
    /\ incoming_done' = TRUE
    /\ at' = "recv"
    /\ UNCHANGED <<clock, incoming, in_task, backoff, channel, conns, upgraded,
                   poller, notified, late, counted>>

\* an error, which is waited out or ends the stream for the consumer,
AcceptError ==
    /\ at = "accept"
    /\ incoming = "error"
    /\ incoming' = "empty"
    /\ first_error' = IF first_error = NoTimer THEN clock ELSE first_error
    /\ IF wait >= MAX_BACKOFF
       THEN at' = "failed" /\ UNCHANGED <<wait, deadline, fired, timer_task, moved>>
       ELSE at' = "recv" /\ increase
    /\ UNCHANGED <<clock, in_task, channel, conns, upgraded, poller, notified,
                   incoming_done, late, counted>>

\* or a connection, which resets the Backoff and is served by a new task.
AcceptSock ==
    /\ at = "accept"
    /\ incoming = "sock"
    /\ incoming' = "empty"
    /\ wait' = 0
    /\ first_error' = NoTimer
    /\ conns' = conns + 1
    /\ UNCHANGED <<clock, in_task, deadline, fired, timer_task, moved, channel,
                   upgraded, poller, notified, at, incoming_done, late, counted>>

\* The channel has an update: the consumer reads its body before it polls
\* the stream again, or drops it for its media type.
RecvUpdate ==
    /\ at = "recv"
    /\ queue > 0
    /\ queue' = queue - 1
    /\ \/ at' = "reading" /\ UNCHANGED notified
       \/ at' = "idle" /\ notified' = notified \cup {poller}
    /\ UNCHANGED <<clock, incoming, in_task, backoff, rx_task, conns, upgraded,
                   poller, incoming_done, late, counted>>

\* The channel is empty: the stream is pending, unless the listener has
\* ended; then the Arcs are counted next.
RecvPending ==
    /\ at = "recv"
    /\ queue = 0
    /\ rx_task' = poller
    /\ late' = 0
    /\ at' = IF incoming_done THEN "count" ELSE "idle"
    /\ UNCHANGED <<clock, incoming, in_task, backoff, queue, conns, upgraded,
                   poller, notified, incoming_done, counted>>

\* Faulty variant: the stream waits for the others to let go of it for ever.
CountArcs_Never ==
    /\ at = "count"
    /\ counted' = strong_count
    /\ at' = IF strong_count = 0 THEN "ended" ELSE "idle"
    /\ UNCHANGED <<clock, incoming, in_task, backoff, channel, conns, upgraded,
                   poller, notified, incoming_done, late>>

\* Arc::strong_count: the stream ends if it is the only one left.
CountArcs ==
    /\ at = "count"
    /\ counted' = strong_count
    /\ at' = IF strong_count = 1 THEN "ended" ELSE "idle"
    /\ UNCHANGED <<clock, incoming, in_task, backoff, channel, conns, upgraded,
                   poller, notified, incoming_done, late>>

\* The sender of the body has finished, or given up: print_all goes on.
BodyRead ==
    /\ at = "reading"
    /\ at' = "idle"
    /\ notified' = notified \cup {poller}
    /\ UNCHANGED <<clock, incoming, in_task, backoff, channel, conns, upgraded,
                   poller, incoming_done, late, counted>>

-----------------------------------------------------------------------------
(* The others                                                              *)

Open == at \notin {"ended", "failed"}

\* The network: the listener has something, or will have nothing any more.
Arrive(what) ==
    /\ Open
    /\ incoming = "empty"
    /\ what = "sock" => conns < MaxConns
    /\ incoming' = what
    /\ notified' = notified \cup ({in_task} \ {Nobody})
    /\ in_task' = Nobody
    /\ UNCHANGED <<clock, backoff, channel, conns, upgraded, poller, at,
                   incoming_done, late, counted>>

\* Faulty variant: the receiver is not woken.
Send_NoWake ==
    /\ Open
    /\ conns > 0
    /\ queue < MaxQueue
    /\ queue' = queue + 1
    /\ late' = IF at = "count" THEN late + 1 ELSE late
    /\ UNCHANGED <<clock, incoming, in_task, backoff, rx_task, conns, upgraded,
                   poller, notified, at, incoming_done, counted>>

\* Service::call in a connection's task: start_send of an update.
Send ==
    /\ Open
    /\ conns > 0
    /\ queue < MaxQueue
    /\ queue' = queue + 1
    /\ notified' = notified \cup ({rx_task} \ {Nobody})
    /\ rx_task' = Nobody
    /\ late' = IF at = "count" THEN late + 1 ELSE late
    /\ UNCHANGED <<clock, incoming, in_task, backoff, conns, upgraded, poller, at,
                   incoming_done, counted>>

\* A connection's task ends, and drops its Arc.  Nobody is told.
Close ==
    /\ conns > 0
    /\ conns' = conns - 1
    /\ UNCHANGED <<clock, incoming, in_task, backoff, channel, upgraded, poller,
                   notified, at, incoming_done, late, counted>>

\* The renewal task upgrades its Weak for a poll, and drops the Arc after it.
Renewal ==
    /\ Open
    /\ upgraded' = ~upgraded
    /\ UNCHANGED <<clock, incoming, in_task, backoff, channel, conns, poller,
                   notified, at, incoming_done, late, counted>>

\* The owner of the stream hands it to another task, which polls it.
Move(task) ==
    /\ at = "idle"
    /\ task # poller
    /\ poller' = task
    /\ notified' = notified \cup {task}
    /\ moved' = TRUE
    /\ UNCHANGED <<clock, incoming, in_task, wait, deadline, fired, timer_task,
                   first_error, channel, conns, upgraded, at, incoming_done, late,
                   counted>>

\* The timer of the runtime.
FireSleep ==
    /\ Open
    /\ deadline # NoTimer
    /\ deadline <= clock
    /\ ~fired
    /\ fired' = TRUE
    /\ notified' = notified \cup ({timer_task} \ {Nobody})
    /\ timer_task' = Nobody
    /\ UNCHANGED <<clock, incoming, in_task, wait, deadline, first_error, moved,
                   channel, conns, upgraded, poller, at, incoming_done, late, counted>>

Pass ==
    /\ Open
    /\ clock < MaxTime
    /\ clock' = clock + 1
    /\ UNCHANGED <<incoming, in_task, backoff, channel, conns, upgraded, poller,
                   notified, at, incoming_done, late, counted>>

-----------------------------------------------------------------------------
PollStream ==
    \/ PollBackoff
    \/ AcceptPending \/ AcceptNone \/ AcceptError \/ AcceptSock
    \/ RecvUpdate \/ RecvPending
    \/ CountArcs

AcceptNext ==
    \/ PollStream
    \/ BodyRead
    \/ \E what \in {"sock", "error", "end"} : Arrive(what)
    \/ Send \/ Close \/ Renewal
    \/ \E task \in Task : Move(task)
    \/ FireSleep
    \/ Pass

AcceptSpec == AcceptInit /\ [][AcceptNext]_accept_vars

-----------------------------------------------------------------------------
(* Properties                                                              *)

\* accept_all (subscriber.rs:121): an error reaches the consumer only after
\* a whole series of waits, 1 + 2 + .. + MAX_BACKOFF, in which nothing was
\* accepted.
GivesUpAfterSeries ==
    at = "failed" => clock - first_error >= 2 * MAX_BACKOFF - 1

\* The stream waits to be woken: its task is not to be polled.
Waiting == at = "idle" /\ poller \notin notified

\* backoff.rs:38: the end of a wait wakes the task that polled the stream
\* last.  Only the first wait of a second series is left to the task of the
\* last poll of the Sleep, and so to none if the stream has moved since.
RetryWakesPoller ==
    Waiting /\ wait > 0 => timer_task = poller \/ (wait = INITIAL_WAIT /\ moved)

\* subscriber.rs:181: the last poll has found the channel empty, so a stream
\* that ends leaves behind no update but those whose connections have sent
\* them, and closed, between that and the count of the Arcs.
NothingLeftAtEnd == at = "ended" => queue = late

\* subscriber.rs:185: a stream that could end is not left waiting, unless
\* its last poll found an Arc that has been dropped since.
EndNoticed ==
    Waiting /\ incoming = "end" /\ strong_count = 1 =>
        counted > 1 \/ (wait > 0 /\ (~fired \/ timer_task # poller))

\* What RetryWakesPoller allows for: the timer wakes another task.
Unreachable == Waiting /\ wait > 0 /\ timer_task # poller

\* As long as polls end and the consumer comes back from the bodies it reads:
\* what the listener has is taken once the wait is over, and updates are
\* yielded.  (A listener that always has one more connection at hand keeps
\* accept_all in its loop; that of tokio yields after a number of them.)
KeepsServing ==
    []<>(at = "idle") =>
        /\ (incoming \in {"sock", "error"} /\ (wait = 0 \/ deadline <= clock))
               ~> (incoming = "empty" \/ ~Open \/ Unreachable)
        /\ (queue > 0) ~> (queue = 0 \/ ~Open)

=============================================================================
