------------------------------ MODULE Scheduler ------------------------------
(***************************************************************************)
(* scheduler.rs step by step: the future Scheduler polled by an executor,  *)
(* while other threads call Handle::hasten, the timer of the runtime       *)
(* fires, and the Arc that holds the Handle is dropped.                    *)
(*                                                                         *)
(* A step of the future is what it does between two accesses to the state  *)
(* it shares: Weak::upgrade, AtomicWaker::register, the load of next_tick, *)
(* Sleep::poll, Tick::tick, the store to next_tick, the change of the      *)
(* Sleep, the release of the Arc.  AtomicWaker orders the Relaxed accesses *)
(* to next_tick around it, so the steps interleave.                        *)
(*                                                                         *)
(* Tick::tick is the caller's: it gives any time or none, or fails.        *)
(***************************************************************************)
EXTENDS Integers, FiniteSets

CONSTANTS
    Thread,   \* threads that may call Handle::hasten
    MaxTime,  \* bound on the clock and on the times of ticks
    NoTick    \* u64::MAX: no tick is scheduled

ASSUME SchedulerAssumption ==
    MaxTime \in Nat /\ NoTick \in Nat /\ NoTick > MaxTime

Time == 0..MaxTime
Tick == Time \cup {NoTick}

Earlier(a, b) == IF a <= b THEN a ELSE b

VARIABLES
    now,         \* the clock
    next_tick,   \* Handle::next_tick
    registered,  \* Handle::task holds the waker of the task
    woken,       \* the task is scheduled to be polled
    sleep,       \* the deadline of Scheduler::sleep; NoTick is its None
    fired,       \* the timer has marked the Sleep as elapsed
    armed,       \* the Sleep holds the waker of the task
    pc,          \* where the future is
    result,      \* what Tick::tick has returned
    calls,       \* each thread: "out", or "min" between the two steps of hasten
    arc,         \* "held" by others, "let_go" by them, "dropped" (strong count 0)
    promise      \* history: the earliest hasten since the last tick

vars == <<now, next_tick, registered, woken, sleep, fired, armed, pc, result,
          calls, arc, promise>>

timer == <<sleep, fired, armed>>

TypeOK ==
    /\ now \in Time
    /\ next_tick \in Tick
    /\ registered \in BOOLEAN
    /\ woken \in BOOLEAN
    /\ sleep \in Tick
    /\ fired \in BOOLEAN
    /\ armed \in BOOLEAN
    /\ pc \in {"idle", "register", "load", "sleep", "tick", "store", "reset",
               "release", "done"}
    /\ result \in Tick
    /\ calls \in [Thread -> {"out", "min"}]
    /\ arc \in {"held", "let_go", "dropped"}
    /\ promise \in Tick

-----------------------------------------------------------------------------
\* Handle::new and Scheduler::new; the future is spawned.
Init ==
    /\ now = 0
    /\ next_tick \in Tick
    /\ registered = FALSE
    /\ woken = TRUE
    /\ sleep = next_tick
    /\ fired = FALSE
    /\ armed = FALSE
    /\ pc = "idle"
    /\ result = NoTick
    /\ calls = [t \in Thread |-> "out"]
    /\ arc = "held"
    /\ promise = NoTick

-----------------------------------------------------------------------------
(* The future                                                              *)

\* The executor polls the task, and the Weak is upgraded or found dead.
Upgrade ==
    /\ pc = "idle"
    /\ woken
    /\ woken' = FALSE
    /\ pc' = IF arc = "dropped" THEN "done" ELSE "register"
    /\ UNCHANGED <<now, next_tick, registered, timer, result, calls, arc, promise>>

\* Faulty variant: the waker is registered for the first Sleep only.
Register_Once ==
    /\ pc = "register"
    /\ registered' = (registered \/ sleep = NoTick)
    /\ pc' = "load"
    /\ UNCHANGED <<now, next_tick, woken, timer, result, calls, arc, promise>>

Register ==
    /\ pc = "register"
    /\ registered' = TRUE
    /\ pc' = "load"
    /\ UNCHANGED <<now, next_tick, woken, timer, result, calls, arc, promise>>

\* Faulty variant: a Sleep that there is keeps its deadline.
Load_KeepsSleep ==
    /\ pc = "load"
    /\ IF sleep = NoTick
       THEN /\ sleep' = next_tick /\ fired' = FALSE /\ armed' = FALSE
            /\ pc' = IF next_tick = NoTick THEN "release" ELSE "sleep"
       ELSE pc' = "sleep" /\ UNCHANGED timer
    /\ UNCHANGED <<now, next_tick, registered, woken, result, calls, arc, promise>>

\* The Sleep is reset if next_tick is earlier, or made if there is none;
\* without either there is nothing to wait for.  A reset Sleep keeps the
\* waker it holds, a new one has none.
Load ==
    /\ pc = "load"
    /\ \/ /\ sleep # NoTick
          /\ IF next_tick < sleep
             THEN sleep' = next_tick /\ fired' = FALSE /\ UNCHANGED armed
             ELSE UNCHANGED timer
          /\ pc' = "sleep"
       \/ /\ sleep = NoTick
          /\ next_tick # NoTick
          /\ sleep' = next_tick /\ fired' = FALSE /\ armed' = FALSE
          /\ pc' = "sleep"
       \/ /\ sleep = NoTick
          /\ next_tick = NoTick
          /\ UNCHANGED timer
          /\ pc' = "release"
    /\ UNCHANGED <<now, next_tick, registered, woken, result, calls, arc, promise>>

\* Sleep::poll leaves the waker with the timer, whatever it returns.  When
\* it is ready, the tick begins: it answers for every hasten before it.
PollSleep ==
    /\ pc = "sleep"
    /\ armed' = TRUE
    /\ IF fired
       THEN /\ pc' = "tick"
            /\ promise' = NoTick
       ELSE pc' = "release" /\ UNCHANGED promise
    /\ UNCHANGED <<now, next_tick, registered, woken, sleep, fired, result, calls, arc>>

\* The result may lie in the past: 0 stands for an expiry before the epoch,
\* and time passes while the tick runs.
TickReturns ==
    /\ pc = "tick"
    /\ result' \in Tick
    /\ pc' = "store"
    /\ UNCHANGED <<now, next_tick, registered, woken, timer, calls, arc, promise>>

\* The `?`: the future completes with the error, and its Arc is released.
TickFails ==
    /\ pc = "tick"
    /\ pc' = "done"
    /\ arc' = IF arc = "let_go" THEN "dropped" ELSE arc
    /\ UNCHANGED <<now, next_tick, registered, woken, timer, result, calls, promise>>

Store ==
    /\ pc = "store"
    /\ next_tick' = result
    /\ pc' = "reset"
    /\ UNCHANGED <<now, registered, woken, timer, result, calls, arc, promise>>

\* Faulty variant: the Sleep is reset to a second before the tick stored.
ResetSleep_Early ==
    /\ pc = "reset"
    /\ sleep' = result - 1
    /\ fired' = FALSE
    /\ UNCHANGED armed
    /\ pc' = "release"
    /\ UNCHANGED <<now, next_tick, registered, woken, result, calls, arc, promise>>

\* The Sleep is reset to the tick stored, or set to None.
ResetSleep ==
    /\ pc = "reset"
    /\ sleep' = result
    /\ fired' = FALSE
    /\ armed' = (armed /\ result # NoTick)
    /\ pc' = "release"
    /\ UNCHANGED <<now, next_tick, registered, woken, result, calls, arc, promise>>

\* The end of a poll: the Arc of the upgrade goes.  If it was the last, the
\* Handle is dropped here, and its Drop wakes the task once more.
Release ==
    /\ pc = "release"
    /\ pc' = "idle"
    /\ arc' = IF arc = "let_go" THEN "dropped" ELSE arc
    /\ woken' = (woken \/ (arc = "let_go" /\ registered))
    /\ registered' = (registered /\ arc # "let_go")
    /\ UNCHANGED <<now, next_tick, timer, result, calls, promise>>

-----------------------------------------------------------------------------
(* The others                                                              *)

InTick == pc \in {"tick", "store"}

\* The fetch_min of hasten.  With nothing hastened, hasten returns at once.
HastenMin(thread, t) ==
    /\ arc = "held"
    /\ calls[thread] = "out"
    /\ next_tick' = Earlier(next_tick, t)
    /\ calls' = IF t < next_tick THEN [calls EXCEPT ![thread] = "min"] ELSE calls
    /\ promise' = IF InTick THEN promise ELSE Earlier(promise, t)
    /\ UNCHANGED <<now, registered, woken, timer, pc, result, arc>>

\* Faulty variant: hasten leaves the task asleep.
HastenWake_NoWake(thread) ==
    /\ calls[thread] = "min"
    /\ calls' = [calls EXCEPT ![thread] = "out"]
    /\ UNCHANGED <<now, next_tick, registered, woken, timer, pc, result, arc, promise>>

\* The AtomicWaker::wake of hasten: it takes the waker there is.
HastenWake(thread) ==
    /\ calls[thread] = "min"
    /\ calls' = [calls EXCEPT ![thread] = "out"]
    /\ woken' = (woken \/ registered)
    /\ registered' = FALSE
    /\ UNCHANGED <<now, next_tick, timer, pc, result, arc, promise>>

\* Faulty variant: without the Drop of Handle.
LetGo_NoWake ==
    /\ arc = "held"
    /\ \A thread \in Thread : calls[thread] = "out"
    /\ arc' = IF pc \in {"idle", "done"} THEN "dropped" ELSE "let_go"
    /\ UNCHANGED <<now, next_tick, registered, woken, timer, pc, result, calls, promise>>

\* The others drop their Arcs; no call is running then.  The Handle goes
\* with the last one, and its Drop wakes the task, unless the future holds
\* an Arc at the moment.
LetGo ==
    /\ arc = "held"
    /\ \A thread \in Thread : calls[thread] = "out"
    /\ IF pc \in {"idle", "done"}
       THEN /\ arc' = "dropped"
            /\ woken' = (woken \/ registered)
            /\ registered' = FALSE
       ELSE arc' = "let_go" /\ UNCHANGED <<woken, registered>>
    /\ UNCHANGED <<now, next_tick, timer, pc, result, calls, promise>>

\* The timer of the runtime: it marks the Sleep and wakes the waker in it.
\* (A Sleep that has elapsed before its first poll may be marked by then.)
Fire ==
    /\ sleep <= now
    /\ ~fired
    /\ pc # "done"
    /\ fired' = TRUE
    /\ woken' = (woken \/ armed)
    /\ armed' = FALSE
    /\ UNCHANGED <<now, next_tick, registered, sleep, pc, result, calls, arc, promise>>

Advance ==
    /\ now < MaxTime
    /\ now' = now + 1
    /\ UNCHANGED <<next_tick, registered, woken, timer, pc, result, calls, arc, promise>>

-----------------------------------------------------------------------------
Poll == Upgrade \/ Register \/ Load \/ PollSleep \/ TickReturns \/ Store
            \/ ResetSleep \/ Release

Next ==
    \/ Poll
    \/ TickFails
    \/ \E thread \in Thread :
          (\E t \in Time : HastenMin(thread, t)) \/ HastenWake(thread)
    \/ LetGo
    \/ Fire
    \/ Advance

Spec == Init /\ [][Next]_vars

\* The executor runs a woken task, ticks return, the timer fires, and a
\* call of hasten that has begun ends.
Fairness ==
    /\ WF_vars(Poll)
    /\ WF_vars(Fire)
    /\ \A thread \in Thread : WF_vars(HastenWake(thread))

FairSpec == Spec /\ Fairness

-----------------------------------------------------------------------------
(* Properties                                                              *)

\* The task is left to the timer: not running, not woken, and no hasten is
\* about to wake it.
Asleep ==
    /\ pc = "idle" /\ ~woken /\ arc = "held"
    /\ \A thread \in Thread : calls[thread] = "out"

\* No wake-up is lost: a sleeping task has a Sleep that will wake it no
\* later than next_tick, wherever the hastens fell between its steps.
NoLostWakeup ==
    Asleep /\ next_tick # NoTick => sleep <= next_tick /\ armed

\* A sleeping task can always be woken by the next hasten.
StaysReachable == Asleep => registered

\* A hasten that meets no tick is honoured: the task wakes up, and then
\* ticks, no later than it asks.
HastenHonoured == Asleep => sleep <= promise

\* The future is an alarm of module Alarm.
AlarmOf == INSTANCE Alarm WITH
    AlarmTimes <- Time,
    Never      <- NoTick,
    due        <- next_tick,
    state      <- IF InTick THEN "ringing" ELSE IF pc = "done" THEN "off" ELSE "set",
    held       <- arc = "held"

\* scheduler.rs: a tick never begins before the time that is set by the last
\* tick and the hastens since, in whatever order the accesses fall; and the
\* future ends for no other reason than a failed tick or a dropped service.
ImplementsAlarm == AlarmOf!AlarmSpec

\* A tick that is due takes place, unless the task has ended or the others
\* let it go.  (While a tick runs, next_tick is about to be replaced.)
DueTicks ==
    (next_tick <= now /\ ~InTick) ~> (pc \in {"tick", "done"} \/ arc # "held")

\* The future completes once the others have dropped the service.
EndsAfterDrop == (arc # "held") ~> (pc = "done")

=============================================================================
