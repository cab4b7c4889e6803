---------------------------- MODULE SchedulerProofs ----------------------------
(***************************************************************************)
(* Proofs about Scheduler, for every set of threads, every bound on the    *)
(* clock and every time that stands for no tick: the steps of the future,  *)
(* of the threads that hasten it and of the timer in any order.            *)
(***************************************************************************)
EXTENDS Scheduler, TLAPS

-----------------------------------------------------------------------------
(* Types                                                                   *)

\* Every step keeps the types.
LEMMA TypeStep ==
    ASSUME TypeOK, [Next]_vars
    PROVE  TypeOK'
<1> USE SchedulerAssumption DEF Time, Tick
<1>1. CASE Upgrade
    BY <1>1 DEF Upgrade, TypeOK, timer
<1>2. CASE Register
    BY <1>2 DEF Register, TypeOK, timer
<1>3. CASE Load
    BY <1>3 DEF Load, TypeOK, timer
<1>4. CASE PollSleep
    BY <1>4 DEF PollSleep, TypeOK, timer
<1>5. CASE TickReturns
    BY <1>5 DEF TickReturns, TypeOK, timer
<1>6. CASE Store
    BY <1>6 DEF Store, TypeOK, timer
<1>7. CASE ResetSleep
    BY <1>7 DEF ResetSleep, TypeOK, timer
<1>8. CASE Release
    BY <1>8 DEF Release, TypeOK, timer
<1>9. CASE TickFails
    BY <1>9 DEF TickFails, TypeOK, timer
<1>10. ASSUME NEW thread \in Thread, NEW t \in Time, HastenMin(thread, t) PROVE  TypeOK'
    BY <1>10 DEF HastenMin, Earlier, InTick, TypeOK, timer
<1>11. ASSUME NEW thread \in Thread, HastenWake(thread) PROVE  TypeOK'
    BY <1>11 DEF HastenWake, TypeOK, timer
<1>12. CASE LetGo
    BY <1>12 DEF LetGo, TypeOK, timer
<1>13. CASE Fire
    BY <1>13 DEF Fire, TypeOK, timer
<1>14. CASE Advance
    BY <1>14 DEF Advance, TypeOK, timer
<1>15. CASE UNCHANGED vars
    BY <1>15 DEF vars, TypeOK, timer
<1> QED
    BY <1>1, <1>2, <1>3, <1>4, <1>5, <1>6, <1>7, <1>8, <1>9, <1>10, <1>11, <1>12, <1>13, <1>14, <1>15 DEF Next, Poll

-----------------------------------------------------------------------------
(* The time of a tick                                                      *)

\* The Sleep, or the tick that it is about to be reset to, is never set for
\* a time before next_tick; so it has not elapsed before that.
SleepInv ==
    /\ fired => sleep <= now
    /\ pc # "reset" => next_tick <= sleep
    /\ pc = "reset" => next_tick <= result

\* Every step keeps it.
LEMMA SleepStep ==
    ASSUME TypeOK, SleepInv, [Next]_vars
    PROVE  SleepInv'
<1> USE SchedulerAssumption DEF Time, Tick
<1>1. CASE Upgrade
    BY <1>1 DEF Upgrade, SleepInv, TypeOK, timer
<1>2. CASE Register
    BY <1>2 DEF Register, SleepInv, TypeOK, timer
<1>3. CASE Load
    BY <1>3 DEF Load, SleepInv, TypeOK, timer
<1>4. CASE PollSleep
    BY <1>4 DEF PollSleep, SleepInv, TypeOK, timer
<1>5. CASE TickReturns
    BY <1>5 DEF TickReturns, SleepInv, TypeOK, timer
<1>6. CASE Store
    BY <1>6 DEF Store, SleepInv, TypeOK, timer
<1>7. CASE ResetSleep
    BY <1>7 DEF ResetSleep, SleepInv, TypeOK, timer
<1>8. CASE Release
    BY <1>8 DEF Release, SleepInv, TypeOK, timer
<1>9. CASE TickFails
    BY <1>9 DEF TickFails, SleepInv, TypeOK, timer
<1>10. ASSUME NEW thread \in Thread, NEW t \in Time, HastenMin(thread, t) PROVE  SleepInv'
    BY <1>10 DEF HastenMin, Earlier, InTick, SleepInv, TypeOK, timer
<1>11. ASSUME NEW thread \in Thread, HastenWake(thread) PROVE  SleepInv'
    BY <1>11 DEF HastenWake, SleepInv, TypeOK, timer
<1>12. CASE LetGo
    BY <1>12 DEF LetGo, SleepInv, TypeOK, timer
<1>13. CASE Fire
    BY <1>13 DEF Fire, SleepInv, TypeOK, timer
<1>14. CASE Advance
    BY <1>14 DEF Advance, SleepInv, TypeOK, timer
<1>15. CASE UNCHANGED vars
    BY <1>15 DEF vars, SleepInv, TypeOK, timer
<1> QED
    BY <1>1, <1>2, <1>3, <1>4, <1>5, <1>6, <1>7, <1>8, <1>9, <1>10, <1>11, <1>12, <1>13, <1>14, <1>15 DEF Next, Poll

-----------------------------------------------------------------------------
(* Wake-ups                                                                *)

\* The task will be polled again, by an earlier wake or by that of a hasten
\* which has changed next_tick and will find the waker.
WakeComes == woken \/ (registered /\ \E thread \in Thread : calls[thread] = "min")

\* Between two polls, and in a poll from the register on, a hasten finds the
\* waker or the task is woken already.  What has been loaded of next_tick is
\* its value still, or a wake comes.  A Sleep that was polled holds the waker,
\* or has given it up for a wake.
WakeInv ==
    /\ registered \/ woken \/ pc \in {"register", "done"} \/ arc = "dropped"
    /\ pc \in {"idle", "sleep", "release"} => WakeComes \/ sleep <= next_tick
    /\ pc = "reset" => WakeComes \/ result <= next_tick
    /\ pc \in {"tick", "store", "reset"} => armed \/ woken
    /\ pc \in {"idle", "release"} => armed \/ woken \/ sleep = NoTick

\* Every step keeps it.
LEMMA WakeStep ==
    ASSUME TypeOK, WakeInv, [Next]_vars
    PROVE  WakeInv'
<1> USE SchedulerAssumption DEF Time, Tick
<1>1. CASE Upgrade
    BY <1>1 DEF Upgrade, WakeInv, WakeComes, TypeOK, timer
<1>2. CASE Register
    BY <1>2 DEF Register, WakeInv, WakeComes, TypeOK, timer
<1>3. CASE Load
    BY <1>3 DEF Load, WakeInv, WakeComes, TypeOK, timer
<1>4. CASE PollSleep
    BY <1>4 DEF PollSleep, WakeInv, WakeComes, TypeOK, timer
<1>5. CASE TickReturns
    BY <1>5 DEF TickReturns, WakeInv, WakeComes, TypeOK, timer
<1>6. CASE Store
    BY <1>6 DEF Store, WakeInv, WakeComes, TypeOK, timer
<1>7. CASE ResetSleep
    BY <1>7 DEF ResetSleep, WakeInv, WakeComes, TypeOK, timer
<1>8. CASE Release
    BY <1>8 DEF Release, WakeInv, WakeComes, TypeOK, timer
<1>9. CASE TickFails
    BY <1>9 DEF TickFails, WakeInv, WakeComes, TypeOK, timer
<1>10. ASSUME NEW thread \in Thread, NEW t \in Time, HastenMin(thread, t) PROVE  WakeInv'
    BY <1>10 DEF HastenMin, Earlier, InTick, WakeInv, WakeComes, TypeOK, timer
<1>11. ASSUME NEW thread \in Thread, HastenWake(thread) PROVE  WakeInv'
    BY <1>11 DEF HastenWake, WakeInv, WakeComes, TypeOK, timer
<1>12. CASE LetGo
    BY <1>12 DEF LetGo, WakeInv, WakeComes, TypeOK, timer
<1>13. CASE Fire
    BY <1>13 DEF Fire, WakeInv, WakeComes, TypeOK, timer
<1>14. CASE Advance
    BY <1>14 DEF Advance, WakeInv, WakeComes, TypeOK, timer
<1>15. CASE UNCHANGED vars
    BY <1>15 DEF vars, WakeInv, WakeComes, TypeOK, timer
<1> QED
    BY <1>1, <1>2, <1>3, <1>4, <1>5, <1>6, <1>7, <1>8, <1>9, <1>10, <1>11, <1>12, <1>13, <1>14, <1>15 DEF Next, Poll

-----------------------------------------------------------------------------
(* What hasten asks for                                                    *)

\* next_tick is no later than any hasten since the last tick, and a hasten
\* that meets a tick is not counted.
PromiseInv ==
    /\ next_tick <= promise
    /\ InTick => promise = NoTick

\* Every step keeps it.
LEMMA PromiseStep ==
    ASSUME TypeOK, PromiseInv, [Next]_vars
    PROVE  PromiseInv'
<1> USE SchedulerAssumption DEF Time, Tick
<1>1. CASE Upgrade
    BY <1>1 DEF Upgrade, PromiseInv, InTick, TypeOK, timer
<1>2. CASE Register
    BY <1>2 DEF Register, PromiseInv, InTick, TypeOK, timer
<1>3. CASE Load
    BY <1>3 DEF Load, PromiseInv, InTick, TypeOK, timer
<1>4. CASE PollSleep
    BY <1>4 DEF PollSleep, PromiseInv, InTick, TypeOK, timer
<1>5. CASE TickReturns
    BY <1>5 DEF TickReturns, PromiseInv, InTick, TypeOK, timer
<1>6. CASE Store
    BY <1>6 DEF Store, PromiseInv, InTick, TypeOK, timer
<1>7. CASE ResetSleep
    BY <1>7 DEF ResetSleep, PromiseInv, InTick, TypeOK, timer
<1>8. CASE Release
    BY <1>8 DEF Release, PromiseInv, InTick, TypeOK, timer
<1>9. CASE TickFails
    BY <1>9 DEF TickFails, PromiseInv, InTick, TypeOK, timer
<1>10. ASSUME NEW thread \in Thread, NEW t \in Time, HastenMin(thread, t) PROVE  PromiseInv'
    BY <1>10 DEF HastenMin, Earlier, InTick, PromiseInv, InTick, TypeOK, timer
<1>11. ASSUME NEW thread \in Thread, HastenWake(thread) PROVE  PromiseInv'
    BY <1>11 DEF HastenWake, PromiseInv, InTick, TypeOK, timer
<1>12. CASE LetGo
    BY <1>12 DEF LetGo, PromiseInv, InTick, TypeOK, timer
<1>13. CASE Fire
    BY <1>13 DEF Fire, PromiseInv, InTick, TypeOK, timer
<1>14. CASE Advance
    BY <1>14 DEF Advance, PromiseInv, InTick, TypeOK, timer
<1>15. CASE UNCHANGED vars
    BY <1>15 DEF vars, PromiseInv, InTick, TypeOK, timer
<1> QED
    BY <1>1, <1>2, <1>3, <1>4, <1>5, <1>6, <1>7, <1>8, <1>9, <1>10, <1>11, <1>12, <1>13, <1>14, <1>15 DEF Next, Poll

-----------------------------------------------------------------------------
(* The theorems                                                            *)

\* The inductive invariant: the types, and the three parts above.
SchedulerInv == TypeOK /\ SleepInv /\ WakeInv /\ PromiseInv

\* Handle::new and Scheduler::new establish it.
LEMMA SchedulerInit == Init => SchedulerInv
<1> SUFFICES ASSUME Init PROVE SchedulerInv
    OBVIOUS
<1> USE SchedulerAssumption DEF Time, Tick
<1>1. TypeOK
    <2>1. now \in Time /\ next_tick \in Tick /\ sleep \in Tick /\ result \in Tick
          /\ promise \in Tick
        BY DEF Init
    <2>2. calls \in [Thread -> {"out", "min"}]
        BY DEF Init
    <2>3. /\ pc = "idle" /\ arc = "held"
          /\ registered = FALSE /\ woken = TRUE /\ fired = FALSE /\ armed = FALSE
        BY DEF Init
    <2> QED  BY <2>1, <2>2, <2>3 DEF TypeOK
<1>2. SleepInv
    BY DEF Init, SleepInv
<1>3. WakeInv
    BY DEF Init, WakeInv, WakeComes
<1>4. PromiseInv
    BY DEF Init, PromiseInv, InTick
<1> QED  BY <1>1, <1>2, <1>3, <1>4 DEF SchedulerInv

\* Every step keeps it.
LEMMA SchedulerStep == SchedulerInv /\ [Next]_vars => SchedulerInv'
BY TypeStep, SleepStep, WakeStep, PromiseStep DEF SchedulerInv

\* It is an invariant of the specification.
LEMMA SchedulerInvariant == Spec => []SchedulerInv
BY SchedulerInit, SchedulerStep, PTL DEF Spec

\* scheduler.rs: the types.
THEOREM SchedulerTypeCorrect == Spec => []TypeOK
<1>1. SchedulerInv => TypeOK
    BY DEF SchedulerInv
<1> QED  BY SchedulerInvariant, <1>1, PTL

\* scheduler.rs: wherever the hastens fall between the steps of a poll, a
\* sleeping task has a Sleep that wakes it no later than next_tick.
THEOREM WakeupsAreKept == Spec => []NoLostWakeup
<1>1. SchedulerInv => NoLostWakeup
    BY SchedulerAssumption DEF SchedulerInv, TypeOK, WakeInv, WakeComes, NoLostWakeup, Asleep, Time, Tick
<1> QED  BY SchedulerInvariant, <1>1, PTL

\* Handle::hasten: the waker of a sleeping task is there to be taken.
THEOREM TaskStaysReachable == Spec => []StaysReachable
<1>1. SchedulerInv => StaysReachable
    BY DEF SchedulerInv, TypeOK, WakeInv, StaysReachable, Asleep
<1> QED  BY SchedulerInvariant, <1>1, PTL

\* Handle::hasten: a sleeping task wakes up no later than the earliest hasten
\* since its last tick.
THEOREM HastensAreHonoured == Spec => []HastenHonoured
<1>1. SchedulerInv => HastenHonoured
    BY SchedulerAssumption
    DEF SchedulerInv, TypeOK, WakeInv, WakeComes, PromiseInv, HastenHonoured, Asleep, Time, Tick
<1> QED  BY SchedulerInvariant, <1>1, PTL

\* scheduler.rs: each step of the future, of a hasten or of the timer is a
\* step of the alarm or none.
LEMMA AlarmStep ==
    ASSUME TypeOK, SleepInv, [Next]_vars
    PROVE  [AlarmOf!AlarmNext]_(AlarmOf!alarm_vars)
<1> USE SchedulerAssumption DEF Time, Tick, InTick, AlarmOf!alarm_vars
<1>1. CASE Upgrade
    BY <1>1 DEF Upgrade, SleepInv, TypeOK, timer, AlarmOf!AlarmNext, AlarmOf!Stop
<1>2. CASE Register
    BY <1>2 DEF Register, SleepInv, TypeOK, timer
<1>3. CASE Load
    BY <1>3 DEF Load, SleepInv, TypeOK, timer
<1>4. CASE PollSleep
    BY <1>4 DEF PollSleep, SleepInv, TypeOK, timer, AlarmOf!AlarmNext, AlarmOf!Ring
<1>5. CASE TickReturns
    BY <1>5 DEF TickReturns, SleepInv, TypeOK, timer
<1>6. CASE Store
    BY <1>6 DEF Store, SleepInv, TypeOK, timer, AlarmOf!AlarmNext, AlarmOf!Answer
<1>7. CASE ResetSleep
    BY <1>7 DEF ResetSleep, SleepInv, TypeOK, timer
<1>8. CASE Release
    BY <1>8 DEF Release, SleepInv, TypeOK, timer
<1>9. CASE TickFails
    BY <1>9 DEF TickFails, SleepInv, TypeOK, timer, AlarmOf!AlarmNext, AlarmOf!AnswerFails
<1>10. ASSUME NEW thread \in Thread, NEW t \in Time, HastenMin(thread, t) PROVE  [AlarmOf!AlarmNext]_(AlarmOf!alarm_vars)
    BY <1>10 DEF HastenMin, Earlier, TypeOK, timer, AlarmOf!AlarmNext, AlarmOf!Hasten
<1>11. ASSUME NEW thread \in Thread, HastenWake(thread) PROVE  [AlarmOf!AlarmNext]_(AlarmOf!alarm_vars)
    BY <1>11 DEF HastenWake, timer
<1>12. CASE LetGo
    BY <1>12 DEF LetGo, TypeOK, timer, AlarmOf!AlarmNext, AlarmOf!Drop
<1>13. CASE Fire
    BY <1>13 DEF Fire, TypeOK, timer
<1>14. CASE Advance
    BY <1>14 DEF Advance, TypeOK, timer, AlarmOf!AlarmNext, AlarmOf!Pass
<1>15. CASE UNCHANGED vars
    BY <1>15 DEF vars
<1> QED
    BY <1>1, <1>2, <1>3, <1>4, <1>5, <1>6, <1>7, <1>8, <1>9, <1>10, <1>11, <1>12, <1>13, <1>14, <1>15 DEF Next, Poll

\* scheduler.rs: the future, its Sleep, its wakers and the calls of hasten
\* together are an alarm that never rings before its time.
THEOREM SchedulerIsAlarm == Spec => ImplementsAlarm
<1>1. Init => AlarmOf!AlarmInit
    BY DEF Init, AlarmOf!AlarmInit, InTick, Tick
<1>2. SchedulerInv /\ [Next]_vars => [AlarmOf!AlarmNext]_(AlarmOf!alarm_vars)
    BY AlarmStep DEF SchedulerInv
<1> QED
    BY SchedulerInvariant, <1>1, <1>2, PTL DEF Spec, ImplementsAlarm, AlarmOf!AlarmSpec

=============================================================================
