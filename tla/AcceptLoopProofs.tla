--------------------------- MODULE AcceptLoopProofs ---------------------------
(***************************************************************************)
(* Proofs about AcceptLoop, for every set of tasks, every MAX_BACKOFF and  *)
(* every bound.                                                            *)
(***************************************************************************)
EXTENDS AcceptLoop, TLAPS

-----------------------------------------------------------------------------
(* Types                                                                   *)

\* A connection that has arrived has its place, and a wait is one of the
\* Sleep that there is.
TypeInv ==
    /\ AcceptTypeOK
    /\ incoming = "sock" => conns < MaxConns
    /\ wait > 0 => deadline # NoTimer

\* Builder::build makes what the types say.
LEMMA TypeInit == ASSUME AcceptInit PROVE TypeInv
<1> USE AcceptAssumption DEF AcceptInit
<1>1. {in_task, timer_task, rx_task} \subseteq Task \cup {Nobody}
    OBVIOUS
<1>2. poller \in Task /\ notified \subseteq Task
    OBVIOUS
<1>3. wait \in 0..(2 * MAX_BACKOFF) /\ first_error \in 0..MaxTime \cup {NoTimer}
    OBVIOUS
<1>4. clock \in 0..MaxTime /\ queue \in 0..MaxQueue /\ conns \in 0..MaxConns
    OBVIOUS
<1>5. AcceptTypeOK
    BY <1>1, <1>2, <1>3, <1>4 DEF AcceptTypeOK
<1>6. ~(wait > 0) /\ incoming # "sock"
    OBVIOUS
<1> QED  BY <1>5, <1>6 DEF TypeInv

\* Every step of the stream and of what surrounds it keeps the types.
LEMMA TypeStep ==
    ASSUME TypeInv, [AcceptNext]_accept_vars
    PROVE  TypeInv'
<1> USE AcceptAssumption
<1>1. CASE PollBackoff
    BY <1>1 DEF PollBackoff, TypeInv, AcceptTypeOK, backoff, channel
<1>2. CASE AcceptPending
    BY <1>2 DEF AcceptPending, TypeInv, AcceptTypeOK, backoff, channel
<1>3. CASE AcceptNone
    BY <1>3 DEF AcceptNone, TypeInv, AcceptTypeOK, backoff, channel
<1>4. CASE AcceptError
    <2>1. /\ wait' \in 0..(2 * MAX_BACKOFF)
          /\ deadline' \in Nat \cup {NoTimer}
          /\ wait' > 0 => deadline' # NoTimer
        <3>1. CASE wait >= MAX_BACKOFF
            BY <1>4, <3>1 DEF AcceptError, TypeInv, AcceptTypeOK
        <3>2. CASE ~(wait >= MAX_BACKOFF)
            BY <1>4, <3>2 DEF AcceptError, increase, INITIAL_WAIT, TypeInv, AcceptTypeOK
        <3> QED  BY <3>1, <3>2
    <2>4. first_error' \in 0..MaxTime \cup {NoTimer}
        BY <1>4 DEF AcceptError, TypeInv, AcceptTypeOK
    <2>5. fired' \in BOOLEAN
        <3>1. fired' = fired \/ fired' = FALSE
            BY <1>4, Zenon DEF AcceptError, increase
        <3> QED
            BY <3>1, Zenon DEF TypeInv, AcceptTypeOK
    <2>2. moved' \in BOOLEAN
        <3>1. moved' = moved \/ moved' = (moved /\ deadline # NoTimer)
            BY <1>4, Zenon DEF AcceptError, increase
        <3> QED
            BY <3>1, Zenon DEF TypeInv, AcceptTypeOK
    <2>3. timer_task' \in Task \cup {Nobody}
        BY <1>4 DEF AcceptError, increase, TypeInv, AcceptTypeOK
    <2> QED
        BY <1>4, <2>1, <2>2, <2>3, <2>4, <2>5
        DEF AcceptError, TypeInv, AcceptTypeOK, channel
<1>5. CASE AcceptSock
    BY <1>5 DEF AcceptSock, TypeInv, AcceptTypeOK, backoff, channel
<1>6. CASE RecvUpdate
    BY <1>6 DEF RecvUpdate, TypeInv, AcceptTypeOK, backoff, channel
<1>7. CASE RecvPending
    BY <1>7 DEF RecvPending, TypeInv, AcceptTypeOK, backoff, channel
<1>8. CASE CountArcs
    BY <1>8 DEF CountArcs, strong_count, TypeInv, AcceptTypeOK, backoff, channel
<1>9. CASE BodyRead
    BY <1>9 DEF BodyRead, TypeInv, AcceptTypeOK, backoff, channel
<1>10. ASSUME NEW what \in {"sock", "error", "end"}, Arrive(what) PROVE  TypeInv'
    BY <1>10 DEF Arrive, Open, TypeInv, AcceptTypeOK, backoff, channel
<1>11. CASE Send
    BY <1>11 DEF Send, Open, TypeInv, AcceptTypeOK, backoff, channel
<1>12. CASE Close
    BY <1>12 DEF Close, TypeInv, AcceptTypeOK, backoff, channel
<1>13. CASE Renewal
    BY <1>13 DEF Renewal, Open, TypeInv, AcceptTypeOK, backoff, channel
<1>14. ASSUME NEW task \in Task, Move(task) PROVE  TypeInv'
    BY <1>14 DEF Move, TypeInv, AcceptTypeOK, backoff, channel
<1>15. CASE FireSleep
    BY <1>15 DEF FireSleep, Open, TypeInv, AcceptTypeOK, backoff, channel
<1>16. CASE Pass
    BY <1>16 DEF Pass, Open, TypeInv, AcceptTypeOK, backoff, channel
<1>17. CASE UNCHANGED accept_vars
    BY <1>17 DEF TypeInv, AcceptTypeOK, backoff, channel, accept_vars
<1> QED
    BY <1>1, <1>2, <1>3, <1>4, <1>5, <1>6, <1>7, <1>8, <1>9, <1>10, <1>11, <1>12, <1>13, <1>14, <1>15, <1>16, <1>17 DEF AcceptNext, PollStream

\* subscriber.rs, backoff.rs: the types, and with them the bounds of the
\* wait: it never exceeds twice the limit.
THEOREM AcceptTypeCorrect == AcceptSpec => []AcceptTypeOK
<1>1. AcceptInit => TypeInv
    BY TypeInit
<1>2. TypeInv /\ [AcceptNext]_accept_vars => TypeInv'
    BY TypeStep
<1>3. TypeInv => AcceptTypeOK
    BY DEF TypeInv
<1> QED  BY <1>1, <1>2, <1>3, PTL DEF AcceptSpec

-----------------------------------------------------------------------------
(* The series of waits                                                     *)

\* A series of errors began at first_error; the waits so far add up to one
\* less than twice the last.  An error is only met after its wait.
SeriesInv ==
    /\ at # "failed" => (wait = 0 <=> first_error = NoTimer)
    /\ wait > 0 => first_error \in Nat /\ deadline = first_error + 2 * wait - 1
    /\ fired => deadline <= clock
    /\ at = "accept" /\ wait > 0 => fired
    /\ GivesUpAfterSeries

\* Every step keeps the sum of the waits.
LEMMA SeriesStep ==
    ASSUME TypeInv, SeriesInv, [AcceptNext]_accept_vars
    PROVE  SeriesInv'
<1> USE AcceptAssumption
<1>1. CASE PollBackoff
    BY <1>1 DEF PollBackoff, SeriesInv, GivesUpAfterSeries, TypeInv, AcceptTypeOK, backoff, channel
<1>2. CASE AcceptPending
    BY <1>2 DEF AcceptPending, SeriesInv, GivesUpAfterSeries, TypeInv, AcceptTypeOK, backoff, channel
<1>3. CASE AcceptNone
    BY <1>3 DEF AcceptNone, SeriesInv, GivesUpAfterSeries, TypeInv, AcceptTypeOK, backoff, channel
<1>4. CASE AcceptError
    BY <1>4 DEF AcceptError, increase, INITIAL_WAIT, SeriesInv, GivesUpAfterSeries, TypeInv, AcceptTypeOK, backoff, channel
<1>5. CASE AcceptSock
    BY <1>5 DEF AcceptSock, SeriesInv, GivesUpAfterSeries, TypeInv, AcceptTypeOK, backoff, channel
<1>6. CASE RecvUpdate
    BY <1>6 DEF RecvUpdate, SeriesInv, GivesUpAfterSeries, TypeInv, AcceptTypeOK, backoff, channel
<1>7. CASE RecvPending
    BY <1>7 DEF RecvPending, SeriesInv, GivesUpAfterSeries, TypeInv, AcceptTypeOK, backoff, channel
<1>8. CASE CountArcs
    BY <1>8 DEF CountArcs, strong_count, SeriesInv, GivesUpAfterSeries, TypeInv, AcceptTypeOK, backoff, channel
<1>9. CASE BodyRead
    BY <1>9 DEF BodyRead, SeriesInv, GivesUpAfterSeries, TypeInv, AcceptTypeOK, backoff, channel
<1>10. ASSUME NEW what \in {"sock", "error", "end"}, Arrive(what) PROVE  SeriesInv'
    BY <1>10 DEF Arrive, Open, SeriesInv, GivesUpAfterSeries, TypeInv, AcceptTypeOK, backoff, channel
<1>11. CASE Send
    BY <1>11 DEF Send, Open, SeriesInv, GivesUpAfterSeries, TypeInv, AcceptTypeOK, backoff, channel
<1>12. CASE Close
    BY <1>12 DEF Close, SeriesInv, GivesUpAfterSeries, TypeInv, AcceptTypeOK, backoff, channel
<1>13. CASE Renewal
    BY <1>13 DEF Renewal, Open, SeriesInv, GivesUpAfterSeries, TypeInv, AcceptTypeOK, backoff, channel
<1>14. ASSUME NEW task \in Task, Move(task) PROVE  SeriesInv'
    BY <1>14 DEF Move, SeriesInv, GivesUpAfterSeries, TypeInv, AcceptTypeOK, backoff, channel
<1>15. CASE FireSleep
    BY <1>15 DEF FireSleep, Open, SeriesInv, GivesUpAfterSeries, TypeInv, AcceptTypeOK, backoff, channel
<1>16. CASE Pass
    BY <1>16 DEF Pass, Open, SeriesInv, GivesUpAfterSeries, TypeInv, AcceptTypeOK, backoff, channel
<1>17. CASE UNCHANGED accept_vars
    BY <1>17 DEF SeriesInv, GivesUpAfterSeries, TypeInv, AcceptTypeOK, backoff, channel, accept_vars
<1> QED
    BY <1>1, <1>2, <1>3, <1>4, <1>5, <1>6, <1>7, <1>8, <1>9, <1>10, <1>11, <1>12, <1>13, <1>14, <1>15, <1>16, <1>17 DEF AcceptNext, PollStream

\* accept_all gives an error to the consumer only after the whole series.
THEOREM GivesUp == AcceptSpec => []GivesUpAfterSeries
<1>1. AcceptInit => TypeInv /\ SeriesInv
    <2> SUFFICES ASSUME AcceptInit PROVE SeriesInv
        BY TypeInit
    <2>1. at = "idle" /\ wait = 0 /\ first_error = NoTimer /\ fired = FALSE
        BY DEF AcceptInit
    <2> QED  BY <2>1 DEF SeriesInv, GivesUpAfterSeries
<1>2. TypeInv /\ SeriesInv /\ [AcceptNext]_accept_vars => TypeInv' /\ SeriesInv'
    BY TypeStep, SeriesStep
<1>3. SeriesInv => GivesUpAfterSeries
    BY DEF SeriesInv
<1> QED  BY <1>1, <1>2, <1>3, PTL DEF AcceptSpec

-----------------------------------------------------------------------------
(* The waker of the Sleep                                                  *)

\* Who the Sleep wakes: a Sleep without a wait has fired, and has been
\* polled by the owner of the stream unless that has changed; an error is
\* met in the poll that has just polled the Sleep.
WakerInv ==
    /\ wait = 0 /\ deadline # NoTimer => fired /\ (timer_task = poller \/ moved)
    /\ at = "accept" /\ wait > 0 => fired /\ timer_task = poller
    /\ wait > 0 =>
          \/ timer_task = poller \/ poller \in notified
          \/ wait = INITIAL_WAIT /\ moved

\* Every step leaves the Sleep with a waker that is good for the stream.
LEMMA WakerStep ==
    ASSUME TypeInv, WakerInv, [AcceptNext]_accept_vars
    PROVE  WakerInv'
<1> USE AcceptAssumption DEF INITIAL_WAIT
<1>1. CASE PollBackoff
    BY <1>1 DEF PollBackoff, WakerInv, TypeInv, AcceptTypeOK, backoff, channel
<1>2. CASE AcceptPending
    BY <1>2 DEF AcceptPending, WakerInv, TypeInv, AcceptTypeOK, backoff, channel
<1>3. CASE AcceptNone
    BY <1>3 DEF AcceptNone, WakerInv, TypeInv, AcceptTypeOK, backoff, channel
<1>4. CASE AcceptError
    BY <1>4 DEF AcceptError, increase, WakerInv, TypeInv, AcceptTypeOK, backoff, channel
<1>5. CASE AcceptSock
    BY <1>5 DEF AcceptSock, WakerInv, TypeInv, AcceptTypeOK, backoff, channel
<1>6. CASE RecvUpdate
    BY <1>6 DEF RecvUpdate, WakerInv, TypeInv, AcceptTypeOK, backoff, channel
<1>7. CASE RecvPending
    BY <1>7 DEF RecvPending, WakerInv, TypeInv, AcceptTypeOK, backoff, channel
<1>8. CASE CountArcs
    BY <1>8 DEF CountArcs, strong_count, WakerInv, TypeInv, AcceptTypeOK, backoff, channel
<1>9. CASE BodyRead
    BY <1>9 DEF BodyRead, WakerInv, TypeInv, AcceptTypeOK, backoff, channel
<1>10. ASSUME NEW what \in {"sock", "error", "end"}, Arrive(what) PROVE  WakerInv'
    BY <1>10 DEF Arrive, Open, WakerInv, TypeInv, AcceptTypeOK, backoff, channel
<1>11. CASE Send
    BY <1>11 DEF Send, Open, WakerInv, TypeInv, AcceptTypeOK, backoff, channel
<1>12. CASE Close
    BY <1>12 DEF Close, WakerInv, TypeInv, AcceptTypeOK, backoff, channel
<1>13. CASE Renewal
    BY <1>13 DEF Renewal, Open, WakerInv, TypeInv, AcceptTypeOK, backoff, channel
<1>14. ASSUME NEW task \in Task, Move(task) PROVE  WakerInv'
    BY <1>14 DEF Move, WakerInv, TypeInv, AcceptTypeOK, backoff, channel
<1>15. CASE FireSleep
    BY <1>15 DEF FireSleep, Open, WakerInv, TypeInv, AcceptTypeOK, backoff, channel
<1>16. CASE Pass
    BY <1>16 DEF Pass, Open, WakerInv, TypeInv, AcceptTypeOK, backoff, channel
<1>17. CASE UNCHANGED accept_vars
    BY <1>17 DEF WakerInv, TypeInv, AcceptTypeOK, backoff, channel, accept_vars
<1> QED
    BY <1>1, <1>2, <1>3, <1>4, <1>5, <1>6, <1>7, <1>8, <1>9, <1>10, <1>11, <1>12, <1>13, <1>14, <1>15, <1>16, <1>17 DEF AcceptNext, PollStream

\* The end of a wait wakes the task that owns the stream, but for the first
\* wait of a later series when the stream has moved.
THEOREM RetriesWakePoller == AcceptSpec => []RetryWakesPoller
<1>1. AcceptInit => TypeInv /\ WakerInv
    BY TypeInit DEF AcceptInit, WakerInv
<1>2. TypeInv /\ WakerInv /\ [AcceptNext]_accept_vars => TypeInv' /\ WakerInv'
    BY TypeStep, WakerStep
<1>3. WakerInv => RetryWakesPoller
    BY DEF WakerInv, RetryWakesPoller, Waiting
<1> QED  BY <1>1, <1>2, <1>3, PTL DEF AcceptSpec

-----------------------------------------------------------------------------
(* The end of the stream                                                   *)

\* The poll does not get to the listener: a wait is not over, or its end
\* has woken somebody else.
Blocked == wait > 0 /\ (~fired \/ timer_task # poller)

\* What a poll knows of the listener and the channel at each of its steps,
\* and what wakes the task between polls.
EndInv ==
    /\ at = "accept" => ~incoming_done
    /\ at \in {"recv", "count"} /\ incoming_done => incoming = "end"
    /\ at = "count" => incoming_done
    /\ at \in {"recv", "idle"} /\ incoming = "empty" =>
          in_task = poller \/ poller \in notified \/ Blocked
    /\ at = "recv" /\ incoming = "end" =>
          incoming_done \/ poller \in notified \/ Blocked
    /\ at = "idle" /\ incoming = "end" =>
          counted > 1 \/ poller \in notified \/ Blocked
    /\ at = "count" => queue = late
    /\ NothingLeftAtEnd

\* Every step keeps it.
LEMMA EndStep ==
    ASSUME TypeInv, EndInv, [AcceptNext]_accept_vars
    PROVE  EndInv'
<1> USE AcceptAssumption
<1>1. CASE PollBackoff
    BY <1>1 DEF PollBackoff, EndInv, NothingLeftAtEnd, Blocked, TypeInv, AcceptTypeOK, backoff, channel
<1>2. CASE AcceptPending
    BY <1>2 DEF AcceptPending, EndInv, NothingLeftAtEnd, Blocked, TypeInv, AcceptTypeOK, backoff, channel
<1>3. CASE AcceptNone
    BY <1>3 DEF AcceptNone, EndInv, NothingLeftAtEnd, Blocked, TypeInv, AcceptTypeOK, backoff, channel
<1>4. CASE AcceptError
    BY <1>4 DEF AcceptError, increase, INITIAL_WAIT, EndInv, NothingLeftAtEnd, Blocked, TypeInv, AcceptTypeOK, backoff, channel
<1>5. CASE AcceptSock
    BY <1>5 DEF AcceptSock, EndInv, NothingLeftAtEnd, Blocked, TypeInv, AcceptTypeOK, backoff, channel
<1>6. CASE RecvUpdate
    BY <1>6 DEF RecvUpdate, EndInv, NothingLeftAtEnd, Blocked, TypeInv, AcceptTypeOK, backoff, channel
<1>7. CASE RecvPending
    BY <1>7 DEF RecvPending, EndInv, NothingLeftAtEnd, Blocked, TypeInv, AcceptTypeOK, backoff, channel
<1>8. CASE CountArcs
    BY <1>8 DEF CountArcs, strong_count, EndInv, NothingLeftAtEnd, Blocked, TypeInv, AcceptTypeOK, backoff, channel
<1>9. CASE BodyRead
    BY <1>9 DEF BodyRead, EndInv, NothingLeftAtEnd, Blocked, TypeInv, AcceptTypeOK, backoff, channel
<1>10. ASSUME NEW what \in {"sock", "error", "end"}, Arrive(what) PROVE  EndInv'
    BY <1>10 DEF Arrive, Open, EndInv, NothingLeftAtEnd, Blocked, TypeInv, AcceptTypeOK, backoff, channel
<1>11. CASE Send
    BY <1>11 DEF Send, Open, EndInv, NothingLeftAtEnd, Blocked, TypeInv, AcceptTypeOK, backoff, channel
<1>12. CASE Close
    BY <1>12 DEF Close, EndInv, NothingLeftAtEnd, Blocked, TypeInv, AcceptTypeOK, backoff, channel
<1>13. CASE Renewal
    BY <1>13 DEF Renewal, Open, EndInv, NothingLeftAtEnd, Blocked, TypeInv, AcceptTypeOK, backoff, channel
<1>14. ASSUME NEW task \in Task, Move(task) PROVE  EndInv'
    BY <1>14 DEF Move, EndInv, NothingLeftAtEnd, Blocked, TypeInv, AcceptTypeOK, backoff, channel
<1>15. CASE FireSleep
    BY <1>15 DEF FireSleep, Open, EndInv, NothingLeftAtEnd, Blocked, TypeInv, AcceptTypeOK, backoff, channel
<1>16. CASE Pass
    BY <1>16 DEF Pass, Open, EndInv, NothingLeftAtEnd, Blocked, TypeInv, AcceptTypeOK, backoff, channel
<1>17. CASE UNCHANGED accept_vars
    BY <1>17 DEF EndInv, NothingLeftAtEnd, Blocked, TypeInv, AcceptTypeOK, backoff, channel, accept_vars
<1> QED
    BY <1>1, <1>2, <1>3, <1>4, <1>5, <1>6, <1>7, <1>8, <1>9, <1>10, <1>11, <1>12, <1>13, <1>14, <1>15, <1>16, <1>17 DEF AcceptNext, PollStream

\* The end of the stream leaves no update but those that were sent after the
\* poll of the channel and before the count of the Arcs.
THEOREM NothingIsLeft == AcceptSpec => []NothingLeftAtEnd
<1>1. AcceptInit => TypeInv /\ EndInv
    BY TypeInit DEF AcceptInit, EndInv, NothingLeftAtEnd
<1>2. TypeInv /\ EndInv /\ [AcceptNext]_accept_vars => TypeInv' /\ EndInv'
    BY TypeStep, EndStep
<1>3. EndInv => NothingLeftAtEnd
    BY DEF EndInv
<1> QED  BY <1>1, <1>2, <1>3, PTL DEF AcceptSpec

\* Only an Arc that is dropped after the count keeps a stream from its end.
THEOREM EndIsNoticed == AcceptSpec => []EndNoticed
<1>1. AcceptInit => TypeInv /\ EndInv
    BY TypeInit DEF AcceptInit, EndInv, NothingLeftAtEnd
<1>2. TypeInv /\ EndInv /\ [AcceptNext]_accept_vars => TypeInv' /\ EndInv'
    BY TypeStep, EndStep
<1>3. EndInv => EndNoticed
    BY DEF EndInv, EndNoticed, Waiting, Blocked
<1> QED  BY <1>1, <1>2, <1>3, PTL DEF AcceptSpec

=============================================================================
