-------------------------------- MODULE Alarm --------------------------------
(***************************************************************************)
(* What scheduler.rs promises, whatever its wakers, its Sleep and the      *)
(* steps of its poll: an alarm that may be made earlier at any time, that  *)
(* never rings before its time, that is set anew by whoever answers it,    *)
(* and that stops when it is let go of or when the answer is an error.     *)
(***************************************************************************)
EXTENDS Integers

CONSTANTS
    AlarmTimes,  \* the times that an alarm is set for
    Never        \* a time later than all of them: it is not set

VARIABLES
    now,
    due,    \* the time that the alarm is set for
    state,  \* "set", "ringing" or "off"
    held    \* somebody else holds the alarm, and may hasten it

alarm_vars == <<now, due, state, held>>

AlarmInit ==
    /\ now = 0
    /\ due \in AlarmTimes \cup {Never}
    /\ state = "set"
    /\ held = TRUE

Hasten(t) ==
    /\ held
    /\ due' = IF t < due THEN t ELSE due
    /\ UNCHANGED <<now, state, held>>

Ring ==
    /\ state = "set"
    /\ due <= now
    /\ state' = "ringing"
    /\ UNCHANGED <<now, due, held>>

Answer(t) ==
    /\ state = "ringing"
    /\ due' = t
    /\ state' = "set"
    /\ UNCHANGED <<now, held>>

AnswerFails ==
    /\ state = "ringing"
    /\ state' = "off"
    /\ UNCHANGED <<now, due, held>>

Drop == held' = FALSE /\ UNCHANGED <<now, due, state>>

Stop ==
    /\ state = "set" /\ ~held
    /\ state' = "off"
    /\ UNCHANGED <<now, due, held>>

Pass == now' = now + 1 /\ UNCHANGED <<due, state, held>>

AlarmNext ==
    \/ \E t \in AlarmTimes : Hasten(t)
    \/ Ring
    \/ \E t \in AlarmTimes \cup {Never} : Answer(t)
    \/ AnswerFails \/ Drop \/ Stop \/ Pass

AlarmSpec == AlarmInit /\ [][AlarmNext]_alarm_vars

=============================================================================
