---------------------------- MODULE TimerService ----------------------------
(***************************************************************************)
(* What a user of qff/timer.h may rely on, with no clock representation    *)
(* and no queue: a timer that is armed has a deadline, its callback is     *)
(* handed out only when that much time has really passed, a one-shot timer *)
(* is disarmed by firing and a recurring one is re-armed one period later. *)
(* TimerManager.tla is shown to implement this as long as no deadline has  *)
(* been truncated to the width of an int.                                  *)
(***************************************************************************)
EXTENDS Integers

CONSTANTS Timer,        \* timer objects
          Durations,    \* the delays a caller asks for, in ms
          MaxUptime     \* bound on the elapsed time

VARIABLES uptime,       \* time really elapsed, in ms
          armed,        \* timers whose callback is still set
          recurring,    \* timers created with recurring = true
          period,       \* the delay each timer was last given
          due,          \* the elapsed time at which each timer may fire
          fired         \* timers whose callbacks are handed out, not yet taken

vars == <<uptime, armed, recurring, period, due, fired>>

Init == /\ uptime = 0
        /\ armed = {}
        /\ recurring = {}
        /\ period = [t \in Timer |-> 0]
        /\ due = [t \in Timer |-> 0]
        /\ fired = {}

\* A timer is created, or started again from the present time.
Arm(t, ms, rec) ==
  /\ armed' = armed \cup {t}
  /\ recurring' = IF rec THEN recurring \cup {t} ELSE recurring \ {t}
  /\ period' = [period EXCEPT ![t] = ms]
  /\ due' = [due EXCEPT ![t] = uptime + ms]
  /\ UNCHANGED <<uptime, fired>>

\* The delay of a running timer is changed, counted from its old start.
Shift(t, ms) ==
  /\ t \in armed
  /\ due' = [due EXCEPT ![t] = @ - period[t] + ms]
  /\ period' = [period EXCEPT ![t] = ms]
  /\ UNCHANGED <<uptime, armed, recurring, fired>>

Disarm(t) ==
  /\ armed' = armed \ {t}
  /\ UNCHANGED <<uptime, recurring, period, due, fired>>

\* Only timers that are due fire; which of the due ones is left open.
Fire(S) ==
  /\ S \subseteq {t \in armed : due[t] <= uptime}
  /\ fired' = S
  /\ armed' = armed \ (S \ recurring)
  /\ due' = [t \in Timer |-> IF t \in S \cap recurring
                             THEN uptime + period[t] ELSE due[t]]
  /\ UNCHANGED <<uptime, recurring, period>>

Take ==
  /\ fired' = {}
  /\ UNCHANGED <<uptime, armed, recurring, period, due>>

Elapse ==
  /\ uptime < MaxUptime
  /\ uptime' = uptime + 1
  /\ UNCHANGED <<armed, recurring, period, due, fired>>

Next == \/ \E t \in Timer, ms \in Durations, rec \in BOOLEAN : Arm(t, ms, rec)
        \/ \E t \in Timer, ms \in Durations : Shift(t, ms)
        \/ \E t \in Timer : Disarm(t)
        \/ \E S \in SUBSET Timer : Fire(S)
        \/ Take
        \/ Elapse

Spec == Init /\ [][Next]_vars
=============================================================================
