---------------------------- MODULE AlarmSchedule ----------------------------
(***************************************************************************)
(* What the alarm facility of the HAL promises its callers, with no tick   *)
(* counter, no 32-bit arithmetic and no list: every alarm is off or has a  *)
(* number of ticks left to its callback.  alt_alarm_start (HAL/src/        *)
(* alt_alarm_start.c:45) says "nticks - The time to elapse until the alarm *)
(* executes"; the code adds one tick, so that at least nticks full periods *)
(* elapse.  The value a callback returns is the interval to the next one,  *)
(* zero switching the alarm off.                                           *)
(*                                                                         *)
(* HalAlarm and AlarmList are shown to implement this module.              *)
(***************************************************************************)
EXTENDS Naturals

CONSTANTS Alarms,      \* the alarm structures of the program
          StartTicks,  \* the nticks arguments of alt_alarm_start
          Periods      \* the values callbacks return

VARIABLE left          \* left[a]: ticks to the callback of a, 0 when a is off

Off == 0

Init == left = [a \in Alarms |-> Off]

\* A delay of n ticks runs from the tick in progress to the n+1st after it.
Delays == {n + 1 : n \in StartTicks}

Start(a) ==
    /\ left[a] = Off
    /\ \E d \in Delays : left' = [left EXCEPT ![a] = d]

Stop(a) == left' = [left EXCEPT ![a] = Off]

\* One tick: an alarm with one tick left runs its callback, which returns its
\* next interval or stops it, and the others come one tick nearer.  A callback
\* may start alarms that are off, its tick included.
AfterTick(a) ==
    CASE left[a] = Off -> {Off} \cup Delays
      [] left[a] = 1   -> Periods \cup {Off} \cup Delays
      [] OTHER         -> {left[a] - 1}

Tick ==
    /\ left' = [a \in Alarms |-> left'[a]]
    /\ \A a \in Alarms : left'[a] \in AfterTick(a)

Next == Tick \/ \E a \in Alarms : Start(a) \/ Stop(a)

Spec == Init /\ [][Next]_left
==============================================================================
