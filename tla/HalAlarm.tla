------------------------------ MODULE HalAlarm ------------------------------
(***************************************************************************)
(* The system clock and the alarms of the Nios II HAL:                     *)
(*   HAL/src/alt_tick.c            alt_tick, alt_alarm_stop                *)
(*   HAL/src/alt_alarm_start.c     alt_alarm_start                         *)
(*   HAL/inc/sys/alt_alarm.h       alt_sysclk_init, alt_nticks             *)
(*   drivers/src/altera_avalon_timer_sc.c   the interrupt that ticks       *)
(*                                                                         *)
(* alt_alarm_start and alt_alarm_stop touch the list with interrupts       *)
(* disabled and alt_tick runs in the timer interrupt with interrupts       *)
(* disabled, so each is one action.  The order of the list is left to      *)
(* AlarmList; here the list is a set, because the loop of alt_tick treats  *)
(* every entry alike and alone.                                            *)
(*                                                                         *)
(* Times are alt_u32: they live in 0 .. Wrap-1 and add modulo Wrap.        *)
(***************************************************************************)
EXTENDS Naturals

CONSTANTS Alarms,      \* the alt_alarm structures of the program
          Wrap,        \* 2^32, the modulus of alt_u32
          Rates,       \* tick rates a timer driver passes to alt_sysclk_init
          StartTicks,  \* the nticks arguments of alt_alarm_start
          Periods      \* the values callbacks return

ASSUME WrapAssumption       == Wrap \in Nat /\ Wrap > 1
ASSUME RatesAssumption      == Rates \subseteq 0 .. Wrap-1
ASSUME StartTicksAssumption == StartTicks \subseteq 0 .. Wrap-1
ASSUME PeriodsAssumption    == Periods \subseteq 0 .. Wrap-1

VARIABLES
    tick_rate,    \* _alt_tick_rate, 0 while there is no system clock
    nticks,       \* _alt_nticks
    alarm_list,   \* the alarms on alt_alarm_list
    time,         \* time[a]: alarm->time
    rollover      \* rollover[a]: alarm->rollover

alarmVars == <<alarm_list, time, rollover>>
vars == <<tick_rate, nticks, alarm_list, time, rollover>>

U32 == 0 .. Wrap-1

\* alt_u32 addition.
Add_NoWrap(x, y) == x + y
Add(x, y) == (x + y) % Wrap

TypeOK ==
    /\ tick_rate \in U32
    /\ nticks \in U32
    /\ alarm_list \subseteq Alarms
    /\ time \in [Alarms -> U32]
    /\ rollover \in [Alarms -> BOOLEAN]

\* The structures are zeroed globals; the list is its head alone.
Init ==
    /\ tick_rate = 0
    /\ nticks = 0
    /\ alarm_list = {}
    /\ time = [a \in Alarms |-> 0]
    /\ rollover = [a \in Alarms |-> FALSE]

-----------------------------------------------------------------------------
(* Operations.  A definition with an underscore in its name is a variant    *)
(* of the one below it with a fault: the properties must tell them apart.   *)

\* alt_sysclk_init: the first driver sets the rate, a later call is refused.
SysClkInit(freq) ==
    /\ tick_rate = 0
    /\ tick_rate' = freq
    /\ UNCHANGED <<nticks, alarmVars>>

ClockEnabled == tick_rate # 0

\* The tick of the first callback: at least n whole periods from now.
FirstCallback_NoExtraTick(n) == Add(n, nticks)
FirstCallback(n) == Add(n, nticks + 1)

\* alt_alarm_start with a system clock and an alarm.  Without a clock
\* (-ENOTSUP) or an alarm (-EINVAL) it changes nothing.  No caller starts an
\* alarm that is already on the list: inserting it twice would break the list.
Start(a, n) ==
    /\ ClockEnabled
    /\ a \notin alarm_list
    /\ alarm_list' = alarm_list \cup {a}
    /\ time' = [time EXCEPT ![a] = FirstCallback(n)]
    /\ rollover' = [rollover EXCEPT ![a] = FirstCallback(n) < nticks]
    /\ UNCHANGED <<tick_rate, nticks>>

\* alt_alarm_stop; removing an alarm that is not on the list is harmless.
Stop(a) ==
    /\ alarm_list' = alarm_list \ {a}
    /\ UNCHANGED <<tick_rate, nticks, time, rollover>>

\* alt_tick(), in parts: the flag as the loop sees it after the counter has
\* moved to now, and the alarms whose callback this tick makes.
RollsOver_Kept(a, now) == rollover[a]
RollsOver(a, now) == rollover[a] /\ now # 0

Due_Late(now) == {a \in alarm_list : time[a] < now /\ ~RollsOver(a, now)}
Due(now) == {a \in alarm_list : time[a] <= now /\ ~RollsOver(a, now)}

\* The callbacks a tick makes; ret[a] is what that of a returns.
Tick(ret) ==
    LET now     == Add(nticks, 1)
        due     == Due(now)
        rearmed == {a \in due : ret[a] # 0}
    IN  /\ nticks' = now
        /\ alarm_list' = alarm_list \ (due \ rearmed)
        /\ time' = [a \in Alarms |-> IF a \in rearmed THEN Add(time[a], ret[a])
                                                      ELSE time[a]]
        /\ rollover' = [a \in Alarms |->
                          \/ a \in alarm_list /\ RollsOver(a, now)
                          \/ a \notin alarm_list /\ rollover[a]
                          \/ a \in rearmed /\ time'[a] < now]
        /\ UNCHANGED tick_rate

\* alt_avalon_timer_sc_irq, installed after alt_sysclk_init: alt_tick with the
\* interrupts disabled.
TimerInterrupt(ret) == ClockEnabled /\ Tick(ret)

Next ==
    \/ \E freq \in Rates : SysClkInit(freq)
    \/ \E a \in Alarms : Stop(a) \/ \E n \in StartTicks : Start(a, n)
    \/ \E ret \in [Alarms -> Periods] : TimerInterrupt(ret)

Spec == Init /\ [][Next]_vars

\* The timer runs in continuous mode with its interrupt enabled from
\* alt_avalon_timer_sc_init on (altera_avalon_timer_sc.c:98-101): ticks keep
\* coming.  Nothing obliges a program to start or to stop an alarm.
FairSpec == Spec /\ WF_vars(\E ret \in [Alarms -> Periods] : TimerInterrupt(ret))

-----------------------------------------------------------------------------
(* Properties                                                              *)

\* Ticks to the callback of a, read from the counter, the time and the flag.
Left(a) == IF a \notin alarm_list THEN 0
           ELSE IF rollover[a] THEN (time[a] + Wrap) - nticks
           ELSE time[a] - nticks

\* The flag and the time of a registered alarm agree with the tick counter:
\* its callback lies beyond the wrap of the counter exactly when the flag is
\* set, and is never in the past (alt_alarm_start.c:82-96, alt_tick.c:109-138).
RolloverExact ==
    \A a \in alarm_list : IF rollover[a] THEN time[a] < nticks
                                         ELSE time[a] > nticks

\* A callback is made exactly when the time of its alarm is the current tick:
\* none is made late, though the test in the code is <= (alt_tick.c:115).
CallbackOnTime ==
    [][\A a \in alarm_list :
          nticks' # nticks =>
             (a \in Due(nticks') <=> time[a] = nticks')]_vars

\* A started alarm is called back unless it is stopped: the tick whose number is
\* its time comes, and no flag holds the callback back when it does.
CallbackComes ==
    \A a \in Alarms : a \in alarm_list ~>
        (a \notin alarm_list \/ a \in Due(Add(nticks, 1)))

\* alt_alarm_start.c:84-88: "If the desired alarm time causes a roll-over, set
\* the rollover flag.  This will prevent the subsequent tick event from causing
\* an alarm too early."  An alarm whose time is not above the counter needs the
\* flag, or the next tick calls it back.  A delay of Wrap-1 ticks gets none: its
\* time equals the counter and the test at line 89 is a strict one.
FlagPreventsEarlyAlarm ==
    \A a \in alarm_list : time[a] <= nticks => rollover[a]

\* The counter that wraps behaves as a countdown that does not.
Schedule == INSTANCE AlarmSchedule WITH left <- [a \in Alarms |-> Left(a)]

ImplementsSchedule == Schedule!Spec
==============================================================================
