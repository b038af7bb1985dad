------------------------------ MODULE DelayWait ------------------------------
(***************************************************************************)
(* The delays of the week 4 firmware, on top of the alarms of the HAL:     *)
(*   src/alarm_util.c   four periodic alarms that count in the interrupt   *)
(*   src/delay_wait.c   a spin on one of the counts, and the mode setters  *)
(*                                                                         *)
(* The timer interrupt comes between any two steps of the program.  The    *)
(* program is cut where it shares state with the interrupt: one load of an *)
(* alarm count per step.  Whoever calls delay_wait and the setters is free *)
(* here; LedControl is the caller the firmware has.                        *)
(***************************************************************************)
EXTENDS Naturals, Sequences

CONSTANTS Alarms, Wrap, Rates, StartTicks, Periods,  \* as in HalAlarm
          InitOrder,    \* the alarms in the order alarm_init starts them
          Divisor,      \* Divisor[a]: callbacks of a per second
          DefaultMode,  \* DELAY_MODE_100MS, what DELAY_MODE starts with
          None,         \* DELAY_MODE_NONE
          MaxAge,       \* bound of the history counters
          MaxLag        \* ticks within which the loop of delay_wait loads

\* What the constants must be; the modules that are run assume it.
DelayAssumption ==
    /\ Wrap \in Nat /\ Wrap > 1
    /\ Rates \subseteq 0 .. Wrap-1 /\ Periods \subseteq 0 .. Wrap-1
    /\ InitOrder \in Seq(Alarms) /\ InitOrder # <<>>
    /\ Divisor \in [Alarms -> Nat \ {0}]
    /\ DefaultMode \in Alarms /\ None \notin Alarms
    /\ \A rate \in Rates, a \in Alarms :
          rate \div Divisor[a] \in StartTicks \cap Periods
    /\ MaxAge \in Nat /\ MaxLag \in 0 .. MaxAge-1

VARIABLES
    tick_rate, nticks, alarm_list, time, rollover,   \* as in HalAlarm
    alarm_timeout,  \* the field of each alarm's context
    alarm_count,    \* the field of each alarm's context
    LAST_DELAY,
    DELAY_MODE,
    this_delay,     \* the local variable of delay_wait
    delay_pc,       \* where the program is in these two files
    started,        \* the number of alarms alarm_init has started
    age             \* history: see Ages

clock == <<tick_rate, nticks, alarm_list, time, rollover>>
contexts == <<alarm_timeout, alarm_count>>
settings == <<LAST_DELAY, DELAY_MODE>>
vars == <<clock, contexts, settings, this_delay, delay_pc, started, age>>

Hal == INSTANCE HalAlarm

(* Ages: ticks since the load in progress, since the load that gave         *)
(* LAST_DELAY its value, since the one before it, and since delay_wait was  *)
(* called.  They count up to MaxAge and stay there.                         *)
Ages == [load : 0 .. MaxAge, last : 0 .. MaxAge,
         previous : 0 .. MaxAge, call : 0 .. MaxAge]

Older(n) == IF n < MaxAge THEN n + 1 ELSE n

Modes == Alarms \cup {None}

TypeOK ==
    /\ Hal!TypeOK
    /\ alarm_timeout \in [Alarms -> Hal!U32]
    /\ alarm_count \in [Alarms -> Hal!U32]
    /\ LAST_DELAY \in Hal!U32
    /\ DELAY_MODE \in Modes
    /\ this_delay \in Hal!U32
    /\ delay_pc \in {"boot", "alarm_init", "idle", "load", "test", "set_mode", "error"}
    /\ started \in 0 .. Len(InitOrder)
    /\ age \in Ages

Init ==
    /\ Hal!Init
    /\ alarm_timeout = [a \in Alarms |-> 0]
    /\ alarm_count = [a \in Alarms |-> 0]
    /\ LAST_DELAY = 0
    /\ DELAY_MODE = DefaultMode
    /\ this_delay = 0
    /\ delay_pc = "boot"
    /\ started = 0
    /\ age = [load |-> 0, last |-> 0, previous |-> MaxAge, call |-> 0]

-----------------------------------------------------------------------------
(* The interrupt.  A definition with an underscore in its name is a variant *)
(* of the one below it with a fault: the properties must tell them apart.   *)

\* my_alarm_callback: count, and return the timeout of the alarm.
Counted_NoWrap(a) == alarm_count[a] + 1
Counted(a) == Hal!Add(alarm_count[a], 1)

\* alt_tick with my_alarm_callback as every callback.
Tick ==
    /\ Hal!TimerInterrupt(alarm_timeout)
    /\ alarm_count' = [a \in Alarms |-> IF a \in Hal!Due(nticks')
                                        THEN Counted(a)
                                        ELSE alarm_count[a]]
    /\ age' = [k \in DOMAIN age |-> Older(age[k])]
    /\ UNCHANGED <<alarm_timeout, settings, this_delay, delay_pc, started>>

-----------------------------------------------------------------------------
(* Start-up                                                                *)

\* alt_sys_init runs before main and starts the timer.
SysInit ==
    /\ delay_pc = "boot"
    /\ \E rate \in Rates : Hal!SysClkInit(rate)
    /\ delay_pc' = "alarm_init"
    /\ UNCHANGED <<contexts, settings, this_delay, started, age>>

Timeout_PerMillisecond(a) == tick_rate \div (1000 * Divisor[a])
Timeout(a) == tick_rate \div Divisor[a]

\* alarm_init, one alarm: fill the context, start the alarm.  The context is
\* not shared before the alarm is on the list.
AlarmInitNext(a) ==
    /\ delay_pc = "alarm_init"
    /\ a = InitOrder[started + 1]
    /\ alarm_timeout' = [alarm_timeout EXCEPT ![a] = Timeout(a)]
    /\ alarm_count' = [alarm_count EXCEPT ![a] = 0]
    /\ Hal!Start(a, alarm_timeout'[a])
    /\ started' = started + 1
    /\ delay_pc' = IF started' = Len(InitOrder) THEN "idle" ELSE "alarm_init"
    /\ age' = [age EXCEPT !.last = IF a = DELAY_MODE THEN 0 ELSE @]
    /\ UNCHANGED <<settings, this_delay>>

\* alt_alarm_start fails without a system clock; error_loop never ends.
AlarmInitFails ==
    /\ delay_pc = "alarm_init"
    /\ ~Hal!ClockEnabled
    /\ delay_pc' = "error"
    /\ UNCHANGED <<clock, contexts, settings, this_delay, started, age>>

ErrorLoop ==
    /\ delay_pc = "error"
    /\ UNCHANGED vars

-----------------------------------------------------------------------------
(* delay_wait                                                              *)

DelayCall ==
    /\ delay_pc = "idle"
    /\ this_delay' = LAST_DELAY
    /\ delay_pc' = IF DELAY_MODE = None THEN "idle" ELSE "load"
    /\ age' = [age EXCEPT !.call = 0]
    /\ UNCHANGED <<clock, contexts, settings, started>>

\* The switch: every mode the setters set has its case, so that its default,
\* which ends in error_loop, is not reached.
DelayLoad ==
    /\ delay_pc = "load"
    /\ this_delay' = alarm_count[DELAY_MODE]
    /\ delay_pc' = "test"
    /\ age' = [age EXCEPT !.load = 0]
    /\ UNCHANGED <<clock, contexts, settings, started>>

DelayAgain ==
    /\ delay_pc = "test"
    /\ LAST_DELAY = this_delay
    /\ delay_pc' = "load"
    /\ UNCHANGED <<clock, contexts, settings, this_delay, started, age>>

Return(count) ==
    /\ delay_pc = "test"
    /\ LAST_DELAY # this_delay
    /\ LAST_DELAY' = count
    /\ delay_pc' = "idle"
    /\ age' = [age EXCEPT !.last = age.load, !.previous = age.last]
    /\ UNCHANGED <<clock, contexts, DELAY_MODE, this_delay, started>>

DelayReturn_Reloads == Return(alarm_count[DELAY_MODE])
DelayReturn_CatchesUp == Return(Hal!Add(LAST_DELAY, 1))
DelayReturn == Return(this_delay)

-----------------------------------------------------------------------------
(* The setters: the mode is stored first, the count is loaded afterwards.   *)

SetMode(a) ==
    /\ delay_pc = "idle"
    /\ DELAY_MODE' = a
    /\ delay_pc' = "set_mode"
    /\ UNCHANGED <<clock, contexts, LAST_DELAY, this_delay, started, age>>

SetModeCount ==
    /\ delay_pc = "set_mode"
    /\ LAST_DELAY' = alarm_count[DELAY_MODE]
    /\ delay_pc' = "idle"
    /\ age' = [age EXCEPT !.last = 0, !.previous = MaxAge]
    /\ UNCHANGED <<clock, contexts, DELAY_MODE, this_delay, started>>

SetModeNone ==
    /\ delay_pc = "idle"
    /\ DELAY_MODE' = None
    /\ UNCHANGED <<clock, contexts, LAST_DELAY, this_delay, delay_pc, started, age>>

-----------------------------------------------------------------------------

Startup == SysInit \/ AlarmInitFails \/ \E a \in Alarms : AlarmInitNext(a)

Waiting == DelayLoad \/ DelayAgain \/ DelayReturn

\* What the program does once it is in one of these functions, and what its
\* caller may ask for between them.
Progress == Startup \/ ErrorLoop \/ Waiting \/ SetModeCount

Request == DelayCall \/ SetModeNone \/ \E a \in Alarms : SetMode(a)

Next == Tick \/ Progress \/ Request

Spec == Init /\ [][Next]_vars

\* The timer keeps ticking, and the processor keeps executing: the start-up code,
\* the loop of delay_wait and the setters.
FairSpec == Spec /\ WF_vars(Tick) /\ WF_vars(Progress)

-----------------------------------------------------------------------------
(* Properties                                                              *)

Period == alarm_timeout[DELAY_MODE]

\* A callback in the interval is never missed: once more than a period has
\* passed since the load that LAST_DELAY remembers, the next load of the loop
\* ends the delay.  The interval excluded is the one in which the count wraps
\* to the very same value.
NoOversleep ==
    delay_pc = "load" /\ age.last > Period /\ age.last <= (Wrap - 1) * Period
        /\ age.last < MaxAge
    => alarm_count[DELAY_MODE] # LAST_DELAY

\* However late the caller is, delay_wait does not run ahead of the alarm: of
\* three returns in a row in one mode, the first and the last loads are a
\* period apart.  A backlog of callbacks makes one call return at once, not as
\* many calls as there were callbacks.
PacedByAlarm ==
    delay_pc = "test" /\ LAST_DELAY # this_delay => age.previous >= Period

\* The loop of delay_wait loads the count many times between two ticks (40 MHz
\* against 1 kHz).  All that is asked of it here is one load in MaxLag ticks, so
\* that the count does not wrap between two loads.
LoopIsTimely ==
    delay_pc \in {"load", "test"} => age.load <= MaxLag \/ age.call <= MaxLag

\* A delay ends, if the loop is timely.
DelayEnds == []LoopIsTimely => (delay_pc = "load" ~> delay_pc = "idle")
==============================================================================
