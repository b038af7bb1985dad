----------------------------- MODULE MCFirmware -----------------------------
(***************************************************************************)
(* Instances for TLC of LedControl, the firmware as it is, and of          *)
(* DelayWait under any caller, over the same variables: the caller of the  *)
(* delays is chosen in the initial state and stays.                        *)
(*                                                                         *)
(* main uses one delay mode only, so that one alarm stands for the four.   *)
(* Under any caller there are two, the one DELAY_MODE starts with and a    *)
(* faster one that calls back at every tick, as the 1 ms alarm does.  A    *)
(* rate of 0 is a system without a clock.                                  *)
(***************************************************************************)
EXTENDS LedControl

\* As in DelayWait, under any caller.
CONSTANTS FreeAlarms, FreeOrder, FreeDivisor, FreeWrap, FreeRates, FreePeriods,
          FreeAge, FreeLag

VARIABLE caller

MCAlarms    == {"100ms"}
MCInitOrder == <<"100ms">>
MCDivisor   == [a \in MCAlarms |-> 1]
MCRates     == {0, 1}
MCTimeouts  == {0, 1}
MCKeys      == {"u", "d", "3", "x"}

MCFreeAlarms  == {"100ms", "1ms"}
MCFreeOrder   == <<"100ms", "1ms">>
MCFreeDivisor == [a \in MCFreeAlarms |-> IF a = "100ms" THEN 1 ELSE 2]
MCFreeRates   == {0, 2}
MCFreePeriods == {0, 1, 2}

Free == INSTANCE DelayWait WITH
    Alarms     <- FreeAlarms,
    InitOrder  <- FreeOrder,
    Divisor    <- FreeDivisor,
    Wrap       <- FreeWrap,
    Rates      <- FreeRates,
    StartTicks <- FreePeriods,
    Periods    <- FreePeriods,
    MaxAge     <- FreeAge,
    MaxLag     <- FreeLag

\* Under any caller a period is within what the ages count, and shorter than the
\* longest delay, which has no rollover flag: the program's own is 250 at most.
ASSUME CallersAssumption ==
    /\ Delay!DelayAssumption /\ Free!DelayAssumption
    /\ \A rate \in FreeRates, a \in FreeAlarms :
          rate \div FreeDivisor[a] <= FreeAge /\ rate \div FreeDivisor[a] < FreeWrap - 1

\* No line is typed and main is not entered under any other caller.
MCInit == \/ caller = "main" /\ Init
          \/ caller = "any" /\ Free!Init /\ MainInit

MCTick == \/ caller = "main" /\ Tick
          \/ caller = "any" /\ Free!Tick /\ UNCHANGED mainVars

MCTyping == caller = "main" /\ \E key \in Keys : TypeLine(key)

MCStep == \/ caller = "main" /\ Step
          \/ caller = "any" /\ Free!Progress /\ UNCHANGED mainVars

MCCall == caller = "any" /\ Free!Request /\ UNCHANGED mainVars

MCNext == (MCTick \/ MCTyping \/ MCStep \/ MCCall) /\ UNCHANGED caller

MCSpec == MCInit /\ [][MCNext]_<<vars, caller>>

\* The fairness of LedControl under main, of DelayWait under any caller.
MCFairSpec == MCSpec /\ WF_vars(MCTick) /\ WF_vars(MCStep)

\* main alone.
MainSpec == MCInit /\ caller = "main" /\ [][MCNext]_<<vars, caller>>

\* The type of LedControl's variables, and of DelayWait's under any caller; and
\* LinesAreFull and SelectionAligned, so that the lines of the terminal and the
\* lines typed stay in step with the numbers (jtag_uart_util.c:20, main.c:41).
ProgramSound ==
    IF caller = "main" THEN TypeOK /\ LinesAreFull /\ SelectionAligned
                       ELSE Free!TypeOK

\* DelayWait's NoOversleep and PacedByAlarm: a callback since the last delay is never
\* lost, and a backlog of callbacks ends one delay at once, not as many as there were
\* callbacks (delay_wait.c:37-39).
DelaysPaced == caller = "any" => Free!NoOversleep /\ Free!PacedByAlarm

\* DelayWait's DelayEnds: a delay ends if its loop is timely (delay_wait.c:17).
DelayEnds == (caller = "any") => Free!DelayEnds
==============================================================================
