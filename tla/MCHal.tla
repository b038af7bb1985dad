-------------------------------- MODULE MCHal --------------------------------
(***************************************************************************)
(* Instances for TLC of the parts of the HAL: HalAlarm, AlarmList,         *)
(* IrqDispatch, TimeOfDay and Heap.  They do not share a step here, so a   *)
(* behaviour is about one of them: the part is chosen in the initial state *)
(* and stays, and the others keep theirs.                                  *)
(*                                                                         *)
(* Counters are shrunk to a few values, so that every alarm time and every *)
(* distance to the wrap occurs.  Three alarms on the list give the loop of *)
(* alt_tick a first, a middle and a last entry to lose while it walks.     *)
(* Two interrupts and three frames give an interruptible handler that is   *)
(* interrupted; one handler can be there or not.                           *)
(***************************************************************************)
EXTENDS HalAlarm

CONSTANTS
    ListAlarms, Null, ListHead, ListWrap, ListStartTicks, ListPeriods,  \* AlarmList
    ALT_NIRQ, Handlers, MaxSaved, MaxFrames, Careful,                   \* IrqDispatch
    DayWrap, ALT_US, DayRates, Times, Zones,                            \* TimeOfDay
    Word, Limit, Increments                                             \* Heap

VARIABLES part,
          next, previous, pc, alarm, nextAlarm, leftBefore, visited,
          expiry, carry,
          irq, PIE, ienable, alt_irq_active, alt_priority_mask,
          handler, context, frames,
          rate, ticks, alt_resettime, alt_timezone, wall, exact,
          heap_end, on, at, incr, prev_heap_end, blocks

listVars == <<next, previous, pc, alarm, nextAlarm, leftBefore, visited, expiry, carry>>
irqVars  == <<irq, PIE, ienable, alt_irq_active, alt_priority_mask,
              handler, context, frames>>
dayVars  == <<rate, ticks, alt_resettime, alt_timezone, wall, exact>>
heapVars == <<heap_end, on, at, incr, prev_heap_end, blocks>>

MCRates == {0, 2}

\* Every delay but the largest, which alt_alarm_start gets wrong.
MCStartTicks    == 0 .. Wrap-2
MCAllStartTicks == 0 .. Wrap-1
MCPeriods       == 0 .. Wrap-1

MCTimes == [sec : {0, 2}, usec : {0, 3, 5}]

List == INSTANCE AlarmList WITH
    Alarms         <- ListAlarms,
    CallbackStarts <- ListAlarms,
    Head           <- ListHead,
    Wrap           <- ListWrap,
    StartTicks     <- ListStartTicks,
    Periods        <- ListPeriods,
    time           <- expiry,
    rollover       <- carry

Irq == INSTANCE IrqDispatch

Day == INSTANCE TimeOfDay WITH
    Wrap <- DayWrap, Rates <- DayRates, tick_rate <- rate, nticks <- ticks

Block == INSTANCE Heap

ASSUME PartsAssumption ==
    /\ List!ListAssumption /\ Irq!IrqAssumption
    /\ Day!TimeAssumption /\ Block!HeapAssumption

\* A part the behaviour is not about is in one of its initial states.
OneDay   == rate = (CHOOSE r \in DayRates : TRUE) /\ alt_timezone = (CHOOSE z \in Zones : TRUE)
OneBlock == heap_end = 0

MCInit ==
    /\ part \in {"clock", "list", "irq", "day", "heap"}
    /\ Init /\ List!Init /\ Irq!Init /\ Day!Init /\ Block!Init
    /\ part # "day" => OneDay
    /\ part # "heap" => OneBlock

ClockStep == part = "clock" /\ Next /\ UNCHANGED listVars
ListStep  == part = "list" /\ List!Next /\ UNCHANGED <<tick_rate, alarmVars>>
IrqStep   == part = "irq" /\ Irq!Next /\ UNCHANGED <<vars, listVars, dayVars, heapVars>>
DayStep   == part = "day" /\ Day!Next /\ UNCHANGED <<vars, listVars, irqVars, heapVars>>
HeapStep  == part = "heap" /\ Block!Next /\ UNCHANGED <<vars, listVars, irqVars, dayVars>>

MCNext ==
    /\ \/ (ClockStep \/ ListStep) /\ UNCHANGED <<irqVars, dayVars, heapVars>>
       \/ IrqStep \/ DayStep \/ HeapStep
    /\ UNCHANGED part

MCSpec == MCInit /\ [][MCNext]_<<part, vars, listVars, irqVars, dayVars, heapVars>>

\* The fairness of each module while a behaviour is about it.
TimerTicks    == part = "clock" /\ \E ret \in [Alarms -> Periods] : TimerInterrupt(ret)
ListWalks     == part = "list" /\ List!AltTick
IrqContinues  == part = "irq" /\ Irq!Continue
IrqIsTaken    == part = "irq" /\ Irq!TakeInterrupt
CriticalEnds  == part = "irq" /\ Irq!LeaveCritical
DeviceServed  == part = "irq" /\ Irq!Serve

MCFairSpec ==
    /\ MCSpec
    /\ WF_vars(TimerTicks)
    /\ WF_<<nticks, listVars>>(ListWalks)
    /\ WF_irqVars(IrqContinues)
    /\ SF_irqVars(IrqIsTaken)
    /\ SF_irqVars(CriticalEnds)
    /\ SF_irqVars(DeviceServed)

\* AlarmList: its types; the links stay a list, the loop's place stays on it, and
\* every alarm has its turn in a tick (alt_tick.c:102-140, alt_llist.h:110-117).
WalkSound == part = "list" =>
    List!TypeOK /\ List!ListSound /\ List!CursorOnList /\ List!EveryAlarmVisited

\* AlarmList's ImplementsSchedule: a tick walked entry by entry, callbacks and all,
\* is a tick of the countdown (alt_tick.c:90-141).
WalkImplementsSchedule == List!ImplementsSchedule

\* IrqDispatch's HandlersSound and CallsNest: no interrupt finds the table half
\* written, and interrupts are on again exactly when every call that turned them off
\* has put them back (alt_irq_register.c:80, alt_irq.h:131).
InterruptsSound == part = "irq" => Irq!HandlersSound /\ Irq!CallsNest

\* IrqDispatch's NestsByPriority: a handler is interrupted only by handlers of a
\* higher priority (alt_legacy_irq.h:116).
NestsByPriority == part = "irq" => Irq!NestsByPriority

\* AlarmList's TickEnds: the loop of alt_tick comes back to the head, whatever the
\* callbacks do to the list (alt_tick.c:100); and IrqDispatch's HighestServed: the
\* request with the highest priority is served (alt_irq_handler.c:139).
NothingStarves ==
    /\ (part = "list") => List!TickEnds
    /\ (part = "irq") => Irq!HighestServed

\* TimeOfDay's ClockAccurate: the clock tells the time it was set to plus the ticks
\* since (alt_gettod.c:91-112).
ClockAccurate == part = "day" => Day!TypeOK /\ Day!ClockAccurate

\* TimeOfDay's SetIsSeen, what alt_settod.c:61-63 says of a call to gettimeofday
\* that follows at once.
SetIsSeen == Day!SetIsSeen

\* Heap's BlocksApart: blocks do not overlap, whoever asks for them (alt_sbrk.c:73).
BlocksApart == part = "heap" => Block!BlocksApart
==============================================================================
