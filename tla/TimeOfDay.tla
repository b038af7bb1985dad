------------------------------ MODULE TimeOfDay ------------------------------
(***************************************************************************)
(* The wall clock of the HAL:                                              *)
(*   HAL/src/alt_gettod.c   gettimeofday                                   *)
(*   HAL/src/alt_settod.c   settimeofday                                   *)
(*                                                                         *)
(* The time is that of the last reset plus the ticks since boot, so that   *)
(* setting the clock stores the new time less what the ticks already make. *)
(* Each call reads the tick counter once, at its start, and is one action. *)
(*                                                                         *)
(* The ticks are alt_u32, modulo Wrap.  Seconds are unbounded here.        *)
(***************************************************************************)
EXTENDS Integers

CONSTANTS Wrap,        \* 2^32
          ALT_US,      \* 10^6, the microseconds in a second
          Rates,       \* tick rates, 0 is a system without a clock
          Times,       \* the times settimeofday is given
          Zones        \* the time zones settimeofday is given

\* What the constants must be; the modules that are run assume it.  A tick is a
\* whole number of microseconds.
TimeAssumption ==
    /\ Wrap \in Nat \ {0} /\ ALT_US \in Nat \ {0}
    /\ \A r \in Rates : r \in Nat /\ (r # 0 => ALT_US % r = 0)
    /\ \A t \in Times : t.sec \in Nat /\ t.usec \in 0 .. ALT_US-1

VARIABLES
    tick_rate, nticks,      \* _alt_tick_rate, _alt_nticks
    alt_resettime,          \* the time of day at tick 0
    alt_timezone,
    wall,                   \* history: the time it should be, in microseconds
    exact                   \* history: no arithmetic has overflowed

timeVars == <<alt_resettime, alt_timezone, wall, exact>>
vars == <<tick_rate, nticks, timeVars>>

TypeOK ==
    /\ tick_rate \in Rates /\ nticks \in 0 .. Wrap-1
    /\ alt_resettime \in [sec : Int, usec : 1-ALT_US .. ALT_US-1]
    /\ alt_timezone \in Zones
    /\ wall \in Nat /\ exact \in BOOLEAN

Init ==
    /\ tick_rate \in Rates
    /\ nticks = 0
    /\ alt_resettime = [sec |-> 0, usec |-> 0]
    /\ alt_timezone \in Zones
    /\ wall = 0 /\ exact = TRUE

Microseconds(t) == t.sec * ALT_US + t.usec

-----------------------------------------------------------------------------
(* A definition with an underscore in its name is a variant of the one      *)
(* below it with a fault: the properties must tell them apart.              *)

Seconds == nticks \div tick_rate
TickUs  == ALT_US \div tick_rate

\* The ticks that make no whole second, in microseconds: a product of 64 bits in
\* gettimeofday, of 32 bits in settimeofday.
Fraction_Narrow == ((nticks * TickUs) % Wrap) % ALT_US
Fraction == (nticks * TickUs) % ALT_US
NarrowFraction == ((nticks * TickUs) % Wrap) % ALT_US

\* The two loops that bring the microseconds into 0 .. ALT_US-1: they were
\* above -ALT_US and below 2 * ALT_US, a turn of either is enough.
Normal(sec, usec) ==
    IF usec < 0 /\ sec <= 0 THEN [sec |-> 0, usec |-> 0]
    ELSE [sec |-> sec + (usec \div ALT_US), usec |-> usec % ALT_US]

GetTimeOfDay == Normal(alt_resettime.sec + Seconds, alt_resettime.usec + Fraction)

\* Without a clock settimeofday fails and changes nothing.
Unsupported == tick_rate = 0 /\ UNCHANGED vars

SetTimeOfDay(t, tz) ==
    /\ tick_rate # 0
    /\ alt_resettime' = [sec |-> t.sec - Seconds, usec |-> t.usec - NarrowFraction]
    /\ alt_timezone' = tz
    /\ wall' = Microseconds(t)
    /\ exact' = (nticks * TickUs < Wrap)
    /\ UNCHANGED <<tick_rate, nticks>>

\* alt_tick; what it should be is kept only as long as there is something to keep.
Tick ==
    /\ tick_rate # 0
    /\ nticks' = (nticks + 1) % Wrap
    /\ exact' = (exact /\ nticks' # 0)
    /\ wall' = IF exact' THEN wall + TickUs ELSE 0
    /\ UNCHANGED <<tick_rate, alt_resettime, alt_timezone>>

Next == Tick \/ Unsupported \/ \E t \in Times, tz \in Zones : SetTimeOfDay(t, tz)

Spec == Init /\ [][Next]_vars

-----------------------------------------------------------------------------
(* Properties                                                              *)

\* gettimeofday tells the time last set plus the ticks since, borrows and carries
\* right over the second, as long as settimeofday did its arithmetic within 32
\* bits and the counter has not wrapped (alt_gettod.c:91-112).
ClockAccurate ==
    exact /\ tick_rate # 0 =>
        /\ Microseconds(GetTimeOfDay) = wall
        /\ GetTimeOfDay.usec \in 0 .. ALT_US-1

\* alt_settod.c:61-63: the structures are updated "so that an immediate call to
\* gettimeofday() would return the value specified".  At 1000 ticks a second the
\* product of line 84 overflows 71 minutes after boot.
SetIsSeen ==
    [][\A t \in Times, tz \in Zones :
          SetTimeOfDay(t, tz) => GetTimeOfDay' = t]_vars
==============================================================================
