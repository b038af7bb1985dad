------------------------------ MODULE Timestamp ------------------------------
(***************************************************************************)
(* The timestamp: alt_timestamp_start, alt_timestamp and                   *)
(* alt_timestamp_freq (drivers/src/altera_avalon_timer_ts.c), with a timer *)
(* that goes on counting between any two of the registers they access.     *)
(*                                                                         *)
(*   freq       altera_avalon_timer_ts_freq: TRUE when the timer has been  *)
(*              given to the timestamp, FALSE when it is the system clock  *)
(*   counter, period, run, cont, snap   the timer: what it counts down,    *)
(*              what it starts again from, whether it runs, whether it     *)
(*              goes on when it is through, and the count last captured    *)
(*   pc, lower  where the call is, and what it has read                    *)
(*   elapsed    history: the ticks since the start, Full + 1 once the      *)
(*              timer is through                                           *)
(*   asked      history: elapsed when the call began                       *)
(*   result     what the last call has returned, and when it was made      *)
(*                                                                         *)
(* A count has two halves of Half values each, one register for each.      *)
(* The calls are the program's alone: a handler that asked for the time    *)
(* too would capture another count between the halves.                     *)
(***************************************************************************)
EXTENDS Integers

CONSTANT Half         \* 2^16, the values of a register of the timer

\* What it must be; the module that is run assumes it.
TimestampAssumption == Half \in Nat /\ Half > 1

VARIABLES freq, counter, period, run, cont, snap, pc, lower, elapsed, asked, result

Full == Half * Half - 1

timer == <<counter, period, run, cont>>
vars == <<freq, timer, snap, pc, lower, elapsed, asked, result>>

NoResult == [value |-> -1, from |-> 0, to |-> 0]

TypeOK ==
    /\ freq \in BOOLEAN
    /\ {counter, period, snap} \subseteq 0 .. Full
    /\ run \in BOOLEAN /\ cont \in BOOLEAN
    /\ pc \in {"idle", "periodl", "periodh", "start", "lower", "upper"}
    /\ lower \in 0 .. Half - 1
    /\ elapsed \in 0 .. Full + 1 /\ asked \in 0 .. Full + 1

\* The system clock runs, and the timestamp timer is as reset has left it.
Init ==
    /\ freq \in BOOLEAN /\ cont = ~freq
    /\ period = Half /\ counter = period /\ run = cont /\ snap = 0
    /\ pc = "idle" /\ lower = 0 /\ elapsed = 0 /\ asked = 0 /\ result = NoResult

-----------------------------------------------------------------------------
(* The timer, external                                                     *)

\* At zero it starts again from its period, and stops unless it is to go on.
Tick ==
    /\ run
    /\ counter' = IF counter = 0 THEN period ELSE counter - 1
    /\ run' = (counter # 0 \/ cont)
    /\ elapsed' = IF freq /\ elapsed <= Full THEN elapsed + 1 ELSE elapsed
    /\ UNCHANGED <<freq, period, cont, snap, pc, lower, asked, result>>

\* A write of the period stops it and has it start from there.
SetPeriod(p) == period' = p /\ counter' = p /\ run' = FALSE /\ UNCHANGED cont

Control(start, continue) == run' = start /\ cont' = continue /\ UNCHANGED <<counter, period>>

-----------------------------------------------------------------------------
(* The calls, register by register                                         *)

At(here, there) == pc = here /\ pc' = there

\* Without a timer of its own a call does nothing and says so.
Refuse ==
    /\ pc = "idle" /\ ~freq
    /\ result' = NoResult
    /\ UNCHANGED <<freq, timer, snap, pc, lower, elapsed, asked>>

Stop ==
    /\ freq /\ At("idle", "periodl") /\ Control(FALSE, FALSE)
    /\ result' = NoResult
    /\ UNCHANGED <<freq, snap, lower, elapsed, asked>>

PeriodLow ==
    /\ At("periodl", "periodh")
    /\ SetPeriod((period \div Half) * Half + (Half - 1))
    /\ UNCHANGED <<freq, snap, lower, elapsed, asked, result>>

PeriodHigh ==
    /\ At("periodh", "start")
    /\ SetPeriod((Half - 1) * Half + (period % Half))
    /\ UNCHANGED <<freq, snap, lower, elapsed, asked, result>>

\* It is not to go on, so that the user can tell when it is through.
Start ==
    /\ At("start", "idle") /\ Control(TRUE, FALSE)
    /\ elapsed' = 0
    /\ UNCHANGED <<freq, snap, lower, asked, result>>

\* The clock has been started: before that a timestamp means nothing.
Started == period = Full

Snapshot_Omitted ==
    /\ freq /\ Started /\ At("idle", "lower")
    /\ asked' = elapsed
    /\ UNCHANGED <<freq, timer, snap, lower, elapsed, result>>

Snapshot ==
    /\ freq /\ Started /\ At("idle", "lower")
    /\ snap' = counter /\ asked' = elapsed
    /\ UNCHANGED <<freq, timer, lower, elapsed, result>>

ReadLow ==
    /\ At("lower", "upper")
    /\ lower' = snap % Half
    /\ UNCHANGED <<freq, timer, snap, elapsed, asked, result>>

ReadHigh ==
    /\ At("upper", "idle")
    /\ result' = [value |-> Full - ((snap \div Half) * Half + lower),
                  from |-> asked, to |-> elapsed]
    /\ lower' = 0 /\ asked' = 0
    /\ UNCHANGED <<freq, timer, snap, elapsed>>

Next ==
    \/ Tick
    \/ Refuse \/ Stop \/ PeriodLow \/ PeriodHigh \/ Start
    \/ Snapshot \/ ReadLow \/ ReadHigh

Spec == Init /\ [][Next]_vars

-----------------------------------------------------------------------------
(* Properties                                                              *)

\* A timestamp is the ticks since the start, of a moment in the call, or 0 once the
\* timer is through; a call that the system clock's timer is not given to leaves
\* that timer as it is (altera_avalon_timer_ts.c:58, 70, 124-128,
\* altera_avalon_timer.h:149-173).
TimestampSound ==
    /\ result.value >= 0 =>
           \/ result.from <= result.value /\ result.value <= result.to /\ result.value <= Full
           \/ result.to > Full /\ result.value = 0
    /\ result.from > Full => result.value = 0
    /\ ~freq => period = Half /\ cont /\ run
    /\ period = Full => ~cont
===============================================================================
