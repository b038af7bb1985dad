------------------------------ MODULE BusySleep ------------------------------
(***************************************************************************)
(* usleep by a counted loop: alt_busy_sleep (HAL/src/alt_busy_sleep.c),    *)
(* which alt_usleep calls.                                                 *)
(*                                                                         *)
(*   pc     where the call is                                              *)
(*   us     microseconds that are left, i the long loops that are done     *)
(*   reg    the register the long loop counts in                           *)
(*   loops  history: the turns of all the loops                            *)
(*   asked  history: the argument                                          *)
(*                                                                         *)
(* A word has Word values, half of them positive.  The long loop changes a *)
(* register that its asm declares as an input alone: the compiler may give *)
(* it INT_MAX again before the next one, or leave it as the last one has.  *)
(* In Embed_System.objdump (4001b00-4001b24) it is set once.               *)
(***************************************************************************)
EXTENDS Naturals

CONSTANTS Word,              \* 2^32
          LoopsPerUs         \* ALT_CPU_FREQ / (cycles_per_loop * 1000000)

BusyAssumption == Word \in Nat /\ Word % 2 = 0 /\ LoopsPerUs \in 1 .. Word \div 2 - 1

VARIABLES pc, us, i, reg, loops, asked

vars == <<pc, us, i, reg, loops, asked>>

MaxInt == Word \div 2 - 1      \* INT_MAX

\* The microseconds of a long loop.
UsPerBigLoop_RoundedUp == MaxInt \div LoopsPerUs + 1
UsPerBigLoop == MaxInt \div LoopsPerUs

TypeOK ==
    /\ pc \in {"idle", "big", "rest"}
    /\ us \in 0 .. Word - 1 /\ asked \in 0 .. Word - 1
    /\ reg \in 0 .. MaxInt

Init == pc = "idle" /\ us = 0 /\ i = 0 /\ reg = 0 /\ loops = 0 /\ asked = 0

\* A loop that counts a register down to zero, from what it holds.
Turns(from) == IF from = 0 THEN Word ELSE from

\* The loop of a short delay looks for a sign: it turns once for zero.
ShortTurns(from) == IF from = 0 THEN 1 ELSE from

Sleep(n) ==
    /\ pc = "idle"
    /\ us' = n /\ asked' = n /\ i' = 0 /\ loops' = 0
    /\ pc' = IF n \div UsPerBigLoop > 0 THEN "big" ELSE "rest"
    /\ reg' = MaxInt

BigLoop ==
    /\ pc = "big" /\ i < asked \div UsPerBigLoop
    /\ loops' = loops + Turns(reg)
    /\ reg' \in {0, MaxInt}
    /\ us' = us - UsPerBigLoop /\ i' = i + 1
    /\ UNCHANGED <<pc, asked>>

Rest ==
    /\ \/ pc = "rest" /\ loops' = loops + ShortTurns((us * LoopsPerUs) % Word)
       \/ /\ pc = "big" /\ i = asked \div UsPerBigLoop
          /\ loops' = loops + Turns((us * LoopsPerUs) % Word)
    /\ pc' = "idle" /\ reg' = 0 /\ us' = 0 /\ i' = 0
    /\ UNCHANGED asked

Next == BigLoop \/ Rest \/ \E n \in 0 .. Word - 1 : Sleep(n)

Spec == Init /\ [][Next]_vars

-----------------------------------------------------------------------------
(* Properties                                                              *)

\* A delay is never shorter than what was asked for, whatever the compiler makes of
\* the long loop; one that takes at most one of them and has something left is
\* longer by less than the rounding of that one (alt_busy_sleep.c:74-129).
DelaySound ==
    pc = "idle" =>
        /\ loops >= asked * LoopsPerUs
        /\ asked < UsPerBigLoop => loops <= asked * LoopsPerUs + 1
        /\ asked \in UsPerBigLoop + 1 .. 2 * UsPerBigLoop - 1 =>
               loops < (asked + 1) * LoopsPerUs
===============================================================================
