------------------------------- MODULE LedBar -------------------------------
(***************************************************************************)
(* The bar of LEDs that shows an acceleration:  v/led_driver.v             *)
(*                                                                         *)
(* The interrupt of the sensor comes at any time.  Its line chooses the    *)
(* resolution at once, and by way of two registers starts an interval in   *)
(* which the bar only tells of activity.  The code counts up to bit 23 and *)
(* blinks with bit 20.                                                     *)
(***************************************************************************)
EXTENDS Integers, FiniteSets, FiniteSetsExt

CONSTANTS Top, Blink,     \* the bits of int2_count that end it and that blink
          Accelerations   \* the values of iDIG as a signed number

\* What the constants must be; the module that is run assumes it.
BarAssumption ==
    /\ Blink \in Nat /\ Top \in Nat /\ Blink < Top
    /\ Accelerations \subseteq -512 .. 511

VARIABLES
    iDIG, iG_INT2,       \* the inputs
    int2_d,              \* the two registers, newest bit first
    int2_count, int2_count_en,
    quiet                \* history: edges since int2_d last showed a rising edge

inputs == <<iDIG, iG_INT2>>
vars == <<inputs, int2_d, int2_count, int2_count_en, quiet>>

Full == 2^Top

TypeOK ==
    /\ iDIG \in Accelerations /\ {iG_INT2, int2_d[1], int2_d[2], int2_count_en} \subseteq BOOLEAN
    /\ int2_count \in 0 .. Full /\ quiet \in 0 .. Full + 1

\* After reset.  Nothing initialises int2_d.
Init ==
    /\ iDIG \in Accelerations /\ iG_INT2 \in BOOLEAN
    /\ int2_d \in BOOLEAN \X BOOLEAN
    /\ int2_count_en = FALSE /\ int2_count = Full
    /\ quiet = Full + 1

-----------------------------------------------------------------------------
(* What is shown.  A definition with an underscore in its name is a variant *)
(* of the one below it with a fault: the properties must tell them apart.   *)

\* Five bits: the upper ones of ten, or of nine, where what does not fit is as far
\* out as fits.
Clamp_Wraps(x) == ((x + 16) % 32) - 16
Clamp(x) == IF x > 15 THEN 15 ELSE IF x < -16 THEN -16 ELSE x
Selected(x, fine) == IF fine THEN x \div 32 ELSE Clamp(x \div 16)

\* The LEDs at each distance from the middle, on the side of the positive numbers.
\* 3'h8 is 0 in three bits, so that the line for 8 is never reached and 8 is shown as
\* all that is further out.
Right(n) ==
    CASE n = 0 -> {4, 5}
      [] n \in {1, 3, 5, 7} -> {4 - n \div 2}
      [] n \in {2, 4, 6} -> {4 - n \div 2, 5 - n \div 2}
      [] OTHER -> {0}
Mirrored(leds) == {9 - led : led \in leds}

\* The distance of a negative number is its complement.
Position(x, fine) ==
    LET select_data == Selected(x, fine)
    IN  IF select_data < 0 THEN Mirrored(Right(-select_data - 1)) ELSE Right(select_data)

All == 0 .. 9
Dark == (int2_count \div 2^Blink) % 2 = 1
oLED == IF int2_count = Full THEN Position(iDIG, iG_INT2) ELSE IF Dark THEN {} ELSE All

-----------------------------------------------------------------------------

\* The sensor moves, and interrupts, between any two edges.
Measure(x) == iDIG' = x /\ UNCHANGED <<iG_INT2, int2_d, int2_count, int2_count_en, quiet>>
Interrupt ==
    /\ iG_INT2' = ~iG_INT2
    /\ UNCHANGED <<iDIG, int2_d, int2_count, int2_count_en, quiet>>

Rising == int2_d[1] /\ ~int2_d[2]

Clock ==
    /\ int2_d' = <<iG_INT2, int2_d[1]>>
    /\ int2_count_en' = (Rising \/ (int2_count_en /\ int2_count # Full))
    /\ int2_count' = IF Rising THEN 0 ELSE IF int2_count = Full THEN Full ELSE int2_count + 1
    /\ quiet' = IF Rising THEN 0 ELSE IF quiet <= Full THEN quiet + 1 ELSE quiet
    /\ UNCHANGED inputs

Next == Clock \/ Interrupt \/ \E x \in Accelerations : Measure(x)

Spec == Init /\ [][Next]_vars

-----------------------------------------------------------------------------
(* Properties                                                              *)

\* Twice the middle of the LEDs of a position.
Middle(leds) == Max(leds) + Min(leds)

\* The bar shows activity, and no position, until it has been left alone for a whole
\* interval; then it shows a position that never moves against the acceleration, not
\* where it is out of range either, and is the same to both sides
\* (led_driver.v:21-24, 36-46).
BarInPlace ==
    /\ quiet < Full => oLED \in {All, {}}
    /\ quiet >= Full =>
          /\ oLED # {} /\ Cardinality(oLED) <= 2
          /\ oLED = Mirrored(Position(-iDIG - 1, iG_INT2))
          /\ \A x \in Accelerations :
                x >= iDIG => Middle(Position(x, iG_INT2)) <= Middle(oLED)
==============================================================================
