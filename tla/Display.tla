------------------------------- MODULE Display -------------------------------
(***************************************************************************)
(* What an onlooker sees of the week 4 firmware on the eight LEDs: after a *)
(* selection a run of numbers, each shown before the next, from the first  *)
(* of the selected sequence to its last.  LedControl implements this.      *)
(***************************************************************************)
EXTENDS Naturals

CONSTANT MaxCount       \* MAX_COUNT, the largest number of the display

VARIABLES shown,        \* the number on the LEDs
          run           \* the sequence being shown, "none" between runs

Runs == {"up", "down", "threes", "full"}

First(r) == IF r \in {"up", "threes"} THEN 0 ELSE MaxCount
Last(r)  == IF r = "down" THEN 0 ELSE MaxCount

Init == shown = MaxCount /\ run = "none"

Begin == 
    /\ run = "none"
    /\ run' \in Runs
    /\ shown' = First(run')

Advance ==
    /\ run \in Runs
    /\ shown # Last(run)
    /\ shown' = CASE run = "up"     -> shown + 1
                  [] run = "down"   -> shown - 1
                  [] run = "threes" -> shown + 3
    /\ UNCHANGED run

End ==
    /\ run \in Runs
    /\ shown = Last(run)
    /\ run' = "none"
    /\ UNCHANGED shown

Next == Begin \/ Advance \/ End

Spec == Init /\ [][Next]_<<shown, run>>
==============================================================================
