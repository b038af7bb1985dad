------------------------------- MODULE PwmLed -------------------------------
(***************************************************************************)
(* The LED dimmer of week 2:                                               *)
(*   source/debouncer.v     one shift register per switch                  *)
(*   source/pwm_gen.v       a free-running counter against the duty cycle  *)
(*   source/pwm_led_top.v   three debouncers, one generator, two clocks    *)
(*                                                                         *)
(* The debouncers run on clk_003 and the generator on pwm_clk; the edges   *)
(* of the two come in any order, and a switch bounces at any time.  The    *)
(* code has Depth = 8 and Width = 3.                                       *)
(***************************************************************************)
EXTENDS Integers, Sequences, FiniteSets

CONSTANTS Depth,     \* length of shiftreg
          Width      \* switches, bits of duty_cycle and of count

\* What the constants must be; the module that is run assumes it.
PwmAssumption == Depth \in Nat \ {0} /\ Width \in Nat \ {0}

Lines == 0 .. Width-1

\* How many values Width bits have.
Modulus ==
    LET weight[i \in 0 .. Width] == IF i = 0 THEN 1 ELSE 2 * weight[i-1] IN weight[Width]

VARIABLES
    SW,          \* the switches, SW[i] TRUE for a one
    shiftreg,    \* shiftreg[i]: the register of debouncer i, newest bit first
    debounced,   \* the outputs of the debouncers, the wires of duty_cycle
    count, pwm,  \* the registers of pwm_gen
    stable,      \* history: clk_003 edges since a switch last moved
    lit,         \* history: LEDR at the latest pwm_clk edges, newest first
    held         \* history: clk_003 edges since debounced[i] last changed

switches == <<SW>>
debouncers == <<shiftreg, debounced, held>>
generator == <<count, pwm, lit>>
vars == <<switches, debouncers, generator, stable>>

TypeOK ==
    /\ SW \in [Lines -> BOOLEAN]
    /\ shiftreg \in [Lines -> [1 .. Depth -> BOOLEAN]]
    /\ debounced \in [Lines -> BOOLEAN]
    /\ count \in 0 .. Modulus-1 /\ pwm \in BOOLEAN
    /\ stable \in 0 .. Depth+1
    /\ lit \in Seq(BOOLEAN) /\ Len(lit) <= Modulus
    /\ held \in [Lines -> 0 .. Depth]

\* Nothing initialises the debouncers.
Init ==
    /\ SW \in [Lines -> BOOLEAN]
    /\ shiftreg \in [Lines -> [1 .. Depth -> BOOLEAN]]
    /\ debounced \in [Lines -> BOOLEAN]
    /\ count = 0 /\ pwm = FALSE
    /\ stable = 0 /\ lit = <<>>
    /\ held = [i \in Lines |-> Depth]

\* The number that bits denote, the last of them first.
Value(bits) ==
    LET value[i \in 0 .. Width] ==
            IF i = 0 THEN 0 ELSE 2 * value[i-1] + (IF bits[Width - i] THEN 1 ELSE 0)
    IN value[Width]

duty_cycle == Value(debounced)

LEDR == ~pwm     \* not_pwm

-----------------------------------------------------------------------------

Move(i) ==
    /\ SW' = [SW EXCEPT ![i] = ~@]
    /\ stable' = 0
    /\ lit' = <<>>
    /\ UNCHANGED <<debouncers, count, pwm>>

\* A definition with an underscore in its name is a variant of the one below it
\* with a fault: the properties must tell them apart.

\* An edge of clk_003.  A switch is on when it reads one, and a debouncer puts
\* out the inverse: "if all 0s, then button is being pressed".
Debounce_LastSample(i) == ~shiftreg[i][1]

Debounce_NeverReleases(i) ==
    IF \A k \in 1 .. Depth : ~shiftreg[i][k] THEN TRUE ELSE debounced[i]

Debounce(i) ==
    IF \A k \in 1 .. Depth : ~shiftreg[i][k] THEN TRUE
    ELSE IF \A k \in 1 .. Depth : shiftreg[i][k] THEN FALSE
    ELSE debounced[i]

SlowClock ==
    /\ shiftreg' = [i \in Lines |-> [k \in 1 .. Depth |->
                       IF k = 1 THEN SW[i] ELSE shiftreg[i][k-1]]]
    /\ debounced' = [i \in Lines |-> Debounce(i)]
    /\ held' = [i \in Lines |-> IF debounced'[i] # debounced[i] THEN 0
                                ELSE IF held[i] < Depth THEN held[i] + 1
                                ELSE Depth]
    /\ stable' = IF stable <= Depth THEN stable + 1 ELSE stable
    /\ lit' = IF stable <= Depth THEN <<>> ELSE lit
    /\ UNCHANGED <<switches, count, pwm>>

NextCount == (count + 1) % Modulus

High_Inclusive(c) == c <= duty_cycle
High(c) == c < duty_cycle

\* An edge of pwm_clk; the assignments block, so that the comparison sees the
\* new count.
PwmClock ==
    /\ count' = NextCount
    /\ pwm' = High(count')
    /\ lit' = SubSeq(<<~pwm'>> \o lit, 1,
                     IF Len(lit) < Modulus THEN Len(lit) + 1 ELSE Modulus)
    /\ UNCHANGED <<switches, debouncers, stable>>

Next == SlowClock \/ PwmClock \/ \E i \in Lines : Move(i)

Spec == Init /\ [][Next]_vars

\* The PLL drives both clocks; nothing obliges a switch to move.
FairSpec == Spec /\ WF_vars(SlowClock) /\ WF_vars(PwmClock)

-----------------------------------------------------------------------------
(* Properties                                                              *)

\* Once the switches have been still for Depth+1 edges of the slow clock, the
\* LED is lit for one more than the number on the switches out of any Modulus
\* edges in a row of the fast one, wherever the window begins.
SteadyBrightness ==
    stable > Depth /\ Len(lit) = Modulus =>
        Cardinality({k \in 1 .. Modulus : lit[k]}) = Value(SW) + 1

\* A debounced line that has changed stays for Depth edges, however the switch
\* bounces: duty_cycle never flickers.
NoFlicker ==
    [][\A i \in Lines : debounced'[i] # debounced[i] => held[i] >= Depth - 1]_vars

\* Switches left alone are followed in the end, whatever the registers powered
\* up with.
Follows ==
    \A code \in [Lines -> BOOLEAN] :
        <>[](SW = code) => <>[](duty_cycle = Modulus - 1 - Value(code))
==============================================================================
