--------------------------- MODULE LedControlProofs ---------------------------
(***************************************************************************)
(* Proofs about the week 4 firmware.  The program: for every largest       *)
(* number that is a multiple of three, every set of keys and every timing  *)
(* of the delays, the counter never wraps, the LED register goes through   *)
(* the sequences of Display, and the lines typed and printed stay in step. *)
(* The delays, under any caller: for every set of periodic alarms and      *)
(* every width of their counts, no callback is missed and a backlog does   *)
(* not make the program run ahead.                                         *)
(***************************************************************************)
EXTENDS MCFirmware, TLAPS

\* What Select leaves for a selection.
DirOf(key) == CASE key = "d" -> -1 [] key = "3" -> 3 [] OTHER -> 1
StartOf(key) == IF key \in {"u", "3"} THEN 0 ELSE MaxCount

RunOf(key) == CASE key = "u" -> "up"
                [] key = "d" -> "down"
                [] key = "3" -> "threes"
                [] OTHER     -> "full"

Places == {"start", "getchar", "discard", "select", "print_first", "led_first",
           "delay_first", "loop", "print", "led", "delay", "delay_last"}

InRun == main_pc \in {"delay_first", "loop", "print", "led", "delay"}

NumbersOK ==
    /\ binary_count \in U8 /\ led_pio \in U8 /\ dir \in {-1, 1, 3}
    /\ main_pc \in Places

\* Before the first number of a run is shown, the program counts from its start.
BeforeRun ==
    main_pc \in {"print_first", "led_first"} =>
        dir = DirOf(input) /\ binary_count = StartOf(input)

\* In a run it counts in the selected direction; by threes it is at a multiple of
\* three; and without a sequence selected it has nothing left to count.
DuringRun ==
    InRun => /\ dir = DirOf(input)
             /\ dir = 3 => binary_count % 3 = 0
             /\ input \notin {"u", "d", "3"} => binary_count = MaxCount

\* The LEDs show the number, or between Count and UpdateLed the one before it.
Shown ==
    /\ main_pc \in {"delay_first", "loop", "delay"} => led_pio = MaxCount - binary_count
    /\ main_pc \in {"print", "led"} =>
          /\ led_pio = MaxCount - (binary_count - dir)
          /\ input \in {"u", "d", "3"}

Inv == NumbersOK /\ BeforeRun /\ DuringRun /\ Shown

LEMMA MaxCountFacts == MaxCount \in Nat /\ MaxCount >= 3 /\ MaxCount % 3 = 0
BY CountAssumption

LEMMA Directions ==
    /\ DirOf("u") = 1 /\ DirOf("d") = -1 /\ DirOf("3") = 3
    /\ \A key : key \notin {"u", "d", "3"} => DirOf(key) = 1
    /\ \A key : DirOf(key) \in {-1, 1, 3}
BY DEF DirOf

\* A number within the width is its own remainder.
LEMMA NoWrap == ASSUME NEW x \in U8 PROVE x % (MaxCount + 1) = x
BY MaxCountFacts DEF U8

\* The step of the loop stays within the width: up to the largest number by ones, to
\* it exactly by threes, and down to 0.
LEMMA CountStays ==
    ASSUME Inv, Count
    PROVE  /\ binary_count + dir \in U8
           /\ binary_count' = binary_count + dir
           /\ dir = 3 => (binary_count + dir) % 3 = 0
           /\ input \in {"u", "d", "3"}
<1>1. /\ binary_count \in 0 .. MaxCount /\ dir \in {-1, 1, 3} /\ dir = DirOf(input)
      /\ dir = 3 => binary_count % 3 = 0
      /\ input \notin {"u", "d", "3"} => binary_count = MaxCount
    BY DEF Inv, NumbersOK, DuringRun, InRun, U8, Count, Goto
<1>2. \/ dir > 0 /\ binary_count < MaxCount
      \/ dir < 0 /\ binary_count > 0
    BY DEF Count, MoreToCount
<1>3. dir = 3 => binary_count + 3 <= MaxCount /\ (binary_count + 3) % 3 = 0
    BY <1>1, <1>2, MaxCountFacts
<1>4. binary_count + dir \in U8
    BY <1>1, <1>2, <1>3, MaxCountFacts DEF U8
<1>5. binary_count' = binary_count + dir
    BY <1>4, NoWrap DEF Count
<1>6. input \in {"u", "d", "3"}
  <2> SUFFICES ASSUME input \notin {"u", "d", "3"}
               PROVE  FALSE
      OBVIOUS
  <2>1. dir = 1 /\ binary_count = MaxCount
      BY <1>1, Directions
  <2> QED BY <1>2, <2>1, MaxCountFacts
<1> QED BY <1>3, <1>4, <1>5, <1>6

\* When the loop is over the number is the last of its run.
LEMMA RunIsOver ==
    ASSUME Inv, InRun, ~MoreToCount
    PROVE  binary_count = (IF input = "d" THEN 0 ELSE MaxCount)
<1>1. binary_count \in 0 .. MaxCount /\ dir = DirOf(input)
    BY DEF Inv, NumbersOK, DuringRun, U8
<1>2. CASE input = "d"
    BY <1>1, <1>2, Directions, MaxCountFacts DEF MoreToCount
<1>3. CASE input # "d"
  <2>1. dir \in {1, 3}
      BY <1>1, <1>3 DEF DirOf
  <2> QED BY <1>1, <1>3, <2>1, MaxCountFacts DEF MoreToCount
<1> QED BY <1>2, <1>3

LEMMA InvInit == Init => Inv
BY MaxCountFacts DEF Init, MainInit, Inv, NumbersOK, BeforeRun, DuringRun, InRun, Shown,
       U8, Places

\* Steps that leave the number, its run and the LEDs alone.
LEMMA OthersKeep ==
    ASSUME Inv,
           \/ Tick \/ Startup \/ ErrorLoop \/ DelayWait \/ PrintCount
           \/ GetChar \/ DiscardChar \/ DelayDone \/ Finish
           \/ \E key \in Keys : TypeLine(key)
           \/ UNCHANGED vars
    PROVE  Inv'
<1> USE DEF Inv, NumbersOK, BeforeRun, DuringRun, InRun, Shown, Places, Goto
<1>1. ASSUME Tick \/ ErrorLoop \/ DelayWait \/ UNCHANGED vars
      PROVE  UNCHANGED <<binary_count, led_pio, dir, input, main_pc>>
    BY <1>1 DEF Tick, ErrorLoop, DelayWait, vars, mainVars, choice
<1>2. ASSUME NEW key \in Keys, TypeLine(key)
      PROVE  UNCHANGED <<binary_count, led_pio, dir, input, main_pc>>
    BY <1>2 DEF TypeLine, choice
<1>3. CASE UNCHANGED <<binary_count, led_pio, dir, input, main_pc>>
    BY <1>3 DEF U8
<1>4. CASE Startup
    BY <1>4 DEF Startup, choice, U8
<1>5. CASE GetChar
    BY <1>5 DEF GetChar, U8
<1>6. CASE DiscardChar
    BY <1>6 DEF DiscardChar, choice, U8
<1>7. CASE PrintCount
    BY <1>7 DEF PrintCount, choice, U8
<1>8. CASE DelayDone
    BY <1>8 DEF DelayDone, choice, U8
<1>9. CASE Finish
    BY <1>9 DEF Finish, choice, U8
<1> QED BY <1>1, <1>2, <1>3, <1>4, <1>5, <1>6, <1>7, <1>8, <1>9

LEMMA InvNext == Inv /\ [Next]_vars => Inv'
<1> SUFFICES ASSUME Inv, [Next]_vars
             PROVE  Inv'
    OBVIOUS
<1>1. CASE Select
  <2>1. binary_count' = StartOf(input) /\ dir' = DirOf(input) /\ input' = input
      BY <1>1 DEF Select, StartOf, DirOf
  <2>2. led_pio' = led_pio /\ main_pc' = "print_first"
      BY <1>1 DEF Select, Goto
  <2>3. binary_count' \in U8 /\ dir' \in {-1, 1, 3}
      BY <2>1, Directions, MaxCountFacts DEF StartOf, U8
  <2>4. BeforeRun'
      BY <2>1 DEF BeforeRun, StartOf, DirOf
  <2> QED BY <2>2, <2>3, <2>4
          DEF Inv, NumbersOK, DuringRun, InRun, Shown, Places, U8
<1>2. CASE UpdateLed
  <2>1. UNCHANGED <<binary_count, dir, input>> /\ led_pio' = MaxCount - binary_count
      BY <1>2 DEF UpdateLed, Pattern, choice
  <2>2. led_pio' \in U8
      BY <2>1, MaxCountFacts DEF Inv, NumbersOK, U8
  <2>3. CASE Goto("led_first", "delay_first")
    <3>1. dir = DirOf(input) /\ binary_count = StartOf(input)
        BY <2>3 DEF Goto, Inv, BeforeRun
    <3>2. dir = 3 => binary_count % 3 = 0
        BY <3>1 DEF DirOf, StartOf
    <3>3. input \notin {"u", "d", "3"} => binary_count = MaxCount
        BY <3>1 DEF StartOf
    <3>4. DuringRun'
        BY <2>1, <3>1, <3>2, <3>3 DEF DuringRun, DirOf
    <3> QED BY <2>1, <2>2, <2>3, <3>4
            DEF Goto, Inv, NumbersOK, BeforeRun, Shown, Places, U8
  <2>4. CASE Goto("led", "delay")
      BY <2>1, <2>2, <2>4
      DEF Goto, Inv, NumbersOK, BeforeRun, DuringRun, InRun, Shown, Places, U8, DirOf
  <2> QED BY <1>2, <2>3, <2>4 DEF UpdateLed
<1>3. CASE Count
  <2>1. /\ binary_count' = binary_count + dir /\ binary_count' \in U8
        /\ dir = 3 => binary_count' % 3 = 0
        /\ input \in {"u", "d", "3"}
      BY <1>3, CountStays
  <2>2. UNCHANGED <<dir, input, led_pio>> /\ main_pc = "loop" /\ main_pc' = "print"
      BY <1>3 DEF Count, choice, Goto
  <2>3. NumbersOK' /\ BeforeRun'
      BY <2>1, <2>2 DEF Inv, NumbersOK, BeforeRun, Places, U8
  <2>4. DuringRun'
      BY <2>1, <2>2 DEF Inv, DuringRun, InRun, DirOf
  <2>5. led_pio = MaxCount - ((binary_count + dir) - dir)
      BY <2>2, MaxCountFacts DEF Inv, Shown, NumbersOK, U8
  <2>6. Shown'
      BY <2>1, <2>2, <2>5 DEF Shown
  <2> QED BY <2>3, <2>4, <2>6 DEF Inv
<1>4. CASE \/ Tick \/ Startup \/ ErrorLoop \/ DelayWait \/ PrintCount
           \/ GetChar \/ DiscardChar \/ DelayDone \/ Finish
           \/ \E key \in Keys : TypeLine(key)
           \/ UNCHANGED vars
    BY <1>4, OthersKeep
<1> QED BY <1>1, <1>2, <1>3, <1>4 DEF Next, Step

\* The counter of main.c:77 never wraps: counting by threes in eight bits ends
\* because 255 is a multiple of three.
THEOREM CounterCorrect == Spec => CounterNeverWraps
<1>1. Init => Inv
    BY InvInit
<1>2. Inv /\ [Next]_vars => Inv'
    BY InvNext
<1>3. Inv /\ [Next]_vars => [main_pc = "loop" /\ main_pc' = "print" =>
                                binary_count' = binary_count + dir]_vars
  <2> SUFFICES ASSUME Inv, Next, main_pc = "loop", main_pc' = "print"
               PROVE  binary_count' = binary_count + dir
      OBVIOUS
  <2>1. Count
      BY DEF Next, Step, Tick, TypeLine, Startup, ErrorLoop, GetChar, DiscardChar,
             Select, PrintCount, UpdateLed, DelayWait, DelayDone, Finish, Goto, mainVars
  <2> QED BY <2>1, CountStays
<1> QED BY <1>1, <1>2, <1>3, PTL DEF Spec, CounterNeverWraps

-----------------------------------------------------------------------------
(* Display                                                                 *)

Number == MaxCount - led_pio
Run == IF InRun THEN RunOf(input) ELSE "none"

\* The steps of the display, written for the program.
LEMMA Mapping ==
    /\ Onlooker!Begin <=> Run = "none" /\ Run' \in Onlooker!Runs
                           /\ Number' = Onlooker!First(Run')
    /\ Onlooker!Advance <=> /\ Run \in Onlooker!Runs /\ Number # Onlooker!Last(Run)
                            /\ Number' = CASE Run = "up"     -> Number + 1
                                           [] Run = "down"   -> Number - 1
                                           [] Run = "threes" -> Number + 3
                            /\ Run' = Run
    /\ Onlooker!End <=> /\ Run \in Onlooker!Runs /\ Number = Onlooker!Last(Run)
                        /\ Run' = "none" /\ Number' = Number
BY DEF Onlooker!Begin, Onlooker!Advance, Onlooker!End, Run, RunOf, InRun, Number

LEMMA RunNames ==
    /\ RunOf("u") = "up" /\ RunOf("d") = "down" /\ RunOf("3") = "threes"
    /\ \A key : key \notin {"u", "d", "3"} => RunOf(key) = "full"
    /\ \A key : RunOf(key) \in Onlooker!Runs /\ RunOf(key) # "none"
BY DEF RunOf, Onlooker!Runs

\* What the LEDs show in a run, as a number.
LEMMA NumberShown ==
    ASSUME Inv
    PROVE  /\ main_pc \in {"delay_first", "loop", "delay"} => Number = binary_count
           /\ main_pc \in {"print", "led"} => Number = binary_count - dir
BY MaxCountFacts DEF Inv, Shown, NumbersOK, U8, Number

\* Most steps are not seen.
LEMMA OthersUnseen ==
    ASSUME \/ Tick \/ Startup \/ ErrorLoop \/ DelayWait \/ GetChar \/ DiscardChar \/ Select
           \/ PrintCount \/ Count \/ UNCHANGED vars
           \/ \E key \in Keys : TypeLine(key)
           \/ DelayDone
    PROVE  Number' = Number /\ Run' = Run
<1> USE DEF Run, InRun, Goto
<1>1. ASSUME Tick \/ ErrorLoop \/ DelayWait \/ UNCHANGED vars
      PROVE  UNCHANGED <<led_pio, input, main_pc>>
    BY <1>1 DEF Tick, ErrorLoop, DelayWait, vars, mainVars, choice
<1>2. ASSUME NEW key \in Keys, TypeLine(key)
      PROVE  UNCHANGED <<led_pio, input, main_pc>>
    BY <1>2 DEF TypeLine, choice
<1>3. CASE UNCHANGED <<led_pio, input, main_pc>>
    BY <1>3 DEF Number, RunOf
<1>4. CASE Startup \/ GetChar \/ DiscardChar \/ Select
  <2>1. led_pio' = led_pio /\ ~InRun /\ ~InRun'
      BY <1>4 DEF Startup, GetChar, DiscardChar, Select
  <2> QED BY <2>1 DEF Number
<1>5. CASE PrintCount \/ Count \/ DelayDone
  <2>1. UNCHANGED <<led_pio, input>> /\ (InRun' <=> InRun)
      BY <1>5 DEF PrintCount, Count, DelayDone, choice
  <2> QED BY <2>1 DEF Number, RunOf
<1> QED BY <1>1, <1>2, <1>3, <1>4, <1>5

\* The first number of a run.
LEMMA FirstSeen ==
    ASSUME Inv, UpdateLed, Goto("led_first", "delay_first")
    PROVE  Onlooker!Begin
<1>1. Run = "none" /\ Run' = RunOf(input)
    BY DEF Run, InRun, Goto, UpdateLed, choice, RunOf
<1>2. Number' = binary_count /\ binary_count = StartOf(input)
    BY MaxCountFacts DEF Number, UpdateLed, Pattern, Inv, BeforeRun, Goto, NumbersOK, U8
<1>3. Onlooker!First(RunOf(input)) = StartOf(input)
  <2>1. CASE input \in {"u", "d", "3"}
      BY <2>1, RunNames DEF Onlooker!First, StartOf
  <2>2. CASE input \notin {"u", "d", "3"}
      BY <2>2, RunNames DEF Onlooker!First, StartOf
  <2> QED BY <2>1, <2>2
<1> QED BY <1>1, <1>2, <1>3, RunNames, Mapping

\* The number after the one on the LEDs: that one was not the last.
LEMMA NextSeen ==
    ASSUME Inv, UpdateLed, Goto("led", "delay")
    PROVE  Onlooker!Advance
<1>1. Run = RunOf(input) /\ Run' = Run
    BY DEF Run, InRun, Goto, UpdateLed, choice, RunOf
<1>2. /\ binary_count \in 0 .. MaxCount /\ dir = DirOf(input)
      /\ led_pio \in 0 .. MaxCount /\ input \in {"u", "d", "3"}
    BY DEF Inv, NumbersOK, DuringRun, InRun, Shown, Goto, U8
<1>3. Number = binary_count - dir /\ Number \in 0 .. MaxCount
    BY <1>2, MaxCountFacts, NumberShown DEF Goto, Number
<1>4. Number' = binary_count
    BY <1>2, MaxCountFacts DEF Number, UpdateLed, Pattern
<1>5. CASE input = "u"
  <2>1. Run = "up" /\ Number = binary_count - 1
      BY <1>1, <1>2, <1>3, <1>5, RunNames, Directions
  <2>2. Number # Onlooker!Last("up")
      BY <1>2, <2>1, MaxCountFacts DEF Onlooker!Last
  <2> QED BY <1>1, <1>2, <1>4, <2>1, <2>2, RunNames, Mapping DEF Onlooker!Runs
<1>6. CASE input = "d"
  <2>1. Run = "down" /\ Number = binary_count + 1
      BY <1>1, <1>2, <1>3, <1>6, RunNames, Directions
  <2>2. Number # Onlooker!Last("down")
      BY <1>2, <2>1, MaxCountFacts DEF Onlooker!Last
  <2> QED BY <1>1, <1>2, <1>4, <2>1, <2>2, RunNames, Mapping DEF Onlooker!Runs
<1>7. CASE input = "3"
  <2>1. Run = "threes" /\ Number = binary_count - 3
      BY <1>1, <1>2, <1>3, <1>7, RunNames, Directions
  <2>2. Number # Onlooker!Last("threes")
      BY <1>2, <2>1, MaxCountFacts DEF Onlooker!Last
  <2> QED BY <1>1, <1>2, <1>4, <2>1, <2>2, RunNames, Mapping DEF Onlooker!Runs
<1> QED BY <1>2, <1>5, <1>6, <1>7

\* The loop ends with the last number of the run on the LEDs.
LEMMA EndSeen ==
    ASSUME Inv, Finish
    PROVE  Onlooker!End
<1>1. InRun /\ main_pc = "loop" /\ ~MoreToCount /\ ~InRun'
    BY DEF Finish, Goto, InRun
<1>2. Run = RunOf(input) /\ Run' = "none" /\ Number' = Number
    BY <1>1 DEF Run, Finish, Number
<1>3. Number = IF input = "d" THEN 0 ELSE MaxCount
    BY <1>1, NumberShown, RunIsOver
<1>4. RunOf(input) = "down" <=> input = "d"
    BY DEF RunOf
<1> QED BY <1>2, <1>3, <1>4, RunNames, Mapping DEF Onlooker!Last

LEMMA StepMaps == Inv /\ [Next]_vars => [Onlooker!Next]_<<Number, Run>>
<1> SUFFICES ASSUME Inv, [Next]_vars
             PROVE  [Onlooker!Next]_<<Number, Run>>
    OBVIOUS
<1>1. CASE UpdateLed
    BY <1>1, FirstSeen, NextSeen DEF UpdateLed, Onlooker!Next
<1>2. CASE Finish
    BY <1>2, EndSeen DEF Onlooker!Next
<1>3. CASE \/ Tick \/ Startup \/ ErrorLoop \/ DelayWait \/ GetChar \/ DiscardChar
           \/ Select \/ PrintCount \/ Count \/ UNCHANGED vars
           \/ \E key \in Keys : TypeLine(key)
           \/ DelayDone
    BY <1>3, OthersUnseen
<1> QED BY <1>1, <1>2, <1>3 DEF Next, Step

\* The LED register of the week 4 program (led_util.c:15-21) goes through the selected
\* sequence of Display, each number once and in order, whenever the operator types and
\* however the delays end.
THEOREM LedsImplementDisplay == Spec => ImplementsDisplay
<1>1. Init => Onlooker!Init
    BY MaxCountFacts DEF Init, MainInit, Onlooker!Init
<1>2. Init => Inv
    BY InvInit
<1>3. Inv /\ [Next]_vars => Inv'
    BY InvNext
<1>4. Inv /\ [Next]_vars => [Onlooker!Next]_<<Number, Run>>
    BY StepMaps
<1>5. ImplementsDisplay <=> Onlooker!Init /\ [][Onlooker!Next]_<<Number, Run>>
    BY DEF ImplementsDisplay, Onlooker!Spec, Number, Run, RunOf, InRun
<1> QED BY <1>1, <1>2, <1>3, <1>4, <1>5, PTL DEF Spec

-----------------------------------------------------------------------------
(* The types of DelayWait, under main                                        *)

LEMMA OwnNumbers ==
    /\ Wrap \in Nat /\ Wrap > 1 /\ MaxAge \in Nat
    /\ Rates \subseteq 0 .. Wrap-1
    /\ InitOrder \in Seq(Alarms) /\ Len(InitOrder) \in Nat /\ Len(InitOrder) > 0
    /\ Divisor \in [Alarms -> Nat \ {0}]
    /\ DefaultMode \in Alarms /\ None \notin Alarms
<1>1. /\ Wrap \in Nat /\ Wrap > 1 /\ MaxAge \in Nat
      /\ Rates \subseteq 0 .. Wrap-1
      /\ InitOrder \in Seq(Alarms) /\ InitOrder # <<>>
      /\ Divisor \in [Alarms -> Nat \ {0}]
      /\ DefaultMode \in Alarms /\ None \notin Alarms
    BY CallersAssumption DEF Delay!DelayAssumption
<1>2. Len(InitOrder) \in Nat /\ Len(InitOrder) > 0
    BY <1>1
<1> QED BY <1>1, <1>2

LEMMA OwnAdds ==
    ASSUME NEW x \in Nat, NEW y \in Nat
    PROVE  Delay!Hal!Add(x, y) \in Delay!Hal!U32
BY OwnNumbers DEF Delay!Hal!Add, Delay!Hal!U32

\* The types, that alarm_init has an alarm left to start, and that a mode in use is that
\* of an alarm.
OwnTyped ==
    /\ Delay!TypeOK
    /\ delay_pc \in {"boot", "alarm_init"} => started < Len(InitOrder)
    /\ delay_pc \in {"load", "test", "set_mode"} => DELAY_MODE \in Alarms
    /\ tick_rate \in Rates \cup {0}

LEMMA OwnTypeInit == Delay!Init => OwnTyped
<1> SUFFICES ASSUME Delay!Init PROVE OwnTyped
    OBVIOUS
<1>1. 0 \in Delay!Hal!U32
    BY OwnNumbers DEF Delay!Hal!U32
<1>2. Delay!Hal!TypeOK
    BY <1>1 DEF Delay!Init, Delay!Hal!Init, Delay!Hal!TypeOK
<1>3. age \in Delay!Ages
    BY OwnNumbers DEF Delay!Init, Delay!Ages
<1>4. started \in 0 .. Len(InitOrder)
    BY OwnNumbers DEF Delay!Init
<1> QED BY <1>1, <1>2, <1>3, <1>4, OwnNumbers
        DEF OwnTyped, Delay!TypeOK, Delay!Init, Delay!Hal!Init, Delay!Modes

LEMMA OwnOlder == ASSUME NEW x \in 0 .. MaxAge PROVE Delay!Older(x) \in 0 .. MaxAge
BY OwnNumbers DEF Delay!Older

LEMMA OwnAges ==
    ASSUME NEW g \in Delay!Ages, NEW x \in 0 .. MaxAge, NEW y \in 0 .. MaxAge
    PROVE  /\ [g EXCEPT !.call = x] \in Delay!Ages /\ [g EXCEPT !.load = x] \in Delay!Ages
           /\ [g EXCEPT !.last = x] \in Delay!Ages
           /\ [g EXCEPT !.last = x, !.previous = y] \in Delay!Ages
           /\ g.last \in 0 .. MaxAge /\ g.load \in 0 .. MaxAge
<1> USE DEF Delay!Ages
<1>1. [g EXCEPT !.call = x] \in Delay!Ages /\ [g EXCEPT !.load = x] \in Delay!Ages
    OBVIOUS
<1>2. [g EXCEPT !.last = x] \in Delay!Ages
    OBVIOUS
<1>3. [g EXCEPT !.last = x, !.previous = y] \in Delay!Ages
    OBVIOUS
<1> QED BY <1>1, <1>2, <1>3

LEMMA OwnTickTyped == OwnTyped /\ Delay!Tick => OwnTyped'
<1> SUFFICES ASSUME OwnTyped, Delay!Tick PROVE OwnTyped'
    OBVIOUS
<1> USE DEF OwnTyped, Delay!TypeOK, Delay!contexts, Delay!settings
<1>1. Delay!Hal!U32 \subseteq Nat
    BY OwnNumbers DEF Delay!Hal!U32
<1>2. /\ nticks \in Delay!Hal!U32 /\ time \in [Alarms -> Delay!Hal!U32]
      /\ rollover \in [Alarms -> BOOLEAN] /\ alarm_list \subseteq Alarms
      /\ tick_rate \in Delay!Hal!U32
    BY DEF Delay!Hal!TypeOK
<1>3. nticks' \in Delay!Hal!U32
    BY <1>1, <1>2, OwnAdds DEF Delay!Tick, Delay!Hal!TimerInterrupt, Delay!Hal!Tick
<1>4. time' \in [Alarms -> Delay!Hal!U32]
  <2>1. \A a \in Alarms : Delay!Hal!Add(time[a], alarm_timeout[a]) \in Delay!Hal!U32
      BY <1>1, <1>2, OwnAdds
  <2> QED BY <1>2, <2>1 DEF Delay!Tick, Delay!Hal!TimerInterrupt, Delay!Hal!Tick
<1>5. rollover' \in [Alarms -> BOOLEAN]
    BY <1>2, Zenon DEF Delay!Tick, Delay!Hal!TimerInterrupt, Delay!Hal!Tick
<1>6. alarm_list' \subseteq Alarms /\ tick_rate' = tick_rate
    BY <1>2 DEF Delay!Tick, Delay!Hal!TimerInterrupt, Delay!Hal!Tick
<1>7. Delay!Hal!TypeOK'
    BY <1>2, <1>3, <1>4, <1>5, <1>6 DEF Delay!Hal!TypeOK
<1>8. alarm_count' \in [Alarms -> Delay!Hal!U32]
  <2>1. \A a \in Alarms : Delay!Counted(a) \in Delay!Hal!U32
      BY <1>1, OwnAdds DEF Delay!Counted
  <2> QED BY <2>1 DEF Delay!Tick
<1>9. age' \in Delay!Ages
    BY OwnOlder DEF Delay!Tick, Delay!Ages
<1> QED BY <1>6, <1>7, <1>8, <1>9 DEF Delay!Tick

\* A period is whole, and a 32-bit number.
LEMMA OwnTimeout ==
    ASSUME tick_rate \in Rates, NEW a \in Alarms
    PROVE  Delay!Timeout(a) \in Delay!Hal!U32
<1>1. tick_rate \in Nat /\ tick_rate < Wrap /\ Divisor[a] \in Nat /\ Divisor[a] > 0
    BY OwnNumbers
<1>2. Delay!Timeout(a) \in Nat /\ Delay!Timeout(a) <= tick_rate
    BY <1>1, Z3 DEF Delay!Timeout
<1> QED BY <1>1, <1>2, OwnNumbers DEF Delay!Hal!U32

LEMMA OwnStartTyped ==
    ASSUME OwnTyped, NEW a \in Alarms, Delay!AlarmInitNext(a)
    PROVE  OwnTyped'
<1> USE DEF OwnTyped, Delay!TypeOK, Delay!settings
<1>1. Delay!Hal!U32 \subseteq Nat /\ 0 \in Delay!Hal!U32
    BY OwnNumbers DEF Delay!Hal!U32
<1>2. /\ nticks \in Delay!Hal!U32 /\ time \in [Alarms -> Delay!Hal!U32]
      /\ rollover \in [Alarms -> BOOLEAN] /\ alarm_list \subseteq Alarms
      /\ tick_rate \in Delay!Hal!U32
    BY DEF Delay!Hal!TypeOK
<1>3. tick_rate \in Rates
    BY DEF Delay!AlarmInitNext, Delay!Hal!Start, Delay!Hal!ClockEnabled
<1>4. Delay!Timeout(a) \in Delay!Hal!U32
    BY <1>3, OwnTimeout
<1>5. /\ alarm_timeout' \in [Alarms -> Delay!Hal!U32] /\ alarm_timeout'[a] = Delay!Timeout(a)
      /\ alarm_count' \in [Alarms -> Delay!Hal!U32]
    BY <1>1, <1>4 DEF Delay!AlarmInitNext
<1>6. nticks + 1 \in Nat
    BY <1>1, <1>2
<1>7. time' \in [Alarms -> Delay!Hal!U32]
  <2>1. Delay!Hal!Add(alarm_timeout'[a], nticks + 1) \in Delay!Hal!U32
      BY <1>1, <1>4, <1>5, <1>6, OwnAdds
  <2> QED BY <1>2, <2>1 DEF Delay!AlarmInitNext, Delay!Hal!Start, Delay!Hal!FirstCallback
<1>8. rollover' \in [Alarms -> BOOLEAN]
    BY <1>2 DEF Delay!AlarmInitNext, Delay!Hal!Start
<1>9. Delay!Hal!TypeOK'
    BY <1>2, <1>7, <1>8 DEF Delay!AlarmInitNext, Delay!Hal!Start, Delay!Hal!TypeOK
<1>10. /\ started' \in 0 .. Len(InitOrder) /\ delay_pc' \in {"idle", "alarm_init"}
       /\ delay_pc' = "alarm_init" => started' < Len(InitOrder)
    BY OwnNumbers DEF Delay!AlarmInitNext
<1>11. age' \in Delay!Ages
  <2>1. age' = [age EXCEPT !.last = 0] \/ age' = [age EXCEPT !.last = age.last]
      BY DEF Delay!AlarmInitNext
  <2>2. age \in Delay!Ages
      OBVIOUS
  <2>3. 0 \in 0 .. MaxAge /\ age.last \in 0 .. MaxAge
      BY <2>2, OwnNumbers DEF Delay!Ages
  <2> HIDE DEF OwnTyped, Delay!TypeOK, Delay!settings
  <2>4. [age EXCEPT !.last = 0] \in Delay!Ages /\ [age EXCEPT !.last = age.last] \in Delay!Ages
      BY <2>2, <2>3, OwnAges
  <2> QED BY <2>1, <2>4
<1>12. UNCHANGED <<LAST_DELAY, DELAY_MODE, this_delay, tick_rate>>
    BY DEF Delay!AlarmInitNext, Delay!Hal!Start
<1>13. Delay!TypeOK'
    BY <1>5, <1>9, <1>10, <1>11, <1>12
<1> QED BY <1>3, <1>10, <1>12, <1>13

\* The steps of delay_wait and of the setters leave the clock and the contexts alone.
LEMMA OwnCallTyped ==
    ASSUME OwnTyped, Delay!Waiting \/ Delay!SetModeCount \/ Delay!Request
    PROVE  OwnTyped' /\ UNCHANGED <<Delay!clock, Delay!contexts>>
<1> USE OwnNumbers DEF OwnTyped, Delay!TypeOK, Delay!contexts, Delay!settings, Delay!clock
<1>1. UNCHANGED <<tick_rate, nticks, alarm_list, time, rollover, alarm_timeout, alarm_count,
                  started>>
    BY DEF Delay!Waiting, Delay!DelayLoad, Delay!DelayAgain, Delay!DelayReturn, Delay!Return,
           Delay!SetModeCount, Delay!Request, Delay!DelayCall, Delay!SetModeNone, Delay!SetMode
<1>2. Delay!Hal!TypeOK'
    BY <1>1 DEF Delay!Hal!TypeOK
<1>3. age' \in Delay!Ages
  <2>1. \/ UNCHANGED age
        \/ age' = [age EXCEPT !.call = 0] \/ age' = [age EXCEPT !.load = 0]
        \/ age' = [age EXCEPT !.last = age.load, !.previous = age.last]
        \/ age' = [age EXCEPT !.last = 0, !.previous = MaxAge]
    <3>1. CASE Delay!Waiting
        BY <3>1 DEF Delay!Waiting, Delay!DelayLoad, Delay!DelayAgain, Delay!DelayReturn, Delay!Return
    <3>2. CASE Delay!SetModeCount
        BY <3>2 DEF Delay!SetModeCount
    <3>3. CASE Delay!Request
      <4>1. Delay!DelayCall => age' = [age EXCEPT !.call = 0]
          BY DEF Delay!DelayCall
      <4>2. Delay!SetModeNone => age' = age
          BY DEF Delay!SetModeNone
      <4>3. ASSUME NEW a \in Alarms, Delay!SetMode(a) PROVE age' = age
          BY <4>3 DEF Delay!SetMode
      <4> QED BY <3>3, <4>1, <4>2, <4>3 DEF Delay!Request
    <3> QED BY <3>1, <3>2, <3>3
  <2>2. age \in Delay!Ages
      OBVIOUS
  <2>3. 0 \in 0 .. MaxAge /\ MaxAge \in 0 .. MaxAge
        /\ age.last \in 0 .. MaxAge /\ age.load \in 0 .. MaxAge
      BY <2>2 DEF Delay!Ages
  <2> HIDE DEF OwnTyped, Delay!TypeOK, Delay!contexts, Delay!settings, Delay!clock
  <2>4. /\ [age EXCEPT !.call = 0] \in Delay!Ages /\ [age EXCEPT !.load = 0] \in Delay!Ages
        /\ [age EXCEPT !.last = age.load, !.previous = age.last] \in Delay!Ages
        /\ [age EXCEPT !.last = 0, !.previous = MaxAge] \in Delay!Ages
      BY <2>2, <2>3, OwnAges
  <2> QED BY <2>1, <2>2, <2>4
<1>4. /\ LAST_DELAY' \in Delay!Hal!U32 /\ this_delay' \in Delay!Hal!U32
      /\ DELAY_MODE' \in Delay!Modes
      /\ delay_pc' \in {"idle", "load", "test", "set_mode"}
      /\ delay_pc' # "idle" => DELAY_MODE' \in Alarms
  <2>1. delay_pc \in {"load", "test", "set_mode"} =>
            DELAY_MODE \in Alarms /\ alarm_count[DELAY_MODE] \in Delay!Hal!U32
      OBVIOUS
  <2>2. CASE Delay!Waiting
      BY <2>1, <2>2 DEF Delay!Waiting, Delay!DelayLoad, Delay!DelayAgain, Delay!DelayReturn, Delay!Return
  <2>3. CASE Delay!SetModeCount
      BY <2>1, <2>3 DEF Delay!SetModeCount
  <2>4. CASE Delay!Request
      BY <2>4 DEF Delay!Request, Delay!DelayCall, Delay!SetModeNone, Delay!SetMode, Delay!Modes
  <2> QED BY <2>2, <2>3, <2>4
<1> QED BY <1>1, <1>2, <1>3, <1>4

LEMMA OwnTypeNext == OwnTyped /\ [Delay!Next]_(Delay!vars) => OwnTyped'
<1> SUFFICES ASSUME OwnTyped, [Delay!Next]_(Delay!vars) PROVE OwnTyped'
    OBVIOUS
<1> USE DEF OwnTyped, Delay!TypeOK
<1>1. CASE Delay!SysInit
  <2>1. PICK rate \in Rates : Delay!Hal!SysClkInit(rate)
      BY <1>1 DEF Delay!SysInit
  <2>2. rate \in Delay!Hal!U32
      BY OwnNumbers DEF Delay!Hal!U32
  <2>3. Delay!Hal!TypeOK' /\ tick_rate' \in Rates
      BY <2>1, <2>2 DEF Delay!Hal!SysClkInit, Delay!Hal!alarmVars, Delay!Hal!TypeOK
  <2>4. delay_pc = "boot" => started < Len(InitOrder)
      OBVIOUS
  <2> QED BY <1>1, <2>3, <2>4 DEF Delay!SysInit, Delay!contexts, Delay!settings
<1>2. CASE Delay!AlarmInitFails
    BY <1>2 DEF Delay!AlarmInitFails, Delay!clock, Delay!contexts, Delay!settings, Delay!Hal!TypeOK
<1>3. CASE Delay!ErrorLoop \/ UNCHANGED Delay!vars
    BY <1>3 DEF Delay!ErrorLoop, Delay!vars, Delay!clock, Delay!contexts, Delay!settings, Delay!Hal!TypeOK
<1>4. CASE Delay!Waiting \/ Delay!SetModeCount \/ Delay!Request
    BY <1>4, OwnCallTyped
<1> QED BY <1>1, <1>2, <1>3, <1>4, OwnTickTyped, OwnStartTyped
        DEF Delay!Next, Delay!Progress, Delay!Startup

-----------------------------------------------------------------------------
(* The types of DelayWait, under any caller                                  *)

LEMMA FreeNumbers ==
    /\ FreeWrap \in Nat /\ FreeWrap > 1 /\ FreeAge \in Nat
    /\ FreeRates \subseteq 0 .. FreeWrap-1
    /\ FreeOrder \in Seq(FreeAlarms) /\ Len(FreeOrder) \in Nat /\ Len(FreeOrder) > 0
    /\ FreeDivisor \in [FreeAlarms -> Nat \ {0}]
    /\ DefaultMode \in FreeAlarms /\ None \notin FreeAlarms
<1>1. /\ FreeWrap \in Nat /\ FreeWrap > 1 /\ FreeAge \in Nat
      /\ FreeRates \subseteq 0 .. FreeWrap-1
      /\ FreeOrder \in Seq(FreeAlarms) /\ FreeOrder # <<>>
      /\ FreeDivisor \in [FreeAlarms -> Nat \ {0}]
      /\ DefaultMode \in FreeAlarms /\ None \notin FreeAlarms
    BY CallersAssumption DEF Free!DelayAssumption
<1>2. Len(FreeOrder) \in Nat /\ Len(FreeOrder) > 0
    BY <1>1
<1> QED BY <1>1, <1>2

LEMMA FreeAdds ==
    ASSUME NEW x \in Nat, NEW y \in Nat
    PROVE  Free!Hal!Add(x, y) \in Free!Hal!U32
BY FreeNumbers DEF Free!Hal!Add, Free!Hal!U32

\* The types, that alarm_init has an alarm left to start, and that a mode in use is that
\* of an alarm.
FreeTyped ==
    /\ Free!TypeOK
    /\ delay_pc \in {"boot", "alarm_init"} => started < Len(FreeOrder)
    /\ delay_pc \in {"load", "test", "set_mode"} => DELAY_MODE \in FreeAlarms
    /\ tick_rate \in FreeRates \cup {0}

LEMMA FreeTypeInit == Free!Init => FreeTyped
<1> SUFFICES ASSUME Free!Init PROVE FreeTyped
    OBVIOUS
<1>1. 0 \in Free!Hal!U32
    BY FreeNumbers DEF Free!Hal!U32
<1>2. Free!Hal!TypeOK
    BY <1>1 DEF Free!Init, Free!Hal!Init, Free!Hal!TypeOK
<1>3. age \in Free!Ages
    BY FreeNumbers DEF Free!Init, Free!Ages
<1>4. started \in 0 .. Len(FreeOrder)
    BY FreeNumbers DEF Free!Init
<1> QED BY <1>1, <1>2, <1>3, <1>4, FreeNumbers
        DEF FreeTyped, Free!TypeOK, Free!Init, Free!Hal!Init, Free!Modes

LEMMA FreeOlder == ASSUME NEW x \in 0 .. FreeAge PROVE Free!Older(x) \in 0 .. FreeAge
BY FreeNumbers DEF Free!Older

LEMMA FreeAges ==
    ASSUME NEW g \in Free!Ages, NEW x \in 0 .. FreeAge, NEW y \in 0 .. FreeAge
    PROVE  /\ [g EXCEPT !.call = x] \in Free!Ages /\ [g EXCEPT !.load = x] \in Free!Ages
           /\ [g EXCEPT !.last = x] \in Free!Ages
           /\ [g EXCEPT !.last = x, !.previous = y] \in Free!Ages
           /\ g.last \in 0 .. FreeAge /\ g.load \in 0 .. FreeAge
<1> USE DEF Free!Ages
<1>1. [g EXCEPT !.call = x] \in Free!Ages /\ [g EXCEPT !.load = x] \in Free!Ages
    OBVIOUS
<1>2. [g EXCEPT !.last = x] \in Free!Ages
    OBVIOUS
<1>3. [g EXCEPT !.last = x, !.previous = y] \in Free!Ages
    OBVIOUS
<1> QED BY <1>1, <1>2, <1>3

LEMMA FreeTickTyped == FreeTyped /\ Free!Tick => FreeTyped'
<1> SUFFICES ASSUME FreeTyped, Free!Tick PROVE FreeTyped'
    OBVIOUS
<1> USE DEF FreeTyped, Free!TypeOK, Free!contexts, Free!settings
<1>1. Free!Hal!U32 \subseteq Nat
    BY FreeNumbers DEF Free!Hal!U32
<1>2. /\ nticks \in Free!Hal!U32 /\ time \in [FreeAlarms -> Free!Hal!U32]
      /\ rollover \in [FreeAlarms -> BOOLEAN] /\ alarm_list \subseteq FreeAlarms
      /\ tick_rate \in Free!Hal!U32
    BY DEF Free!Hal!TypeOK
<1>3. nticks' \in Free!Hal!U32
    BY <1>1, <1>2, FreeAdds DEF Free!Tick, Free!Hal!TimerInterrupt, Free!Hal!Tick
<1>4. time' \in [FreeAlarms -> Free!Hal!U32]
  <2>1. \A a \in FreeAlarms : Free!Hal!Add(time[a], alarm_timeout[a]) \in Free!Hal!U32
      BY <1>1, <1>2, FreeAdds
  <2> QED BY <1>2, <2>1 DEF Free!Tick, Free!Hal!TimerInterrupt, Free!Hal!Tick
<1>5. rollover' \in [FreeAlarms -> BOOLEAN]
    BY <1>2, Zenon DEF Free!Tick, Free!Hal!TimerInterrupt, Free!Hal!Tick
<1>6. alarm_list' \subseteq FreeAlarms /\ tick_rate' = tick_rate
    BY <1>2 DEF Free!Tick, Free!Hal!TimerInterrupt, Free!Hal!Tick
<1>7. Free!Hal!TypeOK'
    BY <1>2, <1>3, <1>4, <1>5, <1>6 DEF Free!Hal!TypeOK
<1>8. alarm_count' \in [FreeAlarms -> Free!Hal!U32]
  <2>1. \A a \in FreeAlarms : Free!Counted(a) \in Free!Hal!U32
      BY <1>1, FreeAdds DEF Free!Counted
  <2> QED BY <2>1 DEF Free!Tick
<1>9. age' \in Free!Ages
    BY FreeOlder DEF Free!Tick, Free!Ages
<1> QED BY <1>6, <1>7, <1>8, <1>9 DEF Free!Tick

\* A period is whole, and a 32-bit number.
LEMMA FreeTimeout ==
    ASSUME tick_rate \in FreeRates, NEW a \in FreeAlarms
    PROVE  Free!Timeout(a) \in Free!Hal!U32
<1>1. tick_rate \in Nat /\ tick_rate < FreeWrap /\ FreeDivisor[a] \in Nat /\ FreeDivisor[a] > 0
    BY FreeNumbers
<1>2. Free!Timeout(a) \in Nat /\ Free!Timeout(a) <= tick_rate
    BY <1>1, Z3 DEF Free!Timeout
<1> QED BY <1>1, <1>2, FreeNumbers DEF Free!Hal!U32

LEMMA FreeStartTyped ==
    ASSUME FreeTyped, NEW a \in FreeAlarms, Free!AlarmInitNext(a)
    PROVE  FreeTyped'
<1> USE DEF FreeTyped, Free!TypeOK, Free!settings
<1>1. Free!Hal!U32 \subseteq Nat /\ 0 \in Free!Hal!U32
    BY FreeNumbers DEF Free!Hal!U32
<1>2. /\ nticks \in Free!Hal!U32 /\ time \in [FreeAlarms -> Free!Hal!U32]
      /\ rollover \in [FreeAlarms -> BOOLEAN] /\ alarm_list \subseteq FreeAlarms
      /\ tick_rate \in Free!Hal!U32
    BY DEF Free!Hal!TypeOK
<1>3. tick_rate \in FreeRates
    BY DEF Free!AlarmInitNext, Free!Hal!Start, Free!Hal!ClockEnabled
<1>4. Free!Timeout(a) \in Free!Hal!U32
    BY <1>3, FreeTimeout
<1>5. /\ alarm_timeout' \in [FreeAlarms -> Free!Hal!U32] /\ alarm_timeout'[a] = Free!Timeout(a)
      /\ alarm_count' \in [FreeAlarms -> Free!Hal!U32]
    BY <1>1, <1>4 DEF Free!AlarmInitNext
<1>6. nticks + 1 \in Nat
    BY <1>1, <1>2
<1>7. time' \in [FreeAlarms -> Free!Hal!U32]
  <2>1. Free!Hal!Add(alarm_timeout'[a], nticks + 1) \in Free!Hal!U32
      BY <1>1, <1>4, <1>5, <1>6, FreeAdds
  <2> QED BY <1>2, <2>1 DEF Free!AlarmInitNext, Free!Hal!Start, Free!Hal!FirstCallback
<1>8. rollover' \in [FreeAlarms -> BOOLEAN]
    BY <1>2 DEF Free!AlarmInitNext, Free!Hal!Start
<1>9. Free!Hal!TypeOK'
    BY <1>2, <1>7, <1>8 DEF Free!AlarmInitNext, Free!Hal!Start, Free!Hal!TypeOK
<1>10. /\ started' \in 0 .. Len(FreeOrder) /\ delay_pc' \in {"idle", "alarm_init"}
       /\ delay_pc' = "alarm_init" => started' < Len(FreeOrder)
    BY FreeNumbers DEF Free!AlarmInitNext
<1>11. age' \in Free!Ages
  <2>1. age' = [age EXCEPT !.last = 0] \/ age' = [age EXCEPT !.last = age.last]
      BY DEF Free!AlarmInitNext
  <2>2. age \in Free!Ages
      OBVIOUS
  <2>3. 0 \in 0 .. FreeAge /\ age.last \in 0 .. FreeAge
      BY <2>2, FreeNumbers DEF Free!Ages
  <2> HIDE DEF FreeTyped, Free!TypeOK, Free!settings
  <2>4. [age EXCEPT !.last = 0] \in Free!Ages /\ [age EXCEPT !.last = age.last] \in Free!Ages
      BY <2>2, <2>3, FreeAges
  <2> QED BY <2>1, <2>4
<1>12. UNCHANGED <<LAST_DELAY, DELAY_MODE, this_delay, tick_rate>>
    BY DEF Free!AlarmInitNext, Free!Hal!Start
<1>13. Free!TypeOK'
    BY <1>5, <1>9, <1>10, <1>11, <1>12
<1> QED BY <1>3, <1>10, <1>12, <1>13

\* The steps of delay_wait and of the setters leave the clock and the contexts alone.
LEMMA FreeCallTyped ==
    ASSUME FreeTyped, Free!Waiting \/ Free!SetModeCount \/ Free!Request
    PROVE  FreeTyped' /\ UNCHANGED <<Free!clock, Free!contexts>>
<1> USE FreeNumbers DEF FreeTyped, Free!TypeOK, Free!contexts, Free!settings, Free!clock
<1>1. UNCHANGED <<tick_rate, nticks, alarm_list, time, rollover, alarm_timeout, alarm_count,
                  started>>
    BY DEF Free!Waiting, Free!DelayLoad, Free!DelayAgain, Free!DelayReturn, Free!Return,
           Free!SetModeCount, Free!Request, Free!DelayCall, Free!SetModeNone, Free!SetMode
<1>2. Free!Hal!TypeOK'
    BY <1>1 DEF Free!Hal!TypeOK
<1>3. age' \in Free!Ages
  <2>1. \/ UNCHANGED age
        \/ age' = [age EXCEPT !.call = 0] \/ age' = [age EXCEPT !.load = 0]
        \/ age' = [age EXCEPT !.last = age.load, !.previous = age.last]
        \/ age' = [age EXCEPT !.last = 0, !.previous = FreeAge]
    <3>1. CASE Free!Waiting
        BY <3>1 DEF Free!Waiting, Free!DelayLoad, Free!DelayAgain, Free!DelayReturn, Free!Return
    <3>2. CASE Free!SetModeCount
        BY <3>2 DEF Free!SetModeCount
    <3>3. CASE Free!Request
      <4>1. Free!DelayCall => age' = [age EXCEPT !.call = 0]
          BY DEF Free!DelayCall
      <4>2. Free!SetModeNone => age' = age
          BY DEF Free!SetModeNone
      <4>3. ASSUME NEW a \in FreeAlarms, Free!SetMode(a) PROVE age' = age
          BY <4>3 DEF Free!SetMode
      <4> QED BY <3>3, <4>1, <4>2, <4>3 DEF Free!Request
    <3> QED BY <3>1, <3>2, <3>3
  <2>2. age \in Free!Ages
      OBVIOUS
  <2>3. 0 \in 0 .. FreeAge /\ FreeAge \in 0 .. FreeAge
        /\ age.last \in 0 .. FreeAge /\ age.load \in 0 .. FreeAge
      BY <2>2 DEF Free!Ages
  <2> HIDE DEF FreeTyped, Free!TypeOK, Free!contexts, Free!settings, Free!clock
  <2>4. /\ [age EXCEPT !.call = 0] \in Free!Ages /\ [age EXCEPT !.load = 0] \in Free!Ages
        /\ [age EXCEPT !.last = age.load, !.previous = age.last] \in Free!Ages
        /\ [age EXCEPT !.last = 0, !.previous = FreeAge] \in Free!Ages
      BY <2>2, <2>3, FreeAges
  <2> QED BY <2>1, <2>2, <2>4
<1>4. /\ LAST_DELAY' \in Free!Hal!U32 /\ this_delay' \in Free!Hal!U32
      /\ DELAY_MODE' \in Free!Modes
      /\ delay_pc' \in {"idle", "load", "test", "set_mode"}
      /\ delay_pc' # "idle" => DELAY_MODE' \in FreeAlarms
  <2>1. delay_pc \in {"load", "test", "set_mode"} =>
            DELAY_MODE \in FreeAlarms /\ alarm_count[DELAY_MODE] \in Free!Hal!U32
      OBVIOUS
  <2>2. CASE Free!Waiting
      BY <2>1, <2>2 DEF Free!Waiting, Free!DelayLoad, Free!DelayAgain, Free!DelayReturn, Free!Return
  <2>3. CASE Free!SetModeCount
      BY <2>1, <2>3 DEF Free!SetModeCount
  <2>4. CASE Free!Request
      BY <2>4 DEF Free!Request, Free!DelayCall, Free!SetModeNone, Free!SetMode, Free!Modes
  <2> QED BY <2>2, <2>3, <2>4
<1> QED BY <1>1, <1>2, <1>3, <1>4

LEMMA FreeTypeNext == FreeTyped /\ [Free!Next]_(Free!vars) => FreeTyped'
<1> SUFFICES ASSUME FreeTyped, [Free!Next]_(Free!vars) PROVE FreeTyped'
    OBVIOUS
<1> USE DEF FreeTyped, Free!TypeOK
<1>1. CASE Free!SysInit
  <2>1. PICK rate \in FreeRates : Free!Hal!SysClkInit(rate)
      BY <1>1 DEF Free!SysInit
  <2>2. rate \in Free!Hal!U32
      BY FreeNumbers DEF Free!Hal!U32
  <2>3. Free!Hal!TypeOK' /\ tick_rate' \in FreeRates
      BY <2>1, <2>2 DEF Free!Hal!SysClkInit, Free!Hal!alarmVars, Free!Hal!TypeOK
  <2>4. delay_pc = "boot" => started < Len(FreeOrder)
      OBVIOUS
  <2> QED BY <1>1, <2>3, <2>4 DEF Free!SysInit, Free!contexts, Free!settings
<1>2. CASE Free!AlarmInitFails
    BY <1>2 DEF Free!AlarmInitFails, Free!clock, Free!contexts, Free!settings, Free!Hal!TypeOK
<1>3. CASE Free!ErrorLoop \/ UNCHANGED Free!vars
    BY <1>3 DEF Free!ErrorLoop, Free!vars, Free!clock, Free!contexts, Free!settings, Free!Hal!TypeOK
<1>4. CASE Free!Waiting \/ Free!SetModeCount \/ Free!Request
    BY <1>4, FreeCallTyped
<1> QED BY <1>1, <1>2, <1>3, <1>4, FreeTickTyped, FreeStartTyped
        DEF Free!Next, Free!Progress, Free!Startup

-----------------------------------------------------------------------------
(* The alarms under any caller: a period apart, and the first one a tick   *)
(* later                                                                   *)

Remaining(a) == Free!Hal!Left(a)

LEMMA FreeWraps ==
    ASSUME NEW x \in Nat, NEW y \in Nat, x + y < 2 * FreeWrap
    PROVE  Free!Hal!Add(x, y) = IF x + y < FreeWrap THEN x + y ELSE (x + y) - FreeWrap
<1>1. FreeWrap \in Nat /\ FreeWrap > 0
    BY FreeNumbers
<1>2. CASE x + y < FreeWrap
    BY <1>1, <1>2 DEF Free!Hal!Add
<1>3. CASE x + y >= FreeWrap
    BY <1>1, <1>3 DEF Free!Hal!Add
<1> QED BY <1>1, <1>2, <1>3

\* A period is what the ages can count, and shorter than the longest delay.
LEMMA ShortPeriod ==
    ASSUME tick_rate \in FreeRates, NEW a \in FreeAlarms
    PROVE  Free!Timeout(a) \in Nat /\ Free!Timeout(a) <= FreeAge
               /\ Free!Timeout(a) < FreeWrap - 1
<1>1. Free!Timeout(a) <= FreeAge /\ Free!Timeout(a) < FreeWrap - 1
    BY CallersAssumption DEF Free!Timeout
<1> QED BY <1>1, FreeTimeout, FreeNumbers DEF Free!Hal!U32

\* An alarm with a period is on the list, at most a period and a tick from its next
\* callback, and only before its first one so far.
AlarmArmed(a) ==
    /\ alarm_timeout[a] <= FreeAge /\ alarm_timeout[a] < FreeWrap - 1
    /\ alarm_timeout[a] > 0 =>
          /\ a \in alarm_list /\ Remaining(a) \in 1 .. alarm_timeout[a] + 1
          /\ Remaining(a) = alarm_timeout[a] + 1 => alarm_count[a] = 0

AlarmsArmed == Free!Hal!RolloverExact /\ \A a \in FreeAlarms : AlarmArmed(a)

\* What alt_alarm_start sets.
LEMMA StartsExact ==
    ASSUME FreeTyped, NEW a \in FreeAlarms, Free!AlarmInitNext(a)
    PROVE  /\ IF rollover'[a] THEN time'[a] < nticks' ELSE time'[a] > nticks'
           /\ Remaining(a)' = alarm_timeout'[a] + 1
           /\ alarm_timeout'[a] = Free!Timeout(a) /\ alarm_count'[a] = 0
           /\ a \in alarm_list' /\ a \notin alarm_list
           /\ alarm_timeout'[a] <= FreeAge /\ alarm_timeout'[a] < FreeWrap - 1
           /\ alarm_timeout'[a] \in Nat
<1>1. /\ nticks \in Nat /\ nticks < FreeWrap /\ FreeWrap \in Nat /\ FreeWrap > 1
    BY FreeNumbers DEF FreeTyped, Free!TypeOK, Free!Hal!TypeOK, Free!Hal!U32
<1>2. /\ alarm_timeout'[a] = Free!Timeout(a) /\ alarm_count'[a] = 0
      /\ Free!Hal!Start(a, Free!Timeout(a))
    BY DEF Free!AlarmInitNext, FreeTyped, Free!TypeOK
<1>3. tick_rate \in FreeRates
    BY <1>2 DEF FreeTyped, Free!Hal!Start, Free!Hal!ClockEnabled
<1> DEFINE n == Free!Timeout(a)
<1>4. n \in Nat /\ n <= FreeAge /\ n < FreeWrap - 1
    BY <1>3, ShortPeriod
<1> HIDE DEF n
<1>5. Free!Hal!Add(n, nticks + 1) = IF n + nticks + 1 < FreeWrap THEN n + nticks + 1
                                    ELSE (n + nticks + 1) - FreeWrap
    BY <1>1, <1>4, FreeWraps
<1>6. /\ a \in alarm_list' /\ a \notin alarm_list /\ nticks' = nticks
      /\ time'[a] = Free!Hal!Add(n, nticks + 1)
      /\ rollover'[a] <=> time'[a] < nticks
    BY <1>2 DEF Free!Hal!Start, FreeTyped, Free!TypeOK, Free!Hal!TypeOK, Free!Hal!FirstCallback,
                n
<1>7. CASE n + nticks + 1 < FreeWrap
  <2>1. time'[a] = n + nticks + 1 /\ ~rollover'[a]
      BY <1>1, <1>4, <1>5, <1>6, <1>7
  <2>2. Remaining(a)' = time'[a] - nticks'
      BY <1>6, <2>1 DEF Remaining, Free!Hal!Left
  <2> QED BY <1>1, <1>2, <1>4, <1>6, <2>1, <2>2 DEF n
<1>8. CASE n + nticks + 1 >= FreeWrap
  <2>1. time'[a] = (n + nticks + 1) - FreeWrap /\ rollover'[a]
      BY <1>1, <1>4, <1>5, <1>6, <1>8
  <2>2. Remaining(a)' = (time'[a] + FreeWrap) - nticks'
      BY <1>6, <2>1 DEF Remaining, Free!Hal!Left
  <2> QED BY <1>1, <1>2, <1>4, <1>6, <2>1, <2>2 DEF n
<1> QED BY <1>1, <1>4, <1>7, <1>8

\* What a tick does to a registered alarm.
LEMMA TicksExact ==
    ASSUME FreeTyped, Free!Hal!RolloverExact, Free!Tick, NEW a \in alarm_list,
           alarm_timeout[a] < FreeWrap
    PROVE  /\ a \in Free!Hal!Due(nticks') <=> Remaining(a) = 1
           /\ a \in alarm_list' =>
                  IF rollover'[a] THEN time'[a] < nticks' ELSE time'[a] > nticks'
           /\ alarm_timeout[a] > 0 =>
                  /\ a \in alarm_list'
                  /\ Remaining(a)' = IF Remaining(a) = 1 THEN alarm_timeout[a]
                                                         ELSE Remaining(a) - 1
<1> DEFINE now == Free!Hal!Add(nticks, 1)
<1>1. /\ nticks \in Nat /\ nticks < FreeWrap
      /\ time[a] \in Nat /\ time[a] < FreeWrap
      /\ FreeWrap \in Nat /\ FreeWrap > 1
      /\ rollover[a] \in BOOLEAN
      /\ a \in FreeAlarms
      /\ alarm_timeout[a] \in Nat
    BY FreeNumbers DEF FreeTyped, Free!TypeOK, Free!Hal!TypeOK, Free!Hal!U32
<1>2. now = IF nticks + 1 < FreeWrap THEN nticks + 1 ELSE 0
    BY <1>1, FreeWraps
<1>3. IF rollover[a] THEN time[a] < nticks ELSE time[a] > nticks
    BY DEF Free!Hal!RolloverExact
<1>4. nticks' = now /\ Free!Hal!Tick(alarm_timeout)
    BY DEF Free!Tick, Free!Hal!TimerInterrupt, Free!Hal!Tick
<1> HIDE DEF now
<1>5. /\ a \in Free!Hal!Due(now) <=> time[a] = now
      /\ time[a] = now <=> Remaining(a) = 1
  <2>1. CASE rollover[a]
      BY <1>1, <1>2, <1>3, <2>1 DEF Free!Hal!Due, Free!Hal!RollsOver, Remaining, Free!Hal!Left
  <2>2. CASE ~rollover[a]
      BY <1>1, <1>2, <1>3, <2>2 DEF Free!Hal!Due, Free!Hal!RollsOver, Remaining, Free!Hal!Left
  <2> QED BY <1>1, <2>1, <2>2
<1>6. CASE a \notin Free!Hal!Due(now)
  <2>1. /\ a \in alarm_list' /\ time'[a] = time[a]
        /\ rollover'[a] <=> Free!Hal!RollsOver(a, now)
      BY <1>1, <1>4, <1>6 DEF Free!Hal!Tick, now
  <2>2. time[a] # now /\ Remaining(a) # 1
      BY <1>5, <1>6
  <2>3. CASE rollover[a]
    <3>1. rollover'[a] <=> now # 0
        BY <2>1, <2>3 DEF Free!Hal!RollsOver
    <3> QED BY <1>1, <1>2, <1>3, <1>4, <1>5, <1>6, <2>1, <2>2, <2>3, <3>1
            DEF Remaining, Free!Hal!Left
  <2>4. CASE ~rollover[a]
    <3>1. ~rollover'[a]
        BY <2>1, <2>4 DEF Free!Hal!RollsOver
    <3> QED BY <1>1, <1>2, <1>3, <1>4, <1>5, <1>6, <2>1, <2>2, <2>4, <3>1
            DEF Remaining, Free!Hal!Left
  <2> QED BY <1>1, <2>3, <2>4
<1>7. CASE a \in Free!Hal!Due(now)
  <2>1. time[a] = now /\ Remaining(a) = 1 /\ ~Free!Hal!RollsOver(a, now)
      BY <1>5, <1>7 DEF Free!Hal!Due
  <2>2. CASE alarm_timeout[a] = 0
    <3>1. a \notin alarm_list'
        BY <1>4, <1>7, <2>2 DEF Free!Hal!Tick, now
    <3> QED BY <1>4, <1>7, <2>1, <2>2, <3>1
  <2>3. CASE alarm_timeout[a] # 0
    <3>1. /\ a \in alarm_list'
          /\ time'[a] = Free!Hal!Add(now, alarm_timeout[a])
          /\ rollover'[a] <=> time'[a] < now
        BY <1>1, <1>4, <1>7, <2>1, <2>3 DEF Free!Hal!Tick, now
    <3>2. Free!Hal!Add(now, alarm_timeout[a])
              = IF now + alarm_timeout[a] < FreeWrap THEN now + alarm_timeout[a]
                                                     ELSE (now + alarm_timeout[a]) - FreeWrap
      <4>1. now \in Nat /\ now < FreeWrap
          BY <1>1, <1>2
      <4>2. now + alarm_timeout[a] < 2 * FreeWrap
          BY <1>1, <4>1
      <4> QED BY <1>1, <4>1, <4>2, FreeWraps
    <3> QED BY <1>1, <1>2, <1>4, <1>7, <2>1, <2>3, <3>1, <3>2 DEF Remaining, Free!Hal!Left
  <2> QED BY <1>1, <2>2, <2>3
<1> QED BY <1>6, <1>7

LEMMA ArmedInit == Free!Init => AlarmsArmed
<1> SUFFICES ASSUME Free!Init PROVE AlarmsArmed
    OBVIOUS
<1>1. \A a \in FreeAlarms : alarm_timeout[a] = 0 /\ a \notin alarm_list
    BY DEF Free!Init, Free!Hal!Init
<1>2. \A a \in FreeAlarms : AlarmArmed(a)
  <2>1. 0 <= FreeAge /\ 0 < FreeWrap - 1 /\ ~(0 > 0)
      BY FreeNumbers
  <2> QED BY <1>1, <2>1 DEF AlarmArmed
<1>3. Free!Hal!RolloverExact
    BY DEF Free!Init, Free!Hal!Init, Free!Hal!RolloverExact
<1> QED BY <1>2, <1>3 DEF AlarmsArmed

LEMMA ArmedStays ==
    ASSUME AlarmsArmed, UNCHANGED <<nticks, alarm_list, time, rollover, alarm_timeout, alarm_count>>
    PROVE  AlarmsArmed'
BY DEF AlarmsArmed, AlarmArmed, Remaining, Free!Hal!Left, Free!Hal!RolloverExact

LEMMA ArmedTicks == FreeTyped /\ AlarmsArmed /\ Free!Tick => AlarmsArmed'
<1> SUFFICES ASSUME FreeTyped, AlarmsArmed, Free!Tick PROVE AlarmsArmed'
    OBVIOUS
<1>1. /\ alarm_timeout' = alarm_timeout /\ alarm_list' \subseteq alarm_list
      /\ Free!Hal!RolloverExact /\ alarm_list \subseteq FreeAlarms
      /\ \A a \in FreeAlarms : AlarmArmed(a) /\ alarm_timeout[a] \in Nat
    BY FreeNumbers DEF AlarmsArmed, Free!Tick, Free!contexts, Free!Hal!TimerInterrupt,
           Free!Hal!Tick, FreeTyped, Free!TypeOK, Free!Hal!TypeOK, Free!Hal!U32
<1>2. ASSUME NEW a \in alarm_list PROVE alarm_timeout[a] < FreeWrap
    BY <1>1, FreeNumbers DEF AlarmArmed
<1>3. Free!Hal!RolloverExact'
  <2>1. ASSUME NEW a \in alarm_list'
        PROVE  IF rollover'[a] THEN time'[a] < nticks' ELSE time'[a] > nticks'
      BY <1>1, <1>2, <2>1, TicksExact
  <2> QED BY <2>1 DEF Free!Hal!RolloverExact
<1>4. ASSUME NEW a \in FreeAlarms PROVE AlarmArmed(a)'
  <2>1. AlarmArmed(a) /\ alarm_timeout[a] \in Nat
      BY <1>1
  <2>2. CASE alarm_timeout[a] = 0
      BY <1>1, <2>1, <2>2 DEF AlarmArmed
  <2>3. CASE alarm_timeout[a] > 0
    <3>1. /\ a \in alarm_list /\ Remaining(a) \in 1 .. alarm_timeout[a] + 1
          /\ Remaining(a) = alarm_timeout[a] + 1 => alarm_count[a] = 0
        BY <2>1, <2>3 DEF AlarmArmed
    <3>2. /\ a \in alarm_list'
          /\ Remaining(a)' = IF Remaining(a) = 1 THEN alarm_timeout[a] ELSE Remaining(a) - 1
        BY <1>1, <1>2, <2>3, <3>1, TicksExact
    <3>3. Remaining(a)' \in 1 .. alarm_timeout[a]
        BY <2>1, <2>3, <3>1, <3>2
    <3>4. Remaining(a)' # alarm_timeout[a] + 1
        BY <2>1, <3>3
    <3>5. Remaining(a)' \in 1 .. alarm_timeout[a] + 1
        BY <2>1, <3>3
    <3> QED BY <1>1, <2>1, <3>2, <3>4, <3>5 DEF AlarmArmed
  <2> QED BY <2>1, <2>2, <2>3
<1> QED BY <1>3, <1>4 DEF AlarmsArmed

LEMMA ArmedStarts ==
    ASSUME FreeTyped, AlarmsArmed, NEW a \in FreeAlarms, Free!AlarmInitNext(a)
    PROVE  /\ AlarmsArmed'
           /\ \A b \in FreeAlarms : b # a =>
                  /\ alarm_timeout'[b] = alarm_timeout[b] /\ alarm_count'[b] = alarm_count[b]
                  /\ alarm_timeout[b] > 0 => Remaining(b)' = Remaining(b)
<1>1. Free!Hal!Start(a, alarm_timeout'[a])
    BY DEF Free!AlarmInitNext
<1>2. /\ nticks' = nticks /\ alarm_list' = alarm_list \cup {a}
      /\ \A b \in FreeAlarms : b # a =>
            /\ time'[b] = time[b] /\ rollover'[b] = rollover[b]
            /\ alarm_timeout'[b] = alarm_timeout[b] /\ alarm_count'[b] = alarm_count[b]
    BY <1>1 DEF Free!AlarmInitNext, Free!Hal!Start, FreeTyped, Free!TypeOK, Free!Hal!TypeOK
<1>3. ASSUME NEW b \in FreeAlarms, b # a
      PROVE  b \in alarm_list' <=> b \in alarm_list
    BY <1>2, <1>3
<1>4. ASSUME NEW b \in FreeAlarms, b # a PROVE Remaining(b)' = Remaining(b)
    BY <1>2, <1>3, <1>4 DEF Remaining, Free!Hal!Left
<1>5. Free!Hal!RolloverExact'
  <2>1. ASSUME NEW b \in alarm_list'
        PROVE  IF rollover'[b] THEN time'[b] < nticks' ELSE time'[b] > nticks'
    <3>1. CASE b = a
        BY <3>1, StartsExact
    <3>2. CASE b # a
      <4>1. b \in alarm_list /\ b \in FreeAlarms
          BY <1>2, <3>2 DEF FreeTyped, Free!TypeOK, Free!Hal!TypeOK
      <4>2. time'[b] = time[b] /\ rollover'[b] = rollover[b] /\ nticks' = nticks
          BY <1>2, <3>2, <4>1
      <4>3. IF rollover[b] THEN time[b] < nticks ELSE time[b] > nticks
          BY <4>1 DEF AlarmsArmed, Free!Hal!RolloverExact
      <4> QED BY <4>2, <4>3
    <3> QED BY <3>1, <3>2
  <2> QED BY <2>1 DEF Free!Hal!RolloverExact
<1>6. AlarmArmed(a)'
  <2>1. /\ alarm_timeout'[a] \in Nat /\ alarm_timeout'[a] <= FreeAge
        /\ alarm_timeout'[a] < FreeWrap - 1 /\ a \in alarm_list'
        /\ Remaining(a)' = alarm_timeout'[a] + 1 /\ alarm_count'[a] = 0
      BY StartsExact
  <2>2. Remaining(a)' \in 1 .. alarm_timeout'[a] + 1
      BY <2>1
  <2> QED BY <2>1, <2>2 DEF AlarmArmed
<1>7. ASSUME NEW b \in FreeAlarms, b # a PROVE AlarmArmed(b)'
  <2>1. AlarmArmed(b)
      BY DEF AlarmsArmed
  <2>2. Remaining(b)' = Remaining(b)
      BY <1>4, <1>7
  <2>3. /\ alarm_timeout'[b] = alarm_timeout[b] /\ alarm_count'[b] = alarm_count[b]
        /\ b \in alarm_list' <=> b \in alarm_list
      BY <1>2, <1>3, <1>7
  <2> QED BY <2>1, <2>2, <2>3 DEF AlarmArmed
<1> QED BY <1>2, <1>4, <1>5, <1>6, <1>7 DEF AlarmsArmed

-----------------------------------------------------------------------------
(* The delays under any caller                                             *)

\* x ticks ago, r ticks before the next callback: a callback has come since, n of
\* them make n - 1 periods; an age that has reached its bound is any number of ticks.
Far(x, r, n) == x = FreeAge \/ x + r >= n

\* The count c has moved on from base since a load x ticks ago, by one for each
\* period of p ticks; r ticks remain to the next callback.
CountedSince(base, x, c, r, p) ==
    /\ x < FreeAge => \E k \in Nat : /\ c = (base + k) % FreeWrap
                                     /\ k * p + 1 <= x + r /\ x + r <= k * p + p + 1
    /\ c = base \/ Far(x, r, p)

\* The load that gave base found another count than the load before it, x ticks ago.
MovedBefore(base, x, c, r, p) == (c = base /\ Far(x, r, p)) \/ Far(x, r, 2 * p)

\* While the alarm of the mode is running and LAST_DELAY is of this mode.
Watched == DELAY_MODE \in FreeAlarms /\ delay_pc # "set_mode" /\ alarm_timeout[DELAY_MODE] > 0

DelayKept(c, r, p) ==
    /\ CountedSince(LAST_DELAY, age.last, c, r, p)
    /\ MovedBefore(LAST_DELAY, age.previous, c, r, p)
    /\ r = p + 1 => LAST_DELAY = 0 /\ age.last = 0
    /\ delay_pc = "test" =>
          /\ CountedSince(this_delay, age.load, c, r, p)
          /\ r = p + 1 => this_delay = 0
          /\ LAST_DELAY # this_delay =>
                MovedBefore(this_delay, age.last, c, r, p) /\ age.previous >= p

\* Before the alarms run nothing has been loaded.
NotLoaded ==
    delay_pc \in {"boot", "alarm_init"} =>
        LAST_DELAY = 0 /\ age.previous = FreeAge /\ DELAY_MODE = DefaultMode

DelayInv ==
    /\ FreeTyped /\ AlarmsArmed /\ NotLoaded
    /\ Watched => DelayKept(alarm_count[DELAY_MODE], Remaining(DELAY_MODE),
                            alarm_timeout[DELAY_MODE])

LEMMA RestIs ==
    ASSUME NEW W \in Nat \ {0}, NEW q \in Nat, NEW m \in 0 .. W-1
    PROVE  (q * W + m) % W = m
<1> DEFINE n == q * W + m
           d == (n \div W) - q
<1>1. /\ n \in Nat /\ n \div W \in Nat /\ n % W \in 0 .. W-1
      /\ n = (n \div W) * W + (n % W)
  <2>1. q * W \in Nat
      BY Z3
  <2>2. n \in Nat
      BY <2>1
  <2> HIDE DEF n
  <2>3. n \div W \in Nat /\ n % W \in 0 .. W-1
      BY <2>2, Z3
  <2>4. n = (n \div W) * W + (n % W)
      BY <2>2, Z3
  <2> QED BY <2>2, <2>3, <2>4
<1>2. d \in Int /\ d * W = m - (n % W)
  <2>1. d * W = (n \div W) * W - q * W
      BY <1>1, Z3
  <2> HIDE DEF d
  <2>2. n = q * W + m
      OBVIOUS
  <2>3. d \in Int
      BY <1>1 DEF d
  <2>4. q * W \in Int /\ (n \div W) * W \in Int
      BY <1>1, Z3
  <2> HIDE DEF n
  <2> QED BY <1>1, <2>1, <2>2, <2>3, <2>4
<1> HIDE DEF n, d
<1>3. d * W < W /\ d * W > -W /\ W \in Nat /\ W > 0
    BY <1>1, <1>2
<1>4. d = 0
  <2>1. d >= 1 => d * W >= W
      BY <1>2, <1>3, Z3
  <2>2. d <= -1 => d * W <= -W
      BY <1>2, <1>3, Z3
  <2> QED BY <1>2, <1>3, <2>1, <2>2
<1>5. n % W = m
  <2>1. d * W = 0
      BY <1>4
  <2> QED BY <1>1, <1>2, <2>1
<1> QED BY <1>5 DEF n

LEMMA NextRest ==
    ASSUME NEW W \in Nat \ {0}, NEW n \in Nat
    PROVE  ((n % W) + 1) % W = (n + 1) % W
<1>1. PICK q \in Nat, m \in 0 .. W-1 : n = q * W + m /\ m = n % W
  <2>1. n \div W \in Nat /\ n % W \in 0 .. W-1 /\ n = (n \div W) * W + (n % W)
      BY Z3
  <2> QED BY <2>1
<1>2. CASE m + 1 < W
  <2>1. m + 1 \in 0 .. W-1
      BY <1>2
  <2>2. n + 1 = q * W + (m + 1)
    <3>1. q * W \in Nat
        BY Z3
    <3> QED BY <1>1, <3>1
  <2>3. (q * W + (m + 1)) % W = m + 1
      BY <2>1, RestIs
  <2>4. (0 * W + (m + 1)) % W = m + 1
      BY <2>1, RestIs
  <2>5. 0 * W + (m + 1) = m + 1
      OBVIOUS
  <2> QED BY <1>1, <2>2, <2>3, <2>4, <2>5
<1>3. CASE m + 1 = W
  <2>1. n + 1 = (q + 1) * W + 0
    <3>1. q * W \in Nat /\ (q + 1) * W = q * W + W
        BY Z3
    <3> DEFINE z == q * W
    <3>2. z \in Nat /\ n = z + m
        BY <1>1, <3>1
    <3> HIDE DEF z
    <3>3. n + 1 = z + W
        BY <1>1, <1>3, <3>2
    <3>4. n + 1 = q * W + W
        BY <3>3 DEF z
    <3> QED BY <3>1, <3>4
  <2>2. ((q + 1) * W + 0) % W = 0
    <3>1. 0 \in 0 .. W-1 /\ q + 1 \in Nat
        OBVIOUS
    <3> QED BY <3>1, RestIs
  <2>3. (1 * W + 0) % W = 0
      BY RestIs
  <2>4. 1 * W + 0 = W
      OBVIOUS
  <2> QED BY <1>1, <1>3, <2>1, <2>2, <2>3, <2>4
<1> QED BY <1>1, <1>2, <1>3

LEMMA SmallIsRest ==
    ASSUME NEW W \in Nat \ {0}, NEW x \in 0 .. W-1
    PROVE  (x + 0) % W = x
<1>1. (0 * W + x) % W = x
    BY RestIs
<1>2. 0 * W + x = x + 0
    OBVIOUS
<1> QED BY <1>1, <1>2

\* A load just made.
LEMMA JustLoaded ==
    ASSUME NEW c \in 0 .. FreeWrap-1, NEW p \in Nat \ {0}, NEW r \in 1 .. p + 1
    PROVE  CountedSince(c, 0, c, r, p)
<1>1. (c + 0) % FreeWrap = c
  <2>1. FreeWrap \in Nat \ {0}
      BY FreeNumbers
  <2> QED BY <2>1, SmallIsRest
<1>2. 0 * p + 1 <= 0 + r /\ 0 + r <= 0 * p + p + 1
    OBVIOUS
<1> QED BY <1>1, <1>2 DEF CountedSince

LEMMA FarTicks ==
    ASSUME NEW x \in 0 .. FreeAge, NEW p \in Nat \ {0}, NEW r \in 1 .. p + 1, NEW n \in Nat,
           Far(x, r, n)
    PROVE  /\ r # 1 => Far(Free!Older(x), r - 1, n)
           /\ r = 1 => Far(Free!Older(x), p, n + p)
BY FreeNumbers DEF Far, Free!Older

LEMMA CountedTicks ==
    ASSUME NEW base \in 0 .. FreeWrap-1, NEW c \in 0 .. FreeWrap-1, NEW x \in 0 .. FreeAge,
           NEW p \in Nat \ {0}, NEW r \in 1 .. p + 1, CountedSince(base, x, c, r, p)
    PROVE  /\ r # 1 => CountedSince(base, Free!Older(x), c, r - 1, p)
           /\ r = 1 => CountedSince(base, Free!Older(x), Free!Hal!Add(c, 1), p, p)
<1>1. FreeWrap \in Nat \ {0} /\ FreeAge \in Nat
    BY FreeNumbers
<1>2. CASE r # 1
  <2>1. c = base \/ Far(Free!Older(x), r - 1, p)
      BY <1>2, FarTicks DEF CountedSince
  <2>2. ASSUME Free!Older(x) < FreeAge
        PROVE  \E k \in Nat : /\ c = (base + k) % FreeWrap
                              /\ k * p + 1 <= Free!Older(x) + (r - 1)
                              /\ Free!Older(x) + (r - 1) <= k * p + p + 1
    <3>1. x < FreeAge /\ Free!Older(x) = x + 1
        BY <1>1, <2>2 DEF Free!Older
    <3>2. PICK k \in Nat : /\ c = (base + k) % FreeWrap
                           /\ k * p + 1 <= x + r /\ x + r <= k * p + p + 1
        BY <3>1 DEF CountedSince
    <3>3. Free!Older(x) + (r - 1) = x + r
        BY <3>1
    <3> QED BY <3>2, <3>3
  <2> QED BY <1>2, <2>1, <2>2 DEF CountedSince
<1>3. CASE r = 1
  <2>1. Far(Free!Older(x), p, p)
    <3>1. Free!Older(x) \in Nat
        BY <1>1 DEF Free!Older
    <3> QED BY <3>1 DEF Far
  <2>2. ASSUME Free!Older(x) < FreeAge
        PROVE  \E k \in Nat : /\ Free!Hal!Add(c, 1) = (base + k) % FreeWrap
                              /\ k * p + 1 <= Free!Older(x) + p
                              /\ Free!Older(x) + p <= k * p + p + 1
    <3>1. x < FreeAge /\ Free!Older(x) = x + 1
        BY <1>1, <2>2 DEF Free!Older
    <3>2. PICK k \in Nat : /\ c = (base + k) % FreeWrap
                           /\ k * p + 1 <= x + 1 /\ x + 1 <= k * p + p + 1
        BY <1>3, <3>1 DEF CountedSince
    <3>3. Free!Hal!Add(c, 1) = (base + (k + 1)) % FreeWrap
      <4>1. (((base + k) % FreeWrap) + 1) % FreeWrap = (base + k + 1) % FreeWrap
        <5>1. base + k \in Nat
            BY <1>1
        <5> QED BY <1>1, <5>1, NextRest
      <4>2. base + k + 1 = base + (k + 1)
          OBVIOUS
      <4> QED BY <3>2, <4>1, <4>2 DEF Free!Hal!Add
    <3>4. k * p \in Nat /\ (k + 1) * p = k * p + p
        BY Z3
    <3>5. (k + 1) * p + 1 <= Free!Older(x) + p /\ Free!Older(x) + p <= (k + 1) * p + p + 1
        BY <3>1, <3>2, <3>4
    <3> QED BY <3>3, <3>5
  <2> QED BY <1>3, <2>1, <2>2 DEF CountedSince
<1> QED BY <1>2, <1>3

LEMMA MovedTicks ==
    ASSUME NEW base, NEW c, NEW x \in 0 .. FreeAge,
           NEW p \in Nat \ {0}, NEW r \in 1 .. p + 1, MovedBefore(base, x, c, r, p)
    PROVE  /\ r # 1 => MovedBefore(base, Free!Older(x), c, r - 1, p)
           /\ r = 1 => MovedBefore(base, Free!Older(x), Free!Hal!Add(c, 1), p, p)
<1>1. 2 * p \in Nat /\ p + p = 2 * p
    OBVIOUS
<1>2. r # 1 => MovedBefore(base, Free!Older(x), c, r - 1, p)
    BY <1>1, FarTicks DEF MovedBefore
<1>3. r = 1 => MovedBefore(base, Free!Older(x), Free!Hal!Add(c, 1), p, p)
  <2>1. Far(x, r, p) \/ Far(x, r, 2 * p)
      BY DEF MovedBefore
  <2>2. Far(x, r, p)
      BY <2>1, FreeNumbers DEF Far
  <2>3. r = 1 => Far(Free!Older(x), p, p + p)
      BY <2>2, FarTicks
  <2> QED BY <1>1, <2>3 DEF MovedBefore
<1> QED BY <1>2, <1>3

LEMMA DelayInit == Free!Init => DelayInv
<1> SUFFICES ASSUME Free!Init PROVE DelayInv
    OBVIOUS
<1>1. FreeTyped /\ AlarmsArmed
    BY FreeTypeInit, ArmedInit
<1>2. /\ NotLoaded /\ DELAY_MODE \in FreeAlarms /\ alarm_timeout[DELAY_MODE] = 0
    BY FreeNumbers DEF Free!Init, NotLoaded
<1> QED BY <1>1, <1>2 DEF DelayInv, Watched

\* What is known of the alarm that DELAY_MODE names.
LEMMA WatchedFacts ==
    ASSUME FreeTyped, AlarmsArmed, DELAY_MODE \in FreeAlarms, alarm_timeout[DELAY_MODE] > 0
    PROVE  /\ DELAY_MODE \in alarm_list
           /\ alarm_timeout[DELAY_MODE] \in Nat \ {0}
           /\ alarm_timeout[DELAY_MODE] < FreeWrap /\ alarm_timeout[DELAY_MODE] <= FreeAge
           /\ Remaining(DELAY_MODE) \in 1 .. alarm_timeout[DELAY_MODE] + 1
           /\ Remaining(DELAY_MODE) = alarm_timeout[DELAY_MODE] + 1
                  => alarm_count[DELAY_MODE] = 0
           /\ alarm_count[DELAY_MODE] \in 0 .. FreeWrap-1
           /\ LAST_DELAY \in 0 .. FreeWrap-1 /\ this_delay \in 0 .. FreeWrap-1
           /\ age.load \in 0 .. FreeAge /\ age.last \in 0 .. FreeAge
           /\ age.previous \in 0 .. FreeAge
<1>1. /\ alarm_timeout[DELAY_MODE] \in Nat /\ alarm_count[DELAY_MODE] \in 0 .. FreeWrap-1
      /\ LAST_DELAY \in 0 .. FreeWrap-1 /\ this_delay \in 0 .. FreeWrap-1
    BY FreeNumbers DEF FreeTyped, Free!TypeOK, Free!Hal!U32
<1>2. /\ age.load \in 0 .. FreeAge /\ age.last \in 0 .. FreeAge /\ age.previous \in 0 .. FreeAge
  <2>1. age \in Free!Ages
      BY DEF FreeTyped, Free!TypeOK
  <2> QED BY <2>1 DEF Free!Ages
<1>3. AlarmArmed(DELAY_MODE)
    BY DEF AlarmsArmed
<1> QED BY <1>1, <1>2, <1>3, FreeNumbers DEF AlarmArmed

LEMMA DelayTicks == DelayInv /\ Free!Tick => DelayInv'
<1> SUFFICES ASSUME DelayInv, Free!Tick PROVE DelayInv'
    OBVIOUS
<1>1. FreeTyped /\ AlarmsArmed /\ FreeTyped' /\ AlarmsArmed'
    BY FreeTickTyped, ArmedTicks DEF DelayInv
<1>2. /\ UNCHANGED <<alarm_timeout, LAST_DELAY, DELAY_MODE, this_delay, delay_pc>>
      /\ age.load \in 0 .. FreeAge /\ age.last \in 0 .. FreeAge /\ age.previous \in 0 .. FreeAge
      /\ age'.load = Free!Older(age.load) /\ age'.last = Free!Older(age.last)
      /\ age'.previous = Free!Older(age.previous)
  <2>1. age \in Free!Ages /\ age' = [k \in DOMAIN age |-> Free!Older(age[k])]
      BY <1>1 DEF Free!Tick, FreeTyped, Free!TypeOK
  <2>2. UNCHANGED <<alarm_timeout, LAST_DELAY, DELAY_MODE, this_delay, delay_pc>>
      BY DEF Free!Tick, Free!settings
  <2> QED BY <2>1, <2>2 DEF Free!Ages
<1>3. NotLoaded'
    BY <1>2, FreeNumbers DEF DelayInv, NotLoaded, Free!Older
<1>4. ASSUME Watched'
      PROVE  DelayKept(alarm_count[DELAY_MODE], Remaining(DELAY_MODE), alarm_timeout[DELAY_MODE])'
  <2> DEFINE m == DELAY_MODE
             p == alarm_timeout[m]
             r == Remaining(m)
             c == alarm_count[m]
             s == IF r = 1 THEN p ELSE r - 1
             d == IF r = 1 THEN Free!Hal!Add(c, 1) ELSE c
  <2>1. m \in FreeAlarms /\ p > 0 /\ Watched
      BY <1>2, <1>4 DEF Watched
  <2>2. DelayKept(c, r, p)
      BY <2>1 DEF DelayInv
  <2>3. /\ m \in alarm_list /\ p \in Nat \ {0} /\ p < FreeWrap /\ r \in 1 .. p + 1
        /\ p <= FreeAge /\ c \in 0 .. FreeWrap-1
        /\ LAST_DELAY \in 0 .. FreeWrap-1 /\ this_delay \in 0 .. FreeWrap-1
      BY <1>1, <2>1, WatchedFacts
  <2>4. /\ m \in Free!Hal!Due(nticks') <=> r = 1
        /\ Remaining(m)' = IF r = 1 THEN p ELSE r - 1
    <3>1. Free!Hal!RolloverExact
        BY <1>1 DEF AlarmsArmed
    <3>2. /\ m \in Free!Hal!Due(nticks') <=> Remaining(m) = 1
          /\ Remaining(m)' = IF Remaining(m) = 1 THEN alarm_timeout[m] ELSE Remaining(m) - 1
      <4>1. ASSUME NEW a \in alarm_list, alarm_timeout[a] < FreeWrap, alarm_timeout[a] > 0
            PROVE  /\ a \in Free!Hal!Due(nticks') <=> Remaining(a) = 1
                   /\ Remaining(a)' = IF Remaining(a) = 1 THEN alarm_timeout[a]
                                                          ELSE Remaining(a) - 1
          BY <1>1, <3>1, <4>1, TicksExact
      <4> QED BY <1>2, <2>1, <2>3, <4>1 DEF Remaining
    <3> QED BY <3>2
  <2>5. /\ r = 1 => alarm_count'[m] = Free!Hal!Add(c, 1)
        /\ r # 1 => alarm_count'[m] = c
      BY <2>1, <2>4 DEF Free!Tick, Free!Counted
  <2>6. /\ (alarm_count[DELAY_MODE])' = d /\ Remaining(DELAY_MODE)' = s
        /\ (alarm_timeout[DELAY_MODE])' = p
      BY <1>2, <2>4, <2>5
  <2>7. s \in 1 .. p
      BY <2>3
  <2> HIDE DEF m, p, r, c
  <2>9. /\ CountedSince(LAST_DELAY, age.last, c, r, p)
        /\ MovedBefore(LAST_DELAY, age.previous, c, r, p)
        /\ delay_pc = "test" =>
              /\ CountedSince(this_delay, age.load, c, r, p)
              /\ LAST_DELAY # this_delay =>
                    MovedBefore(this_delay, age.last, c, r, p) /\ age.previous >= p
      BY <2>2 DEF DelayKept
  <2>10. age.previous >= p => Free!Older(age.previous) >= p
      BY <1>2, <2>3, FreeNumbers DEF Free!Older
  <2>11. /\ CountedSince(LAST_DELAY, Free!Older(age.last), d, s, p)
         /\ delay_pc = "test" => CountedSince(this_delay, Free!Older(age.load), d, s, p)
      BY <1>2, <2>3, <2>9, CountedTicks
  <2>12. /\ MovedBefore(LAST_DELAY, Free!Older(age.previous), d, s, p)
         /\ delay_pc = "test" /\ LAST_DELAY # this_delay =>
               MovedBefore(this_delay, Free!Older(age.last), d, s, p)
      BY <1>2, <2>3, <2>9, MovedTicks
  <2>13. s # p + 1
      BY <2>3, <2>7
  <2> HIDE DEF s, d
  <2> QED BY <1>2, <2>6, <2>9, <2>10, <2>11, <2>12, <2>13 DEF DelayKept
<1> QED BY <1>1, <1>3, <1>4 DEF DelayInv

LEMMA DelayStarts ==
    ASSUME DelayInv, NEW a \in FreeAlarms, Free!AlarmInitNext(a)
    PROVE  DelayInv'
<1>1. FreeTyped /\ AlarmsArmed /\ FreeTyped' /\ AlarmsArmed'
    BY FreeStartTyped, ArmedStarts DEF DelayInv
<1>2. /\ delay_pc = "alarm_init" /\ LAST_DELAY = 0 /\ age.previous = FreeAge
      /\ DELAY_MODE = DefaultMode /\ DELAY_MODE \in FreeAlarms
    BY FreeNumbers DEF Free!AlarmInitNext, DelayInv, NotLoaded
<1>3. /\ UNCHANGED <<LAST_DELAY, DELAY_MODE, this_delay>>
      /\ delay_pc' \in {"alarm_init", "idle"}
      /\ age' = [age EXCEPT !.last = IF a = DELAY_MODE THEN 0 ELSE @]
    BY DEF Free!AlarmInitNext, Free!settings
<1>4. age'.previous = FreeAge /\ age'.last = IF a = DELAY_MODE THEN 0 ELSE age.last
  <2>1. age \in Free!Ages
      BY <1>1 DEF FreeTyped, Free!TypeOK
  <2> QED BY <1>2, <1>3, <2>1 DEF Free!Ages
<1>5. NotLoaded'
    BY <1>2, <1>3, <1>4 DEF NotLoaded
<1>6. ASSUME Watched'
      PROVE  DelayKept(alarm_count[DELAY_MODE], Remaining(DELAY_MODE), alarm_timeout[DELAY_MODE])'
  <2>1. CASE a = DELAY_MODE
    <3>1. /\ (alarm_count[DELAY_MODE])' = 0
          /\ Remaining(DELAY_MODE)' = (alarm_timeout[DELAY_MODE])' + 1
          /\ (alarm_timeout[DELAY_MODE])' \in Nat \ {0}
      <4>1. /\ alarm_count'[a] = 0 /\ Remaining(a)' = alarm_timeout'[a] + 1
            /\ alarm_timeout'[a] \in Nat
          BY <1>1, StartsExact
      <4>2. alarm_timeout'[a] > 0
          BY <1>3, <1>6, <2>1 DEF Watched
      <4>3. Remaining(DELAY_MODE)' = Remaining(a)'
          BY <1>3, <2>1 DEF Remaining, Free!Hal!Left
      <4> QED BY <1>3, <2>1, <4>1, <4>2, <4>3
    <3> DEFINE p == (alarm_timeout[DELAY_MODE])'
    <3>2. p \in Nat \ {0} /\ p + 1 \in 1 .. p + 1 /\ 0 \in 0 .. FreeWrap-1
        BY <3>1, FreeNumbers
    <3> HIDE DEF p
    <3>3. CountedSince(0, 0, 0, p + 1, p)
        BY <3>2, JustLoaded
    <3>4. MovedBefore(0, FreeAge, 0, p + 1, p)
        BY DEF MovedBefore, Far
    <3>5. /\ (alarm_count[DELAY_MODE])' = 0 /\ Remaining(DELAY_MODE)' = p + 1
          /\ (alarm_timeout[DELAY_MODE])' = p
        BY <3>1 DEF p
    <3> QED BY <1>2, <1>3, <1>4, <2>1, <3>3, <3>4, <3>5 DEF DelayKept
  <2>2. CASE a # DELAY_MODE
    <3>1. /\ (alarm_count[DELAY_MODE])' = alarm_count[DELAY_MODE]
          /\ (alarm_timeout[DELAY_MODE])' = alarm_timeout[DELAY_MODE]
          /\ alarm_timeout[DELAY_MODE] > 0
          /\ Remaining(DELAY_MODE)' = Remaining(DELAY_MODE)
      <4>1. ASSUME NEW b \in FreeAlarms, b # a
            PROVE  /\ alarm_timeout'[b] = alarm_timeout[b] /\ alarm_count'[b] = alarm_count[b]
                   /\ alarm_timeout[b] > 0 => Remaining(b)' = Remaining(b)
          BY <1>1, <4>1, ArmedStarts
      <4>2. /\ (alarm_count[DELAY_MODE])' = alarm_count[DELAY_MODE]
            /\ (alarm_timeout[DELAY_MODE])' = alarm_timeout[DELAY_MODE]
          BY <1>2, <1>3, <2>2, <4>1
      <4>3. alarm_timeout[DELAY_MODE] > 0
          BY <1>6, <4>2 DEF Watched
      <4> QED BY <1>2, <1>3, <2>2, <4>1, <4>2, <4>3 DEF Remaining, Free!Hal!Left
    <3>2. Watched
        BY <1>2, <3>1 DEF Watched
    <3>3. DelayKept(alarm_count[DELAY_MODE], Remaining(DELAY_MODE), alarm_timeout[DELAY_MODE])
        BY <3>2 DEF DelayInv
    <3>4. LAST_DELAY' = LAST_DELAY /\ age'.last = age.last /\ age'.previous = age.previous
          /\ delay_pc' # "test"
        BY <1>2, <1>3, <1>4, <2>2
    <3> QED BY <3>1, <3>3, <3>4 DEF DelayKept
  <2> QED BY <2>1, <2>2
<1> QED BY <1>1, <1>5, <1>6 DEF DelayInv

\* A load in the loop: if it finds another count than LAST_DELAY, a callback has come
\* since the load that gave LAST_DELAY, and the one before that is a period old.
LEMMA LoadKeeps ==
    ASSUME NEW c \in 0 .. FreeWrap-1, NEW p \in Nat \ {0}, NEW r \in 1 .. p + 1, p <= FreeAge,
           NEW x \in 0 .. FreeAge, NEW y \in 0 .. FreeAge, NEW last,
           CountedSince(last, x, c, r, p), MovedBefore(last, y, c, r, p),
           r = p + 1 => c = 0 /\ last = 0, last # c
    PROVE  MovedBefore(c, x, c, r, p) /\ y >= p
<1>1. Far(x, r, p) /\ Far(y, r, 2 * p)
    BY DEF CountedSince, MovedBefore
<1>2. r <= p
    OBVIOUS
<1>3. y >= p
    BY <1>1, <1>2, FreeNumbers DEF Far
<1> QED BY <1>1, <1>3 DEF MovedBefore

LEMMA DelayCalls ==
    ASSUME DelayInv, Free!Waiting \/ Free!SetModeCount \/ Free!Request
    PROVE  DelayInv'
<1>1. FreeTyped /\ AlarmsArmed /\ FreeTyped'
      /\ UNCHANGED <<nticks, alarm_list, time, rollover, alarm_timeout, alarm_count>>
    BY FreeCallTyped DEF DelayInv, Free!clock, Free!contexts
<1>2. AlarmsArmed' /\ age \in Free!Ages
    BY <1>1, ArmedStays DEF FreeTyped, Free!TypeOK
<1>3. NotLoaded'
  <2>1. delay_pc' \notin {"boot", "alarm_init"}
    <3>1. Free!Waiting => delay_pc' \in {"test", "load", "idle"}
        BY DEF Free!Waiting, Free!DelayLoad, Free!DelayAgain, Free!DelayReturn, Free!Return
    <3>2. Free!SetModeCount => delay_pc' = "idle"
        BY DEF Free!SetModeCount
    <3>3. Free!Request => delay_pc' \in {"idle", "load", "set_mode"}
        BY DEF Free!Request, Free!DelayCall, Free!SetModeNone, Free!SetMode
    <3> QED BY <3>1, <3>2, <3>3
  <2> QED BY <2>1 DEF NotLoaded
<1> DEFINE c == alarm_count[DELAY_MODE]
           r == Remaining(DELAY_MODE)
           p == alarm_timeout[DELAY_MODE]
<1>4. DELAY_MODE' = DELAY_MODE => c' = c /\ r' = r /\ p' = p
    BY <1>1 DEF Remaining, Free!Hal!Left
<1>5. Watched => DelayKept(c, r, p)
    BY DEF DelayInv
<1>6. DELAY_MODE \in FreeAlarms /\ p > 0 =>
          /\ p \in Nat \ {0} /\ p <= FreeAge /\ r \in 1 .. p + 1 /\ c \in 0 .. FreeWrap-1
          /\ r = p + 1 => c = 0
          /\ age.last \in 0 .. FreeAge /\ age.previous \in 0 .. FreeAge
          /\ age.load \in 0 .. FreeAge
    BY <1>1, WatchedFacts
<1>7. Watched' <=> DELAY_MODE' \in FreeAlarms /\ delay_pc' # "set_mode" /\ p' > 0
    BY DEF Watched
<1> HIDE DEF c, r, p
<1>8. CASE Free!SetModeNone
  <2>1. DELAY_MODE' \notin FreeAlarms
      BY <1>8, FreeNumbers DEF Free!SetModeNone
  <2> QED BY <1>1, <1>2, <1>3, <2>1 DEF DelayInv, Watched
<1>9. CASE \E a \in FreeAlarms : Free!SetMode(a)
  <2>1. delay_pc' = "set_mode"
      BY <1>9 DEF Free!SetMode
  <2> QED BY <1>1, <1>2, <1>3, <2>1 DEF DelayInv, Watched
<1>10. CASE ~(Free!SetModeNone \/ \E a \in FreeAlarms : Free!SetMode(a))
  <2>1. DELAY_MODE' = DELAY_MODE
      BY <1>10 DEF Free!Waiting, Free!DelayLoad, Free!DelayAgain, Free!DelayReturn, Free!Return,
                   Free!SetModeCount, Free!Request, Free!DelayCall, Free!settings
  <2>2. /\ (alarm_count[DELAY_MODE])' = c /\ Remaining(DELAY_MODE)' = r
        /\ (alarm_timeout[DELAY_MODE])' = p
      BY <1>4, <2>1 DEF c, r, p
  <2>3. SUFFICES ASSUME DELAY_MODE \in FreeAlarms, p > 0
                 PROVE  DelayKept(alarm_count[DELAY_MODE], Remaining(DELAY_MODE),
                                  alarm_timeout[DELAY_MODE])'
      BY <1>1, <1>2, <1>3, <2>1, <2>2 DEF DelayInv, Watched
  <2>4. /\ p \in Nat \ {0} /\ p <= FreeAge /\ r \in 1 .. p + 1 /\ c \in 0 .. FreeWrap-1
        /\ r = p + 1 => c = 0
        /\ age.last \in 0 .. FreeAge /\ age.previous \in 0 .. FreeAge
        /\ age.load \in 0 .. FreeAge
      BY <1>6, <2>3
  <2>5. Watched \/ delay_pc = "set_mode"
      BY <2>3 DEF Watched, p
  <2>6. CountedSince(c, 0, c, r, p)
      BY <2>4, JustLoaded
  <2>7. CASE Free!SetModeCount
    <3>1. LAST_DELAY' = c /\ age'.last = 0 /\ age'.previous = FreeAge /\ delay_pc' = "idle"
        BY <1>2, <2>7 DEF Free!SetModeCount, Free!Ages, c
    <3>2. MovedBefore(c, FreeAge, c, r, p)
        BY DEF MovedBefore, Far
    <3> QED BY <2>2, <2>4, <2>6, <3>1, <3>2 DEF DelayKept
  <2>8. CASE Free!DelayCall
    <3>1. /\ LAST_DELAY' = LAST_DELAY /\ age'.last = age.last /\ age'.previous = age.previous
          /\ delay_pc = "idle" /\ delay_pc' # "test"
        BY <1>2, <2>8 DEF Free!DelayCall, Free!settings, Free!Ages
    <3> QED BY <1>5, <2>2, <2>5, <3>1 DEF DelayKept
  <2>9. CASE Free!DelayLoad
    <3>1. /\ LAST_DELAY' = LAST_DELAY /\ age'.last = age.last /\ age'.previous = age.previous
          /\ age'.load = 0 /\ this_delay' = c /\ delay_pc = "load"
        BY <1>2, <2>9 DEF Free!DelayLoad, Free!settings, Free!Ages, c
    <3>2. DelayKept(c, r, p)
        BY <1>5, <2>5, <3>1
    <3>3. LAST_DELAY # c => MovedBefore(c, age.last, c, r, p) /\ age.previous >= p
      <4>1. /\ CountedSince(LAST_DELAY, age.last, c, r, p)
            /\ MovedBefore(LAST_DELAY, age.previous, c, r, p)
            /\ r = p + 1 => c = 0 /\ LAST_DELAY = 0
          BY <2>4, <3>2 DEF DelayKept
      <4> QED BY <2>4, <4>1, LoadKeeps
    <3> QED BY <2>2, <2>4, <2>6, <3>1, <3>2, <3>3 DEF DelayKept
  <2>10. CASE Free!DelayAgain
    <3>1. UNCHANGED <<LAST_DELAY, age, this_delay>> /\ delay_pc = "test" /\ delay_pc' = "load"
        BY <2>10 DEF Free!DelayAgain, Free!settings
    <3> QED BY <1>5, <2>2, <2>5, <3>1 DEF DelayKept
  <2>11. CASE Free!DelayReturn
    <3>1. /\ LAST_DELAY' = this_delay /\ age'.last = age.load /\ age'.previous = age.last
          /\ delay_pc = "test" /\ delay_pc' = "idle" /\ LAST_DELAY # this_delay
        BY <1>2, <2>11 DEF Free!DelayReturn, Free!Return, Free!Ages
    <3>2. DelayKept(c, r, p)
        BY <1>5, <2>5, <3>1
    <3>3. /\ CountedSince(this_delay, age.load, c, r, p)
          /\ MovedBefore(this_delay, age.last, c, r, p)
          /\ r # p + 1
        BY <3>1, <3>2 DEF DelayKept
    <3> QED BY <2>2, <3>1, <3>3 DEF DelayKept
  <2> QED BY <1>10, <2>7, <2>8, <2>9, <2>10, <2>11 DEF Free!Waiting, Free!Request
<1> QED BY <1>8, <1>9, <1>10

LEMMA DelayNext == DelayInv /\ [Free!Next]_(Free!vars) => DelayInv'
<1> SUFFICES ASSUME DelayInv, [Free!Next]_(Free!vars) PROVE DelayInv'
    OBVIOUS
<1>1. CASE Free!SysInit \/ Free!AlarmInitFails \/ Free!ErrorLoop \/ UNCHANGED Free!vars
  <2>1. /\ UNCHANGED <<nticks, alarm_list, time, rollover, alarm_timeout, alarm_count, LAST_DELAY,
                       DELAY_MODE, this_delay, age>>
        /\ delay_pc' = delay_pc \/ (delay_pc \in {"boot", "alarm_init"}
                                      /\ delay_pc' \in {"alarm_init", "error"})
    <3>1. CASE Free!SysInit
        BY <3>1 DEF Free!SysInit, Free!contexts, Free!settings, Free!Hal!SysClkInit,
                    Free!Hal!alarmVars
    <3>2. CASE Free!AlarmInitFails
        BY <3>2 DEF Free!AlarmInitFails, Free!contexts, Free!settings, Free!clock
    <3>3. CASE Free!ErrorLoop \/ UNCHANGED Free!vars
        BY <3>3 DEF Free!ErrorLoop, Free!vars, Free!contexts, Free!settings, Free!clock
    <3> QED BY <1>1, <3>1, <3>2, <3>3
  <2>2. FreeTyped'
      BY FreeTypeNext DEF DelayInv
  <2>3. AlarmsArmed'
      BY <2>1, ArmedStays DEF DelayInv
  <2>4. NotLoaded'
      BY <2>1 DEF DelayInv, NotLoaded
  <2>5. ASSUME Watched'
        PROVE  DelayKept(alarm_count[DELAY_MODE], Remaining(DELAY_MODE),
                         alarm_timeout[DELAY_MODE])'
    <3>1. Watched
        BY <2>1, <2>5 DEF Watched
    <3>2. DelayKept(alarm_count[DELAY_MODE], Remaining(DELAY_MODE), alarm_timeout[DELAY_MODE])
        BY <3>1 DEF DelayInv
    <3>3. Remaining(DELAY_MODE)' = Remaining(DELAY_MODE)
        BY <2>1 DEF Remaining, Free!Hal!Left
    <3> QED BY <2>1, <3>2, <3>3 DEF DelayKept
  <2> QED BY <2>2, <2>3, <2>4, <2>5 DEF DelayInv
<1> QED BY <1>1, DelayTicks, DelayStarts, DelayCalls
        DEF Free!Next, Free!Progress, Free!Startup

\* Fewer than FreeWrap callbacks give another count.
LEMMA CountsDiffer ==
    ASSUME NEW W \in Nat \ {0}, NEW base \in 0 .. W-1, NEW k \in 1 .. W-1
    PROVE  (base + k) % W # base
<1>1. CASE base + k < W
  <2>1. base + k \in 0 .. W-1
      BY <1>1
  <2>2. (0 * W + (base + k)) % W = base + k
      BY <2>1, RestIs
  <2>3. 0 * W + (base + k) = base + k
      OBVIOUS
  <2> QED BY <2>2, <2>3
<1>2. CASE base + k >= W
  <2>1. (base + k) - W \in 0 .. W-1
      BY <1>2
  <2>2. (1 * W + ((base + k) - W)) % W = (base + k) - W
      BY <2>1, RestIs
  <2>3. 1 * W + ((base + k) - W) = base + k
      OBVIOUS
  <2>4. (base + k) - W # base
      OBVIOUS
  <2> QED BY <2>2, <2>3, <2>4
<1> QED BY <1>1, <1>2

LEMMA DelaysKeptPaced == DelayInv => Free!NoOversleep /\ Free!PacedByAlarm
<1> SUFFICES ASSUME DelayInv PROVE Free!NoOversleep /\ Free!PacedByAlarm
    OBVIOUS
<1> DEFINE c == alarm_count[DELAY_MODE]
           r == Remaining(DELAY_MODE)
           p == alarm_timeout[DELAY_MODE]
<1>1. FreeTyped /\ AlarmsArmed
    BY DEF DelayInv
<1>2. /\ delay_pc \in {"load", "test"} => DELAY_MODE \in FreeAlarms /\ p \in Nat
      /\ age.last \in Nat /\ age.previous \in Nat
      /\ FreeWrap \in Nat /\ FreeWrap > 1 /\ FreeAge \in Nat
      /\ LAST_DELAY \in 0 .. FreeWrap-1
    BY <1>1, FreeNumbers DEF FreeTyped, Free!TypeOK, Free!Ages, Free!Hal!U32
<1>3. delay_pc \in {"load", "test"} /\ p > 0 =>
          DelayKept(c, r, p) /\ r \in 1 .. p + 1
    BY <1>1, <1>2, WatchedFacts DEF DelayInv, Watched
<1> HIDE DEF c, r, p
<1>4. ASSUME delay_pc = "load", age.last > p, age.last <= (FreeWrap - 1) * p, age.last < FreeAge
      PROVE  c # LAST_DELAY
  <2>1. p > 0
    <3>1. p = 0 => (FreeWrap - 1) * p = 0
        BY <1>2
    <3> QED BY <1>2, <1>4, <3>1
  <2>2. DelayKept(c, r, p) /\ r \in 1 .. p + 1 /\ p \in Nat
      BY <1>2, <1>3, <1>4, <2>1
  <2>3. PICK k \in Nat : /\ c = (LAST_DELAY + k) % FreeWrap
                         /\ k * p + 1 <= age.last + r /\ age.last + r <= k * p + p + 1
      BY <1>4, <2>2 DEF DelayKept, CountedSince
  <2>4. k # 0
    <3>1. k = 0 => k * p = 0
        BY <2>2
    <3>2. age.last + r > p + 1
        BY <1>2, <1>4, <2>2
    <3> QED BY <1>2, <2>2, <2>3, <3>1, <3>2
  <2>5. k < FreeWrap
    <3>1. k >= FreeWrap => k * p >= (FreeWrap - 1) * p + p
        BY <1>2, <2>2, Z3
    <3>2. (FreeWrap - 1) * p \in Nat /\ k * p \in Nat
        BY <1>2, <2>2, Z3
    <3>3. k >= FreeWrap => r = p + 1
        BY <1>2, <1>4, <2>2, <2>3, <3>1, <3>2
    <3>4. r = p + 1 => age.last = 0
        BY <2>2 DEF DelayKept
    <3> QED BY <1>2, <1>4, <2>1, <2>2, <2>3, <3>3, <3>4
  <2> QED BY <1>2, <2>3, <2>4, <2>5, CountsDiffer
<1>5. Free!NoOversleep
    BY <1>4 DEF Free!NoOversleep, Free!Period, c, p
<1>6. Free!PacedByAlarm
  <2>1. ASSUME delay_pc = "test", LAST_DELAY # this_delay PROVE age.previous >= p
    <3>1. p = 0 \/ p > 0
        BY <1>2, <2>1
    <3> QED BY <1>2, <1>3, <2>1, <3>1 DEF DelayKept
  <2> QED BY <2>1 DEF Free!PacedByAlarm, Free!Period, p
<1> QED BY <1>5, <1>6

-----------------------------------------------------------------------------
(* The lines typed and the lines printed, under main                       *)

\* Newlines are at the even places of a sequence, or at the odd ones, and the last
\* character is one.
Alternates(s, rest) == Len(s) % 2 = rest /\ \A i \in 1 .. Len(s) : s[i] = Newline <=> i % 2 = rest

\* What is typed and not read begins with a selection, but between the two calls of
\* alt_getchar with a newline.
LinesTyped ==
    /\ rx \in Seq(Keys \cup {Newline}) /\ input \in Keys \cup {Newline}
    /\ Alternates(rx, IF main_pc = "discard" THEN 1 ELSE 0)

\* PRINT_STDIO_WRAP_COUNT between two numbers: before one is printed, and after.
LinesPrinted ==
    /\ wrap_count \in 0 .. LineLength-1
    /\ main_pc \in {"print_first", "print"} => wrap_count = Steps % LineLength
    /\ main_pc \in {"led_first", "led", "delay_first", "delay", "loop"} =>
          wrap_count = (Steps + 1) % LineLength

ProgramInv == Inv /\ OwnTyped /\ LinesTyped /\ LinesPrinted

LEMMA NewlineIsNoKey == Newline \notin Keys
BY CountAssumption DEF Newline

LEMMA TailAlternates ==
    ASSUME NEW S, NEW s \in Seq(S), NEW rest \in {0, 1}, Alternates(s, rest), s # <<>>
    PROVE  Alternates(Tail(s), 1 - rest) /\ Tail(s) \in Seq(S) /\ Head(s) \in S
<1>1. /\ Len(s) \in Nat /\ Len(s) > 0 /\ Len(Tail(s)) = Len(s) - 1
      /\ Tail(s) \in Seq(S) /\ Head(s) \in S
      /\ \A i \in 1 .. Len(s) - 1 : Tail(s)[i] = s[i + 1]
    OBVIOUS
<1>2. (Len(s) - 1) % 2 = 1 - rest
    BY <1>1 DEF Alternates
<1>3. ASSUME NEW i \in 1 .. Len(Tail(s))
      PROVE  Tail(s)[i] = Newline <=> i % 2 = 1 - rest
  <2>1. i + 1 \in 1 .. Len(s) /\ Tail(s)[i] = s[i + 1]
      BY <1>1
  <2>2. s[i + 1] = Newline <=> (i + 1) % 2 = rest
      BY <2>1 DEF Alternates
  <2>3. (i + 1) % 2 = rest <=> i % 2 = 1 - rest
      BY <1>1
  <2> QED BY <2>1, <2>2, <2>3
<1> QED BY <1>1, <1>2, <1>3 DEF Alternates

LEMMA LineAlternates ==
    ASSUME NEW s \in Seq(Keys \cup {Newline}), NEW rest \in {0, 1}, Alternates(s, rest),
           NEW key \in Keys
    PROVE  /\ s \o <<key, Newline>> \in Seq(Keys \cup {Newline})
           /\ Alternates(s \o <<key, Newline>>, rest)
<1> DEFINE n == Len(s)
           t == s \o <<key, Newline>>
<1>1. /\ n \in Nat /\ t \in Seq(Keys \cup {Newline}) /\ Len(t) = n + 2
      /\ \A i \in 1 .. n : t[i] = s[i]
      /\ t[n + 1] = key /\ t[n + 2] = Newline
    OBVIOUS
<1>2. n % 2 = rest /\ \A i \in 1 .. n : s[i] = Newline <=> i % 2 = rest
    BY DEF Alternates
<1> HIDE DEF n, t
<1>3. (n + 2) % 2 = rest /\ (n + 1) % 2 # rest
    BY <1>1, <1>2
<1>4. key # Newline
    BY NewlineIsNoKey
<1>5. ASSUME NEW i \in 1 .. n + 2
      PROVE  t[i] = Newline <=> i % 2 = rest
  <2>1. CASE i \in 1 .. n
      BY <1>1, <1>2, <2>1
  <2>2. CASE i = n + 1
      BY <1>1, <1>3, <1>4, <2>2
  <2>3. CASE i = n + 2
      BY <1>1, <1>3, <2>3
  <2> QED BY <1>1, <2>1, <2>2, <2>3
<1>6. Alternates(t, rest)
    BY <1>1, <1>3, <1>5 DEF Alternates
<1> QED BY <1>1, <1>6 DEF t

LEMMA LinesTypedInit == Init => LinesTyped
<1> SUFFICES ASSUME Init PROVE LinesTyped
    OBVIOUS
<1>1. rx = <<>> /\ input = Newline /\ main_pc = "start"
    BY DEF Init, MainInit
<1>2. Len(<<>>) = 0 /\ 0 % 2 = 0
    OBVIOUS
<1>3. Alternates(<<>>, 0)
    BY <1>2 DEF Alternates
<1> QED BY <1>1, <1>3 DEF LinesTyped

LEMMA LinesTypedNext == LinesTyped /\ [Next]_vars => LinesTyped'
<1> SUFFICES ASSUME LinesTyped, [Next]_vars PROVE LinesTyped'
    OBVIOUS
<1> DEFINE rest == IF main_pc = "discard" THEN 1 ELSE 0
<1>1. /\ rx \in Seq(Keys \cup {Newline}) /\ input \in Keys \cup {Newline}
      /\ Alternates(rx, rest) /\ rest \in {0, 1}
    BY DEF LinesTyped
<1>2. ASSUME NEW key \in Keys, TypeLine(key) PROVE LinesTyped'
  <2>1. rx' = rx \o <<key, Newline>> /\ input' = input /\ main_pc' = main_pc
      BY <1>2 DEF TypeLine, choice
  <2> QED BY <1>1, <2>1, LineAlternates DEF LinesTyped
<1>3. CASE GetChar
  <2>1. /\ main_pc = "getchar" /\ main_pc' = "discard" /\ rx # <<>>
        /\ input' = Head(rx) /\ rx' = Tail(rx)
      BY <1>3 DEF GetChar, Goto
  <2>2. Alternates(rx, 0)
      BY <1>1, <2>1
  <2>3. Alternates(Tail(rx), 1 - 0) /\ Tail(rx) \in Seq(Keys \cup {Newline})
        /\ Head(rx) \in Keys \cup {Newline}
      BY <1>1, <2>1, <2>2, TailAlternates
  <2>4. 1 - 0 = 1
      OBVIOUS
  <2> QED BY <2>1, <2>3, <2>4 DEF LinesTyped
<1>4. CASE DiscardChar
  <2>1. /\ main_pc = "discard" /\ main_pc' = "select" /\ rx # <<>>
        /\ input' = input /\ rx' = Tail(rx)
      BY <1>4 DEF DiscardChar, Goto, choice
  <2>2. Alternates(rx, 1)
      BY <1>1, <2>1
  <2>3. Alternates(Tail(rx), 1 - 1) /\ Tail(rx) \in Seq(Keys \cup {Newline})
      BY <1>1, <2>1, <2>2, TailAlternates
  <2>4. 1 - 1 = 0
      OBVIOUS
  <2> QED BY <1>1, <2>1, <2>3, <2>4 DEF LinesTyped
<1>5. ASSUME rx' = rx, input' = input, main_pc' = "discard" <=> main_pc = "discard"
      PROVE  LinesTyped'
    BY <1>1, <1>5 DEF LinesTyped
<1>6. CASE Tick \/ ErrorLoop \/ DelayWait \/ UNCHANGED vars
    BY <1>5, <1>6 DEF Tick, ErrorLoop, DelayWait, vars, mainVars, choice
<1>7. CASE Startup \/ Select \/ PrintCount \/ UpdateLed \/ DelayDone \/ Count \/ Finish
    BY <1>5, <1>7 DEF Startup, Select, PrintCount, UpdateLed, DelayDone, Count, Finish, Goto, choice
<1> QED BY <1>2, <1>3, <1>4, <1>6, <1>7 DEF Next, Step

\* The numbers shown in a run are one more for every number counted.
LEMMA StepsCounted ==
    ASSUME Inv, Count
    PROVE  Steps \in Nat /\ Steps' = Steps + 1
<1>1. /\ binary_count \in 0 .. MaxCount /\ dir = DirOf(input)
      /\ dir = 3 => binary_count % 3 = 0
    BY DEF Inv, NumbersOK, DuringRun, InRun, U8, Count, Goto
<1>2. /\ binary_count' = binary_count + dir /\ input \in {"u", "d", "3"}
      /\ binary_count + dir \in 0 .. MaxCount
    BY CountStays DEF U8
<1>3. input' = input /\ dir' = dir
    BY DEF Count, choice
<1>4. CASE input = "u"
  <2>1. dir = 1
      BY <1>1, <1>4, Directions
  <2>2. Steps = binary_count /\ Steps' = binary_count'
      BY <1>3, <1>4, <2>1 DEF Steps
  <2>3. binary_count \in Nat
      BY <1>1, MaxCountFacts
  <2>4. binary_count' = binary_count + 1
      BY <1>2, <2>1
  <2> QED BY <2>2, <2>3, <2>4
<1>5. CASE input = "d"
  <2>1. dir = -1
      BY <1>1, <1>5, Directions
  <2>2. Steps = MaxCount - binary_count /\ Steps' = MaxCount - binary_count'
      BY <1>3, <2>1 DEF Steps
  <2>3. binary_count \in 0 .. MaxCount /\ MaxCount \in Nat
      BY <1>1, MaxCountFacts
  <2>4. binary_count' = binary_count + (-1)
      BY <1>2, <2>1
  <2> QED BY <2>2, <2>3, <2>4
<1>6. CASE input = "3"
  <2>1. dir = 3
      BY <1>1, <1>6, Directions
  <2>2. Steps = binary_count \div 3 /\ Steps' = (binary_count + 3) \div 3
      BY <1>2, <1>3, <2>1 DEF Steps
  <2> QED BY <1>1, <1>2, <2>1, <2>2, MaxCountFacts
<1> QED BY <1>2, <1>4, <1>5, <1>6

LEMMA StepsNat == Inv => Steps \in Nat
<1> SUFFICES ASSUME Inv PROVE Steps \in Nat
    OBVIOUS
<1>1. binary_count \in 0 .. MaxCount /\ dir \in {-1, 1, 3}
    BY DEF Inv, NumbersOK, U8
<1>2. binary_count \div 3 \in Nat /\ MaxCount - binary_count \in Nat
    BY <1>1, MaxCountFacts
<1> QED BY <1>1, <1>2 DEF Steps

LEMMA LineFacts == LineLength \in Nat \ {0} /\ 0 \in 0 .. LineLength-1
BY CountAssumption

LEMMA LinesPrintedInit == Init => LinesPrinted
BY LineFacts DEF Init, MainInit, LinesPrinted

LEMMA LinesPrintedNext == Inv /\ LinesPrinted /\ [Next]_vars => LinesPrinted'
<1> SUFFICES ASSUME Inv, LinesPrinted, [Next]_vars PROVE LinesPrinted'
    OBVIOUS
<1>1. wrap_count \in 0 .. LineLength-1 /\ Steps \in Nat
    BY StepsNat DEF LinesPrinted
<1>2. CASE Select
  <2>1. /\ main_pc' = "print_first" /\ wrap_count' = 0 /\ input' = input
        /\ dir' = DirOf(input) /\ binary_count' = StartOf(input)
      BY <1>2 DEF Select, Goto, DirOf, StartOf
  <2>2. Steps' = 0
    <3>1. CASE input = "u"
        BY <2>1, <3>1, Directions DEF Steps, StartOf
    <3>2. CASE input = "d"
        BY <2>1, <3>2, Directions, MaxCountFacts DEF Steps, StartOf
    <3>3. CASE input = "3"
        BY <2>1, <3>3, Directions DEF Steps, StartOf
    <3>4. CASE input \notin {"u", "d", "3"}
        BY <2>1, <3>4, Directions DEF Steps
    <3> QED BY <3>1, <3>2, <3>3, <3>4
  <2>3. 0 % LineLength = 0
    <3>1. (0 + 0) % LineLength = 0
        BY LineFacts, SmallIsRest
    <3> QED BY <3>1
  <2> QED BY <2>1, <2>2, <2>3, LineFacts DEF LinesPrinted
<1>3. CASE PrintCount
  <2>1. /\ main_pc \in {"print_first", "print"} /\ main_pc' \in {"led_first", "led"}
        /\ wrap_count' = WrapCountAfter(wrap_count) /\ UNCHANGED <<input, dir, binary_count>>
      BY <1>3 DEF PrintCount, Goto, choice
  <2>2. Steps' = Steps /\ wrap_count = Steps % LineLength
      BY <2>1 DEF Steps, LinesPrinted
  <2>3. WrapCountAfter(wrap_count) = (wrap_count + 1) % LineLength
        /\ WrapCountAfter(wrap_count) \in 0 .. LineLength-1
    <3>1. CASE wrap_count + 1 >= LineLength
      <4>1. wrap_count + 1 = LineLength /\ WrapCountAfter(wrap_count) = 0
          BY <1>1, <3>1, LineFacts DEF WrapCountAfter
      <4>2. (1 * LineLength + 0) % LineLength = 0
          BY LineFacts, RestIs
      <4>3. 1 * LineLength + 0 = LineLength
          BY LineFacts
      <4> QED BY <4>1, <4>2, <4>3, LineFacts
    <3>2. CASE wrap_count + 1 < LineLength
      <4>1. /\ wrap_count + 1 \in 0 .. LineLength-1
            /\ WrapCountAfter(wrap_count) = wrap_count + 1
          BY <1>1, <3>2, LineFacts DEF WrapCountAfter
      <4>2. ((wrap_count + 1) + 0) % LineLength = wrap_count + 1
          BY <4>1, LineFacts, SmallIsRest
      <4>3. (wrap_count + 1) + 0 = wrap_count + 1
          BY <1>1, LineFacts
      <4> QED BY <4>1, <4>2, <4>3
    <3> QED BY <1>1, <3>1, <3>2, LineFacts
  <2>4. ((Steps % LineLength) + 1) % LineLength = (Steps + 1) % LineLength
      BY <1>1, LineFacts, NextRest
  <2> QED BY <2>1, <2>2, <2>3, <2>4 DEF LinesPrinted
<1>4. CASE Count
  <2>1. main_pc = "loop" /\ main_pc' = "print" /\ wrap_count' = wrap_count
      BY <1>4 DEF Count, Goto
  <2> QED BY <1>4, <2>1, StepsCounted DEF LinesPrinted
<1>5. ASSUME UNCHANGED <<wrap_count, input, dir, binary_count>>,
             \/ main_pc' = main_pc
             \/ Goto("led_first", "delay_first") \/ Goto("led", "delay")
             \/ Goto("delay_first", "loop") \/ Goto("delay", "loop")
             \/ main_pc' \in {"start", "getchar", "delay_last"}
      PROVE  LinesPrinted'
    BY <1>5 DEF LinesPrinted, Goto, Steps
<1>6. CASE Tick \/ ErrorLoop \/ DelayWait \/ UNCHANGED vars \/ \E key \in Keys : TypeLine(key)
    BY <1>5, <1>6 DEF Tick, ErrorLoop, DelayWait, TypeLine, vars, mainVars, choice
<1>7. CASE Startup \/ UpdateLed \/ DelayDone \/ Finish
    BY <1>5, <1>7 DEF Startup, UpdateLed, DelayDone, Finish, Goto, choice
<1>8. CASE GetChar \/ DiscardChar
  <2>1. wrap_count' = wrap_count /\ main_pc' \in {"discard", "select"}
      BY <1>8 DEF GetChar, DiscardChar, Goto
  <2> QED BY <1>1, <2>1 DEF LinesPrinted
<1> QED BY <1>2, <1>3, <1>4, <1>6, <1>7, <1>8 DEF Next, Step

LEMMA OwnStep == [Next]_vars => [Delay!Next]_(Delay!vars)
<1> SUFFICES ASSUME [Next]_vars PROVE Delay!Next \/ UNCHANGED delayVars
    BY DEF delayVars, Delay!vars, Delay!clock, Delay!contexts, Delay!settings
<1>1. CASE Tick \/ Startup \/ ErrorLoop \/ DelayWait
    BY <1>1 DEF Tick, Startup, ErrorLoop, DelayWait, Delay!Next, Delay!Progress
<1>2. CASE UpdateLed \/ Finish
    BY <1>2 DEF UpdateLed, Finish, Delay!Next, Delay!Request
<1>3. CASE GetChar \/ DiscardChar \/ Select \/ PrintCount \/ DelayDone \/ Count
    BY <1>3 DEF GetChar, DiscardChar, Select, PrintCount, DelayDone, Count
<1>4. CASE UNCHANGED vars \/ \E key \in Keys : TypeLine(key)
    BY <1>4 DEF vars, TypeLine
<1> QED BY <1>1, <1>2, <1>3, <1>4 DEF Next, Step

-----------------------------------------------------------------------------
(* The firmware under main, and its delays under any caller                *)

CallerKnown == caller \in {"main", "any"}

UnderMain == caller = "main" => ProgramInv

UnderAny == caller = "any" => DelayInv

LEMMA FirmwareInit == MCInit => CallerKnown /\ UnderMain /\ UnderAny
<1> SUFFICES ASSUME MCInit PROVE CallerKnown /\ UnderMain /\ UnderAny
    OBVIOUS
<1>1. CASE caller = "main" /\ Init
  <2>1. Delay!Init
      BY <1>1 DEF Init
  <2> QED BY <1>1, <2>1, InvInit, OwnTypeInit, LinesTypedInit, LinesPrintedInit
          DEF CallerKnown, UnderMain, UnderAny, ProgramInv
<1>2. CASE caller = "any" /\ Free!Init
    BY <1>2, DelayInit DEF CallerKnown, UnderMain, UnderAny
<1> QED BY <1>1, <1>2 DEF MCInit

LEMMA FirmwareNext ==
    CallerKnown /\ UnderMain /\ UnderAny /\ [MCNext]_<<vars, caller>>
        => CallerKnown' /\ UnderMain' /\ UnderAny'
<1> SUFFICES ASSUME CallerKnown, UnderMain, UnderAny, [MCNext]_<<vars, caller>>
             PROVE  CallerKnown' /\ UnderMain' /\ UnderAny'
    OBVIOUS
<1>1. caller' = caller
    BY DEF MCNext
<1>2. CASE caller = "main"
  <2>1. [Next]_vars
      BY <1>2 DEF MCNext, MCTick, MCTyping, MCStep, MCCall, Next
  <2>2. ProgramInv
      BY <1>2 DEF UnderMain
  <2>3. ProgramInv'
      BY <2>1, <2>2, InvNext, OwnStep, OwnTypeNext, LinesTypedNext, LinesPrintedNext
      DEF ProgramInv
  <2> QED BY <1>1, <1>2, <2>3 DEF CallerKnown, UnderMain, UnderAny
<1>3. CASE caller = "any"
  <2>1. [Free!Next]_(Free!vars)
    <3>1. UNCHANGED vars => UNCHANGED Free!vars
        BY DEF vars, delayVars, Free!vars, Free!clock, Free!contexts, Free!settings
    <3> QED BY <1>3, <3>1 DEF MCNext, MCTick, MCTyping, MCStep, MCCall, Free!Next
  <2>2. DelayInv
      BY <1>3 DEF UnderAny
  <2>3. DelayInv'
      BY <2>1, <2>2, DelayNext
  <2> QED BY <1>1, <1>3, <2>3 DEF CallerKnown, UnderMain, UnderAny
<1> QED BY <1>2, <1>3 DEF CallerKnown

\* Whatever the operator types and however the delays end, the terminal breaks its
\* line after LineLength numbers of a run, and the two calls of alt_getchar take a
\* selection and its newline (jtag_uart_util.c:20, main.c:41).
THEOREM ProgramStaysSound == MCSpec => []ProgramSound
<1>1. CallerKnown /\ UnderMain /\ UnderAny => ProgramSound
  <2> SUFFICES ASSUME CallerKnown, UnderMain, UnderAny PROVE ProgramSound
      OBVIOUS
  <2>1. CASE caller = "main"
    <3>1. Inv /\ OwnTyped /\ LinesTyped /\ LinesPrinted
        BY <2>1 DEF UnderMain, ProgramInv
    <3>2. TypeOK
        BY <3>1 DEF TypeOK, Inv, NumbersOK, Places, OwnTyped, LinesTyped, LinesPrinted
    <3>3. LinesAreFull
        BY <3>1 DEF LinesAreFull, LinesPrinted
    <3>4. SelectionAligned
        BY <3>1 DEF SelectionAligned, LinesTyped, Alternates
    <3> QED BY <2>1, <3>2, <3>3, <3>4 DEF ProgramSound
  <2>2. CASE caller = "any"
      BY <2>2 DEF UnderAny, DelayInv, FreeTyped, ProgramSound
  <2> QED BY <2>1, <2>2 DEF CallerKnown
<1> QED BY <1>1, FirmwareInit, FirmwareNext, PTL DEF MCSpec

\* Under any caller of delay_wait and of the setters, for all rates and divisors whose
\* periods are shorter than the longest delay, a callback since the last delay is not
\* lost and three returns in a row take a period (delay_wait.c:37-39).
THEOREM DelaysStayPaced == MCSpec => []DelaysPaced
<1>1. UnderAny => DelaysPaced
    BY DelaysKeptPaced DEF UnderAny, DelaysPaced
<1> QED BY <1>1, FirmwareInit, FirmwareNext, PTL DEF MCSpec
==============================================================================
