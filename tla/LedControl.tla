----------------------------- MODULE LedControl -----------------------------
(***************************************************************************)
(* The week 4 firmware, main.c with led_util.c and jtag_uart_util.c, over  *)
(* the delays of DelayWait and the alarms of HalAlarm: the operator types  *)
(* a selection on the JTAG terminal, the program counts up, down or by     *)
(* threes and shows each number on the terminal and on the LEDs.           *)
(*                                                                         *)
(* binary_count is an alt_u8 and MAX_COUNT its largest value; here both    *)
(* scale with MaxCount.  What the terminal prints is left out but for the  *)
(* count that breaks its lines.                                            *)
(***************************************************************************)
EXTENDS Integers, Sequences

CONSTANTS Alarms, Wrap, Rates, StartTicks, Periods, InitOrder, Divisor,
          DefaultMode, None, MaxAge, MaxLag,     \* as in DelayWait
          MaxCount,      \* MAX_COUNT
          LineLength,    \* numbers on a line of the terminal, 16
          Keys,          \* what the operator types before the newline
          MaxTyped       \* bound: characters typed ahead

ASSUME CountAssumption ==
    /\ MaxCount \in Nat /\ MaxCount >= 3 /\ MaxCount % 3 = 0
    /\ LineLength \in Nat \ {0}
    /\ "newline" \notin Keys
    /\ MaxTyped \in Nat

VARIABLES
    tick_rate, nticks, alarm_list, time, rollover, alarm_timeout, alarm_count,
    LAST_DELAY, DELAY_MODE, this_delay, delay_pc, started, age, \* as in DelayWait
    rx,             \* characters typed and not yet read
    input,          \* the selection
    binary_count,
    dir,
    led_pio,        \* the data register of LED_PIO
    wrap_count,     \* PRINT_STDIO_WRAP_COUNT
    main_pc

delayVars == <<tick_rate, nticks, alarm_list, time, rollover, alarm_timeout,
               alarm_count, LAST_DELAY, DELAY_MODE, this_delay, delay_pc,
               started, age>>
choice == <<input, dir>>
mainVars == <<rx, choice, binary_count, led_pio, wrap_count, main_pc>>
vars == <<delayVars, mainVars>>

Delay == INSTANCE DelayWait

Newline == "newline"

U8 == 0 .. MaxCount

TypeOK ==
    /\ Delay!TypeOK
    /\ rx \in Seq(Keys \cup {Newline})
    /\ input \in Keys \cup {Newline}
    /\ binary_count \in U8
    /\ dir \in {-1, 1, 3}
    /\ led_pio \in U8
    /\ wrap_count \in 0 .. LineLength-1
    /\ main_pc \in {"start", "getchar", "discard", "select",
                    "print_first", "led_first", "delay_first", "loop",
                    "print", "led", "delay", "delay_last"}

\* The locals of main are not initialised by the code and not read before they
\* are assigned; the register of the PIO is 0 after reset.
MainInit ==
    /\ rx = <<>>
    /\ input = Newline
    /\ binary_count = 0
    /\ dir = 1
    /\ led_pio = 0
    /\ wrap_count = 0
    /\ main_pc = "start"

Init == Delay!Init /\ MainInit

-----------------------------------------------------------------------------
(* The surroundings                                                        *)

\* The timer interrupt.
Tick == Delay!Tick /\ UNCHANGED mainVars

\* The operator types a selection and ends the line; the terminal sends lines.
TypeLine(key) ==
    /\ Len(rx) + 2 <= MaxTyped
    /\ rx' = rx \o <<key, Newline>>
    /\ UNCHANGED <<delayVars, choice, binary_count, led_pio, wrap_count, main_pc>>

-----------------------------------------------------------------------------
(* main.  A definition with an underscore in its name is a variant of the   *)
(* one below it with a fault: the properties must tell them apart.          *)

Goto(from, to) == main_pc = from /\ main_pc' = to

\* alarm_init, step by step, and then the loop of main.
Startup ==
    /\ main_pc = "start"
    /\ Delay!Startup
    /\ main_pc' = IF delay_pc' = "idle" THEN "getchar" ELSE "start"
    /\ UNCHANGED <<rx, choice, binary_count, led_pio, wrap_count>>

ErrorLoop == Delay!ErrorLoop /\ UNCHANGED mainVars

\* alt_getchar blocks until there is a character.
GetChar ==
    /\ Goto("getchar", "discard")
    /\ rx # <<>>
    /\ input' = Head(rx)
    /\ rx' = Tail(rx)
    /\ UNCHANGED <<delayVars, dir, binary_count, led_pio, wrap_count>>

\* The second alt_getchar takes the newline.
DiscardChar_Missing ==
    /\ Goto("discard", "select")
    /\ UNCHANGED <<delayVars, rx, choice, binary_count, led_pio, wrap_count>>

DiscardChar ==
    /\ Goto("discard", "select")
    /\ rx # <<>>
    /\ rx' = Tail(rx)
    /\ UNCHANGED <<delayVars, choice, binary_count, led_pio, wrap_count>>

Select ==
    /\ Goto("select", "print_first")
    /\ dir' = CASE input = "d" -> -1
                [] input = "3" -> 3
                [] OTHER       -> 1
    /\ binary_count' = IF input \in {"u", "3"} THEN 0 ELSE MaxCount
    /\ wrap_count' = 0
    /\ UNCHANGED <<delayVars, rx, input, led_pio>>

WrapCountAfter_Early(n) == IF n + 1 >= LineLength - 1 THEN 0 ELSE n + 1
WrapCountAfter(n) == IF n + 1 >= LineLength THEN 0 ELSE n + 1

\* print_binary_count_stdio; PRINT_STDIO_MASK is 0 and nothing sets it.
PrintCount ==
    /\ Goto("print_first", "led_first") \/ Goto("print", "led")
    /\ wrap_count' = WrapCountAfter(wrap_count)
    /\ UNCHANGED <<delayVars, rx, choice, binary_count, led_pio>>

\* display_value = ~display_value, the LEDs being active low.
Pattern_NotInverted(value) == value
Pattern(value) == MaxCount - value

\* update_led, LED_MASK being 0 with nothing to set it, and the call of
\* delay_wait that follows.
UpdateLed ==
    /\ Goto("led_first", "delay_first") \/ Goto("led", "delay")
    /\ led_pio' = Pattern(binary_count)
    /\ Delay!DelayCall
    /\ UNCHANGED <<rx, choice, binary_count, wrap_count>>

\* delay_wait spins; main goes on when it returns.
DelayWait ==
    /\ main_pc \in {"delay_first", "delay", "delay_last"}
    /\ delay_pc # "idle"
    /\ Delay!Waiting
    /\ UNCHANGED mainVars

DelayDone ==
    /\ delay_pc = "idle"
    /\ \/ Goto("delay_first", "loop")
       \/ Goto("delay", "loop")
       \/ Goto("delay_last", "getchar")
    /\ UNCHANGED <<delayVars, rx, choice, binary_count, led_pio, wrap_count>>

MoreToCount_Inclusive ==
    \/ binary_count <= MaxCount /\ dir > 0
    \/ binary_count >= 0 /\ dir < 0

MoreToCount ==
    \/ binary_count < MaxCount /\ dir > 0
    \/ binary_count > 0 /\ dir < 0

Count ==
    /\ Goto("loop", "print")
    /\ MoreToCount
    /\ binary_count' = (binary_count + dir) % (MaxCount + 1)
    /\ UNCHANGED <<delayVars, rx, choice, led_pio, wrap_count>>

\* The loop is over: announce it, and delay once more.
Finish ==
    /\ Goto("loop", "delay_last")
    /\ ~MoreToCount
    /\ Delay!DelayCall
    /\ UNCHANGED <<rx, choice, binary_count, led_pio, wrap_count>>

Step ==
    \/ Startup \/ ErrorLoop
    \/ GetChar \/ DiscardChar \/ Select
    \/ PrintCount \/ UpdateLed \/ DelayWait \/ DelayDone
    \/ Count \/ Finish

Next ==
    \/ Tick
    \/ \E key \in Keys : TypeLine(key)
    \/ Step

Spec == Init /\ [][Next]_vars

\* The timer keeps ticking and the processor keeps executing; a blocking write to
\* the terminal ends, a host being connected.  The operator need not type.
FairSpec == Spec /\ WF_vars(Tick) /\ WF_vars(Step)

-----------------------------------------------------------------------------
(* Properties                                                              *)

\* The 8-bit counter never wraps: a step of the loop adds dir to it as if it
\* had no width.  Counting by threes ends only because it meets MAX_COUNT
\* exactly.
CounterNeverWraps == [][main_pc = "loop" /\ main_pc' = "print" =>
                            binary_count' = binary_count + dir]_vars

\* The numbers already shown when the LEDs show binary_count.
Steps == CASE dir = 3  -> binary_count \div 3
           [] dir = -1 -> MaxCount - binary_count
           [] dir = 1  -> IF input = "u" THEN binary_count ELSE 0

\* The terminal breaks its line after every LineLength numbers of a run, whatever
\* runs came before it.
LinesAreFull ==
    main_pc \in {"delay_first", "delay", "loop"} =>
        wrap_count = (Steps + 1) % LineLength

\* The two calls of alt_getchar stay in step with the lines typed: the first
\* takes a selection, the second a newline.
SelectionAligned ==
    /\ main_pc = "getchar" => \A i \in 1 .. Len(rx) : rx[i] = Newline <=> i % 2 = 0
    /\ main_pc = "discard" => \A i \in 1 .. Len(rx) : rx[i] = Newline <=> i % 2 = 1

\* The LED register goes through the sequences of Display: no number is left
\* out, shown twice or shown out of its run.
Onlooker == INSTANCE Display WITH
    shown <- MaxCount - led_pio,
    run   <- IF main_pc \in {"delay_first", "loop", "print", "led", "delay"}
             THEN CASE input = "u" -> "up"
                    [] input = "d" -> "down"
                    [] input = "3" -> "threes"
                    [] OTHER       -> "full"
             ELSE "none"

ImplementsDisplay == Onlooker!Spec

\* A selection is carried through: the program comes back for the next one,
\* if the loop of delay_wait loads the count often enough.
RunCompletes ==
    []Delay!LoopIsTimely => (main_pc = "select" ~> main_pc = "getchar")

\* main.c:73: "wait for the delay period".  The weakest reading: a delay lasts
\* at least until one tick.
DelayTakesTime ==
    delay_pc = "test" /\ LAST_DELAY # this_delay => age.call >= 1
==============================================================================
