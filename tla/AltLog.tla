------------------------------- MODULE AltLog -------------------------------
(***************************************************************************)
(* The log of the HAL (HAL/src/alt_log_printf.c and the macros of          *)
(* HAL/inc/sys/alt_log_printf.h): messages the program and the interrupts  *)
(* of the timer and of the JTAG UART write, character by character, past   *)
(* the driver into the FIFO the JTAG UART sends from.                      *)
(*                                                                         *)
(*   flags      the kinds of message that are on, which the program may    *)
(*              change                                                     *)
(*   pc         how far the program is from reset: the timer's interrupt   *)
(*              is enabled after "boot", that of the JTAG UART after "init"*)
(*   fifo       the characters in the FIFO                                 *)
(*   mine       what the program has still to write: the characters left   *)
(*              and whether there was room for one when it last looked     *)
(*   theirs     the same for the interrupt that is being served            *)
(*   stages     what this interrupt has still to do                        *)
(*   sys_clk_count, alarm   ticks since the last sign of life, and to the  *)
(*              next report on the JTAG UART, 0 when its alarm is not set  *)
(*   echo       what alt_log_write is having printed of what is written    *)
(*   disturbed  an interrupt has written since the program found room      *)
(*   lost       who has since written into a full FIFO, which drops it     *)
(*                                                                         *)
(* How a message is formatted is the module Printf's.  An interrupt runs   *)
(* to its end before the program goes on and no other is taken meanwhile.  *)
(***************************************************************************)
EXTENDS Naturals, Sequences

CONSTANTS
    FifoDepth,
    Length,                        \* characters of a message
    ALT_LOG_SYS_CLK_INTERVAL,
    ALT_LOG_JTAG_UART_TICKS,
    ALT_LOG_WRITE_ECHO_LEN,
    Levels,                        \* settings of ALT_LOG_FLAGS, from "silent", "default", 1..3
    Changing,                      \* the kinds the program turns on and off
    Texts                          \* what the program writes: characters, EOT and NUL

\* What the constants must be; the modules that are run assume it.
LogAssumption ==
    /\ FifoDepth \in Nat \ {0} /\ Length \in Nat \ {0}
    /\ ALT_LOG_SYS_CLK_INTERVAL \in Nat /\ ALT_LOG_JTAG_UART_TICKS \in Nat \ {0}
    /\ ALT_LOG_WRITE_ECHO_LEN \in Nat
    /\ Levels \subseteq {"silent", "default", "1", "2", "3"}
    /\ Changing \subseteq {"boot", "sys_clk", "write", "uart_alarm", "startup", "uart_isr"}
    /\ \A text \in Texts : Len(text) \in Nat

VARIABLES flags, pc, fifo, mine, theirs, stages, sys_clk_count, alarm, echo, disturbed, lost

vars == <<flags, pc, fifo, mine, theirs, stages, sys_clk_count, alarm, echo, disturbed, lost>>

Kinds == {"boot", "sys_clk", "write", "uart_alarm", "startup", "uart_isr"}

\* The flags that a level of logging turns on.
Setting(level) ==
    CASE level = "silent"  -> {}
      [] level = "default" -> {"boot"}
      [] level = "1"       -> {"boot", "sys_clk", "startup"}
      [] level = "2"       -> {"boot", "sys_clk", "startup", "write", "uart_alarm"}
      [] level = "3"       -> Kinds

Nothing == [left |-> 0, room |-> FALSE]
Message == [left |-> Length, room |-> FALSE]
Writers == {"program", "interrupt"}

TypeOK ==
    /\ flags \subseteq Kinds
    /\ pc \in {"boot", "init", "run"}
    /\ fifo \in 0 .. FifoDepth
    /\ {mine, theirs} \subseteq [left : 0 .. Length, room : BOOLEAN]
    /\ sys_clk_count \in 0 .. ALT_LOG_SYS_CLK_INTERVAL
    /\ alarm \in 0 .. ALT_LOG_JTAG_UART_TICKS
    /\ disturbed \in BOOLEAN
    /\ lost \subseteq Writers

Init ==
    /\ \E level \in Levels : flags = Setting(level)
    /\ pc = "boot" /\ fifo = 0
    /\ mine = Nothing /\ theirs = Nothing /\ stages = <<>>
    /\ sys_clk_count = 0 /\ alarm = 0
    /\ echo = <<>> /\ disturbed = FALSE /\ lost = {}

-----------------------------------------------------------------------------
(* alt_log_txchar                                                          *)

\* The control register shows room in the FIFO.
Polls(m) == m.left > 0 /\ ~m.room /\ fifo < FifoDepth

Ready(m) == [m EXCEPT !.room = TRUE]

\* Without the wait for room.
Writes_Unpolled(m, who) ==
    /\ m.left > 0
    /\ fifo' = IF fifo < FifoDepth THEN fifo + 1 ELSE fifo
    /\ lost' = IF fifo < FifoDepth THEN lost ELSE lost \cup {who}

\* The character is written, whether or not there is room still.
Writes(m, who) ==
    /\ m.left > 0 /\ m.room
    /\ fifo' = IF fifo < FifoDepth THEN fifo + 1 ELSE fifo
    /\ lost' = IF fifo < FifoDepth THEN lost ELSE lost \cup {who}

Written(m) == [left |-> m.left - 1, room |-> FALSE]

-----------------------------------------------------------------------------
(* The program                                                             *)

Idle    == mine.left = 0
Serving == stages # <<>> \/ theirs.left > 0

\* ALT_LOG_PRINT_BOOT, until main is called.
Boot ==
    /\ pc # "run" /\ Idle /\ ~Serving
    /\ "boot" \in flags
    /\ mine' = Message
    /\ UNCHANGED <<flags, pc, fifo, theirs, stages, sys_clk_count, alarm, echo, disturbed, lost>>

StartTimer ==
    /\ pc = "boot" /\ Idle
    /\ pc' = "init"
    /\ UNCHANGED <<flags, fifo, mine, theirs, stages, sys_clk_count, alarm, echo, disturbed, lost>>

\* ALT_LOG_JTAG_UART_ALARM_REGISTER, when the driver is initialised.
Register ==
    /\ pc = "init" /\ Idle /\ ~Serving
    /\ pc' = "run"
    /\ alarm' = IF "uart_alarm" \in flags THEN ALT_LOG_JTAG_UART_TICKS ELSE 0
    /\ mine' = IF "startup" \in flags THEN Message ELSE Nothing
    /\ UNCHANGED <<flags, fifo, theirs, stages, sys_clk_count, echo, disturbed, lost>>

\* strncpy: nothing is copied after the end of a string.
Copied(text, len) ==
    [i \in 1 .. len |->
        IF \E j \in 1 .. i : text[j] = "NUL" THEN "NUL" ELSE text[i]]

\* The end of the line comes after what was copied.
Escaped_Appended(text, len) ==
    [i \in 1 .. len + 2 |->
        CASE i = len + 1 -> "LF"
          [] i = len + 2 -> "CR"
          [] OTHER       -> IF Copied(text, len)[i] = "EOT" THEN "D"
                                                             ELSE Copied(text, len)[i]]

\* The last character copied gives way to the end of the line, and what would end the
\* connection of a terminal to a letter.
Escaped(text, len) ==
    [i \in 1 .. len + 1 |->
        CASE i = len     -> "LF"
          [] i = len + 1 -> "CR"
          [] OTHER       -> IF Copied(text, len)[i] = "EOT" THEN "D"
                                                             ELSE Copied(text, len)[i]]

alt_log_write(text) ==
    LET len == IF ALT_LOG_WRITE_ECHO_LEN > Len(text) THEN Len(text)
                                                     ELSE ALT_LOG_WRITE_ECHO_LEN
    IN  IF "write" \in flags /\ len >= 2
        THEN mine' = Message /\ echo' = Escaped(text, len)
        ELSE UNCHANGED <<mine, echo>>

\* alt_write echoes what it is about to write.
Write(text) ==
    /\ pc = "run" /\ Idle /\ ~Serving
    /\ alt_log_write(text)
    /\ UNCHANGED <<flags, pc, fifo, theirs, stages, sys_clk_count, alarm, disturbed, lost>>

\* The program turns a kind of message on or off.
SetFlag(kind) ==
    /\ pc = "run" /\ Idle /\ ~Serving
    /\ flags' = IF kind \in flags THEN flags \ {kind} ELSE flags \cup {kind}
    /\ UNCHANGED <<pc, fifo, mine, theirs, stages, sys_clk_count, alarm, echo, disturbed, lost>>

ProgramPolls ==
    /\ ~Serving /\ Polls(mine)
    /\ mine' = Ready(mine) /\ disturbed' = FALSE /\ lost' = {}
    /\ UNCHANGED <<flags, pc, fifo, theirs, stages, sys_clk_count, alarm, echo>>

ProgramWrites ==
    /\ ~Serving /\ Writes(mine, "program")
    /\ mine' = Written(mine)
    /\ echo' = IF Written(mine).left = 0 THEN <<>> ELSE echo
    /\ UNCHANGED <<flags, pc, theirs, stages, sys_clk_count, alarm, disturbed>>

-----------------------------------------------------------------------------
(* Interrupts                                                              *)

\* The timer's gives its sign of life and then has alt_tick call the alarms.
TimerInterrupt ==
    /\ pc # "boot" /\ ~Serving
    /\ stages' = <<"heartbeat", "tick">>
    /\ UNCHANGED <<flags, pc, fifo, mine, theirs, sys_clk_count, alarm, echo, disturbed, lost>>

UartInterrupt ==
    /\ pc = "run" /\ ~Serving
    /\ stages' = <<"uart">>
    /\ UNCHANGED <<flags, pc, fifo, mine, theirs, sys_clk_count, alarm, echo, disturbed, lost>>

\* The next stage begins, with a message or without one.
Begins(stage, speaks) ==
    /\ stages # <<>> /\ Head(stages) = stage /\ theirs.left = 0
    /\ stages' = Tail(stages)
    /\ theirs' = IF speaks THEN Message ELSE Nothing
    /\ UNCHANGED <<flags, pc, fifo, mine, echo, disturbed, lost>>

alt_log_system_clock ==
    LET due == sys_clk_count + 1 > ALT_LOG_SYS_CLK_INTERVAL
    IN  /\ Begins("heartbeat", "sys_clk" \in flags /\ due)
        /\ sys_clk_count' = IF "sys_clk" \notin flags THEN sys_clk_count
                            ELSE IF due THEN 0 ELSE sys_clk_count + 1
        /\ UNCHANGED alarm

\* An alarm that finds its flag off is never called again.
altera_avalon_jtag_uart_report_log ==
    /\ Begins("tick", alarm = 1 /\ "uart_alarm" \in flags)
    /\ alarm' = CASE alarm > 1 -> alarm - 1
                  [] alarm = 1 /\ "uart_alarm" \in flags -> ALT_LOG_JTAG_UART_TICKS
                  [] OTHER -> 0
    /\ UNCHANGED sys_clk_count

alt_log_jtag_uart_isr_proc ==
    /\ Begins("uart", "uart_isr" \in flags)
    /\ UNCHANGED <<sys_clk_count, alarm>>

InterruptPolls ==
    /\ Polls(theirs)
    /\ theirs' = Ready(theirs)
    /\ UNCHANGED <<flags, pc, fifo, mine, stages, sys_clk_count, alarm, echo, disturbed, lost>>

InterruptWrites ==
    /\ Writes(theirs, "interrupt")
    /\ theirs' = Written(theirs) /\ disturbed' = TRUE
    /\ UNCHANGED <<flags, pc, mine, stages, sys_clk_count, alarm, echo>>

\* The host takes a character.
HostTakes ==
    /\ fifo > 0
    /\ fifo' = fifo - 1
    /\ UNCHANGED <<flags, pc, mine, theirs, stages, sys_clk_count, alarm, echo, disturbed, lost>>

Next ==
    \/ Boot \/ StartTimer \/ Register
    \/ (\E text \in Texts : Write(text)) \/ (\E kind \in Changing : SetFlag(kind))
    \/ ProgramPolls \/ ProgramWrites
    \/ TimerInterrupt \/ UartInterrupt
    \/ alt_log_system_clock \/ altera_avalon_jtag_uart_report_log \/ alt_log_jtag_uart_isr_proc
    \/ InterruptPolls \/ InterruptWrites \/ HostTakes

Spec == Init /\ [][Next]_vars

Continue == ProgramPolls \/ ProgramWrites \/ alt_log_system_clock
            \/ altera_avalon_jtag_uart_report_log \/ alt_log_jtag_uart_isr_proc
            \/ InterruptPolls \/ InterruptWrites

\* The processor goes on, and a host takes what is in the FIFO.
FairSpec == Spec /\ WF_vars(Continue) /\ WF_vars(HostTakes)

-----------------------------------------------------------------------------
(* Properties                                                              *)

\* An interrupt never loses a character, and the program only one for which it had
\* found room before an interrupt wrote (alt_log_printf.c:98-101): with the messages
\* of the interrupts off, the log is complete.
LossesExplained == lost # {} => lost = {"program"} /\ disturbed

\* The echo fits its buffer, ends the line, and has nothing in it that ends the
\* connection of a terminal (alt_log_printf.c:448-459).
EchoSafe ==
    echo # <<>> =>
        /\ Len(echo) <= ALT_LOG_WRITE_ECHO_LEN + 1
        /\ echo[Len(echo) - 1] = "LF" /\ echo[Len(echo)] = "CR"
        /\ \A i \in DOMAIN echo : echo[i] # "EOT"

\* The log at any time.
LogSound == TypeOK /\ LossesExplained /\ EchoSafe

\* An interrupt that logs ends as long as a host takes the characters
\* (alt_log_printf.c:98).
InterruptEnds == Serving ~> ~Serving
==============================================================================
