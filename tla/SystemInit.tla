------------------------------ MODULE SystemInit ------------------------------
(***************************************************************************)
(* The devices brought into use (alt_sys_init.c and the macros and         *)
(* routines it calls), on the bus that SystemMap describes, while the      *)
(* interrupts that are already on arrive; then the program at work.        *)
(*                                                                         *)
(*   small      the driver of the JTAG UART is the polled one              *)
(*   todo       the steps of the start that are to come                    *)
(*   PIE, ienable, isr   whether the processor takes interrupts, which     *)
(*              lines are on, and the driver each line's handler is of     *)
(*   tick_rate  _alt_tick_rate, 0 without a system clock                   *)
(*   alarm      the alarm that watches the host: "none", "on", or "failed" *)
(*   listed     the devices that can be opened                             *)
(*   regions    the sectors of the flash                                   *)
(*   watched    a register, any of them                                    *)
(*   held       what it and those that turn interrupts on hold             *)
(*   meant      history: what they were to hold                            *)
(*   served     the device whose interrupt came last, and the driver that  *)
(*              was called                                                 *)
(*                                                                         *)
(* A register holds one bit: 1 in a control register has interrupts on.    *)
(***************************************************************************)
EXTENDS SystemMap, FiniteSetsExt

VARIABLES small, todo, PIE, ienable, isr, tick_rate, alarm, listed, regions,
          watched, held, meant, served

vars == <<small, todo, PIE, ienable, isr, tick_rate, alarm, listed, regions,
          watched, held, meant, served>>

boot == <<small, todo, PIE, ienable, isr, tick_rate, alarm, listed, regions>>

\* The register that lets a device raise its line.
Control ==
    [TIMER_0 |-> <<"TIMER_0", "control">>, JTAG_UART |-> <<"JTAG_UART", "control">>,
     SAMPLE_STORE_CSR |-> <<"SAMPLE_STORE_CSR", "irq_enable">>]

Raisers == DOMAIN Control
Tracked == {Control[d] : d \in Raisers} \cup {watched}

Lines == {Devices[d].irq : d \in DOMAIN Devices} \ {NotConnected}
None == "none"

TypeOK ==
    /\ small \in BOOLEAN /\ PIE \in BOOLEAN
    /\ ienable \subseteq Lines
    /\ isr \in [Lines -> DOMAIN Devices \cup {None}]
    /\ tick_rate \in {0, TIMER_0.ticks_per_sec}
    /\ alarm \in {None, "on", "failed"}
    /\ listed \subseteq DOMAIN Devices
    /\ watched \in Cells
    /\ held \in [Tracked -> 0 .. 1] /\ meant \in [Tracked -> 0 .. 1]
    /\ served \in [device : Raisers \cup {None}, isr : DOMAIN Devices \cup {None}]

-----------------------------------------------------------------------------
(* The steps of the start, in their order                                  *)

TimerInit == <<"rate", "timer_control", "timer_isr">>

JtagUartInit(is_small) ==
    (IF is_small THEN <<>> ELSE <<"jtag_control", "jtag_isr", "jtag_alarm">>)
    \o <<"jtag_list">>

AdcInit == <<"adc_list", "adc_isr">>

IrqInit == <<"no_lines", "interrupts">>

\* The SPI master and the system identifier need nothing.
Steps_UartFirst(is_small) ==
    IrqInit \o JtagUartInit(is_small) \o TimerInit \o AdcInit \o <<"flash">>

Steps(is_small) ==
    IrqInit \o TimerInit \o JtagUartInit(is_small) \o AdcInit \o <<"flash">>

\* A reset has every register at 0 and the processor's interrupts off; what IENABLE
\* holds is not known.
Init ==
    /\ small \in BOOLEAN /\ todo = Steps(small)
    /\ PIE = FALSE /\ ienable \in {{}, Lines}
    /\ isr = [l \in Lines |-> None]
    /\ tick_rate = 0 /\ alarm = None /\ listed = {} /\ regions = <<>>
    /\ watched \in Cells
    /\ held = [c \in Tracked |-> 0] /\ meant = held
    /\ served = [device |-> None, isr |-> None]

Does(step) == todo # <<>> /\ Head(todo) = step /\ todo' = Tail(todo)

\* A register is written: every one that the address reaches takes the value.
Writes(cell, v) ==
    /\ held' = [c \in Tracked |-> IF Answers(c, Address(cell)) THEN v ELSE held[c]]
    /\ meant' = [c \in Tracked |-> IF c = cell THEN v ELSE meant[c]]
    /\ UNCHANGED watched

Quiet == UNCHANGED <<watched, held, meant, served, small>>

NoLines ==
    /\ Does("no_lines") /\ ienable' = {}
    /\ Quiet /\ UNCHANGED <<PIE, isr, tick_rate, alarm, listed, regions>>

Interrupts ==
    /\ Does("interrupts") /\ PIE' = TRUE
    /\ Quiet /\ UNCHANGED <<ienable, isr, tick_rate, alarm, listed, regions>>

\* Ticks per second, from the period and its unit.
Frequency(d) ==
    LET whole == CASE d.units = "us" -> 1000000
                   [] d.units = "ms" -> 1000
                   [] d.units = "s"  -> 1
                   [] OTHER          -> d.freq
    IN IF d.units = "s" THEN 1 ELSE (whole + d.period - 1) \div d.period

\* The timer is the system clock, and a timestamp timer only if it is not.
SetRate ==
    /\ Does("rate")
    /\ tick_rate' = IF ALT_SYS_CLK = "TIMER_0" THEN Frequency(TIMER_0) ELSE 0
    /\ Quiet /\ UNCHANGED <<PIE, ienable, isr, alarm, listed, regions>>

TurnOn(step, d) ==
    /\ Does(step) /\ Writes(Control[d], 1)
    /\ UNCHANGED <<small, PIE, ienable, isr, tick_rate, alarm, listed, regions, served>>

\* A line gets its handler and is switched on, with interrupts off.
Install(step, d) ==
    /\ Does(step)
    /\ isr' = [isr EXCEPT ![Devices[d].irq] = d]
    /\ ienable' = ienable \cup {Devices[d].irq}
    /\ Quiet /\ UNCHANGED <<PIE, tick_rate, alarm, listed, regions>>

\* Without a system clock there is no alarm.
StartAlarm ==
    /\ Does("jtag_alarm")
    /\ alarm' = IF tick_rate = 0 THEN "failed" ELSE "on"
    /\ Quiet /\ UNCHANGED <<PIE, ienable, isr, tick_rate, listed, regions>>

List(step, d) ==
    /\ Does(step) /\ listed' = listed \cup {d}
    /\ Quiet /\ UNCHANGED <<PIE, ienable, isr, tick_rate, alarm, regions>>

\* A sector that the status register shows as there becomes a region.
FlashInit ==
    /\ Does("flash")
    /\ regions' = [s \in DOMAIN FLASH_DATA.sectors |->
                      LET sector == FLASH_DATA.sectors[s]
                          size   == sector.last - sector.first + 1
                      IN [offset |-> sector.first, region_size |-> size,
                          number_of_blocks |-> size \div FLASH_DATA.page,
                          block_size |-> FLASH_DATA.page]]
    /\ listed' = listed \cup {"FLASH_DATA"}
    /\ Quiet /\ UNCHANGED <<PIE, ienable, isr, tick_rate, alarm>>

-----------------------------------------------------------------------------
(* Interrupts and the program                                              *)

\* The timer's handler acknowledges it; the others leave the registers that turn
\* interrupts on as they are.
Interrupt(d) ==
    /\ held[Control[d]] = 1 /\ PIE /\ Devices[d].irq \in ienable
    /\ LET called == isr[Devices[d].irq] IN
       /\ served' = [device |-> d, isr |-> called]
       /\ IF called = "TIMER_0" THEN Writes(<<"TIMER_0", "status">>, 0)
                                ELSE UNCHANGED <<watched, held, meant>>
    /\ UNCHANGED boot

\* The program writes any register of a driver's but the timer's.
Access(cell, v) ==
    /\ todo = <<>> /\ cell[1] # "TIMER_0"
    /\ Writes(cell, v)
    /\ UNCHANGED <<boot, served>>

Next ==
    \/ NoLines \/ Interrupts
    \/ SetRate \/ TurnOn("timer_control", "TIMER_0") \/ Install("timer_isr", "TIMER_0")
    \/ TurnOn("jtag_control", "JTAG_UART") \/ Install("jtag_isr", "JTAG_UART")
    \/ StartAlarm \/ List("jtag_list", "JTAG_UART")
    \/ List("adc_list", "SEQUENCER_CSR") \/ Install("adc_isr", "SAMPLE_STORE_CSR")
    \/ FlashInit
    \/ \E d \in Raisers : Interrupt(d)
    \/ \E cell \in Cells, v \in 0 .. 1 : Access(cell, v)

Spec == Init /\ [][Next]_vars

-----------------------------------------------------------------------------
(* Properties                                                              *)

\* A register that is written holds what was written to it last, and no access to
\* another register changes it: no two devices answer to one address and none of
\* the drivers' registers lies past its device (system.h, io.h:70-75).
ReachesItsRegister == held = meant

\* An interrupt is served by the driver of the device that raised it, from the first
\* that is taken (alt_sys_init.c:89-108).
OwnHandler == served.device = served.isr

\* When the program starts, the clock ticks as often as the timer times out, the
\* host is watched, and the streams can be opened (alt_sys_init.c:100-108,
\* altera_avalon_timer.h:97-104, altera_avalon_jtag_uart_init.c:89-96).
ReadyForMain ==
    todo = <<>> =>
        /\ TIMER_0.freq \div (TIMER_0.load_value + 1) = tick_rate
        /\ ~small => alarm = "on"
        /\ {Streams[s] : s \in DOMAIN Streams} \subseteq listed

\* The regions of the flash follow one another and are the whole of its memory, in
\* whole blocks (altera_onchip_flash.c:417-465).
FlashCovered ==
    regions # <<>> =>
        /\ regions[1].offset = 0
        /\ \A s \in 1 .. Len(regions) - 1 :
               regions[s + 1].offset = regions[s].offset + regions[s].region_size
        /\ FLASH_DATA.span = regions[Len(regions)].offset + regions[Len(regions)].region_size
        /\ \A s \in DOMAIN regions :
               regions[s].region_size = regions[s].number_of_blocks * regions[s].block_size

\* What the linker places lies in memory, apart, with the reset and the exception
\* code where the processor looks for them (linker.h:68-75).  Every device lies below
\* the bits of an address that stay in the processor, so that the address past the
\* cache names it and no other, and a break goes to none of them (system.h:63-97).
RegionsSound ==
    /\ \A r, q \in DOMAIN Regions : r # q => ~Overlap(Regions[r], Regions[q])
    /\ \A r \in DOMAIN Regions :
           \E m \in {ONCHIP_RAM, SDRAM, FLASH_DATA} : Within(Regions[r], m)
    /\ Regions["reset"].base = CPU.reset_addr
    /\ Regions["ram"].base = CPU.exception_addr
    /\ CPU.bypass_bit >= CPU.addr_width
    /\ \A d \in DOMAIN Devices :
           /\ Devices[d].base + Devices[d].span <= 2 ^ CPU.addr_width
           /\ ~Within([base |-> CPU.break_addr, span |-> 4], Devices[d])
    /\ CPU.dcache_line_size = 2 ^ CPU.dcache_line_size_log2
    /\ CPU.icache_line_size = 2 ^ CPU.icache_line_size_log2

\* All of it holds of the board at any time.
BoardSound ==
    ReachesItsRegister /\ OwnHandler /\ ReadyForMain /\ FlashCovered /\ RegionsSound
===============================================================================
