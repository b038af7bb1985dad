------------------------------ MODULE SystemMap ------------------------------
(***************************************************************************)
(* What the software knows of its board: system.h and linker.h, generated  *)
(* with it, and the register numbers of the drivers' headers.  A device is *)
(* a record of its parameters; a register has a name and, in Registers, a  *)
(* number.  Of the parameters those are kept that the software computes    *)
(* with; names, types and what the hardware alone depends on are left out. *)
(***************************************************************************)
EXTENDS Integers, Sequences

Kib == 1024
NotConnected == -1        \* ALT_IRQ_NOT_CONNECTED

-----------------------------------------------------------------------------
(* The devices                                                             *)

TIMER_0 == [base |-> \h8000000, span |-> 32, irq |-> 0, freq |-> 40000000,
            period |-> 1, units |-> "ms", load_value |-> 39999, counter_size |-> 32,
            snapshot |-> TRUE, ticks_per_sec |-> 1000]

JTAG_UART == [base |-> \h8000048, span |-> 8, irq |-> 1, read_depth |-> 64,
              write_depth |-> 64]

LED_PIO == [base |-> \h8000030, span |-> 16, irq |-> NotConnected, width |-> 10,
            bit_modifying |-> FALSE]

SLIDE_PIO == [base |-> \h8000020, span |-> 16, irq |-> 4, width |-> 10,
              bit_modifying |-> FALSE]

SYSID == [base |-> \h8000040, span |-> 8, irq |-> NotConnected]

SPI_0 == [base |-> \h9409200, span |-> 32, irq |-> 3, databits |-> 8]

SAMPLE_STORE_CSR == [base |-> \h9409000, span |-> 512, irq |-> 2, dual |-> FALSE]

SEQUENCER_CSR == [base |-> \h9409240, span |-> 8, irq |-> NotConnected, dual |-> FALSE]

ALTPLL_0 == [base |-> \h9409220, span |-> 16, irq |-> NotConnected]
ALTPLL_1 == [base |-> \h9409230, span |-> 16, irq |-> NotConnected]

FLASH_CSR == [base |-> \h9409248, span |-> 8, irq |-> NotConnected]

FLASH_DATA ==
    [base |-> \h9200000, span |-> 1408 * Kib, irq |-> NotConnected, page |-> 8 * Kib,
     sectors |-> << [first |-> 0,       last |-> \h7fff],
                    [first |-> \h8000,  last |-> \hffff],
                    [first |-> \h10000, last |-> \h6ffff],
                    [first |-> \h70000, last |-> \hb7fff],
                    [first |-> \hb8000, last |-> \h15ffff] >>]

ONCHIP_RAM == [base |-> \h9404000, span |-> 16 * Kib, irq |-> NotConnected]

SDRAM == [base |-> \h4000000, span |-> 64 * Kib * Kib, irq |-> NotConnected]

Devices ==
    [TIMER_0 |-> TIMER_0, JTAG_UART |-> JTAG_UART, LED_PIO |-> LED_PIO,
     SLIDE_PIO |-> SLIDE_PIO, SYSID |-> SYSID, SPI_0 |-> SPI_0,
     SAMPLE_STORE_CSR |-> SAMPLE_STORE_CSR, SEQUENCER_CSR |-> SEQUENCER_CSR,
     ALTPLL_0 |-> ALTPLL_0, ALTPLL_1 |-> ALTPLL_1, FLASH_CSR |-> FLASH_CSR,
     FLASH_DATA |-> FLASH_DATA, ONCHIP_RAM |-> ONCHIP_RAM, SDRAM |-> SDRAM]

\* The device of each of the three standard streams, and of the two clocks.
Streams == [stdin |-> "JTAG_UART", stdout |-> "JTAG_UART", stderr |-> "JTAG_UART"]
ALT_SYS_CLK == "TIMER_0"
ALT_TIMESTAMP_CLK == "TIMER_0"

\* What the linker puts where: the code at reset, the exceptions and the rest.
Regions ==
    [reset     |-> [base |-> \h9404000, span |-> 32],
     ram       |-> [base |-> \h9404020, span |-> 16 * Kib - 32],
     flash     |-> [base |-> \h9200000, span |-> 1408 * Kib],
     sdram     |-> [base |-> \h4000000, span |-> 64 * Kib * Kib]]

\* The processor: where it goes on a reset, an exception and a break, the bits of an
\* address that reach the bus, the bit that passes the cache by, and the caches.
CPU ==
    [freq |-> 80000000, reset_addr |-> \h9404000, exception_addr |-> \h9404020,
     break_addr |-> \h9408820, addr_width |-> 28, bypass_bit |-> 31,
     dcache_line_size |-> 32, dcache_line_size_log2 |-> 5, dcache_size |-> 2048,
     icache_line_size |-> 32, icache_line_size_log2 |-> 5, icache_size |-> 2048]

-----------------------------------------------------------------------------
(* The registers that the drivers use                                      *)

TimerRegs ==
    [status |-> 0, control |-> 1, periodl |-> 2, periodh |-> 3, snapl |-> 4, snaph |-> 5]

\* Those of a timer with a counter of 64 bits.
WideTimerRegs ==
    [status |-> 0, control |-> 1, period_0 |-> 2, period_1 |-> 3, period_2 |-> 4,
     period_3 |-> 5, snap_0 |-> 6, snap_1 |-> 7, snap_2 |-> 8, snap_3 |-> 9]

JtagUartRegs == [data |-> 0, control |-> 1]

PioRegs == [data |-> 0, direction |-> 1, irq_mask |-> 2, edge_cap |-> 3]

\* Those of a PIO whose output can be changed bit by bit.
BitPioRegs ==
    [data |-> 0, direction |-> 1, irq_mask |-> 2, edge_cap |-> 3, set_bits |-> 4,
     clear_bits |-> 5]

SysidRegs == [id |-> 0, timestamp |-> 1]

SpiRegs == [rxdata |-> 0, txdata |-> 1, status |-> 2, control |-> 3, slave_sel |-> 5]

SampleStoreRegs == [storage |-> 0, irq_enable |-> \h40, irq_status |-> \h41]

SequencerRegs == [cmd |-> 0]

FlashRegs == [status |-> 0, control |-> 1]

PioRegisters(d) == IF d.bit_modifying THEN BitPioRegs ELSE PioRegs

Registers ==
    [TIMER_0 |-> IF TIMER_0.counter_size = 64 THEN WideTimerRegs ELSE TimerRegs,
     JTAG_UART |-> JtagUartRegs,
     LED_PIO |-> PioRegisters(LED_PIO), SLIDE_PIO |-> PioRegisters(SLIDE_PIO),
     SYSID |-> SysidRegs, SPI_0 |-> SpiRegs, SAMPLE_STORE_CSR |-> SampleStoreRegs,
     SEQUENCER_CSR |-> SequencerRegs, FLASH_CSR |-> FlashRegs]

Cells == UNION {{<<d, r>> : r \in DOMAIN Registers[d]} : d \in DOMAIN Registers}

-----------------------------------------------------------------------------
(* The bus                                                                 *)

SYSTEM_BUS_WIDTH == 32

\* The address of a register: IORD and IOWR count in words of the bus.
Native_InBytes(base, regnum) == base + regnum
Native(base, regnum) == base + regnum * (SYSTEM_BUS_WIDTH \div 8)

Address(cell) == Native(Devices[cell[1]].base, Registers[cell[1]][cell[2]])

\* The registers that answer to an address, external: the interconnect compares it
\* with the ranges in system.h, and the device counts the words from its base.
Answers(cell, address) ==
    LET d == Devices[cell[1]] IN
    /\ d.base <= address /\ address < d.base + d.span
    /\ (address - d.base) \div 4 = Registers[cell[1]][cell[2]]

\* A and b share an address.
Overlap(a, b) == a.base < b.base + b.span /\ b.base < a.base + a.span

Within(a, b) == a.base >= b.base /\ a.base + a.span <= b.base + b.span
=============================================================================
