# A verification project for the FPGA capstone designs

The repository holds the projects of an FPGA course for the DE10-Lite board. It
has hand-written firmware and hardware, the hardware abstraction layer (HAL) and
drivers that the firmware is linked with, and a good deal of generated code. This
directory holds TLA+ models of the parts that have behaviour of their own, TLC
configurations that check them, and TLAPS proofs of most of what the runs check.

To repeat a run: `tlc -config MCHal.cfg MCHal.tla` (and likewise for the other
configurations). To repeat the proofs: `tlapm HalProofs.tla`
(and likewise for the other modules whose name ends in `Proofs`). The file
`PROJECT.json` lists the runs, the faults each property is known to find, the source
lines each definition stands for, the hazards and the theorems.

## 1. Inventory

Paths are relative to `src/`. `BSP` stands for
`week4/DE10liteEmbed/software/Embed_System_bsp`, `APP` for
`week4/DE10liteEmbed/software/Embed_System`, `LITE` for `week1/DE10_LITE_Default`.

| Component | Code | State it keeps | Operations | Talks to |
|---|---|---|---|---|
| System clock and alarms | `BSP/HAL/src/alt_tick.c`, `alt_alarm_start.c`, `BSP/HAL/inc/sys/alt_llist.h`, `alt_alarm.h`, `BSP/drivers/src/altera_avalon_timer_sc.c` | tick rate and counter; a doubly linked list of alarms with a 32-bit time and a rollover flag each | `alt_sysclk_init`, `alt_alarm_start`, `alt_alarm_stop`, `alt_tick` | timer interrupt; callbacks of its clients |
| Firmware alarms and delays | `APP/src/alarm_util.c`, `delay_wait.c`, `error_loop.c` | four counts written by the interrupt; `LAST_DELAY`, `DELAY_MODE` | `alarm_init`, `my_alarm_callback`, `delay_wait`, `set_delay_mode_*` | alarms (calls, callbacks, shared counts) |
| LED control program | `APP/main.c`, `src/led_util.c`, `src/jtag_uart_util.c` | selection, counter and direction, terminal column, LED register | the menu, the three counting loops, printing, `update_led` | delays; JTAG UART; LED PIO |
| JTAG UART driver | `BSP/drivers/src/altera_avalon_jtag_uart_*.c` | two circular buffers with an index on either side, interrupt enables, host-inactive count; none in its small variant | `read`, `write`, `close`, `ioctl`, interrupt, host check | device; alarms |
| File descriptors and devices | `BSP/HAL/src/alt_open.c`, `alt_close.c`, `alt_get_fd.c`, `alt_fd_lock.c`, ... | a table of 32 descriptors with flags, its high-water mark, lists of devices and filesystems | registration, `open`, `close`, `read`, `write`, `ioctl`, `fcntl`, redirection of standard input and output, exit | drivers |
| Interrupt dispatch | `BSP/HAL/src/alt_irq_handler.c`, `alt_irq_register.c`, `BSP/HAL/inc/priv/alt_legacy_irq.h`, `BSP/HAL/inc/sys/alt_irq.h` | table of handlers, enable register, active and priority masks | register, enable, disable, disable all and back, let higher priorities in, dispatch | all drivers |
| Time of day | `BSP/HAL/src/alt_gettod.c`, `alt_settod.c` | the time of the reset, the zone | `gettimeofday`, `settimeofday` | the tick counter |
| Heap | `BSP/HAL/src/alt_sbrk.c` | the end of the heap | `sbrk` | `malloc`; interrupts |
| On-chip flash driver | `BSP/drivers/src/altera_onchip_flash.c` | table of regions, write protection | init, erase, write block, write, read | flash device; the data cache |
| ADC driver | `BSP/drivers/src/altera_modular_adc.c` | a callback with its context, the registered device | start, stop, modes, recalibration, wait, interrupt | sequencer and sample store |
| SPI driver | `BSP/drivers/src/altera_avalon_spi.c` | none between calls | one transaction | SPI master |
| Accelerometer reader | `LITE/v/spi_ee_config.v`, `spi_controller.v` | table index, transfer state, shift register, byte order | configure, poll, read two bytes; shift one word | ADXL345 sensor; its interrupt line |
| LED bar | `LITE/v/led_driver.v` | an interval counter, two registers | map an acceleration to LEDs, show activity | accelerometer reader |
| VGA controller | `LITE/VGA_DATA/` | horizontal and vertical counters, coordinates, address, colours | sync, address, cursor, picture memory | image memory |
| PWM dimmer | `week2/PWM/source/pwm_gen.v`, `debouncer.v`, `pwm_led_top.v` | a shift register per switch, a counter | debounce, compare | two clocks, switches |
| ADC sequencer and display | `week2/ADC/source/adc_sequencer.vhd`, `adc_led7.vhd` | two-state machine, last sample | start the ADC, latch channel 1 | generated ADC core |
| Seven-segment displays, BCD adder, reset delay | `week1/C4M1P2` ... `C4M1P5`, `LITE/v/Reset_Delay.v` | none, or a counter | combinational; count once | each other |
| Board and device set-up | `BSP/system.h`, `linker.h`, `alt_sys_init.c`, the register headers of the drivers | addresses, lines and parameters; which devices are on | the initialisation of every device; a register access | interrupts, drivers |
| Start-up and caches | `BSP/HAL/src/crt0.S`, `alt_load.c`, `alt_main.c`, `alt_dcache_flush*.c`, `alt_icache_flush*.c`, `alt_uncached_malloc.c` | memory, the two caches | reset, loading of sections, flushes, uncached blocks | the C library's `malloc` |
| Exceptions | `BSP/HAL/src/alt_exception_entry.S`, `alt_irq_entry.S`, `alt_instruction_exception_entry.c`, `_register.c` | the saved registers, a handler | in, test, handle, skip or repeat, out | interrupt dispatch |
| Formatted output | `BSP/HAL/src/alt_printf.c`, `alt_log_printf.c`, `alt_putcharbuf.c` | the state of a parser, a line buffer | two printfs | UART, C library |
| Logging | `BSP/HAL/src/alt_log_printf.c`, `BSP/HAL/inc/sys/alt_log_printf.h` | flags, two counters | messages of boot, of `write` and of two interrupts | the UART's FIFO, past its driver |
| Profiler | `BSP/HAL/src/alt_mcount.S`, `alt_gmon.c` | lists of functions and arcs with counts, a histogram | `mcount`, the sampler | `sbrk`, alarms |
| Timestamp, busy wait | `BSP/drivers/src/altera_avalon_timer_ts.c`, `BSP/HAL/src/alt_busy_sleep.c` | a 32-bit timer read in halves | start, read; sleep | a timer |
| DMA channels, instruction emulation, constructors | `BSP/HAL/src/alt_dma_*.c`, `alt_exception_muldiv.S`, `alt_do_ctors.c` | | | |
| Generated IP, simulation models | `*/synthesis`, `*/submodules`, `simulation/` | | | |

### What is hard

* **The interrupt and the program share memory without locks.** The counts of the
  alarms are incremented by the timer interrupt between any two instructions of
  `delay_wait`; the buffers of the JTAG UART driver are filled and drained while
  `read` and `write` compute on their indices; a handler may be called between the two
  stores that register it, and a callback of the ADC between the three that put it in, take
  it out or replace it. A callback is also free to start and stop alarms while `alt_tick` walks their list, and
  `sbrk` may be called from an interrupt in the middle of a `sbrk` of the program.
* **Everything wraps.** The tick counter and the alarm times are modulo 2^32, with a
  flag to tell the two sides of the wrap apart; alarm counts are compared for
  inequality only; `binary_count` has eight bits and counts in steps of three; the
  clock multiplies ticks in 32 bits in one place and in 64 in another.
* **Waiting loops.** `delay_wait`, the blocking reads and writes, the polls of the
  flash, of the ADC and of the SPI master end only when somebody else acts; a lost
  wake-up is a hang.
* **Memory has two faces.** The caches come up with anything in them; a section that is
  loaded, a block that is used past the cache and the code of the exceptions must be the
  same from either side. The flash is read through the data cache, but erased and
  programmed past it.
* **Half-done work.** An `open` that fails after it has taken a descriptor; a write to
  the flash that fails, or is given up, in the middle of a buffer.
* **Hardware timing.** The accelerometer reader takes bytes out of a shift register
  one clock after a transfer ends and reads two bytes in two transfers while the
  sensor goes on measuring; the interrupt line and the switches are asynchronous. The
  display corrects for the seven registers between its counters and the screen by
  constants in four places.

What must hold, per component:

* alarms: a callback comes at its tick, not before and not after, whatever the wrap;
  the list stays a list; a walk visits what it should;
* delays: no callback is missed, a backlog does not make the program run ahead, and a
  delay ends;
* LED control: the counter never wraps, the display goes through the selected
  sequence, input stays in step, a selection is carried through;
* JTAG UART: no character is lost, doubled or reordered, no wake-up is lost, calls end;
* descriptors: none leaks or is given out twice, a lock keeps others out, a descriptor
  is used as it was opened;
* interrupts: a handler is found whole, by priority, and what was off comes on again;
* clock and heap: the time that was set is the time that is told; blocks do not overlap;
* flash: what a call says it has done is done, and nothing else is changed; no byte that was
  written is left in the cache as it was before;
* ADC and SPI: an interrupt finds a whole callback wherever the driver can see to that, a
  recalibration takes place, a transaction has its own bytes;
* set-up: an access reaches its register, an interrupt its own driver, and `main` finds
  the clock, the console and the flash; exceptions cost no instruction;
* caches: what was stored last is what is read, on either side;
* output: a number that is printed reads back; the log loses no more than it must; every
  call is counted; a timestamp is of a moment in the call, a delay is not too short;
* accelerometer: configured before read, whole frames, whole bytes, no measurement read
  that was not announced;
* dimmer, bar, display: steady brightness, a position that follows the acceleration,
  every pixel at its place.

`PROJECT.json` lists the hazards one by one, at their lines, with the properties that
watch them. Section 5 has some more that no property watches.

## 2. Modules

```
AlarmSchedule          what alarms promise: a countdown per alarm
   ^  implemented by        ^ implemented by
HalAlarm                AlarmList            (times and flags; list and loop)
   ^ used by
DelayWait               the firmware's delays, against the interrupt
   ^ used by
LedControl  --implements-->  Display         (what an onlooker sees)

IrqDispatch   TimeOfDay   Heap   FileTable   Exceptions   Profiler      the rest of
Timestamp   BusySleep   Printf   AltLog                                 the HAL
Caches  <--  Startup, UncachedMemory         memory from the reset on
SystemMap  <--  SystemInit                   the board and its devices
JtagUart   PolledUart   OnchipFlash   ModularAdc   SpiCommand      drivers
GSensorSpi   PwmLed   VgaDisplay   LedBar             hardware

MCHal  MCFirmware  MCIo  MCDrivers  MCBoard      the parts side by side, for TLC
MCFlash                 the flash alone, with two lines of the cache to a page
HalProofs, IrqProofs     LedControlProofs        proofs: about the MC module above,
IoProofs, LayerProofs, JtagUartProofs            and about the components that need
DriversProofs            BoardProofs             more than a few lemmas
```

In every module a definition with an underscore in its name (`Add_NoWrap`) is a
faulty variant of the definition below it. The specification never uses it; it is
there to show that a property of the module fails when the code has that fault.

Most components do not share a step with each other. The MC modules therefore hold
several side by side: a variable (`part`, `caller`, `layer` or `board`) says which
one a behaviour is about, is chosen in the initial state and stays, and the others keep
one of their initial states. The states explored are the sum, not the product, of
those of the components. A property of the sum says `part = "..." => ...` of one
component, or is that component's own. Sizes, sets and widths are constants of the MC
modules too, given in the `.cfg`, so that the theorems of section 4 hold for all of them.

### AlarmSchedule, HalAlarm

`HalAlarm` has the variables of the code: `tick_rate`, `nticks`, and for each alarm
its `time` and `rollover`. `Start` is `alt_alarm_start`, `Stop` `alt_alarm_stop`,
`SysClkInit` `alt_sysclk_init`, and `TimerInterrupt` the handler of the timer with
the whole of `alt_tick` in it. The code runs each of them with interrupts disabled,
so each is one action. The list is a set here, because the loop treats entries alike.
`Wrap` stands for 2^32. A program that starts an alarm twice corrupts the list; no
caller in the repository does, and `Start` has that as its guard.

`AlarmSchedule` knows nothing of wraps: an alarm is off or has a number of ticks left.
`Left` reads that number from the counter, the time and the flag, and
`ImplementsSchedule` says that the code is the countdown.

### AlarmList

The same code one level down: `next` and `previous` pointers, the stores of
`alt_llist_insert` and `alt_llist_remove`, and `alt_tick` entry by entry (`TickEnter`,
`Visit`, `CallbackReturns`, `TickExit`). A callback may start other alarms and stop its
own (`CallbackStart`, `CallbackStopsItself`) between the moment the loop reads the
successor of an entry and the moment it follows it. The module shows that this is
enough for the cursor to stay on the list and that the walk is still one tick of the
countdown. It excludes a callback that stops *another* alarm: the loop has cached its
successor, and stopping that one would leave the cursor on an entry linked to itself.
Nothing in the repository does that.

### IrqDispatch

The processor runs the topmost of a stack of frames, the program at the bottom. A
call is the list of its stores and control register writes, and a step makes one of
them; an interrupt may be taken between any two while it is enabled. `Register` is
`alt_irq_register`, `Enable` and `Disable` the switches of one interrupt,
`EnterCritical` and `LeaveCritical` the pair that saves and restores the enable bit,
`Interruptible` the macro that lets higher priorities in. Sets of interrupt numbers
stand for the masks. `Careful` says whether handlers that let others in refrain from
switching interrupts; section 5 says what happens when they do not.

### TimeOfDay, Heap

`gettimeofday` and `settimeofday` over a tick counter of 32 bits and seconds without a
bound, with the 32-bit product of one and the 64-bit product of the other. `wall` and
`exact` are history variables: what the clock should say, and whether the precondition of
`ClockAccurate`, that the product did not overflow, held when it was set.

`Heap` is `alt_sbrk` step by step, called by the program and by an interrupt, which
comes between any two steps while interrupts are on and runs to its end before the
program goes on. `blocks` remembers what was handed out and to whom; empty blocks,
which cannot overlap anything, are left out of it.

### FileTable

Registration of devices and filesystems, the redirection of standard input, output
and error, then any call on any descriptor or `kill`, then exit, by `main` returning or
by a signal, which leaves standard output open. A call is one action: the HAL is
single-threaded and no interrupt touches the table. A driver answers "done" or "failed"
as it likes, and has the callbacks its device structure has. Flags are a set: the bits
of the caller, `ALT_FD_EXCL`, `ALT_FD_DEV`. Names are sequences of path components. A
descriptor's `priv` field belongs to drivers and is left out.

### DelayWait

`alarm_init`, `my_alarm_callback`, `delay_wait` and the mode setters over an instance
of `HalAlarm`. The program is cut at its loads of `alarm_count`; `Tick` may come
between any two steps. `SetMode` and `SetModeCount` are the two stores of a setter.
`age` is a history variable: ticks since certain loads, up to `MaxAge`.

### LedControl, Display

`main` statement by statement, over an instance of `DelayWait`. `rx` holds the
characters typed and not yet read; the terminal sends whole lines. The text that is
printed is left out, but not the count that breaks its lines. `MaxCount` stands for
255. `Display` says what the eight LEDs show: the sequence of the selection from its
first number to its last, each number next to the one before.

### JtagUart, PolledUart

The interrupt-driven driver. `Irq` is one pass of the interrupt's loop; since the
processor does nothing else meanwhile, what the device does during a pass it might as
well have done before or after. `RxLoad`, `RxCopy` and `RxStore` are the load of the
indices, the `memcpy` and the store of `rx_out`; `RxSpin` and `RxCheck` the two
looks at `rx_in` that end a wait; `TxLoad` ... `TxCheck` the same for `write`.
Characters are numbered by their place in the stream, so that a lost, doubled or stale
one shows.

The firmware of week 4 is built with `ALT_USE_SMALL_DRIVERS`, which selects the
polled variant, `PolledUart`: `read` and `write` poll the device, a register per turn
of the loop, and keep no state. The interrupt-driven variant is the one other programs
on this BSP would get. Its `host_inactive` is not declared volatile; the compiler may
not move its load out of the waiting loops in practice because it sits behind a
volatile load and a condition, and the model loads it in every turn.

### OnchipFlash

`alt_onchip_flash_init`, `get_info`, `read`, `write`, `erase_block` and `write_block` step by step:
the checks of the arguments, the polls for an idle flash, the command, the polls for
its end, the look at the pass bit, and the loop of a write over sectors and blocks
with words cut at both ends. The flash is external: an erase sets every byte of a page, a word
that is programmed only loses bits, an operation takes any time and may fail, a read is held until it
has ended, commands on a protected sector are refused, and the pass bit is down while
an operation runs. A poll whose condition does not hold may end in a timeout or go on.

The flash lies where the processor caches what it loads (`system.h:522` against the bypass
bit of line 72). `copy` is what the data cache holds of it: a `read`, and the `memcmp` of a write up to
the first difference, are answered from there and fill whole lines (`Seen`, `Fill`); an erase and the
words that are programmed go to the flash past it; a line may be dropped at any time
(`Evict`); and a write that is over, however it ended, flushes the bytes it was asked for line by line
(`Flushed`, as `alt_dcache_flush` steps through them). `erase_block` and `write_block` flush nothing, and the
flushes of `alt_flash.h` around them are commented out. The comparison of a block is one step: a line
dropped in the middle of it matters only if it was stale, and so only to a write that the
promise below excuses.

### ModularAdc, SpiCommand

The calls of the ADC driver as lists of their stores and register accesses; between
two of them the sequencer, external, may end a sequence and the interrupt may come. As
the macros use them, RUN reads one until the last sequence has ended and a mode written
meanwhile has no effect. The calls have no precondition: a callback may be registered
over another, and interrupts enabled before any callback is. `live` remembers whether a call
began with interrupts on, and `HalfStored` is the stretch between the stores of a registration
that did: there an interrupt may call the new callback with the context of the one before.
`Storm` is what enabling interrupts too early leads to: the interrupt routine clears the
status at address 0, the request stays, and the program does not come to run again.

One transaction of the SPI master against a master that shifts on while the program
looks at the status it has read: `credits` is the driver's account of the bytes that
may be on their way.

### GSensorSpi

One action, `Clock`, is one edge of `iSPI_CLK`: every register of the two Verilog
modules loads a function of the old values. Words and bits are kept as what they stand
for (`Write(k)`, `Read(register)`, a bit of a register with its place and value). The
sensor is external: it stores entries, answers reads, sets DATA_READY with a new
measurement and clears it when one is read. `IntSamples` says what two groups of
registers may see of the asynchronous interrupt line at one edge. No reset assigns `read_ready`, so
it comes up with either value: `leftover` says that it still has it, `reported` what the sensor
has announced, which is nothing at first. The reset comes once, from a counter that starts at
power-up (`DE10_LITE_Small.v:78-79`, 95); the keys do not reach the reader.

### PwmLed, VgaDisplay, LedBar

`PwmLed`: `SlowClock` is an edge of the debouncers' clock, `PwmClock` one of the
generator's, `Move` a bounce of a switch; they interleave freely. `Init` leaves the
shift registers and outputs undefined, as the code does.

`VgaDisplay`: one edge of the pixel clock. The picture memory of `Img_RAM.v` has a
register for the address and one for the byte. A colour is the address of the pixel it
was read from, so that a pixel at the wrong place shows. Registers without a reset
start as `Unknown`.

`LedBar`: an edge of the clock, and between edges a new acceleration or an edge of the
interrupt line. The magnitude is found as in the code, including its line for a
magnitude of eight that is never reached: `3'h8` is zero in three bits, and the
synthesis report names the truncated literal.

### SystemMap, SystemInit

`SystemMap` is what `system.h` and `linker.h` tell the software of its board, and the
register numbers of the drivers' headers; it has no state. In `SystemInit` the steps of
`alt_irq_init` and `alt_sys_init` run in their order, while the devices that are
already on interrupt. A write reaches every register that its address selects (`Answers`,
the external interconnect). One register, any of them, is `watched`; it and the ones that turn
interrupts on are held as one bit. Both variants of the UART driver are initialised.

### Caches, Startup, UncachedMemory

`Caches` has a machine with memory, a write-back data cache and an instruction cache,
both external and direct mapped as this processor's are, and the HAL's flushes as functions of
it. `Startup` is `crt0.S`, `alt_load` and `alt_main` with a reset at any point, so that
the memory and the data cache have what the previous program left. `UncachedMemory` has a program
that takes blocks of either kind, stores, loads, flushes and frees, and any one word is
watched.

### Exceptions

`alt_exception` from the entry to `eret`: the test for an interrupt, the dispatcher
(one step; `IrqDispatch` has its inside), the handler a program may register, and the
two ways to go on. Instructions are numbered, some cannot be executed, and a request may be taken
back between the exception and the test.

### Printf, AltLog

`Printf` is `alt_printf` and `alt_log_private_printf` character by character of a
format, with arguments of `Bits` bits; a history keeps what each directive was given
and printed. `AltLog` has the messages of the log as sequences of characters that the program and the
interrupts of the timer and the UART write to one FIFO, each looking for room and then
writing, and the echo of `write`. This system is built without `ALT_LOG_ENABLE`.

### Profiler, Timestamp, BusySleep

`Profiler` is `mcount` with its lists, called by the program and by an interrupt
between any two of its steps. `Timestamp` reads a counter that goes on in two halves,
for a timer that is the system clock and for one that is not. `BusySleep` is the counted
loop with its register, which the assembler statement changes behind the compiler's back.

## 3. Runs

| Run | Instance | Shows |
|---|---|---|
| `hal` | the parts of the HAL, one at a time | see below |
| `hal_longdelay` | `HalAlarm` with the largest delay | violation: finding 1 |
| `hal_settod` | `TimeOfDay` past the overflow of its product | violation: finding 4 |
| `firmware` | `LedControl`, and `DelayWait` under any caller | see below |
| `firmware_firstdelay` | `LedControl` | violation: finding 2 |
| `board` | the hardware, one design at a time | see below |
| `board_pair` | `GSensorSpi` | violation: finding 3 |
| `io` | `JtagUart`, `FileTable`, `Printf`, and what runs below a program | see below |
| `io_lock` | `FileTable` | violation: finding 5 |
| `drivers` | flash, ADC, SPI and both UART drivers, the log | see below |
| `flash_gap` | `OnchipFlash` with a sector missing | violation: finding 6 |
| `flash_stale` | `OnchipFlash` with lines of the cache that are not true | violation: finding 7 |

`hal`
: `RolloverExact`: the flag says on which side of the wrap a callback lies.
  `CallbackOnTime`: callbacks come on their tick, though the code tests `<=`.
  `CallbackComes`: a started alarm is called back unless it is stopped.
  `ImplementsSchedule`: the code is the countdown. `WalkSound`: the list is a list, the
  cursor of `alt_tick` is on it, and a walk visits all that were registered when it
  began and no others. `WalkImplementsSchedule`: the walk is one tick of
  the countdown. `InterruptsSound`: a handler is called with the context it was registered
  with, the dispatcher always finds a request, and interrupts are on again
  exactly when every call that turned them off has put them back. `NestsByPriority`: a
  handler is interrupted only by a higher priority. `NothingStarves`: a walk ends, and the
  highest pending interrupt is served. `ClockAccurate`: the clock tells the time it was
  set to and what has passed since. `BlocksApart`: blocks of the heap lie apart.

`firmware`
: `ProgramSound`: terminal lines are full and the two reads of a selection stay in step
  with the lines typed. `CounterNeverWraps`, `ImplementsDisplay`: the LEDs show the
  selected sequence. `RunCompletes`: a selection is carried through. Under any caller,
  `DelaysPaced`: a callback in the interval always ends the next delay, and of three
  returns the first and last loads are a period apart. `DelayEnds`.

`board`
: `ReaderSound`: the sensor is configured before it is read, only announced
  measurements are read, and the bytes put out are whole and from the register they are said to be
  from. `FramesWhole`: a frame is never cut. `MeasurementFetched`:
  all announced measurements are read in the end. `DimmerSound`: a line of the duty cycle
  holds for the length of its register, and still switches give exactly their brightness
  in every window. `Follows`: they do so in the end whatever the registers powered up
  with. `ShownInPlace`: every place of the screen shows its own pixel or the cursor, and the
  LED bar no position until the sensor has been quiet for the whole interval, then
  the one of the acceleration.

`io`
: `InOrder`: no character is lost, doubled or overtaken, in either direction.
  `InterruptsArmed`: no wake-up is lost. `SpinsForCause`: a call waits only when it must.
  `DescriptorsKept`: no descriptor leaks or is handed out twice, a locked
  device stays with its holder, and a descriptor is used as it was opened.
  `PrintfSound`: a number that is printed reads back as its argument, in its base and
  width, and everything is printed in order. `TimersSound`: a timestamp is of a moment in the call,
  or 0 once the timer is through; a delay is never too short. `ExceptionsSound`: every instruction is
  executed once but the ones a handler skips, and a handler is told of the right one.
  `ProfilerSound`: records lie apart, calls are counted once and the sampler is started
  once, but for two races that the property names. `CachesSound`: what was stored last is read from
  either side; after a flush memory has it; after a reset variables have their initial
  values and interrupts find the exception code. `BoardSound`: a write changes its register and no
  other, an interrupt reaches the driver of its device, `main` finds the clock, the host's
  alarm, the streams and the whole flash, and the linker's regions lie where the
  processor looks.

`drivers`
: `KeepsPromise`: what a call of the flash driver says it has done is done, and, if it found the
  flash idle, no other byte has changed; a write leaves none of its bytes in the cache; and every
  way out puts the write protection back. A write is held to its promise if, when it was called,
  the flash was idle and the cache showed its bytes as they were: what the write then erases and
  programs behind the cache must not lead it astray. Finding 7 is about the other writes.
  `AdcSound`: an interrupt finds a callback with its own context and the place to clear its
  request, or none, in the middle of any call but a registration that found interrupts
  on; and a recalibration takes place whatever the sequencer was doing. `BytesKept`: a transaction sends and returns its own bytes, however
  the shifting falls between a status and its use, and the polled UART driver keeps the
  characters in order. `LogSound`: an interrupt never loses a character of the log, the
  program only one for which it had seen room before an interrupt wrote; an echo fits its
  buffer. `CallsReturn`: a call of any driver returns,
  one of the ADC unless interrupts were enabled before a callback was registered (`Storm`), those of both UART drivers if the host takes characters or is lost for good, and so does an
  interrupt that logs if the host takes them.

The runs check the type invariants of their modules too, on their own or as a conjunct
of the properties above. The exact statements and the faults that each property is
known to find are in the modules and in `PROJECT.json`.

### Bounds, and why they are enough

* `Wrap`, the number of values of a counter: 6 for `HalAlarm`, 3 for `AlarmList`, 4 for
  `DelayWait`, 2 under `main`. The code compares and adds times with the counter; what
  matters is on which side of the wrap they lie and whether they meet, and every
  distance occurs. For safety the proofs remove the bound.
* Section 4 lists the properties whose bounds here are of no consequence, because
  they are proved for every value, and the few that rest on these bounds alone.
* Three alarms give the walk of `alt_tick` a first, a middle and a last entry.
* Two interrupts, three frames: the program, a handler that let others in, and the one
  that came. `MaxSaved` bounds the depth of critical sections in the program.
* The time of day has six microseconds and three ticks to a second, or no clock, and 16
  values of a counter, so that the 32-bit product overflows.
* The heap has words of four bytes and twelve bytes; increments of 0, 1, 4 and 5 end at
  a word, before it and after it, and the limit is met and exceeded.
* `MaxAge = 5` is beyond the longest period (2) and reaches the point, `Wrap - 1` periods
  of the faster alarm, at which its count is about to come round to the value it had.
  `MaxLag = 2` lets two ticks pass between two loads of the loop.
* `MaxCount = 6` is a multiple of three, as 255 is, and gives each run more than two
  steps; that property of 255 is an assumption of the module (`CountAssumption`),
  because counting by threes ends only for such limits. `LineLength = 4` breaks a run
  of seven numbers in the middle. `MaxTyped = 4` is two lines typed ahead.
* `BUF_LEN = 3` makes every relation of two indices occur, pieces split by the end of
  the buffer included. `Places = 6` exceeds the three characters that may be under
  way, and is not the number of slots. `INT_MAX = 4` leaves one timeout that runs out,
  one that never does, and the value that says there is no alarm. Characters are
  explored as distances from the next one to leave (`View`): the properties compare
  them with one another only.
* `ALT_MAX_FD = 5` leaves two descriptors besides standard input, output and error, so
  that the table fills and the last of it is the highest ever allocated. The devices
  are one with and one without an `open` callback, a filesystem, `/dev/null`, and a
  device and a filesystem without a name.
* The flash has two sectors of one page, and a page two words of two bytes. In `drivers` a page is
  one line of the cache, and four bytes written from byte 1 cover a word in part at either end
  and both sectors; in the runs named after the flash it is two lines, and five bytes are
  written. Lines may also be longer than a page or cut one another, and a write may go over
  many pages: the proof has every size of all of them. The polled UART has a FIFO of two
  characters. Transactions write and read up to two bytes, one more than the master holds.
* The caches have two lines of two words, the memory of `Startup` twelve words with two sections to
  be loaded, one upwards and one downwards, and one in place; a block of two or three words
  shares a line, fills it or is cut by it. The program of `Exceptions` has two instructions.
* `Printf` has words of eight bits with the values on either side of every power of the
  bases, and formats with every letter, a directive that ends early and one that is
  not known. `BusySleep` has all arguments of six bits. A timestamp has two halves of three values.
* `Profiler` has two functions, one caller and three calls: an arc is there, and then
  counted by the program and an interrupt at once; slabs of three records are used up.
* The log has messages of two characters and a FIFO for one, and all five levels.
* `SystemMap` is the board as it is: all devices, all registers, all addresses.
* The accelerometer reader has its whole table of eleven entries and the 16 clocks of
  an SPI frame; only the idle time before a poll is shortened, from 2^14 clocks
  (`IDLE_MSB = 3`). The dimmer has two switches with three samples instead of three with
  eight. The display has a picture of 16 by 3 in a frame of 34 by 6 clocks, with and without a
  cursor: every stage is full and empty at either edge. The LED bar waits eight clocks
  for the sensor to be quiet instead of 2^23, and has 17 of the 1024 accelerations: the
  ends of the range, of the clamp and of positions on either side.

### Fairness, and why the code justifies it

* Ticks keep coming: `alt_avalon_timer_sc_init` starts the timer in continuous mode
  with its interrupt enabled, and nothing stops it.
* A handler is executed to its end and callbacks return.
* The processor carries on with the statement at hand (`Startup`, `Waiting`,
  `SetModeCount`, `Step`, `Continue`, `Continues`). Starting a delay, typing, opening a
  call, switching an interrupt or moving a switch is never forced.
* `HighestServed` asks for strong fairness of the steps that take an interrupt, leave a
  critical section and serve a device: each is enabled now and then as long as critical
  sections end, as the HAL's own do, and then an interrupt that is pending is taken by
  the processor before the next instruction.
* The devices end what they have begun: the flash its operations, the ADC its sequences,
  the SPI master its bytes. The flash need not end them in time.
* `DelayEnds` and `RunCompletes` additionally assume in their statement that the loop
  of `delay_wait` loads the count at least once in `MaxLag` ticks (`LoopIsTimely`).
  Without that the count could come round to its old value between two loads. The
  processor runs at tens of megahertz against ticks of a kilohertz and a count of 2^32.
* `RunCompletes` takes a blocking print to end, which needs a host that drains the
  terminal.
* The cache need never drop a line.
* The program makes its next step although interrupts of the ADC keep coming (strong
  fairness of `Continue`): a sequence takes many cycles, and a request that is cleared comes
  again only when one has ended. Not so in a `Storm`, which is not cleared.
* The PLLs do not stop.

### Findings

1. `alt_alarm_start.c:84-88` says that the rollover flag "will prevent the subsequent
   tick event from causing an alarm too early". With a delay of 2^32-1 ticks the time
   of the alarm equals the counter, the strict comparison at line 89 leaves the flag
   clear, and the next tick calls the alarm back (`hal_longdelay`). Every shorter
   delay is right, and that is proved.
2. `main.c:73` announces "wait for the delay period". `LAST_DELAY` is as old as the last
   delay, so the first delay of a run returns at once when the operator took longer
   than a period to answer the prompt (`firmware_firstdelay`).
3. `spi_ee_config.v:115` calls the reading of a measurement a "multiple-byte read". The
   code makes two transfers, and a measurement completed between them leaves the low
   byte of one and the high byte of another (`board_pair`).
4. `alt_settod.c:61-63` promises that a call of `gettimeofday` right after would return the
   time set. Its product of ticks and microseconds has 32 bits, the one in
   `alt_gettod.c:93` has 64, and 71 minutes after boot they part (`hal_settod`).
5. `alt_fd_lock.c:43` grants the lock if no other descriptor refers to the device. The loop at
   line 61 does not look at the highest descriptor ever allocated (`io_lock`).
6. `alt_flash.h:84` has a write program a buffer. `alt_onchip_flash_write` returns 0 with the rest not
   written when the next byte lies in no region, between two sectors or past the last
   (`flash_gap`).
7. The same lines promise that all affected blocks are erased, if necessary, and programmed.
   Whether it is necessary is asked of the data cache (`altera_onchip_flash.c:351`). A line that was
   loaded before an `erase_block` or a `write_block` still has the old contents; so has one of a
   neighbour's bytes when a write erases the page they share. A write of those old
   contents then finds nothing to do and returns 0 with the flash blank (`flash_stale`).

## 4. Proofs

All proofs hold for every value of the constants that the assumptions named allow. The
MC modules take their constants as parameters, so that a theorem about one of them is
about every size of its parts. Where a run checks a sum of parts, the theorem is about
that sum (`MCSpec`), which is the specification of the run without its fairness: a
lemma says that each step of the sum is a step of the part at hand or leaves it alone.

| Module | About | Theorems |
|---|---|---|
| `HalProofs` | `MCHal` | `TypeCorrect`, `RolloverCorrect`, `CallbacksOnTime`, `CodeImplementsSchedule`; `WalkStaysSound`, `WalkIsATick`; `InterruptsStaySound`, `PrioritiesStayNested`; `BlocksKeptApart`; `ClockStaysAccurate` |
| `IrqProofs` | `IrqDispatch` | what `HalProofs` needs of it: `InterruptsKept`, `PrioritiesNest` |
| `LedControlProofs` | `MCFirmware` | `CounterCorrect`, `LedsImplementDisplay`, `ProgramStaysSound`, `DelaysStayPaced` |
| `JtagUartProofs` | `JtagUart` | `TypeCorrect`, `NoLostWakeup`, `WaitsForCause`, `StreamsInOrder` |
| `IoProofs` | `MCIo` | `TableKept`, `PrintfKept`, `CachesKept`, `ProfilerKept`, `ExceptionsKept`, `TimersKept` |
| `LayerProofs` | `Caches`, `UncachedMemory`, `Startup`, `Profiler`, `Printf`, `Exceptions`, `Timestamp`, `BusySleep` | what `IoProofs` needs of them |
| `DriversProofs` | `MCDrivers` | `BytesStayWhole`, `LogStaysSound`, `AdcStaysSound`, `FlashKeepsPromise` |
| `BoardProofs` | `MCBoard` | `ReaderStaysSound`, `TransfersWhole`, `BoardsShowInPlace`, `DimmerStaysSteady` |

### The HAL

Alarms, for every set of them, every width of the counter and all rates and intervals:
`TypeCorrect`, `RolloverCorrect` (`Spec => []RolloverExact`), `CallbacksOnTime` (`Spec =>
CallbackOnTime`) and `CodeImplementsSchedule` (`Spec => ImplementsSchedule`). Assumptions:
`Wrap > 1`; rates, delays and intervals are 32-bit numbers; and, for the last three,
`ShortDelays`: no delay is 2^32-1, the one value for which finding 1 shows them false.
`TypeOK /\ RolloverExact` is inductive; `RolloverExact` alone is not, because the
modular sums need their operands to be in range. `DueExact` turns the test in the loop,
`time <= nticks` with the flag down, into `time = nticks`; `StartExact` and `TickExact`
compute what the two places that add modulo 2^32 do to one alarm; the refinement adds
`LeftWhenOff`, that an alarm has no ticks left exactly when it is off the list.

The list, for every set of alarms and every width of the counter: `WalkStaysSound` (`MCSpec =>
[]WalkSound`) and `WalkIsATick` (`MCSpec => WalkImplementsSchedule`). Assumptions:
`ListAssumption`, and `ShortListDelays`, which is `ShortDelays` again. `AlarmList` knows which
alarms are on the list only by following pointers, so `Ring` gives the places of the
list their alarms and `Shape` cuts it in two at the place of the loop: the alarms `S` on it and
those of them, `P`, still to come. `ReachableRing` shows that following `next` finds exactly
`S`. `ShapeInsert` and `ShapeRemove` follow the four stores of `alt_llist_insert` and
`alt_llist_remove`: an insertion goes behind the head and so before the place of the loop, and what
is removed is not to come; therefore neither disturbs the successor that `alt_tick` has read, and
this is where the proof fails for a callback that stops another alarm. `Settled` and
`Waiting` say of the alarms the loop has passed that their flags are right for the counter as it
is, and of those to come that they are right for the counter before the tick; `Called` says the same
of the alarm being called back, which is due at this tick exactly. With
`TurnNumbers`, `DelayNumbers` and `PeriodNumbers`, the arithmetic of a turn, a delay and an interval,
the return of `alt_tick` is one tick of the countdown.

Interrupts, for every number of them, of handlers, of contexts saved and of frames:
`InterruptsStaySound` (`MCSpec => []InterruptsSound`) and, where no handler switches
interrupts while it is interruptible (`Careful`; otherwise it is false, section 5),
`PrioritiesStayNested` (`MCSpec => []NestsByPriority`). A call is a list of steps, so the
invariant `IrqInv` says for each list that may be left of one what the call has
established (`CallsSound`). `StackSound` says that whatever is interrupted had interrupts
on, so that only the call on top can be between two stores; `PieSound` ties the
enable bit to the contexts saved; `TableSound` says that handler and context differ, and
that an enabled interrupt has no handler, inside such a call only. For priorities
`MaskInv` adds that the mask is the one the topmost interruptible handler has set and
that each of them keeps the one it found.

Heap, for every word, limit and set of sizes: `BlocksKeptApart` (`MCSpec =>
[]BlocksApart`). The invariant adds that at most one call is under way, with interrupts
off (`OneCall`), that the end of the heap a call has aligned and checked is still the end
(`StepsSound`), and that all blocks lie below it. `AlignedUp` and `AlignedStays` are the
arithmetic of the alignment. Without `DisableAll` the proof fails at `CallKeeps`, where
the one call is lost.

Clock, for every rate that divides a second, length of a second, set of times and width of
the counter: `ClockStaysAccurate` (`MCSpec => []ClockAccurate`). `DayInv` says that as long
as no 32-bit product has overflowed the time of the reset and the ticks make the time it
should be; the rest is the arithmetic of carrying and borrowing a second.

### The firmware

`CounterCorrect` (`Spec => CounterNeverWraps`) and `LedsImplementDisplay` (`Spec =>
ImplementsDisplay`), for every set of keys, every `MaxCount` that is a multiple of three,
and any behaviour of the delays and the operator. Assumption: `CountAssumption`. Neither
property is inductive. The invariant relates the counter and its direction to the
selection (`BeforeRun`, `DuringRun`), says that by threes the counter is at a multiple of
three, and what the LEDs show at each statement of the loop (`Shown`): between the
addition and `update_led` they show the number before. `CountStays` uses it to show that a
step stays in eight bits. For the refinement, `FirstSeen`, `NextSeen` and `EndSeen` are
the three steps that an onlooker sees, and `OthersUnseen` is the rest.

`ProgramStaysSound` (`MCSpec => []ProgramSound`), for every length of a line. `LinesTyped`
says that newlines are at the even places of what is still to be read, and at the odd
ones between the two reads of a selection. `LinesPrinted` says that the count that breaks
lines is the number of prints of this run modulo the length of a line, at each statement.

`DelaysStayPaced` (`MCSpec => []DelaysPaced`), for every set of periodic alarms, under any
caller of the delays and of the setters. `DelayInv` says that an alarm with a period is
always on the list and has as many ticks left as it should (`AlarmsArmed`): at most a
period, or one more before its first callback; and that the count has moved on by one
for each period since a load, which is read from the age of the load and the ticks left
(`CountedSince`, `MovedBefore`). Hence a delay that found a new count has seen a callback
since the load before, and the load before that is a period old. What
`RolloverCorrect` says of the rollover flag holds for these alarms as a part of
`AlarmsArmed`. Assumption: `CallersAssumption`, that a period is no longer than the ages the
history counts to (`FreeAge`) and shorter than the wrap of the counts less one, because
counts are compared for inequality. For the code that is 2^32.

### The JTAG UART driver

For every length of the buffers, depth of the FIFOs, request size and timeout:
`TypeCorrect`, `NoLostWakeup` (`Spec => []InterruptsArmed`), `WaitsForCause` (`Spec =>
[]SpinsForCause`) and `StreamsInOrder` (`Spec => []InOrder`). Assumptions:
`JtagUartAssumption`: a buffer has at least two slots, the FIFOs and requests are
positive, the default timeout fits, and characters have more numbers (`Places`) than can
be under way. What a call in progress knows of itself (`Progress`) rests on each index
having one writer, the program or the interrupt. A read that has moved `rx_out` has a
result, so it comes to the line that enables the interrupt (`RoomIsResult`); a call that
spins has found `in = rx_out`, or no room, with values that only it could have changed
since (`ReadFoundNothing`, `WriteFoundNoRoom`). `InterruptsArmed` alone is not inductive: it
needs the first of these at the store of `rx_out`. `DistanceMoves` is the arithmetic of
the circular buffer; with it `IrqArms` shows that an interrupt which turns itself off has
filled, or emptied, its buffer.

For the order of the characters the invariant says where each one is: `ReceiveStream` that
the characters sent and not read are those of the buffer behind the piece being copied
and then those of the FIFO, each with its number, `SendStream` the same the other way. A
copy leaves this true because its piece lies within what was there, or within what was
free, when the call looked (`ReadPiece`, `WritePiece`), whatever the interrupt has added
or taken since.

### Descriptors, caches, profiler, exceptions, timers

`TableKept` (`MCSpec => DescriptorsKept`), for every set of devices, names and callbacks and
every size of the table. `TableInv` says of each descriptor (`FdSound`) how its entry, the
list of descriptors the program holds, the high-water mark and the mode it asked for
belong together, and of the two lists of devices that they are apart. The loop
of `alt_file_locked` finds a lock because a locked entry is at or below the mark; finding 5 is
about an entry that is open without a lock, and outside of this property. `AllAsked`
says what a step may do to locks and may read or write.

`CachesKept` (`MCSpec => []CachesSound`), for every size of a line, of the caches and of
memory, all block sizes, and every layout of the sections that `StartupAssumption` allows:
the images lie apart, and no word that is loaded elsewhere or cleared is one of them. This is
what `linker.x` makes of a program (`.rwdata` has its image behind itself and `.bss` follows
the image); without it `clear_bss`, which comes first, would clear what is to be loaded. The
properties speak of what a load would give, which a write-back anywhere could change, so the
invariants say where the copies of a word may differ:

* `MemInv`: a line that was not written agrees with memory (`Clean`), so that dropping or
  writing one back shows the program nothing; blocks lie apart and those used past the cache
  are whole lines (`BlocksLaid`), none of which is cached (`PastCache`); and the word was
  stored as it is seen (`Stored`). `FlushCovers` shows that the steps of a flush meet every
  line of its region, wherever it begins, and `FlushOnly` that one of whole lines meets no other.
* `BootInv`: the images are in memory from the reset on, also while the data cache still has
  dirty lines of the run before, and show through it once it has been emptied (`ImagesKept`);
  what has been cleared or loaded so far is seen (`LoadedSoFar`), has reached memory when
  the flushes are through, and the instruction cache has nothing but the right exception code
  (`CodeRight`).

The interrupt handler fetches a set of words in any order, a fold over the set; `CanFold`
and `FetchAll` prove by the least counterexample that the fold is defined and what it keeps.

`ProfilerKept` (`MCSpec => []ProfilerSound`), for all functions and callers, every increment
of the heap that holds both records of an arc, every length of the text and size of a bucket,
and however many calls. The invariant has two parts, because the two races are apart:

* `RecordInv`: every record is on one list, once (`Listed`), and what is in use lies below the
  end of the heap and outside the slab (`Apart`, with `Roomy` for both), so that what `sbrk`
  or the slab gives next is nobody's (`Allocation`). What a call in progress has found is of
  its arc, and the count it has read is still that of the record unless the other call
  raced with it (`Found`). The calls of an arc are the sum over its records, of which an
  interrupted search may have made two (`ArcsCounted`). The sum is a fold over a set and the
  lists of all functions a fold over a sequence, so here too the least counterexample stands
  for induction: `TotalWithout`, `TotalWith` and `TotalCounted` say what a new record and a
  store do to a sum, `FlattenDistinct` that lists which share nothing make one without
  repetitions.
* `SampleInv`: unless an interrupt fell between question and answer, one of the calls at most is
  about to start the sampler, and none is once it has been started (`Once`).

`PrintfKept` (`MCSpec => []PrintfSound`), for every width of a word that is whole nibbles,
every size of the buffer, and all formats, words and strings. It says what a number of any
length reads back as, so it is about all values where the run tries those at the edges:

* place values, what digits denote and the width a directive asks for are recursive
  functions. `CanRecur` and `RecursInt` show by the least counterexample that such a function
  is defined and what it is; `PowerStep`, `DenotesIs` and `WidthGrows` are what follows for
  these three. `NumeralReads` carries the induction over the digits of a number from its
  largest place value: what the digits so far denote is the number without its last places.
  `DigitsNumeral` and `HexNumeral` show that the division of the log and the nibbles of
  `alt_printf` both write such a numeral, `SpelledReads` that the sign and what fills
  the width can be told from it, and `NumberIs` and `HexIs` that a number reads back.
* `Parsing`: the settings are what the characters read so far ask for (`Asked`), with a
  precision exactly when a point is among them (`Pointless`). One character more keeps that
  (`TakesSound`); a zero counts as a flag only where the directive begins.
* `Printing`: what has been printed, with what is still in the buffer, is the texts of the
  pieces in their order, each as it should be (`Tells`); outside `alt_printf` the buffer is
  empty.

`ExceptionsKept` (`MCSpec => []ExceptionsSound`), for every length of a program and set of
causes: `FrameSound` says where the return address points at each place of the exception
code, `Counted` that every instruction before the next one was executed once or passed
over, `CauseKept` and `ToldSound` that a handler is told of what happened last.

`TimersKept` (`MCSpec => []TimersSound`), for every width of a register of the timer and
every word and speed of the processor. `CountSound` makes the counter and the ticks since
the start one, and what a call has captured and the ticks at its begin; `TimerSet` says
what the timer is at each store that sets it. `LoopsSound` counts the turns of the busy wait.

### The other drivers

`BytesStayWhole` (`MCSpec => []BytesKept`), for every set of transactions and requests and
every depth of the FIFOs. Of the SPI master, `OneInFlight` says that no more than one byte
is in it, and what the pointers and the credit are according to where that byte is: not
there, in `txdata`, in the shift register, in `rxdata`. `Books` says that what is left to
write and to discard and what was read follow those numbers. The polled driver's invariant
places the characters in the FIFOs by their numbers.

`LogStaysSound` (`MCSpec => []LogSound`): room that an interrupt has found is still there
when it writes; room that the program has found is there unless an interrupt wrote since.

`AdcStaysSound` (`MCSpec => AdcSound`), for every set of callbacks. The invariant `AdcInv` goes
by what is left of a call: which of the three fields a registration has stored (`Adding`), of
which a removal has taken the callback out first (`Removing`), and that a
recalibration has the sequencer stopped before it writes the mode (`Recalibrating`). Interrupts
that are on in a call were on when it began (`OnFromStart`), since a registration enables
them last; so one that comes between the stores comes where `HalfStored` says.

`FlashKeepsPromise` (`MCSpec => KeepsPromise`), for every size of the memory, of its pages, of
its words and of the lines of the cache, every set of sectors and of those that are missing, and all offsets and data.
Assumption: `GeometryAssumption`, that the sectors are whole pages in ascending order, as
those of `system.h:497-511` are; were they not, the loops of a write could pass the
region of its next byte and end early. The property compares the end of a call with its
beginning, so the invariant `FlashInv` says for each place in between what has been done:

* `LeftOver`: the data a call has left begins at its offset, and is what was asked from there on.
* `WriteSound`: a write has written all bytes before its offset, and is inside of a block, at
  its start or at that of the data, unless it looks for the next one. The block after it is one with a
  later place, so the loops never miss it: `BlocksOrdered`, `OneBlock`, `RegionsCovered` and
  `PagesFollow` are about the blocks in general.
* `EraseSound`, `ChunkSound`, `ProgramSound`: an erase that is reported passed has left its page
  blank; what is left of a chunk begins where the next word ends; before the word being
  programmed the bytes are as they should be, after it as they were, and within it they
  will be once the flash has programmed what it was told. Words are cut at both ends and may begin
  before the chunk: there the padding must leave bytes alone. `LeftOfDivision` and
  `WordBounds` are the arithmetic of this; with a padding of zeros `NextWord` is false.
* `Harmless`: if the flash was idle when the call began, it only ever does what this call is
  about. A `write_block` that begins while the flash is busy with what an earlier call gave up
  promises nothing of its bytes, since it adds to whatever that has left; an erase still
  promises its page.

Beside it, `FreshAhead` says that the bytes a write has yet to compare are shown as they are, if
they were at first: what the write changes lies behind (`CompletesBehind`), and lines that
reach from there into what is ahead were loaded as they are or dropped. With it a match is of
the flash itself. `FlushCovers` shows that the steps of the flush meet every byte of the
write, wherever in a line it begins and ends.

### The hardware

`ReaderStaysSound` (`MCSpec => []ReaderSound`, with the one pair left over that
`ReadsOnlyReady` names) and `TransfersWhole` (`MCSpec =>
FramesWhole`), for every length of the table and of the idle interval. `ReaderInv` relates
the counter of a transfer to the clocks it has sent (`FrameSound`), the table index to
what the sensor has (`TableSent`), the flags that choose between the low and the
high byte to the transfer (`ReadsChosen`), and the shift register to the byte as far as it
has come in (`AnswerSound`, `BytesKept`). `Announced` says that the line, where it is
settled, announces what the sensor last sent.

`BoardsShowInPlace` (`MCSpec => []ShownInPlace`), for every resolution, picture and cursor,
and every width of the bar's counter. Of the display, the invariant says of each of the seven
stages which place it holds something of (`StagesSound`, with `CoordinatesSound`,
`SyncSound` and `DarkElsewhere`); `OneStage` and `Along` move a stage on by one clock.
The proof needs `X_START + 9 + H_SYNC_ACT <= H_SYNC_TOTAL`, that the window ends before
the line does; the parameters of the code satisfy it.

`DimmerStaysSteady` (`MCSpec => DimmerSound`), for every number of switches and every length
of the registers. `NoFlicker` speaks of steps; the invariant behind it is `TailKept`: when a line changes, its
whole register agrees with the value it leaves; these bits move on by one at every edge,
and until the last has left the register the line cannot change back. Nothing is assumed
of the values the registers power up with.

`SteadyBrightness` needs that every edge of the slow clock takes a switch that is still one
place further into its register (`Settled`), so that the outputs are its inverse after
Depth+1 edges, and that each entry of the window is what the comparison gave at the count of
that edge (`WindowKept`, `CountAt`). The counts of a full window are all the counts
there are, each once: `BrightnessIs` maps those from the duty cycle up one to one to the
edges at which the LED was lit. How many they are is arithmetic of the bits: `Modulus` and
`Value` are recursive functions, `WeightsAre` and `ReadingsAre` give their equations, and
`Complements` that a number and the one with every bit turned over add up to `Modulus - 1`.
The induction in these lemmas is over a set (`Climb`), from the least number outside of it.

### Only model-checked

* `BoardSound`: about the constants of the board, so that nothing is left to generalise.
* `CallbackComes`, `NothingStarves`, `RunCompletes`, `DelayEnds`, `MeasurementFetched`,
  `CallsReturn` and `Follows`: liveness, for which the prover has no rules.

No module uses RECURSIVE operators, so that all of them can be proved about.

## 5. Not modelled, and remarks

Not modelled:

* `adc_sequencer.vhd` and `adc_led7.vhd`: a writer that sets the run bit again every second clock, and a
  decoder of the last sample; the ADC behind them is generated code.
* Seven-segment decoders, the BCD adder and the reset delay: combinational logic, for
  which a simulation over all inputs is the better check, and a counter that stops.
* DMA channels, which no device of this board has; the emulation of multiplication and
  division, which is not linked in; constructors, a call per entry of a table; system calls
  that only return an error.
* The variants of the calls on descriptors for `ALT_USE_DIRECT_DRIVERS`, which are not
  compiled here: each calls its driver without the table.
* `week4/DE10liteEmbed/Source`: a copy of the firmware, but that its `led_util.c` does not invert.
* Generated IP and vendor simulation models: not the repository's own.

Left out of modelled parts: the `priv` field of descriptors; requests of `sbrk` that
give memory back; `alt_adc_word_read`; SPI commands of
length zero in both directions, whose loop never ends. Of the flash, the behaviour of
the IP core is taken from how the driver uses it: the pass bit is down while an
operation runs, reads are held until it has ended, commands on a protected sector are refused.

`MeasurementFetched` is checked with a settled interrupt line only. The Verilog uses
that asynchronous line in two places at one edge without a synchroniser; when the two
see different values, a transfer of the wrong word may be made instead of the polling
read, and a line that does so for ever would keep a measurement from being fetched.

Hazards met while modelling that no property watches, or that another one covers:

* starting an alarm that is registered already links the list to itself
  (`alt_alarm_start.c:98`), and a callback that stops the alarm next on the list leaves the
  cursor of `alt_tick` on it (`alt_tick.c:140`); no caller in the repository does either;
* `alt_legacy_irq.h:103-104` lets higher priorities interrupt a handler that asks for it. A handler
  that then switches any interrupt on or off writes the enable register without the priority
  mask (lines 76 and 94) and lets lower ones in too. No handler in the repository does
  both, and `hal` has `Careful = TRUE`; with `FALSE` TLC finds `NestsByPriority` violated;
* a callback of the ADC registered over another with interrupts on may be called with the
  context of the other, and interrupts enabled before any registration are never cleared
  (`altera_modular_adc.c:161-163` and 67; `HalfStored` and `Storm` of `ModularAdc` name the two). The
  comment at lines 146-147 only says how to disable a callback, so neither contradicts it;
* `read_ready` has no reset (`spi_ee_config.v:82-91`): it may send one pair that no
  measurement was announced for;
* a call that begins while the flash is still at work on an operation that an earlier call
  has given up: a write may be answered from the cache meanwhile;
* a prompt blocks until a host drains the terminal (`main.c:37`);
* the polled `write` does not look at `O_NONBLOCK` (`altera_avalon_jtag_uart_write.c:70`);
* with a tick rate that does not divide 10^6 the time of day goes back now and then
  (`alt_gettod.c:93`);
* the heap and the stack grow towards each other, and `alt_sbrk` checks neither them nor a
  negative increment (`alt_sbrk.c:88`, whose comment at lines 46-48 says more);
* closing standard output leaves its lock (`alt_release_fd.c:46`);
* `alt_dcache_flush_no_writeback` with a start that is not that of a line can drop a line beyond
  the region (`alt_dcache_flush_no_writeback.c:53-67`);
* an interrupt that logs does not end while no host takes the characters
  (`alt_log_printf.c:98`);
* a profiled interrupt handler between the test and the clearing of `pcsample_need_init`
  starts the sampler twice (`alt_gmon.c:167`), and between the load and the store of a count loses a
  call (`alt_mcount.S:120`); a failure of `sbrk`, which is -1, is not seen by the test for 0
  (`alt_gmon.c:229`); a text that ends within a bucket gives samples one past the histogram (265);
* a handler that asks for a timestamp would tear one the program is reading
  (`altera_avalon_timer_ts.c:124`);
* `alt_exception` reads `ea` again after a handler (`alt_exception_entry.S:285`), so that a handler
  must not cause an exception itself.

Smaller disagreements between code and comments, of no consequence to a property:
`altera_avalon_spi.h:55-56` describes the MERGE flag differently from what the code does
with it; `alt_timestamp` answers 0 for a timer that is through, as line 58 says and lines
92-94 do not; since `TIMER_0` is both clocks on this board, the timestamp is refused; the loop of
`alt_busy_sleep` is given its count once (`Embed_System.objdump`, 4001b00 to 4001b24), so that its
later rounds turn 2^32 times and a delay of more than one round is far longer than
asked; the sign of life of the log comes every `INTERVAL` + 1 ticks (`alt_log_printf.c:466`), and
an echo has one character less than line 439 says; `alt_exception_entry.S:276` has the
answers for skipping and repeating the other way round than the code and its `enum`; the last four columns of the
display show the column `H_SYNC_ACT - 5`, the address being clamped four columns
earlier than the window (`VGA_Controller.v:99` against line 206); the line of `led_driver.v` for a
magnitude of `3'h8` is never selected.

## 6. Plan

Done: the parts above, and proofs of all safety properties but those listed in
section 4. What is left, by what it would add:

1. `JtagUart` over `HalAlarm`, its host check being an alarm, and over `IrqDispatch`;
2. abstract specifications: a channel for each direction of `JtagUart`, a table of files;
3. the ADC sequencer against the run bit of the generated core.
