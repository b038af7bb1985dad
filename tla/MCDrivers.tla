----------------------------- MODULE MCDrivers ------------------------------
(***************************************************************************)
(* Instances for TLC of the drivers: OnchipFlash, JtagUart and PolledUart, *)
(* the driver of the JTAG UART with its buffers and without, ModularAdc,   *)
(* SpiCommand and AltLog, which writes past the driver.  A behaviour is    *)
(* about one of them; the part is chosen in the initial state and stays.   *)
(* The last two share v1 to v14.                                           *)
(*                                                                         *)
(* The flash has two sectors of a page, which is two words of two bytes    *)
(* and a line of the cache.  What is written from byte 1 covers a word in  *)
(* part at either end and both sectors, from byte 0 a page; byte 8 lies    *)
(* outside.                                                                *)
(* The driver with buffers is here for its liveness alone: two slots, and  *)
(* a request larger than what they hold.  The polled one has FIFOs of two. *)
(* Messages of the log are two characters, so that an interrupt comes      *)
(* between, and the FIFO has room for one.                                 *)
(***************************************************************************)
EXTENDS OnchipFlash, Integers

CONSTANTS Callbacks, Null,                         \* ModularAdc
          PolledDepth, PolledSizes, PolledPlaces,  \* PolledUart
          Lengths,                                 \* SpiCommand
          LogDepth, Length, ALT_LOG_SYS_CLK_INTERVAL, ALT_LOG_JTAG_UART_TICKS,
          ALT_LOG_WRITE_ECHO_LEN, Levels, Changing, Texts   \* AltLog

\* The callbacks TLC is given.
CONSTANTS c1, c2

VARIABLES
    part,
    \* both drivers of the JTAG UART
    rfifo, wfifo, at, left, moved, nonblock, sent, got, put, taken,
    irq_enable, host_inactive, timeout, rx_in, rx_out, tx_in, tx_out,
    rx_buf, tx_buf, in, out, n,
    \* the ADC
    RUN, MODE, stopping, irqStatus, irqEnable, callback, callback_context,
    base_known, todo, arg, backup_cmd_reg, isr, recalibrated, live,
    \* the SPI master and the log
    v1, v2, v3, v4, v5, v6, v7, v8, v9, v10, v11, v12, v13, v14

MCSectors == <<[start |-> 0, end |-> 3], [start |-> 4, end |-> 7]>>
MCOffsets == {0, 1, 8}
MCData == {<<>>, <<1, 0, 0, 1>>}
MCCallbacks == {c1, c2}
MCLengths == {<<0, 1>>, <<1, 0>>, <<1, 2>>, <<2, 1>>}
MCTexts == {<<"a">>, <<"EOT", "a">>, <<"a", "EOT", "NUL", "a">>}

Uart == INSTANCE JtagUart WITH
    BUF_LEN <- 2, INT_MAX <- 4, DefaultTimeout <- 2, FifoDepth <- 1,
    Sizes <- {1, 3}, Timeouts <- {0, 2}, Places <- 4, pc <- at
Polled == INSTANCE PolledUart WITH
    FifoDepth <- PolledDepth, Sizes <- PolledSizes, Places <- PolledPlaces, pc <- at
Adc == INSTANCE ModularAdc
Spi == INSTANCE SpiCommand WITH
    txdata <- v1, shift <- v2, rxdata <- v3, SSO <- v4, pc <- v5, status <- v6,
    credits <- v7, write_data <- v8, write_zeros <- v9, read_ignore <- v10,
    read_data <- v11, flags <- v12, length <- v13, clocked <- v14
Log == INSTANCE AltLog WITH
    FifoDepth <- LogDepth,
    flags <- v1, pc <- v2, fifo <- v3, mine <- v4, theirs <- v5, stages <- v6,
    sys_clk_count <- v7, alarm <- v8, echo <- v9, disturbed <- v10, lost <- v11

ASSUME DriversAssumption ==
    /\ Polled!PolledAssumption /\ Adc!AdcAssumption /\ Spi!SpiAssumption
    /\ Log!LogAssumption

polledVars == <<rfifo, wfifo, at, left, moved, nonblock, sent, got, put, taken>>
bufferVars == <<irq_enable, host_inactive, timeout, rx_in, rx_out, tx_in, tx_out,
                rx_buf, tx_buf, in, out, n>>
uartVars == <<polledVars, bufferVars>>
adcVars == <<RUN, MODE, stopping, irqStatus, irqEnable, callback, callback_context,
             base_known, todo, arg, backup_cmd_reg, isr, recalibrated, live>>
afterLog == <<v12, v13, v14>>
sharedVars == <<v1, v2, v3, v4, v5, v6, v7, v8, v9, v10, v11, afterLog>>
partVars == <<vars, uartVars, adcVars, sharedVars>>

-----------------------------------------------------------------------------

\* The parts a behaviour is not about are in one of their initial states.
MCInit ==
    /\ Init /\ Uart!Init /\ Polled!Init /\ Adc!Init
    /\ \/ part \in {"flash", "uart", "polled", "adc", "spi"} /\ Spi!Init
       \/ part = "log" /\ Log!Init /\ v12 = 0 /\ v13 = 0 /\ v14 = 0
    /\ part # "flash" => is_read_only /\ ~csr_base
    /\ part # "uart" => timeout = 4
    /\ part \notin {"spi", "log"} => v3 = <<>>

\* What the other parts keep while one of them moves.
NotFlash  == UNCHANGED <<part, uartVars, adcVars, sharedVars>>
NotUart   == UNCHANGED <<part, vars, adcVars, sharedVars>>
NotPolled == UNCHANGED <<part, vars, bufferVars, adcVars, sharedVars>>
NotAdc    == UNCHANGED <<part, vars, uartVars, sharedVars>>
NotSpi    == UNCHANGED <<part, vars, uartVars, adcVars>>
NotLog    == UNCHANGED <<part, vars, uartVars, adcVars, afterLog>>

MCNext ==
    \/ part = "flash" /\ Next /\ NotFlash
    \/ part = "uart" /\ Uart!Next /\ NotUart
    \/ part = "polled" /\ Polled!Next /\ NotPolled
    \/ part = "adc" /\ Adc!Next /\ NotAdc
    \/ part = "spi" /\ Spi!Next /\ NotSpi
    \/ part = "log" /\ Log!Next /\ NotLog

MCSpec == MCInit /\ [][MCNext]_<<part, partVars>>

\* Each part with the fairness of its module, which asks the same of two parts for
\* different actions: only one of them moves.
Continues ==
    \/ part = "flash" /\ Driver /\ NotFlash
    \/ part = "uart" /\ Uart!Continue /\ NotUart
    \/ part = "polled" /\ Polled!Continue /\ NotPolled
    \/ part = "adc" /\ Adc!Interrupt /\ NotAdc
    \/ part = "spi" /\ Spi!Continue /\ NotSpi
    \/ part = "log" /\ Log!Continue /\ NotLog
Serves ==
    \/ part = "flash" /\ Complete /\ NotFlash
    \/ part = "uart" /\ Uart!Irq /\ NotUart
    \/ part = "adc" /\ Adc!SequenceEnds /\ NotAdc
    \/ part = "spi" /\ Spi!Shifts /\ NotSpi
    \/ part = "log" /\ Log!HostTakes /\ NotLog
GoesOn == part = "adc" /\ Adc!Continue /\ ~Adc!Storm /\ NotAdc

MCFairSpec ==
    MCSpec /\ WF_partVars(Continues) /\ WF_partVars(Serves) /\ SF_partVars(GoesOn)

\* Where the characters of the driver with buffers are in their streams decides
\* nothing that it does, and its order is no question here.
View ==
    <<part, vars, adcVars, sharedVars, irq_enable, host_inactive, timeout,
      at, left, moved, nonblock, rx_in, rx_out, tx_in, tx_out, in, out, n,
      IF part = "uart" THEN <<Len(rfifo), Len(wfifo)>>
                       ELSE <<rfifo, wfifo, sent, got, put, taken>> >>

-----------------------------------------------------------------------------
(* Properties                                                              *)

\* A call of any driver returns, as CallReturns of OnchipFlash, CallsEnd of JtagUart,
\* PolledCallsEnd, CallEnds of ModularAdc and CommandEnds say it of each, and an interrupt
\* that logs ends, as InterruptEnds says: no operation that fails, no host that is slow
\* and no sequence that ends early leaves it waiting.  Only interrupts of the ADC that are
\* enabled before a callback is registered stop the program.  A part that does not move is in no
\* call (altera_onchip_flash.c:536, altera_avalon_jtag_uart_write.c:165,
\* altera_avalon_jtag_uart_read.c:71, altera_modular_adc.c:191, altera_avalon_spi.c:120,
\* alt_log_printf.c:98).
InCommand == part = "spi" /\ v5 # "idle"
InLog     == part = "log" /\ Log!Serving

Returned == pc = "ready" /\ at = "idle" /\ todo = <<>> /\ ~InCommand /\ ~InLog

CallsReturn ==
    /\ \/ pc # "ready"
       \/ at \in {"rx_load", "read"} /\ rfifo # <<>>
       \/ todo # <<>> /\ Head(todo) # "wait"
       \/ InCommand
       \/ InLog
       ~> Returned \/ Adc!Storm
    /\ Uart!HostSettled => (Uart!Writing \/ at = "write" ~> Returned)

\* ModularAdc's TypeOK, CallbackWhole and Recalibrates: an interrupt calls no callback
\* with the context of another, unless the program registers one with interrupts on, and
\* a recalibration takes place whatever the sequencer was doing
\* (altera_modular_adc.c:161-174, 228-234).
AdcSound ==
    /\ [](part = "adc" => Adc!TypeOK /\ Adc!CallbackWhole)
    /\ Adc!Recalibrates

\* SpiCommand's Transferred: a transaction sends and returns its own bytes, however
\* the shifting falls between a status and its use (altera_avalon_spi.c:53-57, 82); and
\* PolledUart's PolledInOrder: no character is written into a full FIFO, in neither
\* direction is one lost (altera_avalon_jtag_uart_write.c:71).
BytesKept ==
    /\ part = "spi" => Spi!Transferred
    /\ part = "polled" => Polled!PolledInOrder

\* AltLog's LogSound: whoever interrupts whom, the log loses no character but one the
\* program had found room for before, and an echo stays in its buffer and breaks no
\* terminal (alt_log_printf.c:98-101, 440-462).
LogSound == part = "log" => Log!LogSound
============================================================================
