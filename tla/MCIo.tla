-------------------------------- MODULE MCIo --------------------------------
(***************************************************************************)
(* Instances for TLC of what is checked for safety alone: the input and    *)
(* output of a program, by JtagUart, the driver behind the console, by     *)
(* FileTable, the calls on descriptors, and by Printf; its start, by       *)
(* Startup and SystemInit; and what goes on below it, by UncachedMemory,   *)
(* Exceptions, Profiler, Timestamp and BusySleep.  A behaviour is about    *)
(* one of these layers, chosen in the initial state; the others stay as    *)
(* they are.  Those but the first two share v1 to v16, of which a layer    *)
(* leaves the ones it does not need at 0.                                  *)
(*                                                                         *)
(* The driver: three slots hold two characters, so that the buffer is      *)
(* empty, full, half full and split by its end.  A request of three needs  *)
(* more than one buffer.  Places is a multiple of the slots, but not their *)
(* number, so that a slot that was not written in time holds the wrong     *)
(* place.  INT_MAX = 4 leaves the default timeout, the one that is never   *)
(* reached and the one without an alarm.                                   *)
(*                                                                         *)
(* The table: a console with the callbacks of the JTAG UART driver, which  *)
(* standard input, output and error are redirected to, another device, a   *)
(* filesystem, and a device and a filesystem without a name.               *)
(*                                                                         *)
(* Three calls of mcount are enough for an arc to be there and then to be  *)
(* counted by the program and by an interrupt at once.  The caches have    *)
(* two lines of two words: a block can share a line, fill it or be split   *)
(* by its end.  Words that are printed have eight bits, those slept for    *)
(* six, and formats have every letter and every setting.                   *)
(*                                                                         *)
(* View: what the last call answered does not affect what follows, nor     *)
(* does the number of characters that have passed, so states that differ   *)
(* in these alone are explored once.                                       *)
(***************************************************************************)
EXTENDS JtagUart

CONSTANTS NoDev, alt_dev_null, Devs, Filesystems, Callbacks, Name, Files,
          ALT_STDIN, ALT_STDOUT, ALT_STDERR, ALT_MAX_FD, Accesses,  \* FileTable
          Length, Causes,       \* Exceptions
          LineSize, DCacheLines, ICacheLines,       \* Caches
          RamSize, Sections, BssStart, BssEnd, ExceptionWords,
          IrqDevices, StateOf,     \* Startup
          HeapSize, BlockSizes, MaxBlocks,          \* UncachedMemory
          Half,                 \* Timestamp
          Word, LoopsPerUs,     \* BusySleep
          Functions, Callers, Increment, TextBytes, BucketBytes, MaxCalls,  \* Profiler
          Bits, ALT_PUTBUF_SIZE, LogFormats, Formats, Values, Strings   \* Printf

\* The devices TLC is given.
CONSTANTS uart, aux, disk, nameless, unnamed

VARIABLES layer,
          phase, alt_dev_list, alt_fs_list, alt_fd_list, alt_max_fd, done, asked,
          v1, v2, v3, v4, v5, v6, v7, v8, v9, v10, v11, v12, v13, v14, v15, v16

MCSizes    == {1, 3}
MCTimeouts == {0, 2}

MCDevs == {alt_dev_null, uart, aux, disk, nameless, unnamed}
MCCallbacks ==
    [d \in MCDevs |->
        CASE d = alt_dev_null -> {"write"}
          [] d = uart         -> {"close", "read", "write", "ioctl"}
          [] d = aux          -> {"open", "close", "read", "write", "ioctl"}
          [] d = disk         -> {"open", "read", "lseek", "fstat"}
          [] OTHER            -> {}]
MCName ==
    [d \in MCDevs |->
        CASE d = alt_dev_null -> <<"dev", "null">>
          [] d = uart         -> <<"dev", "jtag_uart">>
          [] d = aux          -> <<"dev", "aux">>
          [] d = disk         -> <<"mnt">>
          [] OTHER            -> <<>>]
MCFilesystems == {disk, unnamed}
MCFiles == {<<"dev", "jtag_uart">>, <<"dev", "aux">>, <<"mnt", "file">>, <<"dev", "mnt">>}
Console == <<"dev", "jtag_uart">>

\* Two sections that are loaded, to below and to above where they are, and one that
\* is used in place.
MCSections ==
    << [from |-> 7, to |-> 5, end |-> 7], [from |-> 0, to |-> 2, end |-> 4],
       [from |-> 4, to |-> 4, end |-> 5] >>
MCDevices == <<"timer", "adc">>
MCStateOf == [timer |-> 9, adc |-> 6]

\* A directive with each setting and each letter, and some that are none.
MCLogFormats ==
    {<<"%", "0", "1", "0", "l", "d", ".">>, <<"%", "5", ".", "2", "d", "%", "%">>,
     <<"x", "%", "u", "%", "3", "c">>, <<"%", "0", "4", "X", "%", "o">>,
     <<"%", "2", "s", "%", "q", "%", "i">>, <<"%", "1", "1", "i">>, <<"%", "x">>,
     <<"%", "0", "s", "%", "5">>}
MCFormats ==
    {<<"a", "%", "x", "%", "s">>, <<"%", "%", "%", "c", "%">>, <<"%", "x", "%", "q", "b">>}
MCValues == {0, 1, 7, 8, 9, 10, 15, 16, 17, 63, 64, 99, 100, 127, 128, 129, 156, 157, 160,
             246, 255}
MCStrings == {<<>>, <<"a">>, <<"a", "b", "c">>}

File == INSTANCE FileTable WITH pc <- phase

\* The shared variables, and those after the first so many.
After4  == <<v5, v6, v7, v8, v9, v10, v11, v12, v13, v14, v15, v16>>
After6  == <<v7, v8, v9, v10, v11, v12, v13, v14, v15, v16>>
After7  == <<v8, v9, v10, v11, v12, v13, v14, v15, v16>>
After11 == <<v12, v13, v14, v15, v16>>
After13 == <<v14, v15, v16>>
After15 == <<v16>>
shared  == <<v1, v2, v3, v4, After4>>

None15 == v16 = 0
None13 == v14 = 0 /\ v15 = 0 /\ None15
None11 == v12 = 0 /\ v13 = 0 /\ None13
None7  == v8 = 0 /\ v9 = 0 /\ v10 = 0 /\ v11 = 0 /\ None11
None6  == v7 = 0 /\ None7
None4  == v5 = 0 /\ v6 = 0 /\ None6
None0  == v1 = 0 /\ v2 = 0 /\ v3 = 0 /\ v4 = 0 /\ None4

Exc == INSTANCE Exceptions WITH
    pc <- v1, PIE <- v2, faulty <- v3, ipending <- v4, EXCEPTIONS <- v5, BADADDR <- v6,
    ea <- v7, estatus <- v8, at <- v9, frame <- v10, registered <- v11, told <- v12,
    done <- v13, passed <- v14, meant <- v15, has_info <- v16

Prof == INSTANCE Profiler WITH
    call <- v1, head <- v2, entry <- v3, arc <- v4, slab_ptr <- v5, slab_size <- v6,
    brk <- v7, others <- v8, tick_rate <- v9, pcsample_need_init <- v10, starts <- v11,
    hits <- v12, calls <- v13, raced <- v14, torn <- v15

Boot == INSTANCE Startup WITH
    Size <- RamSize, Exceptions <- ExceptionWords, Devices <- IrqDevices,
    h <- v1, pc <- v2, at <- v3, todo <- v4, PIE <- v5, ienable <- v6, changed <- v7

Memory == INSTANCE UncachedMemory WITH
    Addresses <- 0 .. HeapSize-1, Sizes <- BlockSizes,
    h <- v1, blocks <- v2, watched <- v3, last <- v4

Stamp == INSTANCE Timestamp WITH
    freq <- v1, counter <- v2, period <- v3, run <- v4, cont <- v5, snap <- v6, pc <- v7,
    lower <- v8, elapsed <- v9, asked <- v10, result <- v11

Sleep == INSTANCE BusySleep WITH
    pc <- v1, us <- v2, i <- v3, reg <- v4, loops <- v5, asked <- v6

Board == INSTANCE SystemInit WITH
    small <- v1, todo <- v2, PIE <- v3, ienable <- v4, isr <- v5, tick_rate <- v6,
    alarm <- v7, listed <- v8, regions <- v9, watched <- v10, held <- v11, meant <- v12,
    served <- v13

Output == INSTANCE Printf WITH
    pc <- v1, fmt <- v2, state <- v3, spec <- v4, buf <- v5, out <- v6, pieces <- v7

ASSUME LayersAssumption ==
    /\ File!FileAssumption /\ Output!PrintfAssumption
    /\ Boot!StartupAssumption /\ Memory!MemoryAssumption
    /\ Exc!ExceptionAssumption /\ Prof!ProfilerAssumption
    /\ Stamp!TimestampAssumption /\ Sleep!BusyAssumption

tableVars == <<phase, alt_dev_list, alt_fs_list, alt_fd_list, alt_max_fd, done, asked>>

\* The driver and the table, where a behaviour is about another layer, are in one of
\* their initial states.
MCInit ==
    /\ Init /\ File!Init
    /\ \/ layer = "driver" /\ None0
       \/ timeout = INT_MAX /\
          \/ layer = "table" /\ None0
          \/ layer = "printf" /\ Output!Init /\ None7
          \/ layer = "start" /\ Boot!Init /\ None7
          \/ layer = "board" /\ Board!Init /\ None13
          \/ layer = "memory" /\ Memory!Init /\ None4
          \/ layer = "exception" /\ Exc!Init
          \/ layer = "profiler" /\ Prof!Init /\ None15
          \/ layer = "stamp" /\ Stamp!Init /\ None11
          \/ layer = "sleep" /\ Sleep!Init /\ None6

DriverStep == layer = "driver" /\ Next /\ UNCHANGED <<tableVars, shared>>
TableStep  == layer = "table" /\ File!Next /\ UNCHANGED <<vars, shared>>

SharedStep ==
    /\ \/ layer = "printf" /\ Output!Next /\ UNCHANGED After7
       \/ layer = "start" /\ Boot!Next /\ UNCHANGED After7
       \/ layer = "board" /\ Board!Next /\ UNCHANGED After13
       \/ layer = "memory" /\ Memory!Next /\ UNCHANGED After4
       \/ layer = "exception" /\ Exc!Next
       \/ layer = "profiler" /\ Prof!Next /\ UNCHANGED After15
       \/ layer = "stamp" /\ Stamp!Next /\ UNCHANGED After11
       \/ layer = "sleep" /\ Sleep!Next /\ UNCHANGED After6
    /\ UNCHANGED <<vars, tableVars>>

MCNext == (DriverStep \/ TableStep \/ SharedStep) /\ UNCHANGED layer

MCSpec == MCInit /\ [][MCNext]_<<layer, vars, tableVars, shared>>

\* Characters as far from the next one that is to leave: where a stream has got
\* to affects nothing, since every property compares marks with one another.
Since(marks, first) == [i \in DOMAIN marks |-> (marks[i] - first) % Places]

DriverView ==
    <<Since(rfifo, got), Since(rx_buf, got), (sent - got) % Places,
      Since(wfifo, taken), Since(tx_buf, taken), (put - taken) % Places,
      rx_in, rx_out, tx_in, tx_out, irq_enable, presence, pc, locals>>

View == <<layer, DriverView,
          phase, alt_dev_list, alt_fs_list, alt_fd_list, alt_max_fd, asked, shared>>

\* FileTable's TableSound, LockHolds and AccessAsOpened: no descriptor leaks or is
\* handed out twice, and a free one keeps nothing of its last use (alt_open.c:163,
\* alt_release_fd.c:48); a locked device is opened by nobody else (alt_open.c:79), and
\* a descriptor is used as it was opened, whatever fcntl and ioctl were called for
\* (alt_fcntl.c:89).
DescriptorsKept == []File!TableSound /\ File!LockHolds /\ File!AccessAsOpened

\* Printf's PrintfSound: a directive of either printf becomes the digits of its argument
\* in the width and the base asked for, and everything is printed in its order
\* (alt_log_printf.c:114-341, alt_printf.c:51-132, alt_putcharbuf.c:58-79).
PrintfSound == layer = "printf" => Output!TypeOK /\ Output!PrintfSound

\* FileTable's LockIsExclusive, what alt_fd_lock.c:43 says of a lock: it is granted
\* when no other descriptor is open on the device.
LockIsExclusive == File!LockIsExclusive

\* Timestamp's TimestampSound and BusySleep's DelaySound: a timestamp is of a moment in
\* its call, and a busy wait is never too short (altera_avalon_timer_ts.c:124-128,
\* alt_busy_sleep.c:74-129).
TimersSound ==
    /\ layer = "stamp" => Stamp!TypeOK /\ Stamp!TimestampSound
    /\ layer = "sleep" => Sleep!TypeOK /\ Sleep!DelaySound

\* Exceptions' ExceptionsSound: an exception costs the program no instruction but the
\* one its handler had passed over, and the handler is told of the right one
\* (alt_exception_entry.S:165-167, 196, 279-286).
ExceptionsSound == layer = "exception" => Exc!ExceptionsSound

\* Profiler's ProfilerSound: records lie apart, calls are counted once and the sampler
\* is started once, but for the two races the functions that are profiled in an
\* interrupt lose (alt_gmon.c:167-170, alt_mcount.S:120-122).
ProfilerSound == layer = "profiler" => Prof!ProfilerSound

\* UncachedMemory's LastStored and FlushReaches and Startup's Started: what the program
\* stored, what the image gives it and what it writes out is what is found on the other
\* side of the caches (alt_uncached_malloc.c:51-64, alt_dcache_flush.c:53-67,
\* alt_load.c:97-98).
CachesSound ==
    /\ layer = "memory" => Memory!TypeOK /\ Memory!LastStored /\ Memory!FlushReaches
    /\ layer = "start" => Boot!TypeOK /\ Boot!Started

\* SystemInit's BoardSound: an access reaches the register it is meant for and no other,
\* an interrupt the driver of its device, and when main is called the clock, the console
\* and the flash are what it expects (system.h, alt_sys_init.c:89-108).
BoardSound == layer = "board" => Board!TypeOK /\ Board!BoardSound
=============================================================================
