------------------------------ MODULE JtagUart ------------------------------
(***************************************************************************)
(* The interrupt-driven driver of the JTAG UART:                           *)
(*   drivers/src/altera_avalon_jtag_uart_init.c    interrupt, alarm, close *)
(*   drivers/src/altera_avalon_jtag_uart_read.c    fast driver             *)
(*   drivers/src/altera_avalon_jtag_uart_write.c   fast driver             *)
(*   drivers/src/altera_avalon_jtag_uart_ioctl.c                           *)
(*                                                                         *)
(* Two circular buffers join the program to the interrupt: the program     *)
(* reads rx_in and moves rx_out, and moves tx_in and reads tx_out, with no *)
(* lock.  There is no operating system: the semaphores and event flags are *)
(* empty and a call waits by spinning.                                     *)
(*                                                                         *)
(* The program is cut at its loads and stores of what the interrupt uses.  *)
(* The interrupt runs with interrupts disabled, and what the hardware does *)
(* meanwhile it might as well have done before or after: one pass of its   *)
(* loop is one step, and another pass another interrupt.                   *)
(*                                                                         *)
(* Characters carry their place in the stream, modulo Places.              *)
(***************************************************************************)
EXTENDS Integers, Sequences, FiniteSetsExt

CONSTANTS BUF_LEN,         \* ALTERA_AVALON_JTAG_UART_BUF_LEN
          INT_MAX,
          DefaultTimeout,  \* ALTERA_AVALON_JTAG_UART_DEFAULT_TIMEOUT
          FifoDepth,       \* characters a hardware FIFO holds
          Sizes,           \* the sizes of the program's requests
          Timeouts,        \* the arguments of TIOCSTIMEOUT
          Places           \* see above

ASSUME JtagUartAssumption ==
    /\ BUF_LEN \in Nat /\ BUF_LEN > 1
    /\ INT_MAX \in Nat /\ DefaultTimeout \in 2 .. INT_MAX-2
    /\ FifoDepth \in Nat \ {0}
    /\ Sizes \subseteq Nat \ {0} /\ Timeouts \subseteq Nat
    /\ Places \in Nat /\ Places > BUF_LEN + FifoDepth - 1

VARIABLES
    \* the device
    rfifo, wfifo,      \* characters waiting to be read; written, not yet taken
    \* altera_avalon_jtag_uart_state
    irq_enable,        \* interrupts enabled, "RE" and "WE"; so is the register
    host_inactive, timeout,
    rx_in, rx_out, tx_in, tx_out, rx_buf, tx_buf,
    \* the call in progress
    pc, in, out, n,    \* the locals of read and write
    left,              \* space in read, count in write
    moved,             \* ptr has moved: the call has a result
    nonblock,          \* O_NONBLOCK
    \* history
    sent, got,         \* characters the host sent; the program got, mod Places
    put, taken         \* characters the program put; the host took, mod Places

device == <<rfifo, wfifo>>
rx == <<rx_in, rx_out, rx_buf>>
tx == <<tx_in, tx_out, tx_buf>>
presence == <<host_inactive, timeout>>
locals == <<in, out, n, left, moved, nonblock>>
streams == <<sent, got, put, taken>>
vars == <<device, irq_enable, presence, rx, tx, pc, locals, streams>>

Slots == 0 .. BUF_LEN-1
Marks == 0 .. Places-1

TypeOK ==
    /\ rfifo \in Seq(Marks) /\ Len(rfifo) <= FifoDepth
    /\ wfifo \in Seq(Marks) /\ Len(wfifo) <= FifoDepth
    /\ irq_enable \subseteq {"RE", "WE"}
    /\ host_inactive \in 0 .. INT_MAX-2 /\ timeout \in 2 .. INT_MAX
    /\ {rx_in, rx_out, tx_in, tx_out, in, out} \subseteq Slots
    /\ rx_buf \in [Slots -> Marks] /\ tx_buf \in [Slots -> Marks]
    /\ pc \in {"idle", "rx_load", "rx_copy", "rx_store", "rx_spin", "rx_check",
               "rx_enable", "tx_load", "tx_copy", "tx_store", "tx_enable",
               "tx_spin", "tx_check", "close"}
    /\ n \in Slots /\ left \in Nat /\ {moved, nonblock} \subseteq BOOLEAN
    /\ {sent, got, put, taken} \subseteq Marks

\* After altera_avalon_jtag_uart_init.  Without a system clock its alarm does
\* not start, and timeout says so.
Init ==
    /\ rfifo = <<>> /\ wfifo = <<>>
    /\ irq_enable = {"RE"}
    /\ host_inactive = 0 /\ timeout \in {DefaultTimeout, INT_MAX}
    /\ rx_in = 0 /\ rx_out = 0 /\ tx_in = 0 /\ tx_out = 0
    /\ rx_buf = [i \in Slots |-> 0] /\ tx_buf = rx_buf
    /\ pc = "idle" /\ in = 0 /\ out = 0 /\ n = 0 /\ left = 0
    /\ moved = FALSE /\ nonblock = FALSE
    /\ sent = 0 /\ got = 0 /\ put = 0 /\ taken = 0

-----------------------------------------------------------------------------
(* The host, external                                                      *)

HostSends ==
    /\ Len(rfifo) < FifoDepth
    /\ rfifo' = Append(rfifo, sent)
    /\ sent' = (sent + 1) % Places
    /\ UNCHANGED <<wfifo, irq_enable, presence, rx, tx, pc, locals,
                   got, put, taken>>

HostTakes ==
    /\ wfifo # <<>>
    /\ wfifo' = Tail(wfifo)
    /\ taken' = (taken + 1) % Places
    /\ UNCHANGED <<rfifo, irq_enable, presence, rx, tx, pc, locals,
                   sent, got, put>>

-----------------------------------------------------------------------------
(* Interrupt level.  A definition with an underscore in its name is a       *)
(* variant of the one below it with a fault: the properties must tell them  *)
(* apart.                                                                   *)

RI == "RE" \in irq_enable /\ rfifo # <<>>
WI == "WE" \in irq_enable /\ Len(wfifo) < FifoDepth

\* An index moved on by some slots.
Advance_NoWrap(i, k) == i + k
Advance(i, k) == (i + k) % BUF_LEN

\* Room left when next == sp->rx_out stops the loop, and characters to send.
RxRoom_Full == BUF_LEN - ((rx_in - rx_out) % BUF_LEN)
RxRoom == BUF_LEN - 1 - ((rx_in - rx_out) % BUF_LEN)
TxUsed == (tx_in - tx_out) % BUF_LEN

Received == IF RI THEN Min({RxRoom, Len(rfifo)}) ELSE 0
Transmitted == IF WI THEN Min({TxUsed, FifoDepth - Len(wfifo)}) ELSE 0

\* Receive interrupts go off when the buffer is full with characters waiting,
\* transmit interrupts when there is room in the FIFO and nothing to send.
RxOff == RI /\ Received < Len(rfifo)
TxOff == WI /\ Transmitted < FifoDepth - Len(wfifo)

Irq ==
    /\ RI \/ WI
    /\ rx_buf' = [i \in Slots |->
                     LET k == (i - rx_in) % BUF_LEN
                     IN  IF k < Received THEN rfifo[k + 1] ELSE rx_buf[i]]
    /\ rx_in' = Advance(rx_in, Received)
    /\ rfifo' = SubSeq(rfifo, Received + 1, Len(rfifo))
    /\ wfifo' = wfifo \o [k \in 1 .. Transmitted |->
                             tx_buf[(tx_out + k - 1) % BUF_LEN]]
    /\ tx_out' = Advance(tx_out, Transmitted)
    /\ irq_enable' = {e \in irq_enable : IF e = "RE" THEN ~RxOff ELSE ~TxOff}
    /\ UNCHANGED <<presence, rx_out, tx_in, tx_buf, pc, locals, streams>>

\* altera_avalon_jtag_uart_timeout, every second.  Whether the activity bit of
\* the device is set is up to the host: looking at the device sets it.
Timeout ==
    /\ timeout # INT_MAX
    /\ \/ host_inactive' = 0
       \/ host_inactive' = IF host_inactive < INT_MAX - 2 THEN host_inactive + 1
                                                          ELSE host_inactive
    /\ UNCHANGED <<device, irq_enable, timeout, rx, tx, pc, locals, streams>>

-----------------------------------------------------------------------------
(* altera_avalon_jtag_uart_read                                            *)

HostLost == host_inactive >= timeout

Call(first, size, flag) ==
    /\ pc = "idle" /\ pc' = first
    /\ left' = size /\ nonblock' = flag
    /\ UNCHANGED <<device, irq_enable, presence, rx, tx, in, out, n, moved, streams>>

\* The locals end with the call.
Return ==
    /\ pc' = "idle"
    /\ in' = 0 /\ out' = 0 /\ n' = 0 /\ left' = 0
    /\ moved' = FALSE /\ nonblock' = FALSE

Goto(next) == pc' = next /\ UNCHANGED locals

\* What can be read in one piece.
Readable_Once(i, o) == IF i >= o THEN i - o ELSE BUF_LEN - 1 - o
Readable(i, o) == IF i >= o THEN i - o ELSE BUF_LEN - o

RxLoad ==
    /\ pc = "rx_load"
    /\ LET now == Min({Readable(rx_in, rx_out), left})
       IN  \/ /\ now = 0 /\ ~moved /\ nonblock
             /\ Return
          \/ /\ now # 0 \/ moved \/ ~nonblock
             /\ in' = rx_in /\ out' = rx_out /\ n' = now
             /\ pc' = IF now # 0 THEN "rx_copy"
                      ELSE IF moved THEN "rx_enable" ELSE "rx_spin"
             /\ UNCHANGED <<left, moved, nonblock>>
    /\ UNCHANGED <<device, irq_enable, presence, rx, tx, streams>>

\* memcpy, out of the buffer
RxCopy ==
    /\ pc = "rx_copy" /\ pc' = "rx_store"
    /\ moved' = TRUE /\ left' = left - n
    /\ got' = (got + n) % Places
    /\ UNCHANGED <<device, irq_enable, presence, rx, tx, in, out, n,
                   nonblock, sent, put, taken>>

RxStore ==
    /\ pc = "rx_store"
    /\ rx_out' = Advance(out, n)
    /\ Goto(IF left > 0 THEN "rx_load" ELSE "rx_enable")
    /\ UNCHANGED <<device, irq_enable, presence, rx_in, rx_buf, tx, streams>>

\* The spin ends, and rx_in is loaded once more to see why.
RxSpin ==
    /\ pc = "rx_spin" /\ Goto("rx_check")
    /\ in # rx_in \/ HostLost
    /\ UNCHANGED <<device, irq_enable, presence, rx, tx, streams>>

RxCheck ==
    /\ pc = "rx_check"
    /\ IF in = rx_in THEN Return ELSE Goto("rx_load")
    /\ UNCHANGED <<device, irq_enable, presence, rx, tx, streams>>

\* With interrupts disabled: there is space in the buffer, enable receive
\* interrupts; and return.
RxEnabled_Never == irq_enable
RxEnabled == irq_enable \cup {"RE"}

RxEnable ==
    /\ pc = "rx_enable" /\ Return
    /\ irq_enable' = RxEnabled
    /\ UNCHANGED <<device, presence, rx, tx, streams>>

-----------------------------------------------------------------------------
(* altera_avalon_jtag_uart_write                                           *)

\* What can be written in one piece, one slot being kept free.
Writable_NoGap(i, o) == IF i < o THEN o - i
                        ELSE IF o > 0 THEN BUF_LEN - i ELSE BUF_LEN - 1 - i
Writable(i, o) == IF i < o THEN o - 1 - i
                  ELSE IF o > 0 THEN BUF_LEN - i ELSE BUF_LEN - 1 - i

TxLoad ==
    /\ pc = "tx_load"
    /\ in' = tx_in /\ out' = tx_out
    /\ n' = Min({Writable(in', out'), left})
    /\ pc' = IF n' # 0 THEN "tx_copy" ELSE "tx_enable"
    /\ UNCHANGED <<device, irq_enable, presence, rx, tx, left, moved,
                   nonblock, streams>>

\* memcpy, into the buffer
TxCopy ==
    /\ pc = "tx_copy" /\ pc' = "tx_store"
    /\ tx_buf' = [i \in Slots |-> IF i \in in .. in + n - 1
                                  THEN (put + i - in) % Places ELSE tx_buf[i]]
    /\ put' = (put + n) % Places
    /\ moved' = TRUE /\ left' = left - n
    /\ UNCHANGED <<device, irq_enable, presence, rx, tx_in, tx_out, in, out,
                   n, nonblock, sent, got, taken>>

TxStore ==
    /\ pc = "tx_store"
    /\ tx_in' = Advance(in, n)
    /\ Goto(IF left > 0 THEN "tx_load" ELSE "tx_enable")
    /\ UNCHANGED <<device, irq_enable, presence, rx, tx_out, tx_buf, streams>>

\* With interrupts disabled: kick the interrupt routine; and return or wait.
TxEnabled_Alone == {"WE"}
TxEnabled == irq_enable \cup {"WE"}

TxEnable ==
    /\ pc = "tx_enable"
    /\ irq_enable' = TxEnabled
    /\ IF left = 0 \/ nonblock THEN Return ELSE Goto("tx_spin")
    /\ UNCHANGED <<device, presence, rx, tx, streams>>

TxSpin ==
    /\ pc = "tx_spin" /\ Goto("tx_check")
    /\ out # tx_out \/ HostLost
    /\ UNCHANGED <<device, irq_enable, presence, rx, tx, streams>>

\* The write gives up at the first sign of inactivity, not at the timeout.
TxCheck ==
    /\ pc = "tx_check"
    /\ IF host_inactive # 0 THEN Return ELSE Goto("tx_load")
    /\ UNCHANGED <<device, irq_enable, presence, rx, tx, streams>>

-----------------------------------------------------------------------------
(* altera_avalon_jtag_uart_close and _ioctl                                *)

Close ==
    /\ pc = "close" /\ Return
    /\ tx_out = tx_in \/ HostLost \/ nonblock
    /\ UNCHANGED <<device, irq_enable, presence, rx, tx, streams>>

\* One more turn of a waiting loop.
Spin ==
    /\ \/ pc = "rx_spin" /\ in = rx_in
       \/ pc = "tx_spin" /\ out = tx_out
       \/ pc = "close" /\ tx_out # tx_in /\ ~nonblock
    /\ ~HostLost
    /\ UNCHANGED vars

SetTimeout(t) ==
    /\ pc = "idle" /\ timeout # INT_MAX
    /\ timeout' = IF t >= 2 /\ t < INT_MAX THEN t ELSE INT_MAX - 1
    /\ UNCHANGED <<device, irq_enable, host_inactive, rx, tx, pc, locals,
                   streams>>

-----------------------------------------------------------------------------

Begin ==
    \/ \E size \in Sizes, flag \in BOOLEAN :
          Call("rx_load", size, flag) \/ Call("tx_load", size, flag)
    \/ \E flag \in BOOLEAN : Call("close", 0, flag)
    \/ \E t \in Timeouts : SetTimeout(t)

Continue ==
    \/ RxLoad \/ RxCopy \/ RxStore \/ RxSpin \/ RxCheck \/ RxEnable
    \/ TxLoad \/ TxCopy \/ TxStore \/ TxEnable \/ TxSpin \/ TxCheck
    \/ Close

Next ==
    \/ HostSends \/ HostTakes
    \/ Irq \/ Timeout
    \/ Begin \/ Continue \/ Spin

Spec == Init /\ [][Next]_vars

\* Interrupts are served and the processor carries on.  The host need not do
\* anything.
FairSpec == Spec /\ WF_vars(Irq) /\ WF_vars(Continue)

-----------------------------------------------------------------------------
(* Properties                                                              *)

\* The stretch of a buffer from one index, over so many slots.
Stretch(buf, from, length) ==
    [k \in 1 .. length |-> buf[(from + k - 1) % BUF_LEN]]

\* The marks of the stream from one place up to another.
Marked(first, past) ==
    [k \in 1 .. (past - first) % Places |-> (first + k - 1) % Places]

\* Characters the program has copied out, or in, without having moved the index.
CopiedOut == IF pc = "rx_store" THEN n ELSE 0
CopiedIn  == IF pc = "tx_store" THEN n ELSE 0

\* Every character the host sent and the program has not got is in the buffer or
\* the FIFO, once and in order, at every step of a copy and whatever the
\* interrupt does in between.
ReceivedInOrder ==
    Stretch(rx_buf, rx_out + CopiedOut, ((rx_in - rx_out) % BUF_LEN) - CopiedOut)
        \o rfifo = Marked(got, sent)

\* So is every character that write accepted and the host has not taken.
SentInOrder ==
    wfifo \o Stretch(tx_buf, tx_out, TxUsed + CopiedIn) = Marked(taken, put)

\* No character is lost, doubled or overtaken on the way between the host and the
\* program, in either direction (altera_avalon_jtag_uart_read.c:122-146,
\* _write.c:107-127, _init.c:132-176).
InOrder == ReceivedInOrder /\ SentInOrder

\* No wake-up is lost.  Receive interrupts are off only while the buffer is full,
\* or while a read that has made room is on its way to enable them; transmit
\* interrupts are off only while there is nothing to send, or while a write is on
\* its way to enable them.
InterruptsArmed ==
    /\ "RE" \notin irq_enable =>
          \/ RxRoom = 0
          \/ moved /\ pc \in {"rx_load", "rx_copy", "rx_store", "rx_enable"}
    /\ "WE" \notin irq_enable =>
          TxUsed = 0 \/ pc \in {"tx_load", "tx_copy", "tx_store", "tx_enable"}

\* A read waits only on an empty buffer, a write only on a full one: the index a
\* call compares in its spin is the one it found.
SpinsForCause ==
    /\ pc = "rx_spin" /\ in = rx_in => rx_in = rx_out
    /\ pc = "tx_spin" /\ out = tx_out => TxUsed = BUF_LEN - 1

\* A read ends when there is something to read, and a write or a close ends when
\* the host keeps taking what is sent or is lost for good.
HostSettled == []<>(wfifo = <<>>) \/ <>[]HostLost

Writing == pc \in {"tx_load", "tx_copy", "tx_store", "tx_enable", "tx_spin",
                   "tx_check", "close"}

CallsEnd ==
    /\ (pc = "rx_load" /\ rfifo # <<>>) ~> pc = "idle"
    /\ HostSettled => (Writing ~> pc = "idle")
==============================================================================
