----------------------------- MODULE PolledUart -----------------------------
(***************************************************************************)
(* The small driver of the JTAG UART, which the firmware is built with:    *)
(*   drivers/src/altera_avalon_jtag_uart_read.c    small driver            *)
(*   drivers/src/altera_avalon_jtag_uart_write.c   small driver            *)
(*                                                                         *)
(* It has no buffer and no interrupt: each turn of a loop reads a register *)
(* of the device once.  Characters carry their place in the stream, modulo *)
(* Places.                                                                 *)
(***************************************************************************)
EXTENDS Integers, Sequences

CONSTANTS FifoDepth,   \* characters a hardware FIFO holds
          Sizes,       \* the sizes of the program's requests
          Places       \* see above

\* What the constants must be; the modules that are run assume it.
PolledAssumption ==
    /\ FifoDepth \in Nat \ {0} /\ Sizes \subseteq Nat
    /\ Places \in Nat /\ Places > FifoDepth + 1

VARIABLES
    rfifo, wfifo,      \* characters waiting to be read; written, not yet taken
    pc, left,          \* the call in progress, and end - ptr
    moved,             \* ptr != buffer
    nonblock,          \* O_NONBLOCK
    sent, got,         \* history: characters the host sent; the program got
    put, taken         \* history: characters the program put; the host took

device == <<rfifo, wfifo>>
call == <<pc, left, moved, nonblock>>
streams == <<sent, got, put, taken>>
vars == <<device, call, streams>>

Marks == 0 .. Places-1

TypeOK ==
    /\ rfifo \in Seq(Marks) /\ Len(rfifo) <= FifoDepth
    /\ wfifo \in Seq(Marks) /\ Len(wfifo) <= FifoDepth
    /\ pc \in {"idle", "read", "write"} /\ left \in Nat
    /\ {moved, nonblock} \subseteq BOOLEAN /\ {sent, got, put, taken} \subseteq Marks

Init ==
    /\ rfifo = <<>> /\ wfifo = <<>>
    /\ pc = "idle" /\ left = 0 /\ moved = FALSE /\ nonblock = FALSE
    /\ sent = 0 /\ got = 0 /\ put = 0 /\ taken = 0

Plus(x) == (x + 1) % Places

-----------------------------------------------------------------------------
(* The host, external                                                      *)

HostSends ==
    /\ Len(rfifo) < FifoDepth
    /\ rfifo' = Append(rfifo, sent) /\ sent' = Plus(sent)
    /\ UNCHANGED <<wfifo, call, got, put, taken>>

HostTakes ==
    /\ wfifo # <<>>
    /\ wfifo' = Tail(wfifo) /\ taken' = Plus(taken)
    /\ UNCHANGED <<rfifo, call, sent, got, put>>

-----------------------------------------------------------------------------
(* The driver.  A definition with an underscore in its name is a variant of *)
(* the one below it with a fault: the properties must tell them apart.      *)

Call(which, size, flag) ==
    /\ pc = "idle" /\ pc' = which /\ left' = size /\ nonblock' = flag
    /\ UNCHANGED <<device, moved, streams>>

Return == pc' = "idle" /\ left' = 0 /\ moved' = FALSE /\ nonblock' = FALSE

\* A read is over at the end of the buffer, or when there is nothing more at once.
ReadOver == left = 0 \/ (rfifo = <<>> /\ (moved \/ nonblock))

ReadReturns ==
    /\ pc = "read" /\ ReadOver
    /\ Return
    /\ UNCHANGED <<device, streams>>

ReadChar ==
    /\ pc = "read" /\ left > 0 /\ rfifo # <<>>
    /\ rfifo' = Tail(rfifo) /\ got' = Plus(got)
    /\ left' = left - 1 /\ moved' = TRUE
    /\ UNCHANGED <<wfifo, pc, nonblock, sent, put, taken>>

\* Room in the FIFO.  O_NONBLOCK is not looked at.
WSpace_Late == Len(wfifo) <= FifoDepth
WSpace == Len(wfifo) < FifoDepth

WriteReturns ==
    /\ pc = "write" /\ left = 0
    /\ Return
    /\ UNCHANGED <<device, streams>>

\* The device drops what it has no room for.
WriteChar ==
    /\ pc = "write" /\ left > 0 /\ WSpace
    /\ wfifo' = IF Len(wfifo) < FifoDepth THEN Append(wfifo, put) ELSE wfifo
    /\ put' = Plus(put) /\ left' = left - 1
    /\ UNCHANGED <<rfifo, pc, moved, nonblock, sent, got, taken>>

\* One more turn of a waiting loop.
Spin ==
    /\ \/ pc = "read" /\ ~ReadOver /\ rfifo = <<>>
       \/ pc = "write" /\ left > 0 /\ ~WSpace
    /\ UNCHANGED vars

-----------------------------------------------------------------------------

Begin == \E which \in {"read", "write"}, size \in Sizes, flag \in BOOLEAN :
            Call(which, size, flag)
Continue == ReadReturns \/ ReadChar \/ WriteReturns \/ WriteChar

Next == HostSends \/ HostTakes \/ Begin \/ Continue \/ Spin

Spec == Init /\ [][Next]_vars

\* The processor carries on.  The host need not do anything.
FairSpec == Spec /\ WF_vars(Continue)

-----------------------------------------------------------------------------
(* Properties                                                              *)

Marked(first, past) == [k \in 1 .. (past - first) % Places |-> (first + k - 1) % Places]

\* The FIFOs hold, in order, exactly what the host sent and the program has not got
\* and what the program wrote and the host has not taken: no character is written
\* into a full FIFO (altera_avalon_jtag_uart_write.c:71).
PolledInOrder ==
    /\ TypeOK
    /\ rfifo = Marked(got, sent)
    /\ wfifo = Marked(taken, put)

\* A read of something ends when there is something to read, a write when the host
\* keeps taking what is written; without a host a write waits for ever.
PolledCallsEnd ==
    /\ (pc = "read" /\ rfifo # <<>>) ~> pc = "idle"
    /\ []<>(wfifo = <<>>) => (pc = "write" ~> pc = "idle")
==============================================================================
