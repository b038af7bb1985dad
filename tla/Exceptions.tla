----------------------------- MODULE Exceptions ------------------------------
(***************************************************************************)
(* An exception from its instruction back to it: alt_exception, what every *)
(* exception enters by and leaves by (HAL/src/alt_exception_entry.S), the  *)
(* test for an interrupt (alt_irq_entry.S), and the handler a program may  *)
(* register for the exceptions of its instructions                         *)
(* (alt_instruction_exception_entry.c, _register.c).                       *)
(*                                                                         *)
(*   pc, PIE    the program: its next instruction, and whether interrupts  *)
(*              are enabled                                                *)
(*   faulty     the instructions that cannot be executed as things are     *)
(*   ipending   whether a device requests an interrupt                     *)
(*   EXCEPTIONS, BADADDR   the registers with the cause of the last        *)
(*              exception and the address it was about                     *)
(*   ea, estatus   what the processor keeps of the program on an exception *)
(*   at, frame  where the exception code is, and its words 68 and 72: the  *)
(*              status, and the instruction it returns to                  *)
(*   registered alt_instruction_exception_handler: whether there is one    *)
(*   told       what a handler was told: the cause, the instruction and    *)
(*              the address, and whether that address is one               *)
(*   done, passed   history: how often each instruction was executed, and  *)
(*              those the handler had passed over                          *)
(*   meant      history: the cause and the address of what happened last   *)
(*   has_info   NIOS2_HAS_EXTRA_EXCEPTION_INFO, of the processor built for *)
(*                                                                         *)
(* Instructions are numbered; 2^2 bytes of an address are one of them.  A  *)
(* handler takes no exception itself: ea is read again after it returns    *)
(* and would not be its own any more (alt_exception_entry.S:285).          *)
(***************************************************************************)
EXTENDS Integers

CONSTANTS
    Length,         \* instructions of the program
    Causes          \* of the exceptions of instructions that occur

VARIABLES pc, PIE, faulty, ipending, EXCEPTIONS, BADADDR, ea, estatus, at, frame,
          registered, told, done, passed, meant, has_info

program == <<pc, faulty, done>>
processor == <<has_info, ipending, EXCEPTIONS, BADADDR, ea, estatus, meant>>
vars == <<program, PIE, processor, at, frame, registered, told, passed>>

\* alt_exception_cause: the ones a program may meet.
NOT_PRESENT == -1
INTERRUPT == 2
TRAP_INST == 3
UNIMPLEMENTED_INST == 4
ILLEGAL_INST == 5
MISALIGNED_DATA_ADDR == 6
MISALIGNED_TARGET_PC == 7
DIVISION_ERROR == 8
SUPERVISOR_ONLY_DATA_ADDR == 11
TLB_READ_PERM_VIOLATION == 14
TLB_WRITE_PERM_VIOLATION == 15
MPU_DATA_REGION_VIOLATION == 17
ECC_DATA_ERR == 21

\* alt_exception_cause_generated_bad_addr.
GeneratedBadAddr_WithoutInfo(cause) ==
    cause \in {NOT_PRESENT, SUPERVISOR_ONLY_DATA_ADDR, MISALIGNED_DATA_ADDR,
               MISALIGNED_TARGET_PC, TLB_READ_PERM_VIOLATION, TLB_WRITE_PERM_VIOLATION,
               MPU_DATA_REGION_VIOLATION, ECC_DATA_ERR}

GeneratedBadAddr(cause) ==
    cause \in {SUPERVISOR_ONLY_DATA_ADDR, MISALIGNED_DATA_ADDR, MISALIGNED_TARGET_PC,
               TLB_READ_PERM_VIOLATION, TLB_WRITE_PERM_VIOLATION,
               MPU_DATA_REGION_VIOLATION, ECC_DATA_ERR}

\* Those for which the processor writes BADADDR, which keeps its value otherwise.
HasAddress(cause) ==
    cause \in {MISALIGNED_DATA_ADDR, MISALIGNED_TARGET_PC, SUPERVISOR_ONLY_DATA_ADDR,
               TLB_READ_PERM_VIOLATION, TLB_WRITE_PERM_VIOLATION,
               MPU_DATA_REGION_VIOLATION, ECC_DATA_ERR}

ExceptionAssumption == Length \in Nat /\ INTERRUPT \notin Causes

Instructions == 0 .. Length - 1
Nobody == [cause |-> NOT_PRESENT, pc |-> -1, address |-> 0, valid |-> FALSE]

TypeOK ==
    /\ pc \in 0 .. Length /\ PIE \in BOOLEAN /\ faulty \subseteq Instructions
    /\ ipending \in BOOLEAN
    /\ ea \in 0 .. Length + 1 /\ estatus \in BOOLEAN
    /\ at \in {"program", "entry", "test", "irq", "notirq", "handler", "exit", "hang"}
    /\ done \in [Instructions -> 0 .. 1]
    /\ passed \subseteq Instructions

Init ==
    /\ pc = 0 /\ PIE \in BOOLEAN /\ faulty \in SUBSET Instructions
    /\ ipending = FALSE /\ EXCEPTIONS = INTERRUPT /\ BADADDR = 0
    /\ ea = 0 /\ estatus = FALSE /\ at = "program"
    /\ frame = [estatus |-> FALSE, ea |-> 0]
    /\ registered \in BOOLEAN /\ told = Nobody
    /\ done = [i \in Instructions |-> 0] /\ passed = {}
    /\ has_info \in BOOLEAN
    /\ meant = [cause |-> NOT_PRESENT, address |-> 0]

-----------------------------------------------------------------------------
(* The processor, the program and the devices, external                    *)

Execute ==
    /\ at = "program" /\ pc < Length /\ pc \notin faulty
    /\ done' = [done EXCEPT ![pc] = @ + 1] /\ pc' = pc + 1
    /\ UNCHANGED <<faulty, PIE, processor, at, frame, registered, told, passed>>

\* ea is the instruction after the one that is not executed.
Take(cause, address) ==
    /\ ea' = pc + 1 /\ estatus' = PIE /\ PIE' = FALSE /\ at' = "entry"
    /\ EXCEPTIONS' = cause
    /\ BADADDR' = IF HasAddress(cause) THEN address ELSE BADADDR
    /\ meant' = [cause |-> cause, address |-> address]
    /\ UNCHANGED <<program, ipending, frame, registered, told, passed, has_info>>

Fault ==
    /\ at = "program" /\ pc \in faulty
    /\ \E cause \in Causes : Take(cause, pc + 1)

Interrupt == at = "program" /\ pc < Length /\ PIE /\ ipending /\ Take(INTERRUPT, 0)

\* A device asks, and may take its request back before it is looked at.
Request ==
    /\ ipending' = ~ipending
    /\ UNCHANGED <<program, PIE, has_info, EXCEPTIONS, BADADDR, ea, estatus, meant, at, frame,
                   registered, told, passed>>

\* The program disables interrupts and enables them again between two instructions.
Disable ==
    /\ at = "program" /\ PIE' = ~PIE
    /\ UNCHANGED <<program, processor, at, frame, registered, told, passed>>

\* alt_instruction_exception_register; a null handler takes it away.
alt_instruction_exception_register ==
    /\ at = "program" /\ registered' = ~registered
    /\ UNCHANGED <<program, PIE, processor, at, frame, told, passed>>

-----------------------------------------------------------------------------
(* alt_exception                                                           *)

Goes(here, there) == at = here /\ at' = there /\ UNCHANGED <<program, PIE, registered>>

\* The program's instruction is to be issued again, which is right for an interrupt.
Entry_Next ==
    /\ Goes("entry", "test")
    /\ frame' = [estatus |-> estatus, ea |-> ea]
    /\ UNCHANGED <<processor, told, passed>>

Entry ==
    /\ Goes("entry", "test")
    /\ frame' = [estatus |-> estatus, ea |-> ea - 1]
    /\ UNCHANGED <<processor, told, passed>>

\* An interrupt if they were enabled and there is one: the cause is not asked.
Test ==
    /\ Goes("test", IF frame.estatus /\ ipending THEN "irq" ELSE "notirq")
    /\ UNCHANGED <<processor, frame, told, passed>>

\* alt_irq_handler serves the requests until there is none.
IrqHandler ==
    /\ Goes("irq", "exit")
    /\ ipending' = FALSE
    /\ UNCHANGED <<has_info, EXCEPTIONS, BADADDR, ea, estatus, meant, frame, told, passed>>

\* The instruction is to be passed over.  There is no emulation and no handler of
\* traps in this build: what is left goes to the handler that is registered, or hangs.
NotIrq ==
    /\ at = "notirq"
    /\ at' = IF registered THEN "handler" ELSE "hang"
    /\ frame' = [frame EXCEPT !.ea = ea]
    /\ LET cause == IF has_info THEN EXCEPTIONS ELSE NOT_PRESENT
       IN told' = IF registered
                  THEN [cause |-> cause, pc |-> ea - 1,
                        address |-> IF has_info THEN BADADDR ELSE 0,
                        valid |-> GeneratedBadAddr(cause)]
                  ELSE told
    /\ UNCHANGED <<program, PIE, registered, processor, passed>>

\* The handler has the instruction passed over, or has put right what was wrong and
\* has it issued again.
Skip ==
    /\ Goes("handler", "exit")
    /\ passed' = passed \cup {told.pc}
    /\ UNCHANGED <<processor, frame, told>>

Reissue_Skips ==
    /\ at = "handler" /\ at' = "exit"
    /\ faulty' = faulty \ {told.pc}
    /\ UNCHANGED <<pc, done, PIE, registered, processor, frame, told, passed>>

Reissue ==
    /\ at = "handler" /\ at' = "exit"
    /\ faulty' = faulty \ {told.pc}
    /\ frame' = [frame EXCEPT !.ea = ea - 1]
    /\ UNCHANGED <<pc, done, PIE, registered, processor, told, passed>>

Exit ==
    /\ at = "exit" /\ at' = "program"
    /\ pc' = frame.ea /\ PIE' = frame.estatus
    /\ told' = Nobody
    /\ UNCHANGED <<faulty, done, processor, frame, registered, passed>>

Next ==
    \/ Execute \/ Fault \/ Interrupt \/ Request \/ Disable
    \/ alt_instruction_exception_register
    \/ Entry \/ Test \/ IrqHandler \/ NotIrq \/ Skip \/ Reissue \/ Exit

Spec == Init /\ [][Next]_vars

-----------------------------------------------------------------------------
(* Properties                                                              *)

\* Every instruction is executed once and in order, but the ones the handler had
\* passed over, whatever is requested and taken back around it
\* (alt_exception_entry.S:165-167, 196, 279-286).
InstructionsKept ==
    at # "exit" =>
        \A i \in Instructions : done[i] = IF i < pc /\ i \notin passed THEN 1 ELSE 0

\* A handler is told of the instruction the program is at, which cannot be executed
\* unless a request was taken back; and the address it may use is the one meant.
HandlerTold ==
    told # Nobody =>
        /\ told.pc = pc
        /\ pc \in faulty \/ meant.cause = INTERRUPT \/ at = "exit"
        /\ told.valid => told.address = meant.address
        /\ has_info => told.cause = meant.cause

ExceptionsSound == TypeOK /\ InstructionsKept /\ HandlerTold
===============================================================================
