------------------------------ MODULE LayerProofs ------------------------------
(***************************************************************************)
(* Proofs of the safety properties of Exceptions, Timestamp, BusySleep,    *)
(* UncachedMemory, Startup and Profiler, the layers below the input and    *)
(* output of a program, and of Printf, which formats its output: for every *)
(* program and set of causes, every width of the registers of the timer,   *)
(* every word and speed of the processor, every size of caches and memory  *)
(* and layout of the program in it, all functions that call one another    *)
(* however often, and every format and its arguments.                      *)
(***************************************************************************)
EXTENDS Integers, Sequences, FiniteSetTheorems, WellFoundedInduction, TLAPS

CONSTANTS Length, Causes, Half, Word, LoopsPerUs,
          LineSize, DCacheLines, ICacheLines, Size,
          BlockSizes, MaxBlocks,
          Sections, BssStart, BssEnd, ExceptionWords, Devices, StateOf,
          Functions, Callers, Increment, TextBytes, BucketBytes, MaxCalls,
          Bits, ALT_PUTBUF_SIZE, LogFormats, Formats, Values, Strings

VARIABLES pc, PIE, faulty, ipending, EXCEPTIONS, BADADDR, ea, estatus, at, frame,
          registered, told, done, passed, meant, has_info,
          freq, counter, period, run, cont, snap, stamp_pc, lower, elapsed, stamp_asked,
          result,
          sleep_pc, us, turns, reg, loops, sleep_asked,
          store, blocks, watched, last,
          boot_pc, boot_at, todo, boot_PIE, ienable, changed,
          call, head, entry, arc, slab_ptr, slab_size, brk, others, tick_rate,
          pcsample_need_init, starts, hits, calls, raced, torn,
          printf_pc, fmt, state, spec, buf, printed, pieces

Exc == INSTANCE Exceptions
Stamp == INSTANCE Timestamp WITH pc <- stamp_pc, asked <- stamp_asked
Sleep == INSTANCE BusySleep WITH pc <- sleep_pc, asked <- sleep_asked, i <- turns
C == INSTANCE Caches WITH Addresses <- 0 .. Size-1, Values <- {}
Mem == INSTANCE UncachedMemory WITH
    Addresses <- 0 .. Size-1, Sizes <- BlockSizes, h <- store
Boot == INSTANCE Startup WITH
    Exceptions <- ExceptionWords, h <- store, pc <- boot_pc, at <- boot_at, PIE <- boot_PIE
Prof == INSTANCE Profiler
Printer == INSTANCE Printf WITH pc <- printf_pc, out <- printed

LEMMA SmallestOf ==
    ASSUME NEW S \in SUBSET Nat, S # {}
    PROVE  \E x \in S : \A y \in S : x <= y
<1> DEFINE T == {0 .. x : x \in S}
<1>1. T \subseteq FiniteSubsetsOf(Nat) /\ T # {}
  <2>1. ASSUME NEW x \in S PROVE 0 .. x \in FiniteSubsetsOf(Nat)
      BY FS_Interval DEF FiniteSubsetsOf
  <2> QED BY <2>1
<1>2. PICK m \in T : \A y \in T : ~(<<y, m>> \in StrictSubsetOrdering(Nat))
    BY <1>1, WFMin, FS_StrictSubsetOrderingWellFounded
<1>3. PICK x \in S : m = 0 .. x
    OBVIOUS
<1>4. ASSUME NEW y \in S PROVE x <= y
  <2> SUFFICES ASSUME y < x PROVE FALSE
      OBVIOUS
  <2>1. 0 .. y \subseteq 0 .. x /\ x \in 0 .. x /\ x \notin 0 .. y
      OBVIOUS
  <2>2. 0 .. y \in T /\ 0 .. y \in SUBSET Nat /\ 0 .. x \in SUBSET Nat
      OBVIOUS
  <2>3. <<0 .. y, 0 .. x>> \in StrictSubsetOrdering(Nat)
      BY <2>1, <2>2 DEF StrictSubsetOrdering
  <2> QED BY <1>2, <1>3, <2>2, <2>3
<1> QED BY <1>4

-----------------------------------------------------------------------------
(* Exceptions                                                              *)

\* The instruction the program goes on with once it runs again.
NextPc == IF at = "exit" THEN frame.ea ELSE pc

\* What the exception code keeps: the instruction that was not executed, and from the
\* entry on where to return to.
FrameSound ==
    /\ frame \in [estatus : BOOLEAN, ea : Int]
    /\ at # "program" => pc < Length /\ ea = pc + 1
    /\ at \in {"test", "irq", "notirq"} => frame.ea = pc
    /\ at = "handler" => frame.ea = pc + 1
    /\ at = "exit" => frame.ea \in {pc, pc + 1}

\* Every instruction before the next one was executed once or passed over.
Counted ==
    /\ \A n \in Exc!Instructions : done[n] = IF n < NextPc /\ n \notin passed THEN 1 ELSE 0
    /\ \A n \in passed : n < NextPc

\* The registers with the cause and the address are of what happened last.
CauseKept ==
    at # "program" =>
        /\ EXCEPTIONS = meant.cause
        /\ Exc!HasAddress(meant.cause) => BADADDR = meant.address
        /\ at # "exit" => pc \in faulty \/ meant.cause = Exc!INTERRUPT

\* A handler is told of it, and nobody is told anything else.
ToldSound ==
    /\ at \notin {"handler", "exit"} => told = Exc!Nobody
    /\ at = "handler" => told.pc = pc
    /\ Exc!HandlerTold

ExcInv == Exc!TypeOK /\ FrameSound /\ Counted /\ CauseKept /\ ToldSound

LEMMA ExcInit == ASSUME Exc!ExceptionAssumption PROVE Exc!Init => ExcInv
<1> SUFFICES ASSUME Exc!Init PROVE ExcInv
    OBVIOUS
<1>1. Exc!TypeOK
  <2>1. 0 \in 0 .. Length /\ 0 \in 0 .. Length + 1 /\ Length \in Nat
      BY DEF Exc!ExceptionAssumption
  <2>2. done \in [Exc!Instructions -> 0 .. 1]
      BY DEF Exc!Init
  <2> QED BY <2>1, <2>2 DEF Exc!Init, Exc!TypeOK
<1>2. FrameSound /\ CauseKept
    BY DEF Exc!Init, FrameSound, CauseKept
<1>3. Counted
    BY DEF Exc!Init, Counted, NextPc, Exc!Instructions
<1>4. ToldSound
    BY DEF Exc!Init, ToldSound, Exc!HandlerTold
<1> QED BY <1>1, <1>2, <1>3, <1>4 DEF ExcInv

LEMMA ExecuteKept == ASSUME Exc!ExceptionAssumption, ExcInv, Exc!Execute PROVE ExcInv'
<1>1. /\ at = "program" /\ at' = at /\ pc < Length /\ pc' = pc + 1 /\ pc \in 0 .. Length
      /\ done' = [done EXCEPT ![pc] = @ + 1] /\ passed' = passed
      /\ pc \in Exc!Instructions
    BY DEF Exc!Execute, ExcInv, Exc!TypeOK, Exc!ExceptionAssumption, Exc!Instructions
<1>2. done[pc] = 0 /\ pc \notin passed
  <2>1. ~(pc < NextPc)
      BY <1>1 DEF NextPc
  <2> QED BY <1>1, <2>1 DEF ExcInv, Counted
<1>3. done' = [done EXCEPT ![pc] = 1] /\ done \in [Exc!Instructions -> 0 .. 1]
    BY <1>1, <1>2 DEF ExcInv, Exc!TypeOK
<1>4. Exc!TypeOK'
    BY <1>1, <1>3 DEF ExcInv, Exc!TypeOK, Exc!Execute, Exc!processor, Exc!ExceptionAssumption
<1>5. Counted'
  <2>1. NextPc = pc /\ NextPc' = pc + 1 /\ Exc!Instructions \subseteq Int
      BY <1>1 DEF NextPc, Exc!Instructions
  <2>2. ASSUME NEW n \in Exc!Instructions
        PROVE  done'[n] = IF n < pc + 1 /\ n \notin passed THEN 1 ELSE 0
    <3>1. n \in Int /\ pc \in Int
        BY <1>1, <2>1
    <3>2. CASE n = pc
        BY <1>1, <1>2, <1>3, <3>1, <3>2
    <3>3. CASE n # pc
      <4>1. done'[n] = done[n] /\ (n < pc + 1 <=> n < pc)
          BY <1>3, <3>1, <3>3
      <4> QED BY <2>1, <4>1 DEF ExcInv, Counted
    <3> QED BY <3>2, <3>3
  <2>3. ASSUME NEW n \in passed PROVE n < pc + 1
    <3>1. n \in Int /\ n < pc
        BY <2>1 DEF ExcInv, Exc!TypeOK, Counted
    <3> QED BY <1>1, <3>1
  <2> QED BY <1>1, <2>1, <2>2, <2>3 DEF Counted
<1>6. FrameSound' /\ CauseKept' /\ ToldSound'
    BY <1>1 DEF ExcInv, FrameSound, CauseKept, ToldSound, Exc!HandlerTold, Exc!Execute, Exc!processor
<1> QED BY <1>4, <1>5, <1>6 DEF ExcInv

\* An exception is taken between two instructions.
LEMMA TakeKept ==
    ASSUME Exc!ExceptionAssumption, ExcInv, at = "program", pc < Length, NEW cause, NEW address,
           pc \in faulty \/ cause = Exc!INTERRUPT, Exc!Take(cause, address)
    PROVE  ExcInv'
<1>1. Exc!TypeOK'
  <2>1. estatus' \in BOOLEAN /\ PIE' \in BOOLEAN
      BY DEF ExcInv, Exc!TypeOK, Exc!Take
  <2>2. ea' \in 0 .. Length + 1 /\ at' = "entry"
      BY DEF ExcInv, Exc!TypeOK, Exc!Take, Exc!ExceptionAssumption
  <2>3. UNCHANGED <<pc, faulty, done, ipending, passed>>
      BY DEF Exc!Take, Exc!program
  <2> QED BY <2>1, <2>2, <2>3 DEF ExcInv, Exc!TypeOK
<1>2. FrameSound'
    BY DEF ExcInv, Exc!TypeOK, FrameSound, Exc!Take, Exc!program
<1>3. Counted'
    BY DEF ExcInv, Counted, NextPc, Exc!Take, Exc!program
<1>4. CauseKept'
    BY DEF CauseKept, Exc!Take, Exc!program
<1>5. ToldSound'
    BY DEF ExcInv, ToldSound, Exc!HandlerTold, Exc!Take, Exc!program
<1> QED BY <1>1, <1>2, <1>3, <1>4, <1>5 DEF ExcInv

\* What a device or the program does to requests and masks and to the registration.
LEMMA AroundKept ==
    ASSUME ExcInv, Exc!Request \/ Exc!Disable \/ Exc!alt_instruction_exception_register PROVE ExcInv'
<1>1. UNCHANGED <<Exc!program, has_info, EXCEPTIONS, BADADDR, ea, estatus, meant, at, frame,
                  told, passed>>
    BY DEF Exc!Request, Exc!Disable, Exc!alt_instruction_exception_register, Exc!processor
<1>2. PIE' \in BOOLEAN /\ ipending' \in BOOLEAN
    BY DEF Exc!Request, Exc!Disable, Exc!alt_instruction_exception_register, Exc!processor, ExcInv, Exc!TypeOK
<1>3. Exc!TypeOK'
    BY <1>1, <1>2 DEF ExcInv, Exc!TypeOK, Exc!program
<1>4. FrameSound' /\ Counted' /\ CauseKept' /\ ToldSound'
    BY <1>1 DEF ExcInv, FrameSound, Counted, NextPc, CauseKept, ToldSound, Exc!HandlerTold, Exc!program
<1> QED BY <1>3, <1>4 DEF ExcInv

LEMMA EntryKept == ASSUME Exc!ExceptionAssumption, ExcInv, Exc!Entry \/ Exc!Test \/ Exc!IrqHandler PROVE ExcInv'
<1>1. /\ UNCHANGED <<Exc!program, PIE, has_info, EXCEPTIONS, BADADDR, ea, estatus, meant, told,
                     passed>>
      /\ at \in {"entry", "test", "irq"} /\ at' \in {"test", "irq", "notirq", "exit"}
      /\ at = "entry" <=> at' = "test"
      /\ at' = "exit" => at = "irq"
      /\ ipending' \in BOOLEAN
      /\ at # "entry" => frame' = frame
      /\ at = "entry" => frame' = [estatus |-> estatus, ea |-> ea - 1]
    BY DEF Exc!Entry, Exc!Test, Exc!IrqHandler, Exc!Goes, Exc!processor, ExcInv, Exc!TypeOK
<1>2. Exc!TypeOK'
    BY <1>1 DEF ExcInv, Exc!TypeOK, Exc!program
<1>3. FrameSound' /\ (at' = "exit" => frame'.ea = pc)
    BY <1>1 DEF ExcInv, FrameSound, Exc!TypeOK, Exc!program
<1>4. NextPc' = NextPc
    BY <1>1, <1>3 DEF NextPc, Exc!program
<1>5. Counted'
    BY <1>1, <1>4 DEF ExcInv, Counted, Exc!program
<1>6. CauseKept' /\ ToldSound'
    BY <1>1 DEF ExcInv, CauseKept, ToldSound, Exc!HandlerTold, Exc!program
<1> QED BY <1>2, <1>3, <1>5, <1>6 DEF ExcInv

\* The handler is told what the processor keeps of the exception.
LEMMA NotIrqKept == ASSUME Exc!ExceptionAssumption, ExcInv, Exc!NotIrq PROVE ExcInv'
<1>1. /\ at = "notirq" /\ at' \in {"handler", "hang"}
      /\ UNCHANGED <<Exc!program, PIE, Exc!processor, passed>>
      /\ frame' = [frame EXCEPT !.ea = ea] /\ pc < Length /\ ea = pc + 1 /\ told = Exc!Nobody
    BY DEF Exc!NotIrq, ExcInv, FrameSound, ToldSound
<1>2. Exc!TypeOK'
    BY <1>1 DEF ExcInv, Exc!TypeOK, Exc!program, Exc!processor
<1>3. frame' \in [estatus : BOOLEAN, ea : Int] /\ frame'.ea = pc + 1
    BY <1>1 DEF ExcInv, FrameSound, Exc!TypeOK
<1>4. FrameSound'
    BY <1>1, <1>3 DEF FrameSound, Exc!program, Exc!processor
<1>5. NextPc' = pc /\ NextPc = pc
    BY <1>1 DEF NextPc, Exc!program
<1>6. Counted'
    BY <1>1, <1>5 DEF ExcInv, Counted, Exc!program
<1>7. CauseKept'
    BY <1>1 DEF ExcInv, CauseKept, Exc!program, Exc!processor
<1>8. ToldSound'
  <2>1. CASE at' = "hang"
    <3>1. told' = told
        BY <2>1 DEF Exc!NotIrq
    <3> QED BY <1>1, <2>1, <3>1 DEF ToldSound, Exc!HandlerTold
  <2>2. CASE at' = "handler"
    <3> DEFINE cause == IF has_info THEN EXCEPTIONS ELSE Exc!NOT_PRESENT
    <3>1. told' = [cause |-> cause, pc |-> ea - 1,
                   address |-> IF has_info THEN BADADDR ELSE 0,
                   valid |-> Exc!GeneratedBadAddr(cause)]
        BY <2>2 DEF Exc!NotIrq
    <3>2. told'.pc = pc /\ pc' = pc
        BY <1>1, <3>1 DEF Exc!program, ExcInv, Exc!TypeOK
    <3>3. Exc!GeneratedBadAddr(cause) => has_info /\ Exc!HasAddress(EXCEPTIONS)
        BY DEF Exc!GeneratedBadAddr, Exc!HasAddress, Exc!NOT_PRESENT, Exc!SUPERVISOR_ONLY_DATA_ADDR,
               Exc!MISALIGNED_DATA_ADDR, Exc!MISALIGNED_TARGET_PC, Exc!TLB_READ_PERM_VIOLATION,
               Exc!TLB_WRITE_PERM_VIOLATION, Exc!MPU_DATA_REGION_VIOLATION, Exc!ECC_DATA_ERR
    <3>4. EXCEPTIONS = meant.cause /\ (Exc!HasAddress(meant.cause) => BADADDR = meant.address)
          /\ (pc \in faulty \/ meant.cause = Exc!INTERRUPT)
        BY <1>1 DEF ExcInv, CauseKept
    <3>5. Exc!HandlerTold'
      <4>1. told'.valid => told'.address = meant.address
          BY <3>1, <3>3, <3>4
      <4>2. has_info => told'.cause = meant.cause
          BY <3>1, <3>4
      <4> QED BY <1>1, <3>2, <3>4, <4>1, <4>2 DEF Exc!HandlerTold, Exc!program, Exc!processor
    <3> QED BY <2>2, <3>2, <3>5 DEF ToldSound
  <2> QED BY <1>1, <2>1, <2>2
<1> QED BY <1>2, <1>4, <1>6, <1>7, <1>8 DEF ExcInv

LEMMA SkipKept == ASSUME Exc!ExceptionAssumption, ExcInv, Exc!Skip PROVE ExcInv'
<1>1. /\ at = "handler" /\ at' = "exit" /\ told.pc = pc /\ passed' = passed \cup {pc}
      /\ UNCHANGED <<Exc!program, PIE, Exc!processor, frame, told>>
      /\ pc < Length /\ ea = pc + 1 /\ frame.ea = pc + 1
    BY DEF Exc!Skip, Exc!Goes, ExcInv, FrameSound, ToldSound
<1>2. pc \in Exc!Instructions /\ Exc!Instructions \subseteq Int
    BY <1>1 DEF ExcInv, Exc!TypeOK, Exc!ExceptionAssumption, Exc!Instructions
<1>3. Exc!TypeOK'
    BY <1>1, <1>2 DEF ExcInv, Exc!TypeOK, Exc!program, Exc!processor
<1>4. FrameSound' /\ CauseKept'
    BY <1>1 DEF ExcInv, FrameSound, CauseKept, Exc!program, Exc!processor
<1>5. NextPc = pc /\ NextPc' = pc + 1
    BY <1>1 DEF NextPc
<1>6. ASSUME NEW n \in Exc!Instructions
      PROVE  done[n] = IF n < pc + 1 /\ n \notin passed \cup {pc} THEN 1 ELSE 0
    BY <1>2, <1>5 DEF ExcInv, Counted
<1>7. ASSUME NEW n \in passed \cup {pc} PROVE n < pc + 1
  <2>1. n \in Int
      BY <1>2 DEF ExcInv, Exc!TypeOK
  <2>2. n \in passed => n < pc
      BY <1>5 DEF ExcInv, Counted
  <2> QED BY <1>2, <2>1, <2>2
<1>8. Counted'
    BY <1>1, <1>5, <1>6, <1>7 DEF Counted, Exc!program
<1>9. ToldSound'
    BY <1>1 DEF ExcInv, ToldSound, Exc!HandlerTold, Exc!program, Exc!processor
<1> QED BY <1>3, <1>4, <1>8, <1>9 DEF ExcInv

LEMMA ReissueKept == ASSUME Exc!ExceptionAssumption, ExcInv, Exc!Reissue PROVE ExcInv'
<1>1. /\ at = "handler" /\ at' = "exit" /\ told.pc = pc /\ faulty' = faulty \ {pc}
      /\ frame' = [frame EXCEPT !.ea = ea - 1]
      /\ UNCHANGED <<pc, done, PIE, Exc!processor, told, passed>>
      /\ pc < Length /\ ea = pc + 1 /\ frame.ea = pc + 1 /\ pc \in 0 .. Length
    BY DEF Exc!Reissue, ExcInv, FrameSound, ToldSound, Exc!TypeOK
<1>2. Exc!TypeOK'
    BY <1>1 DEF ExcInv, Exc!TypeOK, Exc!processor
<1>3. frame' \in [estatus : BOOLEAN, ea : Int] /\ frame'.ea = pc
  <2>1. ea - 1 = pc /\ pc \in Int
      BY <1>1
  <2> QED BY <1>1, <2>1 DEF ExcInv, FrameSound
<1>4. FrameSound' /\ CauseKept'
    BY <1>1, <1>3 DEF ExcInv, FrameSound, CauseKept, Exc!processor
<1>5. NextPc' = pc /\ NextPc = pc
    BY <1>1, <1>3 DEF NextPc
<1>6. Counted'
    BY <1>1, <1>5 DEF ExcInv, Counted
<1>7. ToldSound'
    BY <1>1 DEF ExcInv, ToldSound, Exc!HandlerTold, Exc!processor
<1> QED BY <1>2, <1>4, <1>6, <1>7 DEF ExcInv

LEMMA ExitKept == ASSUME Exc!ExceptionAssumption, ExcInv, Exc!Exit PROVE ExcInv'
<1>1. /\ at = "exit" /\ at' = "program" /\ pc' = frame.ea /\ PIE' = frame.estatus
      /\ told' = Exc!Nobody
      /\ UNCHANGED <<faulty, done, Exc!processor, frame, passed>>
    BY DEF Exc!Exit
<1>0. frame.ea \in {pc, pc + 1} /\ pc < Length /\ pc \in 0 .. Length
    BY <1>1 DEF ExcInv, FrameSound, Exc!TypeOK
<1>2. Exc!TypeOK'
  <2>1. frame.estatus \in BOOLEAN
      BY DEF ExcInv, FrameSound
  <2>2. PIE' \in BOOLEAN
      BY <1>1, <2>1
  <2>3. pc' \in 0 .. Length
      BY <1>0, <1>1 DEF Exc!ExceptionAssumption
  <2> QED BY <1>1, <2>2, <2>3 DEF ExcInv, Exc!TypeOK, Exc!processor
<1>3. FrameSound' /\ CauseKept'
    BY <1>1 DEF ExcInv, FrameSound, CauseKept
<1>4. NextPc' = NextPc
    BY <1>1 DEF NextPc
<1>5. Counted'
    BY <1>1, <1>4 DEF ExcInv, Counted
<1>6. ToldSound'
    BY <1>1 DEF ToldSound, Exc!HandlerTold
<1> QED BY <1>2, <1>3, <1>5, <1>6 DEF ExcInv

LEMMA ExcNext == ASSUME Exc!ExceptionAssumption PROVE ExcInv /\ [Exc!Next]_Exc!vars => ExcInv'
<1> SUFFICES ASSUME ExcInv, [Exc!Next]_Exc!vars PROVE ExcInv'
    OBVIOUS
<1>1. CASE Exc!Fault
  <2>1. PICK cause \in Causes : Exc!Take(cause, pc + 1)
      BY <1>1 DEF Exc!Fault
  <2>2. at = "program" /\ pc \in faulty /\ pc < Length
      BY <1>1 DEF Exc!Fault, ExcInv, Exc!TypeOK, Exc!Instructions, Exc!ExceptionAssumption
  <2> QED BY <2>1, <2>2, TakeKept
<1>2. CASE Exc!Interrupt
    BY <1>2, TakeKept DEF Exc!Interrupt
<1>3. CASE UNCHANGED Exc!vars
    BY <1>3 DEF Exc!vars, Exc!program, Exc!processor, ExcInv, Exc!TypeOK, FrameSound, Counted, NextPc,
                CauseKept, ToldSound, Exc!HandlerTold
<1> QED BY <1>1, <1>2, <1>3, ExecuteKept, AroundKept, EntryKept, NotIrqKept, SkipKept,
           ReissueKept, ExitKept DEF Exc!Next

LEMMA ExcSound == ExcInv => Exc!ExceptionsSound
BY DEF ExcInv, Exc!ExceptionsSound, ToldSound, Counted, NextPc, Exc!InstructionsKept

\* An exception costs the program no instruction but the one its handler had passed over,
\* and the handler is told of the right one (alt_exception_entry.S:165-167, 196, 279-286).
THEOREM ExceptionsTransparent ==
    ASSUME Exc!ExceptionAssumption PROVE Exc!Spec => []Exc!ExceptionsSound
BY ExcInit, ExcNext, ExcSound, PTL DEF Exc!Spec

-----------------------------------------------------------------------------
(* The timestamp                                                           *)

\* The system clock's timer is left alone; one of the timestamp's own does not go on, and
\* stands still while its period is set.
TimerSet ==
    /\ ~freq => period = Half /\ cont /\ run /\ stamp_pc = "idle"
    /\ freq => ~cont /\ (stamp_pc \in {"periodl", "periodh", "start"} \/ period = Half => ~run)
    /\ stamp_pc = "periodh" => period % Half = Half - 1
    /\ stamp_pc = "start" => period = Stamp!Full /\ counter = Stamp!Full
    /\ stamp_pc \in {"lower", "upper"} => period = Stamp!Full
    /\ period # Half /\ stamp_pc = "idle" => period = Stamp!Full

\* What a timer that is through shows is what it has started from.
Shows(ticks) == IF ticks <= Stamp!Full THEN Stamp!Full - ticks ELSE Stamp!Full

\* Once the clock has been started, the count and the ticks since are one; and so are what
\* a call has captured and the ticks when it began.
CountSound ==
    /\ freq /\ period = Stamp!Full /\ stamp_pc \in {"idle", "lower", "upper"} =>
          counter = Shows(elapsed) /\ (run <=> elapsed <= Stamp!Full)
    /\ stamp_pc \in {"lower", "upper"} => snap = Shows(stamp_asked) /\ stamp_asked <= elapsed
    /\ stamp_pc = "upper" => lower = snap % Half

\* The last result.
ResultSound ==
    /\ result.value >= 0 =>
           \/ result.from <= result.value /\ result.value <= result.to /\ result.value <= Stamp!Full
           \/ result.to > Stamp!Full /\ result.value = 0
    /\ result.from > Stamp!Full => result.value = 0

StampInv == Stamp!TypeOK /\ TimerSet /\ CountSound /\ ResultSound

\* The arithmetic of the two halves.
LEMMA Halves ==
    ASSUME NEW h \in Nat, h > 1
    PROVE  /\ h * h \in Nat /\ h * h > h + 1
           /\ (h - 1) * h + (h - 1) = h * h - 1
           /\ \A x \in 0 .. h * h - 1 :
                 /\ x \div h \in 0 .. h - 1 /\ (x % h) \in 0 .. h - 1
                 /\ (x \div h) * h + (x % h) = x
                 /\ (x \div h) * h + (h - 1) \in 0 .. h * h - 1
                 /\ ((x \div h) * h + (h - 1)) % h = h - 1
                 /\ (h - 1) * h + (x % h) \in 0 .. h * h - 1
<1>1. h * h \in Nat /\ h * h >= 2 * h
    BY Z3
<1>2. (h - 1) * h = h * h - h
    BY Z3
<1>3. ASSUME NEW x \in 0 .. h * h - 1
      PROVE  /\ x \div h \in 0 .. h - 1 /\ (x % h) \in 0 .. h - 1
             /\ (x \div h) * h + (x % h) = x
             /\ (x \div h) * h + (h - 1) \in 0 .. h * h - 1
             /\ ((x \div h) * h + (h - 1)) % h = h - 1
             /\ (h - 1) * h + (x % h) \in 0 .. h * h - 1
  <2> DEFINE q == x \div h  r == x % h
  <2>1. q \in Nat /\ r \in 0 .. h - 1 /\ q * h + r = x
      BY <1>1, Z3
  <2>2. q <= h - 1
    <3> SUFFICES ASSUME q >= h PROVE FALSE
        BY <2>1
    <3>1. q * h >= h * h
        BY <2>1, Z3
    <3>2. q * h \in Nat
        BY <2>1
    <3> QED BY <1>1, <2>1, <3>1, <3>2
  <2>3. q * h <= (h - 1) * h /\ q * h \in Nat
      BY <2>1, <2>2, Z3
  <2>4. (q * h + (h - 1)) % h = h - 1
      BY <2>1, Z3
  <2> QED BY <1>1, <1>2, <2>1, <2>2, <2>3, <2>4
<1> QED BY <1>1, <1>2, <1>3

LEMMA StampNumbers ==
    ASSUME Stamp!TimestampAssumption
    PROVE  /\ Half \in Nat /\ Half > 1 /\ Stamp!Full \in Nat /\ Half < Stamp!Full
           /\ (Half - 1) * Half + (Half - 1) = Stamp!Full
           /\ \A x \in 0 .. Stamp!Full :
                 /\ x \div Half \in 0 .. Half - 1 /\ (x % Half) \in 0 .. Half - 1
                 /\ (x \div Half) * Half + (x % Half) = x
                 /\ (x \div Half) * Half + (Half - 1) \in 0 .. Stamp!Full
                 /\ ((x \div Half) * Half + (Half - 1)) % Half = Half - 1
                 /\ (Half - 1) * Half + (x % Half) \in 0 .. Stamp!Full
<1>1. Half \in Nat /\ Half > 1
    BY DEF Stamp!TimestampAssumption
<1>2. /\ Half * Half \in Nat /\ Half * Half > Half + 1
      /\ (Half - 1) * Half + (Half - 1) = Half * Half - 1
    BY <1>1, Halves
<1>3. \A x \in 0 .. Stamp!Full :
                 /\ x \div Half \in 0 .. Half - 1 /\ (x % Half) \in 0 .. Half - 1
                 /\ (x \div Half) * Half + (x % Half) = x
                 /\ (x \div Half) * Half + (Half - 1) \in 0 .. Stamp!Full
                 /\ ((x \div Half) * Half + (Half - 1)) % Half = Half - 1
                 /\ (Half - 1) * Half + (x % Half) \in 0 .. Stamp!Full
    BY <1>1, Halves, Zenon DEF Stamp!Full
<1> QED BY <1>1, <1>2, <1>3 DEF Stamp!Full

LEMMA FullIs ==
    ASSUME Stamp!TimestampAssumption
    PROVE  /\ Half \in Nat /\ Half > 1 /\ Stamp!Full \in Nat /\ Half < Stamp!Full
           /\ 0 \in 0 .. Stamp!Full /\ 0 \in 0 .. Half - 1 /\ 0 \in 0 .. Stamp!Full + 1
<1>1. Half \in Nat /\ Half > 1 /\ Stamp!Full \in Nat /\ Half < Stamp!Full
    BY StampNumbers
<1> QED BY <1>1

LEMMA TypesAre ==
    ASSUME Stamp!TimestampAssumption, Stamp!TypeOK
    PROVE  /\ counter \in 0 .. Stamp!Full /\ period \in 0 .. Stamp!Full /\ snap \in 0 .. Stamp!Full
           /\ lower \in Int /\ elapsed \in 0 .. Stamp!Full + 1 /\ stamp_asked \in 0 .. Stamp!Full + 1
BY FullIs DEF Stamp!TypeOK

LEMMA StampInit == ASSUME Stamp!TimestampAssumption PROVE Stamp!Init => StampInv
<1> SUFFICES ASSUME Stamp!Init PROVE StampInv
    OBVIOUS
<1>1. Half \in 0 .. Stamp!Full /\ 0 \in 0 .. Stamp!Full /\ 0 \in 0 .. Half - 1 /\ 0 \in 0 .. Stamp!Full + 1 /\ Half # Stamp!Full
    BY FullIs
<1>2. Stamp!TypeOK
  <2>1. freq \in BOOLEAN /\ run \in BOOLEAN /\ cont \in BOOLEAN
      BY DEF Stamp!Init
  <2> QED BY <1>1, <2>1 DEF Stamp!Init, Stamp!TypeOK
<1>3. TimerSet /\ CountSound
    BY <1>1 DEF Stamp!Init, TimerSet, CountSound
<1>4. ResultSound
    BY FullIs DEF Stamp!Init, ResultSound, Stamp!NoResult
<1> QED BY <1>2, <1>3, <1>4 DEF StampInv

LEMMA TickKept == ASSUME Stamp!TimestampAssumption, StampInv, Stamp!Tick PROVE StampInv'
<1>1. /\ run /\ freq \in BOOLEAN /\ cont \in BOOLEAN /\ counter \in 0 .. Stamp!Full /\ period \in 0 .. Stamp!Full
      /\ elapsed \in 0 .. Stamp!Full + 1 /\ stamp_asked \in 0 .. Stamp!Full + 1
      /\ UNCHANGED <<freq, period, cont, snap, stamp_pc, lower, stamp_asked, result>>
      /\ counter' = IF counter = 0 THEN period ELSE counter - 1
      /\ elapsed' = IF freq /\ elapsed <= Stamp!Full THEN elapsed + 1 ELSE elapsed
      /\ stamp_pc \in {"idle", "periodl", "periodh", "start", "lower", "upper"}
    BY TypesAre DEF Stamp!Tick, StampInv, Stamp!TypeOK
<1>2. run' = (counter # 0 \/ cont) /\ run' \in BOOLEAN
    BY <1>1, Zenon DEF Stamp!Tick
<1>3. counter' \in 0 .. Stamp!Full /\ elapsed' \in 0 .. Stamp!Full + 1 /\ elapsed <= elapsed'
    BY <1>1, FullIs
<1>4. Stamp!TypeOK'
    BY <1>1, <1>2, <1>3 DEF StampInv, Stamp!TypeOK
<1>5. freq => ~cont /\ period = Stamp!Full /\ stamp_pc \in {"idle", "lower", "upper"}
    BY <1>1 DEF StampInv, TimerSet
<1>6. TimerSet'
  <2>1. ~freq => period' = Half /\ cont' /\ run' /\ stamp_pc' = "idle"
      BY <1>1, <1>2 DEF StampInv, TimerSet
  <2> QED BY <1>1, <1>5, <2>1, FullIs DEF StampInv, TimerSet
<1>7. CASE freq
  <2>1. counter = Shows(elapsed) /\ elapsed <= Stamp!Full
      BY <1>1, <1>5, <1>7 DEF StampInv, CountSound
  <2>2. counter = Stamp!Full - elapsed /\ elapsed' = elapsed + 1
      BY <1>1, <1>7, <2>1 DEF Shows
  <2>3. counter' = Shows(elapsed')
      BY <1>1, <1>5, <1>7, <2>1, <2>2, FullIs DEF Shows
  <2>4. counter # 0 <=> elapsed' <= Stamp!Full
      BY <1>1, <2>2, FullIs
  <2>5. run' <=> elapsed' <= Stamp!Full
      BY <1>2, <1>5, <1>7, <2>4, Zenon
  <2>6. CountSound'
    <3>1. stamp_pc \in {"lower", "upper"} => stamp_asked <= elapsed'
        BY <1>1, <1>3, FullIs DEF StampInv, CountSound
    <3> QED BY <1>1, <2>3, <2>5, <3>1 DEF StampInv, CountSound, Shows
  <2> QED BY <1>1, <1>4, <1>6, <2>6 DEF StampInv, ResultSound
<1>8. CASE ~freq
    BY <1>1, <1>4, <1>6, <1>8 DEF StampInv, CountSound, TimerSet, ResultSound
<1> QED BY <1>1, <1>7, <1>8

\* Nothing is known of a result yet.
LEMMA NoResultSound == ASSUME Stamp!TimestampAssumption, result' = Stamp!NoResult PROVE ResultSound'
BY FullIs DEF ResultSound, Stamp!NoResult

\* The steps of alt_timestamp_start.
LEMMA SetKept ==
    ASSUME Stamp!TimestampAssumption, StampInv, Stamp!Refuse \/ Stamp!Stop \/ Stamp!PeriodLow \/ Stamp!PeriodHigh
    PROVE  StampInv'
<1>1. /\ counter \in 0 .. Stamp!Full /\ period \in 0 .. Stamp!Full /\ period \in Int
      /\ elapsed \in 0 .. Stamp!Full + 1 /\ stamp_asked \in 0 .. Stamp!Full + 1
    BY TypesAre DEF StampInv
<1>2. CASE Stamp!Refuse
  <2>1. UNCHANGED <<freq, counter, period, run, cont, snap, stamp_pc, lower, elapsed, stamp_asked>>
      BY <1>2 DEF Stamp!Refuse, Stamp!timer
  <2>2. Stamp!TypeOK' /\ TimerSet' /\ CountSound'
      BY <2>1 DEF StampInv, Stamp!TypeOK, TimerSet, CountSound, Shows
  <2> QED BY <1>2, <2>2, NoResultSound DEF StampInv, Stamp!Refuse
<1>3. CASE Stamp!Stop
  <2>1. /\ UNCHANGED <<freq, counter, period, snap, lower, elapsed, stamp_asked>>
        /\ freq /\ stamp_pc = "idle" /\ stamp_pc' = "periodl" /\ run' = FALSE /\ cont' = FALSE
      BY <1>3 DEF Stamp!Stop, Stamp!At, Stamp!Control
  <2>2. Stamp!TypeOK'
      BY <2>1 DEF StampInv, Stamp!TypeOK
  <2>3. TimerSet' /\ CountSound'
      BY <2>1 DEF StampInv, TimerSet, CountSound
  <2> QED BY <1>3, <2>2, <2>3, NoResultSound DEF StampInv, Stamp!Stop
<1>4. CASE Stamp!PeriodLow
  <2> DEFINE p == (period \div Half) * Half + (Half - 1)
  <2>1. /\ UNCHANGED <<freq, cont, snap, lower, elapsed, stamp_asked, result>>
        /\ stamp_pc = "periodl" /\ stamp_pc' = "periodh" /\ run' = FALSE /\ period' = p /\ counter' = p
      BY <1>4 DEF Stamp!PeriodLow, Stamp!At, Stamp!SetPeriod
  <2>2. p \in 0 .. Stamp!Full /\ p % Half = Half - 1
      BY <1>1, StampNumbers
  <2> HIDE DEF p
  <2>3. Stamp!TypeOK'
      BY <2>1, <2>2 DEF StampInv, Stamp!TypeOK
  <2>4. freq /\ ~cont
      BY <2>1 DEF StampInv, TimerSet, Stamp!TypeOK
  <2>5. TimerSet' /\ CountSound' /\ ResultSound'
      BY <2>1, <2>2, <2>4 DEF StampInv, TimerSet, CountSound, ResultSound
  <2> QED BY <2>3, <2>5 DEF StampInv
<1>5. CASE Stamp!PeriodHigh
  <2>1. period % Half = Half - 1 /\ freq /\ ~cont
      BY <1>5 DEF StampInv, TimerSet, Stamp!TypeOK, Stamp!PeriodHigh, Stamp!At
  <2>2. (Half - 1) * Half + (period % Half) = Stamp!Full
      BY <2>1, StampNumbers
  <2>3. /\ UNCHANGED <<freq, cont, snap, lower, elapsed, stamp_asked, result>>
        /\ stamp_pc = "periodh" /\ stamp_pc' = "start" /\ run' = FALSE /\ period' = Stamp!Full /\ counter' = Stamp!Full
      BY <1>5, <2>2 DEF Stamp!PeriodHigh, Stamp!At, Stamp!SetPeriod
  <2>4. Stamp!Full \in 0 .. Stamp!Full
      BY FullIs
  <2>5. Stamp!TypeOK'
      BY <2>3, <2>4 DEF StampInv, Stamp!TypeOK
  <2>6. TimerSet' /\ CountSound' /\ ResultSound'
      BY <2>1, <2>3 DEF StampInv, TimerSet, CountSound, ResultSound
  <2> QED BY <2>5, <2>6 DEF StampInv
<1> QED BY <1>2, <1>3, <1>4, <1>5

LEMMA StartKept == ASSUME Stamp!TimestampAssumption, StampInv, Stamp!Start PROVE StampInv'
<1>1. /\ UNCHANGED <<freq, counter, period, snap, lower, stamp_asked, result>>
      /\ stamp_pc = "start" /\ stamp_pc' = "idle" /\ run' = TRUE /\ cont' = FALSE /\ elapsed' = 0
    BY DEF Stamp!Start, Stamp!At, Stamp!Control
<1>2. period = Stamp!Full /\ counter = Stamp!Full /\ freq /\ Half # Stamp!Full /\ Stamp!Full \in Nat
    BY <1>1, FullIs DEF StampInv, TimerSet, Stamp!TypeOK
<1>3. Stamp!TypeOK'
  <2>1. elapsed' \in 0 .. Stamp!Full + 1
      BY <1>1, FullIs
  <2>2. run' \in BOOLEAN /\ cont' \in BOOLEAN
      BY <1>1
  <2> QED BY <1>1, <2>1, <2>2 DEF StampInv, Stamp!TypeOK
<1>4. Stamp!Full = Shows(0) /\ 0 <= Stamp!Full
    BY <1>2 DEF Shows
<1>5. TimerSet' /\ CountSound' /\ ResultSound'
    BY <1>1, <1>2, <1>4 DEF StampInv, TimerSet, CountSound, ResultSound
<1> QED BY <1>3, <1>5 DEF StampInv

\* The steps of alt_timestamp.
LEMMA ReadKept ==
    ASSUME Stamp!TimestampAssumption, StampInv, Stamp!Snapshot \/ Stamp!ReadLow PROVE StampInv'
<1>1. /\ counter \in 0 .. Stamp!Full /\ snap \in 0 .. Stamp!Full /\ lower \in Int
      /\ elapsed \in 0 .. Stamp!Full + 1 /\ stamp_asked \in 0 .. Stamp!Full + 1
    BY TypesAre DEF StampInv
<1>2. CASE Stamp!Snapshot
  <2>1. /\ UNCHANGED <<freq, counter, period, run, cont, lower, elapsed, result>>
        /\ freq /\ period = Stamp!Full /\ stamp_pc = "idle" /\ stamp_pc' = "lower" /\ snap' = counter
        /\ stamp_asked' = elapsed
      BY <1>2 DEF Stamp!Snapshot, Stamp!Started, Stamp!At, Stamp!timer
  <2>2. Stamp!TypeOK'
      BY <1>1, <2>1 DEF StampInv, Stamp!TypeOK
  <2>3. TimerSet' /\ ResultSound'
      BY <2>1 DEF StampInv, TimerSet, ResultSound
  <2>4. CountSound'
      BY <1>1, <2>1, FullIs DEF StampInv, CountSound, Shows
  <2> QED BY <2>2, <2>3, <2>4 DEF StampInv
<1>3. CASE Stamp!ReadLow
  <2>1. /\ UNCHANGED <<freq, counter, period, run, cont, snap, elapsed, stamp_asked, result>>
        /\ stamp_pc = "lower" /\ stamp_pc' = "upper" /\ lower' = snap % Half
      BY <1>3 DEF Stamp!ReadLow, Stamp!At, Stamp!timer
  <2>2. lower' \in 0 .. Half - 1
      BY <1>1, <2>1, StampNumbers
  <2>3. Stamp!TypeOK'
      BY <2>1, <2>2 DEF StampInv, Stamp!TypeOK
  <2>4. TimerSet' /\ ResultSound'
      BY <2>1 DEF StampInv, TimerSet, ResultSound
  <2>5. CountSound'
      BY <2>1 DEF StampInv, CountSound, Shows
  <2> QED BY <2>3, <2>4, <2>5 DEF StampInv
<1> QED BY <1>2, <1>3

LEMMA ReadHighKept == ASSUME Stamp!TimestampAssumption, StampInv, Stamp!ReadHigh PROVE StampInv'
<1>1. /\ snap \in 0 .. Stamp!Full /\ lower \in Int /\ Stamp!Full \in Nat /\ 0 \in 0 .. Half - 1
      /\ elapsed \in 0 .. Stamp!Full + 1 /\ stamp_asked \in 0 .. Stamp!Full + 1
    BY TypesAre, FullIs DEF StampInv
<1>2. /\ UNCHANGED <<freq, counter, period, run, cont, snap, elapsed>>
      /\ stamp_pc = "upper" /\ stamp_pc' = "idle" /\ lower' = 0 /\ stamp_asked' = 0
      /\ result' = [value |-> Stamp!Full - ((snap \div Half) * Half + lower),
                    from |-> stamp_asked, to |-> elapsed]
    BY DEF Stamp!ReadHigh, Stamp!At, Stamp!timer
<1>3. snap = Shows(stamp_asked) /\ stamp_asked <= elapsed /\ lower = snap % Half
    BY <1>2 DEF StampInv, CountSound
<1>4. (snap \div Half) * Half + lower = snap
    BY <1>1, <1>3, StampNumbers
<1>5. /\ result'.value = IF stamp_asked <= Stamp!Full THEN stamp_asked ELSE 0
      /\ result'.from = stamp_asked /\ result'.to = elapsed
    BY <1>1, <1>2, <1>3, <1>4 DEF Shows
<1>6. ResultSound'
    BY <1>1, <1>3, <1>5 DEF ResultSound
<1>7. Stamp!TypeOK'
    BY <1>1, <1>2 DEF StampInv, Stamp!TypeOK
<1>8. TimerSet'
    BY <1>2 DEF StampInv, TimerSet
<1>9. CountSound'
    BY <1>2 DEF StampInv, CountSound
<1> QED BY <1>6, <1>7, <1>8, <1>9 DEF StampInv

LEMMA StampNext == ASSUME Stamp!TimestampAssumption PROVE StampInv /\ [Stamp!Next]_Stamp!vars => StampInv'
<1> SUFFICES ASSUME StampInv, [Stamp!Next]_Stamp!vars PROVE StampInv'
    OBVIOUS
<1>1. CASE UNCHANGED Stamp!vars
    BY <1>1 DEF Stamp!vars, Stamp!timer, StampInv, Stamp!TypeOK, TimerSet, CountSound, ResultSound, Shows
<1> QED BY <1>1, TickKept, SetKept, StartKept, ReadKept, ReadHighKept DEF Stamp!Next

LEMMA StampSound == ASSUME Stamp!TimestampAssumption PROVE StampInv => Stamp!TypeOK /\ Stamp!TimestampSound
<1> SUFFICES ASSUME StampInv PROVE Stamp!TimestampSound
    BY DEF StampInv
<1>1. ~freq => period = Half /\ cont /\ run
    BY DEF StampInv, TimerSet
<1>2. period = Stamp!Full => ~cont
    BY FullIs DEF StampInv, TimerSet, Stamp!TypeOK
<1>3. ResultSound
    BY DEF StampInv
<1> QED BY <1>1, <1>2, <1>3 DEF Stamp!TimestampSound, ResultSound

\* A timestamp is of a moment in its call, and the timer of the system clock is left alone
\* (altera_avalon_timer_ts.c:58, 70, 124-128).
THEOREM TimestampExact ==
    ASSUME Stamp!TimestampAssumption
    PROVE  Stamp!Spec => [](Stamp!TypeOK /\ Stamp!TimestampSound)
BY StampInit, StampNext, StampSound, PTL DEF Stamp!Spec

-----------------------------------------------------------------------------
(* The busy wait                                                           *)

\* The long loops done so far, and what is left; the first of them turns MaxInt times.
LoopsSound ==
    /\ turns \in Nat /\ loops \in Nat
    /\ sleep_pc = "rest" => turns = 0 /\ us = sleep_asked /\ loops = 0 /\ sleep_asked < Sleep!UsPerBigLoop
    /\ sleep_pc = "big" =>
          /\ sleep_asked >= Sleep!UsPerBigLoop /\ turns * Sleep!UsPerBigLoop <= sleep_asked
          /\ us = sleep_asked - turns * Sleep!UsPerBigLoop
          /\ loops >= turns * Sleep!MaxInt /\ reg \in {0, Sleep!MaxInt}
          /\ turns = 0 => reg = Sleep!MaxInt /\ loops = 0
          /\ turns = 1 => loops = Sleep!MaxInt

SleepInv == Sleep!TypeOK /\ LoopsSound /\ Sleep!DelaySound

\* n microseconds are n \div u long loops of u, and a rest.
LEMMA LongLoops ==
    ASSUME NEW u \in Nat \ {0}, NEW n \in Nat
    PROVE  /\ n \div u \in Nat /\ (n \div u) * u \in Nat
           /\ (n \div u) * u <= n /\ n < (n \div u) * u + u
BY Z3

\* A long loop turns as often as its microseconds need, and less often than one more needs.
LEMMA LoopNumbers ==
    ASSUME Sleep!BusyAssumption
    PROVE  /\ Word \in Nat /\ Sleep!MaxInt \in Nat /\ Word = 2 * Sleep!MaxInt + 2
           /\ LoopsPerUs \in Nat \ {0} /\ Sleep!UsPerBigLoop \in Nat \ {0}
           /\ Sleep!UsPerBigLoop * LoopsPerUs \in Nat
           /\ Sleep!UsPerBigLoop * LoopsPerUs <= Sleep!MaxInt
           /\ Sleep!MaxInt < Sleep!UsPerBigLoop * LoopsPerUs + LoopsPerUs
<1>1. Word \in Nat /\ Word % 2 = 0 /\ LoopsPerUs \in 1 .. Sleep!MaxInt
    BY DEF Sleep!BusyAssumption, Sleep!MaxInt
<1>2. Sleep!MaxInt \in Int /\ Word = 2 * Sleep!MaxInt + 2
    BY <1>1 DEF Sleep!MaxInt
<1>3. Sleep!MaxInt \in Nat /\ LoopsPerUs \in Nat \ {0} /\ LoopsPerUs <= Sleep!MaxInt
    BY <1>1, <1>2
<1>4. /\ Sleep!UsPerBigLoop \in Nat /\ Sleep!UsPerBigLoop * LoopsPerUs \in Nat
      /\ Sleep!UsPerBigLoop * LoopsPerUs <= Sleep!MaxInt
      /\ Sleep!MaxInt < Sleep!UsPerBigLoop * LoopsPerUs + LoopsPerUs
    BY <1>3, LongLoops DEF Sleep!UsPerBigLoop
<1>5. Sleep!UsPerBigLoop # 0
    BY <1>3, <1>4
<1> QED BY <1>1, <1>2, <1>3, <1>4, <1>5

\* The loops of a rest shorter than a long loop fit a register.
LEMMA ShortRest ==
    ASSUME Sleep!BusyAssumption, NEW n \in Nat, n < Sleep!UsPerBigLoop
    PROVE  /\ n * LoopsPerUs \in Nat /\ (n * LoopsPerUs) % Word = n * LoopsPerUs
           /\ n > 0 => n * LoopsPerUs > 0
<1>1. /\ LoopsPerUs \in Nat \ {0} /\ Sleep!UsPerBigLoop \in Nat \ {0} /\ Sleep!MaxInt \in Nat
      /\ Sleep!UsPerBigLoop * LoopsPerUs <= Sleep!MaxInt /\ Word = 2 * Sleep!MaxInt + 2
    BY LoopNumbers
<1>2. n * LoopsPerUs \in Nat /\ (n > 0 => n * LoopsPerUs > 0)
    BY <1>1, Z3
<1>3. n * LoopsPerUs <= Sleep!UsPerBigLoop * LoopsPerUs
    BY <1>1, Z3
<1>4. Sleep!UsPerBigLoop * LoopsPerUs \in Nat
    BY <1>1
<1>5. n * LoopsPerUs < Word /\ Word \in Nat
    BY <1>1, <1>2, <1>3, <1>4
<1> HIDE DEF Sleep!BusyAssumption
<1> QED BY <1>2, <1>5

LEMMA SleepInit == ASSUME Sleep!BusyAssumption PROVE Sleep!Init => SleepInv
<1> SUFFICES ASSUME Sleep!Init PROVE SleepInv
    OBVIOUS
<1>1. /\ LoopsPerUs \in Nat \ {0} /\ Sleep!UsPerBigLoop \in Nat \ {0} /\ Sleep!MaxInt \in Nat
      /\ Word = 2 * Sleep!MaxInt + 2
    BY LoopNumbers
<1>2. Sleep!TypeOK /\ LoopsSound
    BY <1>1 DEF Sleep!Init, Sleep!TypeOK, LoopsSound
<1>3. Sleep!DelaySound
    BY <1>1 DEF Sleep!Init, Sleep!DelaySound
<1> QED BY <1>2, <1>3 DEF SleepInv

LEMMA CallKept ==
    ASSUME Sleep!BusyAssumption, SleepInv, NEW n \in 0 .. Word - 1, Sleep!Sleep(n) PROVE SleepInv'
<1>1. /\ LoopsPerUs \in Nat \ {0} /\ Sleep!UsPerBigLoop \in Nat \ {0} /\ Sleep!MaxInt \in Nat
      /\ Word = 2 * Sleep!MaxInt + 2
    BY LoopNumbers
<1>2. /\ n \in Nat /\ n \div Sleep!UsPerBigLoop \in Nat
      /\ (n \div Sleep!UsPerBigLoop) * Sleep!UsPerBigLoop \in Nat
      /\ (n \div Sleep!UsPerBigLoop) * Sleep!UsPerBigLoop <= n
      /\ n < (n \div Sleep!UsPerBigLoop) * Sleep!UsPerBigLoop + Sleep!UsPerBigLoop
    BY <1>1, LongLoops
<1>3. /\ us' = n /\ sleep_asked' = n /\ turns' = 0 /\ loops' = 0 /\ reg' = Sleep!MaxInt
      /\ sleep_pc' = IF n \div Sleep!UsPerBigLoop > 0 THEN "big" ELSE "rest"
    BY DEF Sleep!Sleep
<1>4. Sleep!TypeOK'
    BY <1>1, <1>3 DEF Sleep!TypeOK
<1>5. sleep_pc' = "big" => n >= Sleep!UsPerBigLoop
  <2> SUFFICES ASSUME n \div Sleep!UsPerBigLoop > 0 PROVE n >= Sleep!UsPerBigLoop
      BY <1>3
  <2>1. (n \div Sleep!UsPerBigLoop) * Sleep!UsPerBigLoop >= Sleep!UsPerBigLoop
      BY <1>1, <1>2, Z3
  <2> QED BY <1>1, <1>2, <2>1
<1>6. sleep_pc' = "rest" => n < Sleep!UsPerBigLoop
  <2> SUFFICES ASSUME n \div Sleep!UsPerBigLoop = 0 PROVE n < Sleep!UsPerBigLoop
      BY <1>2, <1>3
  <2> QED BY <1>1, <1>2
<1>7. LoopsSound'
    BY <1>1, <1>2, <1>3, <1>5, <1>6 DEF LoopsSound
<1>8. Sleep!DelaySound'
    BY <1>3 DEF Sleep!DelaySound
<1> QED BY <1>4, <1>7, <1>8 DEF SleepInv

\* One more long loop fits what is left.
LEMMA BigKept == ASSUME Sleep!BusyAssumption, SleepInv, Sleep!BigLoop PROVE SleepInv'
<1> DEFINE u == Sleep!UsPerBigLoop  m == Sleep!MaxInt  k == sleep_asked \div u
<1>1. u \in Nat \ {0} /\ m \in Nat /\ Word = 2 * m + 2 /\ u <= m
  <2>1. /\ LoopsPerUs \in Nat \ {0} /\ u \in Nat \ {0} /\ m \in Nat /\ Word = 2 * m + 2
        /\ u * LoopsPerUs <= m
      BY LoopNumbers
  <2>2. u <= u * LoopsPerUs /\ u * LoopsPerUs \in Nat
      BY <2>1, Z3
  <2> QED BY <2>1, <2>2
<1>2. /\ sleep_pc = "big" /\ sleep_pc' = sleep_pc /\ sleep_asked' = sleep_asked /\ turns < k
      /\ loops' = loops + Sleep!Turns(reg) /\ reg' \in {0, m}
      /\ us' = us - u /\ turns' = turns + 1
    BY DEF Sleep!BigLoop
<1>3. /\ sleep_asked \in 0 .. Word - 1 /\ us \in 0 .. Word - 1 /\ reg \in 0 .. m
      /\ turns \in Nat /\ loops \in Nat
      /\ sleep_asked >= u /\ turns * u <= sleep_asked /\ us = sleep_asked - turns * u /\ loops >= turns * m
      /\ reg \in {0, m} /\ (turns = 0 => reg = m /\ loops = 0)
    BY <1>2 DEF SleepInv, Sleep!TypeOK, LoopsSound
<1>4. k \in Nat /\ k * u \in Nat /\ k * u <= sleep_asked
    BY <1>1, <1>3, LongLoops
<1> HIDE DEF u, m, k
<1>5. (turns + 1) * u = turns * u + u /\ (turns + 1) * m = turns * m + m /\ turns * u \in Nat /\ turns * m \in Nat
    BY <1>1, <1>3, Z3
<1>6. (turns + 1) * u <= k * u
    BY <1>1, <1>2, <1>3, <1>4, Z3
<1>7. turns' * u <= sleep_asked /\ us' = sleep_asked - turns' * u /\ us' \in 0 .. Word - 1
    BY <1>1, <1>2, <1>3, <1>4, <1>5, <1>6
<1>8. Sleep!Turns(reg) \in Nat /\ Sleep!Turns(reg) >= m /\ (reg = m /\ m # 0 => Sleep!Turns(reg) = m)
  <2>1. reg \in Nat /\ reg <= m /\ (reg = 0 \/ reg = m)
    <3>1. m # 0
        BY <1>1
    <3> QED BY <1>1, <1>3
  <2> QED BY <1>1, <2>1 DEF Sleep!Turns
<1>9. loops' \in Nat /\ loops' >= turns' * m /\ (turns' = 1 => loops' = m)
    BY <1>1, <1>2, <1>3, <1>5, <1>8
<1>10. Sleep!TypeOK'
    BY <1>1, <1>2, <1>3, <1>7 DEF SleepInv, Sleep!TypeOK, m
<1>11. LoopsSound'
    BY <1>2, <1>3, <1>7, <1>9 DEF LoopsSound, u, m
<1>12. Sleep!DelaySound'
    BY <1>2 DEF Sleep!DelaySound
<1> QED BY <1>10, <1>11, <1>12 DEF SleepInv

\* What is left is less than a long loop.
LEMMA RestKept == ASSUME Sleep!BusyAssumption, SleepInv, Sleep!Rest PROVE SleepInv'
<1> DEFINE u == Sleep!UsPerBigLoop  m == Sleep!MaxInt  l == LoopsPerUs
<1>1. /\ u \in Nat \ {0} /\ m \in Nat /\ Word = 2 * m + 2 /\ l \in Nat \ {0}
      /\ u * l \in Nat /\ u * l <= m /\ m < u * l + l
    BY LoopNumbers
<1>2. sleep_asked \in Nat /\ us \in Nat /\ turns \in Nat /\ loops \in Nat
    BY <1>1 DEF SleepInv, Sleep!TypeOK, LoopsSound
<1>3. sleep_pc' = "idle" /\ reg' = 0 /\ us' = 0 /\ turns' = 0 /\ sleep_asked' = sleep_asked
    BY DEF Sleep!Rest
<1>4. Sleep!TypeOK'
  <2>1. us' \in 0 .. Word - 1 /\ reg' \in 0 .. Sleep!MaxInt
      BY <1>1, <1>3
  <2> QED BY <1>3, <2>1 DEF SleepInv, Sleep!TypeOK
<1>5. CASE sleep_pc = "rest"
  <2>1. us = sleep_asked /\ loops = 0 /\ sleep_asked < u
      BY <1>5 DEF SleepInv, LoopsSound
  <2>2. sleep_asked * l \in Nat /\ (sleep_asked * l) % Word = sleep_asked * l
      BY <1>2, <2>1, ShortRest
  <2>3. loops' = Sleep!ShortTurns(sleep_asked * l)
    <3>1. loops' = 0 + Sleep!ShortTurns((sleep_asked * l) % Word)
        BY <1>5, <2>1 DEF Sleep!Rest
    <3>2. Sleep!ShortTurns(sleep_asked * l) \in Nat
        BY <2>2 DEF Sleep!ShortTurns
    <3> QED BY <2>2, <3>1, <3>2
  <2> HIDE DEF u, m, l
  <2>4. loops' \in Nat /\ loops' >= sleep_asked * l /\ loops' <= sleep_asked * l + 1
      BY <2>2, <2>3 DEF Sleep!ShortTurns
  <2>5. LoopsSound'
      BY <1>3, <2>4 DEF LoopsSound
  <2>6. Sleep!DelaySound'
      BY <1>1, <1>2, <1>3, <2>1, <2>4 DEF Sleep!DelaySound, u, l
  <2> QED BY <1>4, <2>5, <2>6 DEF SleepInv
<1>6. CASE sleep_pc = "big"
  <2> DEFINE k == sleep_asked \div u
  <2>1. /\ sleep_asked >= u /\ us = sleep_asked - turns * u /\ loops >= turns * m /\ turns = k
        /\ turns = 1 => loops = m
        /\ loops' = loops + Sleep!Turns((us * l) % Word)
      BY <1>6 DEF SleepInv, LoopsSound, Sleep!Rest
  <2>2. k * u \in Nat /\ k * u <= sleep_asked /\ sleep_asked < k * u + u
      BY <1>1, <1>2, LongLoops
  <2> HIDE DEF u, m, k
  <2>3. us < u
    <3>1. turns * u \in Nat /\ turns * u = k * u
        BY <1>2, <2>1, <2>2
    <3> HIDE DEF l
    <3> QED BY <1>1, <1>2, <2>1, <2>2, <3>1
  <2>4. us * l \in Nat /\ (us * l) % Word = us * l /\ (us > 0 => us * l > 0)
      BY <1>2, <2>3, ShortRest DEF u
  <2> HIDE DEF l
  <2>5. loops' = loops + Sleep!Turns(us * l) /\ Sleep!Turns(us * l) \in Nat /\ Sleep!Turns(us * l) >= us * l
        /\ (us > 0 => Sleep!Turns(us * l) = us * l)
      BY <1>1, <2>1, <2>4 DEF Sleep!Turns
  <2>6. sleep_asked * l = turns * (u * l) + us * l
    <3>1. sleep_asked = turns * u + us
        BY <1>1, <1>2, <2>1, <2>2
    <3> QED BY <1>1, <1>2, <3>1, Z3
  <2>7. turns * m >= turns * (u * l) /\ turns * m \in Nat /\ turns * (u * l) \in Nat
      BY <1>1, <1>2, Z3
  <2>8. loops' \in Nat /\ loops' >= sleep_asked * l
      BY <1>2, <2>1, <2>4, <2>5, <2>6, <2>7
  <2>9. ASSUME sleep_asked \in u + 1 .. 2 * u - 1 PROVE loops' < (sleep_asked + 1) * l
    <3>1. turns = 1
      <4>1. turns # 0
          BY <1>1, <1>2, <2>1, <2>2, <2>9
      <4>2. turns < 2
        <5> SUFFICES ASSUME turns >= 2 PROVE FALSE
            BY <1>2
        <5>1. turns * u >= 2 * u
            BY <1>1, <1>2, Z3
        <5> QED BY <1>1, <1>2, <2>1, <2>2, <2>9, <5>1
      <4> QED BY <1>2, <4>1, <4>2
    <3>2. us = sleep_asked - u /\ us > 0 /\ loops = m
        BY <1>1, <1>2, <2>1, <2>9, <3>1
    <3>3. loops' = m + us * l
        BY <2>5, <3>2
    <3>4. (sleep_asked + 1) * l = u * l + us * l + l
        BY <1>1, <1>2, <3>2, Z3
    <3> QED BY <1>1, <2>4, <3>3, <3>4
  <2>10. LoopsSound'
      BY <1>3, <2>8 DEF LoopsSound
  <2>11. Sleep!DelaySound'
      BY <1>1, <1>2, <1>3, <2>1, <2>8, <2>9 DEF Sleep!DelaySound, u, l
  <2> QED BY <1>4, <2>10, <2>11 DEF SleepInv
<1> QED BY <1>5, <1>6 DEF Sleep!Rest

LEMMA SleepNext == ASSUME Sleep!BusyAssumption PROVE SleepInv /\ [Sleep!Next]_Sleep!vars => SleepInv'
<1> SUFFICES ASSUME SleepInv, [Sleep!Next]_Sleep!vars PROVE SleepInv'
    OBVIOUS
<1>1. CASE UNCHANGED Sleep!vars
    BY <1>1 DEF Sleep!vars, SleepInv, Sleep!TypeOK, LoopsSound, Sleep!DelaySound
<1> QED BY <1>1, CallKept, BigKept, RestKept DEF Sleep!Next

\* A busy wait is never too short (alt_busy_sleep.c:74-129).
THEOREM DelayLongEnough ==
    ASSUME Sleep!BusyAssumption PROVE Sleep!Spec => [](Sleep!TypeOK /\ Sleep!DelaySound)
<1>1. SleepInv => Sleep!TypeOK /\ Sleep!DelaySound
    BY DEF SleepInv
<1> QED BY <1>1, SleepInit, SleepNext, PTL DEF Sleep!Spec

-----------------------------------------------------------------------------
(* The caches: lines and addresses                                         *)

Addresses == 0 .. Size-1

LEMMA CacheNumbers ==
    ASSUME C!CacheAssumption
    PROVE  /\ LineSize \in Nat \ {0} /\ DCacheLines \in Nat \ {0} /\ ICacheLines \in Nat \ {0}
           /\ Addresses \subseteq Nat
BY DEF C!CacheAssumption, Addresses

\* An address is in its line, and in no other.
LEMMA InLine ==
    ASSUME NEW n \in Nat \ {0}, NEW x \in Nat
    PROVE  x \div n \in Nat /\ (x \div n) * n <= x /\ x < (x \div n) * n + n
<1> DEFINE q == x \div n
           r == x % n
<1>1. q \in Nat /\ r \in 0 .. n-1 /\ x = q * n + r
    BY Z3
<1>2. q * n \in Nat
    BY <1>1, Z3
<1> HIDE DEF q, r
<1>3. q * n <= x /\ x < q * n + n
    BY <1>1, <1>2
<1> QED BY <1>1, <1>3 DEF q

LEMMA Multiples ==
    ASSUME NEW n \in Nat \ {0}, NEW x \in Int, NEW y \in Int
    PROVE  /\ x * n \in Int
           /\ (x + y) * n = x * n + y * n
           /\ x < y => x * n + n <= y * n
<1>1. x * n \in Int /\ y * n \in Int /\ (x + y) * n = x * n + y * n
    BY Z3
<1>2. ASSUME x < y PROVE x * n + n <= y * n
  <2>1. PICK d \in Nat : y = (x + 1) + d
    <3>1. y - x - 1 \in Nat /\ y = (x + 1) + (y - x - 1)
        BY <1>2
    <3> QED BY <3>1
  <2>2. ((x + 1) + d) * n = (x * n + n) + d * n /\ d * n \in Nat
      BY Z3
  <2> QED BY <1>1, <2>1, <2>2
<1> QED BY <1>1, <1>2

LEMMA OnlyLine ==
    ASSUME NEW n \in Nat \ {0}, NEW x \in Nat, NEW q \in Int, q * n <= x, x < q * n + n
    PROVE  x \div n = q
<1>1. PICK p \in Nat : p = x \div n /\ p * n <= x /\ x < p * n + n
    BY InLine
<1>2. ~(p < q)
  <2> SUFFICES ASSUME p < q PROVE FALSE
      OBVIOUS
  <2>1. p * n + n <= q * n /\ p * n \in Int /\ q * n \in Int
      BY Multiples
  <2> QED BY <1>1, <2>1
<1>3. ~(q < p)
  <2> SUFFICES ASSUME q < p PROVE FALSE
      OBVIOUS
  <2>1. q * n + n <= p * n /\ p * n \in Int /\ q * n \in Int
      BY Multiples
  <2> QED BY <1>1, <2>1
<1> QED BY <1>1, <1>2, <1>3

\* Where a region of so many words ends, in lines.
LEMMA RoundsUp ==
    ASSUME NEW n \in Nat \ {0}, NEW len \in Nat
    PROVE  /\ (len + n - 1) \div n \in Nat
           /\ len <= ((len + n - 1) \div n) * n
           /\ ((len + n - 1) \div n) * n < len + n
<1> DEFINE q == (len + n - 1) \div n
<1>1. len + n - 1 \in Nat
    OBVIOUS
<1>2. q \in Nat /\ q * n <= len + n - 1 /\ len + n - 1 < q * n + n
    BY <1>1, InLine
<1>3. q * n \in Int
    BY <1>2, Multiples
<1> HIDE DEF q
<1>4. len <= q * n /\ q * n < len + n
    BY <1>2, <1>3
<1> QED BY <1>2, <1>4 DEF q

\* A flush visits every line of its region, wherever it begins and ends.
LEMMA FlushCovers ==
    ASSUME C!CacheAssumption, NEW start \in Nat, NEW len \in Nat, NEW x \in start .. start + len - 1
    PROVE  C!LineOf(x) \in C!LinesFlushed(start, len)
<1>1. LineSize \in Nat \ {0} /\ x \in Nat
    BY CacheNumbers
<1>2. PICK s \in Nat : s = start \div LineSize /\ s * LineSize <= start /\ start < s * LineSize + LineSize
    BY <1>1, InLine
<1>3. PICK l \in Nat : l = x \div LineSize /\ l * LineSize <= x /\ x < l * LineSize + LineSize
    BY <1>1, InLine
<1>4. PICK n \in Nat : n = (len + LineSize - 1) \div LineSize /\ len <= n * LineSize
    BY <1>1, RoundsUp
<1> DEFINE k == l - s
<1>5. /\ k * LineSize = l * LineSize - s * LineSize
      /\ k * LineSize \in Int /\ l * LineSize \in Int /\ s * LineSize \in Int /\ n * LineSize \in Int
  <2>1. (k + s) * LineSize = k * LineSize + s * LineSize
      BY <1>1, Multiples
  <2>2. k + s = l
      OBVIOUS
  <2>3. k * LineSize \in Int /\ l * LineSize \in Int /\ s * LineSize \in Int /\ n * LineSize \in Int
      BY <1>1, Multiples
  <2> QED BY <2>1, <2>2, <2>3
<1>6. k \in Nat
  <2> SUFFICES ASSUME l < s PROVE FALSE
      OBVIOUS
  <2>1. l * LineSize + LineSize <= s * LineSize
      BY <1>1, Multiples
  <2> QED BY <1>1, <1>2, <1>3, <1>5, <2>1
<1>7. (start + k * LineSize) \div LineSize = l
  <2>1. start + k * LineSize \in Nat /\ l * LineSize <= start + k * LineSize
        /\ start + k * LineSize < l * LineSize + LineSize
      BY <1>1, <1>2, <1>3, <1>5, <1>6
  <2> QED BY <1>1, <2>1, OnlyLine
<1>8. IF start % LineSize = 0 THEN k <= n - 1 ELSE k <= n
  <2>0. (s + n) * LineSize = s * LineSize + n * LineSize /\ (s + n + 1) * LineSize = s * LineSize + n * LineSize + LineSize
    <3>1. (s + n) * LineSize = s * LineSize + n * LineSize
          /\ ((s + n) + 1) * LineSize = (s + n) * LineSize + 1 * LineSize
        BY <1>1, Multiples
    <3> QED BY <1>1, <1>5, <3>1
  <2>1. CASE start % LineSize = 0
    <3>1. start = s * LineSize
      <4>1. start = (start \div LineSize) * LineSize + (start % LineSize)
          BY <1>1, Z3
      <4> QED BY <1>2, <1>5, <2>1, <4>1
    <3>2. x < (s + n) * LineSize
        BY <1>1, <1>4, <1>5, <2>0, <3>1
    <3>3. ~(s + n < l)  /\ s + n # l
      <4>1. s + n < l => (s + n) * LineSize + LineSize <= l * LineSize
          BY <1>1, Multiples
      <4> QED BY <1>1, <1>3, <1>5, <2>0, <3>2, <4>1
    <3> QED BY <2>1, <3>3
  <2>2. CASE start % LineSize # 0
    <3>2. x < (s + n + 1) * LineSize
        BY <1>1, <1>2, <1>4, <1>5, <2>0
    <3>3. ~(s + n < l) 
      <4>1. s + n + 1 < l => (s + n + 1) * LineSize + LineSize <= l * LineSize
          BY <1>1, Multiples
      <4> QED BY <1>1, <1>3, <1>5, <2>0, <3>2, <4>1
    <3> QED BY <2>2, <3>3
  <2> QED BY <2>1, <2>2
<1> HIDE DEF k
<1>9. start + k * LineSize \in C!Steps(start, len)
    BY <1>4, <1>6, <1>8 DEF C!Steps
<1> QED BY <1>3, <1>7, <1>9 DEF C!LinesFlushed, C!LineOf

\* A flush of whole lines visits no other line.
LEMMA FlushOnly ==
    ASSUME C!CacheAssumption, NEW start \in Nat, NEW len \in Nat,
           start % LineSize = 0, len % LineSize = 0,
           NEW x \in Nat, C!LineOf(x) \in C!LinesFlushed(start, len)
    PROVE  x \in start .. start + len - 1
<1>1. LineSize \in Nat \ {0}
    BY CacheNumbers
<1>2. PICK s \in Nat, n \in Nat : start = s * LineSize /\ len = n * LineSize
  <2>1. start = (start \div LineSize) * LineSize + (start % LineSize) /\ start \div LineSize \in Nat
      BY <1>1, Z3
  <2>2. len = (len \div LineSize) * LineSize + (len % LineSize) /\ len \div LineSize \in Nat
      BY <1>1, Z3
  <2>3. (start \div LineSize) * LineSize \in Int /\ (len \div LineSize) * LineSize \in Int
      BY <1>1, <2>1, <2>2, Multiples
  <2> QED BY <2>1, <2>2, <2>3
<1>3. (len + LineSize - 1) \div LineSize = n
  <2>1. n * LineSize \in Int /\ len + LineSize - 1 \in Nat
      BY <1>1, <1>2, Multiples
  <2> QED BY <1>1, <1>2, <2>1, OnlyLine
<1>4. PICK k \in 0 .. n - 1 : C!LineOf(x) = (start + k * LineSize) \div LineSize
    BY <1>3 DEF C!LinesFlushed, C!Steps, C!LineOf
<1>5. PICK l \in Nat : l = x \div LineSize /\ l * LineSize <= x /\ x < l * LineSize + LineSize
    BY <1>1, InLine
<1>6. l = s + k /\ l * LineSize = start + k * LineSize /\ k * LineSize \in Nat
  <2>1. (s + k) * LineSize = start + k * LineSize /\ k * LineSize \in Nat
    <3>1. (s + k) * LineSize = s * LineSize + k * LineSize
        BY <1>1, Multiples
    <3>2. k * LineSize \in Nat
        BY <1>1, Z3
    <3> QED BY <1>2, <3>1, <3>2
  <2>2. (start + k * LineSize) \div LineSize = s + k
    <3> DEFINE y == start + k * LineSize
    <3>1. y \in Nat /\ (s + k) * LineSize <= y /\ y < (s + k) * LineSize + LineSize
          /\ s + k \in Int
        BY <1>1, <2>1
    <3> HIDE DEF y
    <3>2. y \div LineSize = s + k
        BY <1>1, <3>1, OnlyLine
    <3> QED BY <3>2 DEF y
  <2> QED BY <1>4, <1>5, <2>1, <2>2 DEF C!LineOf
<1>7. k * LineSize + LineSize <= len
    BY <1>1, <1>2, Multiples
<1> QED BY <1>1, <1>5, <1>6, <1>7

\* Words of a line are in memory together.
LEMMA WholeLine ==
    ASSUME C!CacheAssumption, NEW x \in Nat, NEW y \in Nat, C!LineOf(x) = C!LineOf(y),
           NEW start \in Nat, NEW len \in Nat, start % LineSize = 0, len % LineSize = 0,
           x \in start .. start + len - 1
    PROVE  y \in start .. start + len - 1
BY FlushCovers, FlushOnly

-----------------------------------------------------------------------------
(* The caches: loads, stores and flushes                                   *)

\* A machine whose words have values of V.
Machine(h, V) ==
    /\ h = [memory |-> h.memory, dcache |-> h.dcache, icache |-> h.icache]
    /\ h.memory \in [Addresses -> V]
    /\ \A l \in DOMAIN h.dcache :
           l \in C!Lines /\ h.dcache[l] \in [dirty : BOOLEAN, words : [C!WordsOf(l) -> V]]
    /\ \A l \in DOMAIN h.icache : l \in C!Lines /\ h.icache[l] \in [C!WordsOf(l) -> V]

\* Where the line of a is not changed, it has what memory has.
Clean(h, a) ==
    LET l == C!LineOf(a)
    IN  l \in DOMAIN h.dcache /\ ~h.dcache[l].dirty => h.dcache[l].words[a] = h.memory[a]

LEMMA ViewIs ==
    ASSUME NEW h, NEW a \in Addresses
    PROVE  C!View(h, a) = IF C!LineOf(a) \in DOMAIN h.dcache THEN h.dcache[C!LineOf(a)].words[a]
                          ELSE h.memory[a]
BY DEF C!View, C!Held, C!WordsOf, Addresses

LEMMA HeldIs ==
    ASSUME NEW V, NEW h, Machine(h, V), NEW l \in C!Lines
    PROVE  C!Held(h, l) \in [dirty : BOOLEAN, words : [C!WordsOf(l) -> V]]
<1>1. CASE l \in DOMAIN h.dcache
    BY <1>1 DEF C!Held, Machine
<1>2. CASE l \notin DOMAIN h.dcache
    BY <1>2 DEF C!Held, Machine, C!WordsOf, Addresses
<1> QED BY <1>1, <1>2

\* A line comes in and the one in its place is written back.
LEMMA EnterIs ==
    ASSUME NEW V, NEW h, Machine(h, V), NEW l \in C!Lines,
           NEW line \in [dirty : BOOLEAN, words : [C!WordsOf(l) -> V]]
    PROVE  LET g == C!Enter(h, l, line)
           IN  /\ Machine(g, V)
               /\ g.icache = h.icache
               /\ DOMAIN g.dcache \subseteq DOMAIN h.dcache \cup {l}
               /\ l \in DOMAIN g.dcache /\ g.dcache[l] = line
               /\ \A b \in Addresses : C!LineOf(b) = l => g.memory[b] = h.memory[b]
               /\ \A b \in Addresses : C!LineOf(b) # l /\ Clean(h, b) =>
                     /\ Clean(g, b)
                     /\ C!View(g, b) = C!View(h, b)
                     /\ g.memory[b] \in {h.memory[b], C!View(h, b)}
<1> DEFINE leaving == {k \in DOMAIN h.dcache \ {l} : k % DCacheLines = l % DCacheLines}
           stay == DOMAIN h.dcache \ leaving
           memory == C!WriteBack(h, leaving)
           dcache == [k \in {l} \cup stay |-> IF k = l THEN line ELSE h.dcache[k]]
           g == C!Enter(h, l, line)
<1>1. g = [h EXCEPT !.memory = memory, !.dcache = dcache]
  <2>1. stay \cup {l} = {l} \cup stay
      OBVIOUS
  <2> QED BY <2>1, Zenon DEF C!Enter
<1>2. g.memory = memory /\ g.dcache = dcache /\ g.icache = h.icache
      /\ g = [memory |-> g.memory, dcache |-> g.dcache, icache |-> g.icache]
  <2> HIDE DEF memory, dcache, g
  <2>1. h = [memory |-> h.memory, dcache |-> h.dcache, icache |-> h.icache]
      BY DEF Machine
  <2> QED BY <1>1, <2>1
<1>3. DOMAIN g.dcache = {l} \cup stay /\ g.dcache[l] = line
      /\ \A k \in stay \ {l} : g.dcache[k] = h.dcache[k]
    BY <1>2
<1>4. l \notin leaving /\ leaving \subseteq DOMAIN h.dcache
    OBVIOUS
<1>5. ASSUME NEW b \in Addresses
      PROVE  memory[b] = IF C!LineOf(b) \in leaving /\ h.dcache[C!LineOf(b)].dirty
                         THEN h.dcache[C!LineOf(b)].words[b] ELSE h.memory[b]
    BY <1>4 DEF C!WriteBack, Addresses
<1>6. \A b \in Addresses : b \in C!WordsOf(C!LineOf(b))
    BY DEF C!WordsOf, Addresses
<1> HIDE DEF leaving, memory, dcache, g
<1>7. memory \in [Addresses -> V]
  <2>1. memory = [b \in Addresses |-> memory[b]]
      BY DEF memory, C!WriteBack, Addresses
  <2>2. \A b \in Addresses : memory[b] \in V
      BY <1>4, <1>5, <1>6 DEF Machine
  <2> QED BY <2>1, <2>2
<1>8. Machine(g, V)
    BY <1>2, <1>3, <1>7 DEF Machine
<1>9. \A b \in Addresses : C!LineOf(b) = l => g.memory[b] = h.memory[b]
    BY <1>2, <1>4, <1>5
<1>10. ASSUME NEW b \in Addresses, C!LineOf(b) # l, Clean(h, b)
       PROVE  /\ Clean(g, b)
              /\ C!View(g, b) = C!View(h, b)
              /\ g.memory[b] \in {h.memory[b], C!View(h, b)}
  <2> DEFINE k == C!LineOf(b)
  <2>1. k \in DOMAIN g.dcache <=> k \in DOMAIN h.dcache /\ k \notin leaving
      BY <1>3, <1>10
  <2>2. k \in DOMAIN g.dcache => g.dcache[k] = h.dcache[k] /\ g.memory[b] = h.memory[b]
      BY <1>2, <1>3, <1>5, <1>10, <2>1
  <2>3. k \in leaving => g.memory[b] = h.dcache[k].words[b]
    <3>1. k \in leaving => k \in DOMAIN h.dcache /\ h.dcache[k].dirty \in BOOLEAN
        BY <1>4 DEF Machine
    <3> QED BY <1>2, <1>5, <1>10, <3>1 DEF Clean
  <2>4. k \notin DOMAIN h.dcache => g.memory[b] = h.memory[b]
      BY <1>2, <1>4, <1>5
  <2> QED BY <1>10, <2>1, <2>2, <2>3, <2>4, ViewIs DEF Clean
<1>11. DOMAIN g.dcache \subseteq DOMAIN h.dcache \cup {l}
    BY <1>3
<1> QED BY <1>2, <1>3, <1>8, <1>9, <1>10, <1>11 DEF g

LEMMA LineKnown ==
    ASSUME NEW a \in Addresses
    PROVE  C!LineOf(a) \in C!Lines /\ a \in C!WordsOf(C!LineOf(a))
BY DEF C!Lines, C!WordsOf, Addresses

LEMMA LoadIs ==
    ASSUME NEW V, NEW h, Machine(h, V), NEW a \in Addresses
    PROVE  LET g == C!Load(h, a)
           IN  /\ Machine(g, V)
               /\ g.icache = h.icache
               /\ DOMAIN g.dcache \subseteq DOMAIN h.dcache \cup {C!LineOf(a)}
               /\ \A b \in Addresses : Clean(h, b) =>
                     /\ Clean(g, b)
                     /\ C!View(g, b) = C!View(h, b)
                     /\ g.memory[b] \in {h.memory[b], C!View(h, b)}
<1> DEFINE l == C!LineOf(a)
           line == C!Held(h, l)
           g == C!Load(h, a)
<1>1. l \in C!Lines /\ line \in [dirty : BOOLEAN, words : [C!WordsOf(l) -> V]]
    BY LineKnown, HeldIs
<1>2. g = C!Enter(h, l, line)
    BY DEF C!Load
<1> HIDE DEF l, line, g
<1>3. /\ Machine(g, V)
      /\ g.icache = h.icache
      /\ DOMAIN g.dcache \subseteq DOMAIN h.dcache \cup {l}
      /\ l \in DOMAIN g.dcache /\ g.dcache[l] = line
      /\ \A b \in Addresses : C!LineOf(b) = l => g.memory[b] = h.memory[b]
      /\ \A b \in Addresses : C!LineOf(b) # l /\ Clean(h, b) =>
            /\ Clean(g, b)
            /\ C!View(g, b) = C!View(h, b)
            /\ g.memory[b] \in {h.memory[b], C!View(h, b)}
    BY <1>1, <1>2, EnterIs
<1>4. ASSUME NEW b \in Addresses, C!LineOf(b) = l, Clean(h, b)
      PROVE  Clean(g, b) /\ C!View(g, b) = C!View(h, b) /\ g.memory[b] = h.memory[b]
  <2>1. C!View(g, b) = line.words[b] /\ g.memory[b] = h.memory[b]
      BY <1>3, <1>4, ViewIs
  <2>2. CASE l \in DOMAIN h.dcache
    <3>1. line = h.dcache[l]
        BY <2>2 DEF line, C!Held
    <3> QED BY <1>3, <1>4, <2>1, <2>2, <3>1, ViewIs DEF Clean
  <2>3. CASE l \notin DOMAIN h.dcache
    <3>1. line.words[b] = h.memory[b]
        BY <1>4, <2>3, LineKnown DEF line, C!Held
    <3> QED BY <1>3, <1>4, <2>1, <2>3, <3>1, ViewIs DEF Clean
  <2> QED BY <2>2, <2>3
<1> QED BY <1>3, <1>4 DEF g, l

LEMMA StoreIs ==
    ASSUME NEW V, NEW h, Machine(h, V), NEW a \in Addresses, NEW v \in V
    PROVE  LET g == C!Store(h, a, v)
           IN  /\ Machine(g, V)
               /\ g.icache = h.icache
               /\ DOMAIN g.dcache \subseteq DOMAIN h.dcache \cup {C!LineOf(a)}
               /\ \A b \in Addresses : Clean(h, b) =>
                     /\ Clean(g, b)
                     /\ C!View(g, b) = IF b = a THEN v ELSE C!View(h, b)
                     /\ g.memory[b] \in {h.memory[b], C!View(h, b)}
<1> DEFINE l == C!LineOf(a)
           held == C!Held(h, l)
           line == [dirty |-> TRUE, words |-> [held.words EXCEPT ![a] = v]]
           g == C!Store(h, a, v)
<1>0. l \in C!Lines /\ a \in C!WordsOf(l) /\ held \in [dirty : BOOLEAN, words : [C!WordsOf(l) -> V]]
    BY LineKnown, HeldIs
<1>1. line \in [dirty : BOOLEAN, words : [C!WordsOf(l) -> V]]
  <2> HIDE DEF l, held
  <2> QED BY <1>0
<1>2. g = C!Enter(h, l, line)
    BY DEF C!Store
<1>3. line.dirty /\ \A b \in C!WordsOf(l) : line.words[b] = IF b = a THEN v ELSE held.words[b]
  <2> HIDE DEF l, held
  <2> QED BY <1>0
<1> HIDE DEF l, held, line, g
<1>4. /\ Machine(g, V)
      /\ g.icache = h.icache
      /\ DOMAIN g.dcache \subseteq DOMAIN h.dcache \cup {l}
      /\ l \in DOMAIN g.dcache /\ g.dcache[l] = line
      /\ \A b \in Addresses : C!LineOf(b) = l => g.memory[b] = h.memory[b]
      /\ \A b \in Addresses : C!LineOf(b) # l /\ Clean(h, b) =>
            /\ Clean(g, b)
            /\ C!View(g, b) = C!View(h, b)
            /\ g.memory[b] \in {h.memory[b], C!View(h, b)}
    BY <1>0, <1>1, <1>2, EnterIs
<1>5. ASSUME NEW b \in Addresses, C!LineOf(b) = l
      PROVE  /\ Clean(g, b) /\ g.memory[b] = h.memory[b]
             /\ C!View(g, b) = IF b = a THEN v ELSE C!View(h, b)
  <2>1. C!View(g, b) = line.words[b] /\ b \in C!WordsOf(l)
      BY <1>4, <1>5, ViewIs, LineKnown
  <2>2. held.words[b] = C!View(h, b)
      BY <1>5 DEF held, C!View
  <2> QED BY <1>3, <1>4, <1>5, <2>1, <2>2 DEF Clean
<1>6. \A b \in Addresses : C!LineOf(b) # l => b # a
    BY DEF l
<1> QED BY <1>4, <1>5, <1>6 DEF g, l

\* Lines leave the cache, written back or not.
LEMMA DropIs ==
    ASSUME NEW V, NEW h, Machine(h, V), NEW ls
    PROVE  LET g == C!Drop(h, ls)
           IN  /\ Machine(g, V)
               /\ g.icache = h.icache /\ g.memory = h.memory
               /\ DOMAIN g.dcache = DOMAIN h.dcache \ ls
               /\ \A b \in Addresses : C!LineOf(b) \notin ls =>
                     (Clean(h, b) => Clean(g, b)) /\ C!View(g, b) = C!View(h, b)
<1> DEFINE g == C!Drop(h, ls)
           dcache == [l \in DOMAIN h.dcache \ ls |-> h.dcache[l]]
<1>1. g = [h EXCEPT !.dcache = dcache]
    BY DEF C!Drop, C!Restrict
<1>2. /\ g.memory = h.memory /\ g.dcache = dcache /\ g.icache = h.icache
      /\ g = [memory |-> g.memory, dcache |-> g.dcache, icache |-> g.icache]
  <2> HIDE DEF dcache, g
  <2>1. h = [memory |-> h.memory, dcache |-> h.dcache, icache |-> h.icache]
      BY DEF Machine
  <2> QED BY <1>1, <2>1
<1> HIDE DEF g
<1>3. DOMAIN g.dcache = DOMAIN h.dcache \ ls /\ \A l \in DOMAIN g.dcache : g.dcache[l] = h.dcache[l]
    BY <1>2
<1> HIDE DEF dcache
<1>4. Machine(g, V)
    BY <1>2, <1>3 DEF Machine
<1>5. ASSUME NEW b \in Addresses, C!LineOf(b) \notin ls
      PROVE  (Clean(h, b) => Clean(g, b)) /\ C!View(g, b) = C!View(h, b)
    BY <1>2, <1>3, <1>5, ViewIs DEF Clean
<1> QED BY <1>2, <1>3, <1>4, <1>5 DEF g

LEMMA FlushIs ==
    ASSUME NEW V, NEW h, Machine(h, V), NEW ls
    PROVE  LET g == C!Flush(h, ls)
           IN  /\ Machine(g, V)
               /\ g.icache = h.icache
               /\ DOMAIN g.dcache = DOMAIN h.dcache \ ls
               /\ \A b \in Addresses : Clean(h, b) =>
                     /\ Clean(g, b)
                     /\ C!View(g, b) = C!View(h, b)
                     /\ g.memory[b] \in {h.memory[b], C!View(h, b)}
                     /\ C!LineOf(b) \in ls => g.memory[b] = C!View(h, b)
<1> DEFINE f == C!Drop(h, ls)
           memory == C!WriteBack(h, ls)
           g == C!Flush(h, ls)
<1>1. g = [f EXCEPT !.memory = memory]
    BY DEF C!Flush
<1>2. /\ Machine(f, V) /\ f.icache = h.icache /\ DOMAIN f.dcache = DOMAIN h.dcache \ ls
      /\ \A l \in DOMAIN f.dcache : f.dcache[l] = h.dcache[l]
  <2>1. f.dcache = [l \in DOMAIN h.dcache \ ls |-> h.dcache[l]]
    <3>1. h = [memory |-> h.memory, dcache |-> h.dcache, icache |-> h.icache]
        BY DEF Machine
    <3> QED BY <3>1 DEF C!Drop, C!Restrict
  <2> HIDE DEF f
  <2>2. Machine(f, V) /\ f.icache = h.icache /\ DOMAIN f.dcache = DOMAIN h.dcache \ ls
      BY DropIs DEF f
  <2> QED BY <2>1, <2>2
<1> HIDE DEF f
<1>3. /\ g.memory = memory /\ g.dcache = f.dcache /\ g.icache = f.icache
      /\ g = [memory |-> g.memory, dcache |-> g.dcache, icache |-> g.icache]
  <2> HIDE DEF memory, g
  <2>1. f = [memory |-> f.memory, dcache |-> f.dcache, icache |-> f.icache]
      BY <1>2 DEF Machine
  <2> QED BY <1>1, <2>1
<1>4. ASSUME NEW b \in Addresses
      PROVE  memory[b] = IF C!LineOf(b) \in ls /\ C!LineOf(b) \in DOMAIN h.dcache
                            /\ h.dcache[C!LineOf(b)].dirty
                         THEN h.dcache[C!LineOf(b)].words[b] ELSE h.memory[b]
    BY DEF C!WriteBack, Addresses
<1>5. memory = [b \in Addresses |-> memory[b]]
    BY DEF C!WriteBack, Addresses
<1> HIDE DEF memory, g
<1>6. memory \in [Addresses -> V]
  <2>2. \A b \in Addresses : memory[b] \in V
      BY <1>4, LineKnown DEF Machine
  <2> QED BY <1>5, <2>2
<1>7. Machine(g, V)
    BY <1>2, <1>3, <1>6 DEF Machine
<1>8. ASSUME NEW b \in Addresses, Clean(h, b)
      PROVE  /\ Clean(g, b)
             /\ C!View(g, b) = C!View(h, b)
             /\ g.memory[b] \in {h.memory[b], C!View(h, b)}
             /\ C!LineOf(b) \in ls => g.memory[b] = C!View(h, b)
  <2> DEFINE k == C!LineOf(b)
  <2>1. k \in DOMAIN h.dcache => h.dcache[k].dirty \in BOOLEAN
      BY DEF Machine
  <2>2. C!View(h, b) = IF k \in DOMAIN h.dcache THEN h.dcache[k].words[b] ELSE h.memory[b]
      BY ViewIs
  <2>3. C!View(g, b) = IF k \in DOMAIN g.dcache THEN g.dcache[k].words[b] ELSE g.memory[b]
      BY ViewIs
  <2>4. Clean(h, b) /\ g.memory[b] = memory[b]
      BY <1>3, <1>8
  <2>5. k \in ls => g.memory[b] = C!View(h, b)
      BY <1>4, <2>1, <2>2, <2>4 DEF Clean
  <2>6. k \notin ls => g.memory[b] = h.memory[b]
      BY <1>4, <2>4
  <2> HIDE DEF k
  <2>7. Clean(g, b)
      BY <1>2, <1>3, <2>4, <2>6 DEF Clean, k
  <2> QED BY <1>2, <1>3, <2>2, <2>3, <2>5, <2>6, <2>7 DEF k
<1> QED BY <1>2, <1>3, <1>7, <1>8 DEF g

\* A store past the cache, of which the cache has nothing.
LEMMA StoreIOIs ==
    ASSUME NEW V, NEW h, Machine(h, V), NEW a \in Addresses, NEW v \in V,
           C!LineOf(a) \notin DOMAIN h.dcache
    PROVE  LET g == C!StoreIO(h, a, v)
           IN  /\ Machine(g, V)
               /\ g.dcache = h.dcache
               /\ \A b \in Addresses : Clean(h, b) =>
                     Clean(g, b) /\ C!View(g, b) = IF b = a THEN v ELSE C!View(h, b)
<1> DEFINE g == C!StoreIO(h, a, v)
<1>1. /\ g.memory = [h.memory EXCEPT ![a] = v] /\ g.dcache = h.dcache /\ g.icache = h.icache
      /\ g = [memory |-> g.memory, dcache |-> g.dcache, icache |-> g.icache]
  <2>1. h = [memory |-> h.memory, dcache |-> h.dcache, icache |-> h.icache]
      BY DEF Machine
  <2>2. g = [h EXCEPT !.memory = [h.memory EXCEPT ![a] = v]]
      BY DEF C!StoreIO
  <2> HIDE DEF g
  <2> QED BY <2>1, <2>2
<1> HIDE DEF g
<1>2. \A b \in Addresses : g.memory[b] = IF b = a THEN v ELSE h.memory[b]
    BY <1>1 DEF Machine
<1>3. Machine(g, V)
    BY <1>1 DEF Machine
<1>4. ASSUME NEW b \in Addresses, Clean(h, b)
      PROVE  Clean(g, b) /\ C!View(g, b) = IF b = a THEN v ELSE C!View(h, b)
  <2>1. C!View(g, b) = IF C!LineOf(b) \in DOMAIN h.dcache THEN h.dcache[C!LineOf(b)].words[b]
                       ELSE g.memory[b]
      BY <1>1, ViewIs
  <2>2. b = a => C!LineOf(b) \notin DOMAIN h.dcache
      OBVIOUS
  <2> QED BY <1>1, <1>2, <1>4, <2>1, <2>2, ViewIs DEF Clean
<1> QED BY <1>1, <1>3, <1>4 DEF g

-----------------------------------------------------------------------------
(* The blocks of memory                                                    *)

MemoryFits == Mem!MemoryAssumption /\ ICacheLines \in Nat \ {0}

\* Blocks lie in memory and apart, and those used past the cache are whole lines.
BlocksLaid ==
    /\ \A b \in blocks :
          /\ b.start \in Addresses /\ b.len \in BlockSizes /\ b.room \in Nat /\ b.len <= b.room
          /\ b.uncached \in BOOLEAN
          /\ Mem!Room(b) \subseteq Addresses
          /\ b.uncached => b.start % LineSize = 0 /\ b.room % LineSize = 0
    /\ \A b, c \in blocks : b = c \/ Mem!Room(b) \cap Mem!Room(c) = {}

\* The cache has nothing of the blocks that are used past it.
PastCache ==
    \A b \in blocks : b.uncached =>
        \A x \in Mem!Room(b) : C!LineOf(x) \notin DOMAIN store.dcache

\* The watched word is seen as it was stored last.
Stored ==
    \A b \in blocks :
        watched \in Mem!Used(b) /\ last # Mem!NotStored => last = C!View(store, watched)

MemInv ==
    /\ Machine(store, {0, 1}) /\ \A a \in Addresses : Clean(store, a)
    /\ blocks \subseteq [start : Addresses, len : BlockSizes, room : Nat, uncached : BOOLEAN]
    /\ watched \in Addresses /\ last \in {0, 1, Mem!NotStored}
    /\ BlocksLaid /\ PastCache /\ Stored

\* The operators of the module are those of the caches above.
LEMMA MemCache ==
    /\ \A g, a : Mem!Cache!View(g, a) = C!View(g, a)
    /\ \A g, a : Mem!Cache!Load(g, a) = C!Load(g, a)
    /\ \A g, a, v : Mem!Cache!Store(g, a, v) = C!Store(g, a, v)
    /\ \A g, a, v : Mem!Cache!StoreIO(g, a, v) = C!StoreIO(g, a, v)
    /\ \A g, s, n : Mem!Cache!alt_dcache_flush(g, s, n) = C!Flush(g, C!LinesFlushed(s, n))
    /\ \A g, s, n : Mem!Cache!alt_dcache_flush_no_writeback(g, s, n) = C!Drop(g, C!LinesFlushed(s, n))
    /\ \A a : Mem!Cache!LineOf(a) = C!LineOf(a)
<1>1. \A a : Mem!Cache!LineOf(a) = C!LineOf(a)
    BY DEF Mem!Cache!LineOf, C!LineOf
<1>2. \A g, a : Mem!Cache!View(g, a) = C!View(g, a)
    BY DEF Mem!Cache!View, C!View, Mem!Cache!Held, C!Held, Mem!Cache!LineOf, C!LineOf,
           Mem!Cache!WordsOf, C!WordsOf
<1>3. \A g, a : Mem!Cache!Load(g, a) = C!Load(g, a)
    BY DEF Mem!Cache!Load, C!Load, Mem!Cache!Enter, C!Enter, Mem!Cache!WriteBack, C!WriteBack,
           Mem!Cache!Held, C!Held, Mem!Cache!LineOf, C!LineOf, Mem!Cache!WordsOf, C!WordsOf
<1>4. \A g, a, v : Mem!Cache!Store(g, a, v) = C!Store(g, a, v)
    BY DEF Mem!Cache!Store, C!Store, Mem!Cache!Enter, C!Enter, Mem!Cache!WriteBack, C!WriteBack,
           Mem!Cache!Held, C!Held, Mem!Cache!LineOf, C!LineOf, Mem!Cache!WordsOf, C!WordsOf
<1>5. \A g, a, v : Mem!Cache!StoreIO(g, a, v) = C!StoreIO(g, a, v)
    BY DEF Mem!Cache!StoreIO, C!StoreIO
<1>6. \A s, n : Mem!Cache!LinesFlushed(s, n) = C!LinesFlushed(s, n)
    BY DEF Mem!Cache!LinesFlushed, C!LinesFlushed, Mem!Cache!Steps, C!Steps, Mem!Cache!LineOf, C!LineOf
<1>7. \A g, ls : Mem!Cache!Drop(g, ls) = C!Drop(g, ls)
    BY DEF Mem!Cache!Drop, C!Drop, Mem!Cache!Restrict, C!Restrict
<1>8. \A g, ls : Mem!Cache!Flush(g, ls) = C!Flush(g, ls)
    BY DEF Mem!Cache!Flush, C!Flush, Mem!Cache!Drop, C!Drop, Mem!Cache!Restrict, C!Restrict,
           Mem!Cache!WriteBack, C!WriteBack, Mem!Cache!LineOf, C!LineOf
<1>9. \A g, s, n : Mem!Cache!alt_dcache_flush(g, s, n) = C!Flush(g, C!LinesFlushed(s, n))
    BY <1>6, <1>8 DEF Mem!Cache!alt_dcache_flush
<1>10. \A g, s, n : Mem!Cache!alt_dcache_flush_no_writeback(g, s, n) = C!Drop(g, C!LinesFlushed(s, n))
    BY <1>6, <1>7 DEF Mem!Cache!alt_dcache_flush_no_writeback
<1> QED BY <1>1, <1>2, <1>3, <1>4, <1>5, <1>9, <1>10

LEMMA MemNumbers ==
    ASSUME MemoryFits
    PROVE  C!CacheAssumption /\ BlockSizes \subseteq Nat \ {0} /\ LineSize \in Nat \ {0}
           /\ Addresses \subseteq Nat
<1>1. Mem!Cache!CacheAssumption
    BY DEF MemoryFits, Mem!MemoryAssumption
<1>2. ICacheLines \in Nat \ {0}
    BY DEF MemoryFits
<1>3. C!CacheAssumption
    BY <1>1, <1>2 DEF Mem!Cache!CacheAssumption, C!CacheAssumption
<1> QED BY <1>3, CacheNumbers DEF MemoryFits, Mem!MemoryAssumption

LEMMA MemInit == ASSUME MemoryFits PROVE Mem!Init => MemInv
<1> SUFFICES ASSUME Mem!Init PROVE MemInv
    OBVIOUS
<1>1. store = [memory |-> [a \in Addresses |-> 0], dcache |-> <<>>, icache |-> <<>>]
    BY DEF Mem!Init, Mem!Cache!Cold, Addresses
<1>2. DOMAIN store.dcache = {} /\ DOMAIN store.icache = {}
    BY <1>1
<1>3. Machine(store, {0, 1}) /\ \A a \in Addresses : Clean(store, a)
    BY <1>1, <1>2 DEF Machine, Clean
<1> QED BY <1>3 DEF MemInv, Mem!Init, BlocksLaid, PastCache, Stored, Addresses

\* A word of a block and the line of another one that is used past the cache.
LEMMA OtherLine ==
    ASSUME MemoryFits, MemInv, NEW b \in blocks, NEW c \in blocks, b # c, c.uncached,
           NEW a \in Mem!Room(b), NEW x \in Mem!Room(c)
    PROVE  C!LineOf(x) # C!LineOf(a)
<1> SUFFICES ASSUME C!LineOf(x) = C!LineOf(a) PROVE FALSE
    OBVIOUS
<1>1. /\ C!CacheAssumption /\ a \in Nat /\ x \in Nat /\ c.start \in Nat /\ c.room \in Nat
      /\ c.start % LineSize = 0 /\ c.room % LineSize = 0
    BY MemNumbers DEF MemInv, BlocksLaid
<1>2. a \in Mem!Room(c)
    BY <1>1, WholeLine DEF Mem!Room, Mem!Words
<1> QED BY <1>2 DEF MemInv, BlocksLaid

LEMMA UsedIsRoom ==
    ASSUME MemoryFits, MemInv, NEW b \in blocks
    PROVE  Mem!Used(b) \subseteq Mem!Room(b) /\ b.start \in Mem!Room(b) /\ Mem!Room(b) \subseteq Addresses
BY MemNumbers DEF MemInv, BlocksLaid, Mem!Used, Mem!Room, Mem!Words

\* The cache changes, but for a word, and the blocks stay.
LEMMA MemStays ==
    ASSUME MemoryFits, MemInv, Machine(store', {0, 1}),
           \A a \in Addresses : Clean(store', a),
           watched' = watched, last' \in {0, 1, Mem!NotStored},
           NEW a \in Addresses,
           \A c \in blocks' : c \in blocks /\ (c.uncached => a \notin Mem!Room(c)),
           DOMAIN store'.dcache \subseteq DOMAIN store.dcache \cup {C!LineOf(a)},
           \A c \in blocks' : watched \in Mem!Used(c) /\ last' # Mem!NotStored =>
               last' = C!View(store', watched)
    PROVE  MemInv'
<1>1. BlocksLaid'
    BY DEF MemInv, BlocksLaid, Mem!Room, Mem!Words
<1>2. PastCache'
  <2> SUFFICES ASSUME NEW c \in blocks', c.uncached, NEW x \in Mem!Room(c)
               PROVE  C!LineOf(x) \notin DOMAIN store'.dcache
      BY DEF PastCache, Mem!Room, Mem!Words
  <2>1. C!LineOf(x) \notin DOMAIN store.dcache
      BY DEF MemInv, PastCache
  <2>2. C!LineOf(x) # C!LineOf(a)
    <3>1. /\ C!CacheAssumption /\ a \in Nat /\ x \in Nat /\ c.start \in Nat /\ c.room \in Nat
          /\ c.start % LineSize = 0 /\ c.room % LineSize = 0
        BY MemNumbers DEF MemInv, BlocksLaid
    <3>2. C!LineOf(x) = C!LineOf(a) => a \in Mem!Room(c)
        BY <3>1, WholeLine DEF Mem!Room, Mem!Words
    <3> QED BY <3>2
  <2> QED BY <2>1, <2>2
<1>3. Stored'
    BY DEF Stored, Mem!Used, Mem!Words
<1> QED BY <1>1, <1>2, <1>3 DEF MemInv

LEMMA MemMalloc ==
    ASSUME MemoryFits, MemInv, NEW start \in Addresses, NEW size \in BlockSizes,
           Mem!Malloc(start, size)
    PROVE  MemInv'
<1> DEFINE b == [start |-> start, len |-> size, room |-> size, uncached |-> FALSE]
<1>1. /\ blocks' = blocks \cup {b} /\ store' = store /\ watched' = watched
      /\ Mem!Room(b) = Mem!Words(start, size) /\ Mem!Used(b) = Mem!Words(start, size)
      /\ last' = IF watched \in Mem!Words(start, size) THEN Mem!NotStored ELSE last
    BY DEF Mem!Malloc, Mem!Room, Mem!Used, Mem!Forget
<1>2. Mem!Words(start, size) \subseteq Addresses /\ \A c \in blocks : Mem!Words(start, size) \cap Mem!Room(c) = {}
    BY DEF Mem!Malloc, Mem!Free, Addresses
<1>3. BlocksLaid'
  <2>1. b.start \in Addresses /\ b.len \in BlockSizes /\ b.room \in Nat /\ b.len <= b.room
        /\ b.uncached \in BOOLEAN /\ ~b.uncached
      BY MemNumbers
  <2> HIDE DEF b
  <2>2. \A c \in blocks' : Mem!Room(c)' = Mem!Room(c)
      BY DEF Mem!Room, Mem!Words
  <2>3. \A c \in blocks' : c = b \/ c \in blocks
      BY <1>1
  <2> QED BY <1>1, <1>2, <2>1, <2>2, <2>3 DEF MemInv, BlocksLaid, Mem!Room, Mem!Words
<1>4. PastCache'
  <2>1. ~b.uncached
      OBVIOUS
  <2> HIDE DEF b
  <2> QED BY <1>1, <2>1 DEF MemInv, PastCache, Mem!Room, Mem!Words
<1>5. b \in [start : Addresses, len : BlockSizes, room : Nat, uncached : BOOLEAN]
    BY MemNumbers
<1> HIDE DEF b
<1>6. Stored'
    BY <1>1 DEF MemInv, Stored, Mem!Used, Mem!Words
<1> QED BY <1>1, <1>3, <1>4, <1>5, <1>6 DEF MemInv

\* A block that begins at a line and has whole lines none of which stays in the cache.
LEMMA MemUncached ==
    ASSUME MemoryFits, MemInv, NEW start \in Addresses, NEW size \in BlockSizes,
           Mem!alt_uncached_malloc(start, size)
    PROVE  MemInv'
<1> DEFINE room == Mem!aligned_size(size)
           b == [start |-> start, len |-> size, room |-> room, uncached |-> TRUE]
           ls == C!LinesFlushed(start, room)
<1>1. /\ blocks' = blocks \cup {b} /\ store' = C!Flush(store, ls) /\ watched' = watched
      /\ Mem!Room(b) = Mem!Words(start, room) /\ Mem!Used(b) = Mem!Words(start, size)
      /\ last' = IF watched \in Mem!Words(start, room) THEN Mem!NotStored ELSE last
      /\ start % LineSize = 0
    BY MemCache DEF Mem!alt_uncached_malloc, Mem!Room, Mem!Used, Mem!Forget
<1>2. Mem!Words(start, room) \subseteq Addresses /\ \A c \in blocks : Mem!Words(start, room) \cap Mem!Room(c) = {}
    BY DEF Mem!alt_uncached_malloc, Mem!Free, Addresses
<1>3. C!CacheAssumption /\ start \in Nat /\ size \in Nat /\ LineSize \in Nat \ {0}
    BY MemNumbers
<1>4. room \in Nat /\ size <= room /\ room % LineSize = 0
  <2>1. PICK n \in Nat : n = (size + LineSize - 1) \div LineSize /\ size <= n * LineSize
      BY <1>3, RoundsUp
  <2>2. n * LineSize \in Nat /\ (n * LineSize) % LineSize = 0
    <3>1. n * LineSize \in Nat
        BY <1>3, Z3
    <3>2. (n * LineSize) \div LineSize = n
        BY <1>3, <3>1, OnlyLine
    <3>3. n * LineSize = ((n * LineSize) \div LineSize) * LineSize + ((n * LineSize) % LineSize)
          /\ (n * LineSize) % LineSize \in Int
      <4> DEFINE x == n * LineSize
      <4>1. x \in Nat
          BY <3>1
      <4> HIDE DEF x
      <4>2. x = (x \div LineSize) * LineSize + (x % LineSize) /\ x % LineSize \in Int
          BY <1>3, <4>1, Z3
      <4> QED BY <4>2 DEF x
    <3> QED BY <3>1, <3>2, <3>3
  <2> QED BY <2>1, <2>2 DEF Mem!aligned_size
<1> HIDE DEF room
<1>5. /\ Machine(store', {0, 1})
      /\ DOMAIN store'.dcache = DOMAIN store.dcache \ ls
      /\ \A a \in Addresses : Clean(store', a) /\ C!View(store', a) = C!View(store, a)
  <2> HIDE DEF ls
  <2> QED BY <1>1, FlushIs DEF MemInv
<1>6. \A x \in Mem!Words(start, room) : C!LineOf(x) \in ls
    BY <1>3, <1>4, FlushCovers DEF Mem!Words
<1>7. BlocksLaid'
  <2>1. b.start \in Addresses /\ b.len \in BlockSizes /\ b.room \in Nat /\ b.len <= b.room
        /\ b.uncached \in BOOLEAN /\ b.start % LineSize = 0 /\ b.room % LineSize = 0
      BY <1>1, <1>4
  <2> HIDE DEF b
  <2>2. \A c \in blocks' : Mem!Room(c)' = Mem!Room(c)
      BY DEF Mem!Room, Mem!Words
  <2>3. \A c \in blocks' : c = b \/ c \in blocks
      BY <1>1
  <2> QED BY <1>1, <1>2, <2>1, <2>2, <2>3 DEF MemInv, BlocksLaid, Mem!Room, Mem!Words
<1>8. PastCache'
  <2> HIDE DEF b, ls
  <2> SUFFICES ASSUME NEW c \in blocks', c.uncached, NEW x \in Mem!Room(c)
               PROVE  C!LineOf(x) \notin DOMAIN store'.dcache
      BY DEF PastCache, Mem!Room, Mem!Words
  <2>1. CASE c = b
      BY <1>1, <1>5, <1>6, <2>1
  <2>2. CASE c \in blocks
      BY <1>5, <2>2 DEF MemInv, PastCache
  <2> QED BY <1>1, <2>1, <2>2
<1>9. b \in [start : Addresses, len : BlockSizes, room : Nat, uncached : BOOLEAN]
    BY <1>4
<1>11. Mem!Words(start, size) \subseteq Mem!Words(start, room)
    BY <1>3, <1>4 DEF Mem!Words
<1> HIDE DEF b, ls
<1>10. Stored'
  <2> SUFFICES ASSUME NEW c \in blocks', watched \in Mem!Used(c), last' # Mem!NotStored
               PROVE  last' = C!View(store', watched)
      BY <1>1 DEF Stored, Mem!Used, Mem!Words
  <2>1. watched \notin Mem!Words(start, room) /\ last' = last /\ c \in blocks
      BY <1>1, <1>11
  <2> QED BY <1>5, <2>1 DEF MemInv, Stored
<1> QED BY <1>1, <1>5, <1>7, <1>8, <1>9, <1>10 DEF MemInv

LEMMA MemRelease ==
    ASSUME MemoryFits, MemInv, NEW b \in blocks, Mem!Release(b)
    PROVE  MemInv'
<1>1. /\ store' = C!Store(store, b.start, 0) /\ blocks' = blocks \ {b} /\ watched' = watched
      /\ last' = IF watched \in Mem!Room(b) THEN Mem!NotStored ELSE last
    BY MemCache DEF Mem!Release, Mem!Forget
<1>2. b.start \in Addresses /\ b.start \in Mem!Room(b)
    BY UsedIsRoom
<1>3. Machine(store, {0, 1}) /\ 0 \in {0, 1}
    BY DEF MemInv
<1>4. /\ Machine(store', {0, 1})
      /\ DOMAIN store'.dcache \subseteq DOMAIN store.dcache \cup {C!LineOf(b.start)}
      /\ \A x \in Addresses : Clean(store, x) =>
            Clean(store', x) /\ C!View(store', x) = IF x = b.start THEN 0 ELSE C!View(store, x)
    BY <1>1, <1>2, <1>3, StoreIs
<1>5. ASSUME NEW c \in blocks' PROVE c \in blocks /\ c # b /\ b.start \notin Mem!Room(c)
    BY <1>1, <1>2, <1>5 DEF MemInv, BlocksLaid
<1>6. ASSUME NEW c \in blocks', watched \in Mem!Used(c), last' # Mem!NotStored
      PROVE  last' = C!View(store', watched)
    BY <1>1, <1>2, <1>4, <1>6 DEF MemInv, Stored
<1>7. \A x \in Addresses : Clean(store', x)
    BY <1>4 DEF MemInv
<1>8. last' \in {0, 1, Mem!NotStored} /\ watched' = watched
    BY <1>1 DEF MemInv
<1> QED BY <1>2, <1>4, <1>5, <1>6, <1>7, <1>8, MemStays

\* A word of a block that is used through the cache is in no block that is used past it.
LEMMA OwnWord ==
    ASSUME MemoryFits, MemInv, NEW b \in blocks, ~b.uncached, NEW a \in Mem!Used(b)
    PROVE  a \in Addresses /\ \A c \in blocks : c.uncached => a \notin Mem!Room(c)
<1>1. a \in Mem!Room(b) /\ a \in Addresses
    BY UsedIsRoom
<1> QED BY <1>1 DEF MemInv, BlocksLaid

LEMMA MemRemap ==
    ASSUME MemoryFits, MemInv, NEW b \in blocks, Mem!alt_remap_cached(b)
    PROVE  MemInv'
<1> DEFINE d == [b EXCEPT !.uncached = FALSE]
<1>1. /\ blocks' = (blocks \ {b}) \cup {d} /\ store' = store /\ watched' = watched /\ last' = last
    BY DEF Mem!alt_remap_cached
<1>2. b \in [start : Addresses, len : BlockSizes, room : Nat, uncached : BOOLEAN]
    BY DEF MemInv
<1>3. /\ d.start = b.start /\ d.len = b.len /\ d.room = b.room /\ ~d.uncached
      /\ d \in [start : Addresses, len : BlockSizes, room : Nat, uncached : BOOLEAN]
      /\ d.uncached \in BOOLEAN
    BY <1>2
<1> HIDE DEF d
<1>4. Mem!Room(d) = Mem!Room(b) /\ Mem!Used(d) = Mem!Used(b)
    BY <1>3 DEF Mem!Room, Mem!Used
<1>5. \A c \in blocks' : c = d \/ (c \in blocks /\ c # b)
    BY <1>1
<1>6. BlocksLaid'
  <2>1. \A c \in blocks' : /\ c.start \in Addresses /\ c.len \in BlockSizes /\ c.room \in Nat
                           /\ c.len <= c.room /\ c.uncached \in BOOLEAN
                           /\ Mem!Room(c) \subseteq Addresses
                           /\ c.uncached => c.start % LineSize = 0 /\ c.room % LineSize = 0
      BY <1>3, <1>4, <1>5 DEF MemInv, BlocksLaid
  <2>2. \A c, e \in blocks' : c = e \/ Mem!Room(c) \cap Mem!Room(e) = {}
    <3> SUFFICES ASSUME NEW c \in blocks', NEW e \in blocks', c # e
                 PROVE  Mem!Room(c) \cap Mem!Room(e) = {}
        OBVIOUS
    <3>1. CASE c = d
        BY <1>4, <1>5, <3>1 DEF MemInv, BlocksLaid
    <3>2. CASE e = d
        BY <1>4, <1>5, <3>2 DEF MemInv, BlocksLaid
    <3>3. CASE c # d /\ e # d
        BY <1>5, <3>3 DEF MemInv, BlocksLaid
    <3> QED BY <3>1, <3>2, <3>3
  <2> QED BY <2>1, <2>2 DEF BlocksLaid, Mem!Room, Mem!Words
<1>7. PastCache'
    BY <1>1, <1>3, <1>5 DEF MemInv, PastCache, Mem!Room, Mem!Words
<1>8. Stored'
  <2> SUFFICES ASSUME NEW c \in blocks', watched \in Mem!Used(c), last # Mem!NotStored
               PROVE  last = C!View(store, watched)
      BY <1>1 DEF Stored, Mem!Used, Mem!Words
  <2> QED BY <1>4, <1>5 DEF MemInv, Stored
<1> QED BY <1>1, <1>3, <1>6, <1>7, <1>8 DEF MemInv

LEMMA MemRead ==
    ASSUME MemoryFits, MemInv, NEW b \in blocks, NEW a \in Mem!Used(b), Mem!Read(b, a)
    PROVE  MemInv'
<1>1. /\ store' = C!Load(store, a) /\ blocks' = blocks /\ watched' = watched /\ last' = last
      /\ ~b.uncached
    BY MemCache DEF Mem!Read
<1>2. a \in Addresses /\ \A c \in blocks : c.uncached => a \notin Mem!Room(c)
    BY <1>1, OwnWord
<1>3. /\ Machine(store', {0, 1})
      /\ DOMAIN store'.dcache \subseteq DOMAIN store.dcache \cup {C!LineOf(a)}
      /\ \A x \in Addresses : Clean(store', x) /\ C!View(store', x) = C!View(store, x)
    BY <1>1, <1>2, LoadIs DEF MemInv
<1>4. ASSUME NEW c \in blocks', watched \in Mem!Used(c), last' # Mem!NotStored
      PROVE  last' = C!View(store', watched)
    BY <1>1, <1>3, <1>4 DEF MemInv, Stored
<1>5. last' \in {0, 1, Mem!NotStored}
    BY <1>1 DEF MemInv
<1> QED BY <1>1, <1>2, <1>3, <1>4, <1>5, MemStays

LEMMA MemWrite ==
    ASSUME MemoryFits, MemInv, NEW b \in blocks, NEW a \in Mem!Used(b), NEW v \in {0, 1},
           Mem!Write(b, a, v)
    PROVE  MemInv'
<1>1. /\ blocks' = blocks /\ watched' = watched /\ last' = IF a = watched THEN v ELSE last
      /\ store' = IF b.uncached THEN C!StoreIO(store, a, v) ELSE C!Store(store, a, v)
    BY MemCache DEF Mem!Write
<1>2. a \in Addresses /\ a \in Mem!Room(b) /\ Machine(store, {0, 1}) /\ b.uncached \in BOOLEAN
    BY UsedIsRoom DEF MemInv, BlocksLaid
<1>3. last' \in {0, 1, Mem!NotStored}
    BY <1>1 DEF MemInv
<1>4. CASE ~b.uncached
  <2>1. \A c \in blocks : c.uncached => a \notin Mem!Room(c)
      BY <1>4, OwnWord
  <2>2. /\ Machine(store', {0, 1})
        /\ DOMAIN store'.dcache \subseteq DOMAIN store.dcache \cup {C!LineOf(a)}
        /\ \A x \in Addresses : Clean(store, x) =>
              Clean(store', x) /\ C!View(store', x) = IF x = a THEN v ELSE C!View(store, x)
      BY <1>1, <1>2, <1>4, StoreIs
  <2>3. ASSUME NEW c \in blocks', watched \in Mem!Used(c), last' # Mem!NotStored
        PROVE  last' = C!View(store', watched)
      BY <1>1, <2>2, <2>3 DEF MemInv, Stored
  <2>4. \A x \in Addresses : Clean(store', x)
      BY <2>2 DEF MemInv
  <2> QED BY <1>1, <1>2, <1>3, <2>1, <2>2, <2>3, <2>4, MemStays
<1>5. CASE b.uncached
  <2>1. C!LineOf(a) \notin DOMAIN store.dcache
      BY <1>2, <1>5 DEF MemInv, PastCache
  <2>2. /\ Machine(store', {0, 1}) /\ store'.dcache = store.dcache
        /\ \A x \in Addresses : Clean(store, x) =>
              Clean(store', x) /\ C!View(store', x) = IF x = a THEN v ELSE C!View(store, x)
      BY <1>1, <1>2, <1>5, <2>1, StoreIOIs
  <2>3. BlocksLaid' /\ PastCache'
      BY <1>1, <2>2 DEF MemInv, BlocksLaid, PastCache, Mem!Room, Mem!Words
  <2>4. Stored'
      BY <1>1, <2>2 DEF MemInv, Stored, Mem!Used, Mem!Words
  <2> QED BY <1>1, <1>3, <2>2, <2>3, <2>4 DEF MemInv
<1> QED BY <1>2, <1>4, <1>5

LEMMA MemWriteOut ==
    ASSUME MemoryFits, MemInv, NEW b \in blocks, Mem!WriteOut(b)
    PROVE  MemInv'
<1> DEFINE ls == C!LinesFlushed(b.start, b.len)
<1>1. /\ store' = C!Flush(store, ls) /\ blocks' = blocks /\ watched' = watched /\ last' = last
    BY MemCache DEF Mem!WriteOut
<1> HIDE DEF ls
<1>2. /\ Machine(store', {0, 1}) /\ DOMAIN store'.dcache = DOMAIN store.dcache \ ls
      /\ \A x \in Addresses : Clean(store', x) /\ C!View(store', x) = C!View(store, x)
    BY <1>1, FlushIs DEF MemInv
<1>3. BlocksLaid' /\ PastCache'
    BY <1>1, <1>2 DEF MemInv, BlocksLaid, PastCache, Mem!Room, Mem!Words
<1>4. Stored'
    BY <1>1, <1>2 DEF MemInv, Stored, Mem!Used, Mem!Words
<1> QED BY <1>1, <1>2, <1>3, <1>4 DEF MemInv

\* What is thrown away is of the block alone, whose words are whole lines.
LEMMA MemDiscard ==
    ASSUME MemoryFits, MemInv, NEW b \in blocks, Mem!Discard(b)
    PROVE  MemInv'
<1> DEFINE ls == C!LinesFlushed(b.start, b.len)
<1>1. /\ store' = C!Drop(store, ls) /\ blocks' = blocks /\ watched' = watched
      /\ last' = IF watched \in Mem!Used(b) THEN Mem!NotStored ELSE last
      /\ b.start % LineSize = 0 /\ b.len % LineSize = 0
    BY MemCache DEF Mem!Discard, Mem!Forget, Mem!WholeLines
<1>2. C!CacheAssumption /\ b.start \in Nat /\ b.len \in Nat
    BY MemNumbers DEF MemInv, BlocksLaid
<1>3. \A x \in Addresses : C!LineOf(x) \in ls => x \in Mem!Used(b)
    BY <1>1, <1>2, FlushOnly, MemNumbers DEF Mem!Used, Mem!Words
<1>4. \A x \in Addresses : x \in Mem!Used(b) => C!LineOf(x) \in ls
    BY <1>1, <1>2, FlushCovers, MemNumbers DEF Mem!Used, Mem!Words
<1> HIDE DEF ls
<1>5. /\ Machine(store', {0, 1}) /\ DOMAIN store'.dcache = DOMAIN store.dcache \ ls
      /\ store'.memory = store.memory
      /\ \A x \in Addresses : C!LineOf(x) \notin ls => C!View(store', x) = C!View(store, x)
      /\ \A x \in Addresses : C!LineOf(x) \notin ls => Clean(store', x)
    BY <1>1, DropIs DEF MemInv
<1>6. \A x \in Addresses : Clean(store', x)
    BY <1>5 DEF Clean
<1>7. BlocksLaid' /\ PastCache'
    BY <1>1, <1>5 DEF MemInv, BlocksLaid, PastCache, Mem!Room, Mem!Words
<1>8. Stored'
  <2> SUFFICES ASSUME NEW c \in blocks, watched \in Mem!Used(c), last' # Mem!NotStored
               PROVE  last' = C!View(store', watched)
      BY <1>1 DEF Stored, Mem!Used, Mem!Words
  <2>1. watched \notin Mem!Used(b) /\ last' = last /\ watched \in Addresses
      BY <1>1 DEF MemInv
  <2>2. C!LineOf(watched) \notin ls
      BY <1>3, <2>1
  <2> QED BY <1>5, <2>1, <2>2 DEF MemInv, Stored
<1> QED BY <1>1, <1>5, <1>6, <1>7, <1>8 DEF MemInv

LEMMA MemNext == ASSUME MemoryFits, MemInv, Mem!Next PROVE MemInv'
<1>1. CASE \E start \in Addresses, size \in BlockSizes : Mem!Allocate(start, size)
    BY <1>1, MemMalloc, MemUncached DEF Mem!Allocate
<1>2. ASSUME NEW b \in blocks,
             Mem!Release(b) \/ Mem!alt_remap_cached(b) \/ Mem!WriteOut(b) \/ Mem!Discard(b)
      PROVE  MemInv'
    BY <1>2, MemRelease, MemRemap, MemWriteOut, MemDiscard
<1>3. ASSUME NEW b \in blocks, NEW a \in Mem!Used(b),
             Mem!Read(b, a) \/ \E v \in {0, 1} : Mem!Write(b, a, v)
      PROVE  MemInv'
    BY <1>3, MemRead, MemWrite
<1> QED BY <1>1, <1>2, <1>3 DEF Mem!Next, Addresses

LEMMA MemUnchanged ==
    ASSUME MemInv, store' = store, blocks' = blocks, watched' = watched, last' = last
    PROVE  MemInv'
BY DEF MemInv, BlocksLaid, PastCache, Stored, Mem!Room, Mem!Used, Mem!Words

\* What the invariant says of the caches is what the program relies on.
LEMMA MemSound ==
    ASSUME MemoryFits, MemInv
    PROVE  Mem!TypeOK /\ Mem!LastStored /\ Mem!FlushReaches
<1>1. Mem!Cache!IsMachine(store)
    BY DEF MemInv, Machine, Addresses, Mem!Cache!IsMachine, Mem!Cache!Lines, C!Lines,
           Mem!Cache!LineOf, C!LineOf, Mem!Cache!WordsOf, C!WordsOf
<1>2. Mem!TypeOK
    BY <1>1 DEF MemInv, Mem!TypeOK, Mem!Block, Addresses
<1>3. ASSUME NEW b \in blocks, watched \in Mem!Used(b), last # Mem!NotStored
      PROVE  last = IF b.uncached THEN store.memory[watched] ELSE Mem!Cache!View(store, watched)
  <2>1. last = C!View(store, watched) /\ watched \in Addresses /\ watched \in Mem!Room(b)
      BY <1>3, UsedIsRoom DEF MemInv, Stored
  <2>2. b.uncached => C!View(store, watched) = store.memory[watched]
      BY <2>1, ViewIs DEF MemInv, PastCache
  <2> QED BY <2>1, <2>2, MemCache
<1>4. ASSUME NEW b \in blocks, ~b.uncached, watched \in Mem!Used(b)
      PROVE  LET after == Mem!Cache!alt_dcache_flush(store, b.start, b.len)
             IN  /\ last # Mem!NotStored => after.memory[watched] = last
                 /\ Mem!Cache!LineOf(watched) \notin DOMAIN after.dcache
  <2> DEFINE ls == C!LinesFlushed(b.start, b.len)
             after == C!Flush(store, ls)
  <2>1. C!CacheAssumption /\ b.start \in Nat /\ b.len \in Nat /\ watched \in Addresses
      BY MemNumbers DEF MemInv, BlocksLaid
  <2>2. C!LineOf(watched) \in ls
      BY <1>4, <2>1, FlushCovers DEF Mem!Used, Mem!Words
  <2>3. last # Mem!NotStored => last = C!View(store, watched)
      BY <1>4 DEF MemInv, Stored
  <2> HIDE DEF ls
  <2>4. DOMAIN after.dcache = DOMAIN store.dcache \ ls /\ after.memory[watched] = C!View(store, watched)
      BY <2>1, <2>2, FlushIs DEF MemInv
  <2> QED BY <2>2, <2>3, <2>4, MemCache DEF ls
<1> QED BY <1>2, <1>3, <1>4 DEF Mem!LastStored, Mem!FlushReaches

-----------------------------------------------------------------------------
(* The start: what is kept                                                 *)

Words == 0 .. Boot!Junk
Sources == UNION {Boot!Source(Sections[i]) : i \in DOMAIN Sections}

\* The steps behind each point of the way to main.
Cold    == {"icache", "dcache"}
Cleared == Boot!Steps \ {"icache", "dcache", "clear_bss"}
Copied  == Cleared \ {"alt_load"}
Written == Copied \ {"flush_data"}
Fetchable == Written \ {"flush_code"}
Running == Fetchable \ {"alt_irq_init"}

\* The images are in memory, and once the data cache has been emptied it shows them.
ImagesKept ==
    /\ Machine(store, Words)
    /\ \A a \in Sources : store.memory[a] = Boot!PowerUp[a]
    /\ boot_pc \notin Cold =>
          /\ \A a \in Addresses : Clean(store, a)
          /\ \A a \in Sources : C!View(store, a) = Boot!PowerUp[a]

\* The instruction cache has nothing but the exception code of its words.
CodeRight(m) ==
    \A l \in DOMAIN m.icache : \A a \in C!WordsOf(l) \cap ExceptionWords : m.icache[l][a] = Boot!Image(a)

HasImage(a) == C!View(store, a) = Boot!Image(a)

\* alt_load has come to a word of a section, and those before are loaded.
LoadedSoFar ==
    /\ todo \in Seq([from : Nat, to : Nat, end : 0 .. Size]) /\ Len(todo) <= Len(Sections)
    /\ \A i \in 1 .. Len(todo) : todo[i] = Sections[Len(Sections) - Len(todo) + i]
    /\ \A i \in 1 .. Len(Sections) - Len(todo) : \A a \in Boot!Target(Sections[i]) : HasImage(a)
    /\ todo # <<>> /\ todo[1].from # todo[1].to =>
          /\ todo[1].to + boot_at <= todo[1].end
          /\ \A a \in todo[1].to .. todo[1].to + boot_at - 1 : HasImage(a)

BootInv ==
    /\ boot_pc \in Boot!Steps /\ boot_at \in Nat /\ boot_PIE \in BOOLEAN
    /\ ienable \subseteq DOMAIN StateOf /\ changed \subseteq Boot!Variables
    /\ ImagesKept
    /\ boot_pc \notin Running => ~boot_PIE /\ changed = {}
    /\ boot_pc = "alt_sys_init" => todo \in Seq(DOMAIN StateOf)
    /\ boot_pc = "clear_bss" =>
          boot_at \in BssStart .. BssEnd /\ \A a \in BssStart .. boot_at - 1 : C!View(store, a) = 0
    /\ boot_pc \in Cleared => \A a \in Boot!Bss \ changed : C!View(store, a) = 0
    /\ boot_pc = "alt_load" => LoadedSoFar
    /\ boot_pc \in Copied => \A a \in Boot!Loaded \ changed : HasImage(a)
    /\ boot_pc \in Written => \A a \in ExceptionWords : store.memory[a] = Boot!Image(a)
    /\ boot_pc \in Fetchable => CodeRight(store)

\* The operators of the module are those of the caches above.
LEMMA BootCache ==
    /\ \A g, a : Boot!Cache!View(g, a) = C!View(g, a)
    /\ \A g, a : Boot!Cache!Load(g, a) = C!Load(g, a)
    /\ \A g, a, v : Boot!Cache!Store(g, a, v) = C!Store(g, a, v)
    /\ \A g, ls : Boot!Cache!Drop(g, ls) = C!Drop(g, ls)
    /\ \A g : Boot!Cache!alt_dcache_flush_all(g) = C!alt_dcache_flush_all(g)
    /\ \A g : Boot!Cache!alt_icache_flush_all(g) = C!alt_icache_flush_all(g)
    /\ \A g, a : Boot!Cache!Fetch(g, a) = C!Fetch(g, a)
    /\ \A g, a : Boot!Cache!Fetched(g, a) = C!Fetched(g, a)
    /\ \A l : Boot!Cache!WordsOf(l) = C!WordsOf(l)
    /\ Boot!Cache!Lines = C!Lines
<1>1. \A a : Boot!Cache!LineOf(a) = C!LineOf(a)
    BY DEF Boot!Cache!LineOf, C!LineOf
<1>2. \A l : Boot!Cache!WordsOf(l) = C!WordsOf(l)
    BY DEF Boot!Cache!WordsOf, C!WordsOf, Boot!Cache!LineOf, C!LineOf, Boot!Addresses
<1>3. Boot!Cache!Lines = C!Lines
    BY DEF Boot!Cache!Lines, C!Lines, Boot!Cache!LineOf, C!LineOf, Boot!Addresses
<1>4. \A g, l : Boot!Cache!Held(g, l) = C!Held(g, l)
    BY <1>2 DEF Boot!Cache!Held, C!Held
<1>5. \A g, ls : Boot!Cache!WriteBack(g, ls) = C!WriteBack(g, ls)
    BY <1>1 DEF Boot!Cache!WriteBack, C!WriteBack, Boot!Addresses
<1>6. \A g, l, line : Boot!Cache!Enter(g, l, line) = C!Enter(g, l, line)
    BY <1>5 DEF Boot!Cache!Enter, C!Enter
<1>7. \A g, a : Boot!Cache!View(g, a) = C!View(g, a)
    BY <1>1, <1>4 DEF Boot!Cache!View, C!View
<1>8. \A g, a : Boot!Cache!Load(g, a) = C!Load(g, a)
    BY <1>1, <1>4, <1>6 DEF Boot!Cache!Load, C!Load
<1>9. \A g, a, v : Boot!Cache!Store(g, a, v) = C!Store(g, a, v)
    BY <1>1, <1>4, <1>6 DEF Boot!Cache!Store, C!Store
<1>10. \A g, ls : Boot!Cache!Drop(g, ls) = C!Drop(g, ls)
    BY DEF Boot!Cache!Drop, C!Drop, Boot!Cache!Restrict, C!Restrict
<1>11. \A g, ls : Boot!Cache!Flush(g, ls) = C!Flush(g, ls)
    BY <1>5, <1>10 DEF Boot!Cache!Flush, C!Flush
<1>12. \A s, n : Boot!Cache!Steps(s, n) = C!Steps(s, n)
    BY DEF Boot!Cache!Steps, C!Steps
<1>13. \A p, c, n : Boot!Cache!InPlaces(p, c, n) = C!InPlaces(p, c, n)
    BY DEF Boot!Cache!InPlaces, C!InPlaces
<1>14. \A g : Boot!Cache!alt_dcache_flush_all(g) = C!alt_dcache_flush_all(g)
    BY <1>1, <1>11, <1>12, <1>13 DEF Boot!Cache!alt_dcache_flush_all, C!alt_dcache_flush_all
<1>15. \A s, n : Boot!Cache!LinesFlushed(s, n) = C!LinesFlushed(s, n)
    BY <1>1, <1>12 DEF Boot!Cache!LinesFlushed, C!LinesFlushed
<1>16. \A g, s, n : Boot!Cache!alt_icache_flush(g, s, n) = C!alt_icache_flush(g, s, n)
    BY <1>13, <1>15 DEF Boot!Cache!alt_icache_flush, C!alt_icache_flush, Boot!Cache!Restrict, C!Restrict
<1>17. \A g : Boot!Cache!alt_icache_flush_all(g) = C!alt_icache_flush_all(g)
    BY <1>16 DEF Boot!Cache!alt_icache_flush_all, C!alt_icache_flush_all
<1>18. \A g, a : Boot!Cache!Fetched(g, a) = C!Fetched(g, a)
    BY <1>1 DEF Boot!Cache!Fetched, C!Fetched
<1>19. \A g, a : Boot!Cache!Fetch(g, a) = C!Fetch(g, a)
    BY <1>1, <1>2, <1>18 DEF Boot!Cache!Fetch, C!Fetch
<1> QED BY <1>2, <1>3, <1>7, <1>8, <1>9, <1>10, <1>14, <1>17, <1>18, <1>19

LEMMA BootNumbers ==
    ASSUME Boot!StartupAssumption
    PROVE  /\ C!CacheAssumption /\ Size \in Nat /\ Addresses \subseteq Nat
           /\ DCacheLines \in Nat \ {0} /\ ICacheLines \in Nat \ {0} /\ LineSize \in Nat \ {0}
           /\ Boot!Junk \in Words /\ 0 \in Words /\ \A a \in Addresses : Boot!Image(a) \in Words
           /\ \A l \in C!Lines : l \in Nat
<1>1. C!CacheAssumption /\ Size \in Nat
    BY DEF Boot!StartupAssumption, Boot!Cache!CacheAssumption, C!CacheAssumption, Boot!Addresses,
           Boot!Cache!LineOf, C!LineOf
<1>2. Addresses \subseteq Nat /\ LineSize \in Nat \ {0} /\ DCacheLines \in Nat \ {0} /\ ICacheLines \in Nat \ {0}
    BY <1>1, CacheNumbers
<1>3. \A l \in C!Lines : l \in Nat
    BY <1>2, InLine DEF C!Lines, C!LineOf, Addresses
<1>4. Boot!Junk \in Words /\ 0 \in Words /\ \A a \in Addresses : Boot!Image(a) \in Words
    BY <1>1 DEF Boot!Junk, Words, Boot!Image, Addresses
<1> QED BY <1>1, <1>2, <1>3, <1>4

\* Where everything lies.
LEMMA Laid ==
    ASSUME Boot!StartupAssumption
    PROVE  /\ Sources \subseteq Addresses /\ Boot!Loaded \subseteq Addresses
           /\ Boot!Bss \subseteq Addresses /\ Boot!Variables \subseteq Addresses \ Sources
           /\ Boot!Bss \cap Boot!Loaded = {} /\ Boot!Bss \cap Sources = {}
           /\ ExceptionWords \subseteq Boot!Loaded /\ ExceptionWords \cap Boot!Variables = {}
           /\ \A i \in DOMAIN Sections :
                 /\ Sections[i] \in [from : Nat, to : Nat, end : 0 .. Size]
                 /\ Boot!Target(Sections[i]) \subseteq Addresses
                 /\ Sections[i].to <= Sections[i].end
                 /\ Sections[i].from # Sections[i].to => Boot!Target(Sections[i]) \cap Sources = {}
<1>1. \A i \in DOMAIN Sections : Sections[i] \in [from : Nat, to : Nat, end : 0 .. Size]
  <2>1. Sections \in Seq([from : Nat, to : Nat, end : 0 .. Size])
      BY DEF Boot!StartupAssumption
  <2>2. ASSUME NEW T, NEW s \in Seq(T), NEW i \in DOMAIN s PROVE s[i] \in T
      OBVIOUS
  <2> QED BY <2>1, <2>2
<1>2. \A i \in DOMAIN Sections : Boot!Target(Sections[i]) \subseteq Addresses
    BY <1>1, BootNumbers DEF Boot!Target, Addresses
<1>3. Sources \subseteq Addresses /\ Boot!Loaded \subseteq Addresses
    BY <1>2 DEF Sources, Boot!Loaded, Boot!StartupAssumption, Boot!Addresses, Addresses
<1>4. \A i \in DOMAIN Sections : Sections[i].from # Sections[i].to => Boot!Target(Sections[i]) \cap Sources = {}
    BY DEF Boot!StartupAssumption, Sources
<1>5. Boot!Bss \cap Boot!Loaded = {} /\ Boot!Bss \cap Sources = {}
    BY DEF Boot!StartupAssumption, Sources, Boot!Loaded
<1>6. Boot!Bss \subseteq Addresses
    BY DEF Boot!StartupAssumption, Boot!Bss, Addresses
<1>7. Boot!Variables \subseteq Addresses \ Sources
  <2> SUFFICES ASSUME NEW a \in Boot!Variables, a \notin Boot!Bss PROVE a \in Addresses \ Sources
      BY <1>5, <1>6
  <2>1. PICK i \in DOMAIN Sections : a \in Boot!Target(Sections[i])
      BY DEF Boot!Variables, Boot!Loaded
  <2>2. Sections[i].from # Sections[i].to
      BY <2>1 DEF Boot!Variables, Boot!InPlace
  <2> QED BY <1>2, <1>4, <2>1, <2>2
<1>8. ExceptionWords \subseteq Boot!Loaded /\ ExceptionWords \cap Boot!Variables = {}
    BY <1>5 DEF Boot!StartupAssumption, Boot!Variables
<1>9. \A i \in DOMAIN Sections : Sections[i].to <= Sections[i].end
    BY DEF Boot!StartupAssumption
<1> QED BY <1>1, <1>2, <1>3, <1>4, <1>5, <1>6, <1>7, <1>8, <1>9

\* A word of an image says where it is to be.
LEMMA PowerUpIs ==
    ASSUME Boot!StartupAssumption, NEW i \in DOMAIN Sections, NEW x \in Boot!Source(Sections[i])
    PROVE  x \in Addresses /\ Boot!PowerUp[x] = Boot!Image(Sections[i].to + (x - Sections[i].from))
<1>1. x \in Addresses /\ x \in Boot!Addresses
    BY Laid DEF Sources, Addresses, Boot!Addresses
<1>2. {j \in DOMAIN Sections : x \in Boot!Source(Sections[j])} = {i}
    BY DEF Boot!StartupAssumption
<1>3. (CHOOSE j \in {i} : TRUE) = i
    OBVIOUS
<1> QED BY <1>1, <1>2, <1>3 DEF Boot!PowerUp

LEMMA PowerUpType == ASSUME Boot!StartupAssumption PROVE Boot!PowerUp \in [Addresses -> Words]
<1>1. ASSUME NEW a \in Addresses PROVE Boot!PowerUp[a] \in Words
  <2>1. CASE {j \in DOMAIN Sections : a \in Boot!Source(Sections[j])} = {}
      BY <2>1, BootNumbers DEF Boot!PowerUp, Boot!Addresses, Addresses
  <2>2. CASE {j \in DOMAIN Sections : a \in Boot!Source(Sections[j])} # {}
    <3>1. PICK i \in DOMAIN Sections : a \in Boot!Source(Sections[i])
        BY <2>2
    <3>2. Boot!PowerUp[a] = Boot!Image(Sections[i].to + (a - Sections[i].from))
        BY <3>1, PowerUpIs
    <3>3. Sections[i].to + (a - Sections[i].from) \in Addresses
        BY <3>1, Laid, BootNumbers DEF Boot!Source, Addresses
    <3> QED BY <3>2, <3>3, BootNumbers
  <2> QED BY <2>1, <2>2
<1>2. Boot!PowerUp = [a \in Addresses |-> Boot!PowerUp[a]]
    BY DEF Boot!PowerUp, Addresses, Boot!Addresses
<1> QED BY <1>1, <1>2

\* Counting a cache from end to end comes to every place in it.
LEMMA Places ==
    ASSUME NEW n \in Nat \ {0}, NEW l \in Nat
    PROVE  /\ l % n \in {k % n : k \in 1 .. n}
           /\ l % n \in 0 .. n - 1 /\ (l % n) % n = l % n
<1>1. ASSUME NEW r \in 0 .. n - 1 PROVE r % n = r
  <2>1. r \div n = 0
      BY OnlyLine
  <2>2. r = (r \div n) * n + (r % n) /\ r % n \in Int
      BY Z3
  <2> QED BY <2>1, <2>2
<1>2. n % n = 0
  <2>1. 1 * n <= n /\ n < 1 * n + n
      OBVIOUS
  <2>2. n \div n = 1
      BY <2>1, OnlyLine
  <2>3. n = (n \div n) * n + (n % n) /\ n % n \in Int
      BY Z3
  <2> QED BY <2>2, <2>3
<1>3. l % n \in 0 .. n - 1
    BY Z3
<1>4. l % n \in {k % n : k \in 1 .. n}
  <2>1. CASE l % n = 0
      BY <1>2, <2>1
  <2>2. CASE l % n # 0
      BY <1>1, <1>3, <2>2
  <2> QED BY <2>1, <2>2
<1> QED BY <1>1, <1>3, <1>4

LEMMA AllVisited ==
    ASSUME C!CacheAssumption, NEW n \in Nat \ {0}, NEW l \in Nat
    PROVE  \E i \in C!Steps(0, n * LineSize) : C!LineOf(i) % n = l % n
<1> DEFINE r == l % n
<1>1. LineSize \in Nat \ {0} /\ r \in 0 .. n - 1 /\ r % n = r
    BY CacheNumbers, Places
<1> HIDE DEF r
<1>2. n * LineSize \in Nat /\ r * LineSize \in Nat
  <2>1. n \in Nat /\ r \in Nat
      BY <1>1
  <2> QED BY <1>1, <2>1, Z3
<1>3. (n * LineSize + LineSize - 1) \div LineSize = n
  <2> DEFINE x == n * LineSize + LineSize - 1
  <2>1. x \in Nat /\ n * LineSize <= x /\ x < n * LineSize + LineSize
      BY <1>1, <1>2
  <2> HIDE DEF x
  <2>2. x \div LineSize = n
      BY <1>1, <2>1, OnlyLine
  <2> QED BY <2>2 DEF x
<1>4. 0 % LineSize = 0
    BY <1>1, Z3
<1>5. r * LineSize \in C!Steps(0, n * LineSize)
  <2>1. r * LineSize = 0 + r * LineSize
      BY <1>2
  <2> QED BY <1>1, <1>3, <1>4, <2>1 DEF C!Steps
<1>6. C!LineOf(r * LineSize) = r
  <2>1. r * LineSize < r * LineSize + LineSize
      BY <1>1, <1>2
  <2> QED BY <1>1, <1>2, <2>1, OnlyLine DEF C!LineOf
<1>7. C!LineOf(r * LineSize) % n = l % n
    BY <1>1, <1>6 DEF r
<1> QED BY <1>5, <1>7

\* Both loops of crt0.S and both flushes of alt_load empty their cache.
LEMMA Emptied ==
    ASSUME Boot!StartupAssumption, NEW cache, DOMAIN cache \subseteq C!Lines,
           NEW n \in Nat \ {0}
    PROVE  /\ C!InPlaces({k % n : k \in 1 .. n}, cache, n) = DOMAIN cache
           /\ C!InPlaces({C!LineOf(i) % n : i \in C!Steps(0, n * LineSize)}, cache, n) = DOMAIN cache
<1>1. ASSUME NEW l \in DOMAIN cache PROVE l % n \in {k % n : k \in 1 .. n}
    BY BootNumbers, Places
<1>2. ASSUME NEW l \in DOMAIN cache
      PROVE  l % n \in {C!LineOf(i) % n : i \in C!Steps(0, n * LineSize)}
    BY BootNumbers, AllVisited
<1> QED BY <1>1, <1>2 DEF C!InPlaces

\* An instruction is fetched: its line comes into the cache as it is in memory.
LEMMA FetchIs ==
    ASSUME NEW V, NEW h, Machine(h, V), NEW a \in Addresses
    PROVE  LET g == C!Fetch(h, a)
           IN  /\ Machine(g, V)
               /\ g.memory = h.memory /\ g.dcache = h.dcache
               /\ \A l \in DOMAIN g.icache : \A b \in C!WordsOf(l) :
                     g.icache[l][b] = IF l \in DOMAIN h.icache THEN h.icache[l][b] ELSE h.memory[b]
<1> DEFINE l == C!LineOf(a)
           stay == {k \in DOMAIN h.icache : k % ICacheLines # l % ICacheLines}
           line == [b \in C!WordsOf(l) |-> C!Fetched(h, b)]
           icache == [k \in stay \cup {l} |-> IF k = l THEN line ELSE h.icache[k]]
           g == C!Fetch(h, a)
<1>1. g = [h EXCEPT !.icache = icache]
    BY Zenon DEF C!Fetch
<1>2. /\ g.memory = h.memory /\ g.dcache = h.dcache /\ g.icache = icache
      /\ g = [memory |-> g.memory, dcache |-> g.dcache, icache |-> g.icache]
  <2> HIDE DEF icache, g
  <2>1. h = [memory |-> h.memory, dcache |-> h.dcache, icache |-> h.icache]
      BY DEF Machine
  <2> QED BY <1>1, <2>1
<1>3. /\ DOMAIN g.icache = stay \cup {l} /\ g.icache[l] = line
      /\ \A k \in stay \ {l} : g.icache[k] = h.icache[k]
    BY <1>2
<1>4. l \in C!Lines /\ \A b \in C!WordsOf(l) : b \in Addresses /\ C!LineOf(b) = l
    BY LineKnown DEF C!WordsOf, Addresses
<1>5. \A b \in C!WordsOf(l) :
          /\ line[b] = IF l \in DOMAIN h.icache THEN h.icache[l][b] ELSE h.memory[b]
          /\ line[b] \in V
    BY <1>4 DEF C!Fetched, Machine
<1>6. line \in [C!WordsOf(l) -> V]
    BY <1>5
<1>7. stay \subseteq DOMAIN h.icache
    OBVIOUS
<1> HIDE DEF line, icache, stay, g
<1>8. Machine(g, V)
  <2>1. \A k \in DOMAIN g.icache : k \in C!Lines /\ g.icache[k] \in [C!WordsOf(k) -> V]
      BY <1>3, <1>4, <1>6, <1>7 DEF Machine
  <2> QED BY <1>2, <2>1 DEF Machine
<1>9. ASSUME NEW k \in DOMAIN g.icache, NEW b \in C!WordsOf(k)
      PROVE  g.icache[k][b] = IF k \in DOMAIN h.icache THEN h.icache[k][b] ELSE h.memory[b]
  <2>1. CASE k = l
      BY <1>3, <1>5, <2>1
  <2>2. CASE k # l
      BY <1>3, <1>7, <2>2
  <2> QED BY <2>1, <2>2
<1> QED BY <1>2, <1>8, <1>9 DEF g

\* What a fold of fetches over a set chooses and gives, for each of its subsets.
Chosen(s) == CHOOSE a \in s : TRUE
Folded(g, sets, base) ==
    g = [s \in sets |-> IF s = {} THEN base ELSE C!Fetch(g[s \ {Chosen(s)}], Chosen(s))]
UpTo(E, n) == {s \in SUBSET E : Cardinality(s) <= n}

LEMMA Smaller ==
    ASSUME NEW E, IsFiniteSet(E), NEW s \in SUBSET E, s # {}
    PROVE  /\ Chosen(s) \in s /\ s \ {Chosen(s)} \in SUBSET E
           /\ Cardinality(s) \in Nat \ {0} /\ Cardinality(s \ {Chosen(s)}) = Cardinality(s) - 1
<1>1. IsFiniteSet(s) /\ Chosen(s) \in s
    BY FS_Subset DEF Chosen
<1>2. Cardinality(s) \in Nat /\ Cardinality(s) # 0
    BY <1>1, FS_CardinalityType, FS_EmptySet
<1> QED BY <1>1, <1>2, FS_RemoveElement

LEMMA CanFold ==
    ASSUME NEW E, IsFiniteSet(E), NEW base
    PROVE  \E g : Folded(g, SUBSET E, base)
<1> DEFINE bad == {n \in Nat : ~ \E g : Folded(g, UpTo(E, n), base)}
<1>1. ASSUME bad # {} PROVE FALSE
  <2>1. PICK n \in bad : \A i \in bad : n <= i
      BY <1>1, SmallestOf
  <2>2. CASE n = 0
    <3> DEFINE g == [s \in UpTo(E, 0) |-> base]
    <3>1. \A s \in UpTo(E, 0) : s = {}
      <4>1. ASSUME NEW s \in UpTo(E, 0), s # {} PROVE FALSE
        <5>1. s \in SUBSET E /\ Cardinality(s) <= 0
            BY DEF UpTo
        <5>2. Cardinality(s) \in Nat \ {0}
            BY <4>1, <5>1, Smaller
        <5> QED BY <5>1, <5>2
      <4> QED BY <4>1
    <3>2. Folded(g, UpTo(E, 0), base)
        BY <3>1 DEF Folded
    <3> HIDE DEF g
    <3>3. Folded(g, UpTo(E, n), base)
        BY <2>2, <3>2
    <3> QED BY <2>1, <3>3
  <2>3. CASE n # 0
    <3>1. PICK f : Folded(f, UpTo(E, n-1), base)
        BY <2>1, <2>3
    <3> DEFINE g == [s \in UpTo(E, n) |->
                        IF s = {} THEN base ELSE C!Fetch(f[s \ {Chosen(s)}], Chosen(s))]
    <3>2. \A s \in UpTo(E, n) : s # {} => s \ {Chosen(s)} \in UpTo(E, n-1)
        BY <2>1, Smaller DEF UpTo
    <3>3. \A s \in UpTo(E, n-1) : s \in UpTo(E, n) /\ g[s] = f[s]
      <4> SUFFICES ASSUME NEW s \in UpTo(E, n-1) PROVE s \in UpTo(E, n) /\ g[s] = f[s]
          OBVIOUS
      <4>1. IsFiniteSet(s) /\ Cardinality(s) \in Nat
          BY FS_Subset, FS_CardinalityType DEF UpTo
      <4>2. s \in UpTo(E, n)
          BY <2>1, <4>1 DEF UpTo
      <4>3. f[s] = IF s = {} THEN base ELSE C!Fetch(f[s \ {Chosen(s)}], Chosen(s))
          BY <3>1 DEF Folded
      <4> QED BY <4>2, <4>3
    <3>4. Folded(g, UpTo(E, n), base)
      <4>1. \A s \in UpTo(E, n) : s # {} => g[s \ {Chosen(s)}] = f[s \ {Chosen(s)}]
          BY <3>2, <3>3
      <4>2. g = [s \in UpTo(E, n) |-> g[s]]
          OBVIOUS
      <4>3. \A s \in UpTo(E, n) : g[s] = IF s = {} THEN base ELSE C!Fetch(g[s \ {Chosen(s)}], Chosen(s))
          BY <4>1
      <4> HIDE DEF g
      <4> QED BY <4>2, <4>3 DEF Folded
    <3> QED BY <2>1, <3>4
  <2> QED BY <2>2, <2>3
<1>2. UpTo(E, Cardinality(E)) = SUBSET E
    BY FS_Subset DEF UpTo
<1>3. Cardinality(E) \in Nat
    BY FS_CardinalityType
<1> QED BY <1>1, <1>2, <1>3

\* The exception code is fetched from a machine that has it in memory.
AsBefore(m, base) ==
    Machine(m, Words) /\ m.memory = base.memory /\ m.dcache = base.dcache /\ CodeRight(m)

LEMMA FetchAll ==
    ASSUME Boot!StartupAssumption, NEW base, Machine(base, Words), CodeRight(base),
           \A a \in ExceptionWords : base.memory[a] = Boot!Image(a)
    PROVE  AsBefore(Boot!FoldSet(LAMBDA a, m : Boot!Cache!Fetch(m, a), base, ExceptionWords), base)
<1> DEFINE E == ExceptionWords
           F == CHOOSE g : Folded(g, SUBSET E, base)
<1>1. IsFiniteSet(E) /\ E \subseteq Addresses
  <2>1. E \subseteq Addresses
      BY Laid
  <2>2. Size - 1 \in Int
      BY BootNumbers
  <2>3. IsFiniteSet(Addresses)
      BY <2>2, FS_Interval DEF Addresses
  <2> QED BY <2>1, <2>3, FS_Subset
<1>2. Folded(F, SUBSET E, base)
    BY <1>1, CanFold
<1>3. Boot!FoldSet(LAMBDA a, m : Boot!Cache!Fetch(m, a), base, ExceptionWords) = F[E]
    BY BootCache DEF Boot!FoldSet, Boot!MapThenFoldSet, Folded, Chosen
<1> HIDE DEF F, E
<1> DEFINE bad == {n \in Nat : \E s \in SUBSET E : Cardinality(s) = n /\ ~AsBefore(F[s], base)}
<1>4. ASSUME bad # {} PROVE FALSE
  <2>1. PICK n \in bad : \A i \in bad : n <= i
      BY <1>4, SmallestOf
  <2>2. PICK s \in SUBSET E : Cardinality(s) = n /\ ~AsBefore(F[s], base)
      BY <2>1
  <2>3. CASE s = {}
    <3>1. F[s] = base
        BY <1>2, <2>3 DEF Folded
    <3> QED BY <2>2, <3>1 DEF AsBefore
  <2>4. CASE s # {}
    <3> DEFINE t == s \ {Chosen(s)}
    <3>1. F[s] = C!Fetch(F[t], Chosen(s)) /\ Chosen(s) \in Addresses
        BY <1>1, <1>2, <2>4, Smaller DEF Folded
    <3>2. t \in SUBSET E /\ Cardinality(t) \in Nat /\ Cardinality(t) < n
        BY <1>1, <2>2, <2>4, Smaller
    <3> HIDE DEF t
    <3>3. AsBefore(F[t], base)
        BY <2>1, <3>2
    <3>4. Machine(F[t], Words)
        BY <3>3 DEF AsBefore
    <3>5. /\ Machine(F[s], Words)
          /\ F[s].memory = F[t].memory /\ F[s].dcache = F[t].dcache
          /\ \A l \in DOMAIN F[s].icache : \A b \in C!WordsOf(l) :
                F[s].icache[l][b] = IF l \in DOMAIN F[t].icache THEN F[t].icache[l][b] ELSE F[t].memory[b]
        BY <3>1, <3>4, FetchIs
    <3>6. CodeRight(F[s])
        BY <3>3, <3>5 DEF CodeRight, AsBefore
    <3> QED BY <2>2, <3>3, <3>5, <3>6 DEF AsBefore
  <2> QED BY <2>3, <2>4
<1>5. Cardinality(E) \in Nat /\ E \in SUBSET E
    BY <1>1, FS_CardinalityType
<1> QED BY <1>3, <1>4, <1>5

-----------------------------------------------------------------------------
(* The start: from the reset to the end                                    *)

\* A machine whose data cache has been emptied, with the images behind and in it.
Fine(m) ==
    /\ Machine(m, Words)
    /\ \A a \in Sources : m.memory[a] = Boot!PowerUp[a]
    /\ \A a \in Addresses : Clean(m, a)
    /\ \A a \in Sources : C!View(m, a) = Boot!PowerUp[a]

LEMMA StoreFine ==
    ASSUME Boot!StartupAssumption, NEW m, Fine(m), NEW a \in Addresses \ Sources, NEW v \in Words
    PROVE  LET g == C!Store(m, a, v)
           IN  /\ Fine(g) /\ g.icache = m.icache
               /\ \A b \in Addresses : /\ C!View(g, b) = IF b = a THEN v ELSE C!View(m, b)
                                       /\ g.memory[b] \in {m.memory[b], C!View(m, b)}
<1> DEFINE g == C!Store(m, a, v)
<1>1. /\ Machine(g, Words) /\ g.icache = m.icache
      /\ \A b \in Addresses : Clean(m, b) =>
            /\ Clean(g, b)
            /\ C!View(g, b) = IF b = a THEN v ELSE C!View(m, b)
            /\ g.memory[b] \in {m.memory[b], C!View(m, b)}
    BY StoreIs DEF Fine
<1> HIDE DEF g
<1> QED BY <1>1, Laid DEF Fine, g

LEMMA LoadFine ==
    ASSUME Boot!StartupAssumption, NEW m, Fine(m), NEW a \in Addresses
    PROVE  LET g == C!Load(m, a)
           IN  /\ Fine(g) /\ g.icache = m.icache
               /\ \A b \in Addresses : /\ C!View(g, b) = C!View(m, b)
                                       /\ g.memory[b] \in {m.memory[b], C!View(m, b)}
<1> DEFINE g == C!Load(m, a)
<1>1. /\ Machine(g, Words) /\ g.icache = m.icache
      /\ \A b \in Addresses : Clean(m, b) =>
            /\ Clean(g, b)
            /\ C!View(g, b) = C!View(m, b)
            /\ g.memory[b] \in {m.memory[b], C!View(m, b)}
    BY LoadIs DEF Fine
<1> HIDE DEF g
<1> QED BY <1>1, Laid DEF Fine, g

LEMMA BootSteps ==
    /\ "icache" \in Cold /\ "dcache" \in Cold /\ Cleared \cap Cold = {} /\ "clear_bss" \notin Cold
    /\ Running \subseteq Fetchable /\ Fetchable \subseteq Written /\ Written \subseteq Copied
    /\ Copied \subseteq Cleared /\ Cleared \subseteq Boot!Steps
    /\ "icache" \in Boot!Steps /\ "dcache" \in Boot!Steps /\ "clear_bss" \in Boot!Steps
    /\ "icache" \notin Cleared /\ "dcache" \notin Cleared /\ "clear_bss" \notin Cleared
    /\ "alt_load" \in Cleared \ Copied /\ "flush_data" \in Copied \ Written
    /\ "flush_code" \in Written \ Fetchable /\ "alt_irq_init" \in Fetchable \ Running
    /\ Running = {"alt_sys_init", "alt_io_redirect", "main", "_exit"}
BY DEF Cold, Cleared, Copied, Written, Fetchable, Running, Boot!Steps

LEMMA BootInit == ASSUME Boot!StartupAssumption, Boot!Init PROVE BootInv
<1>1. PICK D \in Boot!ByChance(C!Lines, DCacheLines), I \in Boot!ByChance(C!Lines, ICacheLines) :
         store = [memory |-> Boot!PowerUp,
                  dcache |-> [l \in D |-> [dirty |-> TRUE, words |-> Boot!JunkWords(l)]],
                  icache |-> [l \in I |-> Boot!JunkWords(l)]]
    BY BootCache DEF Boot!Init
<1>2. D \subseteq C!Lines /\ I \subseteq C!Lines
    BY DEF Boot!ByChance
<1>3. \A l : Boot!JunkWords(l) \in [C!WordsOf(l) -> Words]
    BY BootCache, BootNumbers DEF Boot!JunkWords
<1>4. Machine(store, Words)
    BY <1>1, <1>2, <1>3, PowerUpType DEF Machine
<1>5. ImagesKept
    BY <1>1, <1>4, BootSteps DEF ImagesKept, Boot!Init
<1> QED BY <1>5, BootSteps DEF BootInv, Boot!Init

LEMMA BootReset == ASSUME Boot!StartupAssumption, BootInv, Boot!Reset PROVE BootInv'
<1>1. ImagesKept'
    BY BootSteps DEF BootInv, ImagesKept, Boot!Reset
<1> QED BY <1>1, BootSteps DEF BootInv, Boot!Reset

LEMMA BootICache == ASSUME Boot!StartupAssumption, BootInv, Boot!InitICache PROVE BootInv'
<1> DEFINE out == Boot!Cache!InPlaces(Boot!PlacesInitialised(ICacheLines), store.icache, ICacheLines)
           icache == [l \in DOMAIN store.icache \ out |-> store.icache[l]]
<1>1. store' = [store EXCEPT !.icache = icache]
    BY DEF Boot!InitICache, Boot!Cache!Restrict
<1> HIDE DEF out
<1>2. Machine(store', Words) /\ store'.memory = store.memory
  <2>1. Machine(store, Words)
      BY DEF BootInv, ImagesKept
  <2> HIDE DEF icache
  <2>2. /\ store'.memory = store.memory /\ store'.dcache = store.dcache /\ store'.icache = icache
        /\ store' = [memory |-> store'.memory, dcache |-> store'.dcache, icache |-> store'.icache]
    <3>1. store = [memory |-> store.memory, dcache |-> store.dcache, icache |-> store.icache]
        BY <2>1 DEF Machine
    <3> QED BY <1>1, <3>1
  <2>3. \A l \in DOMAIN icache : l \in DOMAIN store.icache /\ icache[l] = store.icache[l]
      BY DEF icache
  <2> QED BY <2>1, <2>2, <2>3 DEF Machine
<1>3. ImagesKept'
    BY <1>2, BootSteps DEF BootInv, ImagesKept, Boot!InitICache, Sources, Boot!Source
<1> QED BY <1>3, BootSteps DEF BootInv, Boot!InitICache

LEMMA BootDCache == ASSUME Boot!StartupAssumption, BootInv, Boot!InitDCache PROVE BootInv'
<1> DEFINE ls == Boot!Cache!InPlaces(Boot!PlacesInitialised(DCacheLines), store.dcache, DCacheLines)
<1>1. store' = C!Drop(store, ls) /\ boot_pc = "dcache" /\ boot_pc' = "clear_bss" /\ boot_at' = BssStart
      /\ UNCHANGED <<todo, boot_PIE, ienable, changed>>
    BY BootCache DEF Boot!InitDCache
<1>2. ls = DOMAIN store.dcache
  <2>1. ls = C!InPlaces({k % DCacheLines : k \in 1 .. DCacheLines}, store.dcache, DCacheLines)
      BY DEF Boot!Cache!InPlaces, C!InPlaces, Boot!PlacesInitialised
  <2>2. DOMAIN store.dcache \subseteq C!Lines
      BY DEF BootInv, ImagesKept, Machine
  <2> HIDE DEF ls
  <2> QED BY <2>1, <2>2, Emptied, BootNumbers
<1> HIDE DEF ls
<1>3. /\ Machine(store', Words) /\ store'.memory = store.memory
      /\ DOMAIN store'.dcache = {}
    BY <1>1, <1>2, DropIs DEF BootInv, ImagesKept
<1>4. \A a \in Addresses : Clean(store', a) /\ C!View(store', a) = store'.memory[a]
    BY <1>3, ViewIs DEF Clean
<1>5. ImagesKept'
    BY <1>1, <1>3, <1>4, Laid DEF BootInv, ImagesKept
<1>6. boot_at' \in BssStart .. BssEnd /\ boot_at' \in Nat /\ BssStart .. boot_at' - 1 = {}
    BY <1>1 DEF Boot!StartupAssumption
<1> QED BY <1>1, <1>5, <1>6, BootSteps DEF BootInv

LEMMA FineNow == ASSUME BootInv, boot_pc \notin Cold PROVE Fine(store)
BY DEF BootInv, ImagesKept, Fine

LEMMA FineThen == ASSUME Fine(store') PROVE ImagesKept'
BY DEF ImagesKept, Fine

LEMMA BootClear == ASSUME Boot!StartupAssumption, BootInv, Boot!ClearBss PROVE BootInv'
<1>1. /\ store' = C!Store(store, boot_at, 0) /\ boot_at' = boot_at + 1 /\ boot_pc = "clear_bss" /\ boot_pc' = boot_pc
      /\ boot_at \in BssStart .. BssEnd /\ boot_at < BssEnd /\ UNCHANGED <<todo, boot_PIE, ienable, changed>>
    BY BootCache DEF Boot!ClearBss, Boot!Zero, BootInv
<1>2. BssStart \in Nat /\ BssEnd \in Nat
    BY DEF Boot!StartupAssumption
<1>3. boot_at \in Addresses \ Sources
  <2>1. boot_at \in Boot!Bss
      BY <1>1, <1>2 DEF Boot!Bss
  <2> QED BY <2>1, Laid
<1>4. /\ Fine(store')
      /\ \A b \in Addresses : C!View(store', b) = IF b = boot_at THEN 0 ELSE C!View(store, b)
  <2>1. Fine(store)
      BY <1>1, FineNow, BootSteps
  <2> QED BY <1>1, <1>3, <2>1, StoreFine, BootNumbers
<1>5. \A a \in BssStart .. boot_at' - 1 : C!View(store', a) = 0
  <2> SUFFICES ASSUME NEW a \in BssStart .. boot_at' - 1 PROVE C!View(store', a) = 0
      OBVIOUS
  <2>1. a \in Addresses
    <3>1. a \in Boot!Bss
        BY <1>1, <1>2 DEF Boot!Bss
    <3> QED BY <3>1, Laid
  <2>2. a # boot_at => a \in BssStart .. boot_at - 1
      BY <1>1, <1>2
  <2> QED BY <1>1, <1>4, <2>1, <2>2 DEF BootInv
<1>6. boot_at' \in BssStart .. BssEnd /\ boot_at' \in Nat
    BY <1>1, <1>2
<1> QED BY <1>1, <1>4, <1>5, <1>6, FineThen, BootSteps DEF BootInv

LEMMA BootCleared == ASSUME Boot!StartupAssumption, BootInv, Boot!BssCleared PROVE BootInv'
<1>1. /\ boot_pc = "clear_bss" /\ boot_at = BssEnd /\ boot_pc' = "alt_load" /\ todo' = Sections /\ boot_at' = 0
      /\ UNCHANGED <<store, boot_PIE, ienable, changed>>
    BY DEF Boot!BssCleared
<1>2. ImagesKept'
    BY <1>1, BootSteps DEF BootInv, ImagesKept
<1>3. \A a \in Boot!Bss : C!View(store', a) = 0
    BY <1>1 DEF BootInv, Boot!Bss
<1>4. LoadedSoFar'
  <2>1. Sections \in Seq([from : Nat, to : Nat, end : 0 .. Size])
      BY DEF Boot!StartupAssumption
  <2>2. Len(Sections) \in Nat
      BY <2>1
  <2>3. Sections # <<>> => 1 \in DOMAIN Sections
      BY <2>1
  <2>4. Sections # <<>> => Sections[1].to + 0 <= Sections[1].end /\ Sections[1].to .. Sections[1].to + 0 - 1 = {}
      BY <2>3, Laid
  <2> QED BY <1>1, <2>1, <2>2, <2>4 DEF LoadedSoFar
<1> QED BY <1>1, <1>2, <1>3, <1>4, BootSteps DEF BootInv

LEMMA SeqIs ==
    ASSUME NEW T, NEW s \in Seq(T)
    PROVE  /\ Len(s) \in Nat /\ DOMAIN s = 1 .. Len(s) /\ \A i \in 1 .. Len(s) : s[i] \in T
           /\ s # <<>> => /\ Len(s) # 0 /\ Tail(s) \in Seq(T) /\ Len(Tail(s)) = Len(s) - 1
                         /\ \A j \in 1 .. Len(s) - 1 : Tail(s)[j] = s[j+1]
OBVIOUS

\* The word an alt_load has come to, in the image of its section and where it goes.
LEMMA NextWord ==
    ASSUME Boot!StartupAssumption, BootInv, boot_pc = "alt_load", todo # <<>>,
           todo[1].to # todo[1].from, todo[1].to + boot_at # todo[1].end
    PROVE  /\ todo[1].from + boot_at \in Sources
           /\ C!View(store, todo[1].from + boot_at) = Boot!Image(todo[1].to + boot_at)
           /\ todo[1].to + boot_at \in Addresses \ Sources /\ todo[1].to + boot_at \in Boot!Loaded
           /\ todo[1].to \in Nat /\ todo[1].to + boot_at < todo[1].end /\ todo[1].end \in 0 .. Size
<1>1. LoadedSoFar /\ boot_at \in Nat
    BY DEF BootInv
<1>2. PICK i \in DOMAIN Sections : todo[1] = Sections[i]
  <2>1. Len(todo) \in Nat \ {0} /\ Len(Sections) \in Nat /\ Len(todo) <= Len(Sections)
    <3>1. todo \in Seq([from : Nat, to : Nat, end : 0 .. Size]) /\ Len(todo) <= Len(Sections)
        BY <1>1 DEF LoadedSoFar
    <3>2. Sections \in Seq([from : Nat, to : Nat, end : 0 .. Size])
        BY DEF Boot!StartupAssumption
    <3> QED BY <3>1, <3>2, SeqIs
  <2>2. DOMAIN Sections = 1 .. Len(Sections)
      BY SeqIs DEF Boot!StartupAssumption
  <2>3. 1 \in 1 .. Len(todo) /\ Len(Sections) - Len(todo) + 1 \in 1 .. Len(Sections)
      BY <2>1
  <2> QED BY <1>1, <2>2, <2>3 DEF LoadedSoFar
<1> DEFINE s == todo[1]
<1>3. s \in [from : Nat, to : Nat, end : 0 .. Size] /\ s = Sections[i]
    BY <1>2, Laid
<1>4. s.from \in Nat /\ s.to \in Nat /\ s.end \in Nat /\ s.end \in 0 .. Size /\ s.to + boot_at < s.end
  <2>1. s.to + boot_at <= s.end
      BY <1>1 DEF LoadedSoFar
  <2>2. s.from \in Nat /\ s.to \in Nat /\ s.end \in 0 .. Size
    <3> HIDE DEF s
    <3> QED BY <1>3
  <2>3. s.to + boot_at # s.end
      OBVIOUS
  <2> HIDE DEF s
  <2> QED BY <1>1, <2>1, <2>2, <2>3, BootNumbers
<1> HIDE DEF s
<1>5. s.from + boot_at \in Boot!Source(s) /\ s.to + boot_at \in Boot!Target(s)
    BY <1>1, <1>4 DEF Boot!Source, Boot!Target
<1>6. Boot!PowerUp[s.from + boot_at] = Boot!Image(s.to + ((s.from + boot_at) - s.from))
  <2>1. \A x \in Boot!Source(Sections[i]) : Boot!PowerUp[x] = Boot!Image(Sections[i].to + (x - Sections[i].from))
      BY PowerUpIs
  <2> DEFINE x == s.from + boot_at
  <2>2. x \in Boot!Source(Sections[i])
      BY <1>3, <1>5
  <2> HIDE DEF x
  <2>3. Boot!PowerUp[x] = Boot!Image(Sections[i].to + (x - Sections[i].from))
      BY <2>1, <2>2
  <2>4. Boot!PowerUp[x] = Boot!Image(s.to + (x - s.from))
      BY <1>3, <2>3
  <2> QED BY <2>4 DEF x
<1>7. s.to + ((s.from + boot_at) - s.from) = s.to + boot_at
    BY <1>1, <1>4
<1>8. s.from + boot_at \in Sources /\ s.to + boot_at \in Boot!Loaded
    BY <1>3, <1>5 DEF Sources, Boot!Loaded
<1>9. C!View(store, s.from + boot_at) = Boot!PowerUp[s.from + boot_at]
  <2>1. Fine(store)
      BY FineNow, BootSteps
  <2> QED BY <1>8, <2>1 DEF Fine
<1>10. s.to + boot_at \in Addresses \ Sources
    BY <1>3, <1>5, Laid DEF s
<1> QED BY <1>4, <1>6, <1>7, <1>8, <1>9, <1>10 DEF s

LEMMA BootLoadWord ==
    ASSUME Boot!StartupAssumption, BootInv, Boot!alt_load_section,
           todo[1].to # todo[1].from, todo[1].to + boot_at # todo[1].end
    PROVE  BootInv'
<1> DEFINE a == todo[1].from + boot_at
           b == todo[1].to + boot_at
<1>1. /\ boot_pc = "alt_load" /\ boot_pc' = boot_pc /\ todo # <<>> /\ boot_at' = boot_at + 1 /\ todo' = todo
      /\ store' = C!Store(C!Load(store, a), b, C!View(store, a))
      /\ UNCHANGED <<boot_PIE, ienable, changed>>
    BY BootCache DEF Boot!alt_load_section
<1>2. /\ a \in Sources /\ C!View(store, a) = Boot!Image(b) /\ b \in Addresses \ Sources /\ b \in Boot!Loaded
      /\ todo[1].to \in Nat /\ b < todo[1].end /\ todo[1].end \in 0 .. Size
    BY <1>1, NextWord
<1> HIDE DEF a, b
<1>3. Boot!Image(b) \in Words /\ a \in Addresses /\ Fine(store)
    BY <1>1, <1>2, BootNumbers, Laid, FineNow, BootSteps
<1>4. /\ Fine(C!Load(store, a))
      /\ \A c \in Addresses : C!View(C!Load(store, a), c) = C!View(store, c)
    BY <1>3, LoadFine
<1>5. /\ Fine(store')
      /\ \A c \in Addresses : C!View(store', c) = IF c = b THEN Boot!Image(b) ELSE C!View(store, c)
  <2> DEFINE m == C!Load(store, a)
  <2>1. Fine(m) /\ store' = C!Store(m, b, Boot!Image(b))
      BY <1>1, <1>2, <1>4
  <2>2. \A c \in Addresses : C!View(m, c) = C!View(store, c)
      BY <1>4
  <2> HIDE DEF m
  <2> QED BY <1>2, <1>3, <2>1, <2>2, StoreFine
<1>6. \A c \in Addresses : HasImage(c) \/ c = b => HasImage(c)'
    BY <1>5 DEF HasImage
<1>7. \A c \in Boot!Bss : C!View(store', c) = 0
  <2>1. \A c \in Boot!Bss : C!View(store, c) = 0 /\ c \in Addresses /\ c # b
      BY <1>1, <1>2, BootSteps, Laid DEF BootInv
  <2> QED BY <1>5, <2>1
<1>8. LoadedSoFar'
  <2>1. /\ LoadedSoFar /\ boot_at \in Nat
      BY <1>1 DEF BootInv
  <2>2. todo[1].to + boot_at' <= todo[1].end
      BY <1>1, <1>2, <2>1 DEF b
  <2>3. \A c \in todo[1].to .. todo[1].to + boot_at' - 1 : HasImage(c)'
    <3> SUFFICES ASSUME NEW c \in todo[1].to .. todo[1].to + boot_at' - 1 PROVE HasImage(c)'
        OBVIOUS
    <3>1. c = b \/ c \in todo[1].to .. todo[1].to + boot_at - 1
        BY <1>1, <1>2, <2>1 DEF b
    <3>2. c \in Addresses
      <4>1. c <= b /\ c \in Nat
          BY <1>1, <1>2, <2>1 DEF b
      <4>2. b < Size /\ b \in Nat /\ Size \in Nat
          BY <1>2, <2>1, BootNumbers DEF b
      <4> QED BY <4>1, <4>2 DEF Addresses
    <3> QED BY <1>1, <1>6, <2>1, <3>1, <3>2 DEF LoadedSoFar
  <2>4. \A i \in 1 .. Len(Sections) - Len(todo) : \A c \in Boot!Target(Sections[i]) : HasImage(c)'
    <3> SUFFICES ASSUME NEW i \in 1 .. Len(Sections) - Len(todo), NEW c \in Boot!Target(Sections[i])
                 PROVE  HasImage(c)'
        OBVIOUS
    <3>1. i \in DOMAIN Sections
      <4>1. DOMAIN Sections = 1 .. Len(Sections) /\ Len(Sections) \in Nat
          BY SeqIs DEF Boot!StartupAssumption
      <4>2. Len(todo) \in Nat
          BY <2>1, SeqIs DEF LoadedSoFar
      <4> QED BY <4>1, <4>2
    <3> QED BY <1>6, <2>1, <3>1, Laid DEF LoadedSoFar
  <2> QED BY <1>1, <2>1, <2>2, <2>3, <2>4 DEF LoadedSoFar
<1> QED BY <1>1, <1>5, <1>7, <1>8, FineThen, BootSteps DEF BootInv

\* A section whose end has been reached, or that is used in place, is as its image.
LEMMA BootLoadNext ==
    ASSUME Boot!StartupAssumption, BootInv, Boot!alt_load_section,
           ~(todo[1].to # todo[1].from /\ todo[1].to + boot_at # todo[1].end)
    PROVE  BootInv'
<1>1. /\ boot_pc = "alt_load" /\ boot_pc' = boot_pc /\ todo # <<>> /\ boot_at' = 0 /\ todo' = Tail(todo)
      /\ UNCHANGED <<store, boot_PIE, ienable, changed>>
    BY DEF Boot!alt_load_section
<1>2. LoadedSoFar /\ boot_at \in Nat /\ Fine(store)
    BY <1>1, FineNow, BootSteps DEF BootInv
<1>3. /\ todo \in Seq([from : Nat, to : Nat, end : 0 .. Size]) /\ Sections \in Seq([from : Nat, to : Nat, end : 0 .. Size])
      /\ Len(todo) \in Nat \ {0} /\ Len(Sections) \in Nat /\ Len(todo) <= Len(Sections)
      /\ DOMAIN Sections = 1 .. Len(Sections)
  <2>1. todo \in Seq([from : Nat, to : Nat, end : 0 .. Size]) /\ Len(todo) <= Len(Sections)
      BY <1>2 DEF LoadedSoFar
  <2>2. Sections \in Seq([from : Nat, to : Nat, end : 0 .. Size])
      BY DEF Boot!StartupAssumption
  <2> QED BY <1>1, <2>1, <2>2, SeqIs
<1>4. /\ todo' \in Seq([from : Nat, to : Nat, end : 0 .. Size]) /\ Len(todo') = Len(todo) - 1
      /\ \A j \in 1 .. Len(todo') : todo'[j] = todo[j+1]
    BY <1>1, <1>3, SeqIs
<1> DEFINE n == Len(Sections) - Len(todo)
<1>5. n \in Nat /\ n + 1 \in DOMAIN Sections /\ todo[1] = Sections[n+1] /\ n + 1 = Len(Sections) - Len(todo')
  <2>1. 1 \in 1 .. Len(todo) /\ n \in Nat /\ n + 1 \in 1 .. Len(Sections) /\ n + 1 = Len(Sections) - Len(todo')
      BY <1>3, <1>4
  <2>2. todo[1] = Sections[n+1]
      BY <1>2, <2>1 DEF LoadedSoFar
  <2> QED BY <1>3, <2>1, <2>2
<1>6. ASSUME NEW c \in Boot!Target(Sections[n+1]) PROVE HasImage(c)
  <2> DEFINE s == Sections[n+1]
  <2>1. s.from \in Nat /\ s.to \in Nat /\ s.end \in Nat /\ s = todo[1]
      BY <1>5, Laid, BootNumbers
  <2>2. CASE s.to = s.from
    <3>1. c \in Boot!Source(s)
        BY <1>6, <2>1, <2>2 DEF Boot!Source, Boot!Target
    <3>2. Boot!PowerUp[c] = Boot!Image(s.to + (c - s.from)) /\ c \in Sources
        BY <1>5, <3>1, PowerUpIs DEF Sources
    <3>3. s.to + (c - s.from) = c
        BY <1>6, <2>1, <2>2 DEF Boot!Target
    <3> QED BY <1>2, <3>2, <3>3 DEF Fine, HasImage
  <2>3. CASE s.to # s.from
    <3>1. c \in todo[1].to .. todo[1].to + boot_at - 1
      <4>1. s.to + boot_at = s.end
          BY <2>1, <2>3
      <4>2. c \in s.to .. s.end - 1
          BY <1>6 DEF Boot!Target
      <4> HIDE DEF s
      <4> QED BY <1>2, <2>1, <4>1, <4>2
    <3> QED BY <1>1, <1>2, <2>1, <2>3, <3>1 DEF LoadedSoFar
  <2> QED BY <2>2, <2>3
<1> HIDE DEF n
<1>7. \A i \in 1 .. n + 1 : \A c \in Boot!Target(Sections[i]) : HasImage(c)
  <2>1. \A i \in 1 .. n : \A c \in Boot!Target(Sections[i]) : HasImage(c)
      BY <1>2 DEF LoadedSoFar, n
  <2>2. \A i \in 1 .. n + 1 : i \in 1 .. n \/ i = n + 1
      BY <1>5
  <2> QED BY <1>6, <2>1, <2>2
<1>8. LoadedSoFar'
  <2>1. \A j \in 1 .. Len(todo') : todo'[j] = Sections[Len(Sections) - Len(todo') + j]
    <3> SUFFICES ASSUME NEW j \in 1 .. Len(todo') PROVE todo'[j] = Sections[Len(Sections) - Len(todo') + j]
        OBVIOUS
    <3>1. j + 1 \in 1 .. Len(todo) /\ Len(Sections) - Len(todo) + (j + 1) = Len(Sections) - Len(todo') + j
        BY <1>3, <1>4
    <3> QED BY <1>2, <1>4, <3>1 DEF LoadedSoFar
  <2>2. todo' # <<>> =>
          todo'[1].to + boot_at' <= todo'[1].end /\ todo'[1].to .. todo'[1].to + boot_at' - 1 = {}
    <3> SUFFICES ASSUME todo' # <<>>
                 PROVE  todo'[1].to + boot_at' <= todo'[1].end /\ todo'[1].to .. todo'[1].to + boot_at' - 1 = {}
        OBVIOUS
    <3>1. Len(todo') \in Nat \ {0}
        BY <1>4, SeqIs
    <3>2. n + 2 \in DOMAIN Sections /\ todo'[1] = Sections[n+2]
      <4>0. Len(Sections) \in Nat /\ n \in Nat /\ n + 1 = Len(Sections) - Len(todo')
          BY <1>3, <1>5
      <4>1. 1 \in 1 .. Len(todo') /\ Len(Sections) - Len(todo') + 1 = n + 2 /\ n + 2 \in 1 .. Len(Sections)
          BY <3>1, <4>0
      <4>2. todo'[1] = Sections[Len(Sections) - Len(todo') + 1]
          BY <2>1, <4>1
      <4> QED BY <1>3, <4>1, <4>2
    <3>3. /\ Sections[n+2] \in [from : Nat, to : Nat, end : 0 .. Size]
          /\ Sections[n+2].to <= Sections[n+2].end
        BY <3>2, Laid
    <3> QED BY <1>1, <3>2, <3>3, BootNumbers
  <2>3. \A i \in 1 .. n + 1 : \A c \in Boot!Target(Sections[i]) : HasImage(c)'
      BY <1>1, <1>7 DEF HasImage
  <2>4. Len(todo') <= Len(Sections)
      BY <1>3, <1>4
  <2> QED BY <1>4, <1>5, <2>1, <2>2, <2>3, <2>4 DEF LoadedSoFar
<1>9. \A c \in Boot!Bss \ changed : C!View(store', c) = 0
    BY <1>1, BootSteps DEF BootInv
<1> QED BY <1>1, <1>2, <1>8, <1>9, FineThen, BootSteps DEF BootInv

LEMMA BootLoaded == ASSUME Boot!StartupAssumption, BootInv, Boot!AllLoaded PROVE BootInv'
<1>1. /\ boot_pc = "alt_load" /\ boot_pc' = "flush_data" /\ todo = <<>>
      /\ UNCHANGED <<store, boot_at, todo, boot_PIE, ienable, changed>>
    BY DEF Boot!AllLoaded
<1>2. Fine(store)
    BY <1>1, FineNow, BootSteps
<1>3. \A a \in Boot!Loaded : HasImage(a)
  <2> SUFFICES ASSUME NEW a \in Boot!Loaded PROVE HasImage(a)
      OBVIOUS
  <2>1. PICK i \in DOMAIN Sections : a \in Boot!Target(Sections[i])
      BY DEF Boot!Loaded
  <2>2. LoadedSoFar /\ Len(todo) = 0
      BY <1>1 DEF BootInv
  <2>3. i \in 1 .. Len(Sections) - Len(todo)
      BY <2>2, SeqIs DEF Boot!StartupAssumption
  <2> QED BY <2>1, <2>2, <2>3 DEF LoadedSoFar
<1>4. \A a \in Boot!Bss \ changed : C!View(store, a) = 0
    BY <1>1, BootSteps DEF BootInv
<1>5. (\A a \in Boot!Loaded : HasImage(a))' /\ (\A a \in Boot!Bss \ changed : C!View(store, a) = 0)' /\ Fine(store')
    BY <1>1, <1>2, <1>3, <1>4 DEF HasImage, Boot!Loaded, Boot!Target
<1> QED BY <1>1, <1>5, FineThen, BootSteps DEF BootInv

\* The data cache is written back whole: memory has what a load would give.
LEMMA BootFlushData == ASSUME Boot!StartupAssumption, BootInv, Boot!FlushData PROVE BootInv'
<1> DEFINE ls == C!InPlaces({C!LineOf(i) % DCacheLines : i \in C!Steps(0, DCacheLines * LineSize)},
                            store.dcache, DCacheLines)
<1>1. /\ boot_pc = "flush_data" /\ boot_pc' = "flush_code" /\ store' = C!Flush(store, ls)
      /\ UNCHANGED <<boot_at, todo, boot_PIE, ienable, changed>>
    BY BootCache DEF Boot!FlushData, C!alt_dcache_flush_all
<1>2. Fine(store)
    BY <1>1, FineNow, BootSteps
<1>3. ls = DOMAIN store.dcache
  <2>1. DOMAIN store.dcache \subseteq C!Lines
      BY <1>2 DEF Fine, Machine
  <2> HIDE DEF ls
  <2>2. DCacheLines \in Nat \ {0}
      BY BootNumbers
  <2> QED BY <2>1, <2>2, Emptied DEF ls
<1> HIDE DEF ls
<1>4. /\ Machine(store', Words)
      /\ \A b \in Addresses : /\ Clean(store', b)
                              /\ C!View(store', b) = C!View(store, b)
                              /\ store'.memory[b] \in {store.memory[b], C!View(store, b)}
                              /\ C!LineOf(b) \in DOMAIN store.dcache => store'.memory[b] = C!View(store, b)
  <2>1. /\ Machine(store', Words)
        /\ \A b \in Addresses : Clean(store, b) =>
              /\ Clean(store', b)
              /\ C!View(store', b) = C!View(store, b)
              /\ store'.memory[b] \in {store.memory[b], C!View(store, b)}
              /\ C!LineOf(b) \in ls => store'.memory[b] = C!View(store, b)
      BY <1>1, <1>2, FlushIs DEF Fine
  <2> QED BY <1>2, <1>3, <2>1 DEF Fine
<1>5. \A b \in Addresses : store'.memory[b] = C!View(store, b)
    BY <1>4, ViewIs
<1>6. Fine(store')
    BY <1>2, <1>4, <1>5, Laid DEF Fine
<1>7. \A a \in Boot!Loaded \ changed' : HasImage(a)' /\ store'.memory[a] = Boot!Image(a)
    BY <1>1, <1>4, <1>5, Laid, BootSteps DEF BootInv, HasImage
<1>8. \A a \in Boot!Bss \ changed' : C!View(store', a) = 0
    BY <1>1, <1>4, Laid, BootSteps DEF BootInv
<1>9. \A a \in ExceptionWords : store'.memory[a] = Boot!Image(a)
    BY <1>1, <1>7, Laid, BootSteps DEF BootInv
<1> QED BY <1>1, <1>6, <1>7, <1>8, <1>9, FineThen, BootSteps DEF BootInv

\* No line of the program before the reset is left in the instruction cache.
LEMMA BootFlushCode == ASSUME Boot!StartupAssumption, BootInv, Boot!FlushCode PROVE BootInv'
<1> DEFINE n == ICacheLines * LineSize
           out == C!InPlaces({l % ICacheLines : l \in C!LinesFlushed(0, n)}, store.icache, ICacheLines)
           icache == [l \in DOMAIN store.icache \ out |-> store.icache[l]]
<1>1. /\ boot_pc = "flush_code" /\ boot_pc' = "alt_irq_init" /\ store' = [store EXCEPT !.icache = icache]
      /\ UNCHANGED <<boot_at, todo, boot_PIE, ienable, changed>>
  <2>1. store' = C!alt_icache_flush(store, 0, n)
      BY BootCache DEF Boot!FlushCode, C!alt_icache_flush_all
  <2>2. (IF n > ICacheLines * LineSize THEN ICacheLines * LineSize ELSE n) = n
      OBVIOUS
  <2> QED BY <2>1, <2>2 DEF C!alt_icache_flush, C!Restrict, Boot!FlushCode
<1>2. Fine(store)
    BY <1>1, FineNow, BootSteps
<1>3. out = DOMAIN store.icache
  <2>1. DOMAIN store.icache \subseteq C!Lines
      BY <1>2 DEF Fine, Machine
  <2>2. {l % ICacheLines : l \in C!LinesFlushed(0, n)} = {C!LineOf(i) % ICacheLines : i \in C!Steps(0, n)}
      BY DEF C!LinesFlushed
  <2>3. ICacheLines \in Nat \ {0}
      BY BootNumbers
  <2> QED BY <2>1, <2>2, <2>3, Emptied
<1> HIDE DEF out, n
<1>4. DOMAIN icache = {}
    BY <1>3
<1> HIDE DEF icache
<1>5. /\ store'.memory = store.memory /\ store'.dcache = store.dcache /\ store'.icache = icache
      /\ store' = [memory |-> store'.memory, dcache |-> store'.dcache, icache |-> store'.icache]
  <2>1. store = [memory |-> store.memory, dcache |-> store.dcache, icache |-> store.icache]
      BY <1>2 DEF Fine, Machine
  <2> QED BY <1>1, <2>1
<1>6. Machine(store', Words) /\ CodeRight(store')
    BY <1>2, <1>4, <1>5 DEF Fine, Machine, CodeRight
<1>7. \A b \in Addresses : (Clean(store, b) => Clean(store', b)) /\ C!View(store', b) = C!View(store, b)
    BY <1>5, ViewIs DEF Clean
<1>8. Fine(store')
    BY <1>2, <1>5, <1>6, <1>7, Laid DEF Fine
<1>9. \A a \in Boot!Loaded \ changed' : HasImage(a)'
    BY <1>1, <1>7, Laid, BootSteps DEF BootInv, HasImage
<1>10. \A a \in Boot!Bss \ changed' : C!View(store', a) = 0
    BY <1>1, <1>7, Laid, BootSteps DEF BootInv
<1>11. \A a \in ExceptionWords : store'.memory[a] = Boot!Image(a)
    BY <1>1, <1>5, BootSteps DEF BootInv
<1> QED BY <1>1, <1>6, <1>8, <1>9, <1>10, <1>11, FineThen, BootSteps DEF BootInv

\* From alt_main on only variables are stored to.
LEMMA BootStays ==
    ASSUME Boot!StartupAssumption, BootInv, boot_pc \in Fetchable, boot_pc' \in Running,
           store' = store, changed' = changed, boot_at' \in Nat, boot_PIE' \in BOOLEAN,
           ienable' \subseteq DOMAIN StateOf, boot_pc' = "alt_sys_init" => todo' \in Seq(DOMAIN StateOf)
    PROVE  BootInv'
<1>1. Fine(store) /\ Fine(store')
    BY FineNow, BootSteps
<1>2. \A a \in Boot!Loaded \ changed' : HasImage(a)'
    BY BootSteps DEF BootInv, HasImage
<1>3. \A a \in Boot!Bss \ changed' : C!View(store', a) = 0
    BY BootSteps DEF BootInv
<1>4. (\A a \in ExceptionWords : store'.memory[a] = Boot!Image(a)) /\ CodeRight(store') /\ changed' \subseteq Boot!Variables
    BY BootSteps DEF BootInv
<1> QED BY <1>1, <1>2, <1>3, <1>4, FineThen, BootSteps DEF BootInv

LEMMA BootStores ==
    ASSUME Boot!StartupAssumption, BootInv, boot_pc \in Running, boot_pc' \in Running,
           NEW m, AsBefore(m, store), NEW a \in Boot!Variables,
           store' = C!Store(m, a, Boot!Junk), changed' = changed \cup {a},
           boot_at' \in Nat, boot_PIE' \in BOOLEAN, ienable' \subseteq DOMAIN StateOf,
           boot_pc' = "alt_sys_init" => todo' \in Seq(DOMAIN StateOf)
    PROVE  BootInv'
<1>1. Fine(store)
    BY FineNow, BootSteps
<1>2. \A b \in Addresses : C!View(m, b) = C!View(store, b) /\ (Clean(store, b) => Clean(m, b))
    BY ViewIs DEF AsBefore, Clean
<1>3. Fine(m) /\ m.memory = store.memory
    BY <1>1, <1>2, Laid DEF AsBefore, Fine
<1>4. a \in Addresses \ Sources /\ Boot!Junk \in Words
    BY Laid, BootNumbers
<1>5. /\ Fine(store') /\ store'.icache = m.icache
      /\ \A b \in Addresses : /\ C!View(store', b) = IF b = a THEN Boot!Junk ELSE C!View(store, b)
                              /\ store'.memory[b] \in {store.memory[b], C!View(store, b)}
  <2>1. /\ Fine(store') /\ store'.icache = m.icache
        /\ \A b \in Addresses : /\ C!View(store', b) = IF b = a THEN Boot!Junk ELSE C!View(m, b)
                                /\ store'.memory[b] \in {m.memory[b], C!View(m, b)}
      BY <1>3, <1>4, StoreFine
  <2> QED BY <1>2, <1>3, <2>1
<1>6. \A b \in Boot!Loaded \ changed' : HasImage(b)'
    BY <1>5, Laid, BootSteps DEF BootInv, HasImage
<1>7. \A b \in Boot!Bss \ changed' : C!View(store', b) = 0
    BY <1>5, Laid, BootSteps DEF BootInv
<1>8. \A b \in ExceptionWords : store'.memory[b] = Boot!Image(b)
  <2> SUFFICES ASSUME NEW b \in ExceptionWords PROVE store'.memory[b] = Boot!Image(b)
      OBVIOUS
  <2>1. b \in Boot!Loaded \ changed /\ b \in Addresses
      BY Laid DEF BootInv
  <2> QED BY <1>5, <2>1, BootSteps DEF BootInv, HasImage
<1>9. CodeRight(store')
    BY <1>5 DEF AsBefore, CodeRight
<1>10. changed' \subseteq Boot!Variables
    BY DEF BootInv
<1> QED BY <1>5, <1>6, <1>7, <1>8, <1>9, <1>10, FineThen, BootSteps DEF BootInv

LEMMA BootChange ==
    ASSUME Boot!StartupAssumption, BootInv, boot_pc \in Running, boot_pc' \in Running,
           NEW a \in Boot!Variables, Boot!Change(a),
           boot_at' \in Nat, boot_PIE' \in BOOLEAN, ienable' \subseteq DOMAIN StateOf,
           boot_pc' = "alt_sys_init" => todo' \in Seq(DOMAIN StateOf)
    PROVE  BootInv'
<1>1. AsBefore(store, store)
    BY BootSteps DEF AsBefore, BootInv, ImagesKept
<1>2. store' = C!Store(store, a, Boot!Junk) /\ changed' = changed \cup {a}
    BY BootCache DEF Boot!Change
<1> QED BY <1>1, <1>2, BootStores

LEMMA BootInterrupt == ASSUME Boot!StartupAssumption, BootInv, Boot!Interrupt PROVE BootInv'
<1> DEFINE m == Boot!FoldSet(LAMBDA a, g : Boot!Cache!Fetch(g, a), store, ExceptionWords)
<1>1. PICK d \in ienable : store' = C!Store(m, StateOf[d], Boot!Junk) /\ changed' = changed \cup {StateOf[d]}
    BY BootCache DEF Boot!Interrupt
<1>2. boot_PIE /\ UNCHANGED <<boot_pc, boot_at, todo, boot_PIE, ienable>>
    BY DEF Boot!Interrupt
<1>3. boot_pc \in Running /\ StateOf[d] \in Boot!Variables
    BY <1>2 DEF BootInv, Boot!StartupAssumption
<1>4. AsBefore(m, store)
  <2>1. Machine(store, Words) /\ CodeRight(store) /\ \A a \in ExceptionWords : store.memory[a] = Boot!Image(a)
      BY <1>3, BootSteps DEF BootInv, ImagesKept
  <2> QED BY <2>1, FetchAll
<1> HIDE DEF m
<1> QED BY <1>1, <1>2, <1>3, <1>4, BootStores DEF BootInv

LEMMA BootNext ==
    ASSUME Boot!StartupAssumption, BootInv, Boot!Next PROVE BootInv'
<1>1. CASE Boot!alt_load_section
    BY <1>1, BootLoadWord, BootLoadNext
<1>2. CASE Boot!alt_irq_init
    BY <1>2, BootStays, BootSteps DEF Boot!alt_irq_init, Boot!StartupAssumption, BootInv
<1>3. CASE Boot!InitDevice
  <2>1. boot_pc = "alt_sys_init" /\ todo # <<>> /\ todo \in Seq(DOMAIN StateOf)
      BY <1>3 DEF Boot!InitDevice, BootInv
  <2>2. Head(todo) \in DOMAIN StateOf /\ Tail(todo) \in Seq(DOMAIN StateOf)
      BY <2>1
  <2>3. StateOf[Head(todo)] \in Boot!Variables
      BY <2>2 DEF Boot!StartupAssumption
  <2>4. /\ Boot!Change(StateOf[Head(todo)]) /\ ienable' = ienable \cup {Head(todo)} /\ todo' = Tail(todo)
        /\ UNCHANGED <<boot_pc, boot_at, boot_PIE>>
      BY <1>3 DEF Boot!InitDevice
  <2> QED BY <2>1, <2>2, <2>3, <2>4, BootChange, BootSteps DEF BootInv
<1>4. CASE Boot!DevicesDone
    BY <1>4, BootStays, BootSteps DEF Boot!DevicesDone, BootInv
<1>5. CASE Boot!alt_io_redirect \/ Boot!Program \/ Boot!Return
  <2>1. /\ boot_pc \in Running /\ boot_pc' \in Running \ {"alt_sys_init"}
        /\ UNCHANGED <<boot_at, todo, boot_PIE, ienable>> /\ \E a \in Boot!Variables : Boot!Change(a)
      BY <1>5, BootSteps DEF Boot!alt_io_redirect, Boot!Program, Boot!Return
  <2> QED BY <2>1, BootChange DEF BootInv
<1> QED BY <1>1, <1>2, <1>3, <1>4, <1>5, BootICache, BootDCache, BootClear, BootCleared, BootLoaded,
           BootFlushData, BootFlushCode, BootInterrupt, BootReset DEF Boot!Next

LEMMA BootUnchanged ==
    ASSUME BootInv, store' = store, boot_pc' = boot_pc, boot_at' = boot_at, todo' = todo,
           boot_PIE' = boot_PIE, ienable' = ienable, changed' = changed
    PROVE  BootInv'
BY DEF BootInv, ImagesKept, LoadedSoFar, HasImage

\* What the invariant says of the caches is what main finds.
LEMMA BootSound == ASSUME Boot!StartupAssumption, BootInv PROVE Boot!TypeOK /\ Boot!Started
<1>1. Machine(store, Words)
    BY DEF BootInv, ImagesKept
<1>2. Boot!Cache!IsMachine(store)
    BY <1>1, BootCache DEF Machine, Words, Boot!Cache!IsMachine, Addresses, Boot!Addresses
<1>3. Boot!TypeOK
    BY <1>2 DEF BootInv, Boot!TypeOK
<1>4. ASSUME boot_pc \in Fetchable
      PROVE  /\ \A a \in Boot!Variables \ changed : Boot!Cache!View(store, a) = Boot!Initial(a)
             /\ \A a \in ExceptionWords : Boot!Cache!Fetched(store, a) = Boot!Image(a)
  <2>1. ASSUME NEW a \in Boot!Variables \ changed PROVE Boot!Cache!View(store, a) = Boot!Initial(a)
    <3>1. CASE a \in Boot!Bss
        BY <1>4, <3>1, BootCache, BootSteps DEF BootInv, Boot!Initial, Boot!Zero
    <3>2. CASE a \notin Boot!Bss
        BY <1>4, <3>2, BootCache, BootSteps DEF BootInv, Boot!Initial, Boot!Variables, HasImage
    <3> QED BY <3>1, <3>2
  <2>2. ASSUME NEW a \in ExceptionWords PROVE C!Fetched(store, a) = Boot!Image(a)
    <3>1. a \in C!WordsOf(C!LineOf(a))
        BY LineKnown, Laid
    <3> QED BY <1>4, <3>1, BootSteps DEF BootInv, CodeRight, C!Fetched
  <2> QED BY <2>1, <2>2, BootCache
<1> QED BY <1>3, <1>4, BootSteps DEF Boot!Started, Running, Fetchable, Written, Copied, Cleared, Boot!Steps

-----------------------------------------------------------------------------
(* The profiler: sums over records                                         *)

\* The sum of the counts of some records, and what its fold makes of every subset.
Total(f, S) == Prof!MapThenSumSet(LAMBDA a : f[a].count, S)
Summed(g, sets, f) ==
    g = [s \in sets |-> IF s = {} THEN 0 ELSE f[Chosen(s)].count + g[s \ {Chosen(s)}]]

SumsUp(g, E, f) == Summed(g, SUBSET E, f)

LEMMA CanSum ==
    ASSUME NEW E, IsFiniteSet(E), NEW f
    PROVE  \E g : SumsUp(g, E, f)
<1> DEFINE bad == {n \in Nat : ~ \E g : Summed(g, UpTo(E, n), f)}
<1>1. ASSUME bad # {} PROVE FALSE
  <2>1. PICK n \in bad : \A i \in bad : n <= i
      BY <1>1, SmallestOf
  <2>2. CASE n = 0
    <3> DEFINE g == [s \in UpTo(E, 0) |-> 0]
    <3>1. \A s \in UpTo(E, 0) : s = {}
      <4>1. ASSUME NEW s \in UpTo(E, 0), s # {} PROVE FALSE
        <5>1. s \in SUBSET E /\ Cardinality(s) <= 0
            BY DEF UpTo
        <5>2. Cardinality(s) \in Nat \ {0}
            BY <4>1, <5>1, Smaller
        <5> QED BY <5>1, <5>2
      <4> QED BY <4>1
    <3>2. Summed(g, UpTo(E, 0), f)
        BY <3>1 DEF Summed
    <3> HIDE DEF g
    <3>3. Summed(g, UpTo(E, n), f)
        BY <2>2, <3>2
    <3> QED BY <2>1, <3>3
  <2>3. CASE n # 0
    <3>1. PICK h : Summed(h, UpTo(E, n-1), f)
        BY <2>1, <2>3
    <3> DEFINE g == [s \in UpTo(E, n) |->
                        IF s = {} THEN 0 ELSE f[Chosen(s)].count + h[s \ {Chosen(s)}]]
    <3>2. \A s \in UpTo(E, n) : s # {} => s \ {Chosen(s)} \in UpTo(E, n-1)
        BY <2>1, Smaller DEF UpTo
    <3>3. \A s \in UpTo(E, n-1) : s \in UpTo(E, n) /\ g[s] = h[s]
      <4> SUFFICES ASSUME NEW s \in UpTo(E, n-1) PROVE s \in UpTo(E, n) /\ g[s] = h[s]
          OBVIOUS
      <4>1. IsFiniteSet(s) /\ Cardinality(s) \in Nat
          BY FS_Subset, FS_CardinalityType DEF UpTo
      <4>2. s \in UpTo(E, n)
          BY <2>1, <4>1 DEF UpTo
      <4>3. h[s] = IF s = {} THEN 0 ELSE f[Chosen(s)].count + h[s \ {Chosen(s)}]
          BY <3>1 DEF Summed
      <4> QED BY <4>2, <4>3
    <3>4. Summed(g, UpTo(E, n), f)
      <4>1. \A s \in UpTo(E, n) : s # {} => g[s \ {Chosen(s)}] = h[s \ {Chosen(s)}]
          BY <3>2, <3>3
      <4>2. g = [s \in UpTo(E, n) |-> g[s]]
          OBVIOUS
      <4>3. \A s \in UpTo(E, n) :
                g[s] = IF s = {} THEN 0 ELSE f[Chosen(s)].count + g[s \ {Chosen(s)}]
          BY <4>1
      <4> HIDE DEF g
      <4> QED BY <4>2, <4>3 DEF Summed
    <3> QED BY <2>1, <3>4
  <2> QED BY <2>2, <2>3
<1>2. UpTo(E, Cardinality(E)) = SUBSET E
    BY FS_Subset DEF UpTo
<1>3. Cardinality(E) \in Nat
    BY FS_CardinalityType
<1> QED BY <1>1, <1>2, <1>3 DEF SumsUp

\* Folds over two sets agree on what is part of both.
LEMMA SumsAgree ==
    ASSUME NEW E, IsFiniteSet(E), NEW D, D \subseteq E, NEW f,
           NEW g, SumsUp(g, E, f), NEW h, SumsUp(h, D, f)
    PROVE  g[D] = h[D]
<1> DEFINE bad == {n \in Nat : \E s \in SUBSET D : Cardinality(s) = n /\ g[s] # h[s]}
<1>1. ASSUME bad # {} PROVE FALSE
  <2>1. PICK n \in bad : \A i \in bad : n <= i
      BY <1>1, SmallestOf
  <2>2. PICK s \in SUBSET D : Cardinality(s) = n /\ g[s] # h[s]
      BY <2>1
  <2>3. s # {} /\ g[s] = f[Chosen(s)].count + g[s \ {Chosen(s)}]
              /\ h[s] = f[Chosen(s)].count + h[s \ {Chosen(s)}]
      BY <2>2 DEF SumsUp, Summed
  <2>4. s \ {Chosen(s)} \in SUBSET D /\ Cardinality(s) \in Nat \ {0}
        /\ Cardinality(s \ {Chosen(s)}) = Cardinality(s) - 1
      BY <2>2, <2>3, Smaller
  <2>5. Cardinality(s \ {Chosen(s)}) \in Nat /\ Cardinality(s \ {Chosen(s)}) < n
      BY <2>2, <2>4
  <2>6. g[s \ {Chosen(s)}] = h[s \ {Chosen(s)}]
      BY <2>1, <2>4, <2>5
  <2> QED BY <2>2, <2>3, <2>6
<1>2. IsFiniteSet(D) /\ Cardinality(D) \in Nat
    BY FS_Subset, FS_CardinalityType
<1> QED BY <1>1, <1>2

LEMMA TotalIs ==
    ASSUME NEW E, IsFiniteSet(E), NEW f, NEW g, SumsUp(g, E, f)
    PROVE  Total(f, E) = g[E]
<1> DEFINE F == CHOOSE h : SumsUp(h, E, f)
<1>1. SumsUp(F, E, f)
    BY CanSum
<1>2. Total(f, E) = F[E]
    BY DEF Total, Prof!MapThenSumSet, Prof!MapThenFoldSet, SumsUp, Summed, Chosen
<1> HIDE DEF F
<1>3. F[E] = g[E]
  <2>1. E \subseteq E
      OBVIOUS
  <2> QED BY <1>1, <2>1, SumsAgree
<1> QED BY <1>2, <1>3

\* The step of the fold.
LEMMA TotalStep ==
    ASSUME NEW E, IsFiniteSet(E), NEW f
    PROVE  Total(f, E) = IF E = {} THEN 0 ELSE f[Chosen(E)].count + Total(f, E \ {Chosen(E)})
<1>1. PICK g : SumsUp(g, E, f)
    BY CanSum
<1>2. Total(f, E) = g[E]
    BY <1>1, TotalIs
<1>3. g[E] = IF E = {} THEN 0 ELSE f[Chosen(E)].count + g[E \ {Chosen(E)}]
    BY <1>1 DEF SumsUp, Summed
<1>4. PICK h : SumsUp(h, E \ {Chosen(E)}, f)
    BY CanSum, FS_Subset
<1>5. Total(f, E \ {Chosen(E)}) = h[E \ {Chosen(E)}]
    BY <1>4, TotalIs, FS_Subset
<1>6. g[E \ {Chosen(E)}] = h[E \ {Chosen(E)}]
  <2>1. E \ {Chosen(E)} \subseteq E
      OBVIOUS
  <2> QED BY <1>1, <1>4, <2>1, SumsAgree
<1> QED BY <1>2, <1>3, <1>5, <1>6

LEMMA TotalInt ==
    ASSUME NEW E, IsFiniteSet(E), NEW f, \A a \in E : f[a].count \in Int
    PROVE  Total(f, E) \in Int
<1> DEFINE bad == {n \in Nat : \E s \in SUBSET E : Cardinality(s) = n /\ Total(f, s) \notin Int}
<1>1. ASSUME bad # {} PROVE FALSE
  <2>1. PICK n \in bad : \A i \in bad : n <= i
      BY <1>1, SmallestOf
  <2>2. PICK s \in SUBSET E : Cardinality(s) = n /\ Total(f, s) \notin Int
      BY <2>1
  <2>0. Total(f, s) = IF s = {} THEN 0 ELSE f[Chosen(s)].count + Total(f, s \ {Chosen(s)})
      BY TotalStep, FS_Subset
  <2>3. s # {} /\ Total(f, s) = f[Chosen(s)].count + Total(f, s \ {Chosen(s)})
      BY <2>0, <2>2
  <2>4. /\ Chosen(s) \in s /\ s \ {Chosen(s)} \in SUBSET E /\ Cardinality(s) \in Nat \ {0}
        /\ Cardinality(s \ {Chosen(s)}) = Cardinality(s) - 1
      BY <2>2, <2>3, Smaller
  <2>5. Cardinality(s \ {Chosen(s)}) \in Nat /\ Cardinality(s \ {Chosen(s)}) < n
      BY <2>2, <2>4
  <2>6. Total(f, s \ {Chosen(s)}) \in Int
      BY <2>1, <2>4, <2>5
  <2> QED BY <2>2, <2>3, <2>4, <2>6
<1>2. IsFiniteSet(E) /\ Cardinality(E) \in Nat
    BY FS_Subset, FS_CardinalityType
<1> QED BY <1>1, <1>2

\* Equal counts have equal sums.
LEMMA TotalSame ==
    ASSUME NEW E, IsFiniteSet(E), NEW f, NEW g, \A a \in E : f[a].count = g[a].count
    PROVE  Total(f, E) = Total(g, E)
<1> DEFINE bad == {n \in Nat : \E s \in SUBSET E : Cardinality(s) = n /\ Total(f, s) # Total(g, s)}
<1>1. ASSUME bad # {} PROVE FALSE
  <2>1. PICK n \in bad : \A i \in bad : n <= i
      BY <1>1, SmallestOf
  <2>2. PICK s \in SUBSET E : Cardinality(s) = n /\ Total(f, s) # Total(g, s)
      BY <2>1
  <2>3. s # {} /\ Total(f, s) = f[Chosen(s)].count + Total(f, s \ {Chosen(s)})
              /\ Total(g, s) = g[Chosen(s)].count + Total(g, s \ {Chosen(s)})
      BY <2>2, TotalStep, FS_Subset
  <2>4. /\ Chosen(s) \in s /\ s \ {Chosen(s)} \in SUBSET E /\ Cardinality(s) \in Nat \ {0}
        /\ Cardinality(s \ {Chosen(s)}) = Cardinality(s) - 1
      BY <2>2, <2>3, Smaller
  <2>5. Cardinality(s \ {Chosen(s)}) \in Nat /\ Cardinality(s \ {Chosen(s)}) < n
      BY <2>2, <2>4
  <2>6. Total(f, s \ {Chosen(s)}) = Total(g, s \ {Chosen(s)})
      BY <2>1, <2>4, <2>5
  <2> QED BY <2>2, <2>3, <2>4, <2>6
<1>2. IsFiniteSet(E) /\ Cardinality(E) \in Nat
    BY FS_Subset, FS_CardinalityType
<1> QED BY <1>1, <1>2

\* Whichever record is taken out, the rest is what remains of the sum.
LEMMA TotalWithout ==
    ASSUME NEW E, IsFiniteSet(E), NEW f, \A a \in E : f[a].count \in Int, NEW x \in E
    PROVE  Total(f, E) = f[x].count + Total(f, E \ {x})
<1> DEFINE Splits(s) == \A y \in s : Total(f, s) = f[y].count + Total(f, s \ {y})
<1> DEFINE bad == {n \in Nat : \E s \in SUBSET E : Cardinality(s) = n /\ ~Splits(s)}
<1>1. ASSUME bad # {} PROVE FALSE
  <2>1. PICK n \in bad : \A i \in bad : n <= i
      BY <1>1, SmallestOf
  <2>2. PICK s \in SUBSET E : Cardinality(s) = n /\ ~Splits(s)
      BY <2>1
  <2>3. PICK y \in s : Total(f, s) # f[y].count + Total(f, s \ {y})
      BY <2>2
  <2> DEFINE c == Chosen(s)
  <2>4. IsFiniteSet(s) /\ s # {}
      BY <2>3, FS_Subset
  <2>5. Total(f, s) = f[c].count + Total(f, s \ {c})
      BY <2>4, TotalStep
  <2>6. c \in s /\ c # y
      BY <2>3, <2>4, <2>5, Smaller
  <2> HIDE DEF c
  <2>7. /\ Cardinality(s \ {c}) = n - 1 /\ Cardinality(s \ {y}) = n - 1 /\ n - 1 \in Nat
    <3>1. Cardinality(s) \in Nat \ {0}
        BY <2>4, FS_CardinalityType, FS_EmptySet
    <3>2. /\ Cardinality(s \ {c}) = Cardinality(s) - 1
          /\ Cardinality(s \ {y}) = Cardinality(s) - 1
        BY <2>4, <2>6, FS_RemoveElement
    <3> QED BY <2>2, <3>1, <3>2
  <2>8. Splits(s \ {c}) /\ Splits(s \ {y})
      BY <2>1, <2>7
  <2>9. /\ Total(f, s \ {c}) = f[y].count + Total(f, (s \ {c}) \ {y})
        /\ Total(f, s \ {y}) = f[c].count + Total(f, (s \ {y}) \ {c})
      BY <2>6, <2>8
  <2>10. (s \ {c}) \ {y} = (s \ {y}) \ {c}
      OBVIOUS
  <2> DEFINE r == (s \ {y}) \ {c}
  <2>11. Total(f, r) \in Int
      BY TotalInt, <2>4, FS_Subset
  <2> HIDE DEF r
  <2>12. /\ Total(f, s \ {c}) = f[y].count + Total(f, r)
         /\ Total(f, s \ {y}) = f[c].count + Total(f, r)
      BY <2>9, <2>10 DEF r
  <2>13. f[c].count \in Int /\ f[y].count \in Int
      BY <2>6
  <2> QED BY <2>3, <2>5, <2>11, <2>12, <2>13
<1>2. Cardinality(E) \in Nat
    BY FS_CardinalityType
<1>3. Splits(E)
    BY <1>1, <1>2
<1> QED BY <1>3

\* A record more, and one that counts one more.
LEMMA TotalWith ==
    ASSUME NEW E, IsFiniteSet(E), NEW f, NEW g, NEW x, x \notin E, g[x].count = 1,
           \A a \in E : f[a].count \in Int /\ g[a].count = f[a].count
    PROVE  Total(g, E \cup {x}) = Total(f, E) + 1
<1>1. IsFiniteSet(E \cup {x}) /\ (E \cup {x}) \ {x} = E
    BY FS_AddElement
<1>2. \A a \in E \cup {x} : g[a].count \in Int
    OBVIOUS
<1>3. Total(g, E \cup {x}) = g[x].count + Total(g, (E \cup {x}) \ {x})
    BY <1>1, <1>2, TotalWithout
<1>4. Total(g, E) = Total(f, E) /\ Total(f, E) \in Int
    BY TotalSame, TotalInt
<1> QED BY <1>1, <1>3, <1>4

LEMMA TotalCounted ==
    ASSUME NEW E, IsFiniteSet(E), NEW f, NEW g, NEW x \in E, g[x].count = f[x].count + 1,
           \A a \in E : f[a].count \in Int,
           \A a \in E \ {x} : g[a].count = f[a].count
    PROVE  Total(g, E) = Total(f, E) + 1
<1>1. \A a \in E : g[a].count \in Int
    OBVIOUS
<1>2. /\ Total(g, E) = g[x].count + Total(g, E \ {x})
      /\ Total(f, E) = f[x].count + Total(f, E \ {x})
    BY <1>1, TotalWithout
<1>3. IsFiniteSet(E \ {x})
    BY FS_Subset
<1>4. Total(g, E \ {x}) = Total(f, E \ {x}) /\ Total(f, E \ {x}) \in Int
    BY <1>3, TotalSame, TotalInt
<1> QED BY <1>2, <1>4

-----------------------------------------------------------------------------
(* Sequences put together                                                  *)

Has(s, x) == \E i \in 1 .. Len(s) : s[i] = x
Distinct(s) == s \in Seq(Nat) /\ \A i, j \in 1 .. Len(s) : s[i] = s[j] => i = j

LEMMA Joined ==
    ASSUME NEW s, Distinct(s), NEW t, Distinct(t), \A x : ~(Has(s, x) /\ Has(t, x))
    PROVE  /\ Distinct(s \o t)
           /\ \A x : Has(s \o t, x) <=> Has(s, x) \/ Has(t, x)
<1>1. /\ s \in Seq(Nat) /\ t \in Seq(Nat) /\ s \o t \in Seq(Nat) /\ Len(s \o t) = Len(s) + Len(t)
      /\ \A i \in 1 .. Len(s \o t) : (s \o t)[i] = IF i <= Len(s) THEN s[i] ELSE t[i - Len(s)]
      /\ Len(s) \in Nat /\ Len(t) \in Nat
    BY DEF Distinct
<1> DEFINE u == s \o t
<1>2. /\ \A i \in 1 .. Len(s) : i \in 1 .. Len(u) /\ u[i] = s[i]
      /\ \A i \in 1 .. Len(t) : i + Len(s) \in 1 .. Len(u) /\ u[i + Len(s)] = t[i]
      /\ \A i \in 1 .. Len(u) : IF i \in 1 .. Len(s) THEN u[i] = s[i]
                               ELSE i - Len(s) \in 1 .. Len(t) /\ u[i] = t[i - Len(s)]
    BY <1>1
<1> HIDE DEF u
<1>3. ASSUME NEW x PROVE Has(u, x) <=> Has(s, x) \/ Has(t, x)
    BY <1>2 DEF Has
<1>4. ASSUME NEW i \in 1 .. Len(u), NEW j \in 1 .. Len(u), u[i] = u[j] PROVE i = j
  <2>1. CASE i \in 1 .. Len(s) /\ j \in 1 .. Len(s)
      BY <1>2, <1>4, <2>1 DEF Distinct
  <2>2. CASE i \notin 1 .. Len(s) /\ j \notin 1 .. Len(s)
    <3>1. /\ i - Len(s) \in 1 .. Len(t) /\ j - Len(s) \in 1 .. Len(t)
          /\ t[i - Len(s)] = t[j - Len(s)]
        BY <1>2, <1>4, <2>2
    <3>2. i - Len(s) = j - Len(s)
        BY <3>1 DEF Distinct
    <3> QED BY <1>1, <3>2
  <2>3. CASE i \in 1 .. Len(s) /\ j \notin 1 .. Len(s)
      BY <1>2, <1>4, <2>3 DEF Has
  <2>4. CASE i \notin 1 .. Len(s) /\ j \in 1 .. Len(s)
      BY <1>2, <1>4, <2>4 DEF Has
  <2> QED BY <2>1, <2>2, <2>3, <2>4
<1>5. Distinct(u)
    BY <1>1, <1>4 DEF Distinct, u
<1> QED BY <1>3, <1>5 DEF u

Flattened(g, ss, n) == g = [i \in 1 .. n |-> IF i = 1 THEN ss[i] ELSE g[i-1] \o ss[i]]

LEMMA CanFlatten ==
    ASSUME NEW ss, NEW m \in Nat
    PROVE  \E g : Flattened(g, ss, m)
<1> DEFINE bad == {n \in Nat : ~ \E g : Flattened(g, ss, n)}
<1>1. ASSUME bad # {} PROVE FALSE
  <2>1. PICK n \in bad : \A i \in bad : n <= i
      BY <1>1, SmallestOf
  <2>2. CASE n = 0
    <3> DEFINE g == [i \in 1 .. 0 |-> <<>>]
    <3>1. Flattened(g, ss, 0)
        BY DEF Flattened
    <3> HIDE DEF g
    <3> QED BY <2>1, <2>2, <3>1
  <2>3. CASE n # 0
    <3>1. PICK h : Flattened(h, ss, n-1)
        BY <2>1, <2>3
    <3> DEFINE g == [i \in 1 .. n |-> IF i = 1 THEN ss[i] ELSE h[i-1] \o ss[i]]
    <3>0. n \in Nat /\ \A i \in 1 .. n : i # 1 => i - 1 \in 1 .. n - 1
        BY <2>1
    <3>2. \A i \in 1 .. n - 1 : i \in 1 .. n /\ g[i] = h[i]
      <4>1. \A i \in 1 .. n - 1 : h[i] = IF i = 1 THEN ss[i] ELSE h[i-1] \o ss[i]
          BY <3>1 DEF Flattened
      <4>2. \A i \in 1 .. n - 1 : i \in 1 .. n
          BY <3>0
      <4> QED BY <4>1, <4>2
    <3>3. \A i \in 1 .. n : i # 1 => g[i-1] = h[i-1]
        BY <3>0, <3>2
    <3>4. g = [i \in 1 .. n |-> g[i]] /\ \A i \in 1 .. n : g[i] = IF i = 1 THEN ss[i] ELSE g[i-1] \o ss[i]
        BY <3>3
    <3> HIDE DEF g
    <3>5. Flattened(g, ss, n)
        BY <3>4 DEF Flattened
    <3> QED BY <2>1, <3>5
  <2> QED BY <2>2, <2>3
<1> QED BY <1>1

LEMMA FlattenIs ==
    ASSUME NEW ss, Len(ss) \in Nat \ {0}
    PROVE  \E g : Flattened(g, ss, Len(ss)) /\ Prof!FlattenSeq(ss) = g[Len(ss)]
<1> DEFINE g == CHOOSE h : Flattened(h, ss, Len(ss))
<1>1. Flattened(g, ss, Len(ss))
    BY CanFlatten
<1>2. Prof!FlattenSeq(ss) = g[Len(ss)]
    BY DEF Prof!FlattenSeq, Flattened
<1> QED BY <1>1, <1>2

\* Sequences with nothing in common, each without repetitions, give one without.
LEMMA FlattenDistinct ==
    ASSUME NEW ss, Len(ss) \in Nat, Len(ss) = 0 => ss = <<>>,
           \A i \in 1 .. Len(ss) : Distinct(ss[i]),
           \A i, j \in 1 .. Len(ss) : \A x : Has(ss[i], x) /\ Has(ss[j], x) => i = j
    PROVE  /\ Distinct(Prof!FlattenSeq(ss))
           /\ \A x : Has(Prof!FlattenSeq(ss), x) <=> \E i \in 1 .. Len(ss) : Has(ss[i], x)
<1>1. CASE Len(ss) = 0
  <2>1. Prof!FlattenSeq(ss) = <<>>
      BY <1>1 DEF Prof!FlattenSeq
  <2> QED BY <1>1, <2>1 DEF Distinct, Has
<1>2. CASE Len(ss) # 0
  <2>1. PICK g : Flattened(g, ss, Len(ss)) /\ Prof!FlattenSeq(ss) = g[Len(ss)]
      BY <1>2, FlattenIs
  <2> DEFINE Good(n) == Distinct(g[n]) /\ \A x : Has(g[n], x) <=> \E i \in 1 .. n : Has(ss[i], x)
  <2> DEFINE bad == {n \in Nat : n \in 1 .. Len(ss) /\ ~Good(n)}
  <2> HIDE DEF Good
  <2>2. ASSUME bad # {} PROVE FALSE
    <3>1. PICK n \in bad : \A i \in bad : n <= i
        BY <2>2, SmallestOf
    <3>2. n \in Nat /\ n \in 1 .. Len(ss) /\ ~Good(n)
        BY <3>1
    <3>3. g[n] = IF n = 1 THEN ss[n] ELSE g[n-1] \o ss[n]
        BY <2>1, <3>2 DEF Flattened
    <3>4. CASE n = 1
      <4>1. 1 .. n = {1}
          BY <3>4
      <4> QED BY <3>2, <3>3, <3>4, <4>1 DEF Good
    <3>5. CASE n # 1
      <4>1. n - 1 \in Nat /\ n - 1 \in 1 .. Len(ss) /\ n - 1 < n
          BY <3>2, <3>5
      <4>2. Good(n-1)
          BY <3>1, <4>1
      <4>3. \A x : ~(Has(g[n-1], x) /\ Has(ss[n], x))
        <5>1. ASSUME NEW x, Has(g[n-1], x), Has(ss[n], x) PROVE FALSE
          <6>1. PICK i \in 1 .. n - 1 : Has(ss[i], x)
              BY <4>2, <5>1 DEF Good
          <6>2. i \in 1 .. Len(ss) /\ i # n
              BY <3>2
          <6> QED BY <3>2, <5>1, <6>1, <6>2
        <5> QED BY <5>1
      <4>4. /\ Distinct(g[n])
            /\ \A x : Has(g[n], x) <=> Has(g[n-1], x) \/ Has(ss[n], x)
          BY <3>2, <3>3, <3>5, <4>2, <4>3, Joined DEF Good
      <4>5. \A x : Has(g[n], x) <=> \E i \in 1 .. n : Has(ss[i], x)
        <5>1. 1 .. n = (1 .. n - 1) \cup {n}
            BY <3>2
        <5> QED BY <4>2, <4>4, <5>1 DEF Good
      <4> QED BY <3>2, <4>4, <4>5 DEF Good
    <3> QED BY <3>4, <3>5
  <2>3. Good(Len(ss))
      BY <1>2, <2>2
  <2> QED BY <2>1, <2>3 DEF Good
<1> QED BY <1>1, <1>2

-----------------------------------------------------------------------------
(* The profiler: the records                                             *)

Pcs == {"idle", "fn", "arc", "load", "store", "ask", "clear", "init", "answer", "record"}
CallState == [pc : Pcs, arc : Prof!Arcs \cup {<<>>}, entry : Int, at : Int, count : Int]

Records ==
    /\ call \in [Prof!Contexts -> CallState]
    /\ DOMAIN entry \subseteq Nat /\ entry = [e \in DOMAIN entry |-> entry[e]]
    /\ \A e \in DOMAIN entry :
           entry[e] = [self_pc |-> entry[e].self_pc, arcs |-> entry[e].arcs]
           /\ entry[e].self_pc \in Functions
    /\ DOMAIN arc \subseteq Nat /\ arc = [a \in DOMAIN arc |-> arc[a]]
    /\ \A a \in DOMAIN arc : arc[a] \in [from_pc : Callers, count : Int]
    /\ IsFiniteSet(DOMAIN arc)
    /\ calls \in [Prof!Arcs -> Int]

\* Every record is on one list, once, and nothing else is.
Listed ==
    /\ Distinct(head) /\ \A x : Has(head, x) <=> x \in DOMAIN entry
    /\ \A e \in DOMAIN entry :
           /\ Distinct(entry[e].arcs)
           /\ \A a : Has(entry[e].arcs, a) => a \in DOMAIN arc
    /\ \A a \in DOMAIN arc : \E e \in DOMAIN entry : Has(entry[e].arcs, a)
    /\ \A d, e \in DOMAIN entry : \A a : Has(entry[d].arcs, a) /\ Has(entry[e].arcs, a) => d = e

\* What is in use lies below the end of the heap and outside the slab.
Roomy(used, ptr, size, top) ==
    /\ used \subseteq Nat /\ ptr \in Nat /\ size \in 0 .. Increment /\ top \in Nat
    /\ ptr + size <= top
    /\ \A x \in used : x < top /\ ~(ptr <= x /\ x < ptr + size)

Apart ==
    /\ Roomy(DOMAIN entry \cup DOMAIN arc \cup others, slab_ptr, slab_size, brk)
    /\ DOMAIN entry \cap DOMAIN arc = {}
    /\ others \cap (DOMAIN entry \cup DOMAIN arc) = {}

\* The records of an arc, in whatever copies of its function there are.
Of(x) == {a \in DOMAIN arc : /\ arc[a].from_pc = x[2]
                             /\ \E e \in DOMAIN entry : entry[e].self_pc = x[1] /\ Has(entry[e].arcs, a)}

IsEntry(c) == call[c].entry \in DOMAIN entry /\ entry[call[c].entry].self_pc = call[c].arc[1]

\* What a call in progress has found is of its arc, and the count it read is that of the
\* record unless it has been raced with.
Found(c) ==
    /\ call[c].pc # "idle" => call[c].arc \in Prof!Arcs
    /\ call[c].pc \in {"arc", "load", "store"} => IsEntry(c)
    /\ call[c].pc \in {"ask", "clear", "init", "answer", "record"} =>
          call[c].entry = Prof!None \/ IsEntry(c)
    /\ call[c].pc \in {"load", "store"} => call[c].at \in Of(call[c].arc)
    /\ call[c].pc = "store" /\ call[c].arc \notin raced => call[c].count = arc[call[c].at].count

ArcsCounted == \A x \in Prof!Arcs \ raced : calls[x] = Total(arc, Of(x))

RecordInv ==
    Records /\ Listed /\ Apart /\ (\A c \in Prof!Contexts : Found(c)) /\ ArcsCounted

LEMMA Allocation ==
    ASSUME Prof!ProfilerAssumption, NEW used, NEW ptr, NEW size, NEW top, Roomy(used, ptr, size, top)
    PROVE  LET r == Prof!Allocated(ptr, size, top)
           IN  /\ r.at \in Nat /\ r.at \notin used
               /\ Roomy(used \cup {r.at}, r.ptr, r.size, r.brk)
<1>1. Increment \in Nat /\ Increment >= 2 /\ ptr \in Nat /\ size \in 0 .. Increment /\ top \in Nat
      /\ ptr + size <= top /\ used \subseteq Nat
      /\ \A x \in used : x < top /\ ~(ptr <= x /\ x < ptr + size)
    BY DEF Prof!ProfilerAssumption, Roomy
<1>2. CASE 1 > size
  <2>1. Prof!Allocated(ptr, size, top) =
            [at |-> top, ptr |-> top + 1, size |-> Increment - 1, brk |-> top + Increment]
      BY <1>2 DEF Prof!Allocated
  <2>2. Roomy(used \cup {top}, top + 1, Increment - 1, top + Increment) /\ top \notin used
      BY <1>1 DEF Roomy
  <2> QED BY <1>1, <2>1, <2>2
<1>3. CASE ~(1 > size)
  <2>1. Prof!Allocated(ptr, size, top) =
            [at |-> ptr, ptr |-> ptr + 1, size |-> size - 1, brk |-> top]
      BY <1>3 DEF Prof!Allocated
  <2>2. Roomy(used \cup {ptr}, ptr + 1, size - 1, top) /\ ptr \notin used
      BY <1>1, <1>3 DEF Roomy
  <2> QED BY <1>1, <2>1, <2>2
<1> QED BY <1>2, <1>3

LEMMA ProfInit == Prof!Init /\ Prof!ProfilerAssumption => RecordInv
<1> SUFFICES ASSUME Prof!Init, Prof!ProfilerAssumption PROVE RecordInv
    OBVIOUS
<1>1. /\ call = [c \in Prof!Contexts |-> Prof!Idle] /\ head = <<>> /\ entry = <<>> /\ arc = <<>>
      /\ slab_ptr = 0 /\ slab_size = 0 /\ brk = 1 /\ others = {}
      /\ calls = [x \in Prof!Arcs |-> 0] /\ raced = {} /\ Increment \in Nat
    BY DEF Prof!Init, Prof!ProfilerAssumption
<1>2. DOMAIN entry = {} /\ DOMAIN arc = {}
    BY <1>1
<1>3. Records
  <2>1. Prof!Idle \in CallState
      BY DEF Prof!Idle, CallState, Pcs, Prof!None
  <2>2. IsFiniteSet({})
      BY FS_EmptySet
  <2>3. entry = [e \in DOMAIN entry |-> entry[e]] /\ arc = [a \in DOMAIN arc |-> arc[a]]
      BY <1>1
  <2> QED BY <1>1, <1>2, <2>1, <2>2, <2>3 DEF Records
<1>4. Listed /\ Apart
    BY <1>1, <1>2 DEF Listed, Apart, Roomy, Distinct, Has
<1>5. \A c \in Prof!Contexts : call[c].pc = "idle"
    BY <1>1 DEF Prof!Idle
<1>6. ArcsCounted
  <2>1. \A x : Of(x) = {}
      BY <1>2 DEF Of
  <2>2. Total(arc, {}) = 0
      BY TotalStep, FS_EmptySet
  <2> QED BY <1>1, <2>1, <2>2 DEF ArcsCounted
<1> QED BY <1>3, <1>4, <1>5, <1>6 DEF RecordInv, Found

\* A call that goes on and changes no record.
LEMMA CallGoesOn ==
    ASSUME RecordInv, UNCHANGED <<head, entry, arc, slab_ptr, slab_size, brk, others, calls, raced>>,
           NEW c \in Prof!Contexts, NEW k \in CallState, call' = [call EXCEPT ![c] = k], Found(c)'
    PROVE  RecordInv'
<1>1. Records'
    BY DEF RecordInv, Records
<1>2. Listed' /\ Apart' /\ ArcsCounted'
    BY DEF RecordInv, Listed, Apart, ArcsCounted, Of
<1>3. ASSUME NEW d \in Prof!Contexts PROVE Found(d)'
  <2>1. CASE d = c
      BY <2>1
  <2>2. CASE d # c
    <3>1. call'[d] = call[d]
        BY <2>2 DEF RecordInv, Records
    <3> QED BY <3>1 DEF RecordInv, Found, IsEntry, Of
  <2> QED BY <2>1, <2>2
<1> QED BY <1>1, <1>2, <1>3 DEF RecordInv

LEMMA ContextIs ==
    ASSUME RecordInv, NEW c \in Prof!Contexts
    PROVE  /\ call[c] \in CallState /\ DOMAIN call = Prof!Contexts
           /\ call[c] = [pc |-> call[c].pc, arc |-> call[c].arc, entry |-> call[c].entry,
                         at |-> call[c].at, count |-> call[c].count]
           /\ Found(c)
BY DEF RecordInv, Records, CallState

LEMMA EnterKept ==
    ASSUME RecordInv, NEW c \in Prof!Contexts, NEW x \in Prof!Arcs, Prof!Enter(c, x) PROVE RecordInv'
<1> DEFINE k == [Prof!Idle EXCEPT !.pc = "fn", !.arc = x]
<1>0. Prof!Idle \in CallState
    BY DEF Prof!Idle, Prof!None, CallState, Pcs
<1>1. k \in CallState /\ k.pc = "fn" /\ k.arc = x
    BY <1>0 DEF CallState, Pcs
<1> HIDE DEF k
<1>2. /\ call' = [call EXCEPT ![c] = k]
      /\ UNCHANGED <<head, entry, arc, slab_ptr, slab_size, brk, others, calls, raced>>
    BY DEF Prof!Enter, Prof!lists, Prof!memory, k
<1>3. call'[c] = k
    BY <1>2, ContextIs
<1>4. Found(c)'
    BY <1>1, <1>3 DEF Found
<1> QED BY <1>1, <1>2, <1>4, CallGoesOn

LEMMA FirstIs ==
    ASSUME NEW list \in Seq(Nat), NEW S
    PROVE  LET r == Prof!FirstIn(list, S)
           IN r = Prof!None \/ (r \in S /\ Has(list, r))
<1> DEFINE I == {i \in DOMAIN list : list[i] \in S}
<1>1. CASE I = {}
    BY <1>1 DEF Prof!FirstIn
<1>2. CASE I # {}
  <2>1. I \in SUBSET Nat
      OBVIOUS
  <2>2. PICK m \in I : \A i \in I : m <= i
      BY <1>2, <2>1, SmallestOf
  <2>3. Prof!Min(I) \in I
    <3>1. Prof!Min(I) = CHOOSE i \in I : \A j \in I : i <= j
        BY DEF Prof!Min
    <3> QED BY <2>2, <3>1
  <2>4. Prof!FirstIn(list, S) = list[Prof!Min(I)]
      BY <1>2 DEF Prof!FirstIn
  <2> HIDE DEF I
  <2>5. list[Prof!Min(I)] \in S /\ Prof!Min(I) \in 1 .. Len(list)
      BY <2>3 DEF I
  <2> QED BY <2>4, <2>5 DEF Has
<1> QED BY <1>1, <1>2

LEMMA FindFunctionKept ==
    ASSUME RecordInv, NEW c \in Prof!Contexts, Prof!FindFunction(c) PROVE RecordInv'
<1> DEFINE S == {r \in DOMAIN entry : entry[r].self_pc = call[c].arc[1]}
           e == Prof!FirstIn(head, S)
           k == [call[c] EXCEPT !.entry = e, !.pc = IF e = Prof!None THEN "ask" ELSE "arc"]
<1>1. head \in Seq(Nat) /\ DOMAIN entry \subseteq Nat
    BY DEF RecordInv, Listed, Distinct, Records
<1>2. e = Prof!None \/ (e \in DOMAIN entry /\ entry[e].self_pc = call[c].arc[1])
  <2>1. e = Prof!None \/ e \in S
      BY <1>1, FirstIs
  <2> QED BY <2>1
<1>3. /\ call' = [call EXCEPT ![c] = k] /\ call[c].pc = "fn"
      /\ UNCHANGED <<head, entry, arc, slab_ptr, slab_size, brk, others, calls, raced>>
    BY ContextIs DEF Prof!FindFunction, Prof!At, Prof!lists, Prof!memory
<1>7. e \in Int
    BY <1>1, <1>2 DEF Prof!None
<1> HIDE DEF e
<1>4. k \in CallState /\ k.arc = call[c].arc /\ k.entry = e
      /\ k.pc = IF e = Prof!None THEN "ask" ELSE "arc"
    BY <1>7, ContextIs DEF CallState, Pcs
<1> HIDE DEF k
<1>5. call'[c] = k
    BY <1>3, ContextIs
<1>6. Found(c)'
    BY <1>2, <1>3, <1>4, <1>5, ContextIs DEF Found, IsEntry
<1> QED BY <1>3, <1>4, <1>6, CallGoesOn

LEMMA FindArcKept ==
    ASSUME RecordInv, NEW c \in Prof!Contexts, Prof!FindArc(c) PROVE RecordInv'
<1> DEFINE S == {r \in DOMAIN arc : arc[r].from_pc = call[c].arc[2]}
           list == entry[call[c].entry].arcs
           a == Prof!FirstIn(list, S)
           k == [call[c] EXCEPT !.at = a, !.pc = IF a = Prof!None THEN "ask" ELSE "load"]
<1>0. call[c].pc = "arc" /\ IsEntry(c) /\ call[c].arc \in Prof!Arcs
    BY ContextIs DEF Prof!FindArc, Prof!At, Found
<1>1. list \in Seq(Nat) /\ DOMAIN arc \subseteq Nat
    BY <1>0 DEF RecordInv, Listed, Distinct, Records, IsEntry
<1>2. a = Prof!None \/ (a \in S /\ Has(list, a))
    BY <1>1, FirstIs
<1>3. a = Prof!None \/ a \in Of(call[c].arc)
    BY <1>0, <1>2 DEF Of, IsEntry
<1>4. /\ call' = [call EXCEPT ![c] = k]
      /\ UNCHANGED <<head, entry, arc, slab_ptr, slab_size, brk, others, calls, raced>>
    BY ContextIs DEF Prof!FindArc, Prof!lists, Prof!memory
<1>5. a \in Int
    BY <1>1, <1>2 DEF Prof!None
<1> HIDE DEF a
<1>6. k \in CallState /\ k.arc = call[c].arc /\ k.entry = call[c].entry /\ k.at = a
      /\ k.pc = IF a = Prof!None THEN "ask" ELSE "load"
    BY <1>5, ContextIs DEF CallState, Pcs
<1> HIDE DEF k
<1>7. call'[c] = k
    BY <1>4, ContextIs
<1>8. (\A x : Of(x)' = Of(x)) /\ IsEntry(c)'
    BY <1>0, <1>4, <1>6, <1>7 DEF Of, IsEntry
<1>9. Found(c)'
    BY <1>0, <1>3, <1>6, <1>7, <1>8 DEF Found
<1> QED BY <1>4, <1>6, <1>9, CallGoesOn

LEMMA LoadKept ==
    ASSUME RecordInv, NEW c \in Prof!Contexts, Prof!Load(c) PROVE RecordInv'
<1> DEFINE k == [call[c] EXCEPT !.pc = "store", !.count = arc[call[c].at].count]
<1>1. /\ call[c].pc = "load" /\ IsEntry(c) /\ call[c].arc \in Prof!Arcs
      /\ call[c].at \in Of(call[c].arc)
    BY ContextIs DEF Prof!Load, Prof!At, Found
<1>2. arc[call[c].at].count \in Int
    BY <1>1 DEF RecordInv, Records, Of
<1>3. /\ call' = [call EXCEPT ![c] = k]
      /\ UNCHANGED <<head, entry, arc, slab_ptr, slab_size, brk, others, calls, raced>>
    BY ContextIs DEF Prof!Load, Prof!lists, Prof!memory
<1>4. k \in CallState /\ k.arc = call[c].arc /\ k.entry = call[c].entry /\ k.at = call[c].at
      /\ k.pc = "store" /\ k.count = arc[k.at].count
    BY <1>2, ContextIs DEF CallState, Pcs
<1> HIDE DEF k
<1>5. call'[c] = k
    BY <1>3, ContextIs
<1>6. (\A x : Of(x)' = Of(x)) /\ IsEntry(c)' /\ arc' = arc
    BY <1>1, <1>3, <1>4, <1>5 DEF Of, IsEntry
<1>7. Found(c)'
    BY <1>1, <1>4, <1>5, <1>6 DEF Found
<1> QED BY <1>3, <1>4, <1>7, CallGoesOn

\* On the way to a record: nothing but the step and the count is set.
LEMMA AskingKept ==
    ASSUME RecordInv, NEW c \in Prof!Contexts,
           Prof!Ask(c) \/ Prof!Clear(c) \/ Prof!nios2_pcsample_init(c) \/ Prof!Answer(c),
           tick_rate \in Int
    PROVE  RecordInv'
<1> DEFINE k == call'[c]
<1>1. /\ call[c].pc \in {"ask", "clear", "init", "answer"} /\ call[c].arc \in Prof!Arcs
      /\ call[c].entry = Prof!None \/ IsEntry(c)
    BY ContextIs DEF Prof!Ask, Prof!Clear, Prof!nios2_pcsample_init, Prof!Answer, Prof!At, Found
<1>2. /\ call' = [call EXCEPT ![c] = k]
      /\ k \in CallState /\ k.arc = call[c].arc /\ k.entry = call[c].entry
      /\ k.pc \in {"clear", "init", "answer", "record"}
  <2>1. call[c] \in CallState /\ DOMAIN call = Prof!Contexts
      BY ContextIs
  <2>2. CASE Prof!Ask(c)
      BY <2>1, <2>2 DEF Prof!Ask, Prof!Goes, CallState, Pcs
  <2>3. CASE Prof!Clear(c)
      BY <2>1, <2>3 DEF Prof!Clear, Prof!Goes, CallState, Pcs
  <2>4. CASE Prof!Answer(c)
      BY <2>1, <2>4 DEF Prof!Answer, Prof!Goes, CallState, Pcs
  <2>5. CASE Prof!nios2_pcsample_init(c)
    <3>1. 1 - tick_rate \in Int
        OBVIOUS
    <3>2. call' = [call EXCEPT ![c] = [call[c] EXCEPT !.pc = "answer", !.count = 1 - tick_rate]]
        BY <2>1, <2>5 DEF Prof!nios2_pcsample_init
    <3> QED BY <2>1, <3>1, <3>2 DEF CallState, Pcs
  <2> QED BY <2>2, <2>3, <2>4, <2>5
<1>3. UNCHANGED <<head, entry, arc, slab_ptr, slab_size, brk, others, calls, raced>>
    BY DEF Prof!Ask, Prof!Clear, Prof!nios2_pcsample_init, Prof!Answer, Prof!lists, Prof!memory
<1>4. Found(c)'
    BY <1>1, <1>2, <1>3 DEF Found, IsEntry
<1> QED BY <1>2, <1>3, <1>4, CallGoesOn

LEMMA BesidesKept ==
    ASSUME RecordInv,
           Prof!ClockStarts \/ Prof!Others \/ \E n \in 0 .. TextBytes : Prof!nios2_pcsample(n)
    PROVE  RecordInv'
<1>1. /\ UNCHANGED <<call, head, entry, arc, slab_ptr, slab_size, calls, raced>>
      /\ \/ UNCHANGED <<brk, others>>
         \/ others = {} /\ others' = {brk} /\ brk' = brk + 1
    BY DEF Prof!ClockStarts, Prof!Others, Prof!nios2_pcsample, Prof!lists, Prof!memory
<1>2. Records' /\ Listed' /\ ArcsCounted'
    BY <1>1 DEF RecordInv, Records, Listed, ArcsCounted, Of
<1>3. \A c \in Prof!Contexts : Found(c)'
    BY <1>1 DEF RecordInv, Found, IsEntry, Of
<1>4. Apart'
    BY <1>1 DEF RecordInv, Apart, Roomy
<1> QED BY <1>2, <1>3, <1>4 DEF RecordInv

\* A record is of one arc.
LEMMA OfOne ==
    ASSUME RecordInv, NEW x \in Prof!Arcs, NEW y \in Prof!Arcs, NEW a \in Of(x), a \in Of(y)
    PROVE  x = y
<1>1. PICK d \in DOMAIN entry : entry[d].self_pc = x[1] /\ Has(entry[d].arcs, a)
    BY DEF Of
<1>2. PICK e \in DOMAIN entry : entry[e].self_pc = y[1] /\ Has(entry[e].arcs, a)
    BY DEF Of
<1>3. d = e
    BY <1>1, <1>2 DEF RecordInv, Listed
<1>4. x[1] = y[1] /\ x[2] = y[2]
    BY <1>1, <1>2, <1>3 DEF Of
<1> QED BY <1>4 DEF Prof!Arcs

\* What the end of a call leaves behind.
LEMMA EndsIs ==
    ASSUME RecordInv, NEW c \in Prof!Contexts, Prof!Ends(c), call[c].arc \in Prof!Arcs
    PROVE  /\ call' \in [Prof!Contexts -> CallState] /\ call'[c].pc = "idle"
           /\ \A d \in Prof!Contexts \ {c} : call'[d] = call[d]
           /\ calls' \in [Prof!Arcs -> Int]
           /\ \A x \in Prof!Arcs : calls'[x] = IF x = call[c].arc THEN calls[x] + 1 ELSE calls[x]
           /\ raced \subseteq raced'
           /\ c = "handler" /\ call["program"].pc = "store"
                /\ call["program"].arc = call[c].arc => call[c].arc \in raced'
<1>1. Prof!Idle \in CallState /\ Prof!Idle.pc = "idle"
    BY DEF Prof!Idle, Prof!None, CallState, Pcs
<1>2. call' = [call EXCEPT ![c] = Prof!Idle] /\ calls' = [calls EXCEPT ![call[c].arc] = @ + 1]
    BY DEF Prof!Ends
<1>3. call \in [Prof!Contexts -> CallState] /\ calls \in [Prof!Arcs -> Int]
    BY DEF RecordInv, Records
<1>4. /\ raced \subseteq raced'
      /\ c = "handler" /\ call["program"].pc = "store"
                /\ call["program"].arc = call[c].arc => call[c].arc \in raced'
    BY DEF Prof!Ends
<1> QED BY <1>1, <1>2, <1>3, <1>4

LEMMA StoreKept ==
    ASSUME RecordInv, NEW c \in Prof!Contexts, Prof!Store(c) PROVE RecordInv'
<1> DEFINE spot == call[c].at
           x == call[c].arc
<1>1. /\ call[c].pc = "store" /\ x \in Prof!Arcs /\ spot \in Of(x)
      /\ x \notin raced => call[c].count = arc[spot].count
      /\ c = "program" => call["handler"].pc = "idle"
    BY ContextIs DEF Prof!Store, Prof!At, Prof!Runs, Found
<1>2. /\ arc' = [arc EXCEPT ![spot].count = call[c].count + 1] /\ Prof!Ends(c)
      /\ UNCHANGED <<head, entry, slab_ptr, slab_size, brk, others>>
    BY DEF Prof!Store, Prof!memory
<1>3. /\ spot \in DOMAIN arc /\ call[c].count \in Int
      /\ \A a \in DOMAIN arc : arc[a] \in [from_pc : Callers, count : Int]
      /\ arc = [a \in DOMAIN arc |-> arc[a]] /\ IsFiniteSet(DOMAIN arc)
    BY <1>1, ContextIs DEF RecordInv, Records, Of, CallState
<1>4. /\ DOMAIN arc' = DOMAIN arc
      /\ arc'[spot].count = call[c].count + 1 /\ arc'[spot].from_pc = arc[spot].from_pc
      /\ arc'[spot] \in [from_pc : Callers, count : Int]
      /\ \A a \in DOMAIN arc : a # spot => arc'[a] = arc[a]
      /\ arc' = [a \in DOMAIN arc' |-> arc'[a]]
  <2> DEFINE r == [arc[spot] EXCEPT !.count = call[c].count + 1]
  <2>1. arc' = [arc EXCEPT ![spot] = r]
      BY <1>2
  <2>2. call[c].count + 1 \in Int
      BY <1>3
  <2>3. /\ r.count = call[c].count + 1 /\ r.from_pc = arc[spot].from_pc
        /\ r \in [from_pc : Callers, count : Int]
    <3>1. arc[spot] \in [from_pc : Callers, count : Int]
        BY <1>3
    <3> QED BY <2>2, <3>1
  <2> HIDE DEF spot, x, r
  <2>4. DOMAIN arc' = DOMAIN arc /\ arc' = [a \in DOMAIN arc' |-> arc'[a]]
      BY <2>1
  <2>5. arc'[spot] = r /\ \A a \in DOMAIN arc : a # spot => arc'[a] = arc[a]
      BY <1>3, <2>1
  <2> QED BY <2>3, <2>4, <2>5
<1> HIDE DEF spot, x
<1>5. \A y : Of(y)' = Of(y)
    BY <1>2, <1>4 DEF Of
<1>6. Records'
    BY <1>1, <1>2, <1>3, <1>4, EndsIs DEF RecordInv, Records, x
<1>7. Listed' /\ Apart'
    BY <1>2, <1>4 DEF RecordInv, Listed, Apart
<1>8. \A y \in Prof!Arcs : y # x => spot \notin Of(y)
    BY <1>1, OfOne
<1>9. ASSUME NEW y \in Prof!Arcs, y \notin raced' PROVE calls'[y] = Total(arc', Of(y)')
  <2>1. y \notin raced /\ calls[y] = Total(arc, Of(y))
      BY <1>1, <1>2, <1>9, EndsIs DEF RecordInv, ArcsCounted, x
  <2>2. IsFiniteSet(Of(y)) /\ \A a \in Of(y) : a \in DOMAIN arc
      BY <1>3, FS_Subset DEF Of
  <2>3. Of(y)' = Of(y)
      BY <1>5
  <2>4. CASE y = x
    <3>1. arc'[spot].count = arc[spot].count + 1 /\ spot \in Of(y)
        BY <1>1, <1>4, <2>1, <2>4
    <3>2. /\ \A a \in Of(y) : arc[a].count \in Int
          /\ \A a \in Of(y) \ {spot} : arc'[a].count = arc[a].count
        BY <1>3, <1>4, <2>2
    <3>3. Total(arc', Of(y)) = Total(arc, Of(y)) + 1
        BY <2>2, <3>1, <3>2, TotalCounted
    <3>4. calls'[y] = calls[y] + 1
        BY <1>1, <1>2, <2>4, EndsIs DEF x
    <3> QED BY <2>1, <2>3, <3>3, <3>4
  <2>5. CASE y # x
    <3>1. \A a \in Of(y) : arc[a].count = arc'[a].count
        BY <1>4, <1>8, <2>2, <2>5
    <3>2. Total(arc', Of(y)) = Total(arc, Of(y))
        BY <2>2, <3>1, TotalSame
    <3>3. calls'[y] = calls[y]
        BY <1>1, <1>2, <2>5, EndsIs DEF x
    <3> QED BY <2>1, <2>3, <3>2, <3>3
  <2> QED BY <2>4, <2>5
<1>10. ArcsCounted'
    BY <1>9 DEF ArcsCounted
<1>11. ASSUME NEW d \in Prof!Contexts PROVE Found(d)'
  <2>1. CASE d = c
    <3>1. call'[c].pc = "idle"
        BY <1>1, <1>2, EndsIs DEF x
    <3> QED BY <2>1, <3>1 DEF Found
  <2>2. CASE d # c
    <3>1. call'[d] = call[d]
        BY <1>1, <1>2, <2>2, EndsIs DEF x
    <3>2. CASE c = "program"
      <4>1. d = "handler"
          BY <2>2, <3>2 DEF Prof!Contexts
      <4> QED BY <1>1, <3>1, <3>2, <4>1 DEF Found
    <3>3. CASE c = "handler"
      <4>1. d = "program"
          BY <2>2, <3>3 DEF Prof!Contexts
      <4>2. Found(d)
          BY ContextIs
      <4>3. ASSUME call[d].pc = "store", call[d].arc \notin raced'
            PROVE  call[d].count = arc'[call[d].at].count
        <5>1. call[d].arc # x /\ call[d].arc \notin raced
            BY <1>1, <1>2, <3>3, <4>1, <4>3, EndsIs DEF x
        <5>2. call[d].arc \in Prof!Arcs /\ call[d].at \in Of(call[d].arc)
              /\ call[d].count = arc[call[d].at].count
            BY <4>2, <4>3, <5>1 DEF Found
        <5>3. call[d].at # spot /\ call[d].at \in DOMAIN arc
            BY <1>8, <5>1, <5>2 DEF Of
        <5> QED BY <1>4, <5>2, <5>3
      <4>4. IsEntry(d)' = IsEntry(d)
          BY <1>2, <3>1 DEF IsEntry
      <4> QED BY <1>5, <3>1, <4>2, <4>3, <4>4 DEF Found
    <3> QED BY <3>2, <3>3 DEF Prof!Contexts
  <2> QED BY <2>1, <2>2
<1> QED BY <1>6, <1>7, <1>10, <1>11 DEF RecordInv

\* A list with one more before it.
LEMMA Prefixed ==
    ASSUME NEW s, Distinct(s), NEW a \in Nat, ~Has(s, a)
    PROVE  /\ Distinct(<<a>> \o s)
           /\ \A x : Has(<<a>> \o s, x) <=> x = a \/ Has(s, x)
<1>1. Len(<<a>>) = 1 /\ <<a>>[1] = a /\ <<a>> \in Seq(Nat)
    OBVIOUS
<1>2. Distinct(<<a>>) /\ \A x : Has(<<a>>, x) <=> x = a
    BY <1>1 DEF Distinct, Has
<1>3. \A x : ~(Has(<<a>>, x) /\ Has(s, x))
    BY <1>2
<1>4. /\ Distinct(<<a>> \o s)
      /\ \A x : Has(<<a>> \o s, x) <=> Has(<<a>>, x) \/ Has(s, x)
    BY <1>2, <1>3, Joined
<1> QED BY <1>2, <1>4

\* What __mcount_record does: the entry e of the function, new or found, gets the new
\* record a before the arcs it has.
ArcsOf(e) == IF e \in DOMAIN entry THEN entry[e].arcs ELSE <<>>

Recorded(x, e, a) ==
    /\ a # e
    /\ e \in DOMAIN entry => entry[e].self_pc = x[1]
    /\ e \notin DOMAIN arc \cup others
    /\ a \notin DOMAIN entry \cup DOMAIN arc \cup others
    /\ head' = IF e \in DOMAIN entry THEN head ELSE <<e>> \o head
    /\ DOMAIN entry' = DOMAIN entry \cup {e}
    /\ entry' = [d \in DOMAIN entry' |-> entry'[d]]
    /\ entry'[e] = [self_pc |-> x[1], arcs |-> <<a>> \o ArcsOf(e)]
    /\ \A d \in DOMAIN entry : d # e => entry'[d] = entry[d]
    /\ DOMAIN arc' = DOMAIN arc \cup {a}
    /\ arc' = [b \in DOMAIN arc' |-> arc'[b]]
    /\ arc'[a] = [from_pc |-> x[2], count |-> 1]
    /\ \A b \in DOMAIN arc : arc'[b] = arc[b]
    /\ Roomy((DOMAIN entry \cup {e}) \cup (DOMAIN arc \cup {a}) \cup others,
             slab_ptr', slab_size', brk')

LEMMA RecordIs ==
    ASSUME Prof!ProfilerAssumption, RecordInv, NEW c \in Prof!Contexts, Prof!Record(c)
    PROVE  call[c].arc \in Prof!Arcs /\ \E e, a \in Nat : Recorded(call[c].arc, e, a)
<1> DEFINE new == call[c].entry = Prof!None
           used == DOMAIN entry \cup DOMAIN arc \cup others
           first == IF new THEN Prof!Allocated(slab_ptr, slab_size, brk)
                           ELSE [at |-> call[c].entry, ptr |-> slab_ptr,
                                 size |-> slab_size, brk |-> brk]
           e == first.at
           second == Prof!Allocated(first.ptr, first.size, first.brk)
           a == second.at
           x == call[c].arc
           blank == [self_pc |-> x[1], arcs |-> <<>>]
           entries == IF new THEN Prof!Add(entry, e, blank) ELSE entry
<1>1. call[c].pc = "record" /\ x \in Prof!Arcs /\ (new \/ IsEntry(c))
    BY ContextIs DEF Prof!Record, Prof!At, Found
<1>2. /\ Roomy(used, slab_ptr, slab_size, brk) /\ used \subseteq Nat
      /\ DOMAIN entry \cap DOMAIN arc = {} /\ others \cap (DOMAIN entry \cup DOMAIN arc) = {}
    BY DEF RecordInv, Apart, Roomy
<1>3. /\ head' = IF new THEN <<e>> \o head ELSE head
      /\ entry' = [entries EXCEPT ![e].arcs = <<a>> \o @]
      /\ arc' = Prof!Add(arc, a, [from_pc |-> x[2], count |-> 1])
      /\ slab_ptr' = second.ptr /\ slab_size' = second.size /\ brk' = second.brk
    BY DEF Prof!Record
<1>4. /\ e \in Nat /\ Roomy(used \cup {e}, first.ptr, first.size, first.brk)
      /\ IF new THEN e \notin used ELSE e = call[c].entry
  <2>1. CASE new
      BY <1>2, <2>1, Allocation
  <2>2. CASE ~new
    <3>1. e = call[c].entry /\ e \in DOMAIN entry
        BY <1>1, <2>2 DEF IsEntry
    <3>2. used \cup {e} = used /\ first.ptr = slab_ptr /\ first.size = slab_size /\ first.brk = brk
        BY <2>2, <3>1
    <3> QED BY <1>2, <2>2, <3>1, <3>2
  <2> QED BY <2>1, <2>2
<1> HIDE DEF e, first
<1>5. a \in Nat /\ a \notin used \cup {e} /\ Roomy((used \cup {e}) \cup {a}, second.ptr, second.size, second.brk)
    BY <1>4, Allocation
<1> HIDE DEF a, second
<1>6. e \in DOMAIN entry <=> ~new
    BY <1>1, <1>4 DEF IsEntry
<1>7. e \in DOMAIN entry => entry[e].self_pc = x[1]
    BY <1>1, <1>4, <1>6 DEF IsEntry
<1>8. e \notin DOMAIN arc \cup others /\ a \notin DOMAIN entry \cup DOMAIN arc \cup others /\ a # e
    BY <1>2, <1>4, <1>5, <1>6
<1>9. Roomy((DOMAIN entry \cup {e}) \cup (DOMAIN arc \cup {a}) \cup others, slab_ptr', slab_size', brk')
  <2>1. (DOMAIN entry \cup {e}) \cup (DOMAIN arc \cup {a}) \cup others = (used \cup {e}) \cup {a}
      OBVIOUS
  <2> QED BY <1>3, <1>5, <2>1
<1>10. /\ DOMAIN arc' = DOMAIN arc \cup {a} /\ arc' = [b \in DOMAIN arc' |-> arc'[b]]
       /\ arc'[a] = [from_pc |-> x[2], count |-> 1]
       /\ \A b \in DOMAIN arc : arc'[b] = arc[b]
    BY <1>3, <1>8 DEF Prof!Add
<1>11. /\ DOMAIN entries = DOMAIN entry \cup {e}
       /\ entries[e] = [self_pc |-> x[1], arcs |-> ArcsOf(e)]
       /\ \A d \in DOMAIN entry : d # e => entries[d] = entry[d]
  <2>1. CASE new
      BY <1>6, <2>1 DEF Prof!Add, ArcsOf
  <2>2. CASE ~new
    <3>1. entries = entry /\ e \in DOMAIN entry /\ entry[e].self_pc = x[1]
        BY <1>6, <1>7, <2>2
    <3>2. entry[e] = [self_pc |-> entry[e].self_pc, arcs |-> entry[e].arcs]
        BY <3>1 DEF RecordInv, Records
    <3> QED BY <3>1, <3>2 DEF ArcsOf
  <2> QED BY <2>1, <2>2
<1> HIDE DEF entries
<1>12. /\ DOMAIN entry' = DOMAIN entry \cup {e}
       /\ entry' = [d \in DOMAIN entry' |-> entry'[d]]
       /\ entry'[e] = [self_pc |-> x[1], arcs |-> <<a>> \o ArcsOf(e)]
       /\ \A d \in DOMAIN entry : d # e => entry'[d] = entry[d]
  <2> DEFINE q == <<a>> \o ArcsOf(e)
             r == [self_pc |-> x[1], arcs |-> q]
  <2>1. entries[e].arcs = ArcsOf(e)
      BY <1>11
  <2>2. entry' = [entries EXCEPT ![e] = [entries[e] EXCEPT !.arcs = q]]
      BY <1>3, <2>1
  <2> HIDE DEF q
  <2>3. [entries[e] EXCEPT !.arcs = q] = r
    <3> HIDE DEF x
    <3>1. \A y : [[self_pc |-> x[1], arcs |-> y] EXCEPT !.arcs = q] = r
        OBVIOUS
    <3> QED BY <1>11, <3>1
  <2> HIDE DEF r
  <2>4. entry' = [entries EXCEPT ![e] = r]
      BY <2>2, <2>3
  <2>5. entry'[e] = r /\ DOMAIN entry' = DOMAIN entries /\ entry' = [d \in DOMAIN entry' |-> entry'[d]]
        /\ \A d \in DOMAIN entries : d # e => entry'[d] = entries[d]
      BY <1>11, <2>4
  <2> QED BY <1>11, <2>5 DEF q, r
<1>13. head' = IF e \in DOMAIN entry THEN head ELSE <<e>> \o head
    BY <1>3, <1>6
<1>14. Recorded(x, e, a)
    BY <1>7, <1>8, <1>9, <1>10, <1>12, <1>13 DEF Recorded
<1>15. x \in Prof!Arcs /\ e \in Nat /\ a \in Nat
    BY <1>1, <1>4, <1>5
<1>16. \E d, b \in Nat : Recorded(x, d, b)
  <2> HIDE DEF x
  <2> QED BY <1>14, <1>15
<1> QED BY <1>15, <1>16

LEMMA RecordKept ==
    ASSUME Prof!ProfilerAssumption, RecordInv, NEW c \in Prof!Contexts, Prof!Record(c)
    PROVE  RecordInv'
<1> DEFINE x == call[c].arc
<1>1. x \in Prof!Arcs /\ \E e, a \in Nat : Recorded(x, e, a)
    BY RecordIs
<1>2. /\ Prof!Ends(c) /\ UNCHANGED others /\ call[c].pc = "record"
      /\ c = "program" => call["handler"].pc = "idle"
    BY DEF Prof!Record, Prof!At, Prof!Runs
<1> HIDE DEF x
<1>3. PICK e \in Nat, a \in Nat : Recorded(x, e, a)
    BY <1>1
<1>4. x \in Functions \X Callers /\ x[1] \in Functions /\ x[2] \in Callers
    BY <1>1 DEF Prof!Arcs
<1>5. /\ e \notin DOMAIN arc \cup others /\ a # e
      /\ a \notin DOMAIN entry \cup DOMAIN arc \cup others
      /\ DOMAIN entry' = DOMAIN entry \cup {e} /\ DOMAIN arc' = DOMAIN arc \cup {a}
    BY <1>3 DEF Recorded
<1>6. /\ entry'[e].self_pc = x[1] /\ entry'[e].arcs = <<a>> \o ArcsOf(e)
      /\ \A d \in DOMAIN entry : entry'[d].self_pc = entry[d].self_pc
      /\ \A d \in DOMAIN entry : d # e => entry'[d] = entry[d]
    BY <1>3 DEF Recorded
<1>7. /\ Distinct(head) /\ \A b : Has(head, b) <=> b \in DOMAIN entry
      /\ \A d \in DOMAIN entry : Distinct(entry[d].arcs)
      /\ \A d \in DOMAIN entry : \A b : Has(entry[d].arcs, b) => b \in DOMAIN arc
      /\ \A b \in DOMAIN arc : \E d \in DOMAIN entry : Has(entry[d].arcs, b)
      /\ \A d, f \in DOMAIN entry : \A b : Has(entry[d].arcs, b) /\ Has(entry[f].arcs, b) => d = f
    BY DEF RecordInv, Listed
<1>8. \A d \in DOMAIN entry' :
          /\ Distinct(entry'[d].arcs)
          /\ \A b : Has(entry'[d].arcs, b) <=>
                    (d = e /\ b = a) \/ (d \in DOMAIN entry /\ Has(entry[d].arcs, b))
  <2>1. Distinct(<<>>) /\ \A b : ~Has(<<>>, b)
      BY DEF Distinct, Has
  <2>2. Distinct(ArcsOf(e)) /\ \A b : Has(ArcsOf(e), b) <=> e \in DOMAIN entry /\ Has(entry[e].arcs, b)
      BY <1>7, <2>1 DEF ArcsOf
  <2>3. ~Has(ArcsOf(e), a)
      BY <1>5, <1>7, <2>2
  <2>4. /\ Distinct(<<a>> \o ArcsOf(e))
        /\ \A b : Has(<<a>> \o ArcsOf(e), b) <=> b = a \/ Has(ArcsOf(e), b)
      BY <2>2, <2>3, Prefixed
  <2>5. Distinct(entry'[e].arcs) /\ \A b : Has(entry'[e].arcs, b) <=> b = a \/ Has(ArcsOf(e), b)
      BY <1>6, <2>4
  <2>6. \A d \in DOMAIN entry : d # e => entry'[d] = entry[d]
      BY <1>6
  <2> QED BY <1>5, <1>7, <2>2, <2>5, <2>6
<1>9. \A b \in DOMAIN arc : arc'[b] = arc[b]
    BY <1>3 DEF Recorded
<1>10. arc'[a] \in [from_pc : Callers, count : Int] /\ arc'[a].count = 1 /\ arc'[a].from_pc = x[2]
    BY <1>3, <1>4 DEF Recorded
<1>11. ASSUME NEW y \in Prof!Arcs PROVE Of(y)' = IF y = x THEN Of(y) \cup {a} ELSE Of(y)
  <2>1. ASSUME NEW b \in DOMAIN arc PROVE b \in Of(y)' <=> b \in Of(y)
      BY <1>5, <1>6, <1>8, <1>9 DEF Of
  <2>2. a \in Of(y)' <=> y = x
    <3>1. y = <<y[1], y[2]>> /\ x = <<x[1], x[2]>>
        BY <1>4 DEF Prof!Arcs
    <3>2. \A d \in DOMAIN entry' : Has(entry'[d].arcs, a) <=> d = e
        BY <1>5, <1>7, <1>8
    <3>3. a \in Of(y)' <=> x[2] = y[2] /\ x[1] = y[1]
        BY <1>5, <1>6, <1>10, <3>2 DEF Of
    <3> QED BY <3>1, <3>3
  <2>3. Of(y)' \subseteq DOMAIN arc \cup {a} /\ Of(y) \subseteq DOMAIN arc
      BY <1>5 DEF Of
  <2> QED BY <1>5, <2>1, <2>2, <2>3
<1>12. /\ call' \in [Prof!Contexts -> CallState] /\ call'[c].pc = "idle"
       /\ \A d \in Prof!Contexts \ {c} : call'[d] = call[d]
       /\ calls' \in [Prof!Arcs -> Int]
       /\ \A y \in Prof!Arcs : calls'[y] = IF y = x THEN calls[y] + 1 ELSE calls[y]
       /\ raced \subseteq raced'
    BY <1>1, <1>2, EndsIs DEF x
<1>13. Records'
  <2>1. DOMAIN entry' \subseteq Nat /\ DOMAIN arc' \subseteq Nat /\ IsFiniteSet(DOMAIN arc')
      BY <1>5, FS_AddElement DEF RecordInv, Records
  <2>2. entry' = [d \in DOMAIN entry' |-> entry'[d]] /\ arc' = [b \in DOMAIN arc' |-> arc'[b]]
      BY <1>3 DEF Recorded
  <2>3. \A b \in DOMAIN arc' : arc'[b] \in [from_pc : Callers, count : Int]
      BY <1>5, <1>9, <1>10 DEF RecordInv, Records
  <2>4. ASSUME NEW d \in DOMAIN entry'
        PROVE  entry'[d] = [self_pc |-> entry'[d].self_pc, arcs |-> entry'[d].arcs]
               /\ entry'[d].self_pc \in Functions
    <3>1. CASE d = e
      <4>1. entry'[e] = [self_pc |-> x[1], arcs |-> <<a>> \o ArcsOf(e)]
          BY <1>3 DEF Recorded
      <4> QED BY <1>4, <3>1, <4>1
    <3>2. CASE d # e
      <4>1. d \in DOMAIN entry /\ entry'[d] = entry[d]
          BY <1>5, <1>6, <3>2
      <4> QED BY <4>1 DEF RecordInv, Records
    <3> QED BY <3>1, <3>2
  <2> QED BY <1>12, <2>1, <2>2, <2>3, <2>4 DEF Records
<1>14. Listed'
  <2>1. Distinct(head') /\ \A b : Has(head', b) <=> b \in DOMAIN entry'
    <3>1. CASE e \in DOMAIN entry
      <4>1. head' = head /\ DOMAIN entry' = DOMAIN entry
          BY <1>3, <1>5, <3>1 DEF Recorded
      <4> QED BY <1>7, <4>1
    <3>2. CASE e \notin DOMAIN entry
      <4>1. head' = <<e>> \o head
          BY <1>3, <3>2 DEF Recorded
      <4>2. /\ Distinct(<<e>> \o head)
            /\ \A b : Has(<<e>> \o head, b) <=> b = e \/ Has(head, b)
          BY <1>7, <3>2, Prefixed
      <4> QED BY <1>5, <1>7, <4>1, <4>2
    <3> QED BY <3>1, <3>2
  <2>2. \A d \in DOMAIN entry' : Distinct(entry'[d].arcs)
                                 /\ \A b : Has(entry'[d].arcs, b) => b \in DOMAIN arc'
      BY <1>5, <1>7, <1>8
  <2>3. \A b \in DOMAIN arc' : \E d \in DOMAIN entry' : Has(entry'[d].arcs, b)
      BY <1>5, <1>7, <1>8
  <2>4. \A d, f \in DOMAIN entry' : \A b : Has(entry'[d].arcs, b) /\ Has(entry'[f].arcs, b) => d = f
    <3> SUFFICES ASSUME NEW d \in DOMAIN entry', NEW f \in DOMAIN entry', NEW b,
                        Has(entry'[d].arcs, b), Has(entry'[f].arcs, b)
                 PROVE  d = f
        OBVIOUS
    <3>1. /\ (d = e /\ b = a) \/ (d \in DOMAIN entry /\ Has(entry[d].arcs, b))
          /\ (f = e /\ b = a) \/ (f \in DOMAIN entry /\ Has(entry[f].arcs, b))
        BY <1>8
    <3>2. CASE b = a
      <4>1. \A g \in DOMAIN entry : ~Has(entry[g].arcs, b)
          BY <1>5, <1>7, <3>2
      <4> QED BY <3>1, <4>1
    <3>3. CASE b # a
        BY <1>7, <3>1, <3>3
    <3> QED BY <3>2, <3>3
  <2> QED BY <2>1, <2>2, <2>3, <2>4 DEF Listed
<1>15. Apart'
  <2>1. Roomy((DOMAIN entry \cup {e}) \cup (DOMAIN arc \cup {a}) \cup others,
              slab_ptr', slab_size', brk')
      BY <1>3 DEF Recorded
  <2>2. DOMAIN entry \cap DOMAIN arc = {} /\ others \cap (DOMAIN entry \cup DOMAIN arc) = {}
      BY DEF RecordInv, Apart
  <2>3. Roomy(DOMAIN entry' \cup DOMAIN arc' \cup others', slab_ptr', slab_size', brk')
      BY <1>2, <1>5, <2>1
  <2>4. DOMAIN entry' \cap DOMAIN arc' = {} /\ others' \cap (DOMAIN entry' \cup DOMAIN arc') = {}
      BY <1>2, <1>5, <2>2
  <2> QED BY <2>3, <2>4 DEF Apart, Roomy
<1>16. ASSUME NEW y \in Prof!Arcs, y \notin raced' PROVE calls'[y] = Total(arc', Of(y)')
  <2>1. y \notin raced /\ calls[y] = Total(arc, Of(y))
      BY <1>12, <1>16 DEF RecordInv, ArcsCounted
  <2>2. IsFiniteSet(Of(y)) /\ \A b \in Of(y) : b \in DOMAIN arc
      BY FS_Subset DEF Of, RecordInv, Records
  <2>3. \A b \in Of(y) : arc[b].count \in Int /\ arc'[b].count = arc[b].count
      BY <1>9, <2>2 DEF RecordInv, Records
  <2>4. CASE y = x
    <3>1. a \notin Of(y)
        BY <1>5, <2>2
    <3>2. Total(arc', Of(y) \cup {a}) = Total(arc, Of(y)) + 1
        BY <1>10, <2>2, <2>3, <3>1, TotalWith
    <3> QED BY <1>11, <1>12, <2>1, <2>4, <3>2
  <2>5. CASE y # x
    <3>1. Total(arc', Of(y)) = Total(arc, Of(y))
        BY <2>2, <2>3, TotalSame
    <3> QED BY <1>11, <1>12, <2>1, <2>5, <3>1
  <2> QED BY <2>4, <2>5
<1>17. ASSUME NEW d \in Prof!Contexts PROVE Found(d)'
  <2>1. CASE d = c
      BY <1>12, <2>1 DEF Found
  <2>2. CASE d # c
    <3>1. call'[d] = call[d] /\ Found(d)
        BY <1>12, <2>2, ContextIs
    <3>2. IsEntry(d) => IsEntry(d)'
        BY <1>5, <1>6, <3>1 DEF IsEntry
    <3>3. ASSUME call[d].arc \in Prof!Arcs, call[d].at \in Of(call[d].arc)
          PROVE  call[d].at \in Of(call[d].arc)' /\ arc'[call[d].at] = arc[call[d].at]
      <4>1. call[d].at \in DOMAIN arc
          BY <3>3 DEF Of
      <4>2. \A y \in Prof!Arcs : Of(y) \subseteq Of(y)'
          BY <1>11
      <4> QED BY <1>9, <3>1, <3>3, <4>1, <4>2
    <3> QED BY <1>12, <3>1, <3>2, <3>3 DEF Found
  <2> QED BY <2>1, <2>2
<1> QED BY <1>13, <1>14, <1>15, <1>16, <1>17 DEF RecordInv, ArcsCounted

-----------------------------------------------------------------------------
(* The profiler: the sampler                                             *)

Starting(c) == call[c].pc \in {"clear", "init", "answer"}

\* As long as no interrupt fell between question and answer, one call at most is about to
\* start the sampler, and the sampler is not started while it is still to be.
Once ==
    /\ starts <= 1
    /\ pcsample_need_init = 1 => starts = 0
    /\ \A c \in Prof!Contexts :
           /\ call[c].pc = "clear" => pcsample_need_init = 1
           /\ call[c].pc = "init" => starts = 0 /\ pcsample_need_init = 0
           /\ call[c].pc = "answer" => pcsample_need_init = 0 /\ (call[c].count = 1 => starts = 0)
    /\ ~(Starting("program") /\ Starting("handler"))

SampleInv ==
    /\ tick_rate \in {0, 1} /\ pcsample_need_init \in {0, 1} /\ starts \in Nat
    /\ \A b \in hits : \E p \in 0 .. TextBytes - 1 : b = p \div BucketBytes
    /\ \A c \in Prof!Contexts : call[c].pc = "answer" => call[c].count \in {0, 1}
    /\ torn \/ Once

LEMMA SampleInit == Prof!Init => SampleInv
<1> SUFFICES ASSUME Prof!Init PROVE SampleInv
    OBVIOUS
<1>1. \A c \in Prof!Contexts : call[c].pc = "idle"
    BY DEF Prof!Init, Prof!Idle
<1>2. "program" \in Prof!Contexts
    BY DEF Prof!Contexts
<1> QED BY <1>1, <1>2 DEF Prof!Init, SampleInv, Once, Starting

\* A call that does not come to start the sampler.
LEMMA SampleSame ==
    ASSUME SampleInv, UNCHANGED <<tick_rate, pcsample_need_init, starts, hits, torn>>,
           \A c \in Prof!Contexts : Starting(c)' => call'[c] = call[c]
    PROVE  SampleInv'
<1>1. \A c \in Prof!Contexts :
          call'[c].pc \in {"clear", "init", "answer"} => call'[c] = call[c]
    BY DEF Starting
<1>2. "program" \in Prof!Contexts /\ "handler" \in Prof!Contexts
    BY DEF Prof!Contexts
<1>3. Once => Once'
    BY <1>1, <1>2 DEF Once, Starting
<1> QED BY <1>1, <1>3 DEF SampleInv

\* The steps that leave the sampler alone.
LEMMA ElsewhereKept ==
    ASSUME RecordInv, SampleInv, NEW c \in Prof!Contexts,
           \/ \E x \in Prof!Arcs : Prof!Enter(c, x)
           \/ Prof!FindFunction(c) \/ Prof!FindArc(c) \/ Prof!Load(c)
           \/ Prof!Store(c) \/ Prof!Record(c)
    PROVE  SampleInv'
<1>1. UNCHANGED <<tick_rate, pcsample_need_init, starts, hits, torn>>
    BY DEF Prof!Enter, Prof!FindFunction, Prof!FindArc, Prof!Load, Prof!Store, Prof!Record, Prof!sampler
<1>2. PICK k : call' = [call EXCEPT ![c] = k]
               /\ k.pc \in {"idle", "fn", "arc", "load", "store", "ask"}
  <2>1. call[c] \in CallState
      BY ContextIs
  <2>2. CASE \E x \in Prof!Arcs : Prof!Enter(c, x)
    <3>1. PICK x \in Prof!Arcs : Prof!Enter(c, x)
        BY <2>2
    <3> DEFINE k == [Prof!Idle EXCEPT !.pc = "fn", !.arc = x]
    <3>2. call' = [call EXCEPT ![c] = k]
        BY <3>1 DEF Prof!Enter
    <3>3. k.pc = "fn"
        BY DEF Prof!Idle
    <3> HIDE DEF k
    <3> QED BY <3>2, <3>3
  <2>3. CASE Prof!FindFunction(c)
    <3>1. PICK e : call' = [call EXCEPT ![c].entry = e, ![c].pc = IF e = Prof!None THEN "ask" ELSE "arc"]
        BY <2>3 DEF Prof!FindFunction
    <3> DEFINE k == [call[c] EXCEPT !.entry = e, !.pc = IF e = Prof!None THEN "ask" ELSE "arc"]
    <3>2. call' = [call EXCEPT ![c] = k]
        BY <3>1, ContextIs
    <3>3. k.pc \in {"ask", "arc"}
        BY <2>1 DEF CallState
    <3> HIDE DEF k
    <3> QED BY <3>2, <3>3
  <2>4. CASE Prof!FindArc(c)
    <3>1. PICK a : call' = [call EXCEPT ![c].at = a, ![c].pc = IF a = Prof!None THEN "ask" ELSE "load"]
        BY <2>4 DEF Prof!FindArc
    <3> DEFINE k == [call[c] EXCEPT !.at = a, !.pc = IF a = Prof!None THEN "ask" ELSE "load"]
    <3>2. call' = [call EXCEPT ![c] = k]
        BY <3>1, ContextIs
    <3>3. k.pc \in {"ask", "load"}
        BY <2>1 DEF CallState
    <3> HIDE DEF k
    <3> QED BY <3>2, <3>3
  <2>5. CASE Prof!Load(c)
    <3> DEFINE k == [call[c] EXCEPT !.pc = "store", !.count = arc[call[c].at].count]
    <3>2. call' = [call EXCEPT ![c] = k]
        BY <2>5, ContextIs DEF Prof!Load
    <3>3. k.pc = "store"
        BY <2>1 DEF CallState
    <3> HIDE DEF k
    <3> QED BY <3>2, <3>3
  <2>6. CASE Prof!Store(c) \/ Prof!Record(c)
    <3>1. call' = [call EXCEPT ![c] = Prof!Idle]
        BY <2>6 DEF Prof!Store, Prof!Record, Prof!Ends
    <3>2. Prof!Idle.pc = "idle"
        BY DEF Prof!Idle
    <3> QED BY <3>1, <3>2
  <2> QED BY <2>2, <2>3, <2>4, <2>5, <2>6
<1>3. ASSUME NEW d \in Prof!Contexts, Starting(d)' PROVE call'[d] = call[d]
  <2>1. CASE d = c
    <3>1. call'[c] = k
        BY <1>2, ContextIs
    <3> QED BY <1>2, <1>3, <2>1, <3>1 DEF Starting
  <2>2. CASE d # c
      BY <1>2, <2>2, ContextIs
  <2> QED BY <2>1, <2>2
<1> QED BY <1>1, <1>3, SampleSame

\* Question and answer.
LEMMA StartingKept ==
    ASSUME RecordInv, SampleInv, NEW c \in Prof!Contexts,
           Prof!Ask(c) \/ Prof!Clear(c) \/ Prof!nios2_pcsample_init(c) \/ Prof!Answer(c)
    PROVE  SampleInv'
<1> DEFINE k == call'[c]
<1>1. call[c] \in CallState /\ DOMAIN call = Prof!Contexts
    BY ContextIs
<1>2. \A d \in Prof!Contexts : d # c => call'[d] = call[d]
    BY <1>1 DEF Prof!Ask, Prof!Clear, Prof!nios2_pcsample_init, Prof!Answer, Prof!Goes
<1>3. /\ c \in {"program", "handler"} /\ {"program", "handler"} = Prof!Contexts
      /\ c = "program" => call["handler"].pc = "idle"
    BY DEF Prof!Contexts, Prof!Ask, Prof!Clear, Prof!nios2_pcsample_init, Prof!Answer, Prof!At, Prof!Runs
<1>4. UNCHANGED <<tick_rate, hits>> /\ tick_rate \in {0, 1}
    BY DEF Prof!Ask, Prof!Clear, Prof!nios2_pcsample_init, Prof!Answer, Prof!sampler, SampleInv
<1>5. /\ pcsample_need_init \in {0, 1} /\ starts \in Nat
      /\ \A d \in Prof!Contexts : call[d].pc = "answer" => call[d].count \in {0, 1}
      /\ \A b \in hits : \E p \in 0 .. TextBytes - 1 : b = p \div BucketBytes
    BY DEF SampleInv
<1>6. CASE Prof!Ask(c)
  <2>1. /\ k.pc = IF pcsample_need_init = 1 THEN "clear" ELSE "record"
        /\ UNCHANGED <<pcsample_need_init, starts>>
        /\ torn' = (torn \/ (c = "handler" /\ call["program"].pc = "clear"))
      BY <1>1, <1>6 DEF Prof!Ask, Prof!Goes, Prof!sampler
  <2>2. torn' \/ Once'
    <3>1. CASE ~torn /\ ~(c = "handler" /\ call["program"].pc = "clear")
      <4>1. Once
          BY <3>1 DEF SampleInv
      <4> QED BY <1>2, <1>3, <2>1, <3>1, <4>1 DEF Once, Starting
    <3>2. CASE torn \/ (c = "handler" /\ call["program"].pc = "clear")
        BY <2>1, <3>2
    <3> QED BY <3>1, <3>2
  <2> QED BY <1>2, <1>4, <1>5, <2>1, <2>2 DEF SampleInv
<1>7. CASE Prof!Clear(c)
  <2>1. /\ call[c].pc = "clear" /\ k.pc = "init" /\ pcsample_need_init' = 0
        /\ UNCHANGED <<starts, torn>>
      BY <1>1, <1>7 DEF Prof!Clear, Prof!Goes, Prof!At
  <2>2. Once => Once'
      BY <1>2, <1>3, <2>1 DEF Once, Starting
  <2> QED BY <1>2, <1>4, <1>5, <2>1, <2>2 DEF SampleInv
<1>8. CASE Prof!nios2_pcsample_init(c)
  <2>1. /\ call[c].pc = "init" /\ starts' = starts + tick_rate
        /\ UNCHANGED <<pcsample_need_init, torn>>
      BY <1>8 DEF Prof!nios2_pcsample_init, Prof!At
  <2>2. call' = [call EXCEPT ![c] = [call[c] EXCEPT !.pc = "answer", !.count = 1 - tick_rate]]
      BY <1>1, <1>8 DEF Prof!nios2_pcsample_init
  <2>3. k.pc = "answer" /\ k.count = 1 - tick_rate
      BY <1>1, <2>2 DEF CallState
  <2>4. Once => Once'
      BY <1>2, <1>3, <1>4, <1>5, <2>1, <2>3 DEF Once, Starting
  <2> QED BY <1>2, <1>4, <1>5, <2>1, <2>3, <2>4 DEF SampleInv
<1>9. CASE Prof!Answer(c)
  <2>1. /\ call[c].pc = "answer" /\ k.pc = "record" /\ pcsample_need_init' = call[c].count
        /\ UNCHANGED <<starts, torn>>
      BY <1>1, <1>9 DEF Prof!Answer, Prof!Goes, Prof!At
  <2>2. Once => Once'
      BY <1>2, <1>3, <1>5, <2>1 DEF Once, Starting
  <2> QED BY <1>2, <1>4, <1>5, <2>1, <2>2 DEF SampleInv
<1> QED BY <1>6, <1>7, <1>8, <1>9

LEMMA SamplingKept ==
    ASSUME Prof!ProfilerAssumption, SampleInv,
           Prof!ClockStarts \/ Prof!Others \/ \E n \in 0 .. TextBytes : Prof!nios2_pcsample(n)
    PROVE  SampleInv'
<1>1. UNCHANGED <<call, pcsample_need_init, starts, torn>> /\ tick_rate' \in {0, 1}
    BY DEF Prof!ClockStarts, Prof!Others, Prof!nios2_pcsample, Prof!sampler, SampleInv
<1>2. \A b \in hits' : \E p \in 0 .. TextBytes - 1 : b = p \div BucketBytes
  <2>1. CASE hits' = hits
      BY <2>1 DEF SampleInv
  <2>2. CASE \E n \in 0 .. TextBytes : Prof!nios2_pcsample(n)
    <3>1. PICK n \in 0 .. TextBytes : n < TextBytes /\ hits' = hits \cup {n \div BucketBytes}
        BY <2>2 DEF Prof!nios2_pcsample
    <3>2. n \in 0 .. TextBytes - 1
        BY <3>1 DEF Prof!ProfilerAssumption
    <3> DEFINE bucket(p) == p \div BucketBytes
    <3>3. \A b \in hits : \E p \in 0 .. TextBytes - 1 : b = bucket(p)
        BY DEF SampleInv
    <3>4. hits' = hits \cup {bucket(n)}
        BY <3>1
    <3> HIDE DEF bucket
    <3>5. \A b \in hits' : \E p \in 0 .. TextBytes - 1 : b = bucket(p)
        BY <3>2, <3>3, <3>4
    <3> QED BY <3>5 DEF bucket
  <2> QED BY <2>1, <2>2 DEF Prof!ClockStarts, Prof!Others, Prof!sampler
<1>3. Once => Once'
    BY <1>1 DEF Once, Starting
<1> QED BY <1>1, <1>2, <1>3 DEF SampleInv

-----------------------------------------------------------------------------
(* The profiler: what follows                                            *)

ProfInv == RecordInv /\ SampleInv

LEMMA ProfInitial == Prof!ProfilerAssumption /\ Prof!Init => ProfInv
BY ProfInit, SampleInit DEF ProfInv

LEMMA ProfNext == Prof!ProfilerAssumption /\ ProfInv /\ Prof!Next => ProfInv'
<1> SUFFICES ASSUME Prof!ProfilerAssumption, RecordInv, SampleInv, Prof!Next PROVE RecordInv' /\ SampleInv'
    BY DEF ProfInv
<1>1. tick_rate \in Int
    BY DEF SampleInv
<1>2. ASSUME NEW c \in Prof!Contexts, NEW x \in Prof!Arcs, Prof!Enter(c, x)
      PROVE  RecordInv' /\ SampleInv'
    BY <1>2, EnterKept, ElsewhereKept
<1>3. ASSUME NEW c \in Prof!Contexts,
             Prof!FindFunction(c) \/ Prof!FindArc(c) \/ Prof!Load(c) \/ Prof!Store(c) \/ Prof!Record(c)
      PROVE  RecordInv' /\ SampleInv'
    BY <1>3, FindFunctionKept, FindArcKept, LoadKept, StoreKept, RecordKept, ElsewhereKept
<1>4. ASSUME NEW c \in Prof!Contexts,
             Prof!Ask(c) \/ Prof!Clear(c) \/ Prof!nios2_pcsample_init(c) \/ Prof!Answer(c)
      PROVE  RecordInv' /\ SampleInv'
    BY <1>1, <1>4, AskingKept, StartingKept
<1>5. CASE Prof!ClockStarts \/ Prof!Others \/ \E n \in 0 .. TextBytes : Prof!nios2_pcsample(n)
    BY <1>5, BesidesKept, SamplingKept
<1> QED BY <1>2, <1>3, <1>4, <1>5 DEF Prof!Next

LEMMA ProfUnchanged ==
    ASSUME ProfInv, UNCHANGED <<call, head, entry, arc, slab_ptr, slab_size, brk, others, tick_rate,
                                pcsample_need_init, starts, hits, calls, raced, torn>>
    PROVE  ProfInv'
<1>1. SampleInv'
    BY SampleSame DEF ProfInv
<1>2. Records' /\ Listed' /\ Apart' /\ ArcsCounted'
    BY DEF ProfInv, RecordInv, Records, Listed, Apart, ArcsCounted, Of
<1>3. \A c \in Prof!Contexts : Found(c)'
    BY DEF ProfInv, RecordInv, Found, IsEntry, Of
<1> QED BY <1>1, <1>2, <1>3 DEF ProfInv, RecordInv

LEMMA RangeIs ==
    ASSUME NEW s, Distinct(s)
    PROVE  (\A x : x \in Prof!Range(s) <=> Has(s, x)) /\ Prof!IsInjective(s)
BY DEF Distinct, Has, Prof!Range, Prof!IsInjective

\* The lists one after the other have every record once.
LEMMA ListsApart == ASSUME RecordInv PROVE Prof!RecordsApart
<1> DEFINE ss == [i \in DOMAIN head |-> entry[head[i]].arcs]
           listed == head \o Prof!FlattenSeq(ss)
<1>1. /\ Distinct(head) /\ \A x : Has(head, x) <=> x \in DOMAIN entry
      /\ \A e \in DOMAIN entry :
           /\ Distinct(entry[e].arcs)
           /\ \A a : Has(entry[e].arcs, a) => a \in DOMAIN arc
      /\ \A a \in DOMAIN arc : \E e \in DOMAIN entry : Has(entry[e].arcs, a)
      /\ \A d, e \in DOMAIN entry : \A a : Has(entry[d].arcs, a) /\ Has(entry[e].arcs, a) => d = e
    BY DEF RecordInv, Listed
<1>2. /\ head \in Seq(Nat) /\ DOMAIN head = 1 .. Len(head)
      /\ \A i \in 1 .. Len(head) : head[i] \in DOMAIN entry
    BY <1>1 DEF Distinct, Has
<1>3. /\ Len(ss) = Len(head) /\ Len(ss) \in Nat /\ (Len(ss) = 0 => ss = <<>>)
      /\ \A i \in 1 .. Len(ss) : ss[i] = entry[head[i]].arcs
  <2>1. \A i \in 1 .. Len(head) : entry[head[i]].arcs \in Seq(Nat)
      BY <1>1, <1>2 DEF Distinct
  <2>2. ss \in Seq(Seq(Nat)) /\ Len(ss) = Len(head)
      BY <1>2, <2>1
  <2>3. Len(ss) = 0 => ss = <<>>
      BY <2>2
  <2> QED BY <1>2, <2>2, <2>3
<1> HIDE DEF ss
<1>4. \A i \in 1 .. Len(ss) : Distinct(ss[i])
    BY <1>1, <1>2, <1>3
<1>5. \A i, j \in 1 .. Len(ss) : \A x : Has(ss[i], x) /\ Has(ss[j], x) => i = j
  <2> SUFFICES ASSUME NEW i \in 1 .. Len(ss), NEW j \in 1 .. Len(ss), NEW x,
                      Has(ss[i], x), Has(ss[j], x)
               PROVE  i = j
      OBVIOUS
  <2>1. head[i] \in DOMAIN entry /\ head[j] \in DOMAIN entry
      BY <1>2, <1>3
  <2>2. head[i] = head[j]
      BY <1>1, <1>3, <2>1
  <2> QED BY <1>1, <1>3, <2>2 DEF Distinct
<1>6. /\ Distinct(Prof!FlattenSeq(ss))
      /\ \A x : Has(Prof!FlattenSeq(ss), x) <=> \E i \in 1 .. Len(ss) : Has(ss[i], x)
    BY <1>3, <1>4, <1>5, FlattenDistinct
<1>7. \A x : Has(Prof!FlattenSeq(ss), x) <=> x \in DOMAIN arc
  <2>1. \A e \in DOMAIN entry : \E i \in 1 .. Len(ss) : head[i] = e
      BY <1>1, <1>3 DEF Has
  <2> QED BY <1>1, <1>2, <1>3, <1>6, <2>1
<1>8. DOMAIN entry \cap DOMAIN arc = {} /\ others \cap (DOMAIN entry \cup DOMAIN arc) = {}
    BY DEF RecordInv, Apart
<1>9. /\ Distinct(listed)
      /\ \A x : Has(listed, x) <=> Has(head, x) \/ Has(Prof!FlattenSeq(ss), x)
  <2>1. \A x : ~(Has(head, x) /\ Has(Prof!FlattenSeq(ss), x))
      BY <1>1, <1>7, <1>8
  <2> QED BY <1>1, <1>6, <2>1, Joined
<1> HIDE DEF listed
<1>10. (\A x : x \in Prof!Range(listed) <=> Has(listed, x)) /\ Prof!IsInjective(listed)
    BY <1>9, RangeIs
<1>11. Prof!Range(listed) = DOMAIN entry \cup DOMAIN arc
    BY <1>1, <1>7, <1>9, <1>10
<1> QED BY <1>8, <1>10, <1>11 DEF Prof!RecordsApart, listed, ss

LEMMA CallsAre == ASSUME RecordInv PROVE Prof!CallsCounted
<1> SUFFICES ASSUME NEW x \in Prof!Arcs \ raced
             PROVE  LET own == {e \in DOMAIN entry : entry[e].self_pc = x[1]}
                        of == {a \in DOMAIN arc :
                                  arc[a].from_pc = x[2] /\ \E e \in own : a \in Prof!Range(entry[e].arcs)}
                    IN calls[x] = Prof!MapThenSumSet(LAMBDA a : arc[a].count, of)
    BY DEF Prof!CallsCounted
<1> DEFINE own == {e \in DOMAIN entry : entry[e].self_pc = x[1]}
           of == {a \in DOMAIN arc :
                     arc[a].from_pc = x[2] /\ \E e \in own : a \in Prof!Range(entry[e].arcs)}
<1>1. \A e \in DOMAIN entry : \A a : a \in Prof!Range(entry[e].arcs) <=> Has(entry[e].arcs, a)
    BY RangeIs DEF RecordInv, Listed
<1>2. of = Of(x)
    BY <1>1 DEF Of
<1>3. calls[x] = Total(arc, Of(x))
    BY DEF RecordInv, ArcsCounted
<1> QED BY <1>2, <1>3 DEF Total

LEMMA SamplerIs == ASSUME Prof!ProfilerAssumption, SampleInv PROVE Prof!SamplerSound
<1>1. starts > 1 => torn
    BY DEF SampleInv, Once
<1>2. ASSUME NEW b \in hits, TextBytes % BucketBytes = 0 PROVE b < TextBytes \div BucketBytes
  <2>1. PICK p \in 0 .. TextBytes - 1 : b = p \div BucketBytes
      BY DEF SampleInv
  <2>2. TextBytes \in Nat /\ BucketBytes \in Nat \ {0} /\ p \in Nat /\ p < TextBytes
      BY DEF Prof!ProfilerAssumption
  <2> DEFINE q == TextBytes \div BucketBytes
  <2>3. q \in Nat /\ TextBytes = q * BucketBytes
      BY <1>2, <2>2, Z3
  <2>4. b \in Nat /\ b * BucketBytes <= p
      BY <2>1, <2>2, InLine
  <2> HIDE DEF q
  <2>5. ASSUME ~(b < q) PROVE FALSE
    <3>1. q * BucketBytes <= b * BucketBytes /\ q * BucketBytes \in Int /\ b * BucketBytes \in Int
      <4>1. q = b \/ q < b
          BY <2>3, <2>4, <2>5
      <4>2. /\ q * BucketBytes \in Int /\ b * BucketBytes \in Int
            /\ q < b => q * BucketBytes + BucketBytes <= b * BucketBytes
          BY <2>2, <2>3, <2>4, Multiples
      <4> QED BY <2>2, <4>1, <4>2
    <3> QED BY <2>2, <2>3, <2>4, <3>1
  <2> QED BY <2>5 DEF q
<1> QED BY <1>1, <1>2 DEF Prof!SamplerSound

LEMMA ProfSound == ASSUME Prof!ProfilerAssumption, ProfInv PROVE Prof!ProfilerSound
<1>1. Prof!RecordsApart /\ Prof!CallsCounted /\ Prof!SamplerSound
    BY ListsApart, CallsAre, SamplerIs DEF ProfInv
<1>2. Prof!TypeOK
  <2>1. \A c \in Prof!Contexts : call[c].pc \in Pcs /\ (call[c].pc # "idle" => call[c].arc \in Prof!Arcs)
      BY ContextIs DEF ProfInv, CallState, Found
  <2>2. Prof!Range(head) = DOMAIN entry
      BY RangeIs DEF ProfInv, RecordInv, Listed
  <2>3. /\ \A e \in DOMAIN entry : entry[e].self_pc \in Functions
        /\ \A a \in DOMAIN arc : arc[a].from_pc \in Callers
      BY DEF ProfInv, RecordInv, Records
  <2>4. slab_size \in 0 .. Increment /\ tick_rate \in {0, 1} /\ pcsample_need_init \in {0, 1}
      BY DEF ProfInv, RecordInv, Apart, Roomy, SampleInv
  <2> QED BY <2>1, <2>2, <2>3, <2>4 DEF Prof!TypeOK, Pcs
<1> QED BY <1>1, <1>2 DEF Prof!ProfilerSound

-----------------------------------------------------------------------------
(* Formatted output: recurrences and numbers                               *)

\* Induction up to a number, for a set.
LEMMA Climb ==
    ASSUME NEW S, NEW n \in Nat, 0 \in S, \A i \in 1 .. n : i - 1 \in S => i \in S
    PROVE  \A i \in 0 .. n : i \in S
<1> DEFINE bad == {i \in Nat : i \in 0 .. n /\ i \notin S}
<1>1. ASSUME bad # {} PROVE FALSE
  <2>1. PICK i \in bad : \A j \in bad : i <= j
      BY <1>1, SmallestOf
  <2>2. i # 0 /\ i \in 1 .. n /\ i - 1 \in Nat /\ i - 1 \in 0 .. n /\ i - 1 < i
      BY <2>1
  <2>3. i - 1 \in S
      BY <2>1, <2>2
  <2> QED BY <2>1, <2>2, <2>3
<1> QED BY <1>1

\* V begins with c, multiplies and adds.
Recurs(V, c, m, t, n) ==
    V = [i \in 0 .. n |-> IF i = 0 THEN c ELSE m[i] * V[i-1] + t[i]]

LEMMA CanRecur ==
    ASSUME NEW c, NEW m, NEW t, NEW n \in Nat
    PROVE  \E V : Recurs(V, c, m, t, n)
<1> DEFINE S == {k \in Nat : \E V : Recurs(V, c, m, t, k)}
<1>1. 0 \in S
  <2> DEFINE V == [i \in 0 .. 0 |-> c]
  <2>1. Recurs(V, c, m, t, 0)
      BY DEF Recurs
  <2> HIDE DEF V
  <2> QED BY <2>1
<1>2. ASSUME NEW k \in 1 .. n, k - 1 \in S PROVE k \in S
  <2>1. PICK W : Recurs(W, c, m, t, k - 1)
      BY <1>2
  <2> DEFINE V == [i \in 0 .. k |-> IF i = 0 THEN c ELSE m[i] * W[i-1] + t[i]]
  <2>2. \A i \in 0 .. k - 1 : i \in 0 .. k /\ V[i] = W[i]
    <3>1. \A i \in 0 .. k - 1 : W[i] = IF i = 0 THEN c ELSE m[i] * W[i-1] + t[i]
        BY <2>1 DEF Recurs
    <3>2. \A i \in 0 .. k - 1 : i \in 0 .. k
        OBVIOUS
    <3> QED BY <3>1, <3>2
  <2>3. \A i \in 0 .. k : i # 0 => i - 1 \in 0 .. k - 1
      OBVIOUS
  <2>4. V = [i \in 0 .. k |-> V[i]]
      OBVIOUS
  <2>5. \A i \in 0 .. k : V[i] = IF i = 0 THEN c ELSE m[i] * V[i-1] + t[i]
      BY <2>2, <2>3
  <2> HIDE DEF V
  <2>6. Recurs(V, c, m, t, k)
      BY <2>4, <2>5 DEF Recurs
  <2> QED BY <2>6
<1> HIDE DEF S
<1>3. n \in S
    BY <1>1, <1>2, Climb
<1> QED BY <1>3 DEF S

LEMMA RecursInt ==
    ASSUME NEW c \in Int, NEW m, NEW t, NEW n \in Nat, NEW V, Recurs(V, c, m, t, n),
           \A i \in 1 .. n : m[i] \in Int /\ t[i] \in Int
    PROVE  /\ V[0] = c
           /\ \A i \in 0 .. n : V[i] \in Int
           /\ \A i \in 1 .. n : V[i] = m[i] * V[i-1] + t[i]
<1>0. \A i \in 0 .. n : V[i] = IF i = 0 THEN c ELSE m[i] * V[i-1] + t[i]
    BY DEF Recurs
<1>1. V[0] = c
    BY <1>0
<1>2. \A i \in 1 .. n : V[i] = m[i] * V[i-1] + t[i]
    BY <1>0
<1> DEFINE S == {i \in Nat : V[i] \in Int}
<1>3. 0 \in S
    BY <1>1
<1>4. ASSUME NEW i \in 1 .. n, i - 1 \in S PROVE i \in S
  <2>1. V[i] = m[i] * V[i-1] + t[i] /\ V[i-1] \in Int /\ m[i] \in Int /\ t[i] \in Int
      BY <1>2, <1>4
  <2>2. m[i] * V[i-1] \in Int
      BY <2>1
  <2>3. m[i] * V[i-1] + t[i] \in Int
      BY <2>1, <2>2
  <2> QED BY <2>1, <2>3
<1> HIDE DEF S
<1>5. \A i \in 0 .. n : i \in S
    BY <1>3, <1>4, Climb
<1> QED BY <1>1, <1>2, <1>5 DEF S

\* The values of Power.
Powers(V, b, n) == V = [i \in 0 .. n |-> IF i = 0 THEN 1 ELSE b * V[i-1]]

LEMMA PowerIs ==
    ASSUME NEW b \in Nat \ {0}, NEW n \in Nat
    PROVE  \E V : Powers(V, b, n) /\ Printer!Power(b, n) = V[n]
<1> DEFINE m == [i \in 1 .. n |-> b]
           t == [i \in 1 .. n |-> 0]
<1>1. PICK V : Recurs(V, 1, m, t, n)
    BY CanRecur
<1>2. /\ V[0] = 1 /\ \A i \in 0 .. n : V[i] \in Int
      /\ \A i \in 1 .. n : V[i] = m[i] * V[i-1] + t[i]
  <2>1. \A i \in 1 .. n : m[i] \in Int /\ t[i] \in Int
      OBVIOUS
  <2> HIDE DEF m, t
  <2> QED BY <1>1, <2>1, RecursInt
<1>3. \A i \in 1 .. n : i - 1 \in 0 .. n /\ V[i] = b * V[i-1]
    BY <1>2
<1>4. \A i \in 0 .. n : V[i] = IF i = 0 THEN 1 ELSE b * V[i-1]
    BY <1>2, <1>3
<1>5. V = [i \in 0 .. n |-> V[i]]
    BY <1>1 DEF Recurs
<1>6. Powers(V, b, n)
    BY <1>4, <1>5 DEF Powers
<1> DEFINE W == CHOOSE U : Powers(U, b, n)
<1>7. Powers(W, b, n)
    BY <1>6
<1>8. Printer!Power(b, n) = W[n]
    BY DEF Printer!Power, Powers
<1> QED BY <1>7, <1>8

LEMMA PowersAgree ==
    ASSUME NEW b \in Nat \ {0}, NEW n \in Nat, NEW k \in 0 .. n,
           NEW V, Powers(V, b, n), NEW W, Powers(W, b, k)
    PROVE  \A i \in 0 .. k : V[i] = W[i] /\ V[i] \in Nat \ {0}
<1> DEFINE S == {i \in Nat : V[i] = W[i] /\ V[i] \in Nat \ {0}}
<1>1. /\ \A i \in 0 .. n : V[i] = IF i = 0 THEN 1 ELSE b * V[i-1]
      /\ \A i \in 0 .. k : W[i] = IF i = 0 THEN 1 ELSE b * W[i-1]
    BY DEF Powers
<1>2. 0 \in S
    BY <1>1
<1>3. ASSUME NEW i \in 1 .. k, i - 1 \in S PROVE i \in S
  <2>1. V[i] = b * V[i-1] /\ W[i] = b * W[i-1]
      BY <1>1
  <2>2. \A x \in Nat \ {0} : b * x \in Nat \ {0}
      OBVIOUS
  <2>3. V[i-1] = W[i-1] /\ V[i-1] \in Nat \ {0}
      BY <1>3
  <2> QED BY <2>1, <2>2, <2>3
<1> HIDE DEF S
<1>4. \A i \in 0 .. k : i \in S
    BY <1>2, <1>3, Climb
<1> QED BY <1>4 DEF S

LEMMA PowerStep ==
    ASSUME NEW b \in Nat \ {0}
    PROVE  /\ Printer!Power(b, 0) = 1
           /\ \A n \in Nat : Printer!Power(b, n) \in Nat \ {0}
           /\ \A n \in Nat : Printer!Power(b, n + 1) = b * Printer!Power(b, n)
<1>1. ASSUME NEW n \in Nat PROVE Printer!Power(b, n) \in Nat \ {0}
  <2>1. PICK V : Powers(V, b, n) /\ Printer!Power(b, n) = V[n]
      BY PowerIs
  <2> QED BY <2>1, PowersAgree
<1>2. Printer!Power(b, 0) = 1
  <2>1. PICK V : Powers(V, b, 0) /\ Printer!Power(b, 0) = V[0]
      BY PowerIs
  <2> QED BY <2>1 DEF Powers
<1>3. ASSUME NEW n \in Nat PROVE Printer!Power(b, n + 1) = b * Printer!Power(b, n)
  <2>1. PICK V : Powers(V, b, n + 1) /\ Printer!Power(b, n + 1) = V[n + 1]
      BY PowerIs
  <2>2. PICK W : Powers(W, b, n) /\ Printer!Power(b, n) = W[n]
      BY PowerIs
  <2>3. V[n] = W[n]
      BY <2>1, <2>2, PowersAgree
  <2>4. V[n + 1] = b * V[n]
    <3>1. \A i \in 0 .. n + 1 : V[i] = IF i = 0 THEN 1 ELSE b * V[i-1]
        BY <2>1 DEF Powers
    <3>2. n + 1 \in 0 .. n + 1 /\ n + 1 # 0 /\ n + 1 - 1 = n
        OBVIOUS
    <3> QED BY <3>1, <3>2
  <2> QED BY <2>1, <2>2, <2>3, <2>4
<1> QED BY <1>1, <1>2, <1>3

LEMMA PowerNat == \A b \in Nat \ {0} : \A n \in Nat : Printer!Power(b, n) \in Nat \ {0}
BY PowerStep

LEMMA PowersGrow ==
    ASSUME NEW b \in Nat \ {0, 1}, NEW n \in Nat
    PROVE  Printer!Power(2, n) <= Printer!Power(b, n)
<1> DEFINE S == {i \in Nat : Printer!Power(2, i) <= Printer!Power(b, i)}
<1>1. 0 \in S
    BY PowerStep
<1>2. ASSUME NEW i \in 1 .. n, i - 1 \in S PROVE i \in S
  <2>1. i - 1 \in Nat /\ (i - 1) + 1 = i
      OBVIOUS
  <2> DEFINE p == Printer!Power(2, i - 1)
             q == Printer!Power(b, i - 1)
  <2>2. p \in Nat \ {0} /\ q \in Nat \ {0} /\ Printer!Power(2, i) = 2 * p /\ Printer!Power(b, i) = b * q
      BY <2>1, PowerStep
  <2>3. p <= q
      BY <1>2
  <2> HIDE DEF p, q
  <2>4. 2 * p <= b * q
    <3>1. 2 * q <= b * q
        BY <2>2
    <3> QED BY <2>2, <2>3, <3>1
  <2> QED BY <2>2, <2>4
<1> HIDE DEF S
<1>3. \A i \in 0 .. n : i \in S
    BY <1>1, <1>2, Climb
<1> QED BY <1>3 DEF S

\* A nibble is four bits.
LEMMA Nibbles == \A k \in Nat : Printer!Power(2, 4 * k) = Printer!Power(16, k)
<1> SUFFICES ASSUME NEW k \in Nat PROVE Printer!Power(2, 4 * k) = Printer!Power(16, k)
    OBVIOUS
<1> DEFINE S == {i \in Nat : Printer!Power(2, 4 * i) = Printer!Power(16, i)}
<1>1. 0 \in S
    BY PowerStep
<1>2. ASSUME NEW i \in 1 .. k, i - 1 \in S PROVE i \in S
  <2> DEFINE j == 4 * (i - 1)
             p == Printer!Power(2, j)
  <2>1. /\ j \in Nat /\ j + 1 \in Nat /\ j + 2 \in Nat /\ j + 3 \in Nat
        /\ (j + 1) + 1 = j + 2 /\ (j + 2) + 1 = j + 3 /\ (j + 3) + 1 = 4 * i
        /\ i - 1 \in Nat /\ (i - 1) + 1 = i
      OBVIOUS
  <2> HIDE DEF j
  <2>2. /\ Printer!Power(2, j + 1) = 2 * p /\ Printer!Power(2, j + 2) = 2 * Printer!Power(2, j + 1)
        /\ Printer!Power(2, j + 3) = 2 * Printer!Power(2, j + 2)
        /\ Printer!Power(2, 4 * i) = 2 * Printer!Power(2, j + 3)
        /\ Printer!Power(16, i) = 16 * Printer!Power(16, i - 1) /\ p \in Nat
    <3>1. /\ \A n \in Nat : Printer!Power(2, n) \in Nat
          /\ \A n \in Nat : Printer!Power(2, n + 1) = 2 * Printer!Power(2, n)
          /\ \A n \in Nat : Printer!Power(16, n + 1) = 16 * Printer!Power(16, n)
        BY PowerStep
    <3>2. /\ Printer!Power(2, (j + 1) + 1) = 2 * Printer!Power(2, j + 1)
          /\ Printer!Power(2, (j + 2) + 1) = 2 * Printer!Power(2, j + 2)
          /\ Printer!Power(2, (j + 3) + 1) = 2 * Printer!Power(2, j + 3)
          /\ Printer!Power(16, (i - 1) + 1) = 16 * Printer!Power(16, i - 1)
        BY <2>1, <3>1
    <3> QED BY <2>1, <3>1, <3>2
  <2>3. p = Printer!Power(16, i - 1)
      BY <1>2 DEF j
  <2> HIDE DEF p
  <2> QED BY <2>2, <2>3
<1> HIDE DEF S
<1>3. \A i \in 0 .. k : i \in S
    BY <1>1, <1>2, Climb
<1> QED BY <1>3 DEF S

\* Names for characters, which keep the provers from looking into strings.
Space == " "
Minus == "-"
Nought == "0"
Percent == "%"

\* Every character there is.
Chars == {Printer!Lower[i] : i \in 1 .. 16} \cup {Printer!Upper[i] : i \in 1 .. 16} \cup
         {" ", "-", "%", "z"} \cup
         UNION {Printer!Range(f) : f \in LogFormats \cup Formats \cup Strings}

Alphabets == {Printer!Lower, Printer!Upper}

LEMMA LowerIs ==
    /\ Printer!Lower[1] = "0" /\ Printer!Lower[2] = "1" /\ Printer!Lower[3] = "2" /\ Printer!Lower[4] = "3"
    /\ Printer!Lower[5] = "4" /\ Printer!Lower[6] = "5" /\ Printer!Lower[7] = "6" /\ Printer!Lower[8] = "7"
    /\ Printer!Lower[9] = "8" /\ Printer!Lower[10] = "9" /\ Printer!Lower[11] = "a" /\ Printer!Lower[12] = "b"
    /\ Printer!Lower[13] = "c" /\ Printer!Lower[14] = "d" /\ Printer!Lower[15] = "e" /\ Printer!Lower[16] = "f"
BY DEF Printer!Lower, Printer!Decimals

LEMMA UpperIs ==
    /\ Printer!Upper[1] = "0" /\ Printer!Upper[2] = "1" /\ Printer!Upper[3] = "2" /\ Printer!Upper[4] = "3"
    /\ Printer!Upper[5] = "4" /\ Printer!Upper[6] = "5" /\ Printer!Upper[7] = "6" /\ Printer!Upper[8] = "7"
    /\ Printer!Upper[9] = "8" /\ Printer!Upper[10] = "9" /\ Printer!Upper[11] = "A" /\ Printer!Upper[12] = "B"
    /\ Printer!Upper[13] = "C" /\ Printer!Upper[14] = "D" /\ Printer!Upper[15] = "E" /\ Printer!Upper[16] = "F"
BY DEF Printer!Upper, Printer!Decimals

LEMMA UpTo16 ==
    ASSUME NEW i \in 1 .. 16
    PROVE  \/ i = 1 \/ i = 2 \/ i = 3 \/ i = 4 \/ i = 5 \/ i = 6 \/ i = 7 \/ i = 8
           \/ i = 9 \/ i = 10 \/ i = 11 \/ i = 12 \/ i = 13 \/ i = 14 \/ i = 15 \/ i = 16
OBVIOUS

LEMMA Digit ==
    ASSUME NEW L \in Alphabets, NEW j \in 1 .. 16
    PROVE  LET c == L[j]
           IN  c \in Chars /\ c # Space /\ Printer!Worth(c) = j - 1 /\ (c = Nought <=> j = 1)
<1>1. ASSUME NEW i \in 1 .. 16, NEW k \in 1 .. 16
      PROVE  /\ Printer!Lower[i] = Printer!Lower[k] => i = k
             /\ Printer!Upper[i] = Printer!Upper[k] => i = k
             /\ Printer!Lower[i] = Printer!Upper[k] => i = k
  <2>1. Printer!Lower[i] = Printer!Lower[k] => i = k
      BY UpTo16, LowerIs
  <2>2. Printer!Upper[i] = Printer!Upper[k] => i = k
      BY UpTo16, UpperIs
  <2>3. Printer!Lower[i] = Printer!Upper[k] => i = k
      BY UpTo16, LowerIs, UpperIs
  <2> QED BY <2>1, <2>2, <2>3
<1>2. ASSUME NEW i \in 1 .. 16
      PROVE  /\ Printer!Lower[i] # " " /\ Printer!Lower[i] # "-"
             /\ Printer!Lower[i] = "0" <=> i = 1
  <2>1. Printer!Lower[i] # " " /\ Printer!Lower[i] # "-"
      BY UpTo16, LowerIs
  <2>2. Printer!Lower[i] = "0" <=> i = 1
      BY UpTo16, LowerIs
  <2> QED BY <2>1, <2>2
<1>3. ASSUME NEW i \in 1 .. 16
      PROVE  /\ Printer!Upper[i] # " " /\ Printer!Upper[i] # "-"
             /\ Printer!Upper[i] = "0" <=> i = 1
  <2>1. Printer!Upper[i] # " " /\ Printer!Upper[i] # "-"
      BY UpTo16, UpperIs
  <2>2. Printer!Upper[i] = "0" <=> i = 1
      BY UpTo16, UpperIs
  <2> QED BY <2>1, <2>2
<1> DEFINE c == L[j]
<1>4. c \in {Printer!Lower[j], Printer!Upper[j]}
    BY DEF Alphabets
<1>5. \A i \in 1 .. 16 : c \in {Printer!Lower[i], Printer!Upper[i]} <=> i = j
    BY <1>1 DEF Alphabets
<1>6. Printer!Worth(c) = j - 1
  <2> HIDE DEF c
  <2>1. (CHOOSE i \in 1 .. 16 : c \in {Printer!Lower[i], Printer!Upper[i]}) = j
      BY <1>5
  <2> QED BY <2>1 DEF Printer!Worth
<1>7. c # Space /\ (c = Nought <=> j = 1)
    BY <1>2, <1>3 DEF Alphabets, Space, Nought
<1>8. c \in Chars
    BY <1>4 DEF Chars
<1> QED BY <1>6, <1>7, <1>8

\* What is left of the recursive function that reads digits: its first value and its step.
LEMMA DenotesIs ==
    ASSUME NEW d, Len(d) \in Nat, NEW b
    PROVE  \E V : /\ V[0] = 0
                  /\ \A i \in 1 .. Len(d) : V[i] = b * V[i-1] + Printer!Worth(d[i])
                  /\ Printer!Denotes(d, b) = V[Len(d)]
<1> DEFINE n == Len(d)
           m == [i \in 1 .. n |-> b]
           t == [i \in 1 .. n |-> Printer!Worth(d[i])]
           Is(V) == V = [i \in 0 .. n |-> IF i = 0 THEN 0 ELSE b * V[i-1] + Printer!Worth(d[i])]
<1>1. PICK V : Recurs(V, 0, m, t, n)
    BY CanRecur
<1>2. \A i \in 0 .. n : V[i] = IF i = 0 THEN 0 ELSE m[i] * V[i-1] + t[i]
  <2> HIDE DEF m, t
  <2> QED BY <1>1 DEF Recurs
<1>3. \A i \in 0 .. n : V[i] = IF i = 0 THEN 0 ELSE b * V[i-1] + Printer!Worth(d[i])
  <2>1. \A i \in 0 .. n : i # 0 => m[i] = b /\ t[i] = Printer!Worth(d[i])
      OBVIOUS
  <2> HIDE DEF m, t
  <2> QED BY <1>2, <2>1
<1>4. V = [i \in 0 .. n |-> V[i]]
    BY <1>1 DEF Recurs
<1>5. Is(V)
    BY <1>3, <1>4
<1> DEFINE W == CHOOSE U : Is(U)
<1>6. Is(W)
    BY <1>5
<1>7. Printer!Denotes(d, b) = W[n]
    BY DEF Printer!Denotes
<1> HIDE DEF W
<1>8. \A i \in 0 .. n : W[i] = IF i = 0 THEN 0 ELSE b * W[i-1] + Printer!Worth(d[i])
    BY <1>6
<1>9. W[0] = 0 /\ \A i \in 1 .. n : W[i] = b * W[i-1] + Printer!Worth(d[i])
    BY <1>8
<1> QED BY <1>7, <1>9

\* The quotient by one place value from the quotient by the next.
LEMMA Place ==
    ASSUME NEW b \in Nat \ {0}, NEW p \in Nat \ {0}, NEW v \in Nat
    PROVE  v \div p = b * (v \div (b * p)) + ((v \div p) % b)
<1>1. v \div (b * p) = (v \div p) \div b
    OBVIOUS
<1> DEFINE q == v \div p
<1>2. q \in Nat
    OBVIOUS
<1> HIDE DEF q
<1>3. q = b * (q \div b) + (q % b)
    BY <1>2
<1> QED BY <1>1, <1>3 DEF q

LEMMA PlaceNat == ASSUME NEW p \in Nat \ {0}, NEW v \in Nat PROVE v \div p \in Nat
OBVIOUS

LEMMA Remainder ==
    ASSUME NEW b \in {8, 10, 16}, NEW q \in Nat
    PROVE  q % b \in 0 .. b - 1 /\ (q % b) + 1 \in 1 .. 16 /\ ((q % b) + 1) - 1 = q % b
<1>1. CASE b = 8
    BY <1>1
<1>2. CASE b = 10
    BY <1>2
<1>3. CASE b = 16
    BY <1>3
<1> QED BY <1>1, <1>2, <1>3

\* d is v written in base b without zeros before it.
Numeral(d, v, b, L, n) ==
    /\ n \in Nat \ {0}
    /\ v < Printer!Power(b, n) /\ (n = 1 \/ v >= Printer!Power(b, n - 1))
    /\ d = [i \in 1 .. n |-> L[((v \div Printer!Power(b, n - i)) % b) + 1]]

\* s is d behind k zeros.
Behind(s, k, d, n) ==
    Len(s) = k + n /\ (\A i \in 1 .. k : s[i] = Nought) /\ (\A i \in 1 .. n : s[k + i] = d[i])

\* Zeros and a numeral read as the number.
LEMMA NumeralReads ==
    ASSUME NEW b \in {8, 10, 16}, NEW L \in Alphabets, NEW v \in Nat, NEW n, NEW d, Numeral(d, v, b, L, n),
           NEW k \in Nat, NEW s, Behind(s, k, d, n)
    PROVE  Printer!Denotes(s, b) = v
<1>0. /\ n \in Nat \ {0} /\ b \in Nat \ {0} /\ Len(s) \in Nat /\ Len(s) = k + n
      /\ \A i \in 1 .. k : s[i] = Nought
      /\ \A i \in 1 .. n : s[k + i] = d[i]
    BY DEF Numeral, Behind
<1> DEFINE Q(i) == v \div Printer!Power(b, n - i)
<1>1. PICK V : /\ V[0] = 0
               /\ \A i \in 1 .. Len(s) : V[i] = b * V[i-1] + Printer!Worth(s[i])
               /\ Printer!Denotes(s, b) = V[Len(s)]
    BY <1>0, DenotesIs
<1>2. \A i \in 1 .. n : Printer!Worth(s[k + i]) = Q(i) % b
  <2> SUFFICES ASSUME NEW i \in 1 .. n PROVE Printer!Worth(s[k + i]) = Q(i) % b
      OBVIOUS
  <2>1. n - i \in Nat
      BY <1>0
  <2>2. Q(i) \in Nat
      BY <1>0, <2>1, PowerStep, PlaceNat
  <2> DEFINE q == Q(i)
             j == (q % b) + 1
  <2>3. s[k + i] = L[j]
      BY <1>0 DEF Numeral
  <2>4. q \in Nat
      BY <2>2
  <2> HIDE DEF q
  <2>5. j \in 1 .. 16 /\ j - 1 = q % b
      BY <2>4, Remainder
  <2>6. Printer!Worth(L[j]) = j - 1
    <3> HIDE DEF j
    <3> QED BY <2>5, Digit
  <2> QED BY <2>3, <2>5, <2>6 DEF q
<1>3. Printer!Worth(Nought) = 0
  <2>1. Printer!Lower[1] = Nought /\ 1 \in 1 .. 16 /\ Printer!Lower \in Alphabets
      BY LowerIs DEF Alphabets, Nought
  <2>2. Printer!Worth(Printer!Lower[1]) = 1 - 1
      BY <2>1, Digit
  <2> QED BY <2>1, <2>2
<1>4. \A i \in 0 .. k : V[i] = 0
  <2> DEFINE S == {i \in Nat : V[i] = 0}
  <2>1. 0 \in S
      BY <1>1
  <2>2. ASSUME NEW i \in 1 .. k, i - 1 \in S PROVE i \in S
    <3>1. i \in 1 .. Len(s) /\ s[i] = Nought
        BY <1>0
    <3>2. V[i] = b * V[i-1] + 0 /\ V[i-1] = 0
        BY <1>1, <1>3, <2>2, <3>1
    <3> QED BY <3>2
  <2> HIDE DEF S
  <2>3. \A i \in 0 .. k : i \in S
      BY <2>1, <2>2, Climb
  <2> QED BY <2>3 DEF S
<1>5. \A i \in 0 .. n : V[k + i] = Q(i)
  <2> DEFINE S == {i \in Nat : V[k + i] = Q(i)}
  <2>1. 0 \in S
    <3>1. n - 0 = n /\ k + 0 = k /\ k \in 0 .. k
        BY <1>0
    <3>2. Printer!Power(b, n) \in Nat \ {0} /\ v < Printer!Power(b, n)
        BY <1>0, PowerStep DEF Numeral
    <3>3. \A p \in Nat \ {0} : v < p => v \div p = 0
        OBVIOUS
    <3>4. V[k] = 0
        BY <1>4, <3>1
    <3> QED BY <3>1, <3>2, <3>3, <3>4
  <2>2. ASSUME NEW i \in 1 .. n, i - 1 \in S PROVE i \in S
    <3>1. /\ k + i \in 1 .. Len(s) /\ (k + i) - 1 = k + (i - 1)
          /\ n - i \in Nat /\ n - (i - 1) = (n - i) + 1
        BY <1>0
    <3>2. V[k + i] = b * V[k + (i - 1)] + Printer!Worth(s[k + i])
        BY <1>1, <3>1
    <3>3. V[k + (i - 1)] = Q(i - 1)
        BY <2>2
    <3> DEFINE p == Printer!Power(b, n - i)
    <3>4. p \in Nat \ {0} /\ Printer!Power(b, n - (i - 1)) = b * p
        BY <1>0, <3>1, PowerStep
    <3> HIDE DEF p
    <3>5. v \div p = b * (v \div (b * p)) + ((v \div p) % b)
        BY <1>0, <3>4, Place
    <3>6. Q(i) = b * Q(i - 1) + (Q(i) % b)
        BY <3>4, <3>5 DEF p
    <3>7. V[k + i] = Q(i)
      <4> HIDE DEF Q
      <4> QED BY <1>2, <3>2, <3>3, <3>6
    <3> QED BY <3>7
  <2> HIDE DEF S
  <2>3. \A i \in 0 .. n : i \in S
      BY <1>0, <2>1, <2>2, Climb
  <2> QED BY <2>3 DEF S
<1>6. Q(n) = v
  <2>1. n - n = 0 /\ v \div 1 = v
      BY <1>0
  <2> QED BY <1>0, <2>1, PowerStep
<1>7. n \in 0 .. n
    BY <1>0
<1> HIDE DEF Q
<1> QED BY <1>0, <1>1, <1>5, <1>6, <1>7

LEMMA Domains == ASSUME NEW L \in Alphabets PROVE DOMAIN L = 1 .. 16
BY DEF Alphabets, Printer!Lower, Printer!Upper, Printer!Decimals

Cased(u) == IF u THEN Printer!Upper ELSE Printer!Lower

LEMMA DigitsNumeral ==
    ASSUME Printer!PrintfAssumption, NEW b \in {8, 10, 16}, NEW u,
           NEW v \in Nat, v < Printer!Power(2, Bits)
    PROVE  \E n : Numeral(Printer!Digits(v, b, u), v, b, Cased(u), n)
<1> DEFINE Fits(k) == v < Printer!Power(b, k) /\ (k = 1 \/ v >= Printer!Power(b, k - 1))
<1>0. Bits \in Nat \ {0} /\ b \in Nat \ {0, 1} /\ b \in Nat \ {0}
    BY DEF Printer!PrintfAssumption
<1>1. \E k \in 1 .. Bits : Fits(k)
  <2> DEFINE S == {k \in Nat : k \in 1 .. Bits /\ v < Printer!Power(b, k)}
  <2>1. Bits \in S
    <3>1. Printer!Power(2, Bits) <= Printer!Power(b, Bits)
        BY <1>0, PowersGrow
    <3>2. Printer!Power(2, Bits) \in Nat /\ Printer!Power(b, Bits) \in Nat
        BY <1>0, PowerNat
    <3> QED BY <1>0, <3>1, <3>2
  <2>2. PICK k \in S : \A i \in S : k <= i
      BY <2>1, SmallestOf
  <2>3. CASE k = 1
      BY <2>2, <2>3
  <2>4. CASE k # 1
    <3>0. k \in 1 .. Bits
        BY <2>2
    <3>1. k - 1 \in Nat /\ k - 1 \in 1 .. Bits /\ ~(k <= k - 1)
        BY <1>0, <2>4, <3>0
    <3>2. ~(v < Printer!Power(b, k - 1)) /\ Printer!Power(b, k - 1) \in Nat
        BY <1>0, <2>2, <3>1, PowerStep
    <3>3. v >= Printer!Power(b, k - 1)
        BY <3>2
    <3> QED BY <2>2, <3>3
  <2> QED BY <2>3, <2>4
<1> DEFINE n == CHOOSE k \in 1 .. Bits : Fits(k)
<1>2. n \in 1 .. Bits /\ Fits(n)
    BY <1>1
<1>3. Printer!Digits(v, b, u) =
          [i \in 1 .. n |-> Cased(u)[((v \div Printer!Power(b, n - i)) % b) + 1]]
    BY DEF Printer!Digits, Cased
<1> HIDE DEF n
<1>4. n \in Nat \ {0}
    BY <1>0, <1>2
<1> QED BY <1>2, <1>3, <1>4 DEF Numeral

LEMMA NumeralIs ==
    ASSUME NEW b \in {8, 10, 16}, NEW L \in Alphabets, NEW v \in Nat, NEW n, NEW d, Numeral(d, v, b, L, n)
    PROVE  /\ d \in Seq(Chars) /\ Len(d) = n /\ n \in Nat \ {0}
           /\ \A i \in 1 .. n : d[i] \in Printer!Range(L) /\ d[i] # Space
           /\ n = 1 \/ d[1] # Nought
<1>0. n \in Nat \ {0} /\ b \in Nat \ {0}
    BY DEF Numeral
<1>1. ASSUME NEW i \in 1 .. n
      PROVE  \E j \in 1 .. 16 : /\ d[i] = L[j] /\ j = ((v \div Printer!Power(b, n - i)) % b) + 1
                                /\ d[i] \in Chars /\ d[i] # Space /\ (d[i] = Nought <=> j = 1)
                                /\ d[i] \in Printer!Range(L)
  <2> DEFINE q == v \div Printer!Power(b, n - i)
             j == (q % b) + 1
  <2>1. n - i \in Nat
      BY <1>0
  <2>2. q \in Nat
      BY <1>0, <2>1, PowerStep, PlaceNat
  <2>3. d[i] = L[j]
      BY DEF Numeral
  <2>4. j \in 1 .. 16
    <3> HIDE DEF q
    <3> QED BY <2>2, Remainder
  <2>5. j = ((v \div Printer!Power(b, n - i)) % b) + 1
      OBVIOUS
  <2> HIDE DEF j
  <2>6. L[j] \in Chars /\ L[j] # Space /\ (L[j] = Nought <=> j = 1)
      BY <2>4, Digit
  <2>7. L[j] \in Printer!Range(L)
      BY <2>4, Domains DEF Printer!Range
  <2> QED BY <2>3, <2>4, <2>5, <2>6, <2>7
<1>2. d \in Seq(Chars) /\ Len(d) = n
  <2>1. d = [i \in 1 .. n |-> d[i]]
      BY DEF Numeral
  <2>2. \A i \in 1 .. n : d[i] \in Chars
      BY <1>1
  <2> HIDE DEF Numeral
  <2>3. d \in [1 .. n -> Chars]
      BY <2>1, <2>2
  <2> QED BY <1>0, <2>3
<1>3. ASSUME n # 1 PROVE d[1] # Nought
  <2> DEFINE p == Printer!Power(b, n - 1)
  <2>0. n - 1 \in Nat
      BY <1>0
  <2>1. p \in Nat \ {0} /\ Printer!Power(b, (n - 1) + 1) = b * p
      BY <1>0, <2>0, PowerStep
  <2>2. (n - 1) + 1 = n /\ 1 \in 1 .. n
      BY <1>0
  <2>3. v >= p /\ v < b * p
      BY <1>3, <2>1, <2>2 DEF Numeral
  <2>4. PICK j \in 1 .. 16 : j = ((v \div Printer!Power(b, n - 1)) % b) + 1 /\ (d[1] = Nought <=> j = 1)
      BY <1>1, <2>2
  <2> HIDE DEF p
  <2>5. v \div p \in 1 .. b - 1
    <3>1. v \div p < b
        BY <1>0, <2>1, <2>3
    <3>2. v \div p >= 1
        BY <2>1, <2>3
    <3>3. v \div p \in Nat
        BY <2>1, PlaceNat
    <3> QED BY <1>0, <3>1, <3>2, <3>3
  <2> DEFINE q == v \div p
  <2>6. q \in 1 .. b - 1
      BY <2>5
  <2> HIDE DEF q
  <2>7. q % b = q
    <3>1. CASE b = 8
        BY <2>6, <3>1
    <3>2. CASE b = 10
        BY <2>6, <3>2
    <3>3. CASE b = 16
        BY <2>6, <3>3
    <3> QED BY <3>1, <3>2, <3>3
  <2>8. j = (q % b) + 1
      BY <2>4 DEF q, p
  <2>9. j # 1
      BY <1>0, <2>6, <2>7, <2>8
  <2> QED BY <2>4, <2>9
<1> QED BY <1>0, <1>1, <1>2, <1>3

LEMMA PowersClimb ==
    ASSUME NEW b \in Nat \ {0}, NEW m \in Nat, NEW k \in Nat
    PROVE  Printer!Power(b, m) <= Printer!Power(b, m + k)
<1> DEFINE S == {i \in Nat : Printer!Power(b, m) <= Printer!Power(b, m + i)}
<1>1. 0 \in S
  <2>1. m + 0 = m /\ Printer!Power(b, m) \in Nat
      BY PowerNat
  <2> QED BY <2>1
<1>2. ASSUME NEW i \in 1 .. k, i - 1 \in S PROVE i \in S
  <2> DEFINE p == Printer!Power(b, m + (i - 1))
             q == Printer!Power(b, m)
  <2>1. m + (i - 1) \in Nat /\ (m + (i - 1)) + 1 = m + i
      OBVIOUS
  <2>2. p \in Nat /\ q \in Nat /\ Printer!Power(b, m + i) = b * p
      BY <2>1, PowerStep
  <2>3. q <= p
      BY <1>2
  <2> HIDE DEF p, q
  <2>4. p <= b * p
      BY <2>2
  <2>5. q <= Printer!Power(b, m + i)
      BY <2>2, <2>3, <2>4
  <2> QED BY <2>5 DEF q
<1> HIDE DEF S
<1>3. \A i \in 0 .. k : i \in S
    BY <1>1, <1>2, Climb
<1> QED BY <1>3 DEF S

LEMMA HexNumeral ==
    ASSUME Printer!PrintfAssumption, NEW v \in Nat, v < Printer!Power(2, Bits)
    PROVE  \E n : Numeral(Printer!Hex(v), v, 16, Printer!Lower, n)
<1> DEFINE P(k) == Printer!Power(16, k)
           K == Bits \div 4
<1>0. /\ K \in Nat \ {0} /\ Bits = 4 * K
    BY DEF Printer!PrintfAssumption
<1> HIDE DEF K
<1>1. /\ P(0) = 1
      /\ \A k \in Nat : P(k) \in Nat \ {0} /\ P(k + 1) = 16 * P(k) /\ Printer!Power(2, 4 * k) = P(k)
      /\ \A k, i \in Nat : P(k) <= P(k + i)
  <2>1. 16 \in Nat \ {0}
      OBVIOUS
  <2>2. P(0) = 1 /\ \A k \in Nat : P(k) \in Nat \ {0} /\ P(k + 1) = 16 * P(k)
      BY <2>1, PowerStep
  <2>3. \A k, i \in Nat : P(k) <= P(k + i)
      BY <2>1, PowersClimb
  <2> QED BY <2>2, <2>3, Nibbles
<1>2. CASE v = 0
  <2>1. Printer!Hex(v) = <<"0">>
      BY <1>2 DEF Printer!Hex
  <2>2. v < P(1)
      BY <1>1, <1>2
  <2>3. ((v \div Printer!Power(16, 1 - 1)) % 16) + 1 = 1
    <3>1. 1 - 1 = 0
        OBVIOUS
    <3> QED BY <1>1, <1>2, <3>1
  <2>4. <<"0">> = [i \in 1 .. 1 |-> Printer!Lower[((v \div Printer!Power(16, 1 - i)) % 16) + 1]]
    <3>1. \A i \in 1 .. 1 : Printer!Lower[((v \div Printer!Power(16, 1 - i)) % 16) + 1] = "0"
        BY <2>3, LowerIs
    <3>2. <<"0">> = [i \in 1 .. 1 |-> "0"]
        OBVIOUS
    <3> QED BY <3>1, <3>2
  <2>5. Numeral(<<"0">>, v, 16, Printer!Lower, 1)
      BY <2>2, <2>4 DEF Numeral
  <2> QED BY <2>1, <2>5
<1>3. CASE v # 0
  <2>1. \E m \in 0 .. K - 1 : v >= P(m) /\ v < P(m + 1)
    <3> DEFINE S == {k \in Nat : k \in 1 .. K /\ v < P(k)}
    <3>1. K \in S
        BY <1>0, <1>1
    <3>2. PICK k \in S : \A i \in S : k <= i
        BY <3>1, SmallestOf
    <3>3. k \in 1 .. K /\ v < P(k)
        BY <3>2
    <3>4. k - 1 \in 0 .. K - 1 /\ k - 1 \in Nat /\ (k - 1) + 1 = k
        BY <1>0, <3>3
    <3>5. v >= P(k - 1)
      <4>1. CASE k = 1
          BY <1>1, <1>3, <4>1
      <4>2. CASE k # 1
        <5>1. k - 1 \in 1 .. K /\ ~(k <= k - 1)
            BY <1>0, <3>3, <4>2
        <5>2. ~(v < P(k - 1)) /\ P(k - 1) \in Nat
            BY <1>1, <3>2, <3>4, <5>1
        <5> QED BY <5>2
      <4> QED BY <4>1, <4>2
    <3> QED BY <3>3, <3>4, <3>5
  <2>2. PICK m \in 0 .. K - 1 : v >= P(m) /\ v < P(m + 1)
      BY <2>1
  <2>3. m \in Nat /\ m + 1 \in Nat \ {0}
      BY <1>0, <2>2
  <2> DEFINE N(s) == (v \div Printer!Power(2, s)) % 16
             T == {s \in {4 * k : k \in 0 .. K - 1} : N(s) # 0}
  <2>4. N(4 * m) # 0
    <3> DEFINE p == P(m)
    <3>1. p \in Nat \ {0} /\ v >= p /\ v < 16 * p /\ Printer!Power(2, 4 * m) = p
        BY <1>1, <2>2, <2>3
    <3> HIDE DEF p
    <3> DEFINE q == v \div p
    <3>2. q \in 1 .. 15
      <4>1. v \div p < 16
          BY <3>1
      <4>2. v \div p >= 1
          BY <3>1
      <4>3. v \div p \in Nat
          BY <3>1, PlaceNat
      <4> QED BY <4>1, <4>2, <4>3
    <3> HIDE DEF q
    <3>3. q % 16 # 0
        BY <3>2
    <3> QED BY <3>1, <3>3 DEF q
  <2>5. \A k \in 0 .. K - 1 : k > m => N(4 * k) = 0
    <3> SUFFICES ASSUME NEW k \in 0 .. K - 1, k > m PROVE N(4 * k) = 0
        OBVIOUS
    <3>1. k \in Nat /\ k - (m + 1) \in Nat /\ (m + 1) + (k - (m + 1)) = k
        BY <1>0, <2>3
    <3>2. P(m + 1) <= P(k) /\ P(m + 1) \in Nat /\ P(k) \in Nat \ {0} /\ Printer!Power(2, 4 * k) = P(k)
        BY <1>1, <2>3, <3>1
    <3> DEFINE p == P(k)
    <3>3. p \in Nat \ {0} /\ v < p
        BY <2>2, <3>2
    <3> HIDE DEF p
    <3>4. v \div p = 0
        BY <3>3
    <3> QED BY <3>2, <3>4 DEF p
  <2>6. Printer!Max(T) = 4 * m
    <3> HIDE DEF N
    <3>1. 4 * m \in T
        BY <2>4
    <3>2. \A s \in T : s \in Int /\ s <= 4 * m
      <4> SUFFICES ASSUME NEW s \in T PROVE s \in Int /\ s <= 4 * m
          OBVIOUS
      <4>1. PICK k \in 0 .. K - 1 : s = 4 * k
          OBVIOUS
      <4>2. N(4 * k) # 0
          BY <4>1
      <4>3. ~(k > m) /\ k \in Nat
          BY <1>0, <2>5, <4>2
      <4> QED BY <2>3, <4>1, <4>3
    <3>3. 4 * m \in Nat
        BY <2>3
    <3> HIDE DEF T
    <3>4. \A x \in T : (\A y \in T : x >= y) <=> x = 4 * m
        BY <3>1, <3>2, <3>3
    <3> QED BY <3>1, <3>4 DEF Printer!Max
  <2> DEFINE n == m + 1
  <2>7. Printer!Hex(v) = [i \in 1 .. (4 * m) \div 4 + 1 |-> Printer!Lower[N(4 * m - 4 * (i - 1)) + 1]]
      BY <1>3, <2>6 DEF Printer!Hex, K
  <2>8. (4 * m) \div 4 + 1 = n
      BY <2>3
  <2>9. \A i \in 1 .. n : N(4 * m - 4 * (i - 1)) = (v \div Printer!Power(16, n - i)) % 16
    <3> SUFFICES ASSUME NEW i \in 1 .. n
                 PROVE  N(4 * m - 4 * (i - 1)) = (v \div Printer!Power(16, n - i)) % 16
        OBVIOUS
    <3>1. 4 * m - 4 * (i - 1) = 4 * (n - i) /\ n - i \in Nat
        BY <2>3
    <3> QED BY <1>1, <3>1
  <2>10. Printer!Hex(v) = [i \in 1 .. n |-> Printer!Lower[((v \div Printer!Power(16, n - i)) % 16) + 1]]
      BY <2>7, <2>8, <2>9
  <2>11. n = 1 \/ v >= Printer!Power(16, n - 1)
    <3>1. n - 1 = m
        BY <2>3
    <3> QED BY <2>2, <3>1
  <2> QED BY <2>2, <2>3, <2>10, <2>11 DEF Numeral
<1> QED BY <1>2, <1>3

-----------------------------------------------------------------------------
(* Formatted output: texts                                                 *)

LEMMA Rep ==
    ASSUME NEW c \in Chars, NEW r \in Nat
    PROVE  /\ Printer!RepChar(c, r) \in Seq(Chars) /\ Len(Printer!RepChar(c, r)) = r
           /\ \A i \in 1 .. r : Printer!RepChar(c, r)[i] = c
<1> DEFINE s == [i \in 1 .. r |-> c]
<1>1. s \in [1 .. r -> Chars] /\ \A i \in 1 .. r : s[i] = c
    OBVIOUS
<1> HIDE DEF s
<1>2. s \in Seq(Chars) /\ Len(s) = r
    BY <1>1
<1> QED BY <1>1, <1>2 DEF Printer!RepChar, s

\* As many as there are to be, but none for a number below zero.
AtLeast0(r) == IF r > 0 THEN r ELSE 0

LEMMA RepInt ==
    ASSUME NEW c, NEW r \in Int
    PROVE  AtLeast0(r) \in Nat /\ Printer!RepChar(c, r) = Printer!RepChar(c, AtLeast0(r))
<1>1. CASE r > 0
    BY <1>1 DEF AtLeast0
<1>2. CASE ~(r > 0)
  <2>1. 1 .. r = 1 .. 0
      BY <1>2
  <2> QED BY <1>2, <2>1 DEF AtLeast0, Printer!RepChar
<1> QED BY <1>1, <1>2

LEMMA CharsAre == Space \in Chars /\ Nought \in Chars /\ Minus \in Chars
<1>1. Space \in Chars /\ Minus \in Chars
    BY DEF Chars, Space, Minus
<1>2. Nought \in Chars
  <2>1. Printer!Lower[1] = Nought /\ 1 \in 1 .. 16
      BY LowerIs DEF Nought
  <2> QED BY <2>1 DEF Chars
<1> QED BY <1>1, <1>2

\* The elements of a sequence put together.
LEMMA Concat ==
    ASSUME NEW S, NEW s \in Seq(S), NEW t \in Seq(S)
    PROVE  /\ s \o t \in Seq(S) /\ Len(s \o t) = Len(s) + Len(t)
           /\ \A i \in 1 .. Len(s) : (s \o t)[i] = s[i]
           /\ \A i \in 1 .. Len(t) : (s \o t)[Len(s) + i] = t[i]
           /\ \A i \in 1 .. Len(s \o t) :
                  i \in 1 .. Len(s) \/ (i - Len(s) \in 1 .. Len(t) /\ (s \o t)[i] = t[i - Len(s)])
<1>1. /\ s \o t \in Seq(S) /\ Len(s \o t) = Len(s) + Len(t) /\ Len(s) \in Nat /\ Len(t) \in Nat
      /\ \A i \in 1 .. Len(s) + Len(t) : (s \o t)[i] = IF i <= Len(s) THEN s[i] ELSE t[i - Len(s)]
    OBVIOUS
<1> QED BY <1>1

LEMMA SameSeq ==
    ASSUME NEW S, NEW s \in Seq(S), NEW t \in Seq(S), Len(s) = Len(t),
           \A i \in 1 .. Len(s) : s[i] = t[i]
    PROVE  s = t
OBVIOUS

\* Spaces and a text without any, taken apart.
LEMMA Parted ==
    ASSUME NEW r \in Seq(Chars), \A i \in 1 .. Len(r) : r[i] = Space,
           NEW rest \in Seq(Chars), \A i \in 1 .. Len(rest) : rest[i] # Space
    PROVE  /\ Cardinality({i \in DOMAIN (r \o rest) : (r \o rest)[i] = Space}) = Len(r)
           /\ \A i \in 1 .. Len(r) : (r \o rest)[i] = Space
           /\ SubSeq(r \o rest, Len(r) + 1, Len(r \o rest)) = rest
           /\ r \o rest \in Seq(Chars) /\ Len(r \o rest) = Len(r) + Len(rest)
<1> DEFINE text == r \o rest
           lead == Len(r)
<1>1. lead \in Nat /\ Len(rest) \in Nat
    OBVIOUS
<1>2. text \in Seq(Chars) /\ Len(text) = lead + Len(rest)
    BY Concat
<1>3. /\ \A i \in 1 .. lead : text[i] = r[i]
      /\ \A i \in 1 .. Len(rest) : text[lead + i] = rest[i]
      /\ \A i \in 1 .. Len(text) :
             i \in 1 .. lead \/ (i - lead \in 1 .. Len(rest) /\ text[i] = rest[i - lead])
    BY Concat
<1> HIDE DEF text, lead
<1>4. \A i \in 1 .. lead : text[i] = Space
    BY <1>3 DEF lead
<1>5. {i \in DOMAIN text : text[i] = Space} = 1 .. lead
  <2>1. DOMAIN text = 1 .. Len(text)
      BY <1>2
  <2>2. 1 .. lead \subseteq 1 .. Len(text)
      BY <1>1, <1>2
  <2> QED BY <1>3, <1>4, <2>1, <2>2
<1>6. Cardinality(1 .. lead) = lead
    BY <1>1, FS_Interval
<1>7. SubSeq(text, lead + 1, Len(text)) = rest
  <2> DEFINE u == SubSeq(text, lead + 1, Len(text))
  <2>1. u \in Seq(Chars) /\ Len(u) = Len(rest) /\ \A i \in 1 .. Len(rest) : u[i] = text[lead + i]
      BY <1>1, <1>2, SMTT(30)
  <2> HIDE DEF u
  <2>2. \A i \in 1 .. Len(u) : u[i] = rest[i]
      BY <1>3, <2>1
  <2>3. u = rest
      BY <2>1, <2>2, SameSeq
  <2> QED BY <2>3 DEF u
<1> QED BY <1>2, <1>4, <1>5, <1>6, <1>7 DEF text, lead

ParsedBy(text, lead, rest) ==
    /\ Cardinality({i \in DOMAIN text : text[i] = Space}) = lead
    /\ \A i \in 1 .. lead : text[i] = Space
    /\ SubSeq(text, lead + 1, Len(text)) = rest
    /\ text \in Seq(Chars) /\ Len(text) = lead + Len(rest)

LEMMA Parsed ==
    ASSUME NEW lead \in Nat, NEW rest \in Seq(Chars), \A i \in 1 .. Len(rest) : rest[i] # Space
    PROVE  ParsedBy(Printer!RepChar(Space, lead) \o rest, lead, rest)
<1> DEFINE r == Printer!RepChar(Space, lead)
<1>1. r \in Seq(Chars) /\ Len(r) = lead /\ \A i \in 1 .. lead : r[i] = Space
    BY CharsAre, Rep
<1> HIDE DEF r
<1>2. \A i \in 1 .. Len(r) : r[i] = Space
    BY <1>1
<1>3. /\ Cardinality({i \in DOMAIN (r \o rest) : (r \o rest)[i] = Space}) = Len(r)
      /\ \A i \in 1 .. Len(r) : (r \o rest)[i] = Space
      /\ SubSeq(r \o rest, Len(r) + 1, Len(r \o rest)) = rest
      /\ r \o rest \in Seq(Chars) /\ Len(r \o rest) = Len(r) + Len(rest)
    BY <1>1, <1>2, Parted
<1>4. ParsedBy(r \o rest, lead, rest)
    BY <1>1, <1>3 DEF ParsedBy
<1> QED BY <1>4 DEF r

\* The sign in front of the digits.
Signed(neg, s) == IF neg THEN <<Minus>> \o s ELSE s

SignedBy(t, neg, s) ==
    /\ t \in Seq(Chars) /\ \A i \in 1 .. Len(t) : t[i] # Space
    /\ Len(t) = Len(s) + (IF neg THEN 1 ELSE 0)
    /\ (IF neg THEN Tail(t) ELSE t) = s
    /\ neg => Head(t) = Minus

LEMMA SignedIs ==
    ASSUME NEW neg \in BOOLEAN, NEW s \in Seq(Chars), Len(s) > 0, \A i \in 1 .. Len(s) : s[i] # Space
    PROVE  SignedBy(Signed(neg, s), neg, s)
<1>1. CASE ~neg
  <2>1. Signed(neg, s) = s
      BY <1>1 DEF Signed
  <2> QED BY <1>1, <2>1 DEF SignedBy
<1>2. CASE neg
  <2> DEFINE m == <<Minus>>
             t == m \o s
  <2>1. m \in Seq(Chars) /\ Len(m) = 1 /\ m[1] = Minus
      BY CharsAre
  <2>2. Minus # Space
      BY DEF Minus, Space
  <2> HIDE DEF m
  <2>0. /\ m \o s \in Seq(Chars) /\ Len(m \o s) = Len(m) + Len(s)
        /\ \A i \in 1 .. Len(m) : (m \o s)[i] = m[i]
        /\ \A i \in 1 .. Len(s) : (m \o s)[Len(m) + i] = s[i]
      BY <2>1, Concat
  <2>3. t \in Seq(Chars) /\ Len(t) = 1 + Len(s)
      BY <2>0, <2>1
  <2>4. t[1] = Minus /\ \A i \in 1 .. Len(s) : t[1 + i] = s[i]
      BY <2>0, <2>1
  <2>5. Signed(neg, s) = t
      BY <1>2 DEF Signed, m
  <2> HIDE DEF t
  <2>6. Head(t) = Minus
      BY <2>3, <2>4
  <2>7. Tail(t) = s
    <3> DEFINE u == Tail(t)
    <3>1. u \in Seq(Chars) /\ Len(u) = Len(s) /\ \A i \in 1 .. Len(s) : u[i] = t[i + 1]
        BY <2>3
    <3> HIDE DEF u
    <3>2. \A i \in 1 .. Len(u) : u[i] = s[i]
      <4>1. \A i \in 1 .. Len(s) : i + 1 = 1 + i
          OBVIOUS
      <4> QED BY <2>4, <3>1, <4>1
    <3>3. u = s
        BY <3>1, <3>2, SameSeq
    <3> QED BY <3>3 DEF u
  <2>8. \A i \in 1 .. Len(t) : t[i] # Space
    <3> SUFFICES ASSUME NEW i \in 1 .. Len(t) PROVE t[i] # Space
        OBVIOUS
    <3>1. CASE i = 1
        BY <2>2, <2>4, <3>1
    <3>2. CASE i # 1
      <4>1. i - 1 \in 1 .. Len(s) /\ 1 + (i - 1) = i
          BY <2>3, <3>2
      <4>2. t[1 + (i - 1)] = s[i - 1]
          BY <2>4, <4>1
      <4> QED BY <4>1, <4>2
    <3> QED BY <3>1, <3>2
  <2>9. Len(t) = Len(s) + 1
      BY <2>3
  <2> QED BY <1>2, <2>3, <2>5, <2>6, <2>7, <2>8, <2>9 DEF SignedBy
<1> QED BY <1>1, <1>2

\* The digits of v behind z zeros.
PaddedAs(s, z, n, v, b, L) ==
    /\ s \in Seq(Chars) /\ Len(s) = z + n /\ n \in Nat \ {0}
    /\ \A i \in 1 .. Len(s) : s[i] # Space
    /\ \A x \in Printer!Range(s) : x \in Printer!Range(L)
    /\ Printer!Denotes(s, b) = v
    /\ z = 0 => Len(s) = 1 \/ Head(s) # Nought

LEMMA Padded ==
    ASSUME NEW b \in {8, 10, 16}, NEW L \in Alphabets, NEW v \in Nat, NEW n, NEW d, Numeral(d, v, b, L, n),
           NEW z \in Nat
    PROVE  PaddedAs(Printer!RepChar(Nought, z) \o d, z, n, v, b, L)
<1> DEFINE r == Printer!RepChar(Nought, z)
           s == r \o d
<1>1. r \in Seq(Chars) /\ Len(r) = z /\ \A i \in 1 .. z : r[i] = Nought
    BY CharsAre, Rep
<1>2. /\ d \in Seq(Chars) /\ Len(d) = n /\ n \in Nat \ {0}
      /\ \A i \in 1 .. n : d[i] \in Printer!Range(L) /\ d[i] # Space
      /\ n = 1 \/ d[1] # Nought
    BY NumeralIs
<1> HIDE DEF r
<1>3. s \in Seq(Chars) /\ Len(s) = z + n
  <2>1. r \in Seq(Chars) /\ d \in Seq(Chars) /\ Len(r) = z /\ Len(d) = n
      BY <1>1, <1>2
  <2>2. r \o d \in Seq(Chars) /\ Len(r \o d) = Len(r) + Len(d)
      BY <2>1, Concat, Zenon
  <2> QED BY <2>1, <2>2, Zenon
<1>4. /\ \A i \in 1 .. z : s[i] = Nought
      /\ \A i \in 1 .. n : s[z + i] = d[i]
      /\ \A i \in 1 .. Len(s) : i \in 1 .. z \/ (i - z \in 1 .. n /\ s[i] = d[i - z])
  <2>1. /\ \A i \in 1 .. Len(r) : (r \o d)[i] = r[i]
        /\ \A i \in 1 .. Len(d) : (r \o d)[Len(r) + i] = d[i]
        /\ \A i \in 1 .. Len(r \o d) :
              i \in 1 .. Len(r) \/ (i - Len(r) \in 1 .. Len(d) /\ (r \o d)[i] = d[i - Len(r)])
      BY <1>1, <1>2, Concat
  <2> QED BY <1>1, <1>2, <2>1
<1> HIDE DEF s
<1>5. Nought # Space /\ Nought \in Printer!Range(L)
  <2>1. L[1] = Nought
      BY LowerIs, UpperIs DEF Alphabets, Nought
  <2>2. 1 \in DOMAIN L
      BY Domains
  <2>3. Nought # Space
      BY DEF Nought, Space
  <2> QED BY <2>1, <2>2, <2>3 DEF Printer!Range
<1>6. \A i \in 1 .. Len(s) : s[i] # Space /\ s[i] \in Printer!Range(L)
  <2> SUFFICES ASSUME NEW i \in 1 .. Len(s) PROVE s[i] # Space /\ s[i] \in Printer!Range(L)
      OBVIOUS
  <2>1. CASE i \in 1 .. z
      BY <1>4, <1>5, <2>1
  <2>2. CASE i - z \in 1 .. n /\ s[i] = d[i - z]
      BY <1>2, <2>2
  <2> QED BY <1>4, <2>1, <2>2
<1>7. \A x \in Printer!Range(s) : x \in Printer!Range(L)
  <2>1. DOMAIN s = 1 .. Len(s)
      BY <1>3
  <2>2. \A x \in Printer!Range(s) : \E i \in 1 .. Len(s) : x = s[i]
      BY <2>1 DEF Printer!Range
  <2> QED BY <1>6, <2>2
<1>8. Printer!Denotes(s, b) = v
  <2>1. Behind(s, z, d, n)
      BY <1>3, <1>4 DEF Behind
  <2> QED BY <2>1, NumeralReads
<1>9. ASSUME z = 0 PROVE Len(s) = 1 \/ Head(s) # Nought
  <2>1. s[1] = d[1] /\ Len(s) = n
    <3>1. z + 1 = 1 /\ z + n = n /\ 1 \in 1 .. n
        BY <1>2, <1>9
    <3> QED BY <1>3, <1>4, <3>1
  <2>2. Head(s) = s[1]
      BY <1>3
  <2> QED BY <1>2, <2>1, <2>2
<1>10. PaddedAs(s, z, n, v, b, L)
    BY <1>2, <1>3, <1>6, <1>7, <1>8, <1>9 DEF PaddedAs
<1> QED BY <1>10 DEF s, r

\* The texts a number is turned into: spaces, its sign, zeros, and its digits.
Spelled(lead, neg, z, d) == Printer!RepChar(Space, lead) \o Signed(neg, Printer!RepChar(Nought, z) \o d)

\* What the property asks of such a text.
Legible(text, lead, neg, z, n, v, b, L) ==
    LET rest == SubSeq(text, lead + 1, Len(text))
        digits == IF neg THEN Tail(rest) ELSE rest
    IN  /\ Cardinality({i \in DOMAIN text : text[i] = Space}) = lead
        /\ \A i \in 1 .. lead : text[i] = Space
        /\ neg => Head(rest) = Minus
        /\ digits # <<>>
        /\ \A x \in Printer!Range(digits) : x \in Printer!Range(L)
        /\ Printer!Denotes(digits, b) = v
        /\ z = 0 => Len(digits) = 1 \/ Head(digits) # Nought
        /\ text \in Seq(Chars)
        /\ Len(text) = lead + (IF neg THEN 1 ELSE 0) + z + n
        /\ n \in Nat

LEMMA SpelledReads ==
    ASSUME NEW b \in {8, 10, 16}, NEW L \in Alphabets, NEW v \in Nat, NEW n, NEW d, Numeral(d, v, b, L, n),
           NEW z \in Nat, NEW lead \in Nat, NEW neg \in BOOLEAN
    PROVE  Legible(Spelled(lead, neg, z, d), lead, neg, z, n, v, b, L)
<1> DEFINE body == Printer!RepChar(Nought, z) \o d
           signed == Signed(neg, body)
           text == Printer!RepChar(Space, lead) \o signed
           rest == SubSeq(text, lead + 1, Len(text))
           digits == IF neg THEN Tail(rest) ELSE rest
<1>1. PaddedAs(body, z, n, v, b, L)
    BY Padded
<1>2. text = Spelled(lead, neg, z, d)
    BY DEF Spelled
<1> HIDE DEF body
<1>3. body \in Seq(Chars) /\ Len(body) > 0 /\ \A i \in 1 .. Len(body) : body[i] # Space
    BY <1>1 DEF PaddedAs
<1>4. SignedBy(signed, neg, body)
    BY <1>3, SignedIs
<1> HIDE DEF signed
<1>5. signed \in Seq(Chars) /\ \A i \in 1 .. Len(signed) : signed[i] # Space
    BY <1>4 DEF SignedBy
<1>6. ParsedBy(text, lead, signed)
    BY <1>5, Parsed
<1> HIDE DEF text
<1>7. rest = signed
    BY <1>6 DEF ParsedBy
<1> HIDE DEF rest
<1>8. digits = body
    BY <1>4, <1>7 DEF SignedBy
<1> HIDE DEF digits
<1>9. body # <<>>
    BY <1>3
<1>10. Len(text) = lead + (IF neg THEN 1 ELSE 0) + z + n
  <2>1. /\ Len(text) = lead + Len(signed) /\ Len(signed) = Len(body) + (IF neg THEN 1 ELSE 0)
        /\ Len(body) = z + n /\ n \in Nat
      BY <1>1, <1>4, <1>6 DEF ParsedBy, SignedBy, PaddedAs
  <2>2. CASE neg
      BY <2>1, <2>2
  <2>3. CASE ~neg
      BY <2>1, <2>3
  <2> QED BY <2>2, <2>3
<1>11. neg => Head(rest) = Minus
    BY <1>4, <1>7 DEF SignedBy
<1>12. /\ digits # <<>>
       /\ \A x \in Printer!Range(digits) : x \in Printer!Range(L)
       /\ Printer!Denotes(digits, b) = v
       /\ z = 0 => Len(digits) = 1 \/ Head(digits) # Nought
       /\ n \in Nat
    BY <1>1, <1>8, <1>9 DEF PaddedAs
<1>13. /\ Cardinality({i \in DOMAIN text : text[i] = Space}) = lead
       /\ \A i \in 1 .. lead : text[i] = Space
       /\ text \in Seq(Chars)
    BY <1>6 DEF ParsedBy
<1>14. Legible(text, lead, neg, z, n, v, b, L)
    BY <1>10, <1>11, <1>12, <1>13 DEF Legible, digits, rest
<1> QED BY <1>2, <1>14

\* The width and the zero of a directive are those its characters ask for.
Asked(s) ==
    /\ Printer!Width(s.read) = AtLeast0(s.before)
    /\ s.zero <=> Printer!IsPrefix(<<Nought>>, s.read)

\* The number that is printed for a word, and the word.
Spells(p, lead, z, n) ==
    LET neg == Printer!Negative(p.spec, p.arg)
        len == lead + (IF neg THEN 1 ELSE 0) + z + n
        width == Printer!Width(p.spec.read)
    IN  /\ p.spec.base \in {8, 10, 16} /\ p.spec.signed \in BOOLEAN
        /\ p.arg \in Nat /\ p.arg < Printer!Power(2, Bits)
        /\ lead \in Nat /\ z \in Nat
        /\ \E d : /\ Numeral(d, Printer!Magnitude(p.spec, p.arg), p.spec.base, Cased(p.spec.upper), n)
                  /\ p.text = Spelled(lead, neg, z, d)
        /\ len >= width
        /\ len > width => lead = 0 /\ z = 0
        /\ IF Printer!IsPrefix(<<Nought>>, p.spec.read) THEN lead = 0 ELSE z = 0

LEMMA MagnitudeIs ==
    ASSUME Printer!PrintfAssumption, NEW s, s.signed \in BOOLEAN, NEW v \in Nat, v < Printer!Power(2, Bits)
    PROVE  /\ Printer!Negative(s, v) \in BOOLEAN
           /\ Printer!Magnitude(s, v) = IF Printer!Negative(s, v) THEN Printer!Power(2, Bits) - v ELSE v
           /\ Printer!Magnitude(s, v) \in Nat /\ Printer!Magnitude(s, v) < Printer!Power(2, Bits)
<1>1. Bits \in Nat \ {0} /\ Bits - 1 \in Nat
    BY DEF Printer!PrintfAssumption
<1> DEFINE p == Printer!Power(2, Bits)
           q == Printer!Power(2, Bits - 1)
<1>2. p \in Nat \ {0} /\ q \in Nat \ {0}
    BY <1>1, PowerNat
<1>3. Printer!Negative(s, v) <=> s.signed /\ v >= q
    BY DEF Printer!Negative
<1>4. Printer!Magnitude(s, v) = IF Printer!Negative(s, v) THEN p - v ELSE v
    BY DEF Printer!Magnitude
<1>5. Printer!Negative(s, v) \in BOOLEAN
    BY DEF Printer!Negative
<1> DEFINE neg == Printer!Negative(s, v)
           mag == Printer!Magnitude(s, v)
<1>6. v < p
    OBVIOUS
<1> HIDE DEF p, q, neg, mag
<1>7. mag \in Nat /\ mag < p
  <2>1. CASE neg
    <3>1. v >= q /\ mag = p - v
        BY <1>3, <1>4, <2>1 DEF neg, mag
    <3> QED BY <1>2, <1>6, <3>1
  <2>2. CASE ~neg
    <3>1. mag = v
        BY <1>4, <2>2 DEF neg, mag
    <3> QED BY <1>6, <3>1
  <2> QED BY <2>1, <2>2
<1> QED BY <1>4, <1>5, <1>7 DEF p, mag

LEMMA Sizes ==
    ASSUME NEW T
    PROVE  Printer!Cardinality(T) = Cardinality(T)
BY Zenon DEF Printer!Cardinality, Cardinality

LEMMA Reading ==
    ASSUME Printer!PrintfAssumption, NEW p, NEW lead, NEW z, NEW n, Spells(p, lead, z, n)
    PROVE  Printer!ReadsBack(p) /\ p.text \in Seq(Chars)
<1> DEFINE neg == p.spec.signed /\ p.arg >= Printer!Power(2, Bits - 1)
           mag == Printer!Magnitude(p.spec, p.arg)
           L == Cased(p.spec.upper)
           b == p.spec.base
           text == p.text
           count == Printer!Cardinality({i \in DOMAIN text : text[i] = Space})
           rest == SubSeq(text, count + 1, Len(text))
           digits == IF neg THEN Tail(rest) ELSE rest
           width == Printer!Width(p.spec.read)
           lean == Len(digits) = 1 \/ Head(digits) # Nought
           zero == Printer!IsPrefix(<<Nought>>, p.spec.read)
<1>0. Printer!Negative(p.spec, p.arg) = neg
    BY DEF Printer!Negative
<1>1. /\ b \in {8, 10, 16} /\ p.spec.signed \in BOOLEAN
      /\ p.arg \in Nat /\ p.arg < Printer!Power(2, Bits) /\ lead \in Nat /\ z \in Nat
    BY DEF Spells
<1>2. PICK d : Numeral(d, mag, b, L, n) /\ text = Spelled(lead, neg, z, d)
    BY <1>0 DEF Spells
<1>3. /\ lead + (IF neg THEN 1 ELSE 0) + z + n >= width
      /\ lead + (IF neg THEN 1 ELSE 0) + z + n > width => lead = 0 /\ z = 0
      /\ IF zero THEN lead = 0 ELSE z = 0
    BY <1>0 DEF Spells
<1>4. /\ neg \in BOOLEAN /\ mag = IF neg THEN Printer!Power(2, Bits) - p.arg ELSE p.arg
      /\ mag \in Nat
    BY <1>0, <1>1, MagnitudeIs
<1>5. L \in Alphabets
    BY DEF Alphabets, Cased
<1>6. Legible(text, lead, neg, z, n, mag, b, L)
  <2> HIDE DEF b, mag, L, neg, text
  <2> QED BY <1>1, <1>2, <1>4, <1>5, SpelledReads
<1>8. count = lead
    BY <1>6, Sizes DEF Legible
<1>9. /\ \A i \in 1 .. count : text[i] = Space
      /\ neg => Head(rest) = Minus
      /\ digits # <<>>
      /\ \A x \in Printer!Range(digits) : x \in Printer!Range(L)
      /\ Printer!Denotes(digits, b) = mag
      /\ z = 0 => lean
      /\ Len(text) = lead + (IF neg THEN 1 ELSE 0) + z + n
  <2> HIDE DEF b, mag, L, neg, text, count
  <2> QED BY <1>6, <1>8 DEF Legible
<1>10. /\ Len(text) >= width
       /\ Len(text) > width => count = 0 /\ lean
       /\ IF zero THEN count = 0 ELSE lean
  <2> HIDE DEF b, mag, L, neg, text, width, rest, digits, lean, zero, count
  <2> QED BY <1>3, <1>8, <1>9
<1>11. L = IF p.spec.upper THEN Printer!Upper ELSE Printer!Lower
    BY DEF Cased
<1>12. /\ \A i \in 1 .. count : text[i] = Space
       /\ neg => Head(rest) = Minus
       /\ digits # <<>>
       /\ \A x \in Printer!Range(digits) : x \in Printer!Range(IF p.spec.upper THEN Printer!Upper ELSE Printer!Lower)
       /\ Printer!Denotes(digits, b) = IF neg THEN Printer!Power(2, Bits) - p.arg ELSE p.arg
       /\ Len(text) >= width
       /\ IF zero THEN count = 0 ELSE lean
       /\ Len(text) > width => count = 0 /\ lean
  <2> HIDE DEF b, mag, L, neg, text, width, rest, digits, lean, zero, count
  <2> QED BY <1>4, <1>9, <1>10, <1>11
<1>13. Printer!ReadsBack(p)
    BY <1>12, Zenon DEF Printer!ReadsBack, Printer!Fills, Space, Minus, Nought
<1>14. text \in Seq(Chars)
    BY <1>6 DEF Legible
<1> QED BY <1>13, <1>14

\* Texts in a row.
LEMMA Nothing ==
    ASSUME NEW S, NEW t \in Seq(S)
    PROVE  <<>> \o t = t
OBVIOUS

LEMMA InARow ==
    ASSUME NEW S, NEW a \in Seq(S), NEW b \in Seq(S), NEW c \in Seq(S)
    PROVE  (a \o b) \o c = a \o (b \o c)
<1> DEFINE s == (a \o b) \o c
           t == a \o (b \o c)
<1>1. a \o b \in Seq(S) /\ b \o c \in Seq(S)
    OBVIOUS
<1>2. s \in Seq(S) /\ t \in Seq(S) /\ Len(s) = Len(t)
    BY <1>1
<1>3. \A i \in 1 .. Len(s) : s[i] = t[i]
    BY <1>1
<1> HIDE DEF s, t
<1>4. s = t
    BY <1>2, <1>3, SameSeq
<1> QED BY <1>4 DEF s, t

LEMMA CharsInARow == \A a, b, c \in Seq(Chars) : (a \o b) \o c = a \o (b \o c)
BY InARow

\* A width that has room is filled; one that has none adds nothing.
LEMMA Filling ==
    ASSUME NEW before \in Int, NEW n \in Nat, NEW front \in Nat
    PROVE  LET k == AtLeast0(before - n - front)
           IN  k + front + n >= AtLeast0(before) /\ (k + front + n > AtLeast0(before) => k = 0)
<1>1. CASE before - n - front > 0
    BY <1>1 DEF AtLeast0
<1>2. CASE ~(before - n - front > 0) /\ before > 0
    BY <1>2 DEF AtLeast0
<1>3. CASE ~(before - n - front > 0) /\ ~(before > 0)
    BY <1>3 DEF AtLeast0
<1> QED BY <1>1, <1>2, <1>3

LEMMA NumberIs ==
    ASSUME Printer!PrintfAssumption, NEW p,
           p.spec.zero \in BOOLEAN, p.spec.signed \in BOOLEAN, p.spec.upper \in BOOLEAN,
           p.spec.base \in {8, 10, 16}, p.spec.before \in Int, Asked(p.spec),
           p.arg \in Nat, p.arg < Printer!Power(2, Bits), p.text = Printer!Number(p.spec, p.arg)
    PROVE  Printer!ReadsBack(p) /\ p.text \in Seq(Chars)
<1> DEFINE s == p.spec
           neg == Printer!Negative(s, p.arg)
           mag == Printer!Magnitude(s, p.arg)
           L == Cased(s.upper)
           d == Printer!Digits(mag, s.base, s.upper)
           sign == IF neg THEN <<Minus>> ELSE <<>>
           pad == s.before - Len(d) - Len(sign)
           k == AtLeast0(pad)
           lead == IF s.zero THEN 0 ELSE k
           z == IF s.zero THEN k ELSE 0
<1>1. neg \in BOOLEAN /\ mag \in Nat /\ mag < Printer!Power(2, Bits)
    BY MagnitudeIs
<1>2. PICK n : Numeral(d, mag, s.base, L, n)
    BY <1>1, DigitsNumeral
<1>3. /\ d \in Seq(Chars) /\ Len(d) = n /\ n \in Nat \ {0}
  <2> HIDE DEF d, mag, L
  <2>1. L \in Alphabets
      BY DEF Alphabets, Cased, L
  <2> QED BY <1>1, <1>2, <2>1, NumeralIs
<1>4. sign \in Seq(Chars) /\ Len(sign) = IF neg THEN 1 ELSE 0
    BY CharsAre
<1>5. pad \in Int /\ k \in Nat
  <2> HIDE DEF d, sign
  <2> QED BY <1>3, <1>4, RepInt DEF AtLeast0
<1>6. p.text = IF s.zero THEN sign \o Printer!RepChar(Nought, pad) \o d
                         ELSE Printer!RepChar(Space, pad) \o sign \o d
    BY Zenon DEF Printer!Number, Minus, Nought, Space
<1>7. p.text = Spelled(lead, neg, z, d)
  <2> DEFINE none == Printer!RepChar(Space, 0)
             zeros == Printer!RepChar(Nought, k)
             spaces == Printer!RepChar(Space, k)
             nil == Printer!RepChar(Nought, 0)
  <2>1. /\ zeros \in Seq(Chars) /\ spaces \in Seq(Chars)
        /\ nil \in Seq(Chars) /\ Len(nil) = 0 /\ none \in Seq(Chars) /\ Len(none) = 0
      BY <1>5, CharsAre, Rep
  <2>2. p.text = IF s.zero THEN sign \o zeros \o d ELSE spaces \o sign \o d
      BY <1>5, <1>6, RepInt
  <2>3. Spelled(lead, neg, z, d) = IF s.zero THEN none \o Signed(neg, zeros \o d)
                                             ELSE spaces \o Signed(neg, nil \o d)
      BY DEF Spelled
  <2> HIDE DEF none, zeros, spaces, nil, d, neg
  <2>4. \A t \in Seq(Chars) : Signed(neg, t) = sign \o t
    <3>1. CASE neg
        BY <3>1 DEF Signed
    <3>2. CASE ~neg
        BY <3>2, Nothing DEF Signed
    <3> QED BY <3>1, <3>2
  <2> HIDE DEF sign
  <2>5. nil = <<>> /\ none = <<>>
      BY <2>1
  <2>6. CASE s.zero
    <3>1. zeros \o d \in Seq(Chars) /\ sign \o (zeros \o d) \in Seq(Chars)
        BY <1>3, <1>4, <2>1, Concat
    <3>2. none \o Signed(neg, zeros \o d) = sign \o (zeros \o d)
        BY <2>4, <2>5, <3>1, Nothing
    <3>3. (sign \o zeros) \o d = sign \o (zeros \o d)
      <4>1. sign \in Seq(Chars) /\ zeros \in Seq(Chars) /\ d \in Seq(Chars)
          BY <1>3, <1>4, <2>1
      <4> QED BY <4>1, CharsInARow, Zenon
    <3> HIDE DEF lead, z
    <3> QED BY <2>2, <2>3, <2>6, <3>2, <3>3
  <2>7. CASE ~s.zero
    <3>1. nil \o d = d
        BY <1>3, <2>5, Nothing
    <3>2. spaces \o Signed(neg, nil \o d) = spaces \o (sign \o d)
        BY <1>3, <2>4, <3>1
    <3>3. (spaces \o sign) \o d = spaces \o (sign \o d)
      <4>1. spaces \in Seq(Chars) /\ sign \in Seq(Chars) /\ d \in Seq(Chars)
          BY <1>3, <1>4, <2>1
      <4> QED BY <4>1, CharsInARow, Zenon
    <3> HIDE DEF lead, z
    <3> QED BY <2>2, <2>3, <2>7, <3>2, <3>3
  <2> QED BY <2>6, <2>7
<1> DEFINE len == lead + (IF neg THEN 1 ELSE 0) + z + n
           width == Printer!Width(s.read)
           front == IF neg THEN 1 ELSE 0
<1>8. lead \in Nat /\ z \in Nat /\ lead + z = k /\ front \in Nat
    BY <1>5
<1>9. width = AtLeast0(s.before) /\ (s.zero <=> Printer!IsPrefix(<<Nought>>, s.read))
    BY DEF Asked
<1>10. pad = s.before - n - front
  <2> HIDE DEF d, sign, neg
  <2> QED BY <1>3, <1>4
<1>11. len >= width /\ (len > width => k = 0)
  <2> HIDE DEF d, sign, pad, neg, lead, z, width, front
  <2>1. len = k + front + n
      BY <1>3, <1>8 DEF front
  <2>2. k = AtLeast0(s.before - n - front)
      BY <1>10 DEF k
  <2> DEFINE before == s.before
  <2>3. before \in Int /\ width = AtLeast0(before) /\ k = AtLeast0(before - n - front)
      BY <1>9, <2>2
  <2> HIDE DEF len, k, before
  <2> QED BY <1>3, <1>8, <2>1, <2>3, Filling
<1>12. len > width => lead = 0 /\ z = 0
    BY <1>11
<1>13. IF Printer!IsPrefix(<<Nought>>, s.read) THEN lead = 0 ELSE z = 0
    BY <1>9
<1>14. Spells(p, lead, z, n)
  <2> HIDE DEF d, lead, z, width, k, pad, sign, L
  <2>1. \E x : Numeral(x, mag, s.base, L, n) /\ p.text = Spelled(lead, neg, z, x)
      BY <1>2, <1>7
  <2> QED BY <1>8, <1>11, <1>12, <1>13, <2>1 DEF Spells, width, L
<1> QED BY <1>14, Reading

-----------------------------------------------------------------------------
(* Formatted output: widths                                                *)

Dot == "."
Ell == "l"

\* The characters of a directive.
Marks == Printer!Range(Printer!Decimals) \cup {".", "l"}

\* Where the point is, or would be.
PointAt(r, k) == k \in 1 .. Len(r) + 1 /\ (\A i \in 1 .. k - 1 : r[i] # Dot) /\ (k <= Len(r) => r[k] = Dot)

LEMMA DotIs == Dot \in Marks /\ Ell \in Marks /\ Dot # Ell
BY DEF Dot, Ell, Marks

LEMMA PointIs ==
    ASSUME NEW r \in Seq(Marks)
    PROVE  LET k == Printer!SelectInSeq(Append(r, "."), LAMBDA c : c = ".")
           IN  PointAt(r, k) /\ \A i : PointAt(r, i) => i = k
<1> DEFINE s == Append(r, Dot)
           I == {i \in 1 .. Len(s) : s[i] = Dot}
           k == Printer!SelectInSeq(Append(r, "."), LAMBDA c : c = ".")
<1>1. /\ s \in Seq(Marks) /\ Len(s) = Len(r) + 1 /\ Len(r) \in Nat
      /\ s[Len(r) + 1] = Dot /\ \A i \in 1 .. Len(r) : s[i] = r[i]
    BY DotIs
<1>2. k = IF I # {} THEN Printer!Min(I) ELSE 0
    BY Zenon DEF Printer!SelectInSeq, Dot
<1> HIDE DEF s, k
<1>3. I \in SUBSET Nat /\ Len(r) + 1 \in I
    BY <1>1
<1>4. PICK m \in I : \A j \in I : m <= j
    BY <1>3, SmallestOf
<1>5. Printer!Min(I) = m
  <2> HIDE DEF I
  <2>1. \A x \in I : (\A y \in I : x <= y) <=> x = m
      BY <1>3, <1>4
  <2> QED BY <1>4, <2>1 DEF Printer!Min
<1>6. k = m
    BY <1>2, <1>4, <1>5
<1>7. m \in 1 .. Len(r) + 1 /\ s[m] = Dot
    BY <1>1
<1>8. PointAt(r, m)
  <2>1. ASSUME NEW i \in 1 .. m - 1 PROVE r[i] # Dot
    <3>1. i \in 1 .. Len(s) /\ i \in 1 .. Len(r) /\ ~(m <= i)
        BY <1>1, <1>7
    <3>2. i \notin I
        BY <1>4, <3>1
    <3> QED BY <1>1, <3>1, <3>2
  <2>2. m <= Len(r) => r[m] = Dot
      BY <1>1, <1>7
  <2> QED BY <1>7, <2>1, <2>2 DEF PointAt
<1>9. ASSUME NEW i, PointAt(r, i) PROVE i = m
  <2>1. i \in 1 .. Len(r) + 1 /\ (\A j \in 1 .. i - 1 : r[j] # Dot) /\ (i <= Len(r) => r[i] = Dot)
      BY <1>9 DEF PointAt
  <2>2. i \in I
      BY <1>1, <2>1
  <2>3. m <= i
      BY <1>4, <2>2
  <2>4. ASSUME m < i PROVE FALSE
    <3>1. m \in 1 .. i - 1 /\ m \in 1 .. Len(r)
        BY <1>1, <1>7, <2>1, <2>4
    <3> QED BY <1>1, <1>7, <2>1, <3>1
  <2> QED BY <1>7, <2>1, <2>3, <2>4
<1> QED BY <1>6, <1>8, <1>9 DEF k

\* What the digits up to the point add up to.
Adds(V, r, k) ==
    /\ V[0] = 0
    /\ \A i \in 1 .. k : V[i] = IF Printer!IsDigit(r[i]) THEN 10 * V[i-1] + Printer!Worth(r[i]) ELSE V[i-1]

LEMMA DecimalsAre ==
    /\ Printer!Decimals[1] = "0" /\ Printer!Decimals[2] = "1" /\ Printer!Decimals[3] = "2"
    /\ Printer!Decimals[4] = "3" /\ Printer!Decimals[5] = "4" /\ Printer!Decimals[6] = "5"
    /\ Printer!Decimals[7] = "6" /\ Printer!Decimals[8] = "7" /\ Printer!Decimals[9] = "8"
    /\ Printer!Decimals[10] = "9" /\ DOMAIN Printer!Decimals = 1 .. 10
BY DEF Printer!Decimals

LEMMA UpTo10 ==
    ASSUME NEW i \in 1 .. 10
    PROVE  \/ i = 1 \/ i = 2 \/ i = 3 \/ i = 4 \/ i = 5
           \/ i = 6 \/ i = 7 \/ i = 8 \/ i = 9 \/ i = 10
OBVIOUS

LEMMA DigitsOf ==
    ASSUME NEW c, Printer!IsDigit(c)
    PROVE  /\ \E j \in 1 .. 10 : c = Printer!Lower[j] /\ Printer!Worth(c) = j - 1
           /\ Printer!Worth(c) \in 0 .. 9 /\ Printer!DigitOf(c) = Printer!Worth(c)
<1>1. \A j \in 1 .. 10 : Printer!Decimals[j] = Printer!Lower[j]
    BY UpTo10, LowerIs, DecimalsAre
<1>2. PICK j \in 1 .. 10 : c = Printer!Decimals[j]
    BY DecimalsAre DEF Printer!IsDigit, Printer!Range
<1>3. \A i \in 1 .. 10 : Printer!Worth(Printer!Lower[i]) = i - 1
  <2> SUFFICES ASSUME NEW i \in 1 .. 10 PROVE Printer!Worth(Printer!Lower[i]) = i - 1
      OBVIOUS
  <2>1. i \in 1 .. 16 /\ Printer!Lower \in Alphabets
      BY DEF Alphabets
  <2> QED BY <2>1, Digit
<1>4. c = Printer!Lower[j] /\ Printer!Worth(c) = j - 1
    BY <1>1, <1>2, <1>3
<1>5. \A i \in 1 .. 10 : Printer!Decimals[i] = c <=> i = j
  <2>1. ASSUME NEW i \in 1 .. 10, Printer!Decimals[i] = c PROVE i = j
    <3>1. Printer!Worth(c) = i - 1
        BY <1>1, <1>3, <2>1
    <3> QED BY <1>4, <3>1
  <2> QED BY <1>2, <2>1
<1>6. Printer!DigitOf(c) = j - 1
  <2>1. (CHOOSE i \in 1 .. 10 : Printer!Decimals[i] = c) = j
      BY <1>5
  <2> QED BY <2>1 DEF Printer!DigitOf
<1> QED BY <1>4, <1>6

\* What RecursInt says of V.
Recurred(V, c, m, t, n) ==
    /\ V[0] = c
    /\ \A i \in 0 .. n : V[i] \in Int
    /\ \A i \in 1 .. n : V[i] = m[i] * V[i-1] + t[i]

LEMMA RecursIs ==
    ASSUME NEW n \in Nat, NEW m, NEW t, \A i \in 1 .. n : m[i] \in Int /\ t[i] \in Int
    PROVE  \E V : Recurred(V, 0, m, t, n)
<1>1. PICK V : Recurs(V, 0, m, t, n)
    BY CanRecur
<1>2. Recurred(V, 0, m, t, n)
    BY <1>1, RecursInt DEF Recurred
<1> QED BY <1>2

LEMMA WidthExists ==
    ASSUME NEW r \in Seq(Marks)
    PROVE  \E k, V : PointAt(r, k) /\ Adds(V, r, k - 1) /\ V[k - 1] \in Nat
<1>1. PICK k : PointAt(r, k)
    BY PointIs
<1>2. k \in 1 .. Len(r) + 1 /\ Len(r) \in Nat
    BY <1>1 DEF PointAt
<1> DEFINE n == k - 1
           m == [i \in 1 .. n |-> IF Printer!IsDigit(r[i]) THEN 10 ELSE 1]
           t == [i \in 1 .. n |-> IF Printer!IsDigit(r[i]) THEN Printer!Worth(r[i]) ELSE 0]
<1>3. n \in Nat
    BY <1>2
<1>4. \A i \in 1 .. n : /\ m[i] = IF Printer!IsDigit(r[i]) THEN 10 ELSE 1
                        /\ t[i] = IF Printer!IsDigit(r[i]) THEN Printer!Worth(r[i]) ELSE 0
                        /\ m[i] \in Nat /\ t[i] \in Nat
  <2> SUFFICES ASSUME NEW i \in 1 .. n PROVE m[i] \in Nat /\ t[i] \in Nat
      OBVIOUS
  <2>1. CASE Printer!IsDigit(r[i])
    <3>1. Printer!Worth(r[i]) \in 0 .. 9
        BY <2>1, DigitsOf
    <3> QED BY <2>1, <3>1
  <2>2. CASE ~Printer!IsDigit(r[i])
      BY <2>2
  <2> QED BY <2>1, <2>2
<1> HIDE DEF m, t, n
<1>5. PICK V : Recurred(V, 0, m, t, n)
  <2>1. \A i \in 1 .. n : m[i] \in Int /\ t[i] \in Int
      BY <1>4
  <2> QED BY <1>3, <2>1, RecursIs
<1>6. V[0] = 0 /\ (\A i \in 0 .. n : V[i] \in Int) /\ \A i \in 1 .. n : V[i] = m[i] * V[i-1] + t[i]
    BY <1>5 DEF Recurred
<1>7. Adds(V, r, n)
  <2> SUFFICES ASSUME NEW i \in 1 .. n
               PROVE  V[i] = IF Printer!IsDigit(r[i]) THEN 10 * V[i-1] + Printer!Worth(r[i]) ELSE V[i-1]
      BY <1>6 DEF Adds
  <2>1. i - 1 \in 0 .. n /\ V[i-1] \in Int /\ V[i] = m[i] * V[i-1] + t[i]
      BY <1>3, <1>6
  <2>2. CASE Printer!IsDigit(r[i])
      BY <1>4, <2>1, <2>2
  <2>3. CASE ~Printer!IsDigit(r[i])
    <3>1. m[i] = 1 /\ t[i] = 0
        BY <1>4, <2>3
    <3> QED BY <2>1, <2>3, <3>1
  <2> QED BY <2>2, <2>3
<1>8. V[n] \in Nat
  <2> DEFINE S == {i \in Nat : V[i] \in Nat}
  <2>1. 0 \in S
      BY <1>6
  <2>2. ASSUME NEW i \in 1 .. n, i - 1 \in S PROVE i \in S
    <3>1. V[i-1] \in Nat /\ V[i] = m[i] * V[i-1] + t[i] /\ m[i] \in Nat /\ t[i] \in Nat
        BY <1>4, <1>6, <2>2
    <3>2. m[i] * V[i-1] \in Nat
        BY <3>1
    <3>3. m[i] * V[i-1] + t[i] \in Nat
        BY <3>1, <3>2
    <3> QED BY <3>1, <3>3
  <2> HIDE DEF S
  <2>3. \A i \in 0 .. n : i \in S
      BY <1>3, <2>1, <2>2, Climb
  <2> QED BY <1>3, <2>3 DEF S
<1> QED BY <1>1, <1>7, <1>8 DEF n

LEMMA WidthIs ==
    ASSUME NEW r \in Seq(Marks), NEW k, PointAt(r, k), NEW V, Adds(V, r, k - 1)
    PROVE  Printer!Width(r) = V[k - 1]
<1>1. Printer!SelectInSeq(Append(r, "."), LAMBDA c : c = ".") = k
    BY PointIs
<1>2. k \in 1 .. Len(r) + 1 /\ Len(r) \in Nat
    BY DEF PointAt
<1> DEFINE n == k - 1
           Is(U) == U = [i \in 0 .. n |->
                            IF i = 0 THEN 0
                            ELSE IF Printer!IsDigit(r[i]) THEN 10 * U[i-1] + Printer!Worth(r[i]) ELSE U[i-1]]
           W == CHOOSE U : Is(U)
           X == [i \in 0 .. n |-> V[i]]
<1>3. Printer!Width(r) = W[n]
    BY <1>1 DEF Printer!Width
<1>4. /\ V[0] = 0 /\ n \in Nat
      /\ \A i \in 1 .. n : V[i] = IF Printer!IsDigit(r[i]) THEN 10 * V[i-1] + Printer!Worth(r[i]) ELSE V[i-1]
    BY <1>2 DEF Adds
<1> HIDE DEF n
<1>5. Is(X)
  <2>1. \A i \in 0 .. n : X[i] = V[i]
      OBVIOUS
  <2>2. X = [i \in 0 .. n |-> X[i]]
      OBVIOUS
  <2> HIDE DEF X
  <2>3. \A i \in 0 .. n : i # 0 => i \in 1 .. n /\ X[i-1] = V[i-1]
      BY <1>4, <2>1
  <2>4. \A i \in 0 .. n : X[i] = IF i = 0 THEN 0
                            ELSE IF Printer!IsDigit(r[i]) THEN 10 * X[i-1] + Printer!Worth(r[i]) ELSE X[i-1]
      BY <1>4, <2>1, <2>3
  <2> QED BY <2>2, <2>4
<1>6. Is(W)
    BY <1>5
<1> HIDE DEF W
<1>7. \A i \in 0 .. n : W[i] = IF i = 0 THEN 0
                            ELSE IF Printer!IsDigit(r[i]) THEN 10 * W[i-1] + Printer!Worth(r[i]) ELSE W[i-1]
    BY <1>6
<1> DEFINE S == {i \in Nat : W[i] = V[i]}
<1>8. 0 \in S
    BY <1>4, <1>7
<1>9. ASSUME NEW i \in 1 .. n, i - 1 \in S PROVE i \in S
    BY <1>4, <1>7, <1>9
<1> HIDE DEF S
<1>10. \A i \in 0 .. n : i \in S
    BY <1>4, <1>8, <1>9, Climb
<1>11. W[n] = V[n]
    BY <1>4, <1>10 DEF S
<1> QED BY <1>3, <1>11 DEF n

LEMMA NoWidth == Printer!Width(<<>>) = 0
<1> DEFINE V == [i \in 0 .. 0 |-> 0]
           r == <<>>
<1>1. r \in Seq(Marks) /\ Len(r) = 0
    OBVIOUS
<1> HIDE DEF r
<1>2. PointAt(r, 1)
    BY <1>1 DEF PointAt
<1>3. Adds(V, r, 1 - 1) /\ V[1 - 1] = 0
    BY <1>1 DEF Adds
<1> HIDE DEF V
<1>4. Printer!Width(r) = V[1 - 1]
    BY <1>1, <1>2, <1>3, WidthIs
<1> QED BY <1>3, <1>4 DEF r

\* Nothing in r is a point.
Pointless(r) == \A i \in 1 .. Len(r) : r[i] # Dot

\* The width with one character more.
WidthThen(r, c) == IF Pointless(r) /\ Printer!IsDigit(c) THEN 10 * Printer!Width(r) + Printer!Worth(c)
                                                       ELSE Printer!Width(r)

LEMMA DotNoDigit == ~Printer!IsDigit(Dot) /\ ~Printer!IsDigit(Ell)
BY DecimalsAre, UpTo10 DEF Printer!IsDigit, Printer!Range, Dot, Ell

LEMMA WidthGrows ==
    ASSUME NEW r \in Seq(Marks), NEW c \in Marks
    PROVE  /\ Printer!Width(r) \in Nat /\ Printer!Width(Append(r, c)) = WidthThen(r, c)
           /\ Pointless(Append(r, c)) <=> Pointless(r) /\ c # Dot
<1>1. PICK k, V : PointAt(r, k) /\ Adds(V, r, k - 1) /\ V[k - 1] \in Nat
    BY WidthExists
<1>2. Printer!Width(r) = V[k - 1]
    BY <1>1, WidthIs
<1> DEFINE s == Append(r, c)
           n == Len(r)
<1>3. s \in Seq(Marks) /\ n \in Nat /\ Len(s) = n + 1 /\ s[n + 1] = c /\ \A i \in 1 .. n : s[i] = r[i]
    OBVIOUS
<1>4. /\ k \in 1 .. n + 1 /\ (\A i \in 1 .. k - 1 : r[i] # Dot) /\ (k <= n => r[k] = Dot)
    BY <1>1 DEF PointAt
<1>5. /\ V[0] = 0
      /\ \A i \in 1 .. k - 1 : V[i] = IF Printer!IsDigit(r[i]) THEN 10 * V[i-1] + Printer!Worth(r[i]) ELSE V[i-1]
    BY <1>1 DEF Adds
<1> HIDE DEF s
<1>6. Pointless(s) <=> Pointless(r) /\ c # Dot
  <2>1. \A i \in 1 .. n + 1 : i \in 1 .. n \/ i = n + 1
      BY <1>3
  <2> QED BY <1>3, <2>1 DEF Pointless
<1>7. CASE Pointless(r) /\ c # Dot
  <2>1. k = n + 1
      BY <1>3, <1>4, <1>7 DEF Pointless
  <2> DEFINE widened == IF Printer!IsDigit(c) THEN 10 * V[n] + Printer!Worth(c) ELSE V[n]
             X == [i \in 0 .. n + 1 |-> IF i = n + 1 THEN widened ELSE V[i]]
  <2>2. X[n + 1] = widened /\ \A i \in 0 .. n : X[i] = V[i]
      BY <1>3
  <2>3. widened = WidthThen(r, c)
      BY <1>2, <1>3, <1>7, <2>1 DEF WidthThen
  <2> HIDE DEF X
  <2>4. Adds(X, s, n + 1)
    <3>1. X[0] = 0
        BY <1>3, <1>5, <2>2
    <3>2. ASSUME NEW i \in 1 .. n + 1
          PROVE  X[i] = IF Printer!IsDigit(s[i]) THEN 10 * X[i-1] + Printer!Worth(s[i]) ELSE X[i-1]
      <4>1. CASE i = n + 1
        <5>1. i - 1 = n /\ X[n] = V[n] /\ s[i] = c
            BY <1>3, <2>2, <4>1
        <5> QED BY <2>2, <4>1, <5>1
      <4>2. CASE i # n + 1
        <5>1. i \in 1 .. n /\ i - 1 \in 0 .. n /\ i \in 0 .. n /\ i \in 1 .. k - 1
            BY <1>3, <2>1, <4>2
        <5>2. X[i] = V[i] /\ X[i-1] = V[i-1] /\ s[i] = r[i]
            BY <1>3, <2>2, <5>1
        <5> QED BY <1>5, <5>1, <5>2
      <4> QED BY <4>1, <4>2
    <3> QED BY <3>1, <3>2 DEF Adds
  <2>5. PointAt(s, n + 2) /\ (n + 2) - 1 = n + 1
    <3>1. Pointless(s) /\ (n + 2) - 1 = n + 1
        BY <1>3, <1>6, <1>7
    <3> QED BY <1>3, <3>1 DEF PointAt, Pointless
  <2>6. Printer!Width(s) = X[(n + 2) - 1]
    <3>1. Adds(X, s, (n + 2) - 1)
        BY <2>4, <2>5
    <3> QED BY <1>3, <2>5, <3>1, WidthIs
  <2> QED BY <1>1, <1>2, <1>6, <2>2, <2>3, <2>5, <2>6 DEF s
<1>8. CASE ~(Pointless(r) /\ c # Dot)
  <2>1. PointAt(s, k)
    <3>1. \A i \in 1 .. k - 1 : s[i] # Dot
        BY <1>3, <1>4
    <3>2. k <= n + 1 => s[k] = Dot
      <4>1. CASE k <= n
          BY <1>3, <1>4, <4>1
      <4>2. CASE k = n + 1
        <5>1. Pointless(r)
            BY <1>3, <1>4, <4>2 DEF Pointless
        <5> QED BY <1>3, <1>8, <4>2, <5>1
      <4> QED BY <1>3, <1>4, <4>1, <4>2
    <3> QED BY <1>3, <1>4, <3>1, <3>2 DEF PointAt
  <2>2. Adds(V, s, k - 1)
    <3>1. \A i \in 1 .. k - 1 : s[i] = r[i]
        BY <1>3, <1>4
    <3> QED BY <1>5, <3>1 DEF Adds
  <2>3. Printer!Width(s) = V[k - 1]
      BY <1>3, <2>1, <2>2, WidthIs
  <2>4. WidthThen(r, c) = Printer!Width(r)
      BY <1>8, DotNoDigit DEF WidthThen
  <2> QED BY <1>1, <1>2, <1>6, <2>3, <2>4 DEF s
<1> QED BY <1>7, <1>8

-----------------------------------------------------------------------------
(* Formatted output: pieces                                                *)

LEMMA SuffixIs ==
    ASSUME NEW a \in Seq(Chars), NEW b \in Seq(Chars)
    PROVE  Printer!IsSuffix(b, a \o b)
<1> DEFINE t == a \o b
           r == Printer!Reverse(b)
           q == Printer!Reverse(t)
           n == Len(b)
<1>1. /\ t \in Seq(Chars) /\ n \in Nat /\ Len(a) \in Nat /\ Len(t) = Len(a) + n
      /\ \A i \in 1 .. n : t[Len(a) + i] = b[i]
    BY Concat
<1> HIDE DEF t
<1>2. /\ r \in Seq(Chars) /\ Len(r) = n /\ \A i \in 1 .. n : r[i] = b[(n - i) + 1]
    BY <1>1 DEF Printer!Reverse
<1>3. /\ q \in Seq(Chars) /\ Len(q) = Len(t) /\ \A i \in 1 .. Len(t) : q[i] = t[(Len(t) - i) + 1]
    BY <1>1 DEF Printer!Reverse
<1> HIDE DEF r, q, n
<1>4. \A i \in 1 .. n : q[i] = r[i]
  <2> SUFFICES ASSUME NEW i \in 1 .. n PROVE q[i] = r[i]
      OBVIOUS
  <2>1. (Len(t) - i) + 1 = Len(a) + ((n - i) + 1) /\ (n - i) + 1 \in 1 .. n /\ i \in 1 .. Len(t)
      BY <1>1
  <2> QED BY <1>1, <1>2, <1>3, <2>1
<1> DEFINE x == SubSeq(r, 1, n)
           y == SubSeq(q, 1, n)
<1>5. /\ x \in Seq(Chars) /\ Len(x) = n /\ \A i \in 1 .. n : x[i] = r[i]
    BY <1>1, <1>2
<1>6. /\ y \in Seq(Chars) /\ Len(y) = n /\ \A i \in 1 .. n : y[i] = q[i]
    BY <1>1, <1>3
<1> HIDE DEF x, y
<1>7. x = y
    BY <1>4, <1>5, <1>6, SameSeq
<1>8. Len(r) <= Len(q) /\ SubSeq(r, 1, Len(r)) = SubSeq(q, 1, Len(r))
    BY <1>1, <1>2, <1>3, <1>7 DEF x, y
<1> QED BY <1>8 DEF Printer!IsSuffix, Printer!IsPrefix, r, q, t

\* A piece is as it should be.
PieceSound(p) ==
    /\ p.letter \in Printer!Numeric => Printer!ReadsBack(p)
    /\ p.letter \in {"c", "s"} => Printer!Fills(p) /\ Printer!IsSuffix(p.arg, p.text)

LEMMA Room ==
    ASSUME NEW before \in Int, NEW n \in Nat
    PROVE  AtLeast0(before - n) + n >= AtLeast0(before)
<1>1. CASE before - n > 0
    BY <1>1 DEF AtLeast0
<1>2. CASE ~(before - n > 0)
    BY <1>2 DEF AtLeast0
<1> QED BY <1>1, <1>2

LEMMA TextIs ==
    ASSUME NEW p, p.spec.before \in Int, Asked(p.spec), p.arg \in Seq(Chars),
           NEW n \in Nat, n = Len(p.arg), p.text = Printer!RepChar(Space, p.spec.before - n) \o p.arg
    PROVE  Printer!Fills(p) /\ Printer!IsSuffix(p.arg, p.text) /\ p.text \in Seq(Chars)
<1> DEFINE before == p.spec.before
           k == AtLeast0(before - n)
           r == Printer!RepChar(Space, k)
           a == p.arg
<1>1. k \in Nat /\ Printer!RepChar(Space, before - n) = r
    BY RepInt
<1>2. r \in Seq(Chars) /\ Len(r) = k
    BY <1>1, CharsAre, Rep
<1>3. p.text = r \o a
    BY <1>1
<1> HIDE DEF r, k
<1>4. r \o a \in Seq(Chars) /\ Len(r \o a) = k + n
    BY <1>2, Concat
<1>5. Printer!IsSuffix(a, r \o a)
    BY <1>2, SuffixIs
<1>6. k + n >= AtLeast0(before)
    BY Room DEF k
<1>7. Printer!Width(p.spec.read) = AtLeast0(before)
    BY DEF Asked
<1> QED BY <1>3, <1>4, <1>5, <1>6, <1>7 DEF Printer!Fills

LEMMA PlainIs ==
    ASSUME NEW p, p.spec.read = <<>>, p.arg \in Seq(Chars), p.text = p.arg
    PROVE  Printer!Fills(p) /\ Printer!IsSuffix(p.arg, p.text)
<1>1. Printer!Width(p.spec.read) = 0 /\ Len(p.text) >= 0
    BY NoWidth
<1> DEFINE none == <<>>
<1>2. none \in Seq(Chars) /\ none \o p.arg = p.arg
    BY Nothing
<1> HIDE DEF none
<1>3. Printer!IsSuffix(p.arg, none \o p.arg)
    BY <1>2, SuffixIs
<1> QED BY <1>1, <1>2, <1>3 DEF Printer!Fills

LEMMA HexIs ==
    ASSUME Printer!PrintfAssumption, NEW p, p.spec.read = <<>>, p.spec.signed = FALSE,
           p.spec.base = 16, p.spec.upper = FALSE, p.spec.zero = FALSE,
           p.arg \in Nat, p.arg < Printer!Power(2, Bits), p.text = Printer!Hex(p.arg)
    PROVE  Printer!ReadsBack(p) /\ p.text \in Seq(Chars)
<1> DEFINE s == p.spec
           v == p.arg
           d == Printer!Hex(v)
<1>1. PICK n : Numeral(d, v, 16, Printer!Lower, n)
    BY HexNumeral
<1>2. ~Printer!Negative(s, v) /\ Printer!Magnitude(s, v) = v /\ Cased(s.upper) = Printer!Lower
    BY DEF Printer!Negative, Printer!Magnitude, Cased
<1>3. d \in Seq(Chars) /\ Len(d) = n /\ n \in Nat \ {0}
  <2> HIDE DEF d
  <2>1. Printer!Lower \in Alphabets
      BY DEF Alphabets
  <2> QED BY <1>1, <2>1, NumeralIs
<1> HIDE DEF d
<1>4. Spelled(0, FALSE, 0, d) = d
  <2> DEFINE none == Printer!RepChar(Space, 0)
             nil == Printer!RepChar(Nought, 0)
  <2>1. none \in Seq(Chars) /\ Len(none) = 0 /\ nil \in Seq(Chars) /\ Len(nil) = 0
      BY CharsAre, Rep
  <2>2. Spelled(0, FALSE, 0, d) = none \o (nil \o d)
      BY DEF Spelled, Signed
  <2> HIDE DEF none, nil
  <2>3. none = <<>> /\ nil = <<>>
      BY <2>1
  <2>4. nil \o d = d /\ none \o d = d
      BY <1>3, <2>3, Nothing
  <2> QED BY <2>2, <2>4
<1>5. Printer!Width(s.read) = 0 /\ ~Printer!IsPrefix(<<Nought>>, s.read)
    BY NoWidth DEF Printer!IsPrefix
<1>6. Spells(p, 0, 0, n)
  <2>0. Printer!Negative(s, v) = FALSE
      BY <1>2
  <2>1. \E x : Numeral(x, Printer!Magnitude(s, v), 16, Printer!Lower, n) /\ p.text = Spelled(0, FALSE, 0, x)
      BY <1>1, <1>2, <1>4 DEF d
  <2> DEFINE neg == Printer!Negative(s, v)
             len == 0 + (IF neg THEN 1 ELSE 0) + 0 + n
             zero == Printer!IsPrefix(<<Nought>>, s.read)
  <2>2. len = n
      BY <1>3, <2>0
  <2> HIDE DEF len
  <2>3. len >= Printer!Width(s.read) /\ s.base \in {8, 10, 16} /\ s.signed \in BOOLEAN /\ 0 \in Nat
    <3>1. n >= 0
        BY <1>3
    <3>2. len >= Printer!Width(s.read)
        BY <1>5, <2>2, <3>1
    <3> QED BY <3>2
  <2>4. len > Printer!Width(s.read) => 0 = 0 /\ 0 = 0
      OBVIOUS
  <2>5. IF zero THEN 0 = 0 ELSE 0 = 0
      OBVIOUS
  <2>6. \E x : Numeral(x, Printer!Magnitude(s, v), s.base, Cased(s.upper), n) /\ p.text = Spelled(0, neg, 0, x)
      BY <1>2, <2>0, <2>1
  <2> HIDE DEF zero
  <2> QED BY <2>3, <2>4, <2>5, <2>6, Zenon DEF Spells, len, zero
<1> QED BY <1>3, <1>6, Reading DEF d

-----------------------------------------------------------------------------
(* Formatted output: what has been printed                                 *)

LEMMA FlatIs ==
    ASSUME NEW ss, Len(ss) \in Nat \ {0}
    PROVE  \E g : Flattened(g, ss, Len(ss)) /\ Printer!FlattenSeq(ss) = g[Len(ss)]
<1> DEFINE g == CHOOSE h : Flattened(h, ss, Len(ss))
<1>1. Flattened(g, ss, Len(ss))
    BY CanFlatten
<1>2. Printer!FlattenSeq(ss) = g[Len(ss)]
    BY DEF Printer!FlattenSeq, Flattened
<1> QED BY <1>1, <1>2

LEMMA FlatGrows ==
    ASSUME NEW ss \in Seq(Seq(Chars)), NEW t \in Seq(Chars)
    PROVE  Printer!FlattenSeq(Append(ss, t)) = Printer!FlattenSeq(ss) \o t
<1> DEFINE m == Len(ss)
           tt == Append(ss, t)
<1>1. /\ m \in Nat /\ tt \in Seq(Seq(Chars)) /\ Len(tt) = m + 1 /\ tt[m + 1] = t
      /\ \A i \in 1 .. m : tt[i] = ss[i]
    OBVIOUS
<1> HIDE DEF tt
<1>2. PICK h : Flattened(h, tt, m + 1) /\ Printer!FlattenSeq(tt) = h[m + 1]
    BY <1>1, FlatIs
<1>3. \A i \in 1 .. m + 1 : h[i] = IF i = 1 THEN tt[i] ELSE h[i-1] \o tt[i]
    BY <1>2 DEF Flattened
<1>4. CASE m = 0
  <2>1. Printer!FlattenSeq(ss) = <<>>
      BY <1>4 DEF Printer!FlattenSeq
  <2>2. h[1] = t
      BY <1>1, <1>3, <1>4
  <2> QED BY <1>2, <1>4, <2>1, <2>2, Nothing DEF tt
<1>5. CASE m # 0
  <2>1. PICK g : Flattened(g, ss, m) /\ Printer!FlattenSeq(ss) = g[m]
      BY <1>1, <1>5, FlatIs
  <2>2. \A i \in 1 .. m : g[i] = IF i = 1 THEN ss[i] ELSE g[i-1] \o ss[i]
      BY <2>1 DEF Flattened
  <2> DEFINE S == {i \in Nat : i = 0 \/ h[i] = g[i]}
  <2>3. 0 \in S
      OBVIOUS
  <2>4. ASSUME NEW i \in 1 .. m, i - 1 \in S PROVE i \in S
    <3>1. /\ g[i] = IF i = 1 THEN ss[i] ELSE g[i-1] \o ss[i]
          /\ h[i] = IF i = 1 THEN tt[i] ELSE h[i-1] \o tt[i]
          /\ tt[i] = ss[i]
        BY <1>1, <1>3, <2>2
    <3>2. i = 1 \/ h[i-1] = g[i-1]
        BY <2>4
    <3> QED BY <3>1, <3>2
  <2> HIDE DEF S
  <2>5. \A i \in 0 .. m : i \in S
      BY <1>1, <2>3, <2>4, Climb
  <2>6. h[m] = g[m]
    <3>1. m \in S
        BY <1>1, <2>5
    <3> QED BY <1>5, <3>1 DEF S
  <2>7. h[m + 1] = h[m] \o t
    <3>1. m + 1 \in 1 .. m + 1 /\ m + 1 # 1 /\ (m + 1) - 1 = m
        BY <1>1, <1>5
    <3> QED BY <1>1, <1>3, <3>1
  <2> QED BY <1>2, <2>1, <2>6, <2>7 DEF tt
<1> QED BY <1>4, <1>5

TextsOf(ps) == [i \in DOMAIN ps |-> ps[i].text]

\* The pieces ps are as they should be, and put together they give o.
Tells(ps, o) ==
    /\ ps \in Seq(Printer!Range(ps))
    /\ \A i \in 1 .. Len(ps) : PieceSound(ps[i]) /\ ps[i].text \in Seq(Chars)
    /\ o \in Seq(Chars) /\ o = Printer!FlattenSeq(TextsOf(ps))

LEMMA NothingTold == Tells(<<>>, <<>>)
BY DEF Tells, TextsOf, Printer!FlattenSeq, Printer!Range

LEMMA TellsMore ==
    ASSUME NEW ps, NEW o, Tells(ps, o), NEW p, PieceSound(p), p.text \in Seq(Chars)
    PROVE  Tells(Append(ps, p), o \o p.text)
<1> DEFINE S == Printer!Range(ps) \cup {p}
           qs == Append(ps, p)
           n == Len(ps)
<1>1. /\ ps \in Seq(Printer!Range(ps)) /\ o \in Seq(Chars) /\ o = Printer!FlattenSeq(TextsOf(ps))
      /\ \A i \in 1 .. n : PieceSound(ps[i]) /\ ps[i].text \in Seq(Chars)
    BY DEF Tells
<1>2. ps \in Seq(S) /\ n \in Nat
    BY <1>1
<1> HIDE DEF S
<1>3. p \in S
    BY DEF S
<1>4. /\ qs \in Seq(S) /\ Len(qs) = n + 1 /\ qs[n + 1] = p /\ \A i \in 1 .. n : qs[i] = ps[i]
    BY <1>2, <1>3
<1> HIDE DEF qs
<1>5. qs \in Seq(Printer!Range(qs))
  <2>1. DOMAIN qs = 1 .. Len(qs)
      BY <1>4
  <2>2. \A i \in 1 .. Len(qs) : qs[i] \in Printer!Range(qs)
      BY <2>1 DEF Printer!Range
  <2> QED BY <1>4, <2>2
<1>6. \A i \in 1 .. Len(qs) : PieceSound(qs[i]) /\ qs[i].text \in Seq(Chars)
  <2>1. \A i \in 1 .. n + 1 : i \in 1 .. n \/ i = n + 1
      BY <1>2
  <2> QED BY <1>1, <1>4, <2>1
<1>7. TextsOf(qs) = Append(TextsOf(ps), p.text) /\ TextsOf(ps) \in Seq(Seq(Chars))
  <2> DEFINE x == TextsOf(ps)
             y == TextsOf(qs)
             z == Append(x, p.text)
  <2>1. x \in Seq(Seq(Chars)) /\ Len(x) = n /\ \A i \in 1 .. n : x[i] = ps[i].text
    <3>1. DOMAIN ps = 1 .. n
        BY <1>2
    <3> QED BY <1>1, <1>2, <3>1 DEF TextsOf
  <2>2. y \in Seq(Seq(Chars)) /\ Len(y) = n + 1 /\ \A i \in 1 .. n + 1 : y[i] = qs[i].text
    <3>1. DOMAIN qs = 1 .. n + 1 /\ n + 1 \in Nat
        BY <1>2, <1>4
    <3> QED BY <1>4, <1>6, <3>1 DEF TextsOf
  <2> HIDE DEF x, y
  <2>3. /\ z \in Seq(Seq(Chars)) /\ Len(z) = n + 1 /\ z[n + 1] = p.text
        /\ \A i \in 1 .. n : z[i] = x[i]
      BY <2>1
  <2> HIDE DEF z
  <2>4. \A i \in 1 .. n + 1 : y[i] = z[i]
    <3>1. \A i \in 1 .. n + 1 : i \in 1 .. n \/ i = n + 1
        BY <1>2
    <3> QED BY <1>4, <2>1, <2>2, <2>3, <3>1
  <2>5. y = z
      BY <2>2, <2>3, <2>4, SameSeq
  <2> QED BY <2>1, <2>5 DEF x, y, z
<1>8. Printer!FlattenSeq(TextsOf(qs)) = o \o p.text
    BY <1>1, <1>7, FlatGrows
<1>9. o \o p.text \in Seq(Chars)
    BY <1>1, Concat
<1>10. Tells(qs, o \o p.text)
    BY <1>5, <1>6, <1>8, <1>9 DEF Tells
<1> QED BY <1>10 DEF qs

LEMMA TwoParts ==
    ASSUME NEW s \in Seq(Chars), NEW k \in 0 .. Len(s)
    PROVE  LET x == SubSeq(s, 1, k)
               y == SubSeq(s, k + 1, Len(s))
           IN  x \in Seq(Chars) /\ y \in Seq(Chars) /\ x \o y = s /\ Len(y) = Len(s) - k
<1> DEFINE x == SubSeq(s, 1, k)
           y == SubSeq(s, k + 1, Len(s))
           u == x \o y
<1>0. Len(s) \in Nat
    OBVIOUS
<1>1. /\ x \in Seq(Chars) /\ Len(x) = k /\ \A i \in 1 .. k : x[i] = s[i]
    BY <1>0
<1>2. /\ y \in Seq(Chars) /\ Len(y) = Len(s) - k /\ \A i \in 1 .. Len(s) - k : y[i] = s[k + i]
    BY <1>0
<1> HIDE DEF x, y
<1>3. /\ u \in Seq(Chars) /\ Len(u) = Len(x) + Len(y)
      /\ \A i \in 1 .. Len(x) : u[i] = x[i]
      /\ \A i \in 1 .. Len(y) : u[Len(x) + i] = y[i]
      /\ \A i \in 1 .. Len(u) : i \in 1 .. Len(x) \/ (i - Len(x) \in 1 .. Len(y) /\ u[i] = y[i - Len(x)])
    BY <1>1, <1>2, Concat
<1> HIDE DEF u
<1>4. \A i \in 1 .. Len(s) : u[i] = s[i]
  <2> SUFFICES ASSUME NEW i \in 1 .. Len(s) PROVE u[i] = s[i]
      OBVIOUS
  <2>1. CASE i \in 1 .. k
      BY <1>1, <1>3, <2>1
  <2>2. CASE i \notin 1 .. k
    <3>1. i \in 1 .. Len(u) /\ i \notin 1 .. Len(x) /\ k + (i - k) = i
        BY <1>0, <1>1, <1>2, <1>3, <2>2
    <3>2. i - k \in 1 .. Len(y) /\ u[i] = y[i - k]
        BY <1>1, <1>3, <3>1
    <3>3. y[i - k] = s[k + (i - k)]
        BY <1>2, <3>2
    <3> QED BY <3>1, <3>2, <3>3
  <2> QED BY <2>1, <2>2
<1>5. u = s
  <2>1. Len(u) = Len(s)
      BY <1>0, <1>1, <1>2, <1>3
  <2> QED BY <1>3, <1>4, <2>1, SameSeq
<1> QED BY <1>1, <1>2, <1>5 DEF u, x, y

-----------------------------------------------------------------------------
(* Formatted output: the parser's settings                                 *)

SpecType == [zero : BOOLEAN, base : {8, 10, 16}, signed : BOOLEAN, upper : BOOLEAN,
             before : Int, after : Int, read : Seq(Marks)]

\* The settings are those that the characters of the directive ask for.
SpecSound(s) == s \in SpecType /\ Asked(s) /\ (s.after < 0 <=> Pointless(s.read))

\* r begins with a zero.
Leads(r) == Len(r) > 0 /\ r[1] = Nought

LEMMA LeadsIs ==
    ASSUME NEW r \in Seq(Marks)
    PROVE  Printer!IsPrefix(<<Nought>>, r) <=> Leads(r)
<1> DEFINE z == <<Nought>>
           x == SubSeq(z, 1, 1)
           y == SubSeq(r, 1, 1)
<1>1. Nought \in Marks
    BY DecimalsAre DEF Nought, Marks, Printer!Range
<1>2. z \in Seq(Marks) /\ Len(z) = 1 /\ z[1] = Nought
    BY <1>1
<1> HIDE DEF z
<1>3. x \in Seq(Marks) /\ Len(x) = 1 /\ x[1] = Nought
    BY <1>2
<1>4. CASE Len(r) > 0
  <2>1. y \in Seq(Marks) /\ Len(y) = 1 /\ y[1] = r[1]
      BY <1>4
  <2> HIDE DEF x, y
  <2>2. x = y <=> r[1] = Nought
    <3>1. x = y => x[1] = y[1]
        OBVIOUS
    <3>2. ASSUME r[1] = Nought PROVE x = y
      <4>1. \A i \in 1 .. Len(x) : x[i] = y[i]
          BY <1>3, <2>1, <3>2
      <4> QED BY <1>3, <2>1, <4>1, SameSeq
    <3> QED BY <1>3, <2>1, <3>1, <3>2
  <2> QED BY <1>2, <1>4, <2>2 DEF Printer!IsPrefix, Leads, x, y
<1>5. CASE ~(Len(r) > 0)
    BY <1>2, <1>5 DEF Printer!IsPrefix, Leads
<1> QED BY <1>4, <1>5 DEF z

LEMMA AskedIs ==
    ASSUME NEW s \in SpecType
    PROVE  Asked(s) <=> Printer!Width(s.read) = AtLeast0(s.before) /\ (s.zero <=> Leads(s.read))
<1>1. s.read \in Seq(Marks)
    BY DEF SpecType
<1> QED BY <1>1, LeadsIs DEF Asked

LEMMA NoSpecSound == SpecSound(Printer!NoSpec) /\ Printer!NoSpec.read = <<>>
<1> DEFINE s == Printer!NoSpec
<1>1. s \in SpecType /\ s.read = <<>> /\ s.before = -1 /\ s.after = -1 /\ s.zero = FALSE
    BY DEF Printer!NoSpec, SpecType
<1> HIDE DEF s
<1>2. Printer!Width(s.read) = AtLeast0(s.before)
    BY <1>1, NoWidth DEF AtLeast0
<1>3. ~Leads(s.read) /\ Pointless(s.read)
    BY <1>1 DEF Leads, Pointless
<1>4. Asked(s)
    BY <1>1, <1>2, <1>3, AskedIs
<1> QED BY <1>1, <1>3, <1>4 DEF SpecSound, s

LEMMA TypedSound ==
    ASSUME NEW s, SpecSound(s), NEW c \in Printer!Numeric
    PROVE  SpecSound(Printer!Typed(c, s))
<1> DEFINE t == Printer!Typed(c, s)
<1>1. s \in SpecType
    BY DEF SpecSound
<1>2. /\ t \in SpecType /\ t.read = s.read /\ t.before = s.before /\ t.after = s.after
      /\ t.zero = s.zero
    BY <1>1 DEF SpecType, Printer!Typed, Printer!Numeric
<1> HIDE DEF t
<1>3. Asked(t)
    BY <1>2 DEF SpecSound, Asked
<1> QED BY <1>2, <1>3 DEF SpecSound, t

LEMMA ZeroSound == SpecSound([Printer!NoSpec EXCEPT !.zero = TRUE, !.read = <<Nought>>])
<1> DEFINE none == <<>>
           r == Append(none, Nought)
           s == [Printer!NoSpec EXCEPT !.zero = TRUE, !.read = r]
<1>0. none \in Seq(Marks) /\ Len(none) = 0 /\ Printer!Width(none) = 0
    BY NoWidth
<1>1. Nought \in Marks /\ Printer!IsDigit(Nought) /\ Nought # Dot /\ Printer!Worth(Nought) = 0
  <2>1. Printer!Decimals[1] = Nought /\ 1 \in DOMAIN Printer!Decimals /\ Nought # Dot
      BY DecimalsAre DEF Nought, Dot
  <2>2. Nought \in Printer!Range(Printer!Decimals)
      BY <2>1 DEF Printer!Range
  <2>3. Printer!Worth(Nought) = 0
    <3>1. Printer!Lower[1] = Nought /\ Printer!Lower \in Alphabets /\ 1 \in 1 .. 16
        BY LowerIs DEF Alphabets, Nought
    <3>2. Printer!Worth(Printer!Lower[1]) = 1 - 1
        BY <3>1, Digit
    <3> QED BY <3>1, <3>2
  <2> QED BY <2>1, <2>2, <2>3 DEF Marks, Printer!IsDigit
<1>2. r \in Seq(Marks) /\ Len(r) = 1 /\ r[1] = Nought
    BY <1>1
<1>3. Pointless(none)
    BY <1>0 DEF Pointless
<1>5. r = <<Nought>>
    OBVIOUS
<1>4. Printer!Width(r) = 0 /\ Pointless(r)
  <2> HIDE DEF none
  <2>1. Printer!Width(r) = WidthThen(none, Nought) /\ (Pointless(r) <=> Pointless(none) /\ Nought # Dot)
      BY <1>0, <1>1, WidthGrows
  <2> HIDE DEF r
  <2> QED BY <1>0, <1>1, <1>3, <2>1 DEF WidthThen
<1> HIDE DEF r
<1>6. /\ s \in SpecType /\ s.read = r /\ s.zero = TRUE /\ s.before = -1 /\ s.after = -1
  <2> DEFINE n == Printer!NoSpec
  <2>1. n \in SpecType /\ n.before = -1 /\ n.after = -1
    <3>1. n.before = -1 /\ n.after = -1
        BY DEF Printer!NoSpec
    <3> QED BY <3>1, NoSpecSound DEF SpecSound
  <2> HIDE DEF n
  <2>2. s = [n EXCEPT !.zero = TRUE, !.read = r]
      BY DEF n
  <2> HIDE DEF s
  <2> QED BY <1>2, <2>1, <2>2 DEF SpecType
<1> HIDE DEF s
<1>7. Leads(r)
    BY <1>2 DEF Leads
<1>8. Asked(s)
    BY <1>4, <1>6, <1>7, AskedIs DEF AtLeast0
<1> QED BY <1>4, <1>5, <1>6, <1>8 DEF SpecSound, s

\* What a character of a directive makes of the settings.
Takes(s, c, t) ==
    LET a == [s EXCEPT !.read = Append(@, c)] IN
    t = CASE c = Dot -> [a EXCEPT !.after = 0]
          [] c = Ell -> a
          [] Printer!IsDigit(c) /\ a.after < 0 -> [a EXCEPT !.before = (IF @ < 0 THEN 0 ELSE 10 * @) + Printer!DigitOf(c)]
          [] OTHER -> [a EXCEPT !.after = 10 * @ + Printer!DigitOf(c)]

LEMMA TakesSound ==
    ASSUME NEW s, SpecSound(s), NEW c, c \in {Dot, Ell} \/ Printer!IsDigit(c),
           Len(s.read) = 0 => c # Nought, NEW t, Takes(s, c, t)
    PROVE  SpecSound(t) /\ t.read # <<>>
<1> DEFINE r == s.read
           q == Append(r, c)
           before == s.before
           after == s.after
           w == Printer!Width(r)
<1>0. c \in Marks
    BY DotIs DEF Marks, Printer!IsDigit
<1>1. /\ s \in SpecType /\ r \in Seq(Marks) /\ before \in Int /\ after \in Int /\ s.zero \in BOOLEAN
      /\ (after < 0 <=> Pointless(r))
    BY DEF SpecSound, SpecType
<1>2. w = AtLeast0(before) /\ (s.zero <=> Leads(r))
    BY <1>1, AskedIs DEF SpecSound
<1>3. w \in Nat /\ Printer!Width(q) = WidthThen(r, c) /\ (Pointless(q) <=> Pointless(r) /\ c # Dot)
    BY <1>0, <1>1, WidthGrows
<1>4. /\ q \in Seq(Marks) /\ Len(r) \in Nat /\ Len(q) = Len(r) + 1 /\ q # <<>>
      /\ q[Len(r) + 1] = c /\ \A i \in 1 .. Len(r) : q[i] = r[i]
    BY <1>0, <1>1
<1>5. Leads(q) <=> Leads(r)
  <2> HIDE DEF q, r
  <2>1. CASE Len(r) = 0
    <3>1. q[1] # Nought
        BY <1>4, <2>1 DEF r
    <3> QED BY <2>1, <3>1 DEF Leads
  <2>2. CASE Len(r) # 0
    <3>1. 1 \in 1 .. Len(r)
        BY <1>4, <2>2
    <3> QED BY <1>4, <2>2, <3>1 DEF Leads
  <2> QED BY <2>1, <2>2
<1> DEFINE a == [s EXCEPT !.read = q]
<1>6. a \in SpecType /\ a.read = q /\ a.before = before /\ a.after = after /\ a.zero = s.zero
    BY <1>1, <1>4 DEF SpecType
<1>7. t = CASE c = Dot -> [a EXCEPT !.after = 0]
            [] c = Ell -> a
            [] Printer!IsDigit(c) /\ after < 0 -> [a EXCEPT !.before = (IF before < 0 THEN 0 ELSE 10 * before) + Printer!DigitOf(c)]
            [] OTHER -> [a EXCEPT !.after = 10 * after + Printer!DigitOf(c)]
    BY <1>1, <1>6 DEF Takes, SpecType
<1> HIDE DEF a, q, r, before, after, w
<1>8. ASSUME t \in SpecType, t.read = q, t.zero = s.zero, Printer!Width(q) = AtLeast0(t.before),
             t.after < 0 <=> Pointless(q)
      PROVE  SpecSound(t) /\ t.read # <<>>
  <2>1. Asked(t)
      BY <1>2, <1>5, <1>8, AskedIs
  <2> QED BY <1>4, <1>8, <2>1 DEF SpecSound
<1>9. CASE c = Dot
  <2>1. t = [a EXCEPT !.after = 0]
      BY <1>7, <1>9, DotIs, DotNoDigit
  <2>2. t \in SpecType /\ t.read = q /\ t.zero = s.zero /\ t.before = before /\ t.after = 0
      BY <1>6, <2>1 DEF SpecType
  <2>3. Printer!Width(q) = w
      BY <1>3, <1>9, DotNoDigit DEF WidthThen, w, r
  <2> QED BY <1>2, <1>3, <1>8, <1>9, <2>2, <2>3
<1>10. CASE c = Ell
  <2>1. t = a /\ c # Dot
      BY <1>7, <1>10, DotIs, DotNoDigit
  <2>3. Printer!Width(q) = w
      BY <1>3, <1>10, DotNoDigit DEF WidthThen, w, r
  <2> QED BY <1>1, <1>2, <1>3, <1>6, <1>8, <2>1, <2>3
<1>11. CASE Printer!IsDigit(c)
  <2>1. c # Dot /\ c # Ell
      BY <1>11, DotNoDigit
  <2> DEFINE d == Printer!DigitOf(c)
  <2>2. d \in Nat /\ d = Printer!Worth(c)
      BY <1>11, DigitsOf
  <2> HIDE DEF d
  <2>3. CASE after < 0
    <3> DEFINE b == (IF before < 0 THEN 0 ELSE 10 * before) + d
    <3>1. t = [a EXCEPT !.before = b]
        BY <1>7, <1>11, <2>1, <2>3 DEF d
    <3>2. b \in Int
        BY <1>1, <2>2
    <3>3. b = 10 * w + d /\ b >= 0
      <4>1. CASE before < 0
          BY <1>1, <1>2, <2>2, <4>1 DEF AtLeast0
      <4>2. CASE ~(before < 0)
          BY <1>1, <1>2, <2>2, <4>2 DEF AtLeast0
      <4> QED BY <4>1, <4>2
    <3> HIDE DEF b
    <3>4. t \in SpecType /\ t.read = q /\ t.zero = s.zero /\ t.before = b /\ t.after = after
        BY <1>6, <3>1, <3>2 DEF SpecType
    <3>5. Printer!Width(q) = b
        BY <1>1, <1>3, <1>11, <2>2, <2>3, <3>3 DEF WidthThen, w, r
    <3>6. AtLeast0(b) = b
        BY <3>2, <3>3 DEF AtLeast0
    <3> QED BY <1>1, <1>3, <1>8, <2>1, <2>3, <3>4, <3>5, <3>6
  <2>4. CASE ~(after < 0)
    <3> DEFINE b == 10 * after + d
    <3>1. t = [a EXCEPT !.after = b]
        BY <1>7, <2>1, <2>4 DEF d
    <3>2. b \in Int /\ ~(b < 0)
        BY <1>1, <2>2, <2>4
    <3> HIDE DEF b
    <3>4. t \in SpecType /\ t.read = q /\ t.zero = s.zero /\ t.before = before /\ t.after = b
        BY <1>6, <3>1, <3>2 DEF SpecType
    <3>5. Printer!Width(q) = w /\ ~Pointless(q)
        BY <1>1, <1>3, <2>4 DEF WidthThen, w, r
    <3> QED BY <1>2, <1>8, <3>2, <3>4, <3>5
  <2> QED BY <2>3, <2>4
<1> QED BY <1>9, <1>10, <1>11

-----------------------------------------------------------------------------
(* Formatted output: the invariant                                         *)

Parsing ==
    /\ state \in {"chars", "first", "other"} /\ fmt \in Seq(Chars) /\ SpecSound(spec)
    /\ printf_pc = "printf" \/ state = "first" => spec = Printer!NoSpec
    /\ state = "other" => spec.read # <<>>

Printing ==
    /\ printf_pc \in {"idle", "log", "printf"}
    /\ buf \in Seq(Chars) /\ printed \in Seq(Chars) /\ Len(buf) < ALT_PUTBUF_SIZE
    /\ printf_pc # "printf" => buf = <<>>
    /\ Tells(pieces, printed \o buf)

PrintInv == Parsing /\ Printing

LEMMA PrintIsSound == PrintInv => Printer!TypeOK /\ Printer!PrintfSound
<1> SUFFICES ASSUME PrintInv PROVE Printer!TypeOK /\ Printer!PrintfSound
    OBVIOUS
<1>1. Printer!TypeOK
  <2>1. spec \in SpecType
      BY DEF PrintInv, Parsing, SpecSound
  <2>2. spec \in [zero : BOOLEAN, base : {8, 10, 16}, signed : BOOLEAN, upper : BOOLEAN,
                  before : Int, after : Int, read : Seq(Printer!Range(Printer!Decimals) \cup {".", "l"})]
      BY <2>1, Zenon DEF SpecType, Marks
  <2>3. /\ printf_pc \in {"idle", "log", "printf"} /\ state \in {"chars", "first", "other"}
        /\ Len(buf) < ALT_PUTBUF_SIZE
      BY DEF PrintInv, Parsing, Printing
  <2> QED BY <2>2, <2>3, Zenon DEF Printer!TypeOK
<1>2. /\ pieces \in Seq(Printer!Range(pieces)) /\ \A i \in 1 .. Len(pieces) : PieceSound(pieces[i])
      /\ printed \o buf = Printer!FlattenSeq(TextsOf(pieces))
    BY DEF PrintInv, Printing, Tells
<1>3. Printer!PiecesSound
  <2>1. DOMAIN pieces = 1 .. Len(pieces)
      BY <1>2
  <2>2. \A i \in DOMAIN pieces : PieceSound(pieces[i])
      BY <1>2, <2>1
  <2> QED BY <2>2, Zenon DEF Printer!PiecesSound, PieceSound
<1>4. Printer!AllPrinted
  <2>1. ASSUME printf_pc = "idle" PROVE buf = <<>> /\ printed \o buf = printed
      BY <2>1 DEF PrintInv, Printing
  <2>2. Printer!FlattenSeq(TextsOf(pieces)) =
            Printer!FlattenSeq([i \in DOMAIN pieces |-> pieces[i].text])
      BY DEF TextsOf
  <2> QED BY <1>2, <2>1, <2>2 DEF Printer!AllPrinted
<1> QED BY <1>1, <1>3, <1>4 DEF Printer!PrintfSound

LEMMA PrintInit ==
    ASSUME Printer!PrintfAssumption, Printer!Init
    PROVE  PrintInv
<1>0. ALT_PUTBUF_SIZE \in Nat \ {0}
    BY DEF Printer!PrintfAssumption
<1> DEFINE none == <<>>
<1>1. /\ printf_pc = "idle" /\ fmt = none /\ state = "chars" /\ spec = Printer!NoSpec
      /\ buf = none /\ printed = none /\ pieces = none
    BY DEF Printer!Init
<1>2. none \in Seq(Chars) /\ Len(none) = 0 /\ none \o none = none /\ Tells(none, none)
    BY NothingTold
<1> HIDE DEF none
<1>3. Parsing
    BY <1>1, <1>2, NoSpecSound DEF Parsing
<1>4. Printing
    BY <1>0, <1>1, <1>2 DEF Printing
<1> QED BY <1>3, <1>4 DEF PrintInv

\* A printf that prints a piece at once, and one that prints it through the buffer.
LEMMA Printed ==
    ASSUME Printing, printf_pc = "log", UNCHANGED <<printf_pc, buf>>,
           NEW p, PieceSound(p), p.text \in Seq(Chars), Printer!Prints(p)
    PROVE  Printing'
<1> DEFINE text == p.text
<1>1. /\ buf = <<>> /\ printed \in Seq(Chars) /\ Len(buf) < ALT_PUTBUF_SIZE
      /\ Tells(pieces, printed \o buf)
    BY DEF Printing
<1>2. printed \o buf = printed /\ Tells(pieces, printed)
    BY <1>1
<1>3. printed' = printed \o text /\ pieces' = Append(pieces, p)
    BY DEF Printer!Prints
<1>4. Tells(pieces', printed') /\ printed' \in Seq(Chars)
    BY <1>1, <1>2, <1>3, TellsMore, Concat
<1>5. printed' \o buf' = printed' /\ buf' \in Seq(Chars)
    BY <1>1, <1>4
<1>6. printf_pc' = "log" /\ buf' = <<>> /\ Len(buf') < ALT_PUTBUF_SIZE
    BY <1>1
<1> QED BY <1>4, <1>5, <1>6 DEF Printing

LEMMA PutIs ==
    ASSUME Printer!PrintfAssumption, Printing, printf_pc = "printf", UNCHANGED printf_pc,
           NEW p, PieceSound(p), p.text \in Seq(Chars), Printer!Puts(p)
    PROVE  Printing'
<1> DEFINE text == p.text
           all == buf \o text
           full == Len(all) - (Len(all) % ALT_PUTBUF_SIZE)
           x == SubSeq(all, 1, full)
           y == SubSeq(all, full + 1, Len(all))
<1>0. ALT_PUTBUF_SIZE \in Nat \ {0}
    BY DEF Printer!PrintfAssumption
<1>1. /\ buf \in Seq(Chars) /\ printed \in Seq(Chars) /\ Tells(pieces, printed \o buf)
    BY DEF Printing
<1>2. pieces' = Append(pieces, p) /\ printed' = printed \o x /\ buf' = y
    BY DEF Printer!Puts, Printer!Buffered
<1>3. Tells(pieces', (printed \o buf) \o text)
    BY <1>1, <1>2, TellsMore
<1>4. all \in Seq(Chars) /\ Len(all) \in Nat
    BY <1>1, Concat
<1> HIDE DEF all
<1>5. full \in 0 .. Len(all) /\ Len(all) - full < ALT_PUTBUF_SIZE /\ Len(all) - full \in Nat
  <2> DEFINE n == Len(all)
             m == n % ALT_PUTBUF_SIZE
  <2>1. n \in Nat /\ m \in 0 .. ALT_PUTBUF_SIZE - 1 /\ m <= n
      BY <1>0, <1>4
  <2> HIDE DEF n, m
  <2>2. n - m \in 0 .. n /\ n - (n - m) = m /\ m < ALT_PUTBUF_SIZE /\ m \in Nat
      BY <1>0, <2>1
  <2> QED BY <2>2 DEF n, m
<1> HIDE DEF full
<1>6. x \in Seq(Chars) /\ y \in Seq(Chars) /\ x \o y = all /\ Len(y) = Len(all) - full
    BY <1>4, <1>5, TwoParts
<1> HIDE DEF x, y
<1>7. printed' \in Seq(Chars) /\ buf' \in Seq(Chars) /\ Len(buf') < ALT_PUTBUF_SIZE
    BY <1>1, <1>2, <1>5, <1>6, Concat
<1>8. printed' \o buf' = (printed \o buf) \o text
  <2>1. (printed \o x) \o y = printed \o (x \o y)
      BY <1>1, <1>6, CharsInARow
  <2>2. (printed \o buf) \o text = printed \o (buf \o text)
      BY <1>1, CharsInARow
  <2> QED BY <1>2, <1>6, <2>1, <2>2 DEF all
<1> QED BY <1>3, <1>7, <1>8 DEF Printing

LEMMA Silent ==
    ASSUME Printing, UNCHANGED <<printf_pc, buf, printed, pieces>>
    PROVE  Printing'
BY DEF Printing

Zed == "z"

LEMMA ZedIs == Zed \in Chars
BY DEF Zed, Chars

\* The parser steps on.
LEMMA TakesIs ==
    ASSUME fmt \in Seq(Chars), NEW r, NEW c, Printer!Takes(r, c)
    PROVE  printf_pc = r /\ c \in Chars /\ fmt' \in Seq(Chars)
<1>1. printf_pc = r /\ fmt # <<>> /\ c = Head(fmt) /\ fmt' = Tail(fmt)
    BY DEF Printer!Takes
<1> QED BY <1>1

LEMMA ParsedOn ==
    ASSUME Parsing, UNCHANGED <<printf_pc, state, spec>>, fmt' \in Seq(Chars)
    PROVE  Parsing'
BY DEF Parsing

\* A character that is printed as it is.
LEMMA PlainPiece ==
    ASSUME NEW s, NEW c \in Chars
    PROVE  LET p == Printer!Piece("", s, c, <<c>>)
           IN  PieceSound(p) /\ p.text \in Seq(Chars)
<1> DEFINE p == Printer!Piece("", s, c, <<c>>)
<1>1. p.letter = "" /\ p.text = <<c>>
    BY DEF Printer!Piece
<1>2. "" \notin Printer!Numeric /\ "" \notin {"c", "s"}
    BY DEF Printer!Numeric
<1>3. <<c>> \in Seq(Chars)
    OBVIOUS
<1> HIDE DEF p
<1> QED BY <1>1, <1>2, <1>3 DEF PieceSound, p

LEMMA PrintCallKept ==
    ASSUME Printer!PrintfAssumption, PrintInv, NEW routine \in {"log", "printf"}, NEW formats,
           formats = LogFormats \/ formats = Formats, Printer!Call(routine, formats)
    PROVE  PrintInv'
<1>1. PICK f \in formats : fmt' = f
    BY DEF Printer!Call
<1>2. fmt' \in Seq(Chars)
  <2>1. f \in LogFormats \cup Formats \cup Strings
      BY <1>1
  <2>2. f \in Seq(Printer!Range(f))
      BY <2>1 DEF Printer!PrintfAssumption
  <2>3. Printer!Range(f) \subseteq Chars
      BY <2>1 DEF Chars
  <2>4. f \in Seq(Chars)
      BY <2>2, <2>3
  <2> QED BY <1>1, <2>4
<1> DEFINE none == <<>>
<1>3. /\ printf_pc = "idle" /\ printf_pc' = routine /\ printed' = none /\ pieces' = none
      /\ state' = "chars" /\ spec' = Printer!NoSpec /\ buf' = buf
    BY DEF Printer!Call
<1>4. buf = none /\ Len(buf) < ALT_PUTBUF_SIZE /\ none \in Seq(Chars) /\ none \o none = none
      /\ Tells(none, none)
    BY <1>3, NothingTold DEF PrintInv, Printing
<1> HIDE DEF none
<1>5. Parsing'
    BY <1>2, <1>3, NoSpecSound DEF Parsing
<1>6. Printing'
    BY <1>3, <1>4 DEF Printing, none
<1> QED BY <1>5, <1>6 DEF PrintInv

LEMMA CharsKept ==
    ASSUME PrintInv, NEW c, Printer!LogChars(c)
    PROVE  PrintInv'
<1>1. printf_pc = "log" /\ c \in Chars /\ fmt' \in Seq(Chars)
    BY TakesIs DEF PrintInv, Parsing, Printer!LogChars
<1>2. state = "chars" /\ UNCHANGED <<printf_pc, buf>>
    BY DEF Printer!LogChars
<1>3. CASE c = "%"
  <2>1. spec' = Printer!NoSpec /\ state' = "first" /\ UNCHANGED <<printed, pieces>>
      BY <1>3 DEF Printer!LogChars
  <2>2. Parsing'
      BY <1>1, <2>1, NoSpecSound DEF Parsing
  <2> QED BY <1>2, <2>1, <2>2, Silent DEF PrintInv
<1>4. CASE c # "%"
  <2> DEFINE p == Printer!Piece("", spec, c, <<c>>)
  <2>1. Printer!Prints(p) /\ UNCHANGED <<state, spec>>
      BY <1>4 DEF Printer!LogChars
  <2>2. PieceSound(p) /\ p.text \in Seq(Chars)
      BY <1>1, PlainPiece
  <2> HIDE DEF p
  <2> QED BY <1>1, <1>2, <2>1, <2>2, ParsedOn, Printed DEF PrintInv
<1> QED BY <1>3, <1>4

LEMMA FirstKept ==
    ASSUME PrintInv, NEW c, Printer!LogFirst(c)
    PROVE  PrintInv'
<1>1. printf_pc = "log" /\ c \in Chars /\ fmt' \in Seq(Chars)
    BY TakesIs DEF PrintInv, Parsing, Printer!LogFirst
<1>2. state = "first" /\ UNCHANGED <<printf_pc, buf>>
    BY DEF Printer!LogFirst
<1>3. spec = Printer!NoSpec /\ SpecSound(spec)
    BY <1>2 DEF PrintInv, Parsing
<1>4. CASE c = "0" /\ spec' = [spec EXCEPT !.zero = TRUE, !.read = <<c>>] /\ state' = "other"
              /\ UNCHANGED <<printed, pieces>>
  <2>1. spec' = [Printer!NoSpec EXCEPT !.zero = TRUE, !.read = <<Nought>>]
      BY <1>3, <1>4, Zenon DEF Nought
  <2>2. SpecSound(spec')
      BY <2>1, ZeroSound
  <2>3. spec'.read # <<>>
    <3>1. spec'.read = <<Nought>>
        BY <2>1 DEF Printer!NoSpec
    <3> QED BY <3>1
  <2>4. Parsing'
      BY <1>1, <1>2, <1>4, <2>2, <2>3 DEF Parsing
  <2> QED BY <1>2, <1>4, <2>4, Silent DEF PrintInv
<1>5. CASE /\ Printer!Prints(Printer!Piece("", spec, c, <<c>>)) /\ state' = "chars"
           /\ UNCHANGED spec
  <2> DEFINE p == Printer!Piece("", spec, c, <<c>>)
  <2>1. Printer!Prints(p)
      BY <1>5
  <2>2. PieceSound(p) /\ p.text \in Seq(Chars)
      BY <1>1, PlainPiece
  <2>3. Parsing'
      BY <1>1, <1>2, <1>3, <1>5 DEF Parsing
  <2> HIDE DEF p
  <2> QED BY <1>1, <1>2, <2>1, <2>2, <2>3, Printed DEF PrintInv
<1> QED BY <1>4, <1>5 DEF Printer!LogFirst

\* A character of a directive does not begin it with a zero.
LEMMA RestIs ==
    ASSUME PrintInv, NEW c, Printer!Rest(c)
    PROVE  /\ printf_pc = "log" /\ c \in Chars /\ fmt' \in Seq(Chars) /\ UNCHANGED <<printf_pc, buf>>
           /\ SpecSound(spec) /\ (Len(spec.read) = 0 => c # Nought)
<1>1. printf_pc = "log" /\ c \in Chars /\ fmt' \in Seq(Chars)
    BY TakesIs DEF PrintInv, Parsing, Printer!Rest
<1>2. UNCHANGED <<printf_pc, buf>>
    BY Zenon DEF Printer!Rest
<1>3. state = "other" \/ c # Nought
    BY Zenon DEF Printer!Rest, Nought
<1>4. SpecSound(spec) /\ (state = "other" => spec.read # <<>>)
    BY DEF PrintInv, Parsing
<1>5. ASSUME Len(spec.read) = 0 PROVE c # Nought
  <2>1. spec.read \in Seq(Marks)
      BY <1>4 DEF SpecSound, SpecType
  <2>2. spec.read = <<>>
      BY <1>5, <2>1
  <2> QED BY <1>3, <1>4, <2>2
<1> QED BY <1>1, <1>2, <1>4, <1>5

LEMMA WidthKept ==
    ASSUME PrintInv, NEW c, Printer!LogWidth(c)
    PROVE  PrintInv'
<1>1. Printer!Rest(c)
    BY Zenon DEF Printer!LogWidth
<1>2. c \in {Dot, Ell} \/ Printer!IsDigit(c)
    BY Zenon DEF Printer!LogWidth, Dot, Ell
<1>3. Takes(spec, c, spec')
    BY Zenon DEF Printer!LogWidth, Takes, Dot, Ell
<1>4. state' = "other" /\ UNCHANGED <<printed, pieces>>
    BY Zenon DEF Printer!LogWidth
<1>5. /\ printf_pc = "log" /\ c \in Chars /\ fmt' \in Seq(Chars) /\ UNCHANGED <<printf_pc, buf>>
      /\ SpecSound(spec) /\ (Len(spec.read) = 0 => c # Nought)
    BY <1>1, RestIs
<1>6. SpecSound(spec') /\ spec'.read # <<>>
    BY <1>2, <1>3, <1>5, TakesSound
<1>7. Parsing'
    BY <1>4, <1>5, <1>6 DEF Parsing
<1> QED BY <1>4, <1>5, <1>7, Silent DEF PrintInv

LEMMA ValueIs ==
    ASSUME Printer!PrintfAssumption, NEW v \in Values
    PROVE  v \in Nat /\ v < Printer!Power(2, Bits)
<1>1. Bits \in Nat /\ Values \subseteq 0 .. Printer!Power(2, Bits) - 1
    BY DEF Printer!PrintfAssumption
<1>2. Printer!Power(2, Bits) \in Nat \ {0}
    BY <1>1, PowerNat
<1> QED BY <1>1, <1>2

LEMMA StringIs ==
    ASSUME Printer!PrintfAssumption, NEW s \in Strings
    PROVE  s \in Seq(Chars)
<1>1. s \in LogFormats \cup Formats \cup Strings
    OBVIOUS
<1>2. s \in Seq(Printer!Range(s))
    BY <1>1 DEF Printer!PrintfAssumption
<1>3. Printer!Range(s) \subseteq Chars
    BY <1>1 DEF Chars
<1> QED BY <1>2, <1>3

\* A number, a character and a string as the log prints them.
LEMMA NumberPiece ==
    ASSUME Printer!PrintfAssumption, NEW s, SpecSound(s), NEW c \in Printer!Numeric, NEW v \in Values
    PROVE  LET p == Printer!Piece(c, s, v, Printer!Number(s, v))
           IN  PieceSound(p) /\ p.text \in Seq(Chars)
<1> DEFINE p == Printer!Piece(c, s, v, Printer!Number(s, v))
<1>1. p.letter = c /\ p.spec = s /\ p.arg = v /\ p.text = Printer!Number(s, v)
    BY DEF Printer!Piece
<1> HIDE DEF p
<1>2. s \in SpecType /\ Asked(s)
    BY DEF SpecSound
<1>3. /\ s.zero \in BOOLEAN /\ s.signed \in BOOLEAN /\ s.upper \in BOOLEAN
      /\ s.base \in {8, 10, 16} /\ s.before \in Int
    BY <1>2 DEF SpecType
<1>4. Printer!ReadsBack(p) /\ p.text \in Seq(Chars)
    BY <1>1, <1>2, <1>3, ValueIs, NumberIs
<1>5. c \notin {"c", "s"}
    BY DEF Printer!Numeric
<1> QED BY <1>1, <1>4, <1>5 DEF PieceSound, p

LEMMA StringPiece ==
    ASSUME NEW s, SpecSound(s), NEW c \in {"c", "s"}, NEW a \in Seq(Chars)
    PROVE  LET p == Printer!Piece(c, s, a, Printer!RepChar(Space, s.before - Len(a)) \o a)
           IN  PieceSound(p) /\ p.text \in Seq(Chars)
<1> DEFINE p == Printer!Piece(c, s, a, Printer!RepChar(Space, s.before - Len(a)) \o a)
<1>1. /\ p.letter = c /\ p.spec = s /\ p.arg = a
      /\ p.text = Printer!RepChar(Space, s.before - Len(a)) \o a
    BY DEF Printer!Piece
<1> HIDE DEF p
<1>2. s.before \in Int /\ Asked(s)
    BY DEF SpecSound, SpecType
<1>3. Printer!Fills(p) /\ Printer!IsSuffix(p.arg, p.text) /\ p.text \in Seq(Chars)
  <2> DEFINE n == Len(a)
  <2>1. n \in Nat
      OBVIOUS
  <2> HIDE DEF n
  <2>2. n = Len(p.arg) /\ p.text = Printer!RepChar(Space, p.spec.before - n) \o p.arg
      BY <1>1 DEF n
  <2> QED BY <1>1, <1>2, <2>1, <2>2, TextIs
<1>4. c \notin Printer!Numeric
    BY DEF Printer!Numeric
<1> QED BY <1>1, <1>3, <1>4 DEF PieceSound, p

LEMMA LetterKept ==
    ASSUME Printer!PrintfAssumption, PrintInv, NEW c, Printer!LogLetter(c)
    PROVE  PrintInv'
<1>1. Printer!Rest(c) /\ state' = "chars"
    BY Zenon DEF Printer!LogLetter
<1>2. /\ printf_pc = "log" /\ c \in Chars /\ fmt' \in Seq(Chars) /\ UNCHANGED <<printf_pc, buf>>
      /\ SpecSound(spec)
    BY <1>1, RestIs
<1>3. Printing
    BY DEF PrintInv
<1>4. ASSUME SpecSound(spec') PROVE Parsing'
    BY <1>1, <1>2, <1>4 DEF Parsing
<1>5. CASE c \in Printer!Numeric
  <2>0. c # "c" /\ c # "s"
      BY <1>5 DEF Printer!Numeric
  <2>1. PICK v \in Values : /\ spec' = Printer!Typed(c, spec)
                            /\ Printer!Prints(Printer!Piece(c, spec', v, Printer!Number(spec', v)))
      BY <1>5, <2>0, Zenon DEF Printer!LogLetter
  <2>2. SpecSound(spec')
      BY <1>2, <1>5, <2>1, TypedSound
  <2> DEFINE p == Printer!Piece(c, spec', v, Printer!Number(spec', v))
  <2>3. PieceSound(p) /\ p.text \in Seq(Chars)
      BY <1>5, <2>2, NumberPiece
  <2> HIDE DEF p
  <2>4. Printer!Prints(p)
      BY <2>1 DEF p
  <2>5. Printing'
      BY <1>2, <1>3, <2>3, <2>4, Printed
  <2> QED BY <1>4, <2>2, <2>5 DEF PrintInv
<1>6. CASE c = "c"
  <2>0. c \notin Printer!Numeric /\ c # "s"
      BY <1>6 DEF Printer!Numeric
  <2> DEFINE a == <<Zed>>
             p == Printer!Piece(c, spec, a, Printer!RepChar(Space, spec.before - Len(a)) \o a)
  <2>1. /\ Printer!Prints(Printer!Piece(c, spec, <<Zed>>, Printer!RepChar(Space, spec.before - 1) \o <<Zed>>))
        /\ UNCHANGED spec
      BY <1>6, <2>0, Zenon DEF Printer!LogLetter, Zed, Space
  <2>2. a \in Seq(Chars) /\ Len(a) = 1
      BY ZedIs
  <2>3. Printer!Prints(p)
      BY <2>1, <2>2
  <2> HIDE DEF a
  <2>4. PieceSound(p) /\ p.text \in Seq(Chars)
      BY <1>2, <1>6, <2>2, StringPiece
  <2> HIDE DEF p
  <2>5. Printing'
      BY <1>2, <1>3, <2>3, <2>4, Printed
  <2> QED BY <1>2, <1>4, <2>1, <2>5 DEF PrintInv
<1>7. CASE c = "s"
  <2>0. c \notin Printer!Numeric /\ c # "c"
      BY <1>7 DEF Printer!Numeric
  <2>1. PICK a \in Strings :
            Printer!Prints(Printer!Piece(c, spec, a, Printer!RepChar(Space, spec.before - Len(a)) \o a))
      BY <1>7, <2>0, Zenon DEF Printer!LogLetter, Space
  <2>2. UNCHANGED spec
      BY <1>7, <2>0, Zenon DEF Printer!LogLetter
  <2> DEFINE p == Printer!Piece(c, spec, a, Printer!RepChar(Space, spec.before - Len(a)) \o a)
  <2>3. PieceSound(p) /\ p.text \in Seq(Chars)
      BY <1>2, <1>7, StringIs, StringPiece
  <2> HIDE DEF p
  <2>4. Printer!Prints(p)
      BY <2>1 DEF p
  <2>5. Printing'
      BY <1>2, <1>3, <2>3, <2>4, Printed
  <2> QED BY <1>2, <1>4, <2>2, <2>5 DEF PrintInv
<1>8. CASE c \notin Printer!Numeric /\ c # "c" /\ c # "s"
  <2>1. UNCHANGED <<printed, pieces, spec>>
      BY <1>8, Zenon DEF Printer!LogLetter
  <2> QED BY <1>2, <1>3, <1>4, <2>1, Silent DEF PrintInv
<1> QED BY <1>5, <1>6, <1>7, <1>8

LEMMA LogReturnKept ==
    ASSUME PrintInv, Printer!LogReturns
    PROVE  PrintInv'
<1>1. /\ printf_pc = "log" /\ printf_pc' = "idle"
      /\ UNCHANGED <<fmt, state, spec, buf, printed, pieces>>
    BY DEF Printer!LogReturns
<1>2. Parsing'
    BY <1>1 DEF PrintInv, Parsing
<1>3. Printing'
    BY <1>1 DEF PrintInv, Printing
<1> QED BY <1>2, <1>3 DEF PrintInv

LEMMA CharKept ==
    ASSUME Printer!PrintfAssumption, PrintInv, NEW c, Printer!PrintfChar(c)
    PROVE  PrintInv'
<1>1. printf_pc = "printf" /\ c \in Chars /\ fmt' \in Seq(Chars)
    BY TakesIs DEF PrintInv, Parsing, Printer!PrintfChar
<1> DEFINE p == Printer!Piece("", spec, c, <<c>>)
<1>2. Printer!Puts(p) /\ UNCHANGED <<printf_pc, state, spec>>
    BY Zenon DEF Printer!PrintfChar
<1>3. PieceSound(p) /\ p.text \in Seq(Chars)
    BY <1>1, PlainPiece
<1> HIDE DEF p
<1>4. Parsing /\ Printing /\ UNCHANGED printf_pc
    BY <1>2 DEF PrintInv
<1>5. Parsing'
    BY <1>1, <1>2, <1>4, ParsedOn
<1>6. Printing'
    BY <1>1, <1>2, <1>3, <1>4, PutIs
<1> QED BY <1>5, <1>6 DEF PrintInv

\* A string or a character, and a number, as alt_printf prints them.
LEMMA PlainTextPiece ==
    ASSUME NEW s, s.read = <<>>, NEW c \in {"c", "s"}, NEW a \in Seq(Chars)
    PROVE  LET p == Printer!Piece(c, s, a, a)
           IN  PieceSound(p) /\ p.text \in Seq(Chars)
<1> DEFINE p == Printer!Piece(c, s, a, a)
<1>1. p.letter = c /\ p.spec = s /\ p.arg = a /\ p.text = a
    BY DEF Printer!Piece
<1> HIDE DEF p
<1>2. Printer!Fills(p) /\ Printer!IsSuffix(p.arg, p.text)
    BY <1>1, PlainIs
<1>3. c \notin Printer!Numeric
    BY DEF Printer!Numeric
<1> QED BY <1>1, <1>2, <1>3 DEF PieceSound, p

HexSpec == [Printer!Typed("x", Printer!NoSpec) EXCEPT !.zero = FALSE]

LEMMA HexSpecIs ==
    /\ HexSpec.read = <<>> /\ HexSpec.signed = FALSE /\ HexSpec.base = 16
    /\ HexSpec.upper = FALSE /\ HexSpec.zero = FALSE
<1> DEFINE n == Printer!NoSpec
           x == [n EXCEPT !.signed = FALSE, !.base = 16]
<1>1. Printer!Typed("x", n) = x
    BY DEF Printer!Typed
<1>2. HexSpec = [x EXCEPT !.zero = FALSE]
    BY <1>1 DEF HexSpec
<1> QED BY <1>2 DEF Printer!NoSpec

LEMMA HexPiece ==
    ASSUME Printer!PrintfAssumption, NEW v \in Values
    PROVE  LET p == Printer!Piece("x", HexSpec, v, Printer!Hex(v))
           IN  PieceSound(p) /\ p.text \in Seq(Chars)
<1> DEFINE p == Printer!Piece("x", HexSpec, v, Printer!Hex(v))
<1>1. p.letter = "x" /\ p.spec = HexSpec /\ p.arg = v /\ p.text = Printer!Hex(v)
    BY DEF Printer!Piece
<1> HIDE DEF p
<1>2. Printer!ReadsBack(p) /\ p.text \in Seq(Chars)
    BY <1>1, HexSpecIs, ValueIs, HexIs
<1>3. "x" \notin {"c", "s"}
    OBVIOUS
<1> QED BY <1>1, <1>2, <1>3 DEF PieceSound, p

\* What is after a "%" and its character.
LEMMA OnwardIs ==
    ASSUME NEW s \in Seq(Chars), s # <<>>
    PROVE  /\ Len(s) = 1 \/ (Len(s) > 1 /\ ~(Len(s) = 1))
           /\ Len(s) > 1 => s[2] \in Chars /\ SubSeq(s, 3, Len(s)) \in Seq(Chars)
<1> DEFINE n == Len(s)
<1>1. n \in Nat \ {0} /\ DOMAIN s = 1 .. n
    OBVIOUS
<1>2. ASSUME n > 1 PROVE s[2] \in Chars /\ SubSeq(s, 3, n) \in Seq(Chars)
  <2>1. 2 \in 0 .. n /\ 2 \in 1 .. n
      BY <1>1, <1>2
  <2>2. SubSeq(s, 2 + 1, n) \in Seq(Chars)
      BY <2>1, TwoParts
  <2>3. 2 + 1 = 3 /\ s[2] \in Chars
      BY <1>1, <2>1
  <2> HIDE DEF n
  <2> QED BY <2>2, <2>3
<1>3. n = 1 \/ (n > 1 /\ ~(n = 1))
  <2> HIDE DEF n
  <2> QED BY <1>1
<1> QED BY <1>2, <1>3

LEMMA DirectiveKept ==
    ASSUME Printer!PrintfAssumption, PrintInv, NEW c, Printer!PrintfDirective(c)
    PROVE  PrintInv'
<1>1. /\ printf_pc = "printf" /\ fmt # <<>> /\ UNCHANGED <<printf_pc, state, spec>>
      /\ IF Len(fmt) > 1 THEN c = fmt[2] /\ fmt' = SubSeq(fmt, 3, Len(fmt))
                         ELSE c = Percent /\ fmt' = <<>>
    BY Zenon DEF Printer!PrintfDirective, Percent
<1>2. fmt \in Seq(Chars) /\ spec = Printer!NoSpec /\ spec.read = <<>> /\ Parsing /\ Printing
    BY <1>1, NoSpecSound DEF PrintInv, Parsing
<1>3. fmt' \in Seq(Chars) /\ (Len(fmt) > 1 => c \in Chars) /\ (Len(fmt) = 1 => c = Percent)
  <2> DEFINE two == fmt[2]
             rest == SubSeq(fmt, 3, Len(fmt))
             none == <<>>
  <2>1. (Len(fmt) > 1 => c = two /\ fmt' = rest) /\ (~(Len(fmt) > 1) => c = Percent /\ fmt' = none)
      BY <1>1
  <2>2. Len(fmt) > 1 => two \in Chars /\ rest \in Seq(Chars)
      BY <1>1, <1>2, OnwardIs
  <2>3. none \in Seq(Chars) /\ (Len(fmt) = 1 => ~(Len(fmt) > 1))
    <3>1. (Len(fmt) = 1 => ~(Len(fmt) > 1))
      <4> DEFINE n == Len(fmt)
      <4> HIDE DEF n
      <4>1. n = 1 => ~(n > 1)
          OBVIOUS
      <4> QED BY <4>1 DEF n
    <3> QED BY <3>1
  <2> HIDE DEF two, rest, none
  <2> QED BY <2>1, <2>2, <2>3, Zenon
<1>4. Parsing'
    BY <1>1, <1>2, <1>3, ParsedOn
<1>5. ASSUME NEW p, PieceSound(p), p.text \in Seq(Chars), Printer!Puts(p)
      PROVE  Printing'
    BY <1>1, <1>2, <1>5, PutIs
<1>6. ASSUME UNCHANGED <<printed, pieces, buf>>
      PROVE  Printing'
    BY <1>1, <1>2, <1>6, Silent
<1>7. Len(fmt) = 1 \/ (Len(fmt) > 1 /\ ~(Len(fmt) = 1))
    BY <1>1, <1>2, OnwardIs
<1>8. CASE Len(fmt) = 1
  <2>1. c # "c" /\ c # "x" /\ c # "s" /\ ~(c = "%" /\ Len(fmt) > 1)
    <3>1. c = Percent /\ ~(Len(fmt) > 1)
        BY <1>3, <1>8
    <3> QED BY <3>1 DEF Percent
  <2>2. UNCHANGED <<printed, pieces, buf>>
      BY <1>8, <2>1, Zenon DEF Printer!PrintfDirective
  <2> QED BY <1>4, <1>6, <2>2 DEF PrintInv
<1>9. CASE Len(fmt) > 1 /\ ~(Len(fmt) = 1)
  <2>0. ~(Len(fmt) = 1) /\ c \in Chars
      BY <1>3, <1>9, Zenon
  <2>1. CASE c = "%"
    <3>0. c # "c" /\ c # "x" /\ c # "s"
        BY <2>1
    <3> DEFINE p == Printer!Piece("", spec, c, <<c>>)
    <3>1. Printer!Puts(p)
        BY <1>9, <2>0, <2>1, <3>0, Zenon DEF Printer!PrintfDirective
    <3>2. PieceSound(p) /\ p.text \in Seq(Chars)
        BY <2>0, PlainPiece
    <3> HIDE DEF p
    <3> QED BY <1>4, <1>5, <3>1, <3>2 DEF PrintInv
  <2>2. CASE c = "c"
    <3>0. c # "%" /\ c # "x" /\ c # "s"
        BY <2>2
    <3> DEFINE a == <<Zed>>
               p == Printer!Piece(c, spec, a, a)
    <3>1. Printer!Puts(p)
        BY <2>0, <2>2, <3>0, Zenon DEF Printer!PrintfDirective, Zed
    <3>2. a \in Seq(Chars)
        BY ZedIs
    <3> HIDE DEF a
    <3>3. PieceSound(p) /\ p.text \in Seq(Chars)
        BY <1>2, <2>2, <3>2, PlainTextPiece
    <3> HIDE DEF p
    <3> QED BY <1>4, <1>5, <3>1, <3>3 DEF PrintInv
  <2>3. CASE c = "x"
    <3>0. c # "%" /\ c # "c" /\ c # "s"
        BY <2>3
    <3>1. PICK v \in Values : Printer!Puts(Printer!Piece(c, [Printer!Typed(c, Printer!NoSpec) EXCEPT !.zero = FALSE], v, Printer!Hex(v)))
        BY <2>0, <2>3, <3>0, Zenon DEF Printer!PrintfDirective
    <3> DEFINE p == Printer!Piece("x", HexSpec, v, Printer!Hex(v))
    <3>2. Printer!Puts(p)
        BY <2>3, <3>1, Zenon DEF HexSpec
    <3>3. PieceSound(p) /\ p.text \in Seq(Chars)
        BY HexPiece
    <3> HIDE DEF p
    <3> QED BY <1>4, <1>5, <3>2, <3>3 DEF PrintInv
  <2>4. CASE c = "s"
    <3>0. c # "%" /\ c # "c" /\ c # "x"
        BY <2>4
    <3>1. PICK a \in Strings : Printer!Puts(Printer!Piece(c, spec, a, a))
        BY <2>0, <2>4, <3>0, Zenon DEF Printer!PrintfDirective
    <3> DEFINE p == Printer!Piece(c, spec, a, a)
    <3>2. Printer!Puts(p)
        BY <3>1
    <3>3. PieceSound(p) /\ p.text \in Seq(Chars)
        BY <1>2, <2>4, StringIs, PlainTextPiece
    <3> HIDE DEF p
    <3> QED BY <1>4, <1>5, <3>2, <3>3 DEF PrintInv
  <2>5. CASE c # "%" /\ c # "c" /\ c # "x" /\ c # "s"
    <3>1. UNCHANGED <<printed, pieces, buf>>
        BY <2>0, <2>5, Zenon DEF Printer!PrintfDirective
    <3> QED BY <1>4, <1>6, <3>1 DEF PrintInv
  <2> QED BY <2>1, <2>2, <2>3, <2>4, <2>5
<1> QED BY <1>7, <1>8, <1>9

LEMMA PrintfReturnKept ==
    ASSUME Printer!PrintfAssumption, PrintInv, Printer!PrintfReturns
    PROVE  PrintInv'
<1> DEFINE none == <<>>
<1>0. ALT_PUTBUF_SIZE \in Nat \ {0}
    BY DEF Printer!PrintfAssumption
<1>1. /\ printf_pc = "printf" /\ printf_pc' = "idle" /\ printed' = printed \o buf /\ buf' = none
      /\ UNCHANGED <<fmt, state, spec, pieces>>
    BY DEF Printer!PrintfReturns
<1>2. buf \in Seq(Chars) /\ printed \in Seq(Chars) /\ Tells(pieces, printed \o buf)
    BY DEF PrintInv, Printing
<1>3. printed \o buf \in Seq(Chars) /\ none \in Seq(Chars) /\ Len(none) = 0
    BY <1>2, Concat
<1>4. (printed \o buf) \o none = printed \o buf
    BY <1>3
<1> HIDE DEF none
<1>5. printed' \in Seq(Chars) /\ buf' \in Seq(Chars) /\ Len(buf') < ALT_PUTBUF_SIZE /\ Tells(pieces', printed' \o buf')
    BY <1>0, <1>1, <1>2, <1>3, <1>4
<1>6. Parsing'
    BY <1>1 DEF PrintInv, Parsing
<1>7. Printing'
    BY <1>1, <1>5 DEF Printing, none
<1> QED BY <1>6, <1>7 DEF PrintInv

LEMMA PrintNext ==
    ASSUME Printer!PrintfAssumption, PrintInv, [Printer!Next]_(Printer!vars)
    PROVE  PrintInv'
<1>1. CASE Printer!Call("log", LogFormats)
    BY <1>1, PrintCallKept
<1>2. CASE Printer!Call("printf", Formats)
    BY <1>2, PrintCallKept
<1>3. ASSUME NEW c, Printer!LogChars(c) PROVE PrintInv'
    BY <1>3, CharsKept
<1>4. ASSUME NEW c, Printer!LogFirst(c) PROVE PrintInv'
    BY <1>4, FirstKept
<1>5. ASSUME NEW c, Printer!LogWidth(c) PROVE PrintInv'
    BY <1>5, WidthKept
<1>6. ASSUME NEW c, Printer!LogLetter(c) PROVE PrintInv'
    BY <1>6, LetterKept
<1>7. ASSUME NEW c, Printer!PrintfChar(c) PROVE PrintInv'
    BY <1>7, CharKept
<1>8. ASSUME NEW c, Printer!PrintfDirective(c) PROVE PrintInv'
    BY <1>8, DirectiveKept
<1>9. CASE Printer!LogReturns
    BY <1>9, LogReturnKept
<1>10. CASE Printer!PrintfReturns
    BY <1>10, PrintfReturnKept
<1>11. CASE UNCHANGED Printer!vars
  <2>1. UNCHANGED <<printf_pc, fmt, state, spec, buf, printed, pieces>>
      BY <1>11 DEF Printer!vars
  <2>2. fmt' \in Seq(Chars)
      BY <2>1 DEF PrintInv, Parsing
  <2> QED BY <2>1, <2>2, ParsedOn, Silent DEF PrintInv
<1> QED BY <1>1, <1>2, <1>3, <1>4, <1>5, <1>6, <1>7, <1>8, <1>9, <1>10, <1>11 DEF Printer!Next
================================================================================
