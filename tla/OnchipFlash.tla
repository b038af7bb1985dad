---------------------------- MODULE OnchipFlash ----------------------------
(***************************************************************************)
(* The driver of the on-chip flash:                                        *)
(*   drivers/src/altera_onchip_flash.c       init, get_info, read, write,  *)
(*                                           erase_block, write_block      *)
(*   drivers/inc/altera_onchip_flash_regs.h  the control and status bits   *)
(*   HAL/src/alt_dcache_flush.c              the flush at the end of write *)
(*                                                                         *)
(* The flash itself is external.  An erase sets every byte of a page, a    *)
(* word that is programmed only ever loses bits; either may take any time  *)
(* and may fail, and a read of the memory is held until it has ended.  One *)
(* bit stands for the eight of a byte, since no bit affects another.       *)
(*                                                                         *)
(* The processor reads the flash through its data cache (alt_onchip_flash_ *)
(* read and the comparison of a write) and writes and erases it past the   *)
(* cache (IOWR).  A byte that is cached is seen as it was when its line    *)
(* was filled; a line may be dropped at any time, to make room.            *)
(*                                                                         *)
(* The polling loops give up after a count: a loop whose condition does    *)
(* not hold may end in a timeout, or in the condition coming to hold.      *)
(***************************************************************************)
EXTENDS Naturals, Sequences, FiniteSets

CONSTANTS length,     \* dev.length: the size of the memory in bytes
          DATA_ALIGN_SIZE,   \* bytes to a word
          page_size,
          line_size,  \* bytes to a line of the data cache
          sectors,    \* <<[start |-> ..., end |-> ...], ...>>, the enabled ones
          MayLack,    \* the sectors whose status may say that they are unavailable
          Offsets,    \* the offsets a program passes
          Data        \* the buffers a program writes: sequences of 0 and 1

\* The sectors are whole pages, in the order of their addresses.
ASSUME GeometryAssumption ==
    /\ DATA_ALIGN_SIZE \in Nat \ {0} /\ page_size \in Nat \ {0} /\ line_size \in Nat \ {0}
    /\ length \in Nat
    /\ sectors \in Seq([start : Nat, end : Nat])
    /\ \A s \in DOMAIN sectors : /\ sectors[s].start % page_size = 0
                                 /\ (sectors[s].end + 1) % page_size = 0
                                 /\ sectors[s].end < length
    /\ \A s, t \in DOMAIN sectors : s < t => sectors[s].end < sectors[t].start
    /\ Offsets \subseteq Nat /\ Data \subseteq Seq({0, 1})

VARIABLES
    memory,       \* the contents of the flash
    copy,         \* what the data cache holds of it: a function on the bytes cached
    busy,         \* what the flash is doing: an operation and its address
    status,       \* the "passed" bits of the status register
    protected,    \* the write protection of the control register, all sectors
    is_read_only, \* of the device
    csr_base,     \* whether the device has control and status registers
    region_info,  \* the regions, a sequence of their first and last bytes
    pc,           \* where the driver is
    call,         \* the call in progress: its name, offset and data
    block,        \* write: the current block, its region and its place in it
    chunk,        \* write_block: where the next word goes and the data left
    ret_code,
    before,       \* history: the contents at the start of the call
    asked         \* history: the call as it was made, what the flash did and the cache held then

device == <<memory, busy, status>>
fixed  == <<is_read_only, csr_base, region_info>>
frame  == <<call, block, chunk>>
history == <<before, asked>>
vars == <<memory, copy, busy, status, protected, is_read_only, csr_base, region_info,
          pc, call, block, chunk, ret_code, before, asked>>

Bytes == 0 .. length - 1
Blank == [b \in Bytes |-> 1]
Page(o) == {b \in Bytes : b \div page_size = o \div page_size}
Idle == [op |-> "idle", at |-> 0, data |-> <<>>]
NoCall == [name |-> "none", offset |-> 0, data |-> <<>>]
NoRequest == [name |-> "none", offset |-> 0, data |-> <<>>, idle |-> TRUE, fresh |-> TRUE]
NoBlock == <<0, 0>>
NoChunk == [at |-> 0, data |-> <<>>]
Min2(x, y) == IF x < y THEN x ELSE y

\* The types; and the flash is never told to erase or to program past its end
\* (altera_onchip_flash.c:141, 215).
TypeOK ==
    /\ memory \in [Bytes -> 0 .. 1] /\ before \in [Bytes -> 0 .. 1]
    /\ DOMAIN copy \subseteq Bytes /\ \A b \in DOMAIN copy : copy[b] \in 0 .. 1
    /\ busy.op \in {"idle", "erase", "write"} /\ busy.at \in Bytes
    /\ status \in [erase : BOOLEAN, write : BOOLEAN]
    /\ protected \in BOOLEAN /\ is_read_only \in BOOLEAN /\ csr_base \in BOOLEAN
    /\ pc \in {"ready", "scan", "erase_idle", "erase_wait", "erase_check",
               "write_idle", "write_word", "write_wait", "write_check"}
    /\ call.name \in {"none", "write", "write_block", "erase_block"}
    /\ ret_code \in {"ok", "EFAULT", "ENODEV", "EINVAL", "ETIMEDOUT", "EIO", "ENOMEM"}

\* altera_onchip_flash_init: a region for every enabled sector whose status
\* does not say that it is unavailable, in their order; without registers all
\* are available.
InOrder(available) ==
    {in \in [1 .. Cardinality(available) -> available] :
        \A i, j \in DOMAIN in : i < j => in[i] < in[j]}

Regions(available) == {[i \in DOMAIN in |-> sectors[in[i]]] : in \in InOrder(available)}

Init ==
    /\ memory = Blank /\ before = Blank
    /\ copy = [b \in {} |-> 0]
    /\ busy = Idle
    /\ status = [erase |-> FALSE, write |-> FALSE]
    /\ protected = TRUE
    /\ is_read_only \in BOOLEAN
    /\ csr_base \in BOOLEAN
    /\ \E lacking \in SUBSET MayLack :
          /\ ~csr_base => lacking = {}
          /\ region_info \in Regions(DOMAIN sectors \ lacking)
    /\ pc = "ready"
    /\ call = NoCall /\ block = NoBlock /\ chunk = NoChunk /\ ret_code = "ok"
    /\ asked = NoRequest

\* The blocks as the loops go through them: region by region, each from its start.
NumberOfBlocks(i) == ((region_info[i].end + 1) - region_info[i].start) \div page_size
Blocks == UNION {{i} \X (1 .. NumberOfBlocks(i)) : i \in DOMAIN region_info}
Start(k) == region_info[k[1]].start + (k[2] - 1) * page_size
BlockEnd(k) == Start(k) + page_size
Later(k, l) == k[1] > l[1] \/ (k[1] = l[1] /\ k[2] > l[2])

-----------------------------------------------------------------------------
(* The flash                                                                *)

Erased(b) == IF b \in Page(busy.at) THEN 1 ELSE memory[b]
Programmed(b) ==
    IF b \in busy.at .. busy.at + DATA_ALIGN_SIZE - 1
    THEN Min2(memory[b], busy.data[b - busy.at + 1]) ELSE memory[b]

\* An operation ends: it passed, or it failed and did its work or not.
Complete ==
    /\ busy.op # "idle"
    /\ busy' = Idle
    /\ \E passed, worked \in BOOLEAN :
          /\ passed => worked
          /\ status' = IF busy.op = "erase" THEN [status EXCEPT !.erase = passed]
                                            ELSE [status EXCEPT !.write = passed]
          /\ memory' = IF ~worked THEN memory
                       ELSE IF busy.op = "erase" THEN [b \in Bytes |-> Erased(b)]
                       ELSE [b \in Bytes |-> Programmed(b)]
    /\ UNCHANGED <<copy, protected, fixed, pc, frame, ret_code, history>>

\* A command is taken if the flash is not protected; one that is not fails.
Command(op, at, data) ==
    /\ status' = IF op = "erase" THEN [status EXCEPT !.erase = FALSE]
                                 ELSE [status EXCEPT !.write = FALSE]
    /\ busy' = IF protected' THEN Idle ELSE [op |-> op, at |-> at, data |-> data]
    /\ UNCHANGED memory

-----------------------------------------------------------------------------
(* The data cache                                                           *)

Line(b) == {x \in Bytes : x \div line_size = b \div line_size}

\* What a load of a byte returns, and the cache after loads of some bytes.
Seen(b) == IF b \in DOMAIN copy THEN copy[b] ELSE memory[b]
Fill(bytes) == [b \in DOMAIN copy \cup UNION {Line(x) : x \in bytes} |-> Seen(b)]

Drop(cached, bytes) == [b \in DOMAIN cached \ bytes |-> cached[b]]

Evict ==
    /\ \E b \in DOMAIN copy : copy' = Drop(copy, Line(b))
    /\ UNCHANGED <<device, protected, fixed, pc, frame, ret_code, history>>

\* alt_dcache_flush of the bytes a write was asked for (start_offset, full_length):
\* steps of a line from the first byte on, and one more if it is not aligned.
Flushed ==
    LET first == asked.offset \div line_size
        steps == (Len(asked.data) + line_size - 1) \div line_size
        more  == IF asked.offset % line_size = 0 THEN 0 ELSE 1
    IN  {b \in Bytes : b \div line_size \in first .. first + steps + more - 1}

-----------------------------------------------------------------------------
(* Calls and returns                                                        *)

\* A write flushes what it wrote, however it ends; the other calls flush nothing.
Leave(code, cached) ==
    /\ pc' = "ready"
    /\ ret_code' = code
    /\ copy' = IF call.name = "write" THEN Drop(cached, Flushed) ELSE cached
    /\ call' = NoCall /\ block' = NoBlock /\ chunk' = NoChunk
    /\ before' = Blank /\ asked' = NoRequest

Return(code) == Leave(code, copy)

Begin(name, offset, data, label) ==
    /\ call' = [name |-> name, offset |-> offset, data |-> data]
    /\ pc' = label
    /\ before' = memory
    /\ asked' = [name |-> name, offset |-> offset, data |-> data, idle |-> busy = Idle,
                 fresh |-> /\ busy = Idle
                           /\ \A b \in offset .. offset + Len(data) - 1 : Seen(b) = memory[b]]
    /\ ret_code' = "ok"
    /\ UNCHANGED copy

OutOfRange(offset, len) == offset >= length \/ len > length - offset
WriteSupported == csr_base /\ ~is_read_only

\* The checks at the head of alt_onchip_flash_erase_block.
EraseRefusal(offset) ==
    IF offset >= length THEN "EFAULT"
    ELSE IF ~WriteSupported THEN "ENODEV"
    ELSE IF offset % page_size # 0 THEN "EINVAL"
    ELSE "ok"

\* The checks at the head of alt_onchip_flash_write_block.
WriteRefusal(block_offset, data_offset, len) ==
    IF block_offset >= length \/ OutOfRange(data_offset, len) THEN "EFAULT"
    ELSE IF ~WriteSupported THEN "ENODEV"
    ELSE "ok"

EraseBlock(offset) ==
    /\ pc = "ready"
    /\ IF EraseRefusal(offset) = "ok"
       THEN Begin("erase_block", offset, <<>>, "erase_idle") /\ UNCHANGED <<block, chunk>>
       ELSE Return(EraseRefusal(offset))
    /\ UNCHANGED <<device, protected, fixed>>

WriteBlock(offset, data) ==
    /\ pc = "ready"
    /\ LET refusal == WriteRefusal(offset - (offset % page_size), offset, Len(data)) IN
       IF refusal = "ok"
       THEN /\ Begin("write_block", offset, data, "write_idle")
            /\ chunk' = [at |-> offset, data |-> data]
            /\ UNCHANGED block
       ELSE Return(refusal)
    /\ UNCHANGED <<device, protected, fixed>>

Write(offset, data) ==
    /\ pc = "ready"
    /\ IF OutOfRange(offset, Len(data))
       THEN Return("EFAULT")
       ELSE Begin("write", offset, data, "scan") /\ UNCHANGED <<block, chunk>>
    /\ UNCHANGED <<device, protected, fixed>>

\* Bytes can be loaded: all are cached, or the flash is idle.
Readable(bytes) == bytes \subseteq DOMAIN copy \/ busy.op = "idle"

\* alt_onchip_flash_read.  What is read goes to the program.
Read(offset, len) ==
    /\ pc = "ready"
    /\ IF offset >= length \/ offset + len > length
       THEN ret_code' = "EFAULT" /\ UNCHANGED copy
       ELSE /\ Readable(offset .. offset + len - 1)
            /\ copy' = Fill(offset .. offset + len - 1)
            /\ ret_code' \in (IF csr_base THEN {"ok", "EIO"} ELSE {"ok"})
    /\ UNCHANGED <<device, protected, fixed, pc, frame, history>>

\* alt_onchip_flash_get_info: the regions, if there is one.
GetInfo ==
    /\ pc = "ready"
    /\ ret_code' = IF region_info = <<>> THEN "ENOMEM" ELSE "ok"
    /\ UNCHANGED <<device, copy, protected, fixed, pc, frame, history>>

-----------------------------------------------------------------------------
(* Polling                                                                  *)

\* alt_onchip_flash_poll_for_status_to_go_idle: how it may end.
PollIdle == {c \in {"ok", "ETIMEDOUT"} : (c = "ok") = (busy.op = "idle")}

\* alt_onchip_flash_poll_for_status_{erase,write}_passed.
PollPassed(bit) == IF bit THEN {"ok"} ELSE {"ETIMEDOUT"}

-----------------------------------------------------------------------------
(* alt_onchip_flash_erase_block, from its first poll                        *)

Finish(code) == Return(code) /\ protected' = TRUE

EraseIdle ==
    /\ pc = "erase_idle"
    /\ \E code \in PollIdle :
          \/ /\ code = "ETIMEDOUT"
             /\ Return(code)
             /\ UNCHANGED <<device, protected>>
          \/ /\ code = "ok"
             /\ protected' = FALSE
             /\ Command("erase", IF call.name = "write" THEN Start(block) ELSE call.offset, <<>>)
             /\ pc' = "erase_wait"
             /\ UNCHANGED <<frame, ret_code, history, copy>>
    /\ UNCHANGED fixed

\* The answer of this poll is overwritten by that of the next.
EraseWait ==
    /\ pc = "erase_wait"
    /\ pc' = "erase_check"
    /\ UNCHANGED <<device, protected, fixed, frame, ret_code, history, copy>>

\* What of the data of a write lies in a block, from the offset on.
Done(k) == Min2(BlockEnd(k) - call.offset, Len(call.data))

\* After the last poll write protection is back.  In a write the block is
\* written next, unless the erase failed.
EraseCheck ==
    /\ pc = "erase_check"
    /\ \E code \in PollPassed(status.erase) :
          IF call.name = "write" /\ code = "ok"
          THEN LET refusal == WriteRefusal(Start(block), call.offset, Done(block)) IN
               IF refusal = "ok"
               THEN /\ protected' = TRUE
                    /\ pc' = "write_idle"
                    /\ chunk' = [at |-> call.offset, data |-> SubSeq(call.data, 1, Done(block))]
                    /\ UNCHANGED <<call, block, ret_code, history, copy>>
               ELSE Finish(refusal)
          ELSE Finish(code)
    /\ UNCHANGED <<device, fixed>>

-----------------------------------------------------------------------------
(* alt_onchip_flash_write_block, from its first poll                        *)

WriteIdle ==
    /\ pc = "write_idle"
    /\ \E code \in PollIdle :
          \/ code = "ETIMEDOUT" /\ Return(code) /\ UNCHANGED protected
          \/ /\ code = "ok"
             /\ protected' = FALSE
             /\ pc' = "write_word"
             /\ UNCHANGED <<frame, ret_code, history, copy>>
    /\ UNCHANGED <<device, fixed>>

\* The word that the next byte lies in: the bytes before it and after the end of
\* the data are padded with ones, which programming leaves alone.
Padding == chunk.at % DATA_ALIGN_SIZE
Taken == Min2(Len(chunk.data) + Padding, DATA_ALIGN_SIZE) - Padding
Word_ZeroPadded ==
    [i \in 1 .. DATA_ALIGN_SIZE |->
        IF i \in Padding + 1 .. Padding + Taken THEN chunk.data[i - Padding] ELSE 0]
Word ==
    [i \in 1 .. DATA_ALIGN_SIZE |->
        IF i \in Padding + 1 .. Padding + Taken THEN chunk.data[i - Padding] ELSE 1]

\* The end of write_block; in a write, on to the next block or out.
BlockWritten ==
    /\ protected' = TRUE
    /\ \/ /\ call.name = "write" /\ Done(block) < Len(call.data)
          /\ call' = [call EXCEPT !.offset = BlockEnd(block),
                                  !.data = SubSeq(@, Done(block) + 1, Len(@))]
          /\ pc' = "scan" /\ chunk' = NoChunk
          /\ UNCHANGED <<block, ret_code, history, copy>>
       \/ /\ ~(call.name = "write" /\ Done(block) < Len(call.data))
          /\ Return("ok")

WriteWord ==
    /\ pc = "write_word"
    /\ \/ /\ chunk.data = <<>>
          /\ BlockWritten
          /\ UNCHANGED device
       \/ /\ chunk.data # <<>>
          /\ UNCHANGED protected
          /\ Command("write", chunk.at - Padding, Word)
          /\ pc' = "write_wait"
          /\ chunk' = [at |-> chunk.at - Padding + DATA_ALIGN_SIZE,
                       data |-> SubSeq(chunk.data, Taken + 1, Len(chunk.data))]
          /\ UNCHANGED <<call, block, ret_code, history, copy>>
    /\ UNCHANGED fixed

WriteWait ==
    /\ pc = "write_wait"
    /\ \E code \in PollIdle :
          \/ code = "ETIMEDOUT" /\ Finish(code)
          \/ /\ code = "ok"
             /\ pc' = "write_check"
             /\ UNCHANGED <<protected, frame, ret_code, history, copy>>
    /\ UNCHANGED <<device, fixed>>

WriteCheck_Retries ==
    /\ pc = "write_check"
    /\ pc' = IF status.write THEN "write_word" ELSE "write_wait"
    /\ UNCHANGED <<protected, frame, ret_code, history, copy, device, fixed>>
WriteCheck ==
    /\ pc = "write_check"
    /\ \E code \in PollPassed(status.write) :
          \/ code = "ETIMEDOUT" /\ Finish(code)
          \/ /\ code = "ok"
             /\ pc' = "write_word"
             /\ UNCHANGED <<protected, frame, ret_code, history, copy>>
    /\ UNCHANGED <<device, fixed>>

-----------------------------------------------------------------------------
(* alt_onchip_flash_write: the loops over the regions and their blocks look *)
(* for the next block that the offset lies in.                              *)

Next_Blocks == {k \in Blocks : /\ Later(k, block)
                               /\ Start(k) <= call.offset
                               /\ call.offset < BlockEnd(k)}

\* The comparison of the data with the block, as the cache shows it, up to the first
\* byte that differs.
Same(k) ==
    \A i \in 1 .. Done(k) : call.data[i] = Seen(call.offset + i - 1)
Compared(k) ==
    {call.offset + i - 1 : i \in {j \in 1 .. Done(k) :
        \A h \in 1 .. j - 1 : call.data[h] = Seen(call.offset + h - 1)}}

\* The block is compared, then erased, or passed over if it holds the data already.
ScanBlock(k) ==
    /\ Readable(Compared(k))
    /\ \/ /\ ~Same(k) /\ EraseRefusal(Start(k)) = "ok"
          /\ block' = k /\ pc' = "erase_idle" /\ copy' = Fill(Compared(k))
          /\ UNCHANGED <<call, chunk, ret_code, history>>
       \/ /\ ~Same(k) /\ EraseRefusal(Start(k)) # "ok"
          /\ Leave(EraseRefusal(Start(k)), Fill(Compared(k)))
       \/ /\ Same(k) /\ Done(k) = Len(call.data)
          /\ Leave("ok", Fill(Compared(k)))
       \/ /\ Same(k) /\ Done(k) # Len(call.data)
          /\ block' = k /\ copy' = Fill(Compared(k))
          /\ call' = [call EXCEPT !.offset = BlockEnd(k),
                                  !.data = SubSeq(@, Done(k) + 1, Len(@))]
          /\ UNCHANGED <<pc, chunk, ret_code, history>>

Scan ==
    /\ pc = "scan"
    /\ \/ Next_Blocks = {} /\ Return("ok")
       \/ /\ Next_Blocks # {}
          /\ ScanBlock(CHOOSE k \in Next_Blocks : \A l \in Next_Blocks : ~Later(k, l))
    /\ UNCHANGED <<device, protected, fixed>>

-----------------------------------------------------------------------------
Driver ==
    \/ Scan
    \/ EraseIdle \/ EraseWait \/ EraseCheck
    \/ WriteIdle \/ WriteWord \/ WriteWait \/ WriteCheck

\* What a program calls, alt_write_flash and the like.
Call ==
    \/ GetInfo
    \/ \E offset \in Offsets, data \in Data :
          \/ EraseBlock(offset)
          \/ WriteBlock(offset, data)
          \/ Write(offset, data)
          \/ Read(offset, Len(data))

Next == Call \/ Driver \/ Complete \/ Evict

Spec == Init /\ [][Next]_vars

\* A call in progress goes on, and the flash ends what it has begun; no line need
\* ever be dropped.
FairSpec == Spec /\ WF_vars(Driver) /\ WF_vars(Complete)

-----------------------------------------------------------------------------
(* Properties                                                               *)

Asked == asked.offset .. asked.offset + Len(asked.data) - 1
InRegions == UNION {region_info[i].start .. region_info[i].end : i \in DOMAIN region_info}

\* The bytes a call may change: a write erases the blocks its data lies in.
Reach == CASE asked.name = "write"       -> UNION {Page(b) : b \in Asked}
           [] asked.name = "write_block" -> Asked
           [] asked.name = "erase_block" -> Page(asked.offset)

\* What the bytes are after a call that succeeded.
Promised(b, new) ==
    CASE asked.name = "write" ->
            b \in Asked /\ Asked \subseteq InRegions /\ asked.fresh =>
                new[b] = asked.data[b - asked.offset + 1]
      [] asked.name = "write_block" ->
            b \in Asked /\ asked.idle => new[b] = Min2(before[b], asked.data[b - asked.offset + 1])
      [] asked.name = "erase_block" ->
            b \in Page(asked.offset) => new[b] = 1

\* However the blocks, the words, the lines and the data overlap, and whatever fails or
\* comes late: a call that reports success has done what it was asked, one that found
\* the flash idle has touched nothing else, no byte that a write was about is left in
\* the cache, and every way out of a call puts the write protection back.  A write is
\* held to its promise if it found the flash idle and the cache showed its bytes as they
\* were; WritesThrough is about the others.
KeepsPromise ==
    [][pc # "ready" /\ pc' = "ready" =>
          /\ protected'
          /\ ret_code' = "ok" => \A b \in Bytes : Promised(b, memory')
          /\ asked.name = "write" => Asked \cap DOMAIN copy' = {}
          /\ asked.idle => \A b \in Bytes \ Reach : memory'[b] = before[b]]_vars

\* Every call returns, although an operation may fail and never report that it
\* has passed.
CallReturns == pc # "ready" ~> pc = "ready"

\* alt_flash.h:84 says of a write: "Program a buffer into flash.  This routine
\* erases all the affected erase blocks (if necessary) and then programs the
\* data".  A write that reports success has written all of its data, wherever they lie
\* (altera_onchip_flash.c:326-382) ...
WritesAll ==
    [][/\ pc # "ready" /\ pc' = "ready"
       /\ asked.name = "write" /\ ret_code' = "ok" /\ asked.fresh
       => \A b \in Asked : memory'[b] = asked.data[b - asked.offset + 1]]_vars

\* ... and whatever an earlier call has left in the cache (altera_onchip_flash.c:351).
WritesThrough ==
    [][/\ pc # "ready" /\ pc' = "ready"
       /\ asked.name = "write" /\ ret_code' = "ok" /\ asked.idle /\ Asked \subseteq InRegions
       => \A b \in Asked : memory'[b] = asked.data[b - asked.offset + 1]]_vars
=============================================================================
