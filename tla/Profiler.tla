------------------------------ MODULE Profiler -------------------------------
(***************************************************************************)
(* The profiler: mcount (HAL/src/alt_mcount.S), which the compiler calls   *)
(* at the start of every function, and what it needs (HAL/src/alt_gmon.c), *)
(* with an interrupt handler whose functions are profiled too.             *)
(*                                                                         *)
(*   call       of each context, where its call of mcount is and what it   *)
(*              has found: the entry of the function, the arc, the count   *)
(*              it read                                                    *)
(*   head       the entries of a bucket of __mcount_fn_head, by address    *)
(*   entry, arc the records in memory: an entry has the addresses of its   *)
(*              arcs, an arc where it comes from and how often             *)
(*   slab_ptr, slab_size   the memory mcount_allocate has in hand          *)
(*   brk        the next address sbrk gives out                            *)
(*   others     addresses sbrk has given to the rest of the program        *)
(*   tick_rate, pcsample_need_init   the rate of the clock, 0 before it is *)
(*              there, and whether the sampler is still to be started      *)
(*   starts     history: how often its alarm was started                   *)
(*   hits       history: the buckets of the histogram it has counted in    *)
(*   calls      history: the calls of each arc that have returned          *)
(*   raced      history: arcs an interrupt counted between the read of the *)
(*              count by the program and its write                         *)
(*   torn       history: an interrupt asked for the sampler between the    *)
(*              question of the program and its answer                     *)
(*                                                                         *)
(* Addresses count records: entries and arcs have 12 bytes each, and an    *)
(* increment of 1020 is a whole number of them.  All functions fall into   *)
(* one bucket.  Memory does not run out: the value of sbrk is not looked   *)
(* at, so nothing could be said if it did.                                 *)
(***************************************************************************)
EXTENDS Integers, SequencesExt, FiniteSetsExt

CONSTANTS
    Functions, Callers,
    Increment,      \* MCOUNT_SLAB_INCREMENT, in records
    TextBytes,      \* from stext to etext
    BucketBytes,    \* PCSAMPLE_BYTES_PER_BUCKET
    MaxCalls        \* the calls followed

VARIABLES call, head, entry, arc, slab_ptr, slab_size, brk, others,
          tick_rate, pcsample_need_init, starts, hits, calls, raced, torn

memory == <<slab_ptr, slab_size, brk, others>>
lists == <<head, entry, arc>>
sampler == <<tick_rate, pcsample_need_init, starts, hits>>
vars == <<call, lists, memory, sampler, calls, raced, torn>>

ProfilerAssumption ==
    /\ Increment \in Nat /\ Increment >= 2
    /\ TextBytes \in Nat /\ BucketBytes \in Nat \ {0}
    /\ MaxCalls \in Nat

None == -1
Contexts == {"program", "handler"}
Arcs == Functions \X Callers
Idle == [pc |-> "idle", arc |-> <<>>, entry |-> None, at |-> None, count |-> 0]

TypeOK ==
    /\ \A c \in Contexts :
           /\ call[c].pc \in {"idle", "fn", "arc", "load", "store", "ask", "clear",
                              "init", "answer", "record"}
           /\ call[c].pc # "idle" => call[c].arc \in Arcs
    /\ Range(head) = DOMAIN entry
    /\ \A e \in DOMAIN entry : entry[e].self_pc \in Functions
    /\ \A a \in DOMAIN arc : arc[a].from_pc \in Callers
    /\ slab_size \in 0 .. Increment
    /\ tick_rate \in {0, 1} /\ pcsample_need_init \in {0, 1}

Init ==
    /\ call = [c \in Contexts |-> Idle]
    /\ head = <<>> /\ entry = <<>> /\ arc = <<>>
    /\ slab_ptr = 0 /\ slab_size = 0 /\ brk = 1 /\ others = {}
    /\ tick_rate = 0 /\ pcsample_need_init = 1 /\ starts = 0 /\ hits = {}
    /\ calls = [x \in Arcs |-> 0] /\ raced = {} /\ torn = FALSE

-----------------------------------------------------------------------------
(* mcount                                                                  *)

\* The handler runs to its end before the program goes on.
Runs(c) == c = "program" => call["handler"].pc = "idle"

At(c, here) == Runs(c) /\ call[c].pc = here
Goes(c, there) == call' = [call EXCEPT ![c].pc = there]

SumOver(f, S) == MapThenSumSet(LAMBDA x : f[x], S)

Enter(c, x) ==
    /\ At(c, "idle") /\ SumOver(calls, Arcs) < MaxCalls
    /\ call' = [call EXCEPT ![c] = [Idle EXCEPT !.pc = "fn", !.arc = x]]
    /\ UNCHANGED <<lists, memory, sampler, calls, raced, torn>>

\* The first of a list that is among some records, or none.  The head is read once, and records
\* are only ever added before it: what the walk meets is decided when it begins.
FirstIn(list, records) ==
    LET I == {i \in DOMAIN list : list[i] \in records}
    IN IF I = {} THEN None ELSE list[Min(I)]

FindFunction(c) ==
    /\ At(c, "fn")
    /\ LET e == FirstIn(head, {r \in DOMAIN entry : entry[r].self_pc = call[c].arc[1]})
       IN call' = [call EXCEPT ![c].entry = e,
                               ![c].pc = IF e = None THEN "ask" ELSE "arc"]
    /\ UNCHANGED <<lists, memory, sampler, calls, raced, torn>>

FindArc(c) ==
    /\ At(c, "arc")
    /\ LET a == FirstIn(entry[call[c].entry].arcs,
                        {r \in DOMAIN arc : arc[r].from_pc = call[c].arc[2]})
       IN call' = [call EXCEPT ![c].at = a,
                               ![c].pc = IF a = None THEN "ask" ELSE "load"]
    /\ UNCHANGED <<lists, memory, sampler, calls, raced, torn>>

Load(c) ==
    /\ At(c, "load")
    /\ call' = [call EXCEPT ![c].pc = "store", ![c].count = arc[call[c].at].count]
    /\ UNCHANGED <<lists, memory, sampler, calls, raced, torn>>

\* A call that ends is one more of its arc, and one of the handler may have raced
\* with the program.
Ends(c) ==
    /\ call' = [call EXCEPT ![c] = Idle]
    /\ calls' = [calls EXCEPT ![call[c].arc] = @ + 1]
    /\ raced' = IF /\ c = "handler" /\ call["program"].pc = "store"
                   /\ call["program"].arc = call[c].arc
                THEN raced \cup {call[c].arc} ELSE raced

Store(c) ==
    /\ At(c, "store") /\ Ends(c)
    /\ arc' = [arc EXCEPT ![call[c].at].count = call[c].count + 1]
    /\ UNCHANGED <<head, entry, memory, sampler, torn>>

-----------------------------------------------------------------------------
(* __mcount_record                                                         *)

Ask(c) ==
    /\ At(c, "ask")
    /\ Goes(c, IF pcsample_need_init = 1 THEN "clear" ELSE "record")
    /\ torn' = (torn \/ (c = "handler" /\ call["program"].pc = "clear"))
    /\ UNCHANGED <<lists, memory, sampler, calls, raced>>

\* No longer to be started, before it is: a call from an interrupt meanwhile does not
\* start it again.
Clear_Afterwards(c) ==
    /\ At(c, "clear") /\ Goes(c, "init")
    /\ UNCHANGED <<pcsample_need_init, lists, memory, tick_rate, starts, hits, calls, raced, torn>>

Clear(c) ==
    /\ At(c, "clear") /\ Goes(c, "init")
    /\ pcsample_need_init' = 0
    /\ UNCHANGED <<lists, memory, tick_rate, starts, hits, calls, raced, torn>>

\* Without a clock it remains to be started; the memory of the histogram comes from
\* sbrk and is not followed.
nios2_pcsample_init(c) ==
    /\ At(c, "init")
    /\ starts' = starts + tick_rate
    /\ call' = [call EXCEPT ![c].pc = "answer", ![c].count = 1 - tick_rate]
    /\ UNCHANGED <<lists, memory, tick_rate, pcsample_need_init, hits, calls, raced, torn>>

Answer(c) ==
    /\ At(c, "answer") /\ Goes(c, "record")
    /\ pcsample_need_init' = call[c].count
    /\ UNCHANGED <<lists, memory, tick_rate, starts, hits, calls, raced, torn>>

\* mcount_allocate: a record from the slab, or from a new one.
Allocated_SizeKept(ptr, size, top) ==
    LET fresh == 1 > size
        p == IF fresh THEN top ELSE ptr
        s == IF fresh THEN Increment ELSE size
    IN [at |-> p, ptr |-> p + 1, size |-> s, brk |-> IF fresh THEN top + Increment ELSE top]

Allocated(ptr, size, top) ==
    LET fresh == 1 > size
        p == IF fresh THEN top ELSE ptr
        s == IF fresh THEN Increment ELSE size
    IN [at |-> p, ptr |-> p + 1, size |-> s - 1, brk |-> IF fresh THEN top + Increment ELSE top]

Add(f, address, record) == [x \in DOMAIN f \cup {address} |-> IF x = address THEN record ELSE f[x]]

\* One step, with the interrupts disabled.  The entry is the one that was found, and
\* a new one when none was.
Record(c) ==
    /\ At(c, "record") /\ Ends(c)
    /\ LET new == call[c].entry = None
           first == IF new THEN Allocated(slab_ptr, slab_size, brk)
                           ELSE [at |-> call[c].entry, ptr |-> slab_ptr,
                                 size |-> slab_size, brk |-> brk]
           second == Allocated(first.ptr, first.size, first.brk)
           e == first.at
           entries == IF new THEN Add(entry, e, [self_pc |-> call[c].arc[1], arcs |-> <<>>])
                             ELSE entry
       IN /\ head' = IF new THEN <<e>> \o head ELSE head
          /\ entry' = [entries EXCEPT ![e].arcs = <<second.at>> \o @]
          /\ arc' = Add(arc, second.at, [from_pc |-> call[c].arc[2], count |-> 1])
          /\ slab_ptr' = second.ptr /\ slab_size' = second.size /\ brk' = second.brk
    /\ UNCHANGED <<others, sampler, torn>>

-----------------------------------------------------------------------------
(* The sampler, and what goes on around                                    *)

\* The pc of what the tick interrupted, when it lies in the text.
nios2_pcsample(pc) ==
    /\ starts > 0 /\ pc < TextBytes
    /\ hits' = hits \cup {pc \div BucketBytes}
    /\ UNCHANGED <<call, lists, memory, tick_rate, pcsample_need_init, starts,
                   calls, raced, torn>>

ClockStarts ==
    /\ tick_rate' = 1
    /\ UNCHANGED <<call, lists, memory, pcsample_need_init, starts, hits,
                   calls, raced, torn>>

\* Another part of the program calls sbrk.
Others ==
    /\ others = {}
    /\ others' = {brk} /\ brk' = brk + 1
    /\ UNCHANGED <<call, lists, slab_ptr, slab_size, sampler, calls, raced, torn>>

Next ==
    \/ \E c \in Contexts :
           \/ \E x \in Arcs : Enter(c, x)
           \/ FindFunction(c) \/ FindArc(c) \/ Load(c) \/ Store(c)
           \/ Ask(c) \/ Clear(c) \/ nios2_pcsample_init(c) \/ Answer(c) \/ Record(c)
    \/ \E pc \in 0 .. TextBytes : nios2_pcsample(pc)
    \/ ClockStarts
    \/ Others

Spec == Init /\ [][Next]_vars

-----------------------------------------------------------------------------
(* Properties                                                              *)

\* Records lie apart from one another and from the memory of others: each address of
\* a list is there once (alt_gmon.c:133-147).
RecordsApart ==
    LET listed == head \o FlattenSeq([i \in DOMAIN head |-> entry[head[i]].arcs])
    IN /\ IsInjective(listed)
       /\ Range(listed) = DOMAIN entry \cup DOMAIN arc
       /\ Range(listed) \cap others = {}

\* Every call of an arc is counted once, in whatever copies of it there are, unless an
\* interrupt counted the same arc while the program had its count in hand
\* (alt_gmon.c:173-182, alt_mcount.S:120-122: the increment has no protection).
CallsCounted ==
    \A x \in Arcs \ raced :
        LET own == {e \in DOMAIN entry : entry[e].self_pc = x[1]}
            of == {a \in DOMAIN arc :
                       arc[a].from_pc = x[2] /\ \E e \in own : a \in Range(entry[e].arcs)}
        IN calls[x] = MapThenSumSet(LAMBDA a : arc[a].count, of)

\* The alarm of the sampler is started once, unless an interrupt fell between the
\* question whether it is to be and the answer (alt_gmon.c:167-170); and a sample
\* falls into the histogram if the text ends where a bucket does (226, 265).
SamplerSound ==
    /\ starts > 1 => torn
    /\ \A b \in hits : TextBytes % BucketBytes = 0 => b < TextBytes \div BucketBytes

ProfilerSound == TypeOK /\ RecordsApart /\ CallsCounted /\ SamplerSound
===============================================================================
