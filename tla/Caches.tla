------------------------------- MODULE Caches -------------------------------
(***************************************************************************)
(* The caches of the Nios II of this system and the HAL functions that     *)
(* keep them in step with memory (HAL/src/alt_dcache_flush*.c,             *)
(* alt_icache_flush*.c).  No state of its own: a machine is a record of    *)
(*                                                                         *)
(*   memory   what every address holds behind the caches                   *)
(*   dcache   the lines of data held: their words, and whether they differ *)
(*            from memory (direct mapped, write back)                      *)
(*   icache   the lines of instructions held (direct mapped)               *)
(*                                                                         *)
(* and a load, a store, a fetch or a flush gives the machine after it.     *)
(* Addresses and lengths count words.                                      *)
(***************************************************************************)
EXTENDS Naturals, Functions

CONSTANTS
    LineSize,      \* NIOS2_DCACHE_LINE_SIZE and NIOS2_ICACHE_LINE_SIZE, 32 bytes both
    DCacheLines,   \* NIOS2_DCACHE_SIZE in lines
    ICacheLines,   \* NIOS2_ICACHE_SIZE in lines
    Addresses,     \* the words of memory, whole lines of them
    Values         \* what a word can hold

CacheAssumption ==
    /\ LineSize \in Nat \ {0} /\ DCacheLines \in Nat \ {0} /\ ICacheLines \in Nat \ {0}
    /\ Addresses \subseteq Nat
    /\ \A a \in Addresses, k \in 0 .. LineSize - 1 :
           (a \div LineSize) * LineSize + k \in Addresses

LineOf(a)  == a \div LineSize
WordsOf(l) == {a \in Addresses : LineOf(a) = l}
Lines      == {LineOf(a) : a \in Addresses}

\* The type of a machine.
IsMachine(h) ==
    /\ h.memory \in [Addresses -> Values]
    /\ \A l \in DOMAIN h.dcache :
           l \in Lines /\ h.dcache[l] \in [dirty : BOOLEAN, words : [WordsOf(l) -> Values]]
    /\ \A l \in DOMAIN h.icache : l \in Lines /\ h.icache[l] \in [WordsOf(l) -> Values]

Cold(memory) == [memory |-> memory, dcache |-> <<>>, icache |-> <<>>]

-----------------------------------------------------------------------------
(* The processor                                                           *)

\* A line as a load finds it, in the cache or in memory.
Held(h, l) ==
    IF l \in DOMAIN h.dcache
    THEN h.dcache[l]
    ELSE [dirty |-> FALSE, words |-> [a \in WordsOf(l) |-> h.memory[a]]]

\* What a load from a gives.
View(h, a) == Held(h, LineOf(a)).words[a]

\* Memory once the changed lines among ls are written to it.
WriteBack(h, ls) ==
    [a \in Addresses |-> IF /\ LineOf(a) \in ls \cap DOMAIN h.dcache
                            /\ h.dcache[LineOf(a)].dirty
                         THEN h.dcache[LineOf(a)].words[a]
                         ELSE h.memory[a]]

\* The line comes into the cache and the one in its place leaves.
Enter(h, l, line) ==
    LET leaving == {k \in DOMAIN h.dcache \ {l} : k % DCacheLines = l % DCacheLines}
    IN  [h EXCEPT !.memory = WriteBack(h, leaving),
                  !.dcache = [k \in (DOMAIN h.dcache \ leaving) \cup {l} |->
                                 IF k = l THEN line ELSE h.dcache[k]]]

Load(h, a) == Enter(h, LineOf(a), Held(h, LineOf(a)))

Store(h, a, v) ==
    Enter(h, LineOf(a), [dirty |-> TRUE,
                         words |-> [Held(h, LineOf(a)).words EXCEPT ![a] = v]])

\* stwio, and a store to an address with the bypass bit: past the cache.
StoreIO(h, a, v) == [h EXCEPT !.memory[a] = v]

\* What a fetch from a gives, and the line it brings into the cache.
Fetched(h, a) ==
    IF LineOf(a) \in DOMAIN h.icache THEN h.icache[LineOf(a)][a] ELSE h.memory[a]

Fetch(h, a) ==
    LET l == LineOf(a)
        stay == {k \in DOMAIN h.icache : k % ICacheLines # l % ICacheLines}
    IN  [h EXCEPT !.icache = [k \in stay \cup {l} |->
                                 IF k = l THEN [b \in WordsOf(l) |-> Fetched(h, b)]
                                 ELSE h.icache[k]]]

\* flushda, initda: the line of an address; flushd, initd, flushi and initi: whatever
\* line is in its place.
Drop(h, ls) == [h EXCEPT !.dcache = Restrict(h.dcache, DOMAIN h.dcache \ ls)]
Flush(h, ls) == [Drop(h, ls) EXCEPT !.memory = WriteBack(h, ls)]
InPlaces(places, cache, size) == {l \in DOMAIN cache : l % size \in places}

-----------------------------------------------------------------------------
(* The HAL                                                                 *)

\* A region that begins inside a line gets no more steps than one that begins at it.
Steps_Aligned(start, len) ==
    {start + k * LineSize : k \in 0 .. (len + LineSize - 1) \div LineSize - 1}

\* The addresses the loop of a flush passes to the processor: a line apart from the
\* first on, and one more where the first is inside a line.
Steps(start, len) ==
    LET loops == (len + LineSize - 1) \div LineSize
    IN  {start + k * LineSize : k \in 0 .. IF start % LineSize = 0 THEN loops - 1 ELSE loops}

LinesFlushed(start, len) == {LineOf(i) : i \in Steps(start, len)}

alt_dcache_flush(h, start, len) == Flush(h, LinesFlushed(start, len))

alt_dcache_flush_no_writeback(h, start, len) == Drop(h, LinesFlushed(start, len))

alt_dcache_flush_all(h) ==
    Flush(h, InPlaces({LineOf(i) % DCacheLines : i \in Steps(0, DCacheLines * LineSize)},
                      h.dcache, DCacheLines))

alt_icache_flush(h, start, len) ==
    LET size == ICacheLines * LineSize
        most == IF len > size THEN size ELSE len
        out  == InPlaces({l % ICacheLines : l \in LinesFlushed(start, most)},
                         h.icache, ICacheLines)
    IN  [h EXCEPT !.icache = Restrict(h.icache, DOMAIN h.icache \ out)]

alt_icache_flush_all(h) == alt_icache_flush(h, 0, ICacheLines * LineSize)
==============================================================================
