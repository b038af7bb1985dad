--------------------------- MODULE UncachedMemory ---------------------------
(***************************************************************************)
(* Blocks of memory a program takes with malloc, which it loads and stores *)
(* through the data cache, and with alt_uncached_malloc, which it uses     *)
(* past it (HAL/src/alt_uncached_malloc.c, alt_uncached_free.c,            *)
(* alt_remap_cached.c; the HAL functions of Caches).                       *)
(*                                                                         *)
(*   h         the machine of Caches                                       *)
(*   blocks    the blocks in use: the words the caller asked for, those    *)
(*             that are set aside for them, and how they are used          *)
(*   watched   a word of memory; what the others hold is of no interest,   *)
(*             and any word is watched in some behaviour                   *)
(*   last      what the program last stored in it, NotStored after it has  *)
(*             been allocated anew                                         *)
(*                                                                         *)
(* malloc, memalign and free are the C library's: they give words that are *)
(* not in use, and free links a block it is given into a list that it      *)
(* keeps in the block itself, through the cache.                           *)
(***************************************************************************)
EXTENDS Naturals, FiniteSets

CONSTANTS LineSize, DCacheLines, Addresses,
          Sizes,       \* the sizes asked for
          MaxBlocks    \* bounds the blocks in use

VARIABLES h, blocks, watched, last

vars == <<h, blocks, watched, last>>

NotStored == 2

Cache == INSTANCE Caches WITH Values <- {0, 1}, ICacheLines <- 1

MemoryAssumption == Cache!CacheAssumption /\ Sizes \subseteq Nat \ {0}

Words(start, len) == start .. start + len - 1
Used(b) == Words(b.start, b.len)
Room(b) == Words(b.start, b.room)

Block == [start : Addresses, len : Sizes, room : Nat, uncached : BOOLEAN]

TypeOK ==
    /\ Cache!IsMachine(h)
    /\ blocks \in SUBSET Block
    /\ watched \in Addresses
    /\ last \in {0, 1, NotStored}

Init ==
    /\ h = Cache!Cold([a \in Addresses |-> 0])
    /\ blocks = {}
    /\ watched \in Addresses
    /\ last = NotStored

\* What is known of the watched word when these words change hands.
Forget(words) == last' = IF watched \in words THEN NotStored ELSE last

Free(words) ==
    /\ words \subseteq Addresses
    /\ \A b \in blocks : words \cap Room(b) = {}

Malloc(start, len) ==
    /\ Free(Words(start, len))
    /\ blocks' = blocks \cup {[start |-> start, len |-> len, room |-> len, uncached |-> FALSE]}
    /\ Forget(Words(start, len))
    /\ UNCHANGED <<h, watched>>

\* The size is not rounded up to whole lines.
aligned_size_NotRounded(size) == size

aligned_size(size) == ((size + LineSize - 1) \div LineSize) * LineSize

\* The block begins at a line and is made of whole lines, none of which is cached.
alt_uncached_malloc(start, size) ==
    /\ start % LineSize = 0
    /\ Free(Words(start, aligned_size(size)))
    /\ h' = Cache!alt_dcache_flush(h, start, aligned_size(size))
    /\ blocks' = blocks \cup {[start |-> start, len |-> size, room |-> aligned_size(size),
                               uncached |-> TRUE]}
    /\ Forget(Words(start, aligned_size(size)))
    /\ UNCHANGED watched

\* free of either kind: alt_uncached_free clears the bypass bit of the address first.
Release(b) ==
    /\ h' = Cache!Store(h, b.start, 0)
    /\ blocks' = blocks \ {b}
    /\ Forget(Room(b))
    /\ UNCHANGED watched

alt_remap_cached(b) ==
    /\ b.uncached
    /\ blocks' = (blocks \ {b}) \cup {[b EXCEPT !.uncached = FALSE]}
    /\ UNCHANGED <<h, watched, last>>

Write(b, a, v) ==
    /\ a # watched => v = 0
    /\ h' = IF b.uncached THEN Cache!StoreIO(h, a, v) ELSE Cache!Store(h, a, v)
    /\ last' = IF a = watched THEN v ELSE last
    /\ UNCHANGED <<blocks, watched>>

Read(b, a) ==
    /\ ~b.uncached
    /\ h' = Cache!Load(h, a)
    /\ UNCHANGED <<blocks, watched, last>>

\* The program writes a cached block back, or throws away what it stored in one.  The
\* second it may do to whole lines only.
WriteOut(b) ==
    /\ ~b.uncached
    /\ h' = Cache!alt_dcache_flush(h, b.start, b.len)
    /\ UNCHANGED <<blocks, watched, last>>

WholeLines(b) == b.start % LineSize = 0 /\ b.len % LineSize = 0

Discard(b) ==
    /\ ~b.uncached /\ WholeLines(b)
    /\ h' = Cache!alt_dcache_flush_no_writeback(h, b.start, b.len)
    /\ Forget(Used(b))
    /\ UNCHANGED <<blocks, watched>>

Allocate(start, size) ==
    /\ Cardinality(blocks) < MaxBlocks
    /\ Malloc(start, size) \/ alt_uncached_malloc(start, size)

Next ==
    \/ \E start \in Addresses, size \in Sizes : Allocate(start, size)
    \/ \E b \in blocks :
           \/ Release(b) \/ alt_remap_cached(b) \/ WriteOut(b) \/ Discard(b)
           \/ \E a \in Used(b) : Read(b, a) \/ \E v \in {0, 1} : Write(b, a, v)

Spec == Init /\ [][Next]_vars

-----------------------------------------------------------------------------
(* Properties                                                              *)

\* A program finds in its blocks what it last stored there, in either kind: no line
\* that is written back, for another block or one that was there before, overwrites
\* a block that is used past the cache (alt_uncached_malloc.c:51, 57, 64).
LastStored ==
    \A b \in blocks :
        watched \in Used(b) /\ last # NotStored =>
            last = IF b.uncached THEN h.memory[watched] ELSE Cache!View(h, watched)

\* When alt_dcache_flush returns, memory has every word of the region and the cache
\* none, wherever the region begins and ends (alt_dcache_flush.c:53-67).
FlushReaches ==
    \A b \in blocks :
        ~b.uncached /\ watched \in Used(b) =>
            LET after == Cache!alt_dcache_flush(h, b.start, b.len)
            IN  /\ last # NotStored => after.memory[watched] = last
                /\ Cache!LineOf(watched) \notin DOMAIN after.dcache
==============================================================================
