-------------------------------- MODULE Heap --------------------------------
(***************************************************************************)
(* sbrk, which extends the heap:  HAL/src/alt_sbrk.c                       *)
(*                                                                         *)
(* The program calls it through malloc, and it "must be safe if called     *)
(* from an interrupt context" (alt_sbrk.c:52-53): an interrupt may come    *)
(* between any two steps of the program's call while interrupts are on,    *)
(* and makes its own call to the end.  Addresses are offsets into the      *)
(* heap's region.                                                          *)
(***************************************************************************)
EXTENDS Naturals

CONSTANTS Word,         \* 4, the bytes of a word
          Limit,        \* __alt_heap_limit
          Increments    \* the sizes asked for; nothing is given back

\* What the constants must be; the modules that are run assume it.
HeapAssumption == Word \in Nat \ {0} /\ Limit \in Nat \ {0} /\ Increments \subseteq Nat

VARIABLES
    heap_end,        \* the end of the heap
    on,              \* interrupts are enabled
    at,              \* at[c]: where the call of c is, "none" outside
    incr,            \* incr[c]: its argument
    prev_heap_end,   \* prev_heap_end[c]
    blocks           \* history: what the calls have returned, empty blocks apart

callVars == <<at, incr, prev_heap_end>>
vars == <<heap_end, on, callVars, blocks>>

Callers == {"program", "interrupt"}

TypeOK ==
    /\ heap_end \in 0 .. Limit + Word /\ on \in BOOLEAN
    /\ at \in [Callers -> {"none", "align", "check", "extend"}]
    /\ incr \in [Callers -> Increments \cup {0}]
    /\ prev_heap_end \in [Callers -> Nat]
    /\ blocks \subseteq [base : Nat, size : Increments, owner : Callers]

\* The heap starts where the linker puts it, in a word or between two.
Init ==
    /\ heap_end \in 0 .. 1
    /\ on = TRUE
    /\ at = [c \in Callers |-> "none"]
    /\ incr = [c \in Callers |-> 0]
    /\ prev_heap_end = [c \in Callers |-> 0]
    /\ blocks = {}

-----------------------------------------------------------------------------
(* A definition with an underscore in its name is a variant of the one      *)
(* below it with a fault: the properties must tell them apart.              *)

\* An interrupt runs to its end before the program goes on.
Runs(c) == c = "program" => at["interrupt"] = "none"

\* The call: interrupts are disabled first.  One that comes before has been
\* taken and is over.
DisableAll_Skipped(c) == on
DisableAll(c) == FALSE

Call(c, n) ==
    /\ Runs(c) /\ at[c] = "none"
    /\ c = "interrupt" => on
    /\ on' = (c = "program" /\ DisableAll(c))
    /\ at' = [at EXCEPT ![c] = "align"]
    /\ incr' = [incr EXCEPT ![c] = n]
    /\ UNCHANGED <<heap_end, prev_heap_end, blocks>>

Aligned(x) == ((x + Word - 1) \div Word) * Word

Align(c) ==
    /\ Runs(c) /\ at[c] = "align"
    /\ heap_end' = Aligned(heap_end)
    /\ at' = [at EXCEPT ![c] = "check"]
    /\ UNCHANGED <<on, incr, prev_heap_end, blocks>>

\* The end of the call: the context is restored, or the interrupt returns.
Leave(c) ==
    /\ on' = TRUE
    /\ at' = [at EXCEPT ![c] = "none"]
    /\ incr' = [incr EXCEPT ![c] = 0]

Exceeds(c) == heap_end + incr[c] > Limit

\* -1 when the limit would be exceeded.
Refuse(c) ==
    /\ Runs(c) /\ at[c] = "check" /\ Exceeds(c)
    /\ Leave(c)
    /\ UNCHANGED <<heap_end, prev_heap_end, blocks>>

Check(c) ==
    /\ Runs(c) /\ at[c] = "check" /\ ~Exceeds(c)
    /\ prev_heap_end' = [prev_heap_end EXCEPT ![c] = heap_end]
    /\ at' = [at EXCEPT ![c] = "extend"]
    /\ UNCHANGED <<heap_end, on, incr, blocks>>

Granted(c) == [base |-> prev_heap_end[c], size |-> incr[c], owner |-> c]

Extend(c) ==
    /\ Runs(c) /\ at[c] = "extend"
    /\ heap_end' = heap_end + incr[c]
    /\ blocks' = blocks \cup {b \in {Granted(c)} : b.size > 0}
    /\ prev_heap_end' = [prev_heap_end EXCEPT ![c] = 0]
    /\ Leave(c)

Next == \E c \in Callers :
           \/ \E n \in Increments : Call(c, n)
           \/ Align(c) \/ Refuse(c) \/ Check(c) \/ Extend(c)

Spec == Init /\ [][Next]_vars

-----------------------------------------------------------------------------
(* Properties                                                              *)

Apart(b, c) == b.base + b.size <= c.base \/ c.base + c.size <= b.base

\* The types; and the blocks handed out start at a word, end below the limit and
\* do not overlap, whoever asked for them and whenever (alt_sbrk.c:73-95).
BlocksApart ==
    /\ TypeOK
    /\ \A b \in blocks : b.base % Word = 0 /\ b.base + b.size <= Limit
    /\ \A b, c \in blocks : b = c \/ Apart(b, c)
==============================================================================
