------------------------------ MODULE Startup ------------------------------
(***************************************************************************)
(* From reset to main and to the end (HAL/src/crt0.S, alt_load.c,          *)
(* alt_main.c, alt_exit.c, alt_sys_init.c), through the caches of Caches   *)
(* and with a reset at any point: what a program before the reset left in  *)
(* memory and in the caches is still there.                                *)
(*                                                                         *)
(*   h        the machine of Caches                                        *)
(*   pc       what is to be done next                                      *)
(*   at       the word a loop has come to                                  *)
(*   todo     the sections still to be loaded, then the devices still to   *)
(*            be initialised                                               *)
(*   PIE      interrupts are taken                                         *)
(*   ienable  the devices whose interrupt is enabled                       *)
(*   changed  the variables the program or a driver has stored to since    *)
(*            they were given their initial values                         *)
(*                                                                         *)
(* A word of an image is its address at run time plus one, so that a word  *)
(* that is loaded to the wrong place is seen; Junk is what a program       *)
(* stored, or what memory has when the power comes on.                     *)
(***************************************************************************)
EXTENDS Naturals, Sequences, FiniteSetsExt

CONSTANTS
    LineSize, DCacheLines, ICacheLines,
    Size,          \* the words of memory
    Sections,      \* [from, to, end] in the order alt_load loads them
    BssStart, BssEnd,
    Exceptions,    \* the words of the exception code, where it runs
    Devices,       \* the devices with an interrupt, in the order of alt_sys_init
    StateOf        \* the word that stands for the variables of each

VARIABLES h, pc, at, todo, PIE, ienable, changed

vars == <<h, pc, at, todo, PIE, ienable, changed>>

Addresses == 0 .. Size-1
Zero      == 0
Image(a)  == a + 1
Junk      == Size + 1

Cache == INSTANCE Caches WITH Values <- 0 .. Junk

\* Where a section is loaded from, and to.
Source(s) == s.from .. s.from + (s.end - s.to) - 1
Target(s) == s.to .. s.end - 1

Bss      == BssStart .. BssEnd - 1
Loaded   == UNION {Target(Sections[i]) : i \in DOMAIN Sections}
\* What is kept where it is loaded from, .rodata here, is not a variable.
InPlace  == UNION {Target(Sections[i]) :
                       i \in {j \in DOMAIN Sections : Sections[j].from = Sections[j].to}}
Variables == Bss \cup (Loaded \ (InPlace \cup Exceptions))

\* The layout the linker gives a program: the images lie apart, and nothing that is
\* loaded elsewhere or cleared lies on one of them.
StartupAssumption ==
    /\ Size \in Nat /\ Cache!CacheAssumption
    /\ Sections \in Seq([from : Nat, to : Nat, end : 0 .. Size])
    /\ \A i \in DOMAIN Sections :
           Sections[i].to <= Sections[i].end /\ Source(Sections[i]) \subseteq Addresses
    /\ \A i, j \in DOMAIN Sections :
           /\ i = j \/ Source(Sections[i]) \cap Source(Sections[j]) = {}
           /\ Sections[i].from # Sections[i].to =>
                 Target(Sections[i]) \cap Source(Sections[j]) = {}
           /\ Bss \cap (Source(Sections[i]) \cup Target(Sections[i])) = {}
    /\ BssStart \in Nat /\ BssEnd \in BssStart .. Size
    /\ Exceptions \subseteq Loaded
    /\ Devices \in Seq(DOMAIN StateOf) /\ \A d \in DOMAIN StateOf : StateOf[d] \in Variables

Initial(a) == IF a \in Bss THEN Zero ELSE Image(a)

\* The images, and nothing else, are in memory when the power comes on; the caches
\* hold anything.
PowerUp ==
    [a \in Addresses |->
        LET of == {i \in DOMAIN Sections : a \in Source(Sections[i])}
        IN  IF of = {} THEN Junk
            ELSE LET s == Sections[CHOOSE i \in of : TRUE] IN Image(s.to + (a - s.from))]

Steps == {"icache", "dcache", "clear_bss", "alt_load", "flush_data", "flush_code",
          "alt_irq_init", "alt_sys_init", "alt_io_redirect", "main", "_exit"}

TypeOK ==
    /\ Cache!IsMachine(h)
    /\ pc \in Steps
    /\ at \in Nat
    /\ PIE \in BOOLEAN
    /\ ienable \subseteq DOMAIN StateOf
    /\ changed \subseteq Variables

\* What a cache of so many lines may hold of them by chance.
ByChance(lines, size) ==
    {L \in SUBSET lines : \A k, l \in L : k % size = l % size => k = l}
JunkWords(l) == [a \in Cache!WordsOf(l) |-> Junk]

Init ==
    /\ \E D \in ByChance(Cache!Lines, DCacheLines), I \in ByChance(Cache!Lines, ICacheLines) :
           h = [memory |-> PowerUp,
                dcache |-> [l \in D |-> [dirty |-> TRUE, words |-> JunkWords(l)]],
                icache |-> [l \in I |-> JunkWords(l)]]
    /\ pc = "icache" /\ at = 0 /\ todo = <<>>
    /\ PIE = FALSE /\ ienable = {} /\ changed = {}

\* The hardware empties neither cache.
Reset ==
    /\ pc # "icache"
    /\ pc' = "icache" /\ at' = 0 /\ todo' = <<>>
    /\ PIE' = FALSE /\ ienable' = {} /\ changed' = {}
    /\ UNCHANGED h

-----------------------------------------------------------------------------
(* crt0.S                                                                  *)

\* The places a loop gets to that counts down from the size by lines to one.
PlacesInitialised(lines) == {k % lines : k \in 1 .. lines}

InitICache ==
    /\ pc = "icache" /\ pc' = "dcache"
    /\ h' = [h EXCEPT !.icache =
                 Cache!Restrict(h.icache, DOMAIN h.icache \
                     Cache!InPlaces(PlacesInitialised(ICacheLines), h.icache, ICacheLines))]
    /\ UNCHANGED <<at, todo, PIE, ienable, changed>>

InitDCache ==
    /\ pc = "dcache" /\ pc' = "clear_bss"
    /\ h' = Cache!Drop(h, Cache!InPlaces(PlacesInitialised(DCacheLines), h.dcache, DCacheLines))
    /\ at' = BssStart
    /\ UNCHANGED <<todo, PIE, ienable, changed>>

ClearBss ==
    /\ pc = "clear_bss" /\ at < BssEnd
    /\ h' = Cache!Store(h, at, Zero)
    /\ at' = at + 1
    /\ UNCHANGED <<pc, todo, PIE, ienable, changed>>

BssCleared ==
    /\ pc = "clear_bss" /\ at = BssEnd
    /\ pc' = "alt_load" /\ todo' = Sections /\ at' = 0
    /\ UNCHANGED <<h, PIE, ienable, changed>>

-----------------------------------------------------------------------------
(* alt_load                                                                *)

alt_load_section ==
    /\ pc = "alt_load" /\ todo # <<>>
    /\ LET s == Head(todo)
       IN  IF s.to # s.from /\ s.to + at # s.end
           THEN /\ h' = Cache!Store(Cache!Load(h, s.from + at), s.to + at,
                                    Cache!View(h, s.from + at))
                /\ at' = at + 1
                /\ UNCHANGED todo
           ELSE /\ todo' = Tail(todo) /\ at' = 0
                /\ UNCHANGED h
    /\ UNCHANGED <<pc, PIE, ienable, changed>>

AllLoaded ==
    /\ pc = "alt_load" /\ todo = <<>>
    /\ pc' = "flush_data"
    /\ UNCHANGED <<h, at, todo, PIE, ienable, changed>>

\* What was loaded stays in the data cache.
FlushData_Omitted ==
    /\ pc = "flush_data" /\ pc' = "flush_code"
    /\ UNCHANGED <<h, at, todo, PIE, ienable, changed>>

FlushData ==
    /\ pc = "flush_data" /\ pc' = "flush_code"
    /\ h' = Cache!alt_dcache_flush_all(h)
    /\ UNCHANGED <<at, todo, PIE, ienable, changed>>

FlushCode ==
    /\ pc = "flush_code" /\ pc' = "alt_irq_init"
    /\ h' = Cache!alt_icache_flush_all(h)
    /\ UNCHANGED <<at, todo, PIE, ienable, changed>>

-----------------------------------------------------------------------------
(* alt_main                                                                *)

\* A store to a variable, which from then on has what it is given.
Change(a) ==
    /\ h' = Cache!Store(h, a, Junk)
    /\ changed' = changed \cup {a}

alt_irq_init ==
    /\ pc = "alt_irq_init" /\ pc' = "alt_sys_init"
    /\ ienable' = {} /\ PIE' = TRUE
    /\ todo' = Devices
    /\ UNCHANGED <<h, at, changed>>

\* A device stores the address of its handler and enables its interrupt.
InitDevice ==
    /\ pc = "alt_sys_init" /\ todo # <<>>
    /\ Change(StateOf[Head(todo)])
    /\ ienable' = ienable \cup {Head(todo)}
    /\ todo' = Tail(todo)
    /\ UNCHANGED <<pc, at, PIE>>

DevicesDone ==
    /\ pc = "alt_sys_init" /\ todo = <<>>
    /\ pc' = "alt_io_redirect"
    /\ UNCHANGED <<h, at, todo, PIE, ienable, changed>>

\* The descriptors of standard input, output and error are stored to, then main runs.
alt_io_redirect ==
    /\ pc = "alt_io_redirect" /\ pc' = "main"
    /\ \E a \in Variables : Change(a)
    /\ UNCHANGED <<at, todo, PIE, ienable>>

Program ==
    /\ pc = "main"
    /\ \E a \in Variables : Change(a)
    /\ UNCHANGED <<pc, at, todo, PIE, ienable>>

\* main returns, standard output is closed and _exit stays in its loop.
Return ==
    /\ pc = "main" /\ pc' = "_exit"
    /\ \E a \in Variables : Change(a)
    /\ UNCHANGED <<at, todo, PIE, ienable>>

\* The exception code is fetched and the handler of the device runs.
Interrupt ==
    /\ PIE
    /\ \E d \in ienable :
           /\ h' = Cache!Store(FoldSet(LAMBDA a, m : Cache!Fetch(m, a), h, Exceptions), StateOf[d], Junk)
           /\ changed' = changed \cup {StateOf[d]}
    /\ UNCHANGED <<pc, at, todo, PIE, ienable>>

Next ==
    \/ InitICache \/ InitDCache \/ ClearBss \/ BssCleared
    \/ alt_load_section \/ AllLoaded \/ FlushData \/ FlushCode
    \/ alt_irq_init \/ InitDevice \/ DevicesDone \/ alt_io_redirect
    \/ Program \/ Return \/ Interrupt \/ Reset

Spec == Init /\ [][Next]_vars

-----------------------------------------------------------------------------
(* Properties                                                              *)

\* From alt_main on, whatever ran before the reset, every variable that has not been
\* stored to has the value its program gives it (crt0.S:446, alt_load.c:73), and the
\* code an interrupt fetches is the exception code (alt_load.c:81, 97-98).
Started ==
    pc \in {"alt_irq_init", "alt_sys_init", "alt_io_redirect", "main", "_exit"} =>
        /\ \A a \in Variables \ changed : Cache!View(h, a) = Initial(a)
        /\ \A a \in Exceptions : Cache!Fetched(h, a) = Image(a)
=============================================================================
