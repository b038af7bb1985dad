----------------------------- MODULE IrqDispatch -----------------------------
(***************************************************************************)
(* Interrupts on the processor's internal controller:                      *)
(*   HAL/src/alt_irq_handler.c        finds and calls the handlers         *)
(*   HAL/src/alt_irq_register.c and   put a handler into the table         *)
(*   HAL/src/alt_iic_isr_register.c                                        *)
(*   HAL/inc/priv/alt_legacy_irq.h    one interrupt on or off; an ISR that *)
(*                                    lets higher priorities in            *)
(*   HAL/inc/sys/alt_irq.h            all interrupts off, and back         *)
(*                                                                         *)
(* The processor runs the topmost of a stack of frames: the program at the *)
(* bottom, an interrupt above whatever it interrupted.  A call is the list *)
(* of its stores and control register writes, one step each; what lies     *)
(* between two of them is seen by an interrupt.  Sets of interrupt ids     *)
(* stand for the bit masks, and the smallest id has the highest priority.  *)
(***************************************************************************)
EXTENDS Naturals, Sequences, FiniteSetsExt, SequencesExt

CONSTANTS ALT_NIRQ,     \* the interrupts of the controller
          Handlers,     \* the handlers, each with its context
          Null,         \* the null handler
          MaxSaved,     \* bound: contexts an activation has saved
          MaxFrames,    \* bound: activations on the stack
          Careful       \* ISRs do not switch interrupts under a priority mask

Ids == 0 .. ALT_NIRQ-1

\* What the constants must be; the modules that are run assume it.
IrqAssumption ==
    /\ ALT_NIRQ \in Nat \ {0} /\ Null \notin Handlers
    /\ MaxSaved \in Nat /\ MaxFrames \in Nat \ {0} /\ Careful \in BOOLEAN

VARIABLES
    irq,                \* the interrupts the devices request
    PIE,                \* the enable bit of the status register
    ienable,            \* the register IENABLE
    alt_irq_active, alt_priority_mask,
    handler, context,   \* the two fields of each entry of alt_irq
    frames              \* the activations, the running one last

table == <<handler, context>>
masks == <<alt_irq_active, alt_priority_mask>>
vars == <<irq, PIE, ienable, masks, table, frames>>

\* An activation: where it is, the interrupt it serves, the handler and the
\* context it was called with, the steps left of the call it makes and the
\* arguments of that call, the contexts it has saved, and the mask it keeps
\* while it is interruptible.
NoCall == [id |-> 0, handler |-> Null]
Frame(at) == [at |-> at, id |-> 0, handler |-> Null, context |-> Null,
              todo |-> <<>>, call |-> NoCall, saved |-> <<>>, old |-> <<>>]

Top == Last(frames)
SetTop(f) == frames' = [frames EXCEPT ![Len(frames)] = f]

Places == {"run", "entry", "isr", "served", "test"}

TypeOK ==
    /\ {irq, ienable, alt_irq_active, alt_priority_mask} \subseteq SUBSET Ids
    /\ PIE \in BOOLEAN
    /\ handler \in [Ids -> Handlers \cup {Null}]
    /\ context \in [Ids -> Handlers \cup {Null}]
    /\ Len(frames) \in 1 .. MaxFrames
    /\ \A k \in DOMAIN frames : frames[k].at \in Places /\ frames[k].id \in Ids

\* After alt_irq_init: IENABLE is cleared and the processor takes interrupts.
Init ==
    /\ irq = {} /\ PIE = TRUE /\ ienable = {}
    /\ alt_irq_active = {} /\ alt_priority_mask = Ids
    /\ handler = [i \in Ids |-> Null] /\ context = [i \in Ids |-> Null]
    /\ frames = <<Frame("run")>>

Pending == irq \cap ienable

-----------------------------------------------------------------------------
(* The devices, external: a request stands until the handler has served the *)
(* device.                                                                  *)

Raise(i) ==
    /\ i \notin irq
    /\ irq' = irq \cup {i}
    /\ UNCHANGED <<PIE, ienable, masks, table, frames>>

-----------------------------------------------------------------------------
(* The calls.  A definition with an underscore in its name is a variant of  *)
(* the one below it with a fault: the properties must tell them apart.      *)

EnableSteps == <<"disable_all", "active", "ienable", "enable_all">>
DisableSteps == <<"disable_all", "inactive", "ienable", "enable_all">>

SwitchSteps(h) == IF h = Null THEN DisableSteps ELSE EnableSteps

RegisterSteps_Unprotected(h) == SwitchSteps(h) \o <<"handler", "context">>
RegisterSteps(h) ==
    <<"disable_all", "handler", "context">> \o SwitchSteps(h) \o <<"enable_all">>

\* The program and the handlers may call where they have no call going; a handler
\* that has served its device only closes what it has opened.
BetweenCalls == Top.at \in {"run", "isr", "served"} /\ Top.todo = <<>>

MayCall == BetweenCalls /\ Top.at # "served"

Call(steps, id, h) ==
    /\ SetTop([Top EXCEPT !.todo = steps, !.call = [id |-> id, handler |-> h]])
    /\ UNCHANGED <<irq, PIE, ienable, masks, table>>

MaySwitch == MayCall /\ (Careful => alt_priority_mask = Ids)

\* Handlers are taken out by the program alone: otherwise one may go between the
\* call of Enable and its first step.
Register(id, h) ==
    MaySwitch /\ (h = Null => Top.at = "run") /\ Call(RegisterSteps(h), id, h)

\* An interrupt is enabled once it has a handler.
Enable(id)      == MaySwitch /\ handler[id] # Null /\ Call(EnableSteps, id, Null)
Disable(id)     == MaySwitch /\ Call(DisableSteps, id, Null)

EnterCritical ==
    /\ MayCall /\ Len(Top.saved) < MaxSaved
    /\ Call(<<"disable_all">>, 0, Null)

LeaveCritical == BetweenCalls /\ Top.saved # <<>> /\ Call(<<"enable_all">>, 0, Null)

Does(step) == Top.todo # <<>> /\ Head(Top.todo) = step
Done == [Top EXCEPT !.todo = Tail(@)]

\* alt_irq_disable_all: save the status register, clear PIE.
DisableAll ==
    /\ Does("disable_all")
    /\ SetTop([Done EXCEPT !.saved = Append(@, PIE)])
    /\ PIE' = FALSE
    /\ UNCHANGED <<irq, ienable, masks, table>>

\* alt_irq_enable_all: the context saved, and not simply on.
Restored_On == TRUE
Restored == Last(Top.saved)

EnableAll ==
    /\ Does("enable_all")
    /\ SetTop([Done EXCEPT !.saved = Front(@)])
    /\ PIE' = Restored
    /\ UNCHANGED <<irq, ienable, masks, table>>

SetHandler ==
    /\ Does("handler")
    /\ SetTop(Done)
    /\ handler' = [handler EXCEPT ![Top.call.id] = Top.call.handler]
    /\ UNCHANGED <<irq, PIE, ienable, masks, context>>

SetContext ==
    /\ Does("context")
    /\ SetTop(Done)
    /\ context' = [context EXCEPT ![Top.call.id] = Top.call.handler]
    /\ UNCHANGED <<irq, PIE, ienable, masks, handler>>

SetActive ==
    /\ \/ Does("active") /\ alt_irq_active' = alt_irq_active \cup {Top.call.id}
       \/ Does("inactive") /\ alt_irq_active' = alt_irq_active \ {Top.call.id}
    /\ SetTop(Done)
    /\ UNCHANGED <<irq, PIE, ienable, alt_priority_mask, table>>

\* The enable list as it is: the priority mask has no part in it.
SetIenable ==
    /\ Does("ienable")
    /\ SetTop(Done)
    /\ ienable' = alt_irq_active
    /\ UNCHANGED <<irq, PIE, masks, table>>

-----------------------------------------------------------------------------
(* An interrupt                                                            *)

\* The processor saves its status, clears PIE and enters alt_irq_handler.
TakeInterrupt ==
    /\ PIE /\ Pending # {}
    /\ Len(frames) < MaxFrames
    /\ frames' = Append(frames, Frame("entry"))
    /\ PIE' = FALSE
    /\ UNCHANGED <<irq, ienable, masks, table>>

\* The inner loop, to the first bit set, and the call of its handler.
Chosen_Last == Max(Pending)
Chosen == Min(Pending)

Dispatch ==
    /\ Top.at = "entry" /\ Pending # {}
    /\ SetTop([Top EXCEPT !.at = "isr", !.id = Chosen,
                          !.handler = handler[Chosen], !.context = context[Chosen]])
    /\ UNCHANGED <<irq, PIE, ienable, masks, table>>

\* The handler, external, serves its device; it may do so again.
Serve ==
    /\ Top.at = "isr" /\ Top.todo = <<>>
    /\ irq' = irq \ {Top.id}
    /\ SetTop([Top EXCEPT !.at = "served"])
    /\ UNCHANGED <<PIE, ienable, masks, table>>

\* alt_irq_interruptible, with interrupts off until its last write.
Above_Inclusive(id) == {j \in Ids : j <= id}
Above(id) == {j \in Ids : j < id}

Interruptible ==
    /\ MayCall /\ Top.at # "run" /\ Top.saved = <<>> /\ Top.old = <<>>
    /\ SetTop([Top EXCEPT !.old = <<alt_priority_mask>>])
    /\ alt_priority_mask' = Above(Top.id)
    /\ ienable' = alt_irq_active \cap alt_priority_mask'
    /\ PIE' = TRUE
    /\ UNCHANGED <<irq, alt_irq_active, table>>

\* alt_irq_non_interruptible, with interrupts off from its first write on.
NonInterruptible ==
    /\ BetweenCalls /\ Top.saved = <<>> /\ Top.old # <<>>
    /\ PIE' = FALSE
    /\ alt_priority_mask' = Last(Top.old)
    /\ ienable' = Last(Top.old) \cap alt_irq_active
    /\ SetTop([Top EXCEPT !.old = <<>>])
    /\ UNCHANGED <<irq, alt_irq_active, table>>

\* An ISR returns with what it opened closed again.
IsrReturns ==
    /\ Top.at = "served" /\ Top.todo = <<>> /\ Top.saved = <<>> /\ Top.old = <<>>
    /\ SetTop(Frame("test"))
    /\ UNCHANGED <<irq, PIE, ienable, masks, table>>

\* The outer loop: another round, or the return from the exception.
TestAgain ==
    /\ Top.at = "test"
    /\ IF Pending # {} THEN SetTop(Frame("entry")) /\ UNCHANGED PIE
                ELSE frames' = Front(frames) /\ PIE' = TRUE
    /\ UNCHANGED <<irq, ienable, masks, table>>

-----------------------------------------------------------------------------

Requests ==
    \/ \E id \in Ids : Enable(id) \/ Disable(id)
                       \/ \E h \in Handlers \cup {Null} : Register(id, h)
    \/ EnterCritical \/ Interruptible

\* What goes on once it has begun.
Continue ==
    \/ DisableAll \/ EnableAll \/ SetHandler \/ SetContext
    \/ SetActive \/ SetIenable \/ LeaveCritical
    \/ Dispatch \/ Serve \/ NonInterruptible \/ IsrReturns \/ TestAgain

Next == Requests \/ Continue \/ TakeInterrupt \/ \E i \in Ids : Raise(i)

Spec == Init /\ [][Next]_vars

\* The processor carries on, and takes an interrupt that is pending again and
\* again while PIE is set.  Critical sections end, and a handler comes to serve its
\* device, whatever they call meanwhile.
FairSpec ==
    /\ Spec
    /\ WF_vars(Continue)
    /\ SF_vars(TakeInterrupt)
    /\ SF_vars(LeaveCritical)
    /\ SF_vars(Serve)

-----------------------------------------------------------------------------
(* Properties                                                              *)

\* A handler that runs was registered, and with the context it is given: no
\* interrupt finds the table half written (alt_irq_register.c:80).  And
\* alt_irq_handler always finds a bit set; it does not stop looking otherwise
\* (alt_irq_handler.c:128).
HandlersSound ==
    /\ TypeOK
    /\ \A k \in DOMAIN frames :
          frames[k].at = "isr" =>
              frames[k].handler # Null /\ frames[k].context = frames[k].handler
    /\ Top.at = "entry" => Pending # {}

\* Calls nest: between calls interrupts are on for the program outside its
\* critical sections and for an interruptible handler, and off for everyone
\* else (alt_irq.h:131).
CallsNest ==
    BetweenCalls => (PIE <=> Top.saved = <<>> /\ (Top.at = "run" \/ Top.old # <<>>))

\* A handler is interrupted only by handlers of a higher priority; what they call
\* does not let others in (alt_legacy_irq.h:116).
NestsByPriority ==
    \A k \in 2 .. Len(frames) - 1 :
        frames[k+1].at \in {"isr", "served"} => frames[k+1].id < frames[k].id

\* The request with the highest priority is served, unless its interrupt is
\* switched off: no critical section and no other device holds it up forever.
HighestServed ==
    (0 \in irq /\ 0 \in alt_irq_active) ~> (0 \notin irq \/ 0 \notin alt_irq_active)
==============================================================================
