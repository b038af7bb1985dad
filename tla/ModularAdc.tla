----------------------------- MODULE ModularAdc -----------------------------
(***************************************************************************)
(* The driver of the modular ADC:                                          *)
(*   drivers/src/altera_modular_adc.c                      the calls, ISR  *)
(*   drivers/inc/altera_modular_adc_sequencer_regs.h       the command     *)
(*   drivers/inc/altera_modular_adc_sample_store_regs.h    its interrupt   *)
(*                                                                         *)
(* A call is the list of its stores and register accesses; between two of  *)
(* them the sequencer may end a sequence of conversions and the interrupt  *)
(* may come.  The sequencer and the sample store are external, as the      *)
(* macros use them: RUN reads one until the last sequence has ended, and   *)
(* a mode written meanwhile has no effect.                                 *)
(***************************************************************************)
EXTENDS Sequences

CONSTANTS Callbacks,   \* the callbacks, each with its context
          Null

\* What the constants must be; the modules that are run assume it.
AdcAssumption == Null \notin Callbacks

VARIABLES
    \* the sequencer: the command register, and what is not read from it
    RUN, MODE, stopping,
    \* the sample store
    irqStatus, irqEnable,
    \* alt_modular_adc_dev
    callback, callback_context, base_known,
    \* the program: the rest of its call, its argument, the backup of the register
    todo, arg, backup_cmd_reg,
    isr,             \* where alt_adc_irq is, "none" outside
    recalibrated,    \* history: a recalibration has ended in this call
    live             \* history: this call began with interrupts on

sequencer == <<RUN, MODE, stopping>>
store == <<irqStatus, irqEnable>>
dev == <<callback, callback_context, base_known>>
program == <<todo, arg, backup_cmd_reg>>
history == <<recalibrated, live>>
vars == <<sequencer, store, dev, program, isr, history>>

Modes == {"CONTINUOUS", "ONCE", "RECALIBRATE"}

TypeOK ==
    /\ {RUN, stopping, irqStatus, irqEnable, base_known, recalibrated, live} \subseteq BOOLEAN
    /\ MODE \in Modes
    /\ stopping => RUN
    /\ {callback, callback_context, arg} \subseteq Callbacks \cup {Null}
    /\ backup_cmd_reg \in [run : BOOLEAN, mode : Modes]
    /\ isr \in {"none", "callback", "clear"}

NoBackup == [run |-> FALSE, mode |-> "CONTINUOUS"]

\* After altera_modular_adc_init: the handler is installed, the device knows no
\* callback and not yet where its sample store is.
Init ==
    /\ RUN = FALSE /\ MODE = "CONTINUOUS" /\ stopping = FALSE
    /\ irqStatus = FALSE /\ irqEnable = FALSE
    /\ callback = Null /\ callback_context = Null /\ base_known = FALSE
    /\ todo = <<>> /\ arg = Null /\ backup_cmd_reg = NoBackup
    /\ isr = "none" /\ recalibrated = FALSE /\ live = FALSE

-----------------------------------------------------------------------------
(* The sequencer, external                                                 *)

SequenceEnds ==
    /\ RUN
    /\ RUN' = (MODE = "CONTINUOUS" /\ ~stopping)
    /\ stopping' = FALSE
    /\ irqStatus' = (irqStatus \/ MODE # "RECALIBRATE")
    /\ recalibrated' = (recalibrated \/ MODE = "RECALIBRATE")
    /\ UNCHANGED <<MODE, irqEnable, dev, program, isr, live>>

\* A write of the command register.
WriteCmd(run, mode) ==
    /\ MODE' = IF RUN THEN MODE ELSE mode
    /\ RUN' = (RUN \/ run)
    /\ stopping' = (RUN /\ ~run)

-----------------------------------------------------------------------------
(* The calls.  A definition with an underscore in its name is a variant of  *)
(* the one below it with a fault: the properties must tell them apart.      *)

StopSteps_NoPoll == <<"stop">>
StopSteps == <<"stop", "poll">>

RegisterSteps_EnableFirst(c) ==
    (IF c # Null THEN <<"clear", "enable">> ELSE <<"disable", "clear">>) \o
        <<"callback", "context", "base">>
RegisterSteps(c) ==
    <<"callback", "context", "base">> \o
        IF c # Null THEN <<"clear", "enable">> ELSE <<"disable", "clear">>

\* adc_recalibrate
RecalibrateSteps ==
    <<"backup">> \o StopSteps \o <<"RECALIBRATE", "start", "poll", "restore">>

Call(steps, c) ==
    /\ todo = <<>> /\ isr = "none"
    /\ todo' = steps /\ arg' = c
    /\ recalibrated' = FALSE /\ live' = irqEnable
    /\ UNCHANGED <<sequencer, store, dev, backup_cmd_reg, isr>>

\* The calls ask for nothing: a callback may be registered over another, and interrupts
\* enabled before any is.
Register(c) == Call(RegisterSteps(c), c)
SetMode(mode) == Call(<<mode>>, Null)
Switch(step) == Call(<<step>>, Null)

Does(step) == todo # <<>> /\ Head(todo) = step /\ isr = "none"
Advances == todo' = Tail(todo) /\ arg' = (IF Tail(todo) = <<>> THEN Null ELSE arg)

\* START, STOP, the modes and the restore: the register is read and written.
Command ==
    /\ \/ Does("start") /\ WriteCmd(TRUE, MODE)
       \/ Does("stop") /\ WriteCmd(FALSE, MODE)
       \/ \E mode \in Modes : Does(mode) /\ WriteCmd(RUN, mode)
       \/ Does("restore") /\ WriteCmd(backup_cmd_reg.run, backup_cmd_reg.mode)
    /\ Advances
    /\ backup_cmd_reg' = IF Does("restore") THEN NoBackup ELSE backup_cmd_reg
    /\ UNCHANGED <<store, dev, isr, history>>

Backup ==
    /\ Does("backup") /\ Advances
    /\ backup_cmd_reg' = [run |-> RUN, mode |-> MODE]
    /\ UNCHANGED <<sequencer, store, dev, isr, history>>

\* The polls of RUN, and of the interrupt status, end.
Poll ==
    /\ \/ Does("poll") /\ ~RUN
       \/ Does("wait") /\ irqStatus
    /\ Advances
    /\ UNCHANGED <<sequencer, store, dev, backup_cmd_reg, isr, history>>

Spin ==
    /\ \/ Does("poll") /\ RUN
       \/ Does("wait") /\ ~irqStatus
    /\ UNCHANGED vars

SetDev ==
    /\ \/ Does("callback") /\ callback' = arg /\ UNCHANGED <<callback_context, base_known>>
       \/ Does("context") /\ callback_context' = arg /\ UNCHANGED <<callback, base_known>>
       \/ Does("base") /\ base_known' = TRUE /\ UNCHANGED <<callback, callback_context>>
    /\ Advances
    /\ UNCHANGED <<sequencer, store, backup_cmd_reg, isr, history>>

SetStore ==
    /\ \/ Does("enable") /\ irqEnable' = TRUE /\ UNCHANGED irqStatus
       \/ Does("disable") /\ irqEnable' = FALSE /\ UNCHANGED irqStatus
       \/ Does("clear") /\ irqStatus' = FALSE /\ UNCHANGED irqEnable
    /\ Advances
    /\ UNCHANGED <<sequencer, dev, backup_cmd_reg, isr, history>>

-----------------------------------------------------------------------------
(* alt_adc_irq, with all interrupts disabled                               *)

TakeInterrupt ==
    /\ isr = "none" /\ irqStatus /\ irqEnable
    /\ isr' = "callback"
    /\ UNCHANGED <<sequencer, store, dev, program, history>>

\* The callback, if there is one.
CallBack ==
    /\ isr = "callback" /\ isr' = "clear"
    /\ UNCHANGED <<sequencer, store, dev, program, history>>

\* The status is cleared where the device believes its sample store to be, at 0 before
\* the first registration (altera_modular_adc.h:108).
ClearStatus ==
    /\ isr = "clear" /\ isr' = "none"
    /\ irqStatus' = (irqStatus /\ ~base_known)
    /\ UNCHANGED <<sequencer, irqEnable, dev, program, history>>

-----------------------------------------------------------------------------

Begin ==
    \/ \E c \in Callbacks \cup {Null} : Register(c)
    \/ \E mode \in {"ONCE", "CONTINUOUS"} : SetMode(mode)
    \/ \E step \in {"enable", "disable", "clear"} : Switch(step)
    \/ \E steps \in {<<"start">>, StopSteps, RecalibrateSteps, <<"wait">>} : Call(steps, Null)

Continue == Command \/ Backup \/ Poll \/ SetDev \/ SetStore
Interrupt == TakeInterrupt \/ CallBack \/ ClearStatus

Next == Begin \/ Continue \/ Spin \/ SequenceEnds \/ Interrupt

Spec == Init /\ [][Next]_vars

\* A request that is served again and again, since no service of it clears it.
Storm == irqStatus /\ irqEnable /\ ~base_known

\* Sequences end, interrupts are served, and the program makes its next step:
\* a sequence takes many of the processor's cycles, so that the program runs again
\* and again between the interrupts, unless they come from a request that stays.
FairSpec ==
    /\ Spec
    /\ WF_vars(SequenceEnds) /\ WF_vars(Interrupt) /\ SF_vars(Continue /\ ~Storm)

-----------------------------------------------------------------------------
(* Properties                                                              *)

\* A callback is stored over another, or for the first time, with interrupts on: the
\* device is not consistent until its base is stored too.
HalfStored == live /\ todo # <<>> /\ Head(todo) \in {"context", "base"}

\* An interrupt, wherever it comes in a registration or in any other call, finds the
\* callback with its own context and with the place to clear the request, or no
\* callback: unless it comes between the stores of a registration that the program
\* began with interrupts on, where it may call the new callback with the context of
\* the old one (altera_modular_adc.c:61-67, 161-174).
CallbackWhole ==
    isr # "none" /\ ~HalfStored =>
        callback \in {Null, callback_context} /\ (callback # Null => base_known)

\* Whatever the sequencer was doing, adc_recalibrate ends with a recalibration done
\* and the mode back in force (altera_modular_adc.c:228-234).
Recalibrates ==
    [][Does("restore") /\ todo' = <<>> =>
          recalibrated /\ MODE' = backup_cmd_reg.mode]_vars

\* Every call ends, but for the wait for an interrupt, which may never come, and but
\* for a program that enabled interrupts before it registered a callback.
CallEnds == (todo # <<>> /\ Head(todo) # "wait") ~> (todo = <<>> \/ Storm)
==============================================================================
