----------------------------- MODULE SpiCommand -----------------------------
(***************************************************************************)
(* One transaction of the SPI master:  drivers/src/altera_avalon_spi.c     *)
(*                                                                         *)
(* The master, external, has a transmit register in front of its shift     *)
(* register and one receive register behind it.  It shifts on while the    *)
(* program looks at a status it has read before.  The bytes of a call are  *)
(* numbered: the slave answers the k-th byte with k.                       *)
(***************************************************************************)
EXTENDS Integers, Sequences

CONSTANTS Lengths    \* the pairs <<write_length, read_length>> of the calls

\* What the constants must be; the modules that are run assume it.  A call for no
\* byte at all is not made: its loop would not end.
SpiAssumption ==
    \A l \in Lengths : l[1] \in Nat /\ l[2] \in Nat /\ l[1] + l[2] > 0

VARIABLES
    \* the master; a register is a sequence of at most one byte
    txdata, shift, rxdata, SSO,
    \* the call
    pc, status, credits,
    write_data, write_zeros,    \* the bytes left to write, the zeros after them
    read_ignore, read_data,     \* the bytes left to discard, those read
    flags, length,
    clocked                     \* history: what the slave got in this call

master == <<txdata, shift, rxdata, SSO>>
progress == <<write_data, write_zeros, read_ignore, read_data>>
vars == <<master, pc, status, credits, progress, flags, length, clocked>>

Flags == {"MERGE", "TOGGLE_SS_N"}
NoStatus == [trdy |-> FALSE, rrdy |-> FALSE]

TypeOK ==
    /\ {Len(txdata), Len(shift), Len(rxdata)} \subseteq 0 .. 1 /\ SSO \in BOOLEAN
    /\ pc \in {"idle", "discard", "status", "send", "receive", "finish", "release"}
    /\ status \in [trdy : BOOLEAN, rrdy : BOOLEAN] /\ credits <= 1
    /\ write_zeros \in Nat /\ read_ignore \in Nat /\ flags \subseteq Flags

\* A byte may be left from before the program.
Init ==
    /\ txdata = <<>> /\ shift = <<>> /\ rxdata \in {<<>>, <<0>>} /\ SSO = FALSE
    /\ pc = "idle" /\ status = NoStatus /\ credits = 0
    /\ write_data = <<>> /\ write_zeros = 0 /\ read_ignore = 0 /\ read_data = <<>>
    /\ flags = {} /\ length = <<0, 0>> /\ clocked = <<>>

TRDY == txdata = <<>>
RRDY == rxdata # <<>>
TMT  == txdata = <<>> /\ shift = <<>>

-----------------------------------------------------------------------------
(* The master                                                              *)

Load ==
    /\ txdata # <<>> /\ shift = <<>>
    /\ shift' = txdata /\ txdata' = <<>>
    /\ UNCHANGED <<rxdata, SSO, pc, status, credits, progress, flags, length, clocked>>

\* A byte has been exchanged; one that was not read in time is overwritten.
Shifted ==
    /\ shift # <<>> /\ shift' = <<>>
    /\ clocked' = clocked \o shift
    /\ rxdata' = <<Len(clocked')>>
    /\ UNCHANGED <<txdata, SSO, pc, status, credits, progress, flags, length>>

-----------------------------------------------------------------------------
(* alt_avalon_spi_command.  A definition with an underscore in its name is  *)
(* a variant of the one below it with a fault: the properties must tell     *)
(* them apart.                                                              *)

InitialCredits_Two == 2
InitialCredits == 1

\* The arguments, and SSO unless the slave select is to toggle.
Command(l, f) ==
    /\ pc = "idle" /\ pc' = "discard"
    /\ length' = l /\ flags' = f
    /\ credits' = InitialCredits
    /\ write_data' = [k \in 1 .. l[1] |-> k] /\ write_zeros' = l[2]
    /\ read_ignore' = l[1] /\ read_data' = <<>>
    /\ SSO' = (SSO \/ "TOGGLE_SS_N" \notin f)
    /\ clocked' = <<>>
    /\ UNCHANGED <<txdata, shift, rxdata, status>>

Discard ==
    /\ pc = "discard" /\ pc' = "status"
    /\ rxdata' = <<>>
    /\ UNCHANGED <<txdata, shift, SSO, status, credits, progress, flags, length, clocked>>

\* The status is read until there is something to do.
MayGoOn == (TRDY /\ credits # 0) \/ RRDY

Status ==
    /\ pc = "status" /\ MayGoOn
    /\ status' = [trdy |-> TRDY, rrdy |-> RRDY]
    /\ pc' = "send"
    /\ UNCHANGED <<master, credits, progress, flags, length, clocked>>

Spin ==
    /\ \/ pc = "status" /\ ~MayGoOn
       \/ pc = "finish" /\ ~TMT
    /\ UNCHANGED vars

Send ==
    /\ pc = "send" /\ pc' = "receive"
    /\ IF status.trdy /\ credits > 0
       THEN \/ /\ write_data # <<>>
               /\ txdata' = <<Head(write_data)>> /\ write_data' = Tail(write_data)
               /\ credits' = credits - 1 /\ UNCHANGED write_zeros
            \/ /\ write_data = <<>> /\ write_zeros > 0
               /\ txdata' = <<0>> /\ write_zeros' = write_zeros - 1
               /\ credits' = credits - 1 /\ UNCHANGED write_data
            \/ /\ write_data = <<>> /\ write_zeros = 0
               /\ credits' = -1024 /\ UNCHANGED <<txdata, write_data, write_zeros>>
       ELSE UNCHANGED <<txdata, credits, write_data, write_zeros>>
    /\ UNCHANGED <<shift, rxdata, SSO, status, read_ignore, read_data, flags, length, clocked>>

\* Discard as many bytes as were written, keep the others, and stop at the last.
Receive ==
    /\ pc = "receive"
    /\ IF status.rrdy
       THEN /\ rxdata' = <<>>
            /\ credits' = credits + 1
            /\ IF read_ignore > 0
               THEN read_ignore' = read_ignore - 1 /\ UNCHANGED read_data
               ELSE read_data' = read_data \o rxdata /\ UNCHANGED read_ignore
            /\ pc' = IF read_ignore' = 0 /\ Len(read_data') = length[2]
                     THEN "finish" ELSE "status"
       ELSE pc' = "status" /\ UNCHANGED <<rxdata, credits, read_ignore, read_data>>
    /\ status' = NoStatus
    /\ UNCHANGED <<txdata, shift, SSO, write_data, write_zeros, flags, length, clocked>>

Finish ==
    /\ pc = "finish" /\ TMT /\ pc' = "release"
    /\ UNCHANGED <<master, status, credits, progress, flags, length, clocked>>

\* The slave is released unless the caller goes on with it; the locals end.
Release ==
    /\ pc = "release" /\ pc' = "idle"
    /\ SSO' = (SSO /\ "MERGE" \in flags)
    /\ credits' = 0 /\ write_data' = <<>> /\ write_zeros' = 0
    /\ read_ignore' = 0 /\ read_data' = <<>>
    /\ flags' = {} /\ length' = <<0, 0>> /\ clocked' = <<>>
    /\ UNCHANGED <<txdata, shift, rxdata, status>>

-----------------------------------------------------------------------------

Begin == \E l \in Lengths, f \in SUBSET Flags : Command(l, f)
Continue == Discard \/ Status \/ Send \/ Receive \/ Finish \/ Release
Shifts == Load \/ Shifted

Next == Begin \/ Continue \/ Spin \/ Shifts

Spec == Init /\ [][Next]_vars

\* The master shifts what it is given, and the program goes on.
FairSpec == Spec /\ WF_vars(Continue) /\ WF_vars(Shifts)

-----------------------------------------------------------------------------
(* Properties                                                              *)

\* However the shifting falls between the reading of a status and what is done with
\* it: the slave gets the bytes written and then zeros, the caller gets exactly the
\* answers that follow those to the written bytes, nothing is left of an earlier
\* transaction, and the slave stays selected (altera_avalon_spi.c:53-57, 71-76).
Transferred ==
    /\ TypeOK
    /\ shift # <<>> => SSO \/ "TOGGLE_SS_N" \in flags
    /\ pc = "release" =>
          /\ clocked = [k \in 1 .. length[1] + length[2] |-> IF k <= length[1] THEN k ELSE 0]
          /\ read_data = [k \in 1 .. length[2] |-> length[1] + k]
          /\ TMT /\ rxdata = <<>>

\* A transaction ends.
CommandEnds == pc # "idle" ~> pc = "idle"
==============================================================================
