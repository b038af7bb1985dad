------------------------------- MODULE MCFlash -------------------------------
(***************************************************************************)
(* Instance for TLC of OnchipFlash alone: two sectors, a page of two       *)
(* words of two bytes and of two lines of the cache.  What is written is   *)
(* empty or longer than a page, from the start of a page and from its last *)
(* byte; the last offset is outside.                                       *)
(***************************************************************************)
EXTENDS OnchipFlash

MCSectors == <<[start |-> 0, end |-> 3], [start |-> 4, end |-> 7]>>
MCOffsets == {0, 3, 8}
MCData == {<<>>, <<1, 0, 0, 0, 1>>}
==============================================================================
