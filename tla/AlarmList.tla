------------------------------ MODULE AlarmList ------------------------------
(***************************************************************************)
(* alt_tick walking the list of alarms, pointer by pointer:                *)
(*   HAL/inc/sys/alt_llist.h     the circular doubly linked list           *)
(*   HAL/src/alt_tick.c          the loop, alt_alarm_stop                  *)
(*   HAL/src/alt_alarm_start.c   insertion at the head                     *)
(*                                                                         *)
(* The loop reads the successor of an entry before it makes the callback   *)
(* of that entry and follows it afterwards; in between the callback may    *)
(* start alarms and stop its own, and the loop itself removes the entry    *)
(* when the callback returns zero.  Interrupts are disabled meanwhile, so  *)
(* the program proper acts only between ticks.                             *)
(*                                                                         *)
(* Every reading of the list is a pointer chase: nothing in this module    *)
(* knows which alarms are registered but by following next.                *)
(***************************************************************************)
EXTENDS Naturals, FiniteSets

CONSTANTS Alarms, Wrap, StartTicks, Periods,   \* as in HalAlarm
          Head,                                \* alt_alarm_list
          Null,                                \* the null pointer
          CallbackStarts                       \* alarms that callbacks start

Nodes == Alarms \cup {Head}

\* What the constants must be; the modules that are run assume it.
ListAssumption ==
    /\ Head \notin Alarms /\ Null \notin Nodes /\ IsFiniteSet(Alarms)
    /\ Wrap \in Nat /\ Wrap > 1
    /\ StartTicks \subseteq 0 .. Wrap-1 /\ Periods \subseteq 0 .. Wrap-1
    /\ CallbackStarts \subseteq Alarms

VARIABLES
    nticks,       \* _alt_nticks
    next,         \* next[n]: n->next
    previous,     \* previous[n]: n->previous
    time,         \* time[a]: alarm->time
    rollover,     \* rollover[a]: alarm->rollover
    pc,           \* "main", or where alt_tick is: "loop" or in a "callback"
    alarm,        \* alt_tick's variable alarm
    nextAlarm,    \* alt_tick's variable next
    leftBefore,   \* history: the ticks left to each alarm when the tick came
    visited       \* history: the alarms whose turn in the loop is over

list == <<next, previous>>
deadline == <<time, rollover>>
history == <<leftBefore, visited>>
vars == <<nticks, list, deadline, pc, alarm, nextAlarm, history>>

\* A definition with an underscore in its name is a variant of the one below it
\* with a fault: the properties must tell them apart.
Add_NoWrap(x, y) == x + y
Add(x, y) == (x + y) % Wrap

TypeOK ==
    /\ nticks \in 0 .. Wrap-1
    /\ next \in [Nodes -> Nodes \cup {Null}]
    /\ previous \in [Nodes -> Nodes \cup {Null}]
    /\ time \in [Alarms -> 0 .. Wrap-1]
    /\ rollover \in [Alarms -> BOOLEAN]
    /\ pc \in {"main", "loop", "callback"}
    /\ alarm \in Nodes \cup {Null}
    /\ nextAlarm \in Nodes \cup {Null}
    /\ visited \subseteq Alarms

-----------------------------------------------------------------------------
(* The list                                                                *)

\* The nodes k pointers away from the head, and the alarms found on the way
\* round.
Follow(link) ==
    LET node[k \in 0 .. Cardinality(Nodes)] ==
            IF k = 0 THEN Head
            ELSE IF node[k-1] = Null THEN Null ELSE link[node[k-1]]
    IN  node

Reachable(link) ==
    LET node == Follow(link)
        Stretch(k) == {node[i] : i \in 1 .. k}
    IN  UNION {Stretch(k) : k \in {j \in 1 .. Cardinality(Nodes) :
                                      Head \notin Stretch(j)}}

OnList == Reachable(next)

\* alt_llist_insert and alt_llist_remove: the pointers after the four stores,
\* each made with the values the earlier ones left.
LlistInsert_AtTail(entry) ==
    /\ previous' = [previous EXCEPT ![entry] = previous[Head], ![Head] = entry]
    /\ next' = [next EXCEPT ![entry] = Head, ![previous[Head]] = entry]

LlistInsert(entry) ==
    LET previous1 == [previous EXCEPT ![entry] = Head]
        next1     == [next EXCEPT ![entry] = next[Head]]
    IN  /\ previous' = [previous1 EXCEPT ![next1[Head]] = entry]
        /\ next' = [next1 EXCEPT ![Head] = entry]

LlistRemove_NoSelfLink(entry) ==
    /\ previous' = [previous EXCEPT ![next[entry]] = previous[entry]]
    /\ next' = [next EXCEPT ![previous[entry]] = next[entry]]

LlistRemove(entry) ==
    LET previous1 == [previous EXCEPT ![next[entry]] = previous[entry]]
        next1     == [next EXCEPT ![previous1[entry]] = next[entry]]
    IN  /\ previous' = [previous1 EXCEPT ![entry] = entry]
        /\ next' = [next1 EXCEPT ![entry] = entry]

Left(a) == IF a \notin OnList THEN 0
           ELSE IF rollover[a] THEN (time[a] + Wrap) - nticks
           ELSE time[a] - nticks

-----------------------------------------------------------------------------
(* The program between ticks                                               *)

\* The list is its head; the alarm structures are zeroed globals.
Init ==
    /\ nticks = 0
    /\ next = [n \in Nodes |-> IF n = Head THEN Head ELSE Null]
    /\ previous = next
    /\ time = [a \in Alarms |-> 0]
    /\ rollover = [a \in Alarms |-> FALSE]
    /\ pc = "main"
    /\ alarm = Null
    /\ nextAlarm = Null
    /\ leftBefore = [a \in Alarms |-> 0]
    /\ visited = {}

\* The body of alt_alarm_start, from main or from a callback.
StartBody(a, n) ==
    /\ a \notin OnList
    /\ time' = [time EXCEPT ![a] = Add(n, nticks + 1)]
    /\ rollover' = [rollover EXCEPT ![a] = time'[a] < nticks]
    /\ LlistInsert(a)
    /\ UNCHANGED <<nticks, pc, alarm, nextAlarm, history>>

Start(a, n) ==
    /\ pc = "main"
    /\ StartBody(a, n)

\* alt_alarm_stop; the pointers of an alarm that was never started are null.
StopBody(a) ==
    /\ next[a] # Null
    /\ LlistRemove(a)

Stop(a) ==
    /\ pc = "main"
    /\ StopBody(a)
    /\ UNCHANGED <<nticks, deadline, pc, alarm, nextAlarm, history>>

-----------------------------------------------------------------------------
(* alt_tick                                                                *)

TickEnter ==
    /\ pc = "main"
    /\ pc' = "loop"
    /\ nticks' = Add(nticks, 1)
    /\ alarm' = next[Head]
    /\ leftBefore' = [a \in Alarms |-> Left(a)]
    /\ visited' = {}
    /\ UNCHANGED <<list, deadline, nextAlarm>>

\* The flag, cleared at the tick at which the counter has wrapped.
Flag_Kept == rollover[alarm]
Flag == rollover[alarm] /\ nticks # 0

Expired == time[alarm] <= nticks /\ ~Flag

\* Cache the successor, clear the flag when the counter has wrapped, and make
\* the callback if the alarm is due; otherwise move on.
Visit ==
    /\ pc = "loop"
    /\ alarm # Head
    /\ nextAlarm' = next[alarm]
    /\ rollover' = [rollover EXCEPT ![alarm] = Flag]
    /\ IF Expired
       THEN /\ pc' = "callback"
            /\ UNCHANGED <<alarm, visited>>
       ELSE /\ alarm' = nextAlarm'
            /\ visited' = visited \cup {alarm}
            /\ UNCHANGED pc
    /\ UNCHANGED <<nticks, list, time, leftBefore>>

\* Inside a callback: start another alarm, or stop the alarm itself.  The
\* callback of an alarm re-arms it by what it returns, not by starting it.
CallbackStart(a, n) ==
    /\ pc = "callback"
    /\ a # alarm
    /\ StartBody(a, n)

CallbackStopsItself ==
    /\ pc = "callback"
    /\ StopBody(alarm)
    /\ UNCHANGED <<nticks, deadline, pc, alarm, nextAlarm, history>>

\* alarm = next at the end of the body: the successor cached at its start.
Resume_FollowsEntry == next'[alarm]
Resume == nextAlarm

CallbackReturns(ret) ==
    /\ pc = "callback"
    /\ IF ret = 0
       THEN StopBody(alarm) /\ UNCHANGED deadline
       ELSE /\ time' = [time EXCEPT ![alarm] = Add(time[alarm], ret)]
            /\ rollover' = [rollover EXCEPT
                              ![alarm] = @ \/ time'[alarm] < nticks]
            /\ UNCHANGED list
    /\ pc' = "loop"
    /\ alarm' = Resume
    /\ visited' = visited \cup {alarm}
    /\ UNCHANGED <<nticks, nextAlarm, leftBefore>>

TickExit ==
    /\ pc = "loop"
    /\ alarm = Head
    /\ pc' = "main"
    /\ UNCHANGED <<nticks, list, deadline, alarm, nextAlarm, history>>

\* Interrupt-level steps.
AltTick ==
    \/ Visit
    \/ CallbackStopsItself
    \/ \E a \in CallbackStarts, n \in StartTicks : CallbackStart(a, n)
    \/ \E ret \in Periods : CallbackReturns(ret)
    \/ TickExit

Next ==
    \/ \E a \in Alarms : Stop(a) \/ \E n \in StartTicks : Start(a, n)
    \/ TickEnter
    \/ AltTick

Spec == Init /\ [][Next]_vars

\* The processor executes the interrupt handler to its end, and a callback
\* returns; a step that changes nothing is not progress.
FairSpec == Spec /\ WF_vars(AltTick)

-----------------------------------------------------------------------------
(* Properties                                                              *)

\* The list is sound whenever it can be read: following next from the head
\* comes back to the head, previous undoes next all the way, and an alarm
\* off the list is linked to itself, so that stopping it again is harmless
\* (alt_llist.h:110-117).
ListSound ==
    /\ \E k \in 1 .. Cardinality(Nodes) : Follow(next)[k] = Head
    /\ \A n \in OnList \cup {Head} : previous[next[n]] = n /\ next[previous[n]] = n
    /\ \A a \in Alarms \ OnList : next[a] \in {a, Null} /\ previous[a] = next[a]

\* In the loop, alarm is the head or a registered alarm whose turn has not
\* come yet: the successor read before a callback is never one that the
\* callback or the loop has taken off the list (alt_tick.c:102, 140).
CursorOnList ==
    /\ pc = "loop" => alarm \in (OnList \ visited) \cup {Head}
    /\ pc = "callback" => nextAlarm \in (OnList \ visited) \cup {Head}

\* Every alarm that was registered when the tick came has had its turn when
\* alt_tick returns, and no alarm that a callback started has.
EveryAlarmVisited ==
    pc = "loop" /\ alarm = Head =>
        visited = {a \in Alarms : leftBefore[a] # 0}

\* alt_tick ends: the loop comes back to the head.
TickEnds == pc # "main" ~> pc = "main"

\* The walk does what the countdown asks of a tick.  The countdown ticks when
\* alt_tick returns; until then its state is the one the tick found.
Schedule == INSTANCE AlarmSchedule WITH
    left <- IF pc = "main" THEN [a \in Alarms |-> Left(a)] ELSE leftBefore

ImplementsSchedule == Schedule!Spec
==============================================================================
