------------------------------ MODULE HalProofs ------------------------------
(***************************************************************************)
(* The properties that the runs of MCHal check, for every value of the     *)
(* constants. The alarms, for every set of them and every width of the     *)
(* tick counter: the rollover flag is exact, callbacks come on their tick, *)
(* and the modular code implements the countdown of AlarmSchedule. The     *)
(* list, for any number of alarms: the links stay a ring, the loop of      *)
(* alt_tick keeps its place on it whatever the callbacks do, and a tick    *)
(* walked entry by entry is one tick of the countdown. The interrupts, the *)
(* heap and the time of day: a behaviour of the parts together is one of   *)
(* each part.                                                              *)
(***************************************************************************)
EXTENDS MCHal, Integers, FiniteSetTheorems, TLAPS

IrqP == INSTANCE IrqProofs

-----------------------------------------------------------------------------
(* The alarms: additions of the tick counter                               *)

\* alt_u32 addition is plain addition, or one wrap below it.
LEMMA AddWraps ==
    ASSUME NEW x \in Nat, NEW y \in Nat, x + y < 2 * Wrap
    PROVE  Add(x, y) = IF x + y < Wrap THEN x + y ELSE (x + y) - Wrap
<1>1. Wrap \in Nat /\ Wrap > 0
    BY WrapAssumption
<1>2. CASE x + y < Wrap
    BY <1>1, <1>2 DEF Add
<1>3. CASE x + y >= Wrap
    BY <1>1, <1>3 DEF Add
<1> QED BY <1>1, <1>2, <1>3

\* The result of an addition is an alt_u32 again.
LEMMA AddInU32 ==
    ASSUME NEW x \in Nat, NEW y \in Nat
    PROVE  Add(x, y) \in U32
BY WrapAssumption DEF Add, U32

-----------------------------------------------------------------------------
(* Type correctness                                                        *)

LEMMA TypeInit == Init => TypeOK
BY WrapAssumption DEF Init, TypeOK, U32

LEMMA TypeNext == TypeOK /\ [Next]_vars => TypeOK'
<1> SUFFICES ASSUME TypeOK, [Next]_vars PROVE TypeOK'
    OBVIOUS
<1>0. U32 \subseteq Nat /\ Periods \subseteq Nat /\ StartTicks \subseteq Nat
    BY PeriodsAssumption, StartTicksAssumption, WrapAssumption DEF U32
<1>1. ASSUME NEW freq \in Rates, SysClkInit(freq) PROVE TypeOK'
    BY <1>1, RatesAssumption DEF SysClkInit, TypeOK, alarmVars, U32
<1>2. ASSUME NEW a \in Alarms, Stop(a) PROVE TypeOK'
    BY <1>2 DEF Stop, TypeOK
<1>3. ASSUME NEW a \in Alarms, NEW n \in StartTicks, Start(a, n) PROVE TypeOK'
  <2>1. Add(n, nticks + 1) \in U32
      BY <1>0, AddInU32 DEF TypeOK
  <2>2. time' \in [Alarms -> U32]
      BY <1>3, <2>1 DEF Start, TypeOK, FirstCallback
  <2>3. rollover' \in [Alarms -> BOOLEAN]
      BY <1>3 DEF Start, TypeOK
  <2> QED BY <1>3, <2>2, <2>3 DEF Start, TypeOK
<1>4. ASSUME NEW ret \in [Alarms -> Periods], Tick(ret) PROVE TypeOK'
  <2>1. nticks' \in U32
      BY <1>0, <1>4, AddInU32 DEF Tick, TypeOK
  <2>2. time' \in [Alarms -> U32]
    <3>1. \A a \in Alarms : Add(time[a], ret[a]) \in U32
        BY <1>0, AddInU32 DEF TypeOK
    <3> QED BY <1>4, <3>1 DEF Tick, TypeOK
  <2>3. rollover' \in [Alarms -> BOOLEAN]
      BY <1>4, Zenon DEF Tick, TypeOK
  <2>4. alarm_list' \subseteq Alarms /\ tick_rate' = tick_rate
      BY <1>4 DEF Tick, TypeOK
  <2> QED BY <2>1, <2>2, <2>3, <2>4 DEF TypeOK
<1>5. CASE UNCHANGED vars
    BY <1>5 DEF TypeOK, vars
<1> QED BY <1>1, <1>2, <1>3, <1>4, <1>5 DEF Next, TimerInterrupt

\* Every variable keeps its width: the tick counter and the alarm times stay
\* 32-bit numbers through every addition of alt_tick and alt_alarm_start.
THEOREM TypeCorrect == Spec => []TypeOK
BY TypeInit, TypeNext, PTL DEF Spec

-----------------------------------------------------------------------------
(* The rollover flag                                                       *)

\* The delays for which alt_alarm_start sets the flag as its comment says:
\* all but the largest alt_u32.  The program's own are at most 250.
ShortDelays == StartTicks \subseteq 0 .. Wrap-2

\* The loop of alt_tick calls an alarm back exactly when its time has come.
LEMMA DueExact ==
    ASSUME TypeOK, RolloverExact, NEW a \in alarm_list
    PROVE  /\ a \in Due(Add(nticks, 1)) <=> time[a] = Add(nticks, 1)
           /\ a \in Due(Add(nticks, 1)) <=> Left(a) = 1
<1>1. /\ nticks \in Nat /\ nticks < Wrap
      /\ time[a] \in Nat /\ time[a] < Wrap
      /\ Wrap \in Nat /\ Wrap > 1
      /\ rollover[a] \in BOOLEAN
    BY WrapAssumption DEF TypeOK, U32
<1>2. Add(nticks, 1) = IF nticks + 1 < Wrap THEN nticks + 1 ELSE 0
    BY <1>1, AddWraps
<1>3. CASE rollover[a]
  <2>1. time[a] < nticks
      BY <1>3 DEF RolloverExact
  <2> QED BY <1>1, <1>2, <1>3, <2>1 DEF Due, RollsOver, Left
<1>4. CASE ~rollover[a]
  <2>1. time[a] > nticks
      BY <1>4 DEF RolloverExact
  <2> QED BY <1>1, <1>2, <1>4, <2>1 DEF Due, RollsOver, Left
<1> QED BY <1>1, <1>3, <1>4

\* alt_alarm_start sets time and flag to a callback n+1 ticks ahead.
LEMMA StartExact ==
    ASSUME ShortDelays, TypeOK, NEW a \in Alarms, NEW n \in StartTicks,
           Start(a, n)
    PROVE  /\ IF rollover'[a] THEN time'[a] < nticks ELSE time'[a] > nticks
           /\ Left(a)' = n + 1
<1>1. /\ nticks \in Nat /\ nticks < Wrap
      /\ n \in Nat /\ n + 1 < Wrap
      /\ Wrap \in Nat /\ Wrap > 1
    BY WrapAssumption DEF TypeOK, U32, ShortDelays
<1>2. Add(n, nticks + 1) = IF n + nticks + 1 < Wrap THEN n + nticks + 1
                                                  ELSE (n + nticks + 1) - Wrap
    BY <1>1, AddWraps
<1>3. /\ a \in alarm_list' /\ nticks' = nticks
      /\ time'[a] = Add(n, nticks + 1)
      /\ rollover'[a] <=> time'[a] < nticks
    BY DEF Start, TypeOK, FirstCallback
<1>4. CASE n + nticks + 1 < Wrap
    BY <1>1, <1>2, <1>3, <1>4 DEF Left
<1>5. CASE n + nticks + 1 >= Wrap
    BY <1>1, <1>2, <1>3, <1>5 DEF Left
<1> QED BY <1>1, <1>4, <1>5

\* What a tick does to one registered alarm: a callback that returns p > 0 puts
\* it p ticks ahead, zero takes it off the list, and an alarm that is not called
\* back comes one tick nearer.
LEMMA TickExact ==
    ASSUME TypeOK, RolloverExact, NEW ret \in [Alarms -> Periods], Tick(ret),
           NEW a \in alarm_list
    PROVE  /\ a \in alarm_list' =>
                IF rollover'[a] THEN time'[a] < nticks' ELSE time'[a] > nticks'
           /\ Left(a)' = IF Left(a) = 1 THEN ret[a] ELSE Left(a) - 1
<1> DEFINE now == Add(nticks, 1)
<1>1. /\ nticks \in Nat /\ nticks < Wrap
      /\ time[a] \in Nat /\ time[a] < Wrap
      /\ Wrap \in Nat /\ Wrap > 1
      /\ rollover[a] \in BOOLEAN
      /\ a \in Alarms
    BY WrapAssumption DEF TypeOK, U32
<1>0. ret[a] \in Nat /\ ret[a] < Wrap
  <2>1. ret[a] \in 0 .. Wrap-1
      BY <1>1, PeriodsAssumption
  <2> QED BY <1>1, <2>1
<1>2. now = IF nticks + 1 < Wrap THEN nticks + 1 ELSE 0
    BY <1>1, AddWraps
<1>3. IF rollover[a] THEN time[a] < nticks ELSE time[a] > nticks
    BY DEF RolloverExact
<1>4. nticks' = now
    BY DEF Tick
<1>5. CASE a \notin Due(now)
  <2>1. /\ a \in alarm_list' /\ time'[a] = time[a]
        /\ rollover'[a] <=> RollsOver(a, now)
      BY <1>1, <1>5 DEF Tick
  <2>2. time[a] # now /\ Left(a) # 1
      BY <1>5, DueExact
  <2>3. CASE rollover[a]
    <3>1. rollover'[a] <=> now # 0
        BY <2>1, <2>3 DEF RollsOver
    <3> QED BY <1>1, <1>2, <1>3, <1>4, <2>1, <2>2, <2>3, <3>1 DEF Left
  <2>4. CASE ~rollover[a]
    <3>1. ~rollover'[a]
        BY <2>1, <2>4 DEF RollsOver
    <3> QED BY <1>1, <1>2, <1>3, <1>4, <2>1, <2>2, <2>4, <3>1 DEF Left
  <2> QED BY <1>1, <2>3, <2>4
<1>6. CASE a \in Due(now)
  <2>1. time[a] = now /\ Left(a) = 1 /\ ~RollsOver(a, now)
      BY <1>6, DueExact DEF Due
  <2>2. CASE ret[a] = 0
    <3>1. a \notin alarm_list'
        BY <1>6, <2>2 DEF Tick
    <3> QED BY <2>1, <2>2, <3>1 DEF Left
  <2>3. CASE ret[a] # 0
    <3>1. /\ a \in alarm_list'
          /\ time'[a] = Add(now, ret[a])
          /\ rollover'[a] <=> time'[a] < now
        BY <1>1, <1>6, <2>1, <2>3 DEF Tick
    <3>2. Add(now, ret[a]) = IF now + ret[a] < Wrap THEN now + ret[a]
                                                   ELSE (now + ret[a]) - Wrap
        BY <1>0, <1>1, <1>2, AddWraps
    <3> QED BY <1>0, <1>1, <1>2, <1>4, <2>1, <2>3, <3>1, <3>2 DEF Left
  <2> QED BY <2>2, <2>3
<1> QED BY <1>5, <1>6

LEMMA RolloverNext ==
    ASSUME ShortDelays, TypeOK, RolloverExact, [Next]_vars
    PROVE  RolloverExact'
<1>1. ASSUME NEW freq \in Rates, SysClkInit(freq) PROVE RolloverExact'
    BY <1>1 DEF SysClkInit, RolloverExact, alarmVars
<1>2. ASSUME NEW a \in Alarms, Stop(a) PROVE RolloverExact'
    BY <1>2 DEF Stop, RolloverExact
<1>3. ASSUME NEW a \in Alarms, NEW n \in StartTicks, Start(a, n)
      PROVE  RolloverExact'
  <2>1. \A b \in alarm_list : time'[b] = time[b] /\ rollover'[b] = rollover[b]
      BY <1>3 DEF Start, TypeOK
  <2>2. alarm_list' = alarm_list \cup {a} /\ nticks' = nticks
      BY <1>3 DEF Start
  <2>3. IF rollover'[a] THEN time'[a] < nticks ELSE time'[a] > nticks
      BY <1>3, StartExact
  <2> QED BY <2>1, <2>2, <2>3 DEF RolloverExact
<1>4. ASSUME NEW ret \in [Alarms -> Periods], Tick(ret) PROVE RolloverExact'
  <2>1. alarm_list' \subseteq alarm_list
      BY <1>4 DEF Tick
  <2> QED BY <1>4, <2>1, TickExact DEF RolloverExact
<1>5. CASE UNCHANGED vars
    BY <1>5 DEF RolloverExact, vars
<1> QED BY <1>1, <1>2, <1>3, <1>4, <1>5 DEF Next, TimerInterrupt

LEMMA RolloverInit == Init => RolloverExact
BY DEF Init, RolloverExact

\* With delays short of a whole turn of the counter, a registered alarm always
\* carries the flag that tells on which side of the wrap its callback lies.
THEOREM RolloverCorrect == ASSUME ShortDelays PROVE Spec => []RolloverExact
<1>1. TypeOK /\ RolloverExact /\ [Next]_vars => (TypeOK /\ RolloverExact)'
    BY TypeNext, RolloverNext
<1> QED BY <1>1, TypeInit, RolloverInit, PTL DEF Spec

\* With such delays no callback is early and none is late.
THEOREM CallbacksOnTime == ASSUME ShortDelays PROVE Spec => CallbackOnTime
<1>1. TypeOK /\ RolloverExact /\ [Next]_vars =>
        [\A a \in alarm_list : nticks' # nticks =>
            (a \in Due(nticks') <=> time[a] = nticks')]_vars
  <2> SUFFICES ASSUME TypeOK, RolloverExact, Next, nticks' # nticks,
                      NEW a \in alarm_list
               PROVE  a \in Due(nticks') <=> time[a] = nticks'
      OBVIOUS
  <2>1. nticks' = Add(nticks, 1)
      BY DEF Next, SysClkInit, Start, Stop, TimerInterrupt, Tick
  <2> QED BY <2>1, DueExact
<1> QED BY <1>1, TypeCorrect, RolloverCorrect, PTL DEF Spec, CallbackOnTime

-----------------------------------------------------------------------------
(* The countdown                                                           *)

LEMMA LeftWhenOff ==
    ASSUME TypeOK, RolloverExact, NEW a \in Alarms
    PROVE  Left(a) = 0 <=> a \notin alarm_list
<1>1. /\ nticks \in Nat /\ nticks < Wrap
      /\ time[a] \in Nat /\ time[a] < Wrap
      /\ Wrap \in Nat
    BY WrapAssumption DEF TypeOK, U32
<1> QED BY <1>1 DEF Left, RolloverExact

\* Every step of the code is a step of the countdown, or leaves it alone.
LEMMA StepRefines ==
    ASSUME ShortDelays, TypeOK, RolloverExact, [Next]_vars
    PROVE  [Schedule!Next]_([a \in Alarms |-> Left(a)])
<1> DEFINE left == [a \in Alarms |-> Left(a)]
<1>1. ASSUME NEW freq \in Rates, SysClkInit(freq) PROVE left' = left
    BY <1>1 DEF SysClkInit, Left, alarmVars
<1>2. ASSUME NEW a \in Alarms, Stop(a) PROVE Schedule!Stop(a)
  <2>1. \A b \in Alarms : Left(b)' = IF b = a THEN 0 ELSE Left(b)
      BY <1>2 DEF Stop, Left
  <2> QED BY <2>1 DEF Schedule!Stop, Schedule!Off
<1>3. ASSUME NEW a \in Alarms, NEW n \in StartTicks, Start(a, n)
      PROVE  Schedule!Start(a)
  <2>1. Left(a) = 0 /\ Left(a)' = n + 1
      BY <1>3, StartExact DEF Left, Start
  <2>2. \A b \in Alarms \ {a} : Left(b)' = Left(b)
      BY <1>3 DEF Start, Left, TypeOK
  <2>3. left' = [left EXCEPT ![a] = n + 1]
      BY <2>1, <2>2
  <2> QED BY <2>1, <2>3 DEF Schedule!Start, Schedule!Off, Schedule!Delays
<1>4. ASSUME NEW ret \in [Alarms -> Periods], Tick(ret) PROVE Schedule!Tick
  <2>1. ASSUME NEW a \in Alarms PROVE left'[a] \in Schedule!AfterTick(a)
    <3>1. CASE a \notin alarm_list
      <4>1. Left(a) = 0 /\ Left(a)' = 0
          BY <1>4, <3>1 DEF Left, Tick
      <4> QED BY <4>1 DEF Schedule!AfterTick, Schedule!Off
    <3>2. CASE a \in alarm_list
      <4>1. Left(a) # 0
          BY <3>2, LeftWhenOff
      <4>2. Left(a)' = IF Left(a) = 1 THEN ret[a] ELSE Left(a) - 1
          BY <1>4, <3>2, TickExact
      <4> QED BY <4>1, <4>2 DEF Schedule!AfterTick, Schedule!Off
    <3> QED BY <3>1, <3>2
  <2> QED BY <2>1 DEF Schedule!Tick
<1>5. CASE UNCHANGED vars
  <2>1. \A a \in Alarms : Left(a)' = Left(a)
      BY <1>5 DEF vars, Left
  <2> QED BY <2>1
<1> QED BY <1>1, <1>2, <1>3, <1>4, <1>5 DEF Next, TimerInterrupt, Schedule!Next

\* alt_tick.c and alt_alarm_start.c, with their 32-bit times and the flag, behave
\* as the countdown of AlarmSchedule, whatever the width of the counter.
THEOREM CodeImplementsSchedule ==
    ASSUME ShortDelays PROVE Spec => ImplementsSchedule
<1>1. Init => Schedule!Init
    BY DEF Init, Left, Schedule!Init, Schedule!Off
<1> QED BY <1>1, StepRefines, TypeCorrect, RolloverCorrect, PTL
        DEF Spec, ImplementsSchedule, Schedule!Spec

-----------------------------------------------------------------------------
(* The list: following its pointers                                        *)

Links == [List!Nodes -> List!Nodes \cup {Null}]
Along(link, n) == IF n = Null THEN Null ELSE link[n]

\* The first k pointers that Follow follows.
Followed(f, k, link) ==
    /\ f \in [0 .. k -> List!Nodes \cup {Null}]
    /\ f[0] = ListHead
    /\ \A i \in 1 .. k : f[i] = Along(link, f[i-1])

LEMMA ListConstants ==
    /\ ListHead \in List!Nodes /\ ListAlarms \subseteq List!Nodes /\ ListHead \notin ListAlarms
    /\ List!Nodes = ListAlarms \cup {ListHead}
    /\ Null \notin List!Nodes /\ IsFiniteSet(List!Nodes)
    /\ Cardinality(List!Nodes) \in Nat
<1>1. IsFiniteSet(ListAlarms)
    BY PartsAssumption DEF List!ListAssumption, List!IsFiniteSet, IsFiniteSet
<1>2. IsFiniteSet(List!Nodes)
    BY <1>1, FS_AddElement DEF List!Nodes
<1>3. Cardinality(List!Nodes) \in Nat
    BY <1>2, FS_CardinalityType
<1>4. ListHead \notin ListAlarms /\ Null \notin List!Nodes
    BY PartsAssumption DEF List!ListAssumption
<1> QED BY <1>2, <1>3, <1>4 DEF List!Nodes

LEMMA SameCount == List!Cardinality(List!Nodes) = Cardinality(List!Nodes)
BY DEF List!Cardinality, Cardinality

\* They can be followed any number of times.
LEMMA CanFollow ==
    ASSUME NEW link \in Links, NEW n \in Nat
    PROVE  \E f : Followed(f, n, link)
<1> DEFINE bad == {k \in Nat : ~ \E f : Followed(f, k, link)}
<1>1. SUFFICES ASSUME bad # {} PROVE FALSE
    OBVIOUS
<1>2. PICK k \in bad : \A i \in bad : k <= i
    BY <1>1, IrqP!SmallestOf
<1>3. k # 0
  <2> DEFINE f == [i \in 0 .. 0 |-> ListHead]
  <2>1. Followed(f, 0, link)
      BY ListConstants DEF Followed
  <2> QED BY <2>1
<1>4. PICK f : Followed(f, k-1, link)
    BY <1>2, <1>3
<1> DEFINE g == [i \in 0 .. k |-> IF i = k THEN Along(link, f[k-1]) ELSE f[i]]
<1>5. Followed(g, k, link)
  <2>1. f[k-1] \in List!Nodes \cup {Null}
      BY <1>3, <1>4 DEF Followed
  <2>2. Along(link, f[k-1]) \in List!Nodes \cup {Null}
      BY <2>1 DEF Along, Links
  <2>3. \A i \in 0 .. k : g[i] \in List!Nodes \cup {Null}
      BY <1>4, <2>2 DEF Followed
  <2>4. \A i \in 1 .. k : g[i] = Along(link, g[i-1])
      BY <1>3, <1>4 DEF Followed
  <2>5. g[0] = ListHead
      BY <1>3, <1>4 DEF Followed
  <2> QED BY <2>3, <2>4, <2>5 DEF Followed
<1> QED BY <1>2, <1>5

LEMMA FollowIs ==
    ASSUME NEW link \in Links
    PROVE  Followed(List!Follow(link), Cardinality(List!Nodes), link)
<1> DEFINE N == Cardinality(List!Nodes)
           Q(node) == node = [k \in 0 .. N |->
                                IF k = 0 THEN ListHead
                                ELSE IF node[k-1] = Null THEN Null ELSE link[node[k-1]]]
<1>1. N \in Nat
    BY ListConstants
<1>2. List!Follow(link) = CHOOSE node : Q(node)
    BY SameCount DEF List!Follow
<1> HIDE DEF N
<1>3. PICK f : Followed(f, N, link)
    BY <1>1, CanFollow
<1>4. Q(f)
  <2>1. f \in [0 .. N -> List!Nodes \cup {Null}]
      BY <1>3 DEF Followed
  <2>2. ASSUME NEW k \in 0 .. N
        PROVE  f[k] = IF k = 0 THEN ListHead
                      ELSE IF f[k-1] = Null THEN Null ELSE link[f[k-1]]
      BY <1>1, <1>3 DEF Followed, Along
  <2> QED BY <2>1, <2>2
<1>5. Q(List!Follow(link))
  <2> HIDE DEF Q
  <2> QED BY <1>2, <1>4
<1> DEFINE node == List!Follow(link)
<1>6. DOMAIN node = 0 .. N /\ node = [k \in 0 .. N |-> node[k]]
    BY <1>5
<1>7. \A k \in 0 .. N : node[k] = IF k = 0 THEN ListHead ELSE Along(link, node[k-1])
    BY <1>5 DEF Along
<1> HIDE DEF node
<1>8. ASSUME NEW k \in 0 .. N PROVE node[k] = f[k]
  <2> DEFINE bad == {i \in 0 .. N : node[i] # f[i]}
  <2>1. SUFFICES ASSUME bad # {} PROVE FALSE
      OBVIOUS
  <2>2. PICK i \in bad : \A x \in bad : i <= x
    <3>1. bad \in SUBSET Nat
        BY <1>1
    <3> HIDE DEF bad
    <3> QED BY <2>1, <3>1, IrqP!SmallestOf
  <2>3. i # 0
      BY <1>1, <1>3, <1>7 DEF Followed
  <2>4. node[i-1] = f[i-1]
      BY <1>1, <2>2, <2>3
  <2> QED BY <1>1, <1>3, <1>7, <2>2, <2>3, <2>4 DEF Followed
<1>9. node = f
    BY <1>3, <1>6, <1>8 DEF Followed
<1> QED BY <1>3, <1>9 DEF node, N

-----------------------------------------------------------------------------
(* The list as a ring                                                      *)

\* Its nodes from the i-th to the k-th.
Stretch(r, i, k) == {r[x] : x \in i .. k}

\* A ring of m alarms: r goes round it from the head to the head, and an alarm that is
\* not on it is linked to itself or was never started.
Ring(r, m, nx, pv) ==
    /\ r[0] = ListHead /\ r[m+1] = ListHead
    /\ \A i, k \in 0 .. m : r[i] = r[k] => i = k
    /\ \A i \in 0 .. m : nx[r[i]] = r[i+1] /\ pv[r[i+1]] = r[i]
    /\ \A a \in ListAlarms \ Stretch(r, 1, m) : nx[a] \in {a, Null} /\ pv[a] = nx[a]

\* The alarms S are on the list, P are those from c on.
Shape(S, P, c, nx, pv) ==
    \E m \in Nat : \E r \in [0 .. m+1 -> List!Nodes] : \E j \in 1 .. m+1 :
        /\ Ring(r, m, nx, pv)
        /\ S = Stretch(r, 1, m) /\ P = Stretch(r, j, m) /\ c = r[j]

LEMMA RingFits ==
    ASSUME NEW m \in Nat, NEW r \in [0 .. m+1 -> List!Nodes], NEW nx, NEW pv, Ring(r, m, nx, pv)
    PROVE  m + 1 \in 1 .. Cardinality(List!Nodes)
<1> DEFINE I == 0 .. m
           g == [i \in I |-> r[i]]
<1>1. g \in Injection(I, List!Nodes)
    BY DEF Injection, IsInjective, Ring
<1>2. IsFiniteSet(I) /\ Cardinality(I) = m + 1
    BY FS_Interval
<1>3. Cardinality(I) <= Cardinality(List!Nodes)
  <2> HIDE DEF I, g
  <2> QED BY <1>1, <1>2, ListConstants, FS_Injection DEF ExistsInjection
<1> QED BY <1>2, <1>3, ListConstants

\* Following the pointers goes along the ring.
LEMMA FollowRing ==
    ASSUME NEW m \in Nat, NEW r \in [0 .. m+1 -> List!Nodes], NEW nx \in Links, NEW pv,
           Ring(r, m, nx, pv)
    PROVE  \A k \in 0 .. m+1 : List!Follow(nx)[k] = r[k]
<1> DEFINE node == List!Follow(nx)
           N == Cardinality(List!Nodes)
           bad == {k \in 0 .. m+1 : node[k] # r[k]}
<1>1. SUFFICES ASSUME bad # {} PROVE FALSE
    OBVIOUS
<1>2. PICK k \in bad : \A i \in bad : k <= i
  <2>1. bad \in SUBSET Nat
      OBVIOUS
  <2> HIDE DEF bad
  <2> QED BY <1>1, <2>1, IrqP!SmallestOf
<1>3. m + 1 \in 1 .. N /\ N \in Nat
    BY RingFits, ListConstants
<1>4. Followed(node, N, nx)
    BY FollowIs
<1> HIDE DEF node, N
<1>5. node[0] = r[0]
    BY <1>4 DEF Followed, Ring
<1>6. k \in 1 .. m+1 /\ node[k-1] = r[k-1]
    BY <1>2, <1>5
<1>7. node[k] = Along(nx, r[k-1])
    BY <1>3, <1>4, <1>6 DEF Followed
<1>8. r[k-1] \in List!Nodes /\ nx[r[k-1]] = r[k]
  <2>1. k - 1 \in 0 .. m /\ (k - 1) + 1 = k
      BY <1>6
  <2>2. nx[r[k-1]] = r[(k-1) + 1]
      BY <2>1 DEF Ring
  <2> QED BY <2>1, <2>2
<1> QED BY <1>2, <1>7, <1>8, ListConstants DEF Along

LEMMA RingFacts ==
    ASSUME NEW m \in Nat, NEW r \in [0 .. m+1 -> List!Nodes], NEW nx, NEW pv, Ring(r, m, nx, pv),
           NEW j \in 1 .. m+1
    PROVE  /\ Stretch(r, j, m) \subseteq ListAlarms
           /\ Stretch(r, j, m) \subseteq Stretch(r, 1, m)
           /\ r[j] = ListHead <=> j = m + 1
<1>1. \A i \in 1 .. m : r[i] # ListHead /\ r[i] \in ListAlarms
    BY ListConstants DEF Ring
<1> QED BY <1>1 DEF Stretch, Ring

\* What the loop of the module finds on its way round is the ring.
LEMMA ReachableRing ==
    ASSUME NEW m \in Nat, NEW r \in [0 .. m+1 -> List!Nodes], NEW nx \in Links, NEW pv,
           Ring(r, m, nx, pv)
    PROVE  List!Reachable(nx) = Stretch(r, 1, m)
<1> DEFINE node == List!Follow(nx)
           N == Cardinality(List!Nodes)
           part1(k) == {node[i] : i \in 1 .. k}
<1>1. \A k \in 0 .. m+1 : node[k] = r[k]
    BY FollowRing
<1>2. m + 1 \in 1 .. N /\ N \in Nat
    BY RingFits, ListConstants
<1>3. List!Reachable(nx) = UNION {part1(k) : k \in {j \in 1 .. N : ListHead \notin part1(j)}}
    BY SameCount DEF List!Reachable
<1> HIDE DEF node, N
<1>4. ASSUME NEW k \in 1 .. N, ListHead \notin part1(k) PROVE k <= m
  <2>1. node[m+1] = ListHead
      BY <1>1 DEF Ring
  <2> QED BY <1>2, <1>4, <2>1
<1>5. \A k \in 0 .. m : part1(k) = Stretch(r, 1, k)
    BY <1>1 DEF Stretch
<1>6. ListHead \notin Stretch(r, 1, m)
    BY RingFacts, ListConstants
<1>7. \A k \in 1 .. m : Stretch(r, 1, k) \subseteq Stretch(r, 1, m)
    BY DEF Stretch
<1>8. List!Reachable(nx) \subseteq Stretch(r, 1, m)
    BY <1>3, <1>4, <1>5, <1>7, <1>2
<1>9. Stretch(r, 1, m) \subseteq List!Reachable(nx)
  <2>1. CASE m = 0
      BY <2>1 DEF Stretch
  <2>2. CASE m # 0
    <3>1. m \in 1 .. N /\ part1(m) = Stretch(r, 1, m)
        BY <1>2, <1>5, <2>2
    <3> QED BY <1>3, <1>6, <3>1
  <2> QED BY <2>1, <2>2
<1> QED BY <1>8, <1>9

\* The list can be read: it is the alarms of the ring, and sound.
LEMMA ShapeSound ==
    ASSUME next \in Links, previous \in Links,
           NEW S, NEW P, NEW c, Shape(S, P, c, next, previous)
    PROVE  /\ List!OnList = S /\ List!ListSound
           /\ P \subseteq S /\ S \subseteq ListAlarms
           /\ c = ListHead <=> P = {}
           /\ c # ListHead => c \in P
           /\ c \in List!Nodes
<1>0. PICK m \in Nat : \E r \in [0 .. m+1 -> List!Nodes] : \E j \in 1 .. m+1 :
          /\ Ring(r, m, next, previous)
          /\ S = Stretch(r, 1, m) /\ P = Stretch(r, j, m) /\ c = r[j]
    BY DEF Shape
<1>1. PICK r \in [0 .. m+1 -> List!Nodes], j \in 1 .. m+1 :
          /\ Ring(r, m, next, previous)
          /\ S = Stretch(r, 1, m) /\ P = Stretch(r, j, m) /\ c = r[j]
    BY <1>0
<1>3. List!OnList = S
    BY <1>1, ReachableRing DEF List!OnList
<1>4. P \subseteq S /\ S \subseteq ListAlarms /\ (c = ListHead <=> j = m+1)
    BY <1>1, RingFacts
<1>5. j # m + 1 => c \in P
    BY <1>1 DEF Stretch
<1>6. j = m + 1 => P = {}
    BY <1>1 DEF Stretch
<1>7. List!ListSound
  <2>1. List!Follow(next)[m+1] = ListHead /\ m + 1 \in 1 .. List!Cardinality(List!Nodes)
    <3>1. m + 1 \in 0 .. m + 1
        OBVIOUS
    <3>2. \A k \in 0 .. m+1 : List!Follow(next)[k] = r[k]
        BY <1>1, FollowRing
    <3>3. r[m+1] = ListHead
        BY <1>1 DEF Ring
    <3>4. m + 1 \in 1 .. Cardinality(List!Nodes)
        BY <1>1, RingFits
    <3> QED BY <3>1, <3>2, <3>3, <3>4, SameCount
  <2>2. ASSUME NEW n \in S \cup {ListHead}
        PROVE  previous[next[n]] = n /\ next[previous[n]] = n
    <3>1. PICK i \in 0 .. m : n = r[i]
        BY <1>1 DEF Ring, Stretch
    <3>2. PICK k \in 1 .. m+1 : n = r[k]
        BY <1>1 DEF Ring, Stretch
    <3>3. next[r[i]] = r[i+1] /\ previous[r[i+1]] = r[i]
        BY <1>1 DEF Ring
    <3>4. next[r[k-1]] = r[k] /\ previous[r[k]] = r[k-1]
      <4>1. k - 1 \in 0 .. m /\ (k-1) + 1 = k
          OBVIOUS
      <4> QED BY <1>1, <4>1 DEF Ring
    <3> QED BY <3>1, <3>2, <3>3, <3>4
  <2>3. \A a \in ListAlarms \ S : next[a] \in {a, Null} /\ previous[a] = next[a]
      BY <1>1 DEF Ring
  <2> QED BY <1>3, <2>1, <2>2, <2>3 DEF List!ListSound
<1> QED BY <1>1, <1>3, <1>4, <1>5, <1>6, <1>7

\* The loop begins at the head's successor, with all alarms before it.
LEMMA ShapeStart ==
    ASSUME NEW S, NEW P, NEW c, Shape(S, P, c, next, previous)
    PROVE  Shape(S, S, next[ListHead], next, previous)
<1>0. PICK m \in Nat : \E r \in [0 .. m+1 -> List!Nodes] : \E j \in 1 .. m+1 :
          /\ Ring(r, m, next, previous)
          /\ S = Stretch(r, 1, m) /\ P = Stretch(r, j, m) /\ c = r[j]
    BY DEF Shape
<1>1. PICK r \in [0 .. m+1 -> List!Nodes] : Ring(r, m, next, previous) /\ S = Stretch(r, 1, m)
    BY <1>0
<1>2. next[ListHead] = r[1]
  <2>1. 0 \in 0 .. m /\ 0 + 1 = 1
      OBVIOUS
  <2>2. next[r[0]] = r[0 + 1] /\ r[0] = ListHead
      BY <1>1, <2>1 DEF Ring
  <2> QED BY <2>1, <2>2
<1>3. 1 \in 1 .. m+1
    OBVIOUS
<1> QED BY <1>1, <1>2, <1>3 DEF Shape

\* It goes on to the next one.
LEMMA ShapeAlong ==
    ASSUME NEW S, NEW P, NEW c, Shape(S, P, c, next, previous), c # ListHead
    PROVE  c \in P /\ Shape(S, P \ {c}, next[c], next, previous)
<1>0. PICK m \in Nat : \E r \in [0 .. m+1 -> List!Nodes] : \E j \in 1 .. m+1 :
          /\ Ring(r, m, next, previous)
          /\ S = Stretch(r, 1, m) /\ P = Stretch(r, j, m) /\ c = r[j]
    BY DEF Shape
<1>1. PICK r \in [0 .. m+1 -> List!Nodes], j \in 1 .. m+1 :
          /\ Ring(r, m, next, previous)
          /\ S = Stretch(r, 1, m) /\ P = Stretch(r, j, m) /\ c = r[j]
    BY <1>0
<1>2. j \in 1 .. m
    BY <1>1 DEF Ring
<1>3. next[c] = r[j+1]
  <2>1. j \in 0 .. m
      BY <1>2
  <2> QED BY <1>1, <2>1 DEF Ring
<1>4. \A i \in j+1 .. m : r[i] # r[j]
  <2> SUFFICES ASSUME NEW i \in j+1 .. m, r[i] = r[j] PROVE FALSE
      OBVIOUS
  <2>1. i \in 0 .. m /\ j \in 0 .. m /\ i # j
      BY <1>2
  <2> QED BY <1>1, <2>1 DEF Ring
<1>5. P \ {c} = Stretch(r, j+1, m)
  <2>1. j .. m = {j} \cup (j+1 .. m)
      BY <1>2
  <2> QED BY <1>1, <1>4, <2>1 DEF Stretch
<1>6. c \in P /\ j + 1 \in 1 .. m+1
    BY <1>1, <1>2 DEF Stretch
<1> QED BY <1>1, <1>3, <1>5, <1>6 DEF Shape

\* alt_llist_insert puts an alarm behind the head, before the place of the loop.
LEMMA ShapeInsert ==
    ASSUME next \in Links, previous \in Links,
           NEW S, NEW P, NEW c, Shape(S, P, c, next, previous),
           NEW a \in ListAlarms \ S, List!LlistInsert(a)
    PROVE  Shape(S \cup {a}, P, c, next', previous')
<1>0. PICK m \in Nat : \E r \in [0 .. m+1 -> List!Nodes] : \E j \in 1 .. m+1 :
          /\ Ring(r, m, next, previous)
          /\ S = Stretch(r, 1, m) /\ P = Stretch(r, j, m) /\ c = r[j]
    BY DEF Shape
<1>1. PICK r \in [0 .. m+1 -> List!Nodes], j \in 1 .. m+1 :
          /\ Ring(r, m, next, previous)
          /\ S = Stretch(r, 1, m) /\ P = Stretch(r, j, m) /\ c = r[j]
    BY <1>0
<1> DEFINE q == [k \in 0 .. (m+1)+1 |-> IF k = 0 THEN ListHead
                                        ELSE IF k = 1 THEN a ELSE r[k-1]]
           first == r[1]
<1>2. q \in [0 .. (m+1)+1 -> List!Nodes]
    BY ListConstants
<1>3. /\ a \in List!Nodes /\ a # ListHead /\ ListHead \in List!Nodes /\ first \in List!Nodes
      /\ next[ListHead] = first /\ first # a
  <2>1. 0 \in 0 .. m /\ 0 + 1 = 1
      OBVIOUS
  <2>2. next[r[0]] = r[0 + 1] /\ r[0] = ListHead
      BY <1>1, <2>1 DEF Ring
  <2>3. first # a
      BY <1>1, ListConstants DEF Stretch, Ring
  <2> QED BY <2>1, <2>2, <2>3, ListConstants
<1>4. /\ next' = [next EXCEPT ![a] = first, ![ListHead] = a]
      /\ previous' = [previous EXCEPT ![a] = ListHead, ![first] = a]
    BY <1>3 DEF List!LlistInsert, Links
<1>5. \A n \in List!Nodes : /\ next'[n] = IF n = ListHead THEN a ELSE IF n = a THEN first ELSE next[n]
                            /\ previous'[n] = IF n = first THEN a ELSE IF n = a THEN ListHead
                                              ELSE previous[n]
    BY <1>3, <1>4 DEF Links
<1>6. \A i \in 1 .. m : r[i] # a /\ r[i] # ListHead
    BY <1>1 DEF Stretch, Ring
<1>7. Stretch(q, 1, m+1) = S \cup {a}
  <2>1. ASSUME NEW x \in S PROVE x \in Stretch(q, 1, m+1)
    <3>1. PICK i \in 1 .. m : x = r[i]
        BY <1>1 DEF Stretch
    <3>2. i + 1 \in 1 .. m+1 /\ q[i+1] = r[i]
        OBVIOUS
    <3> QED BY <3>1, <3>2 DEF Stretch
  <2>2. a \in Stretch(q, 1, m+1)
    <3>1. 1 \in 1 .. m+1 /\ q[1] = a
        OBVIOUS
    <3> QED BY <3>1 DEF Stretch
  <2>3. ASSUME NEW k \in 1 .. m+1 PROVE q[k] \in S \cup {a}
    <3>1. CASE k = 1
        BY <3>1
    <3>2. CASE k # 1
      <4>1. k - 1 \in 1 .. m /\ q[k] = r[k-1]
          BY <3>2
      <4> QED BY <1>1, <4>1 DEF Stretch
    <3> QED BY <3>1, <3>2
  <2> HIDE DEF q
  <2> QED BY <2>1, <2>2, <2>3 DEF Stretch
<1>8. Stretch(q, j+1, m+1) = P /\ q[j+1] = c
  <2>1. \A i \in j .. m+1 : q[i+1] = r[i]
      OBVIOUS
  <2>2. \A i \in j .. m : i + 1 \in j+1 .. m+1
      OBVIOUS
  <2>3. \A k \in j+1 .. m+1 : k - 1 \in j .. m /\ q[k] = r[k-1]
      OBVIOUS
  <2> HIDE DEF q
  <2>4. j \in j .. m+1
      OBVIOUS
  <2>5. q[j+1] = c
      BY <1>1, <2>1, <2>4
  <2>6. Stretch(q, j+1, m+1) \subseteq Stretch(r, j, m)
      BY <2>3 DEF Stretch
  <2>7. Stretch(r, j, m) \subseteq Stretch(q, j+1, m+1)
    <3>1. \A i \in j .. m : i \in j .. m+1
        OBVIOUS
    <3>2. \A i \in j .. m : q[i+1] = r[i] /\ i + 1 \in j+1 .. m+1
        BY <2>1, <2>2, <3>1
    <3> QED BY <3>2 DEF Stretch
  <2> QED BY <1>1, <2>5, <2>6, <2>7
<1>9. Ring(q, m+1, next', previous')
  <2>1. q[0] = ListHead /\ q[(m+1)+1] = ListHead
      BY <1>1 DEF Ring
  <2>2. ASSUME NEW i \in 0 .. m+1, NEW k \in 0 .. m+1, q[i] = q[k] PROVE i = k
    <3>1. ASSUME NEW x \in 0 .. m+1 PROVE /\ q[x] = ListHead <=> x = 0
                                          /\ q[x] = a <=> x = 1
      <4>1. x > 1 => x - 1 \in 1 .. m
          OBVIOUS
      <4> QED BY <1>3, <1>6, <4>1
    <3>2. CASE i > 1 /\ k > 1
      <4>1. i - 1 \in 0 .. m /\ k - 1 \in 0 .. m /\ r[i-1] = r[k-1]
          BY <2>2, <3>2
      <4>2. i - 1 = k - 1
          BY <1>1, <4>1 DEF Ring
      <4> QED BY <4>2
    <3>3. CASE ~(i > 1 /\ k > 1)
      <4>1. i \in {0, 1} \/ k \in {0, 1}
          BY <3>3
      <4>2. /\ q[i] = ListHead <=> i = 0
            /\ q[i] = a <=> i = 1
            /\ q[k] = ListHead <=> k = 0
            /\ q[k] = a <=> k = 1
          BY <3>1
      <4> HIDE DEF q
      <4> QED BY <2>2, <4>1, <4>2
    <3> QED BY <3>2, <3>3
  <2>3. ASSUME NEW i \in 0 .. m+1 PROVE next'[q[i]] = q[i+1] /\ previous'[q[i+1]] = q[i]
    <3>1. CASE i = 0
      <4>1. q[i] = ListHead /\ q[i+1] = a
          BY <3>1
      <4> QED BY <1>3, <1>5, <4>1
    <3>2. CASE i = 1
      <4>1. q[i] = a /\ q[i+1] = first
          BY <3>2
      <4> QED BY <1>3, <1>5, <4>1
    <3>3. CASE i > 1
      <4>1. i - 1 \in 1 .. m /\ q[i] = r[i-1] /\ q[i+1] = r[i] /\ i \in 0 .. m+1
          BY <3>3
      <4>2. next[r[i-1]] = r[i] /\ previous[r[i]] = r[i-1]
        <5>1. i - 1 \in 0 .. m /\ (i-1) + 1 = i
            BY <4>1
        <5> QED BY <1>1, <5>1 DEF Ring
      <4>3. r[i-1] # a /\ r[i-1] # ListHead /\ r[i] # a
        <5>1. i \in 1 .. m \/ i = m + 1
            BY <4>1
        <5> QED BY <1>1, <1>3, <1>6, <4>1, <5>1 DEF Ring
      <4>4. r[i] # first
        <5>1. first # ListHead
          <6>1. m >= 1
              BY <4>1
          <6> QED BY <1>6, <6>1
        <5>2. CASE i = m + 1
            BY <1>1, <5>1, <5>2 DEF Ring
        <5>3. CASE i # m + 1
          <6>1. i \in 0 .. m /\ 1 \in 0 .. m /\ i # 1
              BY <3>3, <5>3
          <6> QED BY <1>1, <6>1 DEF Ring
        <5> QED BY <5>2, <5>3
      <4>5. r[i] \in List!Nodes /\ r[i-1] \in List!Nodes
          BY <4>1
      <4> HIDE DEF q
      <4> QED BY <1>5, <4>1, <4>2, <4>3, <4>4, <4>5
    <3> QED BY <3>1, <3>2, <3>3
  <2>4. ASSUME NEW b \in ListAlarms \ Stretch(q, 1, m+1)
        PROVE  next'[b] \in {b, Null} /\ previous'[b] = next'[b]
    <3>1. b \notin S /\ b # a
        BY <1>7
    <3>2. b # ListHead /\ b \in List!Nodes
        BY ListConstants
    <3>3. b # first
      <4>1. first = ListHead \/ first \in S
        <5>1. m = 0 \/ 1 \in 1 .. m
            OBVIOUS
        <5> QED BY <1>1, <5>1 DEF Stretch, Ring
      <4> QED BY <3>1, <3>2, <4>1
    <3>4. next[b] \in {b, Null} /\ previous[b] = next[b]
        BY <1>1, <3>1 DEF Ring
    <3> QED BY <1>5, <3>1, <3>2, <3>3, <3>4
  <2> HIDE DEF q
  <2> QED BY <2>1, <2>2, <2>3, <2>4 DEF Ring
<1>10. j + 1 \in 1 .. (m+1)+1 /\ m + 1 \in Nat
    OBVIOUS
<1> HIDE DEF q
<1> QED BY <1>2, <1>7, <1>8, <1>9, <1>10 DEF Shape

\* alt_llist_remove takes an alarm out before the place of the loop, or one that is not
\* on the list and stays as it is.
LEMMA ShapeRemove ==
    ASSUME next \in Links, previous \in Links,
           NEW S, NEW P, NEW c, Shape(S, P, c, next, previous),
           NEW a \in ListAlarms \ P, next[a] # Null, List!LlistRemove(a)
    PROVE  Shape(S \ {a}, P, c, next', previous')
<1>0. PICK m \in Nat : \E r \in [0 .. m+1 -> List!Nodes] : \E j \in 1 .. m+1 :
          /\ Ring(r, m, next, previous)
          /\ S = Stretch(r, 1, m) /\ P = Stretch(r, j, m) /\ c = r[j]
    BY DEF Shape
<1>1. PICK r \in [0 .. m+1 -> List!Nodes], j \in 1 .. m+1 :
          /\ Ring(r, m, next, previous)
          /\ S = Stretch(r, 1, m) /\ P = Stretch(r, j, m) /\ c = r[j]
    BY <1>0
<1>2. a \in List!Nodes /\ a # ListHead
    BY ListConstants
<1>3. CASE a \notin S
  <2>1. next[a] = a /\ previous[a] = a
      BY <1>1, <1>3 DEF Ring
  <2>2. next' = next /\ previous' = previous
      BY <1>2, <2>1 DEF List!LlistRemove, Links
  <2>3. S \ {a} = S
      BY <1>3
  <2> QED BY <2>2, <2>3
<1>4. CASE a \in S
  <2>1. PICK i \in 1 .. m : a = r[i]
      BY <1>1, <1>4 DEF Stretch
  <2>2. i < j
      BY <1>1, <2>1 DEF Stretch
  <2> DEFINE q == [k \in 0 .. (m-1)+1 |-> IF k < i THEN r[k] ELSE r[k+1]]
             pre == r[i-1]
             suc == r[i+1]
  <2>3. q \in [0 .. (m-1)+1 -> List!Nodes]
      OBVIOUS
  <2>4. /\ next[a] = suc /\ previous[a] = pre /\ pre # a /\ suc # a
        /\ pre \in List!Nodes /\ suc \in List!Nodes
    <3>1. i \in 0 .. m /\ i - 1 \in 0 .. m /\ (i-1) + 1 = i
        OBVIOUS
    <3>2. next[a] = suc /\ previous[a] = pre
        BY <1>1, <2>1, <3>1 DEF Ring
    <3>3. pre # a
        BY <1>1, <2>1, <3>1 DEF Ring
    <3>4. suc # a
      <4>1. CASE i = m
          BY <1>1, <1>2, <4>1 DEF Ring
      <4>2. CASE i # m
        <5>1. i + 1 \in 0 .. m /\ i + 1 # i
            BY <4>2
        <5> QED BY <1>1, <2>1, <3>1, <5>1 DEF Ring
      <4> QED BY <4>1, <4>2
    <3> QED BY <3>2, <3>3, <3>4
  <2>5. /\ next' = [next EXCEPT ![pre] = suc, ![a] = a]
        /\ previous' = [previous EXCEPT ![suc] = pre, ![a] = a]
      BY <1>2, <2>4 DEF List!LlistRemove, Links
  <2>6. \A n \in List!Nodes : /\ next'[n] = IF n = a THEN a ELSE IF n = pre THEN suc ELSE next[n]
                              /\ previous'[n] = IF n = a THEN a ELSE IF n = suc THEN pre
                                                ELSE previous[n]
      BY <1>2, <2>4, <2>5 DEF Links
  <2>7. \A k \in 0 .. m : k # i => r[k] # a
      BY <1>1, <2>1 DEF Ring
  <2>8. Stretch(q, 1, m-1) = S \ {a}
    <3>1. ASSUME NEW x \in S \ {a} PROVE x \in Stretch(q, 1, m-1)
      <4>1. PICK k \in 1 .. m : x = r[k]
          BY <1>1 DEF Stretch
      <4>2. k # i
          BY <2>1, <4>1
      <4>3. CASE k < i
        <5>1. k \in 1 .. m-1 /\ q[k] = x
            BY <4>1, <4>3
        <5> HIDE DEF q
        <5> QED BY <5>1 DEF Stretch
      <4>4. CASE k > i
        <5>1. k - 1 \in 1 .. m-1 /\ q[k-1] = x
            BY <4>1, <4>4
        <5> HIDE DEF q
        <5> QED BY <5>1 DEF Stretch
      <4> QED BY <4>2, <4>3, <4>4
    <3>2. ASSUME NEW k \in 1 .. m-1 PROVE q[k] \in S \ {a}
      <4>1. CASE k < i
        <5>1. k \in 1 .. m /\ k \in 0 .. m /\ k # i /\ q[k] = r[k]
            BY <4>1
        <5> QED BY <1>1, <2>7, <5>1 DEF Stretch
      <4>2. CASE k >= i
        <5>1. k + 1 \in 1 .. m /\ k + 1 \in 0 .. m /\ k + 1 # i /\ q[k] = r[k+1]
            BY <4>2
        <5> QED BY <1>1, <2>7, <5>1 DEF Stretch
      <4> QED BY <4>1, <4>2
    <3> HIDE DEF q
    <3> QED BY <3>1, <3>2 DEF Stretch
  <2>9. Stretch(q, j-1, m-1) = P /\ q[j-1] = c
    <3>1. \A k \in j .. m+1 : q[k-1] = r[k]
        BY <2>2
    <3>2. \A k \in j .. m : k - 1 \in j-1 .. m-1
        OBVIOUS
    <3>3. \A k \in j-1 .. m-1 : k + 1 \in j .. m /\ q[k] = r[k+1]
        BY <2>2
    <3> HIDE DEF q
    <3>4. j \in j .. m+1
        OBVIOUS
    <3>5. q[j-1] = c
        BY <1>1, <3>1, <3>4
    <3>6. Stretch(q, j-1, m-1) \subseteq Stretch(r, j, m)
        BY <3>3 DEF Stretch
    <3>7. Stretch(r, j, m) \subseteq Stretch(q, j-1, m-1)
      <4>1. \A k \in j .. m : k \in j .. m+1
          OBVIOUS
      <4>2. \A k \in j .. m : q[k-1] = r[k] /\ k - 1 \in j-1 .. m-1
          BY <3>1, <3>2, <4>1
      <4> QED BY <4>2 DEF Stretch
    <3> QED BY <1>1, <3>5, <3>6, <3>7
  <2>10. Ring(q, m-1, next', previous')
    <3>1. q[0] = ListHead /\ q[(m-1)+1] = ListHead
        BY <1>1 DEF Ring
    <3>2. ASSUME NEW x \in 0 .. m-1, NEW k \in 0 .. m-1, q[x] = q[k] PROVE x = k
      <4> DEFINE up(y) == IF y < i THEN y ELSE y + 1
      <4>1. /\ up(x) \in 0 .. m /\ up(k) \in 0 .. m
            /\ q[x] = r[up(x)] /\ q[k] = r[up(k)]
            /\ up(x) = up(k) => x = k
          OBVIOUS
      <4> HIDE DEF up, q
      <4>2. up(x) = up(k)
          BY <1>1, <3>2, <4>1 DEF Ring
      <4> QED BY <4>1, <4>2
    <3>3. ASSUME NEW k \in 0 .. m-1 PROVE next'[q[k]] = q[k+1] /\ previous'[q[k+1]] = q[k]
      <4>1. CASE k < i - 1
        <5>1. q[k] = r[k] /\ q[k+1] = r[k+1] /\ k \in 0 .. m /\ k + 1 \in 0 .. m
            BY <4>1
        <5>2. next[r[k]] = r[k+1] /\ previous[r[k+1]] = r[k]
            BY <1>1, <5>1 DEF Ring
        <5>3. r[k] # a /\ r[k+1] # a
            BY <2>7, <4>1, <5>1
        <5>4. r[k] # pre
          <6>1. i - 1 \in 0 .. m /\ i - 1 # k
              BY <4>1
          <6> QED BY <1>1, <5>1, <6>1 DEF Ring
        <5>5. r[k+1] # suc
          <6>1. CASE i = m
            <7>1. suc = r[0] /\ 0 \in 0 .. m /\ k + 1 # 0
                BY <1>1, <6>1 DEF Ring
            <7> QED BY <1>1, <5>1, <7>1 DEF Ring
          <6>2. CASE i # m
            <7>1. i + 1 \in 0 .. m /\ i + 1 # k + 1
                BY <4>1, <6>2
            <7> QED BY <1>1, <5>1, <7>1 DEF Ring
          <6> QED BY <6>1, <6>2
        <5>6. r[k] \in List!Nodes /\ r[k+1] \in List!Nodes
            BY <5>1
        <5> HIDE DEF q, pre, suc
        <5> QED BY <2>6, <5>1, <5>2, <5>3, <5>4, <5>5, <5>6
      <4>2. CASE k = i - 1
        <5>1. q[k] = pre /\ q[k+1] = suc
            BY <4>2
        <5> HIDE DEF q, pre, suc
        <5> QED BY <2>4, <2>6, <5>1
      <4>3. CASE k >= i
        <5>1. q[k] = r[k+1] /\ q[k+1] = r[k+2] /\ k + 1 \in 0 .. m /\ k + 2 \in 0 .. m + 1
            BY <4>3
        <5>2. next[r[k+1]] = r[k+2] /\ previous[r[k+2]] = r[k+1]
          <6>1. (k+1) + 1 = k + 2
              OBVIOUS
          <6> QED BY <1>1, <5>1, <6>1 DEF Ring
        <5>3. r[k+1] # a
            BY <2>7, <4>3, <5>1
        <5>4. r[k+1] # pre
          <6>1. i - 1 \in 0 .. m /\ i - 1 # k + 1
              BY <4>3
          <6> QED BY <1>1, <5>1, <6>1 DEF Ring
        <5>5. r[k+2] # suc /\ r[k+2] # a
          <6>0. i + 1 \in 0 .. m /\ 0 \in 0 .. m /\ i + 1 # 0
              BY <4>3
          <6>1. CASE k = m - 1
            <7>1. r[k+2] = r[0] /\ r[k+2] = ListHead
                BY <1>1, <6>1 DEF Ring
            <7> QED BY <1>1, <1>2, <6>0, <7>1 DEF Ring
          <6>2. CASE k # m - 1
            <7>1. k + 2 \in 0 .. m /\ i + 1 # k + 2 /\ k + 2 # i
                BY <4>3, <6>2
            <7> QED BY <1>1, <2>7, <6>0, <7>1 DEF Ring
          <6> QED BY <6>1, <6>2
        <5>6. r[k+1] \in List!Nodes /\ r[k+2] \in List!Nodes
            BY <5>1
        <5> HIDE DEF q, pre, suc
        <5> QED BY <2>6, <5>1, <5>2, <5>3, <5>4, <5>5, <5>6
      <4> QED BY <4>1, <4>2, <4>3
    <3>4. ASSUME NEW b \in ListAlarms \ Stretch(q, 1, m-1)
          PROVE  next'[b] \in {b, Null} /\ previous'[b] = next'[b]
      <4>1. CASE b = a
          BY <1>2, <2>6, <4>1
      <4>2. CASE b # a
        <5>1. b \notin S
            BY <2>8, <4>2
        <5>2. b # ListHead /\ b \in List!Nodes
            BY ListConstants
        <5>3. \A k \in 0 .. m+1 : r[k] # b
          <6>1. \A k \in 0 .. m+1 : k = 0 \/ k = m+1 \/ k \in 1 .. m
              OBVIOUS
          <6> QED BY <1>1, <5>1, <5>2, <6>1 DEF Stretch, Ring
        <5>4. b # pre /\ b # suc
            BY <5>3
        <5>5. next[b] \in {b, Null} /\ previous[b] = next[b]
            BY <1>1, <5>1 DEF Ring
        <5> QED BY <2>6, <4>2, <5>2, <5>4, <5>5
      <4> QED BY <4>1, <4>2
    <3> HIDE DEF q
    <3> QED BY <3>1, <3>2, <3>3, <3>4 DEF Ring
  <2>11. m - 1 \in Nat /\ j - 1 \in 1 .. (m-1)+1
      BY <2>2
  <2> HIDE DEF q
  <2> QED BY <2>3, <2>8, <2>9, <2>10, <2>11 DEF Shape
<1> QED BY <1>3, <1>4

-----------------------------------------------------------------------------
(* The list: times and turns                                               *)

\* The delays for which alt_alarm_start sets the flag as its comment says.
ShortListDelays == ListStartTicks \subseteq 0 .. ListWrap-2

\* The flag of a tells on which side of the wrap its time lies, seen from now; and how
\* far ahead it lies.
Exact(a, now) == IF carry[a] THEN expiry[a] < now ELSE expiry[a] > now
Ahead(a, now) == IF carry[a] THEN (expiry[a] + ListWrap) - now ELSE expiry[a] - now
LeftOf(S, a)  == IF a \in S THEN Ahead(a, nticks) ELSE 0

\* The counter before the tick in progress, the alarm being called back, and the place
\* of the loop.
Before  == IF nticks = 0 THEN ListWrap - 1 ELSE nticks - 1
Current == IF pc = "callback" THEN {alarm} ELSE {}
Cursor  == IF pc = "callback" THEN nextAlarm ELSE alarm

\* What the countdown allows the tick in progress to make of an alarm.
Outcome(a) ==
    CASE leftBefore[a] = 0 -> {0} \cup {n + 1 : n \in ListStartTicks}
      [] leftBefore[a] = 1 -> ListPeriods \cup {0} \cup {n + 1 : n \in ListStartTicks}
      [] OTHER             -> {leftBefore[a] - 1}

WalkTypes == List!TypeOK /\ leftBefore \in [ListAlarms -> Nat]

\* Between ticks the alarms S are on the list, with exact flags.
AtRest(S) ==
    /\ pc = "main"
    /\ Shape(S, {}, ListHead, next, previous)
    /\ \A a \in S : Exact(a, nticks)

\* In a tick, with the alarms P still to come.
TurnsKept(P) ==
    /\ visited \cap P = {}
    /\ {a \in ListAlarms : leftBefore[a] # 0} = visited \cup Current \cup P

Waiting(P) == \A a \in P : Exact(a, Before) /\ leftBefore[a] = Ahead(a, Before)

Settled(S, P) ==
    /\ \A a \in S \ (P \cup Current) : Exact(a, nticks)
    /\ \A a \in ListAlarms \ (P \cup Current) : LeftOf(S, a) \in Outcome(a)

Called(S, P) == pc = "callback" =>
    /\ alarm \in ListAlarms \ (visited \cup P)
    /\ leftBefore[alarm] = 1
    /\ alarm \in S => expiry[alarm] = nticks /\ ~carry[alarm]
    /\ next[alarm] # Null

InTick(S, P) ==
    /\ pc \in {"loop", "callback"}
    /\ Shape(S, P, Cursor, next, previous)
    /\ TurnsKept(P) /\ Waiting(P) /\ Settled(S, P) /\ Called(S, P)

WalkInv == WalkTypes /\ \E S, P \in SUBSET ListAlarms : AtRest(S) \/ InTick(S, P)

\* The list of a behaviour that is about another part stays empty.
ListIdle ==
    /\ pc = "main" /\ next \in Links /\ previous \in Links
    /\ Shape({}, {}, ListHead, next, previous)

PartInv == IF part = "list" THEN WalkInv ELSE ListIdle

LEMMA ListNumbers ==
    /\ ListWrap \in Nat /\ ListWrap > 1
    /\ \A n \in ListStartTicks : n \in 0 .. ListWrap-1
    /\ \A ret \in ListPeriods : ret \in 0 .. ListWrap-1
BY PartsAssumption DEF List!ListAssumption

LEMMA ListAdds ==
    ASSUME NEW x \in Nat, NEW y \in Nat, x + y < 2 * ListWrap
    PROVE  List!Add(x, y) = IF x + y < ListWrap THEN x + y ELSE (x + y) - ListWrap
<1>1. ListWrap \in Nat /\ ListWrap > 1
    BY ListNumbers
<1>2. CASE x + y < ListWrap
    BY <1>1, <1>2 DEF List!Add
<1>3. CASE x + y >= ListWrap
    BY <1>1, <1>3 DEF List!Add
<1> QED BY <1>1, <1>2, <1>3

\* An alarm whose turn comes is due exactly when one tick was left to it, and another
\* one comes one tick nearer.
LEMMA TurnNumbers ==
    ASSUME WalkTypes, NEW a \in ListAlarms, Exact(a, Before),
           NEW flag \in BOOLEAN, flag <=> carry[a] /\ nticks # 0
    PROVE  /\ Ahead(a, Before) \in Nat /\ Ahead(a, Before) > 0
           /\ (expiry[a] <= nticks /\ ~flag) <=> Ahead(a, Before) = 1
           /\ (expiry[a] <= nticks /\ ~flag) => expiry[a] = nticks
           /\ ~(expiry[a] <= nticks /\ ~flag) =>
                /\ IF flag THEN expiry[a] < nticks ELSE expiry[a] > nticks
                /\ (IF flag THEN (expiry[a] + ListWrap) - nticks ELSE expiry[a] - nticks)
                      = Ahead(a, Before) - 1
<1>1. /\ nticks \in Nat /\ nticks < ListWrap
      /\ expiry[a] \in Nat /\ expiry[a] < ListWrap
      /\ carry[a] \in BOOLEAN
      /\ ListWrap \in Nat /\ ListWrap > 1
    BY ListNumbers DEF WalkTypes, List!TypeOK
<1>2. CASE nticks = 0
    BY <1>1, <1>2 DEF Exact, Ahead, Before
<1>3. CASE nticks # 0
    BY <1>1, <1>3 DEF Exact, Ahead, Before
<1> QED BY <1>2, <1>3

\* alt_alarm_start sets time and flag to a callback n+1 ticks ahead.
LEMMA DelayNumbers ==
    ASSUME ShortListDelays, nticks \in 0 .. ListWrap-1, NEW n \in ListStartTicks,
           NEW t, t = List!Add(n, nticks + 1)
    PROVE  /\ t \in 0 .. ListWrap-1
           /\ t # nticks
           /\ (IF t < nticks THEN (t + ListWrap) - nticks ELSE t - nticks) = n + 1
<1>1. /\ nticks \in Nat /\ nticks < ListWrap
      /\ n \in Nat /\ n + 1 < ListWrap
      /\ ListWrap \in Nat /\ ListWrap > 1
    BY ListNumbers DEF ShortListDelays
<1>2. t = IF n + nticks + 1 < ListWrap THEN n + nticks + 1 ELSE (n + nticks + 1) - ListWrap
    BY <1>1, ListAdds
<1> QED BY <1>1, <1>2

\* A callback that returns ret puts its alarm ret ticks ahead.
LEMMA PeriodNumbers ==
    ASSUME nticks \in 0 .. ListWrap-1, NEW ret \in ListPeriods, ret # 0,
           NEW t, t = List!Add(nticks, ret)
    PROVE  /\ t \in 0 .. ListWrap-1
           /\ t # nticks
           /\ (IF t < nticks THEN (t + ListWrap) - nticks ELSE t - nticks) = ret
<1>1. /\ nticks \in Nat /\ nticks < ListWrap
      /\ ret \in Nat /\ ret < ListWrap
      /\ ListWrap \in Nat /\ ListWrap > 1
    BY ListNumbers
<1>2. t = IF nticks + ret < ListWrap THEN nticks + ret ELSE (nticks + ret) - ListWrap
    BY <1>1, ListAdds
<1> QED BY <1>1, <1>2

\* The four stores of alt_llist_insert and alt_llist_remove leave links links.
LEMMA LinksStay ==
    ASSUME next \in Links, previous \in Links, NEW a \in ListAlarms,
           List!LlistInsert(a) \/ List!LlistRemove(a)
    PROVE  next' \in Links /\ previous' \in Links
<1>0. a \in List!Nodes /\ ListHead \in List!Nodes
    BY ListConstants
<1>1. CASE List!LlistInsert(a)
    BY <1>0, <1>1 DEF Links, List!LlistInsert
<1>2. CASE List!LlistRemove(a)
    BY <1>0, <1>2 DEF Links, List!LlistRemove
<1> QED BY <1>1, <1>2

\* No alarm is on the list of a program that starts.
LEMMA ListStarts == List!Init => WalkTypes /\ ListIdle /\ AtRest({})
<1> SUFFICES ASSUME List!Init PROVE WalkTypes /\ ListIdle /\ AtRest({})
    OBVIOUS
<1>1. ListWrap \in Nat /\ ListWrap > 1
    BY ListNumbers
<1>2. WalkTypes
    BY <1>1, ListConstants DEF WalkTypes, List!TypeOK, List!Init
<1>3. next \in Links /\ previous \in Links
    BY <1>2 DEF WalkTypes, List!TypeOK, Links
<1>4. Shape({}, {}, ListHead, next, previous)
  <2> DEFINE r == [k \in 0 .. 0+1 |-> ListHead]
  <2>1. r \in [0 .. 0+1 -> List!Nodes] /\ 1 \in 1 .. 0+1 /\ 0 \in Nat
      BY ListConstants
  <2>2. r[0] = ListHead /\ r[0+1] = ListHead /\ r[1] = ListHead
      OBVIOUS
  <2> HIDE DEF r
  <2>3. Stretch(r, 1, 0) = {}
      BY DEF Stretch
  <2>4. next[ListHead] = ListHead /\ previous[ListHead] = ListHead
      BY ListConstants DEF List!Init
  <2>5. \A a \in ListAlarms : next[a] = Null /\ previous[a] = Null
      BY ListConstants DEF List!Init
  <2>6. Ring(r, 0, next, previous)
    <3>1. \A i \in 0 .. 0 : i = 0
        OBVIOUS
    <3> QED BY <2>2, <2>3, <2>4, <2>5, <3>1 DEF Ring
  <2> QED BY <2>1, <2>2, <2>3, <2>6 DEF Shape
<1> QED BY <1>2, <1>3, <1>4 DEF ListIdle, AtRest, List!Init

\* Its invariants, taken together, are what the runs check.
LEMMA WalkIsSound == WalkInv => List!TypeOK /\ List!ListSound /\ List!CursorOnList
                                /\ List!EveryAlarmVisited
<1> SUFFICES ASSUME WalkInv
             PROVE  List!TypeOK /\ List!ListSound /\ List!CursorOnList /\ List!EveryAlarmVisited
    OBVIOUS
<1>1. List!TypeOK /\ next \in Links /\ previous \in Links
    BY DEF WalkInv, WalkTypes, List!TypeOK, Links
<1>2. PICK S, P \in SUBSET ListAlarms : AtRest(S) \/ InTick(S, P)
    BY DEF WalkInv
<1>3. CASE AtRest(S)
  <2>1. List!ListSound
      BY <1>1, <1>3, ShapeSound DEF AtRest
  <2> QED BY <1>1, <1>3, <2>1 DEF AtRest, List!CursorOnList, List!EveryAlarmVisited
<1>4. CASE InTick(S, P)
  <2>1. Shape(S, P, Cursor, next, previous)
      BY <1>4 DEF InTick
  <2>2. /\ List!OnList = S /\ List!ListSound /\ P \subseteq S
        /\ Cursor = ListHead <=> P = {}
        /\ Cursor # ListHead => Cursor \in P
      BY <1>1, <2>1, ShapeSound
  <2>3. visited \cap P = {} /\ {a \in ListAlarms : leftBefore[a] # 0} = visited \cup Current \cup P
      BY <1>4 DEF InTick, TurnsKept
  <2>4. List!CursorOnList
    <3>1. Cursor \in (List!OnList \ visited) \cup {ListHead}
        BY <2>2, <2>3
    <3> QED BY <3>1 DEF List!CursorOnList, Cursor
  <2>5. List!EveryAlarmVisited
      BY <2>2, <2>3 DEF List!EveryAlarmVisited, Cursor, Current
  <2> QED BY <1>1, <2>2, <2>4, <2>5
<1> QED BY <1>2, <1>3, <1>4

\* alt_alarm_start, from main or from a callback: what it does to the alarm, and that it
\* leaves the others alone.
LEMMA StartExactly ==
    ASSUME ShortListDelays, WalkTypes, NEW S, List!OnList = S,
           NEW a \in ListAlarms, NEW n \in ListStartTicks, List!StartBody(a, n)
    PROVE  /\ WalkTypes' /\ a \notin S
           /\ Exact(a, nticks)' /\ LeftOf(S \cup {a}, a)' = n + 1
           /\ \A b \in ListAlarms \ {a} : expiry'[b] = expiry[b] /\ carry'[b] = carry[b]
           /\ UNCHANGED <<nticks, pc, alarm, nextAlarm, leftBefore, visited>>
<1>1. nticks \in 0 .. ListWrap-1
    BY DEF WalkTypes, List!TypeOK
<1> DEFINE t == List!Add(n, nticks + 1)
<1>2. /\ t \in 0 .. ListWrap-1
      /\ t # nticks
      /\ (IF t < nticks THEN (t + ListWrap) - nticks ELSE t - nticks) = n + 1
    BY <1>1, DelayNumbers
<1>3. UNCHANGED <<nticks, pc, alarm, nextAlarm, leftBefore, visited>>
    BY DEF List!StartBody, List!history
<1>4. expiry' = [expiry EXCEPT ![a] = t] /\ carry' = [carry EXCEPT ![a] = expiry'[a] < nticks]
    BY DEF List!StartBody
<1> HIDE DEF t
<1>5. expiry'[a] = t /\ (carry'[a] <=> t < nticks)
    BY <1>4 DEF WalkTypes, List!TypeOK
<1>6. \A b \in ListAlarms \ {a} : expiry'[b] = expiry[b] /\ carry'[b] = carry[b]
    BY <1>4 DEF WalkTypes, List!TypeOK
<1>7. Exact(a, nticks)' /\ LeftOf(S \cup {a}, a)' = n + 1
  <2>1. t \in Int /\ nticks \in Int
      BY <1>1, <1>2, ListNumbers
  <2> QED BY <1>2, <1>3, <1>5, <2>1 DEF Exact, LeftOf, Ahead
<1>8. WalkTypes'
  <2>1. next' \in Links /\ previous' \in Links
      BY LinksStay DEF List!StartBody, WalkTypes, List!TypeOK, Links
  <2>2. expiry' \in [ListAlarms -> 0 .. ListWrap-1]
      BY <1>2, <1>4 DEF WalkTypes, List!TypeOK
  <2>3. carry' \in [ListAlarms -> BOOLEAN]
      BY <1>4 DEF WalkTypes, List!TypeOK
  <2> QED BY <1>3, <2>1, <2>2, <2>3 DEF WalkTypes, List!TypeOK, Links
<1> QED BY <1>3, <1>6, <1>7, <1>8 DEF List!StartBody

\* alt_alarm_stop and the end of a callback that returns zero.
LEMMA StopExactly ==
    ASSUME WalkTypes, NEW S, NEW P, NEW c, Shape(S, P, c, next, previous),
           NEW a \in ListAlarms \ P, List!StopBody(a)
    PROVE  /\ next' \in Links /\ previous' \in Links
           /\ Shape(S \ {a}, P, c, next', previous')
<1>1. next \in Links /\ previous \in Links
    BY DEF WalkTypes, List!TypeOK, Links
<1> QED BY <1>1, LinksStay, ShapeRemove DEF List!StopBody

-----------------------------------------------------------------------------
(* The list: between ticks                                                 *)

LEMMA WalkStart ==
    ASSUME ShortListDelays, WalkTypes, NEW S \in SUBSET ListAlarms, AtRest(S),
           NEW a \in ListAlarms, NEW n \in ListStartTicks, List!Start(a, n)
    PROVE  WalkTypes' /\ AtRest(S \cup {a})' /\ a \notin S /\ LeftOf(S \cup {a}, a)' = n + 1
           /\ \A b \in ListAlarms \ {a} : LeftOf(S \cup {a}, b)' = LeftOf(S, b)
<1>1. next \in Links /\ previous \in Links
    BY DEF WalkTypes, List!TypeOK, Links
<1>2. List!OnList = S
    BY <1>1, ShapeSound DEF AtRest
<1>3. /\ WalkTypes' /\ a \notin S
      /\ Exact(a, nticks)' /\ LeftOf(S \cup {a}, a)' = n + 1
      /\ \A b \in ListAlarms \ {a} : expiry'[b] = expiry[b] /\ carry'[b] = carry[b]
      /\ UNCHANGED <<nticks, pc, alarm, nextAlarm, leftBefore, visited>>
    BY <1>2, StartExactly DEF List!Start
<1>4. Shape(S \cup {a}, {}, ListHead, next', previous')
    BY <1>1, <1>3, ShapeInsert DEF AtRest, List!Start, List!StartBody
<1>5. \A b \in S \cup {a} : Exact(b, nticks)'
    BY <1>3 DEF AtRest, Exact
<1>6. \A b \in ListAlarms \ {a} : LeftOf(S \cup {a}, b)' = LeftOf(S, b)
    BY <1>3 DEF LeftOf, Ahead
<1> QED BY <1>3, <1>4, <1>5, <1>6 DEF AtRest

LEMMA WalkStop ==
    ASSUME WalkTypes, NEW S \in SUBSET ListAlarms, AtRest(S),
           NEW a \in ListAlarms, List!Stop(a)
    PROVE  WalkTypes' /\ AtRest(S \ {a})'
           /\ \A b \in ListAlarms : LeftOf(S \ {a}, b)' = IF b = a THEN 0 ELSE LeftOf(S, b)
<1>1. /\ next' \in Links /\ previous' \in Links
      /\ Shape(S \ {a}, {}, ListHead, next', previous')
    BY StopExactly DEF AtRest, List!Stop
<1>2. UNCHANGED <<nticks, expiry, carry, pc, alarm, nextAlarm, leftBefore, visited>>
    BY DEF List!Stop, List!deadline, List!history
<1>3. WalkTypes'
    BY <1>1, <1>2 DEF WalkTypes, List!TypeOK, Links
<1> QED BY <1>1, <1>2, <1>3 DEF AtRest, Exact, LeftOf, Ahead

\* The tick begins: everything on the list is to come.
LEMMA WalkEnter ==
    ASSUME WalkTypes, NEW S \in SUBSET ListAlarms, AtRest(S), List!TickEnter
    PROVE  WalkTypes' /\ InTick(S, S)' /\ leftBefore' = [a \in ListAlarms |-> LeftOf(S, a)]
<1>1. next \in Links /\ previous \in Links /\ next' = next /\ previous' = previous
    BY DEF WalkTypes, List!TypeOK, Links, List!TickEnter, List!list
<1>2. List!OnList = S
    BY <1>1, ShapeSound DEF AtRest
<1>3. /\ pc' = "loop" /\ nticks' = List!Add(nticks, 1) /\ alarm' = next[ListHead]
      /\ visited' = {} /\ expiry' = expiry /\ carry' = carry /\ nextAlarm' = nextAlarm
    BY DEF List!TickEnter, List!deadline
<1>4. leftBefore' = [a \in ListAlarms |-> LeftOf(S, a)]
    BY <1>2 DEF List!TickEnter, List!Left, LeftOf, Ahead
<1>5. /\ nticks \in Nat /\ nticks < ListWrap
      /\ ListWrap \in Nat /\ ListWrap > 1
    BY ListNumbers DEF WalkTypes, List!TypeOK
<1>6. nticks' \in 0 .. ListWrap-1 /\ Before' = nticks
  <2>1. nticks' = IF nticks + 1 < ListWrap THEN nticks + 1 ELSE 0
      BY <1>3, <1>5, ListAdds
  <2> QED BY <1>5, <2>1 DEF Before
<1>7. ASSUME NEW a \in S PROVE Exact(a, nticks) /\ Ahead(a, nticks) \in Nat /\ Ahead(a, nticks) > 0
  <2>1. expiry[a] \in Nat /\ expiry[a] < ListWrap /\ Exact(a, nticks)
      BY <1>5 DEF WalkTypes, List!TypeOK, AtRest
  <2> QED BY <1>5, <2>1 DEF Exact, Ahead
<1>8. leftBefore' \in [ListAlarms -> Nat] /\ {a \in ListAlarms : leftBefore'[a] # 0} = S
    BY <1>4, <1>7 DEF LeftOf
<1>9. Shape(S, S, alarm', next', previous')
    BY <1>1, <1>3, ShapeStart DEF AtRest
<1>10. WalkTypes'
  <2>1. alarm' \in List!Nodes \cup {Null}
      BY <1>1, <1>3, ListConstants DEF Links
  <2> QED BY <1>1, <1>3, <1>6, <1>8, <2>1 DEF WalkTypes, List!TypeOK
<1>11. TurnsKept(S)'
    BY <1>3, <1>8 DEF TurnsKept, Current
<1>12. Waiting(S)'
  <2>1. ASSUME NEW a \in S PROVE Exact(a, Before)' /\ leftBefore'[a] = Ahead(a, Before)'
    <3>1. leftBefore'[a] = Ahead(a, nticks)
        BY <1>4 DEF LeftOf
    <3> QED BY <1>3, <1>6, <1>7, <3>1 DEF Exact, Ahead
  <2> QED BY <2>1 DEF Waiting
<1>13. Settled(S, S)'
  <2>1. ASSUME NEW a \in ListAlarms \ S PROVE LeftOf(S, a)' \in Outcome(a)'
    <3>1. LeftOf(S, a)' = 0 /\ leftBefore'[a] = 0
        BY <1>4 DEF LeftOf
    <3> QED BY <3>1 DEF Outcome
  <2> QED BY <1>3, <2>1 DEF Settled, Current
<1> QED BY <1>3, <1>4, <1>9, <1>10, <1>11, <1>12, <1>13 DEF InTick, Called, Cursor

-----------------------------------------------------------------------------
(* The list: in a tick                                                     *)

\* One turn of the loop: the alarm is called back, or is over and one tick nearer.
LEMMA WalkVisit ==
    ASSUME WalkTypes, NEW S \in SUBSET ListAlarms, NEW P \in SUBSET ListAlarms, InTick(S, P),
           List!Visit
    PROVE  WalkTypes' /\ \E Q \in SUBSET ListAlarms : InTick(S, Q)'
<1>0. PICK Q \in SUBSET ListAlarms : Q = P \ {alarm}
    OBVIOUS
<1>1. next \in Links /\ previous \in Links /\ next' = next /\ previous' = previous
    BY DEF WalkTypes, List!TypeOK, Links, List!Visit, List!list
<1>2. /\ pc = "loop" /\ alarm # ListHead /\ nextAlarm' = next[alarm]
      /\ nticks' = nticks /\ expiry' = expiry /\ leftBefore' = leftBefore
      /\ carry' = [carry EXCEPT ![alarm] = List!Flag]
    BY DEF List!Visit
<1>3. /\ Shape(S, P, alarm, next, previous)
      /\ TurnsKept(P) /\ Waiting(P) /\ Settled(S, P)
    BY <1>2 DEF InTick, Cursor
<1>4. alarm \in P /\ Shape(S, Q, next[alarm], next, previous)
    BY <1>0, <1>2, <1>3, ShapeAlong
<1>5. P \subseteq S /\ next[alarm] \in List!Nodes
    BY <1>1, <1>3, <1>4, ShapeSound
<1>6. alarm \in ListAlarms /\ Exact(alarm, Before) /\ leftBefore[alarm] = Ahead(alarm, Before)
    BY <1>3, <1>4 DEF Waiting
<1>6a. PICK x \in ListAlarms : x = alarm
    BY <1>6
<1>7. /\ carry'[alarm] = List!Flag /\ List!Flag \in BOOLEAN
      /\ \A a \in ListAlarms \ {alarm} : carry'[a] = carry[a]
    BY <1>2, <1>6 DEF WalkTypes, List!TypeOK, List!Flag
<1>8. Before' = Before
    BY <1>2 DEF Before
<1>9. Waiting(Q)'
    BY <1>0, <1>2, <1>3, <1>7, <1>8 DEF Waiting, Exact, Ahead
<1>10. carry' \in [ListAlarms -> BOOLEAN]
    BY <1>2, <1>7 DEF WalkTypes, List!TypeOK
<1>11. /\ leftBefore[alarm] > 0 /\ leftBefore[alarm] \in Nat
       /\ List!Expired <=> leftBefore[alarm] = 1
       /\ List!Expired => expiry[alarm] = nticks
       /\ ~List!Expired => Exact(x, nticks)' /\ Ahead(x, nticks)' = leftBefore[alarm] - 1
  <2>1. (List!Flag <=> carry[alarm] /\ nticks # 0)
        /\ (List!Expired <=> expiry[alarm] <= nticks /\ ~List!Flag)
      BY DEF List!Flag, List!Expired
  <2>2. /\ Ahead(alarm, Before) \in Nat /\ Ahead(alarm, Before) > 0
        /\ List!Expired <=> Ahead(alarm, Before) = 1
        /\ List!Expired => expiry[alarm] = nticks
        /\ ~List!Expired =>
             /\ IF List!Flag THEN expiry[alarm] < nticks ELSE expiry[alarm] > nticks
             /\ (IF List!Flag THEN (expiry[alarm] + ListWrap) - nticks ELSE expiry[alarm] - nticks)
                   = Ahead(alarm, Before) - 1
      BY <1>6, <1>7, <2>1, TurnNumbers
  <2> QED BY <1>2, <1>6, <1>7, <1>6a, <2>2 DEF Exact, Ahead
<1>12. CASE List!Expired
  <2>1. pc' = "callback" /\ alarm' = alarm /\ visited' = visited
      BY <1>12 DEF List!Visit
  <2>2. WalkTypes'
      BY <1>1, <1>2, <1>5, <1>10, <2>1 DEF WalkTypes, List!TypeOK
  <2>3. TurnsKept(Q)'
      BY <1>0, <1>2, <1>3, <1>4, <2>1 DEF TurnsKept, Current
  <2>4. Settled(S, Q)'
    <3>1. ASSUME NEW a \in ListAlarms \ P
          PROVE  /\ a \in S => Exact(a, nticks)'
                 /\ LeftOf(S, a)' \in Outcome(a)'
      <4>1. (a \in S => Exact(a, nticks)) /\ LeftOf(S, a) \in Outcome(a)
          BY <1>2, <1>3 DEF Settled, Current
      <4>2. carry'[a] = carry[a]
          BY <1>4, <1>7
      <4> QED BY <1>2, <4>1, <4>2 DEF Exact, LeftOf, Ahead, Outcome
    <3>2. Current' = {alarm} /\ Q \cup {alarm} = P
        BY <1>0, <1>4, <2>1 DEF Current
    <3> QED BY <3>1, <3>2 DEF Settled
  <2>5. Called(S, Q)'
    <3>1. alarm \in ListAlarms \ (visited \cup Q)
        BY <1>0, <1>3, <1>4 DEF TurnsKept
    <3>2. ~carry'[alarm]
        BY <1>7, <1>12 DEF List!Expired
    <3>3. next[alarm] # Null
        BY <1>5, ListConstants
    <3> QED BY <1>1, <1>2, <1>11, <1>12, <2>1, <3>1, <3>2, <3>3 DEF Called
  <2>6. Shape(S, Q, Cursor, next, previous)'
      BY <1>1, <1>2, <1>4, <2>1 DEF Cursor
  <2> QED BY <1>9, <2>1, <2>2, <2>3, <2>4, <2>5, <2>6 DEF InTick
<1>13. CASE ~List!Expired
  <2>1. pc' = "loop" /\ alarm' = next[alarm] /\ visited' = visited \cup {alarm}
      BY <1>2, <1>13 DEF List!Visit
  <2>2. WalkTypes'
    <3>1. visited' \subseteq ListAlarms
        BY <1>6, <2>1 DEF WalkTypes, List!TypeOK
    <3> QED BY <1>1, <1>2, <1>5, <1>10, <2>1, <3>1 DEF WalkTypes, List!TypeOK
  <2>3. TurnsKept(Q)'
      BY <1>0, <1>2, <1>3, <1>4, <2>1 DEF TurnsKept, Current
  <2>4. Settled(S, Q)'
    <3>1. ASSUME NEW a \in ListAlarms \ P
          PROVE  /\ a \in S => Exact(a, nticks)'
                 /\ LeftOf(S, a)' \in Outcome(a)'
      <4>1. (a \in S => Exact(a, nticks)) /\ LeftOf(S, a) \in Outcome(a)
          BY <1>2, <1>3 DEF Settled, Current
      <4>2. carry'[a] = carry[a]
          BY <1>4, <1>7
      <4> QED BY <1>2, <4>1, <4>2 DEF Exact, LeftOf, Ahead, Outcome
    <3>2. Exact(x, nticks)'
        BY <1>11, <1>13
    <3>3. LeftOf(S, x)' \in Outcome(x)'
      <4>1. LeftOf(S, x)' = Ahead(x, nticks)'
          BY <1>4, <1>5, <1>2, <1>6a DEF LeftOf, Ahead
      <4> QED BY <1>2, <1>11, <1>13, <1>6a, <4>1 DEF Outcome
    <3>4. Current' = {} /\ \A a \in ListAlarms \ Q : a = x \/ a \in ListAlarms \ P
        BY <1>0, <1>6a, <2>1 DEF Current
    <3> QED BY <3>1, <3>2, <3>3, <3>4 DEF Settled
  <2>5. Shape(S, Q, Cursor, next, previous)'
      BY <1>1, <1>2, <1>4, <2>1 DEF Cursor
  <2> QED BY <1>9, <2>1, <2>2, <2>3, <2>4, <2>5 DEF InTick, Called
<1> QED BY <1>12, <1>13

\* A callback starts an alarm that is off the list: it goes behind the head, where the
\* loop has been.
LEMMA WalkCallbackStart ==
    ASSUME ShortListDelays, WalkTypes, NEW S \in SUBSET ListAlarms, NEW P \in SUBSET ListAlarms,
           InTick(S, P), NEW a \in ListAlarms, NEW n \in ListStartTicks, List!CallbackStart(a, n)
    PROVE  WalkTypes' /\ InTick(S \cup {a}, P)'
<1>1. next \in Links /\ previous \in Links /\ pc = "callback" /\ a # alarm
    BY DEF WalkTypes, List!TypeOK, Links, List!CallbackStart
<1>2. /\ Shape(S, P, nextAlarm, next, previous)
      /\ TurnsKept(P) /\ Waiting(P) /\ Settled(S, P) /\ Called(S, P)
    BY <1>1 DEF InTick, Cursor
<1>3. List!OnList = S /\ P \subseteq S
    BY <1>1, <1>2, ShapeSound
<1>4. /\ WalkTypes' /\ a \notin S
      /\ Exact(a, nticks)' /\ LeftOf(S \cup {a}, a)' = n + 1
      /\ \A b \in ListAlarms \ {a} : expiry'[b] = expiry[b] /\ carry'[b] = carry[b]
      /\ UNCHANGED <<nticks, pc, alarm, nextAlarm, leftBefore, visited>>
    BY <1>3, StartExactly DEF List!CallbackStart
<1>5. Shape(S \cup {a}, P, nextAlarm, next', previous')
    BY <1>1, <1>2, <1>4, ShapeInsert DEF List!CallbackStart, List!StartBody
<1>6. a \notin P /\ Before' = Before /\ Current' = Current /\ Current = {alarm}
    BY <1>1, <1>3, <1>4 DEF Before, Current
<1>7. TurnsKept(P)'
    BY <1>2, <1>4, <1>6 DEF TurnsKept
<1>8. Waiting(P)'
  <2>1. \A b \in P : expiry'[b] = expiry[b] /\ carry'[b] = carry[b]
      BY <1>4, <1>6
  <2> QED BY <1>2, <1>4, <1>6, <2>1 DEF Waiting, Exact, Ahead
<1>9. Settled(S \cup {a}, P)'
  <2>1. ASSUME NEW b \in ListAlarms \ (P \cup Current), b # a
        PROVE  /\ b \in S \cup {a} => Exact(b, nticks)'
               /\ LeftOf(S \cup {a}, b)' \in Outcome(b)'
    <3>1. (b \in S => Exact(b, nticks)) /\ LeftOf(S, b) \in Outcome(b)
        BY <1>2, <2>1 DEF Settled
    <3> QED BY <1>4, <2>1, <3>1 DEF Exact, LeftOf, Ahead, Outcome
  <2>2. LeftOf(S \cup {a}, a)' \in Outcome(a)'
    <3>1. 0 \in Outcome(a)
        BY <1>1, <1>2, <1>4, <1>6 DEF Settled, LeftOf
    <3>2. leftBefore[a] = 0 \/ leftBefore[a] = 1
      <4>1. leftBefore[a] \in Nat
          BY DEF WalkTypes
      <4> QED BY <3>1, <4>1 DEF Outcome
    <3> QED BY <1>4, <3>2 DEF Outcome
  <2> QED BY <1>4, <1>6, <2>1, <2>2 DEF Settled
<1>10. Called(S \cup {a}, P)'
  <2>1. next'[alarm] # Null
    <3>1. next' = [[next EXCEPT ![a] = next[ListHead]] EXCEPT ![ListHead] = a]
        BY DEF List!CallbackStart, List!StartBody, List!LlistInsert
    <3>2. alarm \in ListAlarms /\ next[alarm] # Null
        BY <1>1, <1>2 DEF Called
    <3> QED BY <1>1, <3>1, <3>2, ListConstants DEF Links
  <2> QED BY <1>1, <1>2, <1>4, <2>1 DEF Called
<1> QED BY <1>1, <1>4, <1>5, <1>7, <1>8, <1>9, <1>10 DEF InTick, Cursor

\* A callback stops its own alarm, which is not where the loop goes on.
LEMMA WalkCallbackStops ==
    ASSUME WalkTypes, NEW S \in SUBSET ListAlarms, NEW P \in SUBSET ListAlarms, InTick(S, P),
           List!CallbackStopsItself
    PROVE  WalkTypes' /\ InTick(S \ {alarm}, P)'
<1>1. pc = "callback" /\ List!StopBody(alarm)
    BY DEF List!CallbackStopsItself
<1>2. /\ Shape(S, P, nextAlarm, next, previous)
      /\ TurnsKept(P) /\ Waiting(P) /\ Settled(S, P) /\ Called(S, P)
    BY <1>1 DEF InTick, Cursor
<1>3. alarm \in ListAlarms \ P
    BY <1>1, <1>2 DEF Called
<1>4. /\ next' \in Links /\ previous' \in Links
      /\ Shape(S \ {alarm}, P, nextAlarm, next', previous')
    BY <1>1, <1>2, <1>3, StopExactly
<1>5. UNCHANGED <<nticks, expiry, carry, pc, alarm, nextAlarm, leftBefore, visited>>
    BY DEF List!CallbackStopsItself, List!deadline, List!history
<1>6. WalkTypes'
    BY <1>4, <1>5 DEF WalkTypes, List!TypeOK, Links
<1>7. Current' = {alarm} /\ Current = {alarm} /\ Before' = Before
    BY <1>1, <1>5 DEF Current, Before
<1>8. TurnsKept(P)' /\ Waiting(P)'
    BY <1>2, <1>5, <1>7 DEF TurnsKept, Waiting, Exact, Ahead
<1>9. Settled(S \ {alarm}, P)'
    BY <1>2, <1>5, <1>7 DEF Settled, Exact, LeftOf, Ahead, Outcome
<1>10. next'[alarm] # Null
  <2>1. alarm \in List!Nodes /\ next \in Links
      BY <1>3, ListConstants DEF WalkTypes, List!TypeOK, Links
  <2>2. next'[alarm] = alarm
      BY <1>1, <2>1 DEF List!StopBody, List!LlistRemove, Links
  <2> QED BY <2>1, <2>2, ListConstants
<1>11. Called(S \ {alarm}, P)'
    BY <1>2, <1>5, <1>10 DEF Called
<1> QED BY <1>1, <1>4, <1>5, <1>6, <1>8, <1>9, <1>11 DEF InTick, Cursor

\* A callback returns: its alarm is off, or as far ahead as the callback asked for.
LEMMA WalkCallbackReturns ==
    ASSUME WalkTypes, NEW S \in SUBSET ListAlarms, NEW P \in SUBSET ListAlarms, InTick(S, P),
           NEW ret \in ListPeriods, List!CallbackReturns(ret)
    PROVE  WalkTypes' /\ \E T \in SUBSET ListAlarms : InTick(T, P)'
<1>1. /\ pc = "callback" /\ pc' = "loop" /\ alarm' = nextAlarm /\ visited' = visited \cup {alarm}
      /\ UNCHANGED <<nticks, nextAlarm, leftBefore>>
    BY DEF List!CallbackReturns, List!Resume
<1>2. /\ Shape(S, P, nextAlarm, next, previous)
      /\ TurnsKept(P) /\ Waiting(P) /\ Settled(S, P) /\ Called(S, P)
    BY <1>1 DEF InTick, Cursor
<1>3. /\ alarm \in ListAlarms \ (visited \cup P)
      /\ leftBefore[alarm] = 1
      /\ alarm \in S => expiry[alarm] = nticks /\ ~carry[alarm]
    BY <1>1, <1>2 DEF Called
<1>4. PICK x \in ListAlarms : x = alarm
    BY <1>3
<1>5. next \in Links /\ previous \in Links
    BY DEF WalkTypes, List!TypeOK, Links
<1>6. nextAlarm \in List!Nodes
    BY <1>2, <1>5, ShapeSound
<1>7. visited' \subseteq ListAlarms
    BY <1>1, <1>3 DEF WalkTypes, List!TypeOK
<1>8. TurnsKept(P)'
    BY <1>1, <1>2, <1>3 DEF TurnsKept, Current
<1>9. Current = {x} /\ Current' = {} /\ Before' = Before /\ x \notin P
    BY <1>1, <1>3, <1>4 DEF Current, Before
<1>10. CASE ret = 0
  <2>1. List!StopBody(alarm) /\ expiry' = expiry /\ carry' = carry
      BY <1>10 DEF List!CallbackReturns, List!deadline
  <2>2. /\ next' \in Links /\ previous' \in Links
        /\ Shape(S \ {x}, P, nextAlarm, next', previous')
      BY <1>2, <1>3, <1>4, <2>1, StopExactly
  <2>3. WalkTypes'
      BY <1>1, <1>6, <1>7, <2>1, <2>2 DEF WalkTypes, List!TypeOK, Links
  <2>4. Waiting(P)'
      BY <1>1, <1>2, <1>9, <2>1 DEF Waiting, Exact, Ahead
  <2>5. Settled(S \ {x}, P)'
    <3>1. ASSUME NEW b \in ListAlarms \ (P \cup {x})
          PROVE  /\ b \in S \ {x} => Exact(b, nticks)'
                 /\ LeftOf(S \ {x}, b)' \in Outcome(b)'
      <4>1. (b \in S => Exact(b, nticks)) /\ LeftOf(S, b) \in Outcome(b)
          BY <1>2, <1>9 DEF Settled
      <4> QED BY <1>1, <2>1, <4>1 DEF Exact, LeftOf, Ahead, Outcome
    <3>2. LeftOf(S \ {x}, x)' \in Outcome(x)'
        BY <1>1, <1>3, <1>4 DEF LeftOf, Outcome
    <3> QED BY <1>9, <3>1, <3>2 DEF Settled
  <2> QED BY <1>1, <1>8, <2>2, <2>3, <2>4, <2>5 DEF InTick, Called, Cursor
<1>11. CASE ret # 0
  <2> DEFINE t == List!Add(expiry[x], ret)
  <2>1. /\ expiry' = [expiry EXCEPT ![x] = t]
        /\ carry' = [carry EXCEPT ![x] = carry[x] \/ expiry'[x] < nticks]
        /\ next' = next /\ previous' = previous
      BY <1>4, <1>11 DEF List!CallbackReturns, List!list
  <2>2. expiry[x] \in Nat /\ ret \in Nat /\ ListWrap \in Nat /\ ListWrap > 1 /\ t \in 0 .. ListWrap-1
    <3>1. expiry[x] \in Nat /\ ret \in Nat /\ ListWrap \in Nat /\ ListWrap > 1
        BY ListNumbers DEF WalkTypes, List!TypeOK
    <3> QED BY <3>1 DEF List!Add
  <2>3. WalkTypes'
    <3>1. expiry' \in [ListAlarms -> 0 .. ListWrap-1]
        BY <2>1, <2>2 DEF WalkTypes, List!TypeOK
    <3>2. carry' \in [ListAlarms -> BOOLEAN]
        BY <2>1, Zenon DEF WalkTypes, List!TypeOK
    <3> QED BY <1>1, <1>6, <1>7, <2>1, <3>1, <3>2 DEF WalkTypes, List!TypeOK
  <2>4. \A b \in ListAlarms \ {x} : expiry'[b] = expiry[b] /\ carry'[b] = carry[b]
      BY <2>1 DEF WalkTypes, List!TypeOK
  <2>5. Waiting(P)'
    <3>1. \A b \in P : expiry'[b] = expiry[b] /\ carry'[b] = carry[b]
        BY <1>9, <2>4
    <3> QED BY <1>1, <1>2, <1>9, <3>1 DEF Waiting, Exact, Ahead
  <2>6. x \in S => Exact(x, nticks)' /\ Ahead(x, nticks)' = ret
    <3>1. SUFFICES ASSUME x \in S PROVE Exact(x, nticks)' /\ Ahead(x, nticks)' = ret
        OBVIOUS
    <3>2. expiry[x] = nticks /\ ~carry[x] /\ nticks \in 0 .. ListWrap-1
        BY <1>3, <1>4, <3>1 DEF WalkTypes, List!TypeOK
    <3>3. /\ t # nticks
          /\ (IF t < nticks THEN (t + ListWrap) - nticks ELSE t - nticks) = ret
        BY <1>11, <3>2, PeriodNumbers
    <3>4. expiry'[x] = t
        BY <2>1 DEF WalkTypes, List!TypeOK
    <3>5. carry'[x] <=> t < nticks
      <4>1. carry'[x] = (carry[x] \/ expiry'[x] < nticks)
          BY <2>1 DEF WalkTypes, List!TypeOK
      <4> QED BY <3>2, <3>4, <4>1
    <3>6. t \in Int /\ nticks \in Int /\ ListWrap \in Int
        BY <2>2, <3>2
    <3> HIDE DEF t
    <3> QED BY <1>1, <3>3, <3>4, <3>5, <3>6 DEF Exact, Ahead
  <2>7. Settled(S, P)'
    <3>1. ASSUME NEW b \in ListAlarms \ (P \cup {x})
          PROVE  /\ b \in S => Exact(b, nticks)'
                 /\ LeftOf(S, b)' \in Outcome(b)'
      <4>1. (b \in S => Exact(b, nticks)) /\ LeftOf(S, b) \in Outcome(b)
          BY <1>2, <1>9 DEF Settled
      <4> QED BY <1>1, <2>4, <4>1 DEF Exact, LeftOf, Ahead, Outcome
    <3>2. LeftOf(S, x)' \in Outcome(x)'
      <4>1. LeftOf(S, x)' = IF x \in S THEN ret ELSE 0
          BY <1>1, <2>6 DEF LeftOf, Ahead
      <4> QED BY <1>1, <1>3, <1>4, <4>1 DEF Outcome
    <3> QED BY <1>9, <2>6, <3>1, <3>2 DEF Settled
  <2>8. Shape(S, P, Cursor, next, previous)'
      BY <1>1, <1>2, <2>1 DEF Cursor
  <2> QED BY <1>1, <1>8, <2>3, <2>5, <2>7, <2>8 DEF InTick, Called
<1> QED BY <1>10, <1>11

\* The tick ends: every alarm has had its turn.
LEMMA WalkExit ==
    ASSUME WalkTypes, NEW S \in SUBSET ListAlarms, NEW P \in SUBSET ListAlarms, InTick(S, P),
           List!TickExit
    PROVE  WalkTypes' /\ AtRest(S)' /\ \A a \in ListAlarms : LeftOf(S, a)' \in Outcome(a)
<1>1. /\ pc = "loop" /\ alarm = ListHead /\ pc' = "main"
      /\ UNCHANGED <<nticks, next, previous, expiry, carry, alarm, nextAlarm, leftBefore, visited>>
    BY DEF List!TickExit, List!list, List!deadline, List!history
<1>2. Shape(S, P, ListHead, next, previous) /\ Settled(S, P)
    BY <1>1 DEF InTick, Cursor
<1>3. P = {} /\ Current = {}
  <2>1. next \in Links /\ previous \in Links
      BY DEF WalkTypes, List!TypeOK, Links
  <2> QED BY <1>1, <1>2, <2>1, ShapeSound DEF Current
<1>4. WalkTypes'
    BY <1>1 DEF WalkTypes, List!TypeOK
<1>5. \A a \in S : Exact(a, nticks)'
    BY <1>1, <1>2, <1>3 DEF Settled, Exact
<1>6. \A a \in ListAlarms : LeftOf(S, a)' \in Outcome(a)
    BY <1>1, <1>2, <1>3 DEF Settled, LeftOf, Ahead
<1> QED BY <1>1, <1>2, <1>3, <1>4, <1>5, <1>6 DEF AtRest

-----------------------------------------------------------------------------
(* The list: every step, and the countdown it implements                   *)

\* What AlarmSchedule's variable is taken to be, and what it is between ticks.
Countdown == IF pc = "main" THEN [a \in ListAlarms |-> List!Left(a)] ELSE leftBefore

LEMMA CountdownAtRest ==
    ASSUME next \in Links, previous \in Links, NEW S, AtRest(S)
    PROVE  Countdown = [a \in ListAlarms |-> LeftOf(S, a)]
<1>1. List!OnList = S
    BY ShapeSound DEF AtRest
<1> QED BY <1>1 DEF Countdown, AtRest, List!Left, LeftOf, Ahead

LEMMA CountdownAfter ==
    /\ next' \in Links /\ previous' \in Links
    => \A S : AtRest(S)' => Countdown' = [a \in ListAlarms |-> LeftOf(S, a)']
<1> DEFINE F == next \in Links /\ previous \in Links
                => \A S : AtRest(S) => Countdown = [a \in ListAlarms |-> LeftOf(S, a)]
<1>1. F
    BY CountdownAtRest
<1>2. F'
    BY <1>1, PTL
<1> QED BY <1>2

\* Every step of the walk keeps its invariant, and is a step of the countdown or
\* leaves it alone.
LEMMA WalkNext ==
    ASSUME ShortListDelays, WalkInv, List!Next
    PROVE  WalkInv' /\ [List!Schedule!Next]_Countdown
<1>0. WalkTypes /\ next \in Links /\ previous \in Links
    BY DEF WalkInv, WalkTypes, List!TypeOK, Links
<1>1. PICK S, P \in SUBSET ListAlarms : AtRest(S) \/ InTick(S, P)
    BY DEF WalkInv
<1>2. pc = "main" => AtRest(S)
    BY <1>1 DEF InTick
<1>3. pc # "main" => InTick(S, P)
    BY <1>1 DEF AtRest
<1>4. WalkTypes' => next' \in Links /\ previous' \in Links
    BY DEF WalkTypes, List!TypeOK, Links
<1>5. ASSUME NEW a \in ListAlarms, NEW n \in ListStartTicks, List!Start(a, n)
      PROVE  WalkInv' /\ List!Schedule!Start(a)
  <2>1. AtRest(S)
      BY <1>2, <1>5 DEF List!Start
  <2>2. WalkTypes' /\ AtRest(S \cup {a})' /\ a \notin S /\ LeftOf(S \cup {a}, a)' = n + 1
        /\ \A b \in ListAlarms \ {a} : LeftOf(S \cup {a}, b)' = LeftOf(S, b)
      BY <1>0, <1>5, <2>1, WalkStart
  <2>3. Countdown = [b \in ListAlarms |-> LeftOf(S, b)]
        /\ Countdown' = [b \in ListAlarms |-> LeftOf(S \cup {a}, b)']
      BY <1>0, <1>4, <2>1, <2>2, CountdownAtRest, CountdownAfter
  <2>4. Countdown[a] = 0 /\ Countdown' = [Countdown EXCEPT ![a] = n + 1]
      BY <2>2, <2>3 DEF LeftOf
  <2>5. WalkInv'
      BY <2>2 DEF WalkInv
  <2> QED BY <2>4, <2>5 DEF List!Schedule!Start, List!Schedule!Off, List!Schedule!Delays, Countdown
<1>6. ASSUME NEW a \in ListAlarms, List!Stop(a) PROVE WalkInv' /\ List!Schedule!Stop(a)
  <2>1. AtRest(S)
      BY <1>2, <1>6 DEF List!Stop
  <2>2. WalkTypes' /\ AtRest(S \ {a})'
        /\ \A b \in ListAlarms : LeftOf(S \ {a}, b)' = IF b = a THEN 0 ELSE LeftOf(S, b)
      BY <1>0, <1>6, <2>1, WalkStop
  <2>3. Countdown = [b \in ListAlarms |-> LeftOf(S, b)]
        /\ Countdown' = [b \in ListAlarms |-> LeftOf(S \ {a}, b)']
      BY <1>0, <1>4, <2>1, <2>2, CountdownAtRest, CountdownAfter
  <2>4. Countdown' = [Countdown EXCEPT ![a] = 0]
      BY <2>2, <2>3
  <2>5. WalkInv'
      BY <2>2 DEF WalkInv
  <2> QED BY <2>4, <2>5 DEF List!Schedule!Stop, List!Schedule!Off, Countdown
<1>7. ASSUME List!TickEnter PROVE WalkInv' /\ Countdown' = Countdown
  <2>1. AtRest(S)
      BY <1>2, <1>7 DEF List!TickEnter
  <2>2. WalkTypes' /\ InTick(S, S)' /\ leftBefore' = [a \in ListAlarms |-> LeftOf(S, a)]
      BY <1>0, <1>7, <2>1, WalkEnter
  <2>3. Countdown = [a \in ListAlarms |-> LeftOf(S, a)]
      BY <1>0, <2>1, CountdownAtRest
  <2>4. pc' # "main"
      BY <2>2 DEF InTick
  <2> QED BY <2>2, <2>3, <2>4 DEF WalkInv, Countdown
<1>8. ASSUME WalkTypes', \E T, Q \in SUBSET ListAlarms : InTick(T, Q)',
             pc # "main", leftBefore' = leftBefore
      PROVE  WalkInv' /\ Countdown' = Countdown
  <2>1. pc' # "main"
      BY <1>8 DEF InTick
  <2> QED BY <1>8, <2>1 DEF WalkInv, Countdown
<1>9. CASE List!Visit
  <2>1. pc # "main" /\ leftBefore' = leftBefore
      BY <1>9 DEF List!Visit
  <2>2. WalkTypes' /\ \E Q \in SUBSET ListAlarms : InTick(S, Q)'
      BY <1>0, <1>3, <1>9, <2>1, WalkVisit
  <2> QED BY <1>8, <2>1, <2>2
<1>10. CASE List!CallbackStopsItself
  <2>1. pc # "main" /\ leftBefore' = leftBefore /\ alarm' = alarm
      BY <1>10 DEF List!CallbackStopsItself, List!history
  <2>2. WalkTypes' /\ InTick(S \ {alarm}, P)'
      BY <1>0, <1>3, <1>10, <2>1, WalkCallbackStops
  <2>3. PICK T \in SUBSET ListAlarms : T = S \ {alarm}
      OBVIOUS
  <2>4. InTick(T, P)'
      BY <2>1, <2>2, <2>3
  <2> QED BY <1>8, <2>1, <2>2, <2>4
<1>11. ASSUME NEW a \in ListAlarms, NEW n \in ListStartTicks, List!CallbackStart(a, n)
       PROVE  WalkInv' /\ Countdown' = Countdown
  <2>1. pc # "main" /\ leftBefore' = leftBefore
      BY <1>11 DEF List!CallbackStart, List!StartBody, List!history
  <2>2. WalkTypes' /\ InTick(S \cup {a}, P)'
      BY <1>0, <1>3, <1>11, <2>1, WalkCallbackStart
  <2>3. S \cup {a} \in SUBSET ListAlarms
      OBVIOUS
  <2> QED BY <1>8, <2>1, <2>2, <2>3
<1>12. ASSUME NEW ret \in ListPeriods, List!CallbackReturns(ret)
       PROVE  WalkInv' /\ Countdown' = Countdown
  <2>1. pc # "main" /\ leftBefore' = leftBefore
      BY <1>12 DEF List!CallbackReturns
  <2>2. WalkTypes' /\ \E T \in SUBSET ListAlarms : InTick(T, P)'
      BY <1>0, <1>3, <1>12, <2>1, WalkCallbackReturns
  <2> QED BY <1>8, <2>1, <2>2
<1>13. CASE List!TickExit
  <2>1. pc # "main"
      BY <1>13 DEF List!TickExit
  <2>2. WalkTypes' /\ AtRest(S)' /\ \A a \in ListAlarms : LeftOf(S, a)' \in Outcome(a)
      BY <1>0, <1>3, <1>13, <2>1, WalkExit
  <2>3. Countdown = leftBefore /\ Countdown' = [a \in ListAlarms |-> LeftOf(S, a)']
    <3>1. Countdown' = [a \in ListAlarms |-> LeftOf(S, a)']
        BY <1>4, <2>2, CountdownAfter
    <3> QED BY <2>1, <3>1 DEF Countdown
  <2>4. \A a \in ListAlarms : Countdown'[a] \in List!Schedule!AfterTick(a)
    <3>1. \A a \in ListAlarms : List!Schedule!AfterTick(a) = Outcome(a)
        BY <2>3 DEF List!Schedule!AfterTick, List!Schedule!Off, List!Schedule!Delays, Outcome,
                    Countdown
    <3> QED BY <2>2, <2>3, <3>1
  <2>5. List!Schedule!Tick
      BY <2>3, <2>4 DEF List!Schedule!Tick, Countdown
  <2> QED BY <2>2, <2>5 DEF List!Schedule!Next, WalkInv
<1> QED BY <1>5, <1>6, <1>7, <1>9, <1>10, <1>11, <1>12, <1>13
        DEF List!Next, List!AltTick, List!Schedule!Next

LEMMA PartInit == MCInit => PartInv
<1>1. WalkTypes /\ AtRest({}) => WalkInv
    BY DEF WalkInv
<1> QED BY <1>1, ListStarts DEF MCInit, PartInv

\* A step of another part leaves the list empty, and a step of the program that moves
\* only the tick counter leaves the countdown of an empty list alone.
LEMMA IdleNext ==
    ASSUME ListIdle, UNCHANGED listVars
    PROVE  ListIdle' /\ Countdown' = Countdown
<1>1. /\ pc = "main" /\ next \in Links /\ previous \in Links
      /\ Shape({}, {}, ListHead, next, previous)
    BY DEF ListIdle
<1>2. next' = next /\ previous' = previous /\ pc' = pc
    BY DEF listVars
<1>3. AtRest({}) /\ AtRest({})'
    BY <1>1, <1>2 DEF AtRest
<1>4. ListIdle'
    BY <1>1, <1>2 DEF ListIdle
<1>5. Countdown = [a \in ListAlarms |-> LeftOf({}, a)]
    BY <1>1, <1>3, CountdownAtRest
<1>6. Countdown' = [a \in ListAlarms |-> LeftOf({}, a)']
    BY <1>1, <1>2, <1>3, CountdownAfter
<1>7. Countdown' = Countdown
    BY <1>5, <1>6 DEF LeftOf
<1> QED BY <1>4, <1>7

LEMMA WalkStutters ==
    ASSUME WalkInv, UNCHANGED <<nticks, listVars>>
    PROVE  WalkInv' /\ Countdown' = Countdown
<1>1. UNCHANGED <<nticks, next, previous, pc, alarm, nextAlarm, leftBefore, visited, expiry, carry>>
    BY DEF listVars
<1>2. WalkTypes'
    BY <1>1 DEF WalkInv, WalkTypes, List!TypeOK
<1>3. PICK S, P \in SUBSET ListAlarms : AtRest(S) \/ InTick(S, P)
    BY DEF WalkInv
<1>4. AtRest(S) => AtRest(S)' /\ Countdown' = Countdown
  <2> SUFFICES ASSUME AtRest(S) PROVE AtRest(S)' /\ Countdown' = Countdown
      OBVIOUS
  <2>1. AtRest(S)'
      BY <1>1 DEF AtRest, Exact
  <2>2. next \in Links /\ previous \in Links
      BY DEF WalkInv, WalkTypes, List!TypeOK, Links
  <2>3. Countdown = [a \in ListAlarms |-> LeftOf(S, a)]
      BY <2>2, CountdownAtRest
  <2>4. Countdown' = [a \in ListAlarms |-> LeftOf(S, a)']
      BY <1>1, <2>1, <2>2, CountdownAfter
  <2> QED BY <1>1, <2>1, <2>3, <2>4 DEF LeftOf, Ahead
<1>5. InTick(S, P) => InTick(S, P)' /\ Countdown' = Countdown
  <2> SUFFICES ASSUME InTick(S, P) PROVE InTick(S, P)' /\ Countdown' = Countdown
      OBVIOUS
  <2>1. Before' = Before /\ Current' = Current /\ Cursor' = Cursor
      BY <1>1 DEF Before, Current, Cursor
  <2>2. TurnsKept(P)' /\ Waiting(P)' /\ Called(S, P)'
      BY <1>1, <2>1 DEF InTick, TurnsKept, Waiting, Called, Exact, Ahead
  <2>3. Settled(S, P)'
      BY <1>1, <2>1 DEF InTick, Settled, Exact, LeftOf, Ahead, Outcome
  <2>4. Shape(S, P, Cursor, next, previous)'
      BY <1>1, <2>1 DEF InTick
  <2>5. Countdown = leftBefore /\ Countdown' = leftBefore'
      BY <1>1 DEF InTick, Countdown
  <2> QED BY <1>1, <2>2, <2>3, <2>4, <2>5 DEF InTick
<1> QED BY <1>2, <1>3, <1>4, <1>5 DEF WalkInv

LEMMA PartNext ==
    ASSUME ShortListDelays, PartInv, [MCNext]_<<part, vars, listVars, irqVars, dayVars, heapVars>>
    PROVE  PartInv' /\ [List!Schedule!Next]_Countdown
<1>1. part' = part
    BY DEF MCNext
<1>2. CASE part = "list" /\ List!Next
  <2>1. WalkInv
      BY <1>2 DEF PartInv
  <2> QED BY <1>1, <1>2, <2>1, WalkNext DEF PartInv
<1>3. CASE part = "list" /\ ~List!Next
  <2>1. UNCHANGED <<nticks, listVars>>
      BY <1>3 DEF MCNext, ClockStep, ListStep, IrqStep, DayStep, HeapStep, vars
  <2>2. WalkInv
      BY <1>3 DEF PartInv
  <2> QED BY <1>1, <1>3, <2>1, <2>2, WalkStutters DEF PartInv
<1>4. CASE part # "list"
  <2>1. UNCHANGED listVars
      BY <1>4 DEF MCNext, ClockStep, ListStep, IrqStep, DayStep, HeapStep
  <2>2. ListIdle
      BY <1>4 DEF PartInv
  <2> QED BY <1>1, <1>4, <2>1, <2>2, IdleNext DEF PartInv
<1> QED BY <1>2, <1>3, <1>4

LEMMA PartAlways == ASSUME ShortListDelays PROVE MCSpec => []PartInv
<1>1. PartInv /\ [MCNext]_<<part, vars, listVars, irqVars, dayVars, heapVars>> => PartInv'
    BY PartNext
<1> QED BY <1>1, PartInit, PTL DEF MCSpec

\* With delays short of a whole turn of the counter, alarms started and stopped between
\* ticks and by callbacks never cost the loop of alt_tick its place or an alarm its turn,
\* and the links stay a ring (alt_tick.c:100-141, alt_llist.h:78-117), for every number
\* of alarms and every width of the counter.
THEOREM WalkStaysSound == ASSUME ShortListDelays PROVE MCSpec => []WalkSound
<1>1. PartInv => WalkSound
    BY WalkIsSound DEF PartInv, WalkSound
<1> QED BY <1>1, PartAlways, PTL

\* A tick walked entry by entry, with the callbacks in between, is one tick of the
\* countdown that alt_alarm_start promises (alt_tick.c:90-141).
THEOREM WalkIsATick == ASSUME ShortListDelays PROVE MCSpec => WalkImplementsSchedule
<1>1. MCInit => List!Schedule!Init
  <2> SUFFICES ASSUME MCInit PROVE List!Schedule!Init
      OBVIOUS
  <2>1. next \in Links /\ previous \in Links /\ AtRest({}) /\ pc = "main"
      BY ListStarts DEF MCInit, ListIdle
  <2>2. Countdown = [a \in ListAlarms |-> LeftOf({}, a)]
      BY <2>1, CountdownAtRest
  <2>3. Countdown = [a \in ListAlarms |-> 0]
      BY <2>2 DEF LeftOf
  <2> QED BY <2>1, <2>3 DEF List!Schedule!Init, List!Schedule!Off, Countdown
<1>2. PartInv /\ [MCNext]_<<part, vars, listVars, irqVars, dayVars, heapVars>>
        => [List!Schedule!Next]_Countdown
    BY PartNext
<1> QED BY <1>1, <1>2, PartAlways, PTL
        DEF MCSpec, WalkImplementsSchedule, List!ImplementsSchedule, List!Schedule!Spec, Countdown

-----------------------------------------------------------------------------
(* Interrupts                                                              *)

LEMMA IrqPartInit == MCInit => IrqP!Init
BY DEF MCInit, Irq!Init, IrqP!Init, Irq!Frame, IrqP!Frame, Irq!Ids, IrqP!Ids,
       Irq!NoCall, IrqP!NoCall

LEMMA IrqPartVars ==
    ASSUME UNCHANGED irqVars PROVE UNCHANGED IrqP!vars
BY DEF irqVars, IrqP!vars, IrqP!masks, IrqP!table

LEMMA IrqPartNext == Irq!Next => IrqP!Next
BY DEF Irq!Next, IrqP!Next, Irq!Continue, IrqP!Continue, Irq!Requests, IrqP!Requests,
       Irq!Last, IrqP!Last, Irq!Front, IrqP!Front, Irq!Min, IrqP!Min, Irq!Ids, IrqP!Ids,
       Irq!table, IrqP!table, Irq!masks, IrqP!masks, Irq!NoCall, IrqP!NoCall, Irq!Frame,
       IrqP!Frame, Irq!Top, IrqP!Top, Irq!SetTop, IrqP!SetTop, Irq!Places, IrqP!Places,
       Irq!Pending, IrqP!Pending, Irq!Raise, IrqP!Raise, Irq!EnableSteps, IrqP!EnableSteps,
       Irq!DisableSteps, IrqP!DisableSteps, Irq!SwitchSteps, IrqP!SwitchSteps,
       Irq!RegisterSteps, IrqP!RegisterSteps, Irq!BetweenCalls, IrqP!BetweenCalls,
       Irq!MayCall, IrqP!MayCall, Irq!Call, IrqP!Call, Irq!MaySwitch, IrqP!MaySwitch,
       Irq!Register, IrqP!Register, Irq!Enable, IrqP!Enable, Irq!Disable, IrqP!Disable,
       Irq!EnterCritical, IrqP!EnterCritical, Irq!LeaveCritical, IrqP!LeaveCritical,
       Irq!Does, IrqP!Does, Irq!Done, IrqP!Done, Irq!DisableAll, IrqP!DisableAll,
       Irq!Restored, IrqP!Restored, Irq!EnableAll, IrqP!EnableAll, Irq!SetHandler,
       IrqP!SetHandler, Irq!SetContext, IrqP!SetContext, Irq!SetActive, IrqP!SetActive,
       Irq!SetIenable, IrqP!SetIenable, Irq!TakeInterrupt, IrqP!TakeInterrupt, Irq!Chosen,
       IrqP!Chosen, Irq!Dispatch, IrqP!Dispatch, Irq!Serve, IrqP!Serve, Irq!Above,
       IrqP!Above, Irq!Interruptible, IrqP!Interruptible, Irq!NonInterruptible,
       IrqP!NonInterruptible, Irq!IsrReturns, IrqP!IsrReturns, Irq!TestAgain,
       IrqP!TestAgain

LEMMA IrqPart == MCSpec => IrqP!Spec
<1>1. MCInit => IrqP!Init
    BY IrqPartInit
<1>2. [MCNext]_<<part, vars, listVars, irqVars, dayVars, heapVars>>
        => [IrqP!Next]_(IrqP!vars)
  <2> SUFFICES ASSUME [MCNext]_<<part, vars, listVars, irqVars, dayVars, heapVars>>,
                      ~UNCHANGED irqVars
               PROVE  IrqP!Next
      BY IrqPartVars
  <2>1. Irq!Next
      BY DEF MCNext, IrqStep, DayStep, HeapStep
  <2> QED BY <2>1, IrqPartNext
<1> QED BY <1>1, <1>2, PTL DEF MCSpec, IrqP!Spec

LEMMA IrqPartAssumption == IrqP!IrqAssumption
BY PartsAssumption DEF Irq!IrqAssumption, IrqP!IrqAssumption

LEMMA IrqPartSound == IrqP!HandlersSound /\ IrqP!CallsNest => InterruptsSound
BY DEF InterruptsSound, Irq!HandlersSound, IrqP!HandlersSound, Irq!TypeOK, IrqP!TypeOK,
       Irq!CallsNest, IrqP!CallsNest, Irq!Ids, IrqP!Ids, Irq!Top, IrqP!Top, Irq!Last, IrqP!Last, Irq!Places, IrqP!Places,
       Irq!Pending, IrqP!Pending, Irq!BetweenCalls, IrqP!BetweenCalls

\* In the parts together as in IrqDispatch: no interrupt finds a table entry half
\* written, and interrupts are on again exactly when every call has put them back
\* (alt_irq_register.c:80, alt_irq.h:131).
THEOREM InterruptsStaySound == MCSpec => []InterruptsSound
<1>1. MCSpec => [](IrqP!HandlersSound /\ IrqP!CallsNest)
    BY IrqPart, IrqPartAssumption, IrqP!InterruptsKept
<1> QED BY <1>1, IrqPartSound, PTL

\* And a handler is interrupted only by handlers of a higher priority, if handlers do
\* not switch interrupts under a priority mask (alt_legacy_irq.h:116).
THEOREM PrioritiesStayNested == ASSUME Careful PROVE MCSpec => []NestsByPriority
<1>1. MCSpec => []IrqP!NestsByPriority
    BY IrqPart, IrqPartAssumption, IrqP!PrioritiesNest
<1>2. IrqP!NestsByPriority => NestsByPriority
    BY DEF NestsByPriority, Irq!NestsByPriority, IrqP!NestsByPriority
<1> QED BY <1>1, <1>2, PTL

-----------------------------------------------------------------------------
(* The heap                                                                *)

\* A call of alt_sbrk runs from its first step to its last with interrupts disabled, so
\* that the end of the heap it has aligned and checked is the one it extends.

\* One call at a time, with interrupts disabled.
OneCall ==
    /\ \A c \in Block!Callers : at[c] # "none" => ~on
    /\ at["program"] = "none" \/ at["interrupt"] = "none"

\* What a call has established when it gets to a step.
StepsSound ==
    \A c \in Block!Callers :
        /\ at[c] # "none" => incr[c] \in Increments
        /\ at[c] \in {"check", "extend"} => heap_end % Word = 0
        /\ at[c] = "extend" => prev_heap_end[c] = heap_end /\ heap_end + incr[c] <= Limit

\* An end of the heap past the limit is one that was aligned and refused.
EndSound == heap_end <= Limit \/ heap_end % Word = 0

BlocksBelow ==
    \A b \in blocks :
        b.base % Word = 0 /\ b.base + b.size <= Limit /\ b.base + b.size <= heap_end

BlocksDiffer == \A b, c \in blocks : b = c \/ Block!Apart(b, c)

HeapInv == Block!TypeOK /\ OneCall /\ StepsSound /\ EndSound /\ BlocksBelow /\ BlocksDiffer

LEMMA HeapNumbers ==
    ASSUME Block!HeapAssumption, Block!TypeOK
    PROVE  /\ Word \in Nat /\ Word > 0 /\ Limit \in Nat /\ Limit > 0 /\ heap_end \in Nat
           /\ \A c \in Block!Callers : incr[c] \in Nat /\ prev_heap_end[c] \in Nat
           /\ \A b \in blocks : b.base \in Nat /\ b.size \in Nat
<1>1. Word \in Nat /\ Word > 0 /\ Limit \in Nat /\ Limit > 0 /\ Increments \subseteq Nat
    BY DEF Block!HeapAssumption
<1>2. heap_end \in Nat
    BY <1>1 DEF Block!TypeOK
<1>3. ASSUME NEW c \in Block!Callers
      PROVE  incr[c] \in Nat /\ prev_heap_end[c] \in Nat
  <2>1. incr[c] \in Increments \cup {0} /\ prev_heap_end[c] \in Nat
      BY DEF Block!TypeOK
  <2>2. Increments \cup {0} \subseteq Nat
      BY <1>1
  <2> QED BY <2>1, <2>2
<1>4. ASSUME NEW b \in blocks
      PROVE  b.base \in Nat /\ b.size \in Nat
  <2>1. b \in [base : Nat, size : Increments, owner : Block!Callers]
      BY DEF Block!TypeOK
  <2> QED BY <1>1, <2>1
<1> QED BY <1>1, <1>2, <1>3, <1>4

LEMMA MultipleOfWord ==
    ASSUME Block!HeapAssumption, NEW q \in Nat
    PROVE  (q * Word) % Word = 0
BY Z3 DEF Block!HeapAssumption

\* Aligning goes up to the next word, and by less than one.
LEMMA AlignedUp ==
    ASSUME Block!HeapAssumption, NEW x \in Nat
    PROVE  /\ Block!Aligned(x) \in Nat /\ x <= Block!Aligned(x) /\ Block!Aligned(x) < x + Word
           /\ Block!Aligned(x) % Word = 0
<1> DEFINE y == x + Word - 1
           q == y \div Word
<1>1. y \in Nat /\ Word \in Nat \ {0}
    BY DEF Block!HeapAssumption
<1>2. q \in Nat /\ y = q * Word + (y % Word) /\ y % Word \in 0 .. Word - 1
    BY <1>1, Z3
<1>3. Block!Aligned(x) = q * Word
    BY DEF Block!Aligned
<1>4. q * Word \in Nat
    BY <1>1, <1>2
<1> HIDE DEF q
<1>5. x <= q * Word /\ q * Word < x + Word
    BY <1>1, <1>2, <1>4
<1> QED BY <1>2, <1>3, <1>4, <1>5, MultipleOfWord

\* What is aligned stays where it is.
LEMMA AlignedStays ==
    ASSUME Block!HeapAssumption, NEW x \in Nat, x % Word = 0
    PROVE  Block!Aligned(x) = x
<1>1. Word \in Nat \ {0}
    BY DEF Block!HeapAssumption
<1>2. PICK q \in Nat : x = q * Word
    BY <1>1, Z3
<1>3. (q * Word + (Word - 1)) \div Word = q
    BY <1>1, Z3
<1> QED BY <1>1, <1>2, <1>3 DEF Block!Aligned

LEMMA HeapInit == ASSUME Block!HeapAssumption PROVE Block!Init => HeapInv
<1> SUFFICES ASSUME Block!Init
             PROVE  HeapInv
    OBVIOUS
<1>1. Block!TypeOK /\ EndSound
    BY DEF Block!Init, Block!TypeOK, EndSound, Block!HeapAssumption
<1>2. OneCall /\ StepsSound /\ BlocksBelow /\ BlocksDiffer
    BY DEF Block!Init, OneCall, StepsSound, BlocksBelow, BlocksDiffer, Block!Callers
<1> QED BY <1>1, <1>2 DEF HeapInv

LEMMA CallKeeps ==
    ASSUME Block!HeapAssumption, HeapInv, NEW c \in Block!Callers, NEW n \in Increments, Block!Call(c, n)
    PROVE  HeapInv'
<1>1. UNCHANGED <<heap_end, prev_heap_end, blocks>> /\ on' = FALSE
    BY DEF Block!Call, Block!DisableAll
<1>2. at' = [at EXCEPT ![c] = "align"] /\ incr' = [incr EXCEPT ![c] = n] /\ at[c] = "none"
    BY DEF Block!Call
<1>3. \A d \in Block!Callers : at[d] = "none"
    BY <1>2 DEF Block!Call, Block!Runs, HeapInv, OneCall, Block!Callers
<1>4. Block!TypeOK'
    BY <1>1, <1>2 DEF HeapInv, Block!TypeOK
<1>5. OneCall'
    BY <1>1, <1>2, <1>3 DEF HeapInv, OneCall, Block!Callers, Block!TypeOK
<1>6. StepsSound'
    BY <1>2, <1>3 DEF StepsSound, HeapInv, Block!TypeOK
<1> QED BY <1>1, <1>4, <1>5, <1>6 DEF HeapInv, EndSound, BlocksBelow, BlocksDiffer, Block!Apart

LEMMA AlignKeeps ==
    ASSUME Block!HeapAssumption, HeapInv, NEW c \in Block!Callers, Block!Align(c)
    PROVE  HeapInv'
<1>1. /\ heap_end' = Block!Aligned(heap_end) /\ at' = [at EXCEPT ![c] = "check"]
      /\ at[c] = "align" /\ UNCHANGED <<on, incr, prev_heap_end, blocks>>
    BY DEF Block!Align
<1>2. /\ heap_end' \in Nat /\ heap_end <= heap_end' /\ heap_end' < heap_end + Word
      /\ heap_end' % Word = 0 /\ (heap_end % Word = 0 => heap_end' = heap_end)
    BY <1>1, AlignedUp, AlignedStays, HeapNumbers DEF HeapInv
<1>3. heap_end' <= Limit + Word
    BY <1>2, HeapNumbers DEF HeapInv, EndSound, Block!TypeOK
<1>4. Block!TypeOK'
    BY <1>1, <1>2, <1>3 DEF HeapInv, Block!TypeOK
<1>5. OneCall'
    BY <1>1 DEF HeapInv, OneCall, Block!Callers, Block!TypeOK
<1>6. \A d \in Block!Callers : at[d] # "extend"
    BY <1>1 DEF HeapInv, OneCall, Block!Callers
<1>7. StepsSound'
    BY <1>1, <1>2, <1>6 DEF StepsSound, HeapInv, Block!TypeOK
<1>8. BlocksBelow'
    BY <1>1, <1>2, HeapNumbers DEF HeapInv, BlocksBelow
<1> QED BY <1>1, <1>2, <1>4, <1>5, <1>7, <1>8 DEF HeapInv, EndSound, BlocksDiffer, Block!Apart

LEMMA CheckKeeps ==
    ASSUME Block!HeapAssumption, HeapInv, NEW c \in Block!Callers, Block!Check(c)
    PROVE  HeapInv'
<1>1. /\ UNCHANGED <<heap_end, on, incr, blocks>> /\ at[c] = "check" /\ ~Block!Exceeds(c)
      /\ at' = [at EXCEPT ![c] = "extend"]
      /\ prev_heap_end' = [prev_heap_end EXCEPT ![c] = heap_end]
    BY DEF Block!Check
<1>2. Block!TypeOK'
    BY <1>1, HeapNumbers DEF HeapInv, Block!TypeOK
<1>3. OneCall'
    BY <1>1 DEF HeapInv, OneCall, Block!Callers, Block!TypeOK
<1>4. heap_end + incr[c] <= Limit /\ heap_end % Word = 0
    BY <1>1, HeapNumbers DEF HeapInv, Block!Exceeds, StepsSound
<1>5. StepsSound'
    BY <1>1, <1>4 DEF StepsSound, HeapInv, Block!TypeOK
<1> QED BY <1>1, <1>2, <1>3, <1>5 DEF HeapInv, EndSound, BlocksBelow, BlocksDiffer, Block!Apart

\* A call that leaves was the only one.
LEMMA LeaveKeeps ==
    ASSUME Block!HeapAssumption, HeapInv, NEW c \in Block!Callers, at[c] # "none", Block!Leave(c)
    PROVE  /\ at' \in [Block!Callers -> {"none", "align", "check", "extend"}]
           /\ incr' \in [Block!Callers -> Increments \cup {0}] /\ on' \in BOOLEAN
           /\ \A d \in Block!Callers : at'[d] = "none"
<1>1. \A d \in Block!Callers \ {c} : at[d] = "none"
    BY DEF HeapInv, OneCall, Block!Callers
<1> QED BY <1>1 DEF Block!Leave, HeapInv, Block!TypeOK

LEMMA RefuseKeeps ==
    ASSUME Block!HeapAssumption, HeapInv, NEW c \in Block!Callers, Block!Refuse(c)
    PROVE  HeapInv'
<1>1. UNCHANGED <<heap_end, prev_heap_end, blocks>> /\ at[c] # "none" /\ Block!Leave(c)
    BY DEF Block!Refuse
<1>2. Block!TypeOK' /\ OneCall' /\ StepsSound'
    BY <1>1, LeaveKeeps DEF HeapInv, Block!TypeOK, OneCall, StepsSound, Block!Callers
<1> QED BY <1>1, <1>2 DEF HeapInv, EndSound, BlocksBelow, BlocksDiffer, Block!Apart

LEMMA ExtendKeeps ==
    ASSUME Block!HeapAssumption, HeapInv, NEW c \in Block!Callers, Block!Extend(c)
    PROVE  HeapInv'
<1> DEFINE new == Block!Granted(c)
<1>1. /\ at[c] = "extend" /\ Block!Leave(c) /\ heap_end' = heap_end + incr[c]
      /\ blocks' = blocks \cup {b \in {new} : b.size > 0}
      /\ prev_heap_end' = [prev_heap_end EXCEPT ![c] = 0]
    BY DEF Block!Extend
<1>2. incr[c] \in Increments
    BY <1>1 DEF HeapInv, StepsSound
<1>3. /\ prev_heap_end[c] = heap_end /\ heap_end + incr[c] <= Limit
      /\ heap_end % Word = 0
    BY <1>1 DEF HeapInv, StepsSound
<1>4. /\ at' \in [Block!Callers -> {"none", "align", "check", "extend"}]
      /\ incr' \in [Block!Callers -> Increments \cup {0}] /\ on' \in BOOLEAN
      /\ \A d \in Block!Callers : at'[d] = "none"
    BY <1>1, LeaveKeeps
<1>5. heap_end' \in Nat /\ heap_end <= heap_end' /\ heap_end' <= Limit
    BY <1>1, <1>3, HeapNumbers DEF HeapInv
<1>6. /\ new \in [base : Nat, size : Increments, owner : Block!Callers]
      /\ new.base = heap_end /\ new.size = incr[c]
    BY <1>2, <1>3, HeapNumbers DEF HeapInv, Block!Granted
<1> HIDE DEF new
<1>7. Block!TypeOK'
  <2>1. heap_end' \in 0 .. Limit + Word
      BY <1>5, HeapNumbers DEF HeapInv
  <2>2. prev_heap_end' \in [Block!Callers -> Nat]
      BY <1>1 DEF HeapInv, Block!TypeOK
  <2>3. blocks' \subseteq [base : Nat, size : Increments, owner : Block!Callers]
      BY <1>1, <1>6 DEF HeapInv, Block!TypeOK
  <2> QED BY <1>4, <2>1, <2>2, <2>3 DEF Block!TypeOK
<1>8. OneCall' /\ StepsSound' /\ EndSound'
    BY <1>4, <1>5 DEF OneCall, StepsSound, EndSound, Block!Callers
<1>9. BlocksBelow'
    BY <1>1, <1>3, <1>5, <1>6, HeapNumbers DEF HeapInv, BlocksBelow
<1>10. ASSUME NEW b \in blocks
       PROVE  Block!Apart(b, new) /\ Block!Apart(new, b)
    BY <1>6, HeapNumbers DEF HeapInv, BlocksBelow, Block!Apart
<1>11. BlocksDiffer'
    BY <1>1, <1>10 DEF HeapInv, BlocksDiffer, Block!Apart
<1> QED BY <1>7, <1>8, <1>9, <1>11 DEF HeapInv

LEMMA HeapNext == ASSUME Block!HeapAssumption PROVE HeapInv /\ [Block!Next]_Block!vars => HeapInv'
<1> SUFFICES ASSUME HeapInv, [Block!Next]_Block!vars
             PROVE  HeapInv'
    OBVIOUS
<1>1. ASSUME NEW c \in Block!Callers,
             \/ \E n \in Increments : Block!Call(c, n)
             \/ Block!Align(c) \/ Block!Refuse(c) \/ Block!Check(c) \/ Block!Extend(c)
      PROVE  HeapInv'
    BY <1>1, CallKeeps, AlignKeeps, RefuseKeeps, CheckKeeps, ExtendKeeps
<1>2. CASE UNCHANGED Block!vars
    BY <1>2 DEF Block!vars, Block!callVars, HeapInv, Block!TypeOK, OneCall, StepsSound, EndSound, BlocksBelow,
                BlocksDiffer, Block!Apart
<1> QED BY <1>1, <1>2 DEF Block!Next

\* The blocks alt_sbrk.c:68-135 hands out begin at a word, end below the limit and do not
\* overlap, whoever asks and whenever an interrupt comes.
THEOREM BlocksKeptApart == MCSpec => []BlocksApart
<1>1. Block!HeapAssumption
    BY PartsAssumption
<1>2. MCInit => HeapInv
    BY <1>1, HeapInit DEF MCInit
<1>3. HeapInv /\ [MCNext]_<<part, vars, listVars, irqVars, dayVars, heapVars>> => HeapInv'
  <2> SUFFICES ASSUME HeapInv, [MCNext]_<<part, vars, listVars, irqVars, dayVars, heapVars>>
               PROVE  [Block!Next]_(Block!vars)
      BY <1>1, HeapNext
  <2>1. ASSUME UNCHANGED heapVars PROVE UNCHANGED Block!vars
      BY <2>1 DEF heapVars, Block!vars, Block!callVars
  <2> QED BY <2>1 DEF MCNext, IrqStep, DayStep, HeapStep
<1>4. HeapInv => BlocksApart
    BY DEF HeapInv, BlocksApart, Block!BlocksApart, BlocksBelow, BlocksDiffer
<1> QED BY <1>2, <1>3, <1>4, PTL DEF MCSpec

-----------------------------------------------------------------------------
(* The time of day                                                         *)

\* A quotient without remainder, and what is left over after whole multiples.
LEMMA Divides ==
    ASSUME NEW U \in Nat \ {0}, NEW r \in Nat \ {0}, U % r = 0
    PROVE  U \div r \in Nat \ {0} /\ r * (U \div r) = U
<1>1. U \div r \in Nat /\ U = r * (U \div r) + (U % r)
    BY Z3
<1>2. U = r * (U \div r)
    BY <1>1
<1>3. U \div r # 0
    BY <1>2
<1> QED BY <1>1, <1>2, <1>3

LEMMA RestIs ==
    ASSUME NEW U \in Nat \ {0}, NEW q \in Int, NEW x \in 0 .. U-1
    PROVE  (q * U + x) % U = x
BY Z3

\* n ticks of T microseconds are n \div r seconds and a fraction.
LEMMA TicksMake ==
    ASSUME NEW U \in Nat \ {0}, NEW r \in Nat \ {0}, U % r = 0, NEW n \in Nat
    PROVE  /\ (n * (U \div r)) % U \in 0 .. U-1 /\ n \div r \in Nat
           /\ (n \div r) * U + ((n * (U \div r)) % U) = n * (U \div r)
<1>1. PICK T \in Nat \ {0} : T = U \div r /\ r * T = U
    BY Divides
<1>2. PICK q \in Nat, m \in 0 .. r-1 : q = n \div r /\ n = q * r + m
  <2>1. n \div r \in Nat /\ n % r \in 0 .. r-1 /\ n = (n \div r) * r + (n % r)
      BY Z3
  <2> QED BY <2>1
<1>3. m * T \in Nat /\ m * T + T <= r * T
  <2>1. PICK d \in Nat : r = m + 1 + d
    <3>1. r - m - 1 \in Nat /\ r = m + 1 + (r - m - 1)
        OBVIOUS
    <3> QED BY <3>1
  <2>2. (m + 1 + d) * T = m * T + T + d * T /\ d * T \in Nat /\ m * T \in Nat
      BY <1>1, <1>2, <2>1, Z3
  <2> QED BY <2>1, <2>2
<1>4. m * T \in 0 .. U-1
    BY <1>1, <1>3
<1>5. n * T = q * U + m * T
  <2>1. (q * r + m) * T = q * (r * T) + m * T
      BY <1>1, <1>2, Z3
  <2> QED BY <1>1, <1>2, <2>1
<1>6. (n * T) % U = m * T
    BY <1>4, <1>5, RestIs
<1> QED BY <1>1, <1>2, <1>4, <1>5, <1>6

LEMMA SmallRest ==
    ASSUME NEW U \in Nat \ {0}, NEW x \in Nat, x < U
    PROVE  x % U = x
BY Z3

LEMMA Distributes ==
    ASSUME NEW U \in Int, NEW x \in Int, NEW y \in Int
    PROVE  (x + y) * U = x * U + y * U /\ (x - y) * U = x * U - y * U
BY Z3

LEMMA CarryIs ==
    ASSUME NEW U \in Nat \ {0}, NEW s \in Int, NEW u \in Int
    PROVE  u % U \in 0 .. U-1 /\ (s + u \div U) * U + (u % U) = s * U + u
<1>1. u = (u \div U) * U + (u % U) /\ u % U \in 0 .. U-1 /\ u \div U \in Int
    BY Z3
<1>2. (s + u \div U) * U = s * U + (u \div U) * U
    BY <1>1, Z3
<1> QED BY <1>1, <1>2

\* The types, and: as long as the arithmetic is exact the time at tick 0 and the ticks
\* since make the time it should be.
DayInv ==
    /\ Day!TypeOK
    /\ exact /\ rate # 0 =>
          Day!Microseconds(alt_resettime) + ticks * (ALT_US \div rate) = wall

LEMMA DayNumbers ==
    ASSUME Day!TypeOK
    PROVE  /\ ALT_US \in Nat \ {0} /\ DayWrap \in Nat \ {0}
           /\ rate \in Nat /\ ticks \in Nat /\ (rate # 0 => ALT_US % rate = 0)
           /\ alt_resettime.sec \in Int /\ alt_resettime.usec \in 1-ALT_US .. ALT_US-1
BY PartsAssumption DEF Day!TimeAssumption, Day!TypeOK

LEMMA DayInit == Day!Init => DayInv
<1> SUFFICES ASSUME Day!Init PROVE DayInv
    OBVIOUS
<1>1. ALT_US \in Nat \ {0} /\ DayWrap \in Nat \ {0} /\ rate \in Nat
    BY PartsAssumption DEF Day!TimeAssumption, Day!Init
<1>2. Day!TypeOK
    BY <1>1 DEF Day!Init, Day!TypeOK
<1>3. alt_resettime.sec = 0 /\ alt_resettime.usec = 0 /\ ticks = 0 /\ wall = 0
    BY DEF Day!Init
<1>4. ASSUME rate # 0 PROVE ALT_US \div rate \in Nat
    BY <1>1, <1>2, <1>4, DayNumbers, Divides
<1>5. 0 * ALT_US + 0 = 0
    BY <1>1
<1> QED BY <1>2, <1>3, <1>4, <1>5 DEF DayInv, Day!Microseconds

LEMMA DaySet ==
    ASSUME DayInv, NEW t \in Times, NEW tz \in Zones, Day!SetTimeOfDay(t, tz)
    PROVE  DayInv'
<1> DEFINE U == ALT_US  T == U \div rate  s == ticks \div rate  f == (ticks * T) % U
<1>1. /\ U \in Nat \ {0} /\ DayWrap \in Nat \ {0} /\ rate \in Nat \ {0} /\ ticks \in Nat
      /\ U % rate = 0
    BY DayNumbers DEF DayInv, Day!SetTimeOfDay
<1>2. t.sec \in Nat /\ t.usec \in 0 .. U-1
    BY PartsAssumption DEF Day!TimeAssumption
<1>3. T \in Nat /\ s \in Nat /\ f \in 0 .. U-1 /\ s * U + f = ticks * T
    BY <1>1, Divides, TicksMake
<1>4. ticks * T \in Nat
    BY <1>1, <1>3
<1>5. ((ticks * T) % DayWrap) % U \in 0 .. U-1
  <2>1. (ticks * T) % DayWrap \in Nat
      BY <1>1, <1>4
  <2> QED BY <1>1, <2>1
<1>6. alt_resettime' = [sec |-> t.sec - s, usec |-> t.usec - (((ticks * T) % DayWrap) % U)]
    BY DEF Day!SetTimeOfDay, Day!Seconds, Day!NarrowFraction, Day!TickUs
<1>7. /\ alt_timezone' = tz /\ wall' = t.sec * U + t.usec /\ rate' = rate /\ ticks' = ticks
      /\ exact' = (ticks * T < DayWrap)
    BY DEF Day!SetTimeOfDay, Day!Microseconds, Day!TickUs
<1> HIDE DEF T, s, f
<1>8. Day!TypeOK'
  <2>1. alt_resettime' \in [sec : Int, usec : 1-U .. U-1]
      BY <1>1, <1>2, <1>3, <1>5, <1>6
  <2>2. wall' \in Nat
      BY <1>1, <1>2, <1>7
  <2> QED BY <1>7, <2>1, <2>2 DEF DayInv, Day!TypeOK
<1>9. ASSUME exact' PROVE Day!Microseconds(alt_resettime)' + ticks' * (ALT_US \div rate') = wall'
  <2>1. (ticks * T) % DayWrap = ticks * T
    <3>1. ticks * T < DayWrap
        BY <1>7, <1>9
    <3> QED BY <1>1, <1>4, <3>1, SmallRest
  <2>2. alt_resettime'.sec = t.sec - s /\ alt_resettime'.usec = t.usec - f
      BY <1>6, <2>1 DEF f
  <2>3. (t.sec - s) * U = t.sec * U - s * U
    <3>1. t.sec \in Int /\ s \in Int /\ U \in Int
        BY <1>1, <1>2, <1>3
    <3> QED BY <3>1, Distributes
  <2>4. s * U \in Int /\ t.sec * U \in Int
      BY <1>1, <1>2, <1>3
  <2>5. (t.sec - s) * U + (t.usec - f) + ticks * T = t.sec * U + t.usec
      BY <1>2, <1>3, <2>3, <2>4
  <2>6. ticks' * (ALT_US \div rate') = ticks * T
      BY <1>7 DEF T
  <2> QED BY <1>7, <2>2, <2>5, <2>6 DEF Day!Microseconds
<1> QED BY <1>8, <1>9 DEF DayInv

LEMMA DayTick ==
    ASSUME DayInv, Day!Tick
    PROVE  DayInv'
<1> DEFINE T == ALT_US \div rate
<1>1. /\ ALT_US \in Nat \ {0} /\ DayWrap \in Nat \ {0} /\ rate \in Nat \ {0} /\ ticks \in Nat
      /\ ALT_US % rate = 0
    BY DayNumbers DEF DayInv, Day!Tick
<1>2. T \in Nat
    BY <1>1, Divides
<1>3. /\ rate' = rate /\ alt_resettime' = alt_resettime /\ alt_timezone' = alt_timezone
      /\ ticks' = (ticks + 1) % DayWrap /\ exact' = (exact /\ ticks' # 0)
      /\ wall' = IF exact' THEN wall + T ELSE 0
    BY DEF Day!Tick, Day!TickUs
<1> HIDE DEF T
<1>4. wall \in Nat /\ exact \in BOOLEAN
    BY DEF DayInv, Day!TypeOK
<1>5. ticks' \in 0 .. DayWrap-1 /\ wall' \in Nat /\ exact' \in BOOLEAN
    BY <1>1, <1>2, <1>3, <1>4
<1>6. Day!TypeOK'
    BY <1>3, <1>5 DEF DayInv, Day!TypeOK
<1>7. ASSUME exact' PROVE Day!Microseconds(alt_resettime)' + ticks' * (ALT_US \div rate') = wall'
  <2>1. ticks \in 0 .. DayWrap-1
      BY DEF DayInv, Day!TypeOK
  <2>2. ticks' = ticks + 1 /\ exact /\ wall' = wall + T
    <3>1. exact /\ ticks' # 0 /\ wall' = wall + T
        BY <1>3, <1>7
    <3>2. ticks + 1 # DayWrap
        BY <1>1, <1>3, <3>1
    <3> QED BY <1>1, <1>3, <2>1, <3>1, <3>2, SmallRest
  <2>3. (ticks + 1) * T = ticks * T + T /\ ticks * T \in Nat
      BY <1>1, <1>2, Z3
  <2>4. Day!Microseconds(alt_resettime) \in Int
      BY <1>1, DayNumbers DEF DayInv, Day!Microseconds
  <2>5. Day!Microseconds(alt_resettime) + ticks * T = wall
      BY <1>1, <2>2 DEF DayInv, T
  <2>6. Day!Microseconds(alt_resettime)' = Day!Microseconds(alt_resettime)
      BY <1>3 DEF Day!Microseconds
  <2>7. ticks' * (ALT_US \div rate') = ticks * T + T
      BY <1>3, <2>2, <2>3 DEF T
  <2> QED BY <1>2, <2>2, <2>3, <2>4, <2>5, <2>6, <2>7
<1> QED BY <1>6, <1>7 DEF DayInv

LEMMA DayNext == DayInv /\ [Day!Next]_(Day!vars) => DayInv'
<1> SUFFICES ASSUME DayInv, [Day!Next]_(Day!vars) PROVE DayInv'
    OBVIOUS
<1>1. CASE UNCHANGED Day!vars
    BY <1>1 DEF DayInv, Day!vars, Day!timeVars, Day!TypeOK, Day!Microseconds
<1> QED BY <1>1, DayTick, DaySet DEF Day!Next, Day!Unsupported

\* What gettimeofday reads: no borrow is lost, because the time it tells is not negative.
LEMMA DayAccurate == DayInv => Day!TypeOK /\ Day!ClockAccurate
<1> SUFFICES ASSUME DayInv, exact, rate # 0
             PROVE  /\ Day!Microseconds(Day!GetTimeOfDay) = wall
                    /\ Day!GetTimeOfDay.usec \in 0 .. ALT_US-1
    BY DEF DayInv, Day!ClockAccurate
<1> DEFINE U == ALT_US  T == U \div rate  f == (ticks * T) % U
           s == alt_resettime.sec + ticks \div rate
           u == alt_resettime.usec + f
<1>1. /\ U \in Nat \ {0} /\ rate \in Nat \ {0} /\ ticks \in Nat /\ U % rate = 0
      /\ alt_resettime.sec \in Int /\ alt_resettime.usec \in 1-U .. U-1
    BY DayNumbers DEF DayInv
<1>2. ticks \div rate \in Nat /\ f \in 0 .. U-1 /\ (ticks \div rate) * U + f = ticks * T
    BY <1>1, TicksMake
<1>3. s \in Int /\ u \in Int /\ u > -U
    BY <1>1, <1>2
<1>4. s * U + u = wall
  <2>1. s * U = alt_resettime.sec * U + (ticks \div rate) * U
      BY <1>1, <1>2, Z3
  <2>2. alt_resettime.sec * U \in Int /\ (ticks \div rate) * U \in Int
      BY <1>1, <1>2
  <2>3. alt_resettime.sec * U + alt_resettime.usec + ticks * T = wall
      BY DEF DayInv, Day!Microseconds
  <2> QED BY <1>1, <1>2, <2>1, <2>2, <2>3
<1>5. wall \in Nat
    BY DEF DayInv, Day!TypeOK
<1>6. Day!GetTimeOfDay = Day!Normal(s, u)
    BY DEF Day!GetTimeOfDay, Day!Seconds, Day!Fraction, Day!TickUs
<1> HIDE DEF T, f, s, u
<1>7. ~(u < 0 /\ s <= 0)
  <2> SUFFICES ASSUME u < 0, s <= 0 PROVE FALSE
      OBVIOUS
  <2>1. s * U <= 0
      BY <1>1, <1>3, Z3
  <2>2. s * U \in Int
      BY <1>1, <1>3
  <2> QED BY <1>3, <1>4, <1>5, <2>1, <2>2
<1>8. Day!GetTimeOfDay = [sec |-> s + (u \div U), usec |-> u % U]
    BY <1>6, <1>7 DEF Day!Normal
<1> QED BY <1>1, <1>3, <1>4, <1>8, CarryIs DEF Day!Microseconds

\* In the parts together as in TimeOfDay: gettimeofday tells the time last set plus the
\* ticks since, carries and borrows included, as long as settimeofday did its arithmetic
\* within 32 bits and the counter has not wrapped (alt_gettod.c:91-112).
THEOREM ClockStaysAccurate == MCSpec => []ClockAccurate
<1>1. MCInit => DayInv
    BY DayInit DEF MCInit
<1>2. DayInv /\ [MCNext]_<<part, vars, listVars, irqVars, dayVars, heapVars>> => DayInv'
  <2> SUFFICES ASSUME DayInv, [MCNext]_<<part, vars, listVars, irqVars, dayVars, heapVars>>
               PROVE  [Day!Next]_(Day!vars)
      BY DayNext
  <2>1. ASSUME UNCHANGED dayVars PROVE UNCHANGED Day!vars
      BY <2>1 DEF dayVars, Day!vars, Day!timeVars
  <2> QED BY <2>1 DEF MCNext, IrqStep, DayStep, HeapStep
<1>3. DayInv => ClockAccurate
    BY DayAccurate DEF ClockAccurate
<1> QED BY <1>1, <1>2, <1>3, PTL DEF MCSpec
==============================================================================
