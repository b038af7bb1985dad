------------------------------ MODULE IrqProofs ------------------------------
(***************************************************************************)
(* Interrupts are sound for every number of interrupts, every set of       *)
(* handlers and every bound on the stack of activations.                   *)
(*                                                                         *)
(* A call is a list of steps, so the invariant says for each list that may *)
(* be left of one what the call has established: the contexts it has saved *)
(* and what it has written.  Below the top every activation is where       *)
(* interrupts are on, so that a half-written table entry belongs to the    *)
(* call on top.  A second invariant adds the priority mask: it is the one  *)
(* the topmost interruptible handler has set, and each handler keeps the   *)
(* one it found.                                                           *)
(***************************************************************************)
EXTENDS IrqDispatch, SequenceTheorems, FiniteSetTheorems, WellFoundedInduction, TLAPS

\* The steps that remain of a call: the last ones of a switch to the list x, and
\* of a registration.
Sw1    == <<"enable_all">>
Sw2    == <<"ienable", "enable_all">>
Sw3(x) == <<x, "ienable", "enable_all">>
Sw4(x) == <<"disable_all", x, "ienable", "enable_all">>

Rg2    == <<"enable_all", "enable_all">>
Rg3    == <<"ienable", "enable_all", "enable_all">>
Rg4(x) == <<x, "ienable", "enable_all", "enable_all">>
Rg5(x) == <<"disable_all", x, "ienable", "enable_all", "enable_all">>
Rg6(x) == <<"context", "disable_all", x, "ienable", "enable_all", "enable_all">>
Rg7(x) == <<"handler", "context", "disable_all", x, "ienable", "enable_all", "enable_all">>
Rg8(x) == <<"disable_all", "handler", "context",
            "disable_all", x, "ienable", "enable_all", "enable_all">>

Lists == {"active", "inactive"}

\* With no context saved, one, and two.
Rests0 == {<<>>, <<"disable_all">>} \cup {Sw4(x) : x \in Lists} \cup {Rg8(x) : x \in Lists}
Rests1 == {Sw1, Sw2} \cup {Sw3(x) : x \in Lists} \cup {Rg5(x) : x \in Lists}
             \cup {Rg6(x) : x \in Lists} \cup {Rg7(x) : x \in Lists}
Rests2 == {Rg2, Rg3} \cup {Rg4(x) : x \in Lists}
Rests == Rests0 \cup Rests1 \cup Rests2

\* A registration that has written the handler, and one that may still have to.
Written(x) == {Rg6(x), Rg5(x), Rg4(x)}
Registering(x) == {Rg8(x), Rg7(x)} \cup Written(x)

\* Outside its critical sections f runs with interrupts on.
Base(f) == f.at = "run" \/ f.old # <<>>

Activations ==
    [at : Places, id : Ids, handler : Handlers \cup {Null}, context : Handlers \cup {Null},
     todo : Rests, call : [id : Ids, handler : Handlers \cup {Null}],
     saved : Seq(BOOLEAN), old : {<<>>} \cup {<<m>> : m \in SUBSET Ids}]

FramesTyped == frames \in Seq(Activations) /\ Len(frames) \in 1 .. MaxFrames

\* What is left of a call.
StepsSound(f) ==
    /\ f.todo \in Rests1 \cup Rests2 => Len(f.saved) >= 1
    /\ f.todo \in Rests2 => Len(f.saved) >= 2
    /\ f.todo \in {Sw4("active"), Sw3("active")} => handler[f.call.id] # Null
    /\ f.todo \in Registering("active") => f.call.handler # Null
    /\ f.todo \in Registering("inactive") => f.call.handler = Null /\ f.at = "run"
    /\ \A x \in Lists : f.todo \in Written(x) => handler[f.call.id] = f.call.handler
    /\ f.todo = Rg3 /\ f.call.handler = Null => f.call.id \notin alt_irq_active

\* Of the contexts it has saved the first is what its own code runs with.
SavedSound(f) ==
    /\ f.at = "run" => f.old = <<>>
    /\ \A i \in 1 .. Len(f.saved) : f.saved[i] <=> i = 1 /\ Base(f)

CallSound(f) == StepsSound(f) /\ SavedSound(f)

CallsSound == \A k \in 1 .. Len(frames) : CallSound(frames[k])

\* Where the program and the handlers run, and alt_irq_handler does not.
Running == {"run", "isr", "served"}

\* The enable bit agrees with what the topmost activation has saved.
PieSound ==
    IF Top.at \in Running THEN PIE <=> Top.saved = <<>> /\ Base(Top)
    ELSE ~PIE /\ Top.saved = <<>> /\ Top.old = <<>> /\ Top.todo = <<>>

\* The program is at the bottom; what is interrupted had interrupts on.
StackSound ==
    /\ \A k \in 1 .. Len(frames) : frames[k].at = "run" <=> k = 1
    /\ \A k \in 1 .. Len(frames) - 1 :
          frames[k].at \in Running /\ frames[k].saved = <<>> /\ Base(frames[k])

\* A call that takes a handler out, before IENABLE is without its interrupt.
Leaving == Top.todo \in Written("inactive") \/ (Top.todo = Rg3 /\ Top.call.handler = Null)

\* Handler and context differ only inside the call that writes them, and an enabled
\* interrupt has a handler unless it is being taken out.
TableSound ==
    /\ \A i \in Ids :
          (i = Top.call.id /\ Does("context")) \/ context[i] = handler[i]
    /\ \A i \in Ids : i \in alt_irq_active \cup ienable =>
          handler[i] # Null \/ (i = Top.call.id /\ Leaving)

\* HandlersSound without its types.
Serving ==
    /\ \A k \in 1 .. Len(frames) : frames[k].at = "isr" =>
           frames[k].handler # Null /\ frames[k].context = frames[k].handler
    /\ Top.at = "entry" => Pending # {}

\* The types of what is not on the stack.
RegistersTyped ==
    /\ {irq, ienable, alt_irq_active, alt_priority_mask} \subseteq SUBSET Ids
    /\ PIE \in BOOLEAN
    /\ handler \in [Ids -> Handlers \cup {Null}]
    /\ context \in [Ids -> Handlers \cup {Null}]

\* The inductive invariant for handlers and calls.
IrqInv ==
    /\ RegistersTyped /\ FramesTyped /\ CallsSound
    /\ PieSound /\ StackSound /\ TableSound /\ Serving

\* The mask that stands while frame k is on top and not interruptible.
Entered(k) == IF k <= 2 THEN Ids ELSE Above(frames[k-1].id)
Standing == IF Top.old # <<>> THEN Above(Top.id) ELSE Entered(Len(frames))

\* The lists with a switch of an interrupt to come, which disregards the mask.
Switching == Rests \ {<<>>, <<"disable_all">>, Sw1, Rg2}

\* The inductive invariant for priorities: the mask is the one that stands, each
\* interruptible handler keeps the one below it, and switches are made where it is full.
MaskInv ==
    /\ \A k \in 1 .. Len(frames) :
          /\ frames[k].old # <<>> => frames[k].old = <<Entered(k)>>
          /\ frames[k].todo \in Switching => k <= 2 /\ frames[k].old = <<>>
    /\ alt_priority_mask = Standing
    /\ ienable \subseteq alt_priority_mask
    /\ NestsByPriority

-----------------------------------------------------------------------------
(* What remains of a call, step by step                                    *)

LEMMA HeadsAndTails ==
    /\ Head(<<"disable_all">>) = "disable_all" /\ Tail(<<"disable_all">>) = <<>>
    /\ Head(Sw1) = "enable_all" /\ Tail(Sw1) = <<>>
    /\ Head(Sw2) = "ienable" /\ Tail(Sw2) = Sw1
    /\ Head(Rg2) = "enable_all" /\ Tail(Rg2) = Sw1
    /\ Head(Rg3) = "ienable" /\ Tail(Rg3) = Rg2
    /\ \A x \in Lists :
          /\ Head(Sw3(x)) = x /\ Tail(Sw3(x)) = Sw2
          /\ Head(Sw4(x)) = "disable_all" /\ Tail(Sw4(x)) = Sw3(x)
          /\ Head(Rg4(x)) = x /\ Tail(Rg4(x)) = Rg3
          /\ Head(Rg5(x)) = "disable_all" /\ Tail(Rg5(x)) = Rg4(x)
          /\ Head(Rg6(x)) = "context" /\ Tail(Rg6(x)) = Rg5(x)
          /\ Head(Rg7(x)) = "handler" /\ Tail(Rg7(x)) = Rg6(x)
          /\ Head(Rg8(x)) = "disable_all" /\ Tail(Rg8(x)) = Rg7(x)
<1>1. Head(<<"disable_all">>) = "disable_all" /\ Tail(<<"disable_all">>) = <<>>
    OBVIOUS
<1>2. Head(Sw1) = "enable_all" /\ Tail(Sw1) = <<>>
    BY DEF Sw1
<1>3. Head(Sw2) = "ienable" /\ Tail(Sw2) = Sw1
    BY DEF Sw1, Sw2
<1>4. Head(Rg2) = "enable_all" /\ Tail(Rg2) = Sw1
    BY DEF Sw1, Rg2
<1>5. Head(Rg3) = "ienable" /\ Tail(Rg3) = Rg2
    BY DEF Rg2, Rg3
<1>6. ASSUME NEW x \in Lists
      PROVE  /\ Head(Sw3(x)) = x /\ Tail(Sw3(x)) = Sw2
             /\ Head(Sw4(x)) = "disable_all" /\ Tail(Sw4(x)) = Sw3(x)
             /\ Head(Rg4(x)) = x /\ Tail(Rg4(x)) = Rg3
             /\ Head(Rg5(x)) = "disable_all" /\ Tail(Rg5(x)) = Rg4(x)
             /\ Head(Rg6(x)) = "context" /\ Tail(Rg6(x)) = Rg5(x)
             /\ Head(Rg7(x)) = "handler" /\ Tail(Rg7(x)) = Rg6(x)
             /\ Head(Rg8(x)) = "disable_all" /\ Tail(Rg8(x)) = Rg7(x)
  <2>1. Head(Sw3(x)) = x /\ Tail(Sw3(x)) = Sw2
      BY DEF Sw2, Sw3
  <2>2. Head(Sw4(x)) = "disable_all" /\ Tail(Sw4(x)) = Sw3(x)
      BY DEF Sw3, Sw4
  <2>3. Head(Rg4(x)) = x /\ Tail(Rg4(x)) = Rg3
      BY DEF Rg3, Rg4
  <2>4. Head(Rg5(x)) = "disable_all" /\ Tail(Rg5(x)) = Rg4(x)
      BY DEF Rg4, Rg5
  <2>5. Head(Rg6(x)) = "context" /\ Tail(Rg6(x)) = Rg5(x)
      BY DEF Rg5, Rg6
  <2>6. Head(Rg7(x)) = "handler" /\ Tail(Rg7(x)) = Rg6(x)
      BY DEF Rg6, Rg7
  <2>7. Head(Rg8(x)) = "disable_all" /\ Tail(Rg8(x)) = Rg7(x)
      BY DEF Rg7, Rg8
  <2> QED BY <2>1, <2>2, <2>3, <2>4, <2>5, <2>6, <2>7
<1> QED BY <1>1, <1>2, <1>3, <1>4, <1>5, <1>6

\* The step a list starts with tells which lists it may be, and what is left.
LEMMA StepsTaken ==
    ASSUME NEW t \in Rests, t # <<>>
    PROVE  /\ Head(t) = "disable_all" =>
                 \/ t = <<"disable_all">> /\ Tail(t) = <<>>
                 \/ \E x \in Lists : \/ t = Sw4(x) /\ Tail(t) = Sw3(x)
                                     \/ t = Rg8(x) /\ Tail(t) = Rg7(x)
                                     \/ t = Rg5(x) /\ Tail(t) = Rg4(x)
           /\ Head(t) = "enable_all" =>
                 (t = Sw1 /\ Tail(t) = <<>>) \/ (t = Rg2 /\ Tail(t) = Sw1)
           /\ Head(t) = "handler" => \E x \in Lists : t = Rg7(x) /\ Tail(t) = Rg6(x)
           /\ Head(t) = "context" => \E x \in Lists : t = Rg6(x) /\ Tail(t) = Rg5(x)
           /\ \A x \in Lists : Head(t) = x =>
                 (t = Sw3(x) /\ Tail(t) = Sw2) \/ (t = Rg4(x) /\ Tail(t) = Rg3)
           /\ Head(t) = "ienable" =>
                 (t = Sw2 /\ Tail(t) = Sw1) \/ (t = Rg3 /\ Tail(t) = Rg2)
<1>1. CASE t \in {<<"disable_all">>, Sw1, Sw2, Rg2, Rg3}
    BY <1>1, HeadsAndTails DEF Lists
<1>2. CASE \E x \in Lists :
              t \in {Sw3(x), Sw4(x), Rg4(x), Rg5(x), Rg6(x), Rg7(x), Rg8(x)}
  <2>1. PICK x \in Lists : t \in {Sw3(x), Sw4(x), Rg4(x), Rg5(x), Rg6(x), Rg7(x), Rg8(x)}
      BY <1>2
  <2>2. x = "active" \/ x = "inactive"
      BY DEF Lists
  <2>3. CASE t \in {Sw3(x), Rg4(x)}
      BY <2>2, <2>3, HeadsAndTails
  <2>4. CASE t \in {Sw4(x), Rg5(x), Rg8(x)}
      BY <2>4, HeadsAndTails DEF Lists
  <2>5. CASE t = Rg6(x)
      BY <2>5, HeadsAndTails DEF Lists
  <2>6. CASE t = Rg7(x)
      BY <2>6, HeadsAndTails DEF Lists
  <2> QED BY <2>1, <2>3, <2>4, <2>5, <2>6
<1> QED BY <1>1, <1>2 DEF Rests, Rests0, Rests1, Rests2

\* No two of these lists are the same.
LEMMA Differences ==
    ASSUME NEW x \in Lists, NEW y \in Lists
    PROVE  /\ Sw1 \notin {<<>>, <<"disable_all">>, Sw2, Rg2, Rg3} /\ Sw2 \notin {<<>>, <<"disable_all">>, Rg2, Rg3}
           /\ Rg2 \notin {<<>>, <<"disable_all">>, Rg3} /\ Rg3 \notin {<<>>, <<"disable_all">>}
           /\ Sw3(x) \notin {<<>>, <<"disable_all">>, Sw1, Sw2, Rg2, Rg3, Sw4(y), Rg4(y), Rg5(y), Rg6(y), Rg7(y), Rg8(y)}
           /\ Sw4(x) \notin {<<>>, <<"disable_all">>, Sw1, Sw2, Rg2, Rg3, Rg4(y), Rg5(y), Rg6(y), Rg7(y), Rg8(y)}
           /\ Rg4(x) \notin {<<>>, <<"disable_all">>, Sw1, Sw2, Rg2, Rg3, Rg5(y), Rg6(y), Rg7(y), Rg8(y)}
           /\ Rg5(x) \notin {<<>>, <<"disable_all">>, Sw1, Sw2, Rg2, Rg3, Rg6(y), Rg7(y), Rg8(y)}
           /\ Rg6(x) \notin {<<>>, <<"disable_all">>, Sw1, Sw2, Rg2, Rg3, Rg7(y), Rg8(y)}
           /\ Rg7(x) \notin {<<>>, <<"disable_all">>, Sw1, Sw2, Rg2, Rg3, Rg8(y)}
           /\ Rg8(x) \notin {<<>>, <<"disable_all">>, Sw1, Sw2, Rg2, Rg3}
           /\ x # y => Sw3(x) # Sw3(y) /\ Sw4(x) # Sw4(y) /\ Rg4(x) # Rg4(y) /\ Rg5(x) # Rg5(y) /\ Rg6(x) # Rg6(y) /\ Rg7(x) # Rg7(y) /\ Rg8(x) # Rg8(y)
<1> USE DEF Lists
<1>0. /\ Sw1 \notin {<<>>, <<"disable_all">>, Sw2, Rg2, Rg3} /\ Sw2 \notin {<<>>, <<"disable_all">>, Rg2, Rg3}
      /\ Rg2 \notin {<<>>, <<"disable_all">>, Rg3} /\ Rg3 \notin {<<>>, <<"disable_all">>}
    BY DEF Sw1, Sw2, Rg2, Rg3
<1>1. Sw3(x) \notin {<<>>, <<"disable_all">>, Sw1, Sw2, Rg2, Rg3, Sw4(y), Rg4(y), Rg5(y), Rg6(y), Rg7(y), Rg8(y)}
    BY DEF Sw1, Sw2, Rg2, Rg3, Sw3, Sw4, Rg4, Rg5, Rg6, Rg7, Rg8
<1>2. Sw4(x) \notin {<<>>, <<"disable_all">>, Sw1, Sw2, Rg2, Rg3, Rg4(y), Rg5(y), Rg6(y), Rg7(y), Rg8(y)}
    BY DEF Sw1, Sw2, Rg2, Rg3, Sw4, Rg4, Rg5, Rg6, Rg7, Rg8
<1>3. Rg4(x) \notin {<<>>, <<"disable_all">>, Sw1, Sw2, Rg2, Rg3, Rg5(y), Rg6(y), Rg7(y), Rg8(y)}
    BY DEF Sw1, Sw2, Rg2, Rg3, Rg4, Rg5, Rg6, Rg7, Rg8
<1>4. Rg5(x) \notin {<<>>, <<"disable_all">>, Sw1, Sw2, Rg2, Rg3, Rg6(y), Rg7(y), Rg8(y)}
    BY DEF Sw1, Sw2, Rg2, Rg3, Rg5, Rg6, Rg7, Rg8
<1>5. Rg6(x) \notin {<<>>, <<"disable_all">>, Sw1, Sw2, Rg2, Rg3, Rg7(y), Rg8(y)}
    BY DEF Sw1, Sw2, Rg2, Rg3, Rg6, Rg7, Rg8
<1>6. Rg7(x) \notin {<<>>, <<"disable_all">>, Sw1, Sw2, Rg2, Rg3, Rg8(y)}
    BY DEF Sw1, Sw2, Rg2, Rg3, Rg7, Rg8
<1>7. Rg8(x) \notin {<<>>, <<"disable_all">>, Sw1, Sw2, Rg2, Rg3}
    BY DEF Sw1, Sw2, Rg2, Rg3, Rg8
<1>8. x # y => Sw3(x) # Sw3(y)
    BY DEF Sw3
<1>9. x # y => Sw4(x) # Sw4(y)
    BY DEF Sw4
<1>10. x # y => Rg4(x) # Rg4(y)
    BY DEF Rg4
<1>11. x # y => Rg5(x) # Rg5(y)
    BY DEF Rg5
<1>12. x # y => Rg6(x) # Rg6(y)
    BY DEF Rg6
<1>13. x # y => Rg7(x) # Rg7(y)
    BY DEF Rg7
<1>14. x # y => Rg8(x) # Rg8(y)
    BY DEF Rg8
<1> QED BY <1>0, <1>1, <1>2, <1>3, <1>4, <1>5, <1>6, <1>7, <1>8, <1>9, <1>10, <1>11, <1>12, <1>13, <1>14

\* Which lists are which: what CallSound says of each.
Plain(t) ==
    /\ t \notin {Sw3("active"), Sw4("active")} /\ t # Rg3
    /\ \A x \in Lists : t \notin Registering(x)

LEMMA PlainLists ==
    /\ \A t \in {<<>>, <<"disable_all">>} :
          t \in Rests /\ t \notin Rests1 /\ t \notin Rests2 /\ Plain(t)
    /\ Sw1 \in Rests /\ Sw1 \in Rests1 /\ Sw1 \notin Rests2 /\ Plain(Sw1)
    /\ Sw2 \in Rests /\ Sw2 \in Rests1 /\ Sw2 \notin Rests2 /\ Plain(Sw2)
    /\ Rg2 \in Rests /\ Rg2 \in Rests2 /\ Plain(Rg2)
    /\ Rg3 \in Rests /\ Rg3 \in Rests2 /\ \A x \in Lists : Rg3 \notin Registering(x)
    /\ Rg3 \notin {Sw3("active"), Sw4("active")}
<1> USE Differences DEF Plain, Rests, Rests0, Rests1, Rests2, Registering, Written
<1>0. "active" \in Lists
    BY DEF Lists
<1>1. \A t \in {<<>>, <<"disable_all">>} :
          t \in Rests /\ t \notin Rests1 /\ t \notin Rests2 /\ Plain(t)
    BY <1>0
<1>2. Sw1 \in Rests /\ Sw1 \in Rests1 /\ Sw1 \notin Rests2 /\ Plain(Sw1)
    BY <1>0
<1>3. Sw2 \in Rests /\ Sw2 \in Rests1 /\ Sw2 \notin Rests2 /\ Plain(Sw2)
    BY <1>0
<1>4. Rg2 \in Rests /\ Rg2 \in Rests2 /\ Plain(Rg2)
    BY <1>0
<1>5. Rg3 \in Rests /\ Rg3 \in Rests2 /\ \A x \in Lists : Rg3 \notin Registering(x)
    BY <1>0
<1>6. Rg3 \notin {Sw3("active"), Sw4("active")}
    BY <1>0
<1> QED BY ONLY <1>1, <1>2, <1>3, <1>4, <1>5, <1>6

LEMMA SwitchLists ==
    ASSUME NEW x \in Lists
    PROVE  /\ \A t \in {Sw3(x), Sw4(x)} :
                 /\ t \in Rests /\ t \notin Rests2 /\ t # Rg3
                 /\ \A y \in Lists : t \notin Registering(y)
                 /\ t \in {Sw3("active"), Sw4("active")} <=> x = "active"
           /\ Sw4(x) \notin Rests1
<1> USE Differences DEF Rests, Rests0, Rests1, Rests2, Registering, Written
<1>0. "active" \in Lists
    BY DEF Lists
<1>1. Sw3(x) \in Rests /\ Sw3(x) \notin Rests2 /\ Sw4(x) \in Rests /\ Sw4(x) \notin Rests2
    OBVIOUS
<1>2. Sw4(x) \notin Rests1
    OBVIOUS
<1>3. \A y \in Lists : Sw3(x) \notin Registering(y) /\ Sw4(x) \notin Registering(y)
    OBVIOUS
<1>4. Sw3(x) \in {Sw3("active"), Sw4("active")} <=> x = "active"
    BY <1>0
<1>5. Sw4(x) \in {Sw3("active"), Sw4("active")} <=> x = "active"
    BY <1>0
<1> QED BY <1>1, <1>2, <1>3, <1>4, <1>5

LEMMA RegisterLists ==
    ASSUME NEW x \in Lists
    PROVE  /\ \A t \in {Rg4(x), Rg5(x), Rg6(x), Rg7(x), Rg8(x)} :
                 /\ t \in Rests /\ t \notin {Sw3("active"), Sw4("active")} /\ t # Rg3
                 /\ \A y \in Lists : t \in Registering(y) <=> x = y
           /\ \A t \in {Rg4(x), Rg5(x), Rg6(x)} :
                 \A y \in Lists : t \in Written(y) <=> x = y
           /\ \A t \in {Rg7(x), Rg8(x)} : \A y \in Lists : t \notin Written(y)
           /\ \A t \in {Rg5(x), Rg6(x), Rg7(x), Rg8(x)} : t \notin Rests2
           /\ Rg8(x) \notin Rests1
<1>0. "active" \in Lists
    BY DEF Lists
<1>1. ASSUME NEW t \in {Rg4(x), Rg5(x), Rg6(x), Rg7(x), Rg8(x)}
      PROVE  /\ t \in Rests /\ t \notin {Sw3("active"), Sw4("active")} /\ t # Rg3
             /\ \A y \in Lists : t \in Registering(y) <=> x = y
  <2>1. t \in Rests
      BY <1>1 DEF Rests, Rests0, Rests1, Rests2
  <2>2. t \notin {Sw3("active"), Sw4("active")} /\ t # Rg3
      BY <1>0, <1>1, Differences
  <2>3. ASSUME NEW y \in Lists PROVE t \in Registering(y) <=> x = y
      BY <1>1, Differences DEF Registering, Written
  <2> QED BY <2>1, <2>2, <2>3
<1>2. ASSUME NEW t \in {Rg4(x), Rg5(x), Rg6(x)}, NEW y \in Lists
      PROVE  t \in Written(y) <=> x = y
    BY <1>2, Differences DEF Written
<1>3. ASSUME NEW t \in {Rg7(x), Rg8(x)}, NEW y \in Lists
      PROVE  t \notin Written(y)
    BY <1>3, Differences DEF Written
<1>4. ASSUME NEW t \in {Rg5(x), Rg6(x), Rg7(x), Rg8(x)}
      PROVE  t \notin Rests2
    BY <1>4, Differences DEF Rests2
<1>5. Rg8(x) \notin Rests1
    BY Differences DEF Rests1
<1> QED BY <1>1, <1>2, <1>3, <1>4, <1>5

-----------------------------------------------------------------------------
(* The stack                                                               *)

LEMMA StackTop ==
    ASSUME FramesTyped
    PROVE  /\ Len(frames) \in Nat /\ Len(frames) >= 1
           /\ Top = frames[Len(frames)] /\ Top \in Activations
           /\ \A k \in 1 .. Len(frames) : frames[k] \in Activations
<1>1. Len(frames) \in Nat /\ Len(frames) >= 1
    BY DEF FramesTyped
<1>2. \A k \in 1 .. Len(frames) : frames[k] \in Activations
    BY ElementOfSeq DEF FramesTyped
<1> QED BY <1>1, <1>2 DEF Top, Last

LEMMA TopSet ==
    ASSUME FramesTyped, NEW f \in Activations, SetTop(f)
    PROVE  /\ FramesTyped' /\ Len(frames') = Len(frames) /\ Top' = f
           /\ frames'[Len(frames)] = f
           /\ \A k \in 1 .. Len(frames) - 1 : frames'[k] = frames[k]
<1>1. Len(frames) \in Nat /\ Len(frames) >= 1 /\ frames \in Seq(Activations)
    BY DEF FramesTyped
<1>2. /\ frames' \in Seq(Activations) /\ Len(frames') = Len(frames)
      /\ frames'[Len(frames)] = f
      /\ \A k \in 1 .. Len(frames) - 1 : frames'[k] = frames[k]
    BY <1>1, ExceptSeq DEF SetTop
<1>3. Top' = f
    BY <1>2 DEF Top, Last
<1> QED BY <1>1, <1>2, <1>3 DEF FramesTyped

LEMMA Lists01 == \A x \in Lists : Written(x) \subseteq Rests1 \cup Rests2 /\ Rg3 \in Rests2
                   /\ Sw3(x) \in Rests1 /\ Rg7(x) \in Rests1 /\ Written(x) \subseteq Registering(x)
BY DEF Rests1, Rests2, Written, Registering

\* The activations below the top are between calls, or before the first step of one.
LEMMA LowerCallsSound ==
    ASSUME IrqInv, NEW f \in Activations, CallSound(f), f.saved = <<>>,
           \A i \in Ids : handler[i] # Null => handler'[i] # Null
    PROVE  CallSound(f)'
<1>1. f.call.id \in Ids
    BY DEF Activations
<1>2. Len(f.saved) = 0
    OBVIOUS
<1>3. f.todo \notin Rests1 /\ f.todo \notin Rests2
    BY <1>2 DEF CallSound, StepsSound
<1>4. \A x \in Lists : f.todo \notin Written(x)
    BY <1>3, Lists01
<1>5. f.todo # Rg3
    BY <1>3 DEF Rests2
<1>6. f.todo \in {Sw4("active"), Sw3("active")} => handler'[f.call.id] # Null
    BY <1>1 DEF CallSound, StepsSound
<1> QED BY <1>2, <1>3, <1>4, <1>5, <1>6 DEF CallSound, StepsSound, SavedSound, Base

LEMMA TopChanges ==
    ASSUME IrqInv, NEW f \in Activations, SetTop(f), CallSound(f)',
           f.at = "run" <=> Top.at = "run",
           f.at = "isr" => f.handler # Null /\ f.context = f.handler,
           \A i \in Ids : handler[i] # Null => handler'[i] # Null \/ Len(frames) = 1
    PROVE  /\ FramesTyped' /\ CallsSound' /\ StackSound' /\ Top' = f
           /\ \A k \in 1 .. Len(frames') : frames'[k].at = "isr" =>
                 frames'[k].handler # Null /\ frames'[k].context = frames'[k].handler
<1> DEFINE n == Len(frames)
<1>1. /\ FramesTyped /\ n \in Nat /\ n >= 1 /\ Top = frames[n]
      /\ \A k \in 1 .. n : frames[k] \in Activations
    BY StackTop DEF IrqInv
<1>2. /\ FramesTyped' /\ Len(frames') = n /\ Top' = f /\ frames'[n] = f
      /\ \A k \in 1 .. n - 1 : frames'[k] = frames[k]
    BY <1>1, TopSet
<1>3. \A k \in 1 .. n : k < n \/ k = n
    BY <1>1
<1> HIDE DEF n
<1>4. ASSUME NEW k \in 1 .. n
      PROVE  frames'[k].at = "run" <=> k = 1
  <2>1. frames[k].at = "run" <=> k = 1
      BY <1>1, <1>2 DEF IrqInv, StackSound, n
  <2>2. CASE k < n
      BY <1>1, <1>2, <2>1, <2>2
  <2>3. CASE k = n
      BY <1>1, <1>2, <2>1, <2>3
  <2> QED BY <1>3, <2>2, <2>3
<1>5. ASSUME NEW k \in 1 .. n - 1
      PROVE  frames'[k].at \in Running /\ frames'[k].saved = <<>> /\ Base(frames[k])'
  <2>1. frames[k].at \in Running /\ frames[k].saved = <<>> /\ Base(frames[k])
      BY DEF IrqInv, StackSound, n
  <2> QED BY <1>2, <2>1 DEF Base
<1>6. ASSUME NEW k \in 1 .. n
      PROVE  CallSound(frames[k])'
  <2>1. CASE k = n
      BY <1>2, <2>1 DEF CallSound, StepsSound, SavedSound, Base
  <2>2. CASE k < n
    <3>1. frames'[k] = frames[k] /\ k \in 1 .. n - 1 /\ n # 1
        BY <1>1, <1>2, <2>2
    <3>2. CallSound(frames[k]) /\ frames[k] \in Activations /\ frames[k].saved = <<>>
        BY <1>1, <3>1 DEF IrqInv, CallsSound, StackSound, n
    <3>3. PICK g \in Activations : g = frames[k]
        BY <3>2
    <3>4. CallSound(g)'
        BY <3>1, <3>2, <3>3, LowerCallsSound DEF n
    <3> QED BY <3>1, <3>3, <3>4 DEF CallSound, StepsSound, SavedSound, Base
  <2> QED BY <1>3, <2>1, <2>2
<1>7. ASSUME NEW k \in 1 .. n, frames'[k].at = "isr"
      PROVE  frames'[k].handler # Null /\ frames'[k].context = frames'[k].handler
  <2>1. frames[k].at = "isr" => frames[k].handler # Null /\ frames[k].context = frames[k].handler
      BY DEF IrqInv, Serving, n
  <2>2. CASE k < n
      BY <1>1, <1>2, <1>7, <2>1, <2>2
  <2>3. CASE k = n
      BY <1>2, <1>7, <2>3
  <2> QED BY <1>3, <2>2, <2>3
<1>8. CallsSound' /\ StackSound'
    BY <1>2, <1>4, <1>5, <1>6 DEF CallsSound, StackSound
<1> QED BY <1>2, <1>7, <1>8

LEMMA TopFacts ==
    ASSUME IrqInv
    PROVE  /\ Top \in Activations /\ CallSound(Top) /\ Len(frames) \in Nat /\ Len(frames) >= 1
           /\ Top.saved \in Seq(BOOLEAN) /\ Len(Top.saved) \in Nat
           /\ Top.todo \in Rests /\ Top.call.id \in Ids
           /\ Top.call.handler \in Handlers \cup {Null}
           /\ Top.at = "run" <=> Len(frames) = 1
           /\ Top.at = "isr" => Top.handler # Null /\ Top.context = Top.handler
           /\ Top.todo # <<>> \/ Top.saved # <<>> => Top.at \in Running
           /\ Top.at \in Running => (PIE <=> Top.saved = <<>> /\ Base(Top))
           /\ PIE \in BOOLEAN
<1>1. /\ FramesTyped /\ Len(frames) \in Nat /\ Len(frames) >= 1
      /\ Top = frames[Len(frames)] /\ Top \in Activations
    BY StackTop DEF IrqInv
<1>2. CallSound(Top) /\ (Top.at = "run" <=> Len(frames) = 1)
  <2>1. Len(frames) \in 1 .. Len(frames)
      BY <1>1
  <2>2. CallSound(frames[Len(frames)])
      BY <2>1 DEF IrqInv, CallsSound
  <2>3. frames[Len(frames)].at = "run" <=> Len(frames) = 1
      BY <2>1 DEF IrqInv, StackSound
  <2> QED BY <1>1, <2>2, <2>3
<1>3. Top.at = "isr" => Top.handler # Null /\ Top.context = Top.handler
    BY <1>1 DEF IrqInv, Serving
<1>4. /\ Top.saved \in Seq(BOOLEAN) /\ Top.todo \in Rests /\ Top.call.id \in Ids
      /\ Top.call.handler \in Handlers \cup {Null}
    BY <1>1 DEF Activations
<1>5. Len(Top.saved) \in Nat
    BY <1>4
<1>6. /\ Top.todo # <<>> \/ Top.saved # <<>> => Top.at \in Running
      /\ Top.at \in Running => (PIE <=> Top.saved = <<>> /\ Base(Top))
    BY DEF IrqInv, PieSound
<1> QED BY <1>1, <1>2, <1>3, <1>4, <1>5, <1>6 DEF IrqInv, RegistersTyped

\* An action that changes nothing but the top of the stack and the registers keeps
\* the invariant if the new top is sound and the registers fit it.
LEMMA InvariantKept ==
    ASSUME IrqInv, NEW f \in Activations, SetTop(f), RegistersTyped',
           (f.at = "run" <=> Top.at = "run"), (f.at = "isr" => f.handler # Null /\ f.context = f.handler),
           StepsSound(f)', SavedSound(f),
           IF f.at \in Running THEN PIE' <=> f.saved = <<>> /\ Base(f)
           ELSE ~PIE' /\ f.saved = <<>> /\ f.old = <<>> /\ f.todo = <<>>,
           \A i \in Ids : handler[i] # Null => handler'[i] # Null \/ Len(frames) = 1,
           TableSound', f.at = "entry" => Pending' # {}
    PROVE  IrqInv'
<1>1. CallSound(f)'
    BY DEF CallSound, SavedSound, Base
<1>2. /\ FramesTyped' /\ CallsSound' /\ StackSound' /\ Top' = f
      /\ \A k \in 1 .. Len(frames') : frames'[k].at = "isr" =>
            frames'[k].handler # Null /\ frames'[k].context = frames'[k].handler
    BY <1>1, TopChanges
<1>3. PieSound'
  <2>1. Base(Top)' <=> Base(f)
      BY <1>2 DEF Base
  <2> QED BY <1>2, <2>1 DEF PieSound
<1>4. Serving'
    BY <1>2 DEF Serving
<1> QED BY <1>2, <1>3, <1>4 DEF IrqInv

-----------------------------------------------------------------------------
(* The steps of a call                                                     *)

LEMMA DisableAllKeeps == IrqInv /\ DisableAll => IrqInv'
<1> SUFFICES ASSUME IrqInv, DisableAll PROVE IrqInv'
    OBVIOUS
<1> DEFINE t == Top.todo
           u == Tail(t)
           n == Len(Top.saved)
<1>1. /\ Top \in Activations /\ t # <<>> /\ t \in Rests /\ Head(t) = "disable_all" /\ CallSound(Top)
      /\ Top.saved \in Seq(BOOLEAN) /\ n \in Nat /\ Top.at \in Running /\ PIE \in BOOLEAN
      /\ (PIE <=> n = 0 /\ Base(Top))
    BY TopFacts DEF DisableAll, Does
<1>2. \/ t = <<"disable_all">> /\ u = <<>>
      \/ \E x \in Lists : \/ t = Sw4(x) /\ u = Sw3(x)
                          \/ t = Rg8(x) /\ u = Rg7(x)
                          \/ t = Rg5(x) /\ u = Rg4(x)
    BY <1>1, StepsTaken
<1>3. u \in Rests
  <2>1. CASE u = <<>>
      BY <2>1 DEF Rests, Rests0
  <2>2. ASSUME NEW x \in Lists, u = Sw3(x) \/ u = Rg7(x) \/ u = Rg4(x) PROVE u \in Rests
      BY <2>2 DEF Rests, Rests1, Rests2
  <2> QED BY <1>2, <2>1, <2>2
<1>4. PICK f : f = [Done EXCEPT !.saved = Append(@, PIE)]
    OBVIOUS
<1>5. /\ f.at = Top.at /\ f.handler = Top.handler /\ f.context = Top.context /\ f.old = Top.old
      /\ f.call = Top.call /\ f.todo = u /\ f.saved = Append(Top.saved, PIE)
      /\ f \in Activations
  <2>1. f = [Top EXCEPT !.todo = u, !.saved = Append(Top.saved, PIE)]
      BY <1>1, <1>4 DEF Done, Activations
  <2>2. Append(Top.saved, PIE) \in Seq(BOOLEAN)
      BY <1>1
  <2> HIDE DEF u, t
  <2> QED BY <1>1, <1>3, <2>1, <2>2 DEF Activations
<1>6. Len(f.saved) = n + 1 /\ f.saved[n + 1] = PIE /\ (\A i \in 1 .. n : f.saved[i] = Top.saved[i])
      /\ f.saved # <<>>
    BY <1>1, <1>5
<1>7. SavedSound(f)
  <2>0. f.at = "run" => f.old = <<>>
      BY <1>1, <1>5 DEF CallSound, SavedSound
  <2> SUFFICES ASSUME NEW i \in 1 .. n + 1 PROVE f.saved[i] <=> i = 1 /\ Base(f)
      BY <1>6, <2>0 DEF SavedSound
  <2>1. CASE i \in 1 .. n
      BY <1>1, <1>5, <1>6, <2>1 DEF CallSound, SavedSound, Base
  <2>2. CASE i = n + 1
      BY <1>1, <1>5, <1>6, <2>2 DEF Base
  <2> QED BY <1>1, <2>1, <2>2
<1>8. handler' = handler /\ context' = context /\ alt_irq_active' = alt_irq_active /\ ienable' = ienable
      /\ alt_priority_mask' = alt_priority_mask /\ irq' = irq /\ PIE' = FALSE
    BY DEF DisableAll, masks, table
<1>9. StepsSound(f)'
  <2>1. StepsSound(Top) /\ Len(f.saved) >= 1
      BY <1>1, <1>6 DEF CallSound
  <2>2. CASE t = <<"disable_all">> /\ u = <<>>
    <3>1. u \notin Rests1 /\ u \notin Rests2 /\ Plain(u)
        BY <2>2, PlainLists
    <3> QED BY <1>5, <2>1, <3>1, Lists01 DEF StepsSound, Plain, Lists
  <2>3. ASSUME NEW x \in Lists, t = Sw4(x), u = Sw3(x) PROVE StepsSound(f)'
    <3>1. /\ u \notin Rests2 /\ u # Rg3 /\ \A y \in Lists : u \notin Registering(y)
          /\ u \in {Sw3("active"), Sw4("active")} => t \in {Sw3("active"), Sw4("active")}
        BY <2>3, SwitchLists
    <3> QED BY <1>5, <1>8, <2>1, <3>1, Lists01 DEF StepsSound, Lists
  <2>4. ASSUME NEW x \in Lists, t = Rg8(x), u = Rg7(x) PROVE StepsSound(f)'
      BY <1>5, <1>8, <2>1, <2>4, RegisterLists DEF StepsSound, Lists
  <2>5. ASSUME NEW x \in Lists, t = Rg5(x), u = Rg4(x) PROVE StepsSound(f)'
    <3>1. n >= 1
        BY <1>1, <2>1, <2>5 DEF StepsSound, Rests1
    <3>2. Len(f.saved) >= 2
        BY <1>1, <1>6, <3>1
    <3> QED BY <1>5, <1>8, <2>1, <2>5, <3>2, RegisterLists DEF StepsSound, Lists
  <2> QED BY <1>2, <2>2, <2>3, <2>4, <2>5
<1>10. TableSound'
  <2>1. Top' = f /\ SetTop(f)
      BY <1>4, <1>5, TopSet DEF DisableAll, IrqInv
  <2>2. ~Does("context") /\ ~Does("context")'
    <3>1. Head(u) # "context" \/ u = <<>>
        BY <1>2, HeadsAndTails DEF Lists
    <3> QED BY <1>1, <1>5, <2>1, <3>1 DEF Does
  <2>3. Leaving => Leaving' /\ f.call.id = Top.call.id
    <3>1. CASE t \in Written("inactive")
      <4>1. t = Rg5("inactive") /\ u = Rg4("inactive")
          BY <1>2, <3>1, PlainLists, SwitchLists, RegisterLists, Lists01 DEF Plain, Lists
      <4> QED BY <1>5, <2>1, <4>1 DEF Leaving, Written
    <3>2. CASE t = Rg3
        BY <1>1, <3>2, HeadsAndTails
    <3> QED BY <3>1, <3>2, <1>5 DEF Leaving
  <2>4. TableSound
      BY DEF IrqInv
  <2> HIDE DEF u, t
  <2> QED BY <1>5, <1>8, <2>1, <2>2, <2>3, <2>4 DEF TableSound
<1>11. RegistersTyped'
    BY <1>8 DEF IrqInv, RegistersTyped
<1>12. f.at \notin {"entry", "isr"} \/ f.at = "isr"
    BY <1>1, <1>5 DEF Running
<1>13. /\ f.at = "run" <=> Top.at = "run"
       /\ f.at = "isr" => f.handler # Null /\ f.context = f.handler
    BY <1>5, TopFacts
<1>14. SetTop(f)
    BY <1>4 DEF DisableAll
<1> HIDE DEF t, u, n
<1> QED BY <1>1, <1>5, <1>6, <1>7, <1>8, <1>9, <1>10, <1>11, <1>12, <1>13, <1>14, InvariantKept

\* The top once it has taken a step that saves and restores nothing.
LEMMA DoneSound ==
    ASSUME IrqInv, Top.todo # <<>>
    PROVE  /\ Tail(Top.todo) \in Rests
           /\ \E f \in Activations :
                 /\ f = Done /\ f.todo = Tail(Top.todo)
                 /\ f.at = Top.at /\ f.id = Top.id /\ f.handler = Top.handler /\ f.context = Top.context
                 /\ f.old = Top.old /\ f.call = Top.call /\ f.saved = Top.saved
<1> DEFINE t == Top.todo
           u == Tail(t)
<1>1. Top \in Activations /\ t \in Rests
    BY TopFacts
<1>2. u \in Rests
  <2>1. CASE t \in {<<"disable_all">>, Sw1}
      BY <2>1, HeadsAndTails DEF Rests, Rests0
  <2>2. CASE t \in {Sw2, Rg2, Rg3}
      BY <2>2, HeadsAndTails DEF Rests, Rests1, Rests2
  <2>3. CASE \E x \in Lists :
                t \in {Sw3(x), Sw4(x), Rg4(x), Rg5(x), Rg6(x), Rg7(x), Rg8(x)}
    <3>1. PICK x \in Lists :
                t \in {Sw3(x), Sw4(x), Rg4(x), Rg5(x), Rg6(x), Rg7(x), Rg8(x)}
        BY <2>3
    <3>2. /\ t = Sw3(x) => u = Sw2
          /\ t = Rg4(x) => u = Rg3
          /\ t = Sw4(x) => u = Sw3(x)
          /\ t = Rg5(x) => u = Rg4(x)
          /\ t = Rg6(x) => u = Rg5(x)
          /\ t = Rg7(x) => u = Rg6(x)
          /\ t = Rg8(x) => u = Rg7(x)
      <4>1. Tail(Sw3(x)) = Sw2 /\ Tail(Rg4(x)) = Rg3 /\ Tail(Sw4(x)) = Sw3(x)
          BY HeadsAndTails
      <4>2. /\ Tail(Rg5(x)) = Rg4(x) /\ Tail(Rg6(x)) = Rg5(x)
            /\ Tail(Rg7(x)) = Rg6(x) /\ Tail(Rg8(x)) = Rg7(x)
          BY HeadsAndTails
      <4> QED BY <4>1, <4>2
    <3>3. Sw2 \in Rests /\ Rg3 \in Rests
        BY PlainLists
    <3>4. /\ Sw3(x) \in Rests /\ Rg4(x) \in Rests
          /\ Rg5(x) \in Rests /\ Rg6(x) \in Rests /\ Rg7(x) \in Rests
        BY SwitchLists, RegisterLists
    <3> HIDE DEF u, t
    <3> QED BY <3>1, <3>2, <3>3, <3>4
  <2> QED BY <1>1, <2>1, <2>2, <2>3 DEF Rests, Rests0, Rests1, Rests2
<1>3. Done = [Top EXCEPT !.todo = u]
    BY DEF Done
<1> HIDE DEF u, t
<1>4. Done \in Activations
    BY <1>1, <1>2, <1>3 DEF Activations
<1>5. /\ Done.todo = u /\ Done.at = Top.at /\ Done.id = Top.id /\ Done.handler = Top.handler
      /\ Done.context = Top.context /\ Done.old = Top.old /\ Done.call = Top.call
      /\ Done.saved = Top.saved
    BY <1>1, <1>3 DEF Activations
<1> QED BY <1>2, <1>4, <1>5 DEF u, t

\* Such a step keeps the invariant if it leaves a sound table and sound steps.
LEMMA DoneKeeps ==
    ASSUME IrqInv, Top.todo # <<>>, SetTop(Done), RegistersTyped', PIE' = PIE,
           NEW f \in Activations, f = Done, StepsSound(f)',
           \A i \in Ids : handler[i] # Null => handler'[i] # Null \/ Len(frames) = 1,
           TableSound'
    PROVE  IrqInv'
<1>1. /\ f.at = Top.at /\ f.handler = Top.handler /\ f.context = Top.context
      /\ f.old = Top.old /\ f.call = Top.call /\ f.saved = Top.saved
    BY DoneSound
<1>2. /\ Top.at \in Running /\ CallSound(Top)
      /\ (PIE <=> Top.saved = <<>> /\ Base(Top)) /\ PIE \in BOOLEAN
    BY TopFacts
<1>3. SavedSound(f)
    BY <1>1, <1>2 DEF CallSound, SavedSound, Base
<1>4. /\ f.at \in Running
      /\ PIE' <=> f.saved = <<>> /\ Base(f)
    BY <1>1, <1>2 DEF Base
<1>5. /\ (f.at = "run" <=> Top.at = "run")
      /\ (f.at = "isr" => f.handler # Null /\ f.context = f.handler)
      /\ f.at # "entry"
    BY <1>1, <1>2, TopFacts DEF Running
<1> QED BY <1>3, <1>4, <1>5, InvariantKept

LEMMA EnableAllKeeps == IrqInv /\ EnableAll => IrqInv'
<1> SUFFICES ASSUME IrqInv, EnableAll PROVE IrqInv'
    OBVIOUS
<1> DEFINE t == Top.todo
           u == Tail(t)
           n == Len(Top.saved)
<1>1. /\ Top \in Activations /\ t # <<>> /\ t \in Rests /\ Head(t) = "enable_all" /\ CallSound(Top)
      /\ Top.saved \in Seq(BOOLEAN) /\ n \in Nat /\ Top.at \in Running
    BY TopFacts DEF EnableAll, Does
<1>2. (t = Sw1 /\ u = <<>>) \/ (t = Rg2 /\ u = Sw1)
    BY <1>1, StepsTaken
<1>3. n >= 1 /\ (t = Rg2 => n >= 2)
    BY <1>1, <1>2, PlainLists DEF CallSound, StepsSound
<1>4. /\ Front(Top.saved) \in Seq(BOOLEAN) /\ Len(Front(Top.saved)) = n - 1
      /\ \A i \in 1 .. n - 1 : Front(Top.saved)[i] = Top.saved[i]
    BY <1>1, <1>3, SubSeqProperties DEF Front
<1>5. PICK f : f = [Done EXCEPT !.saved = Front(@)]
    OBVIOUS
<1>6. /\ f.at = Top.at /\ f.handler = Top.handler /\ f.context = Top.context /\ f.old = Top.old
      /\ f.call = Top.call /\ f.todo = u /\ f.saved = Front(Top.saved)
      /\ f \in Activations
  <2>1. PICK g \in Activations :
           /\ g = Done /\ g.todo = u
           /\ g.at = Top.at /\ g.handler = Top.handler /\ g.context = Top.context
           /\ g.old = Top.old /\ g.call = Top.call /\ g.saved = Top.saved
      BY <1>1, DoneSound
  <2>2. f = [g EXCEPT !.saved = Front(Top.saved)]
      BY <1>5, <2>1 DEF Activations
  <2> HIDE DEF u, t
  <2> QED BY <1>4, <2>1, <2>2 DEF Activations
<1>7. /\ handler' = handler /\ context' = context /\ alt_irq_active' = alt_irq_active
      /\ ienable' = ienable /\ alt_priority_mask' = alt_priority_mask /\ irq' = irq
      /\ PIE' = Top.saved[n]
    BY DEF EnableAll, masks, table, Restored, Last
<1>8. (PIE' <=> n = 1 /\ Base(Top)) /\ PIE' \in BOOLEAN
  <2>1. n \in 1 .. n
      BY <1>1, <1>3
  <2>2. Top.saved[n] <=> n = 1 /\ Base(Top)
      BY <1>1, <2>1 DEF CallSound, SavedSound
  <2>3. Top.saved[n] \in BOOLEAN
      BY <1>1, <2>1, ElementOfSeq
  <2> QED BY <1>7, <2>2, <2>3
<1>9. f.saved = <<>> <=> n = 1
  <2>1. f.saved \in Seq(BOOLEAN) /\ Len(f.saved) = n - 1
      BY <1>4, <1>6
  <2> HIDE DEF n
  <2> QED BY <1>1, <2>1
<1>10. SavedSound(f)
  <2>1. ASSUME NEW i \in 1 .. n - 1 PROVE f.saved[i] <=> i = 1 /\ Base(f)
    <3>1. i \in 1 .. n /\ f.saved[i] = Top.saved[i]
        BY <1>1, <1>4, <1>6
    <3>2. Top.saved[i] <=> i = 1 /\ Base(Top)
        BY <1>1, <3>1 DEF CallSound, SavedSound
    <3> QED BY <1>6, <3>1, <3>2 DEF Base
  <2>2. f.at = "run" => f.old = <<>>
      BY <1>1, <1>6 DEF CallSound, SavedSound
  <2> QED BY <1>4, <1>6, <2>1, <2>2 DEF SavedSound
<1>11. StepsSound(f)'
  <2>1. Plain(u) /\ u \notin Rests2 /\ (u \in Rests1 => n >= 2)
      BY <1>2, <1>3, PlainLists
  <2> QED BY <1>1, <1>3, <1>4, <1>6, <2>1, Lists01 DEF StepsSound, Plain, Lists
<1>12. SetTop(f)
    BY <1>5 DEF EnableAll
<1>13. Top' = f
    BY <1>6, <1>12, TopSet DEF IrqInv
<1>14. TableSound'
  <2>1. ~Does("context") /\ ~Does("context")'
    <3>1. Head(u) # "context" \/ u = <<>>
        BY <1>2, HeadsAndTails
    <3> QED BY <1>1, <1>6, <1>13, <3>1 DEF Does
  <2>2. ~Leaving
    <3>1. t \notin Written("inactive") /\ t # Rg3
        BY <1>2, PlainLists, Lists01 DEF Plain, Lists
    <3> QED BY <3>1 DEF Leaving
  <2> QED BY <1>7, <2>1, <2>2 DEF TableSound, IrqInv
<1>15. RegistersTyped'
    BY <1>7, <1>8 DEF IrqInv, RegistersTyped
<1>16. /\ f.at = "run" <=> Top.at = "run"
       /\ f.at = "isr" => f.handler # Null /\ f.context = f.handler
       /\ f.at # "entry"
    BY <1>1, <1>6, TopFacts DEF Running
<1>17. PIE' <=> f.saved = <<>> /\ Base(f)
    BY <1>6, <1>8, <1>9 DEF Base
<1> HIDE DEF t, u, n
<1> QED BY <1>1, <1>6, <1>7, <1>10, <1>11, <1>12, <1>14, <1>15, <1>16, <1>17, InvariantKept

LEMMA SetHandlerKeeps == IrqInv /\ SetHandler => IrqInv'
<1> SUFFICES ASSUME IrqInv, SetHandler PROVE IrqInv'
    OBVIOUS
<1> DEFINE t == Top.todo
           id == Top.call.id
           h == Top.call.handler
<1>1. /\ t # <<>> /\ t \in Rests /\ Head(t) = "handler" /\ CallSound(Top) /\ id \in Ids
      /\ h \in Handlers \cup {Null}
    BY TopFacts DEF SetHandler, Does
<1>2. PICK x \in Lists : t = Rg7(x) /\ Tail(t) = Rg6(x)
    BY <1>1, StepsTaken
<1>3. PICK f \in Activations :
         /\ f = Done /\ f.todo = Rg6(x) /\ f.at = Top.at
         /\ f.call = Top.call /\ f.saved = Top.saved
    BY <1>1, <1>2, DoneSound
<1>4. /\ PIE' = PIE /\ ienable' = ienable /\ irq' = irq /\ context' = context
      /\ alt_irq_active' = alt_irq_active /\ alt_priority_mask' = alt_priority_mask
      /\ SetTop(Done) /\ handler' = [handler EXCEPT ![id] = h]
    BY DEF SetHandler, masks
<1>5. /\ RegistersTyped'
      /\ handler'[id] = h /\ \A i \in Ids : i # id => handler'[i] = handler[i]
    BY <1>1, <1>4 DEF IrqInv, RegistersTyped
<1>6. (x = "inactive" => h = Null /\ Top.at = "run") /\ (x = "active" => h # Null)
    BY <1>1, <1>2, RegisterLists DEF CallSound, StepsSound, Lists
<1>7. StepsSound(f)'
  <2>1. t \in Rests1 /\ t \in Registering(x)
      BY <1>2, Lists01 DEF Registering
  <2>2. Len(Top.saved) >= 1
      BY <1>1, <2>1 DEF CallSound, StepsSound
  <2>3. /\ f.todo \notin Rests2 /\ f.todo \notin {Sw4("active"), Sw3("active")}
        /\ f.todo # Rg3 /\ \A y \in Lists : f.todo \in Registering(y) => x = y
      BY <1>3, RegisterLists
  <2> QED BY <1>3, <1>5, <1>6, <2>2, <2>3 DEF StepsSound, Lists
<1>8. \A i \in Ids : handler[i] # Null => handler'[i] # Null \/ Len(frames) = 1
    BY <1>5, <1>6, TopFacts DEF Lists
<1>9. TableSound'
  <2>1. Top' = f
      BY <1>3, <1>4, TopSet DEF IrqInv
  <2>2. ~Does("context") /\ Does("context")'
    <3>1. Head(Rg6(x)) = "context" /\ Rg6(x) # <<>> /\ Head(t) # "context"
        BY <1>1, Differences, HeadsAndTails
    <3> QED BY <1>3, <2>1, <3>1 DEF Does
  <2>3. ~Leaving
      BY <1>2, RegisterLists DEF Leaving, Lists
  <2>4. h = Null => Leaving'
    <3>1. h = Null => x = "inactive"
        BY <1>6 DEF Lists
    <3> QED BY <1>3, <2>1, <3>1 DEF Leaving, Written
  <2>5. /\ \A i \in Ids : context[i] = handler[i]
        /\ \A i \in Ids : i \in alt_irq_active \cup ienable => handler[i] # Null
      BY <2>2, <2>3 DEF IrqInv, TableSound
  <2>6. Top'.call.id = id
      BY <1>3, <2>1
  <2> HIDE DEF id, h, t
  <2> QED BY <1>4, <1>5, <2>2, <2>4, <2>5, <2>6 DEF TableSound
<1> QED BY <1>1, <1>3, <1>4, <1>5, <1>7, <1>8, <1>9, DoneKeeps

LEMMA SetContextKeeps == IrqInv /\ SetContext => IrqInv'
<1> SUFFICES ASSUME IrqInv, SetContext PROVE IrqInv'
    OBVIOUS
<1> DEFINE t == Top.todo
           id == Top.call.id
           h == Top.call.handler
<1>1. /\ t # <<>> /\ t \in Rests /\ Head(t) = "context" /\ CallSound(Top) /\ id \in Ids
      /\ h \in Handlers \cup {Null}
    BY TopFacts DEF SetContext, Does
<1>2. PICK x \in Lists : t = Rg6(x) /\ Tail(t) = Rg5(x)
    BY <1>1, StepsTaken
<1>3. PICK f \in Activations :
         /\ f = Done /\ f.todo = Rg5(x) /\ f.at = Top.at
         /\ f.call = Top.call /\ f.saved = Top.saved
    BY <1>1, <1>2, DoneSound
<1>4. /\ PIE' = PIE /\ ienable' = ienable /\ irq' = irq /\ handler' = handler
      /\ alt_irq_active' = alt_irq_active /\ alt_priority_mask' = alt_priority_mask
      /\ SetTop(Done) /\ context' = [context EXCEPT ![id] = h]
    BY DEF SetContext, masks
<1>5. /\ RegistersTyped'
      /\ context'[id] = h /\ \A i \in Ids : i # id => context'[i] = context[i]
    BY <1>1, <1>4 DEF IrqInv, RegistersTyped
<1>6. /\ x = "inactive" => h = Null /\ Top.at = "run"
      /\ x = "active" => h # Null
      /\ handler[id] = h
    BY <1>1, <1>2, RegisterLists DEF CallSound, StepsSound, Lists
<1>7. StepsSound(f)'
  <2>1. t \in Rests1
      BY <1>2 DEF Rests1
  <2>2. Len(Top.saved) >= 1
      BY <1>1, <2>1 DEF CallSound, StepsSound
  <2>3. /\ f.todo \notin Rests2 /\ f.todo \notin {Sw4("active"), Sw3("active")}
        /\ f.todo # Rg3 /\ \A y \in Lists : f.todo \in Registering(y) => x = y
      BY <1>3, RegisterLists
  <2> QED BY <1>3, <1>4, <1>6, <2>2, <2>3 DEF StepsSound, Lists
<1>9. TableSound'
  <2>1. Top' = f
      BY <1>3, <1>4, TopSet DEF IrqInv
  <2>2. ~Does("context")'
    <3>1. Head(Rg5(x)) # "context"
        BY HeadsAndTails
    <3> QED BY <1>3, <2>1, <3>1 DEF Does
  <2>3. Leaving => Leaving'
    <3>1. t # Rg3
        BY <1>2, RegisterLists
    <3>2. t \in Written("inactive") => x = "inactive"
        BY <1>2, RegisterLists DEF Lists
    <3> QED BY <1>3, <2>1, <3>1, <3>2 DEF Leaving, Written
  <2>4. Top'.call.id = id
      BY <1>3, <2>1
  <2>5. TableSound
      BY DEF IrqInv
  <2> HIDE DEF h, t
  <2> QED BY <1>4, <1>5, <1>6, <2>2, <2>3, <2>4, <2>5 DEF TableSound
<1> QED BY <1>1, <1>3, <1>4, <1>5, <1>7, <1>9, DoneKeeps

LEMMA SetIenableKeeps == IrqInv /\ SetIenable => IrqInv'
<1> SUFFICES ASSUME IrqInv, SetIenable PROVE IrqInv'
    OBVIOUS
<1> DEFINE t == Top.todo
<1>1. t # <<>> /\ t \in Rests /\ Head(t) = "ienable" /\ CallSound(Top)
    BY TopFacts DEF SetIenable, Does
<1>2. (t = Sw2 /\ Tail(t) = Sw1) \/ (t = Rg3 /\ Tail(t) = Rg2)
    BY <1>1, StepsTaken
<1>3. PICK f \in Activations :
         /\ f = Done /\ f.todo = Tail(t) /\ f.at = Top.at
         /\ f.call = Top.call /\ f.saved = Top.saved
    BY <1>1, DoneSound
<1>4. /\ PIE' = PIE /\ ienable' = alt_irq_active /\ irq' = irq
      /\ handler' = handler /\ context' = context
      /\ alt_irq_active' = alt_irq_active /\ alt_priority_mask' = alt_priority_mask
      /\ SetTop(Done)
    BY DEF SetIenable, masks, table
<1>5. RegistersTyped'
    BY <1>4 DEF IrqInv, RegistersTyped
<1>7. StepsSound(f)'
  <2>1. /\ Len(Top.saved) >= 1
        /\ f.todo \in Rests2 => Len(Top.saved) >= 2
      BY <1>1, <1>2, <1>3, PlainLists DEF CallSound, StepsSound
  <2>2. Plain(f.todo)
      BY <1>2, <1>3, PlainLists
  <2> HIDE DEF t
  <2> QED BY <1>3, <1>4, <2>1, <2>2, Lists01 DEF StepsSound, Plain, Lists
<1>9. TableSound'
  <2>1. Top' = f
      BY <1>3, <1>4, TopSet DEF IrqInv
  <2>2. ~Does("context") /\ ~Does("context")'
    <3>1. Head(Sw1) # "context" /\ Head(Rg2) # "context"
        BY HeadsAndTails
    <3> QED BY <1>1, <1>2, <1>3, <2>1, <3>1 DEF Does
  <2>3. \A i \in alt_irq_active : ~(i = Top.call.id /\ Leaving)
    <3>1. t \notin Written("inactive")
        BY <1>2, PlainLists, Lists01 DEF Plain, Lists
    <3>2. t = Rg3 /\ Top.call.handler = Null => Top.call.id \notin alt_irq_active
        BY <1>1 DEF CallSound, StepsSound
    <3> QED BY <3>1, <3>2 DEF Leaving
  <2>5. TableSound
      BY DEF IrqInv
  <2> HIDE DEF t
  <2> QED BY <1>4, <2>2, <2>3, <2>5 DEF TableSound
<1> QED BY <1>1, <1>3, <1>4, <1>5, <1>7, <1>9, DoneKeeps

LEMMA SetActiveKeeps == IrqInv /\ SetActive => IrqInv'
<1> SUFFICES ASSUME IrqInv, SetActive PROVE IrqInv'
    OBVIOUS
<1> DEFINE t == Top.todo
           id == Top.call.id
<1>1. PICK x \in Lists :
         /\ t # <<>> /\ Head(t) = x
         /\ x = "active" => alt_irq_active' = alt_irq_active \cup {id}
         /\ x = "inactive" => alt_irq_active' = alt_irq_active \ {id}
    BY DEF SetActive, Does, Lists
<1>2. t \in Rests /\ CallSound(Top) /\ id \in Ids
    BY TopFacts
<1>3. (t = Sw3(x) /\ Tail(t) = Sw2) \/ (t = Rg4(x) /\ Tail(t) = Rg3)
    BY <1>1, <1>2, StepsTaken
<1>4. PICK f \in Activations :
         /\ f = Done /\ f.todo = Tail(t) /\ f.at = Top.at
         /\ f.call = Top.call /\ f.saved = Top.saved
    BY <1>1, DoneSound
<1>5. /\ PIE' = PIE /\ ienable' = ienable /\ irq' = irq
      /\ handler' = handler /\ context' = context
      /\ alt_priority_mask' = alt_priority_mask /\ SetTop(Done)
    BY DEF SetActive, table
<1>6. RegistersTyped'
    BY <1>1, <1>2, <1>5 DEF IrqInv, RegistersTyped, Lists
<1>7. /\ t = Rg4(x) => /\ x = "inactive" => Top.call.handler = Null
                       /\ x = "active" => Top.call.handler # Null
                       /\ handler[id] = Top.call.handler
      /\ t = Sw3(x) /\ x = "active" => handler[id] # Null
    BY <1>2, RegisterLists DEF CallSound, StepsSound, Lists
<1>8. StepsSound(f)'
  <2>1. CASE t = Sw3(x) /\ Tail(t) = Sw2
    <3>1. Len(Top.saved) >= 1
        BY <1>2, <2>1, Lists01 DEF CallSound, StepsSound
    <3>2. Plain(f.todo) /\ f.todo \notin Rests2
        BY <1>4, <2>1, PlainLists
    <3> QED BY <1>4, <3>1, <3>2, Lists01 DEF StepsSound, Plain, Lists
  <2>2. CASE t = Rg4(x) /\ Tail(t) = Rg3
    <3>1. t \in Rests2
        BY <2>2 DEF Rests2
    <3>2. Len(Top.saved) >= 2
        BY <1>2, <3>1 DEF CallSound, StepsSound
    <3>3. Len(Top.saved) >= 1
        BY <3>2, TopFacts
    <3>4. /\ f.todo \notin {Sw3("active"), Sw4("active")}
          /\ \A y \in Lists : f.todo \notin Registering(y)
        BY <1>4, <2>2, PlainLists
    <3>5. f.call.handler = Null => id \notin alt_irq_active'
        BY <1>1, <1>4, <1>7, <2>2 DEF Lists
    <3> QED BY <1>4, <3>2, <3>3, <3>4, <3>5, Lists01 DEF StepsSound, Lists
  <2> QED BY <1>3, <2>1, <2>2
<1>9. TableSound'
  <2>1. Top' = f
      BY <1>4, <1>5, TopSet DEF IrqInv
  <2>2. ~Does("context") /\ ~Does("context")'
    <3>1. Head(Sw2) # "context" /\ Head(Rg3) # "context"
        BY HeadsAndTails
    <3>2. x # "context"
        BY DEF Lists
    <3> QED BY <1>1, <1>3, <1>4, <2>1, <3>1, <3>2 DEF Does
  <2>3. Leaving => Leaving'
    <3>1. t # Rg3
        BY <1>3, SwitchLists, RegisterLists
    <3>2. CASE t \in Written("inactive")
      <4>1. t = Rg4(x) /\ x = "inactive"
          BY <1>3, <3>2, SwitchLists, RegisterLists, Lists01 DEF Lists
      <4>2. Tail(t) = Rg3
          BY <1>3, <4>1, SwitchLists, RegisterLists, Differences
      <4> QED BY <1>4, <1>7, <2>1, <4>1, <4>2 DEF Leaving
    <3> QED BY <3>1, <3>2 DEF Leaving
  <2>4. x = "active" => handler[id] # Null
      BY <1>3, <1>7
  <2>5. TableSound /\ Top'.call.id = id
      BY <1>4, <2>1 DEF IrqInv
  <2>6. \A i \in alt_irq_active' : i \in alt_irq_active \/ (i = id /\ x = "active")
      BY <1>1 DEF Lists
  <2> HIDE DEF t
  <2> QED BY <1>5, <2>2, <2>3, <2>4, <2>5, <2>6 DEF TableSound
<1> QED BY <1>1, <1>4, <1>5, <1>6, <1>8, <1>9, DoneKeeps

\* A set of numbers has a smallest one: the intervals up to its members are
\* finite, and one of them has no other inside.
LEMMA SmallestOf ==
    ASSUME NEW S \in SUBSET Nat, S # {}
    PROVE  \E x \in S : \A y \in S : x <= y
<1> DEFINE T == {0 .. x : x \in S}
<1>1. T \subseteq FiniteSubsetsOf(Nat) /\ T # {}
  <2>1. ASSUME NEW x \in S PROVE 0 .. x \in FiniteSubsetsOf(Nat)
      BY FS_Interval DEF FiniteSubsetsOf
  <2> QED BY <2>1
<1>2. PICK m \in T : \A y \in T : ~(<<y, m>> \in StrictSubsetOrdering(Nat))
    BY <1>1, WFMin, FS_StrictSubsetOrderingWellFounded
<1>3. PICK x \in S : m = 0 .. x
    OBVIOUS
<1>4. ASSUME NEW y \in S PROVE x <= y
  <2> SUFFICES ASSUME y < x PROVE FALSE
      OBVIOUS
  <2>1. 0 .. y \subseteq 0 .. x /\ x \in 0 .. x /\ x \notin 0 .. y
      OBVIOUS
  <2>2. 0 .. y \in T /\ 0 .. y \in SUBSET Nat /\ 0 .. x \in SUBSET Nat
      OBVIOUS
  <2>3. <<0 .. y, 0 .. x>> \in StrictSubsetOrdering(Nat)
      BY <2>1, <2>2 DEF StrictSubsetOrdering
  <2> QED BY <1>2, <1>3, <2>2, <2>3
<1> QED BY <1>4

LEMMA MinIs ==
    ASSUME NEW S \in SUBSET Nat, S # {}
    PROVE  Min(S) \in S /\ \A y \in S : Min(S) <= y
BY SmallestOf DEF Min

-----------------------------------------------------------------------------
(* The calls                                                               *)

LEMMA Joined ==
    ASSUME NEW a, NEW b, NEW c, NEW d, NEW e, NEW f, NEW g, NEW h
    PROVE  <<a, b, c>> \o <<d, e, f, g>> \o <<h>> = <<a, b, c, d, e, f, g, h>>
<1> DEFINE S == {a, b, c, d, e, f, g, h}
           l == <<a, b, c>>
           m == <<d, e, f, g>>
           r == <<h>>
           p == l \o m
           z == p \o r
<1>1. l \in Seq(S) /\ m \in Seq(S) /\ r \in Seq(S) /\ Len(l) = 3 /\ Len(m) = 4 /\ Len(r) = 1
    OBVIOUS
<1>2. /\ l[1] = a /\ l[2] = b /\ l[3] = c
      /\ m[1] = d /\ m[2] = e /\ m[3] = f /\ m[4] = g /\ r[1] = h
    OBVIOUS
<1> HIDE DEF S, l, m, r
<1>3. /\ p \in Seq(S) /\ Len(p) = 7
      /\ \A i \in 1 .. 7 : p[i] = IF i <= 3 THEN l[i] ELSE m[i - 3]
  <2>1. p \in Seq(S)
      BY <1>1, ConcatProperties
  <2>2. Len(p) = Len(l) + Len(m)
      BY <1>1, ConcatProperties
  <2>3. \A i \in 1 .. Len(l) + Len(m) : p[i] = IF i <= Len(l) THEN l[i] ELSE m[i - Len(l)]
      BY <1>1, ConcatProperties
  <2> QED BY <1>1, <2>1, <2>2, <2>3
<1> HIDE DEF p
<1>4. /\ p[1] = a /\ p[2] = b /\ p[3] = c
      /\ p[4] = d /\ p[5] = e /\ p[6] = f /\ p[7] = g
    BY <1>2, <1>3
<1>5. /\ z \in Seq(S) /\ Len(z) = 8
      /\ \A i \in 1 .. 8 : z[i] = IF i <= 7 THEN p[i] ELSE r[i - 7]
  <2>1. z \in Seq(S)
      BY <1>1, <1>3, ConcatProperties
  <2>2. Len(z) = Len(p) + Len(r)
      BY <1>1, <1>3, ConcatProperties
  <2>3. \A i \in 1 .. Len(p) + Len(r) : z[i] = IF i <= Len(p) THEN p[i] ELSE r[i - Len(p)]
      BY <1>1, <1>3, ConcatProperties
  <2> QED BY <1>1, <1>3, <2>1, <2>2, <2>3
<1> HIDE DEF z
<1>6. /\ z[1] = a /\ z[2] = b /\ z[3] = c /\ z[4] = d
      /\ z[5] = e /\ z[6] = f /\ z[7] = g /\ z[8] = h
    BY <1>2, <1>4, <1>5
<1>7. z \in [1 .. 8 -> S]
    BY <1>5, LenProperties
<1>8. z = <<a, b, c, d, e, f, g, h>>
    BY <1>6, <1>7 DEF S
<1> QED BY <1>8 DEF z, p, l, m, r

LEMMA RegisterIs ==
    ASSUME NEW h
    PROVE  RegisterSteps(h) = Rg8(IF h = Null THEN "inactive" ELSE "active")
<1> DEFINE x == IF h = Null THEN "inactive" ELSE "active"
<1>1. SwitchSteps(h) = <<"disable_all", x, "ienable", "enable_all">>
    BY DEF SwitchSteps, DisableSteps, EnableSteps
<1> HIDE DEF x
<1> QED BY <1>1, Joined DEF RegisterSteps, Rg8, x

\* Between two calls the table is whole.
LEMMA TableWhole ==
    ASSUME IrqInv, Top.todo = <<>>
    PROVE  /\ \A i \in Ids : context[i] = handler[i]
           /\ \A i \in alt_irq_active \cup ienable : handler[i] # Null
           /\ ~Does("context")
<1>1. ~Leaving
    BY PlainLists, Lists01 DEF Leaving, Plain, Lists
<1>2. ~Does("context")
    BY DEF Does
<1> QED BY <1>1, <1>2 DEF IrqInv, RegistersTyped, TableSound

LEMMA CallKeeps ==
    ASSUME IrqInv, BetweenCalls, NEW steps \in Rests, NEW id \in Ids, NEW h \in Handlers \cup {Null},
           Call(steps, id, h), steps \notin Rests2,
           steps \in Rests1 => Len(Top.saved) >= 1,
           steps \in {Sw4("active"), Sw3("active")} => handler[id] # Null,
           steps \in Registering("active") => h # Null,
           steps \in Registering("inactive") => h = Null /\ Top.at = "run",
           \A x \in Lists : steps \notin Written(x),
           Head(steps) # "context"
    PROVE  IrqInv'
<1>1. /\ Top \in Activations /\ CallSound(Top) /\ Top.at \in Running /\ Top.todo = <<>>
      /\ (PIE <=> Top.saved = <<>> /\ Base(Top)) /\ PIE \in BOOLEAN
    BY TopFacts DEF BetweenCalls, Running
<1>2. PICK f : f = [Top EXCEPT !.todo = steps, !.call = [id |-> id, handler |-> h]]
    OBVIOUS
<1>3. /\ f \in Activations /\ f.todo = steps /\ f.call.id = id /\ f.call.handler = h
      /\ f.at = Top.at /\ f.handler = Top.handler /\ f.context = Top.context
      /\ f.old = Top.old /\ f.saved = Top.saved
    BY <1>1, <1>2 DEF Activations
<1>4. /\ SetTop(f) /\ PIE' = PIE /\ ienable' = ienable /\ irq' = irq
      /\ handler' = handler /\ context' = context
      /\ alt_irq_active' = alt_irq_active /\ alt_priority_mask' = alt_priority_mask
    BY <1>2 DEF Call, masks, table
<1>5. Top' = f
    BY <1>3, <1>4, TopSet DEF IrqInv
<1>6. StepsSound(f)'
    BY <1>3, <1>4, PlainLists DEF StepsSound
<1>7. SavedSound(f)
    BY <1>1, <1>3 DEF CallSound, SavedSound, Base
<1>8. TableSound'
  <2>1. ~Does("context")'
      BY <1>3, <1>5 DEF Does
  <2> QED BY <1>1, <1>4, <2>1, TableWhole DEF TableSound
<1>9. RegistersTyped'
    BY <1>4 DEF IrqInv, RegistersTyped
<1>10. /\ (f.at = "run" <=> Top.at = "run")
       /\ (f.at = "isr" => f.handler # Null /\ f.context = f.handler)
       /\ f.at # "entry" /\ f.at \in Running
       /\ PIE' <=> f.saved = <<>> /\ Base(f)
    BY <1>1, <1>3, <1>4, TopFacts DEF Running, Base
<1> QED BY <1>3, <1>4, <1>6, <1>7, <1>8, <1>9, <1>10, InvariantKept

LEMMA RegisterKeeps ==
    ASSUME IrqInv, NEW id \in Ids, NEW h \in Handlers \cup {Null}, Register(id, h)
    PROVE  IrqInv'
<1> DEFINE x == IF h = Null THEN "inactive" ELSE "active"
           t == Rg8(x)
<1>1. x \in Lists
    BY DEF Lists
<1>2. BetweenCalls /\ Call(t, id, h) /\ (h = Null => Top.at = "run")
    BY RegisterIs DEF Register, MaySwitch, MayCall
<1> HIDE DEF x
<1>3. /\ t \in Rests /\ t \notin {Sw3("active"), Sw4("active")}
      /\ (\A y \in Lists : t \in Registering(y) <=> x = y)
      /\ (\A y \in Lists : t \notin Written(y))
      /\ t \notin Rests2 /\ t \notin Rests1
    BY <1>1, RegisterLists
<1>4. Head(t) # "context"
    BY <1>1, HeadsAndTails
<1> HIDE DEF t
<1> QED BY <1>2, <1>3, <1>4, CallKeeps DEF Lists, x

LEMMA SwitchKeeps ==
    ASSUME IrqInv, NEW id \in Ids, Enable(id) \/ Disable(id)
    PROVE  IrqInv'
<1>1. PICK x \in Lists :
         BetweenCalls /\ Call(Sw4(x), id, Null) /\ (x = "active" => handler[id] # Null)
    BY DEF Enable, Disable, MaySwitch, MayCall, EnableSteps, DisableSteps, Sw4, Lists
<1> DEFINE t == Sw4(x)
<1>2. /\ t \in Rests /\ t \notin Rests1 /\ t \notin Rests2
      /\ (t \in {Sw4("active"), Sw3("active")} => x = "active")
      /\ (\A y \in Lists : t \notin Registering(y)) /\ Head(t) # "context"
    BY SwitchLists, HeadsAndTails
<1> HIDE DEF t
<1>3. \A y \in Lists : t \notin Written(y)
    BY <1>2, Lists01
<1> QED BY <1>1, <1>2, <1>3, CallKeeps DEF Lists, t

LEMMA CriticalKeeps ==
    ASSUME IrqAssumption, IrqInv, EnterCritical \/ LeaveCritical
    PROVE  IrqInv'
<1>1. PICK t \in {<<"disable_all">>, Sw1} :
         BetweenCalls /\ Call(t, 0, Null) /\ (t = Sw1 => Top.saved # <<>>)
    BY Differences DEF EnterCritical, LeaveCritical, MayCall, Sw1, Lists
<1>2. /\ t \in Rests /\ t \notin Rests2 /\ Plain(t) /\ (t \in Rests1 => t = Sw1)
    BY PlainLists
<1>3. Head(t) # "context"
    BY HeadsAndTails
<1>4. /\ \A x \in Lists : t \notin Registering(x) /\ t \notin Written(x)
      /\ t \notin {Sw4("active"), Sw3("active")}
    BY <1>2, Lists01 DEF Plain
<1>5. t \in Rests1 => Len(Top.saved) >= 1
    BY <1>1, <1>2, TopFacts
<1>6. 0 \in Ids
    BY DEF IrqAssumption, Ids
<1> QED BY <1>1, <1>2, <1>3, <1>4, <1>5, <1>6, CallKeeps DEF Lists

-----------------------------------------------------------------------------
(* The interrupts                                                          *)

LEMMA NewFrame ==
    ASSUME IrqAssumption, NEW at \in {"entry", "test"}
    PROVE  /\ Frame(at) \in Activations
           /\ Frame(at).at = at /\ Frame(at).todo = <<>> /\ Frame(at).saved = <<>>
           /\ Frame(at).old = <<>> /\ StepsSound(Frame(at)) /\ SavedSound(Frame(at))
<1>1. 0 \in Ids
    BY DEF IrqAssumption, Ids
<1>2. <<>> \in Rests /\ <<>> \in Seq(BOOLEAN)
    BY PlainLists
<1>3. PICK f : f = Frame(at)
    OBVIOUS
<1>4. /\ f \in Activations /\ f.at = at /\ f.todo = <<>> /\ f.saved = <<>> /\ f.old = <<>>
    BY <1>1, <1>2, <1>3 DEF Frame, NoCall, Activations, Places
<1>5. StepsSound(f)
    BY <1>4, PlainLists, Lists01 DEF StepsSound, Plain, Lists
<1>6. SavedSound(f)
    BY <1>4 DEF SavedSound
<1> QED BY <1>3, <1>4, <1>5, <1>6

\* What holds of a list of steps that is empty.
LEMMA IdleSound ==
    ASSUME NEW f, f.todo = <<>>
    PROVE  StepsSound(f) /\ StepsSound(f)'
<1>1. <<>> \notin Rests1 /\ <<>> \notin Rests2 /\ Plain(<<>>)
    BY PlainLists
<1> QED BY <1>1, Lists01 DEF StepsSound, Plain, Lists

LEMMA RaiseKeeps ==
    ASSUME IrqInv, NEW i \in Ids, Raise(i)
    PROVE  IrqInv'
<1>1. /\ irq' = irq \cup {i} /\ PIE' = PIE /\ ienable' = ienable
      /\ alt_irq_active' = alt_irq_active /\ alt_priority_mask' = alt_priority_mask
      /\ handler' = handler /\ context' = context /\ frames' = frames
    BY DEF Raise, masks, table
<1>2. RegistersTyped'
    BY <1>1 DEF IrqInv, RegistersTyped
<1>3. FramesTyped' /\ CallsSound' /\ StackSound' /\ PieSound' /\ TableSound'
    BY <1>1 DEF IrqInv, FramesTyped, CallsSound, CallSound, StepsSound, SavedSound, Base, StackSound,
                PieSound, TableSound, Top, Leaving, Does
<1>4. Serving'
    BY <1>1 DEF IrqInv, Serving, Top, Pending
<1> QED BY <1>2, <1>3, <1>4 DEF IrqInv

LEMMA DispatchKeeps == IrqInv /\ Dispatch => IrqInv'
<1> SUFFICES ASSUME IrqInv, Dispatch PROVE IrqInv'
    OBVIOUS
<1>1. /\ Top.at = "entry" /\ Top.at \notin Running /\ Pending # {} /\ Top \in Activations
      /\ Top.todo = <<>>
    BY TopFacts DEF Dispatch, Running
<1>2. Top.saved = <<>> /\ Top.old = <<>> /\ ~PIE
    BY <1>1 DEF IrqInv, PieSound
<1>3. Chosen \in Pending /\ Chosen \in Ids
  <2>1. Pending \in SUBSET Nat /\ Pending \subseteq Ids
      BY DEF Pending, IrqInv, RegistersTyped, Ids
  <2> QED BY <1>1, <2>1, MinIs DEF Chosen
<1>4. handler[Chosen] # Null /\ context[Chosen] = handler[Chosen]
      /\ handler[Chosen] \in Handlers \cup {Null}
    BY <1>1, <1>3, TableWhole DEF Pending, IrqInv, RegistersTyped
<1>5. PICK f : f = [Top EXCEPT !.at = "isr", !.id = Chosen,
                               !.handler = handler[Chosen], !.context = context[Chosen]]
    OBVIOUS
<1>6. /\ f \in Activations /\ f.at = "isr" /\ f.todo = <<>> /\ f.saved = <<>> /\ f.old = <<>>
      /\ f.handler # Null /\ f.context = f.handler
    BY <1>1, <1>2, <1>3, <1>4, <1>5 DEF Activations, Places
<1>7. /\ SetTop(f) /\ PIE' = PIE /\ ienable' = ienable /\ irq' = irq
      /\ handler' = handler /\ context' = context
      /\ alt_irq_active' = alt_irq_active /\ alt_priority_mask' = alt_priority_mask
    BY <1>5 DEF Dispatch, masks, table
<1>8. Top' = f
    BY <1>6, <1>7, TopSet DEF IrqInv
<1>9. TableSound'
  <2>1. ~Does("context")'
      BY <1>6, <1>8 DEF Does
  <2> QED BY <1>1, <1>7, <2>1, TableWhole DEF TableSound
<1>10. RegistersTyped'
    BY <1>7 DEF IrqInv, RegistersTyped
<1>11. SavedSound(f)
    BY <1>6 DEF SavedSound
<1> QED BY <1>1, <1>2, <1>6, <1>7, <1>9, <1>10, <1>11, IdleSound, InvariantKept DEF Running, Base

LEMMA ServeKeeps == IrqInv /\ Serve => IrqInv'
<1> SUFFICES ASSUME IrqInv, Serve PROVE IrqInv'
    OBVIOUS
<1>1. /\ Top.at = "isr" /\ Top \in Activations /\ Top.todo = <<>> /\ CallSound(Top)
      /\ (PIE <=> Top.saved = <<>> /\ Base(Top)) /\ PIE \in BOOLEAN
    BY TopFacts DEF Serve, Running
<1>2. PICK f : f = [Top EXCEPT !.at = "served"]
    OBVIOUS
<1>3. /\ f \in Activations /\ f.at = "served" /\ f.todo = <<>> /\ f.saved = Top.saved /\ f.old = Top.old
    BY <1>1, <1>2 DEF Activations, Places
<1>4. /\ SetTop(f) /\ PIE' = PIE /\ ienable' = ienable /\ irq' = irq \ {Top.id}
      /\ handler' = handler /\ context' = context
      /\ alt_irq_active' = alt_irq_active /\ alt_priority_mask' = alt_priority_mask
    BY <1>2 DEF Serve, masks, table
<1>5. Top' = f
    BY <1>3, <1>4, TopSet DEF IrqInv
<1>6. TableSound'
  <2>1. ~Does("context")'
      BY <1>3, <1>5 DEF Does
  <2> QED BY <1>1, <1>4, <2>1, TableWhole DEF TableSound
<1>7. RegistersTyped'
    BY <1>4 DEF IrqInv, RegistersTyped
<1>8. SavedSound(f) /\ (Base(f) <=> Base(Top))
    BY <1>1, <1>3 DEF SavedSound, CallSound, Base
<1> QED BY <1>1, <1>3, <1>4, <1>6, <1>7, <1>8, IdleSound, InvariantKept DEF Running

LEMMA InterruptibleKeeps == IrqInv /\ Interruptible => IrqInv'
<1> SUFFICES ASSUME IrqInv, Interruptible PROVE IrqInv'
    OBVIOUS
<1>1. /\ Top.at = "isr" /\ Top \in Activations /\ Top.todo = <<>> /\ Top.saved = <<>>
      /\ Top.handler # Null /\ Top.context = Top.handler
    BY TopFacts DEF Interruptible, MayCall, BetweenCalls
<1>2. PICK f : f = [Top EXCEPT !.old = <<alt_priority_mask>>]
    OBVIOUS
<1>3. alt_priority_mask \in SUBSET Ids
    BY DEF IrqInv, RegistersTyped
<1>4. /\ f \in Activations /\ f.at = "isr" /\ f.todo = <<>> /\ f.saved = <<>> /\ f.old # <<>>
      /\ f.handler = Top.handler /\ f.context = Top.context
    BY <1>1, <1>2, <1>3 DEF Activations
<1>5. /\ SetTop(f) /\ PIE' = TRUE /\ irq' = irq
      /\ handler' = handler /\ context' = context /\ alt_irq_active' = alt_irq_active
      /\ alt_priority_mask' \subseteq Ids /\ ienable' \subseteq alt_irq_active
    BY <1>2 DEF Interruptible, table, Above
<1>6. Top' = f
    BY <1>4, <1>5, TopSet DEF IrqInv
<1>7. TableSound'
  <2>1. ~Does("context")'
      BY <1>4, <1>6 DEF Does
  <2> QED BY <1>1, <1>5, <2>1, TableWhole DEF TableSound
<1>8. RegistersTyped'
    BY <1>5 DEF IrqInv, RegistersTyped
<1>9. SavedSound(f) /\ Base(f)
    BY <1>4 DEF SavedSound, Base
<1> QED BY <1>1, <1>4, <1>5, <1>7, <1>8, <1>9, IdleSound, InvariantKept DEF Running

LEMMA NonInterruptibleKeeps == IrqInv /\ NonInterruptible => IrqInv'
<1> SUFFICES ASSUME IrqInv, NonInterruptible PROVE IrqInv'
    OBVIOUS
<1>1. /\ Top.at \in {"run", "isr", "served"} /\ Top \in Activations /\ Top.todo = <<>>
      /\ Top.saved = <<>> /\ Top.old # <<>> /\ CallSound(Top)
      /\ Top.at = "isr" => Top.handler # Null /\ Top.context = Top.handler
    BY TopFacts DEF NonInterruptible, BetweenCalls
<1>2. Top.at # "run"
    BY <1>1 DEF CallSound, SavedSound
<1>3. PICK f : f = [Top EXCEPT !.old = <<>>]
    OBVIOUS
<1>4. /\ f \in Activations /\ f.at = Top.at /\ f.todo = <<>> /\ f.saved = <<>> /\ f.old = <<>>
      /\ f.handler = Top.handler /\ f.context = Top.context
    BY <1>1, <1>3 DEF Activations
<1>5. PICK m \in SUBSET Ids : Top.old = <<m>>
    BY <1>1 DEF Activations
<1>6. Last(Top.old) = m
    BY <1>5 DEF Last
<1>7. /\ SetTop(f) /\ PIE' = FALSE /\ irq' = irq
      /\ handler' = handler /\ context' = context /\ alt_irq_active' = alt_irq_active
      /\ alt_priority_mask' \subseteq Ids /\ ienable' \subseteq alt_irq_active
    BY <1>3, <1>6 DEF NonInterruptible, table
<1>8. Top' = f
    BY <1>4, <1>7, TopSet DEF IrqInv
<1>9. TableSound'
  <2>1. ~Does("context")'
      BY <1>4, <1>8 DEF Does
  <2> QED BY <1>1, <1>7, <2>1, TableWhole DEF TableSound
<1>10. RegistersTyped'
    BY <1>7 DEF IrqInv, RegistersTyped
<1>11. SavedSound(f) /\ ~Base(f)
    BY <1>2, <1>4 DEF SavedSound, Base
<1> QED BY <1>1, <1>2, <1>4, <1>7, <1>9, <1>10, <1>11, IdleSound, InvariantKept DEF Running

LEMMA IsrReturnsKeeps == IrqAssumption /\ IrqInv /\ IsrReturns => IrqInv'
<1> SUFFICES ASSUME IrqAssumption, IrqInv, IsrReturns PROVE IrqInv'
    OBVIOUS
<1>1. /\ Top.at = "served" /\ Top.todo = <<>>
      /\ (PIE <=> Top.saved = <<>> /\ Base(Top)) /\ Top.old = <<>> /\ Top.saved = <<>>
    BY TopFacts DEF IsrReturns, Running
<1>2. ~PIE
    BY <1>1 DEF Base
<1>3. PICK f \in Activations : f = Frame("test")
    BY NewFrame
<1>4. /\ f.at = "test" /\ f.todo = <<>> /\ f.saved = <<>> /\ f.old = <<>> /\ SavedSound(f)
    BY <1>3, NewFrame
<1>5. /\ SetTop(f) /\ PIE' = PIE /\ ienable' = ienable /\ irq' = irq
      /\ handler' = handler /\ context' = context
      /\ alt_irq_active' = alt_irq_active /\ alt_priority_mask' = alt_priority_mask
    BY <1>3 DEF IsrReturns, masks, table
<1>6. Top' = f
    BY <1>5, TopSet DEF IrqInv
<1>7. TableSound'
  <2>1. ~Does("context")'
      BY <1>4, <1>6 DEF Does
  <2> QED BY <1>1, <1>5, <2>1, TableWhole DEF TableSound
<1>8. RegistersTyped'
    BY <1>5 DEF IrqInv, RegistersTyped
<1> QED BY <1>1, <1>2, <1>4, <1>5, <1>7, <1>8, IdleSound, InvariantKept DEF Running

LEMMA FrontIs ==
    ASSUME NEW S, NEW s \in Seq(S), Len(s) >= 1
    PROVE  /\ Front(s) \in Seq(S) /\ Len(Front(s)) = Len(s) - 1
           /\ \A i \in 1 .. Len(s) - 1 : Front(s)[i] = s[i]
<1> DEFINE n == Len(s) - 1
<1>1. n \in Nat /\ \A i \in 1 .. n : s[i] \in S
    BY ElementOfSeq
<1> HIDE DEF n
<1>2. /\ SubSeq(s, 1, n) \in Seq(S)
      /\ Len(SubSeq(s, 1, n)) = IF 1 <= n THEN n - 1 + 1 ELSE 0
      /\ \A i \in 1 .. n - 1 + 1 : SubSeq(s, 1, n)[i] = s[1 + i - 1]
    BY <1>1, SubSeqProperties
<1>3. Len(SubSeq(s, 1, n)) = n
    BY <1>1, <1>2
<1>4. \A i \in 1 .. n : SubSeq(s, 1, n)[i] = s[i]
    BY <1>1, <1>2
<1>5. Front(s) = SubSeq(s, 1, n)
    BY DEF Front, n
<1> QED BY <1>2, <1>3, <1>4, <1>5 DEF n

\* An activation with interrupts on is not writing the table.
LEMMA NotWriting ==
    ASSUME NEW f \in Activations, StepsSound(f), f.saved = <<>>
    PROVE  /\ \A x \in Lists : f.todo \notin Written(x)
           /\ f.todo # Rg3 /\ ~(f.todo # <<>> /\ Head(f.todo) = "context")
<1>1. Len(f.saved) = 0
    OBVIOUS
<1>2. f.todo \notin Rests1 /\ f.todo \notin Rests2 /\ f.todo \in Rests
    BY <1>1 DEF StepsSound, Activations
<1>3. \A x \in Lists : f.todo \notin Written(x) /\ f.todo # Rg3
    BY <1>2, Lists01
<1>4. ASSUME f.todo # <<>>, Head(f.todo) = "context" PROVE FALSE
  <2>1. PICK x \in Lists : f.todo = Rg6(x)
      BY <1>2, <1>4, StepsTaken
  <2> QED BY <1>2, <2>1 DEF Rests1
<1>5. "active" \in Lists
    BY DEF Lists
<1> QED BY <1>3, <1>4, <1>5

LEMMA TakeInterruptKeeps == IrqAssumption /\ IrqInv /\ TakeInterrupt => IrqInv'
<1> SUFFICES ASSUME IrqAssumption, IrqInv, TakeInterrupt PROVE IrqInv'
    OBVIOUS
<1> DEFINE n == Len(frames)
<1>1. /\ Top \in Activations /\ CallSound(Top) /\ n \in Nat /\ n >= 1 /\ PIE /\ Pending # {}
      /\ (Top.at \in Running => (PIE <=> Top.saved = <<>> /\ Base(Top)))
    BY TopFacts DEF TakeInterrupt
<1>2. Top.at \in Running /\ Top.saved = <<>> /\ Base(Top)
    BY <1>1 DEF IrqInv, PieSound
<1>3. /\ PIE' = FALSE /\ ienable' = ienable /\ irq' = irq
      /\ handler' = handler /\ context' = context
      /\ alt_irq_active' = alt_irq_active /\ alt_priority_mask' = alt_priority_mask
      /\ n < MaxFrames
    BY DEF TakeInterrupt, masks, table
<1>4. PICK f \in Activations : f = Frame("entry")
    BY NewFrame
<1>5. f.at = "entry" /\ f.todo = <<>> /\ f.saved = <<>> /\ f.old = <<>> /\ SavedSound(f) /\ StepsSound(f)
    BY <1>4, NewFrame
<1>6. /\ frames \in Seq(Activations) /\ \A k \in 1 .. n : frames[k] \in Activations
      /\ Top = frames[n]
    BY StackTop DEF IrqInv, FramesTyped
<1>7. /\ frames' \in Seq(Activations) /\ Len(frames') = n + 1 /\ frames'[n + 1] = f
      /\ \A k \in 1 .. n : frames'[k] = frames[k]
  <2>1. frames' = Append(frames, f)
      BY <1>4 DEF TakeInterrupt
  <2> QED BY <1>6, <2>1, AppendProperties
<1>8. Top' = f
    BY <1>1, <1>7 DEF Top, Last
<1>9. \A k \in 1 .. n + 1 : k \in 1 .. n \/ k = n + 1
    BY <1>1
<1>10. FramesTyped'
    BY <1>1, <1>3, <1>7 DEF FramesTyped, IrqAssumption
<1>11. CallsSound'
  <2>1. ASSUME NEW k \in 1 .. n PROVE CallSound(frames[k])'
    <3>1. CallSound(frames[k])
        BY DEF IrqInv, CallsSound
    <3> QED BY <1>3, <1>7, <3>1 DEF CallSound, StepsSound, SavedSound, Base
  <2>2. CallSound(f)'
      BY <1>3, <1>5 DEF CallSound, StepsSound, SavedSound, Base
  <2>3. ASSUME NEW k, k = n + 1 PROVE CallSound(frames[k])'
      BY <1>3, <1>7, <2>2, <2>3 DEF CallSound, StepsSound, SavedSound, Base
  <2> QED BY <1>7, <1>9, <2>1, <2>3 DEF CallsSound
<1>12. PieSound'
    BY <1>3, <1>5, <1>8 DEF PieSound, Running
<1>13. StackSound'
  <2>1. ASSUME NEW k \in 1 .. n + 1 PROVE frames'[k].at = "run" <=> k = 1
    <3>1. CASE k \in 1 .. n
        BY <1>7, <3>1 DEF IrqInv, StackSound
    <3>2. CASE k = n + 1
        BY <1>1, <1>5, <1>7, <3>2
    <3> QED BY <1>9, <3>1, <3>2
  <2>2. ASSUME NEW k \in 1 .. n
        PROVE  frames'[k].at \in Running /\ frames'[k].saved = <<>> /\ Base(frames[k])'
    <3>1. frames[k].at \in Running /\ frames[k].saved = <<>> /\ Base(frames[k])
      <4>1. CASE k = n
          BY <1>2, <1>6, <4>1
      <4>2. CASE k \in 1 .. n - 1
          BY <4>2 DEF IrqInv, StackSound
      <4> QED BY <1>1, <4>1, <4>2
    <3> QED BY <1>7, <3>1 DEF Base
  <2>3. Len(frames') - 1 = n
      BY <1>1, <1>7
  <2> QED BY <1>7, <2>1, <2>2, <2>3 DEF StackSound
<1>14. TableSound'
  <2>1. ~Leaving /\ ~Does("context")
      BY <1>1, <1>2, NotWriting DEF Leaving, Does, CallSound, Lists
  <2>2. ~Does("context")'
      BY <1>5, <1>8 DEF Does
  <2> QED BY <1>3, <2>1, <2>2 DEF TableSound, IrqInv
<1>15. Serving'
  <2>1. ASSUME NEW k \in 1 .. n + 1, frames'[k].at = "isr"
        PROVE  frames'[k].handler # Null /\ frames'[k].context = frames'[k].handler
    <3>1. k \in 1 .. n
        BY <1>5, <1>7, <1>9, <2>1
    <3> QED BY <1>7, <2>1, <3>1 DEF IrqInv, Serving
  <2>2. Pending' # {}
      BY <1>1, <1>3 DEF Pending
  <2> QED BY <1>7, <2>1, <2>2 DEF Serving
<1>16. RegistersTyped'
    BY <1>3 DEF IrqInv, RegistersTyped
<1> QED BY <1>10, <1>11, <1>12, <1>13, <1>14, <1>15, <1>16 DEF IrqInv

LEMMA TestAgainKeeps == IrqAssumption /\ IrqInv /\ TestAgain => IrqInv'
<1> SUFFICES ASSUME IrqAssumption, IrqInv, TestAgain PROVE IrqInv'
    OBVIOUS
<1> DEFINE n == Len(frames)
<1>1. /\ Top.at = "test" /\ Top \in Activations /\ n \in Nat /\ n >= 1 /\ n # 1
      /\ Top.at \notin Running /\ Top.todo = <<>>
    BY TopFacts DEF TestAgain, Running
<1>2. ~PIE
    BY <1>1 DEF IrqInv, PieSound
<1>3. /\ ienable' = ienable /\ irq' = irq /\ handler' = handler /\ context' = context
      /\ alt_irq_active' = alt_irq_active /\ alt_priority_mask' = alt_priority_mask
    BY DEF TestAgain, masks, table
<1>4. CASE Pending # {}
  <2>1. PICK f \in Activations : f = Frame("entry")
      BY NewFrame
  <2>2. /\ f.at = "entry" /\ f.todo = <<>> /\ f.saved = <<>> /\ f.old = <<>> /\ SavedSound(f)
      BY <2>1, NewFrame
  <2>3. SetTop(f) /\ PIE' = PIE
      BY <1>4, <2>1 DEF TestAgain
  <2>4. Top' = f
      BY <2>3, TopSet DEF IrqInv
  <2>5. TableSound'
    <3>1. ~Does("context")'
        BY <2>2, <2>4 DEF Does
    <3> QED BY <1>1, <1>3, <3>1, TableWhole DEF TableSound
  <2>6. RegistersTyped'
      BY <1>3, <2>3 DEF IrqInv, RegistersTyped
  <2>7. Pending' # {}
      BY <1>3, <1>4 DEF Pending
  <2> QED BY <1>1, <1>2, <1>3, <2>2, <2>3, <2>5, <2>6, <2>7, IdleSound, InvariantKept DEF Running
<1>5. CASE Pending = {}
  <2>1. frames' = Front(frames) /\ PIE' = TRUE
      BY <1>5 DEF TestAgain
  <2>2. frames \in Seq(Activations) /\ \A k \in 1 .. n : frames[k] \in Activations
      BY StackTop DEF IrqInv, FramesTyped
  <2>3. /\ frames' \in Seq(Activations) /\ Len(frames') = n - 1
        /\ \A k \in 1 .. n - 1 : frames'[k] = frames[k]
      BY <1>1, <2>1, <2>2, FrontIs
  <2>4. n - 1 \in 1 .. n - 1 /\ n - 1 \in Nat /\ \A k \in 1 .. n - 1 : k \in 1 .. n
    <3>1. n \in Nat /\ n >= 1 /\ n # 1
        BY <1>1
    <3> HIDE DEF n
    <3>2. n >= 2
        BY <3>1
    <3> QED BY <3>1, <3>2
  <2>5. PICK g \in Activations : g = frames[n - 1]
      BY <2>2, <2>4
  <2>6. Top' = g
      BY <2>3, <2>4, <2>5 DEF Top, Last
  <2>7. g.at \in Running /\ g.saved = <<>> /\ Base(g) /\ CallSound(g)
    <3>1. n - 1 \in 1 .. Len(frames) /\ n - 1 \in 1 .. Len(frames) - 1
        BY <2>4
    <3>2. CallSound(frames[n - 1])
        BY <3>1 DEF IrqInv, CallsSound
    <3>3. frames[n - 1].at \in Running /\ frames[n - 1].saved = <<>> /\ Base(frames[n - 1])
        BY <3>1 DEF IrqInv, StackSound
    <3> QED BY <2>5, <3>2, <3>3
  <2>8. FramesTyped'
    <3>1. n \in 1 .. MaxFrames /\ MaxFrames \in Nat
        BY DEF IrqInv, FramesTyped, IrqAssumption
    <3> QED BY <2>3, <2>4, <3>1 DEF FramesTyped
  <2>9. CallsSound'
    <3>1. ASSUME NEW k \in 1 .. n - 1 PROVE CallSound(frames[k])'
      <4>1. CallSound(frames[k])
          BY <2>4 DEF IrqInv, CallsSound
      <4> QED BY <1>3, <2>3, <4>1 DEF CallSound, StepsSound, SavedSound, Base
    <3> QED BY <2>3, <3>1 DEF CallsSound
  <2>10. PieSound'
    <3>1. Base(Top)'
        BY <2>6, <2>7 DEF Base
    <3> QED BY <2>1, <2>6, <2>7, <3>1 DEF PieSound
  <2>11. StackSound'
    <3>1. ASSUME NEW k \in 1 .. n - 1 PROVE frames'[k].at = "run" <=> k = 1
        BY <2>3, <2>4 DEF IrqInv, StackSound
    <3>2. ASSUME NEW k \in 1 .. n - 2
          PROVE  frames'[k].at \in Running /\ frames'[k].saved = <<>> /\ Base(frames[k])'
      <4>1. k \in 1 .. n - 1
          BY <1>1
      <4> QED BY <2>3, <4>1 DEF IrqInv, StackSound, Base
    <3>3. Len(frames') - 1 = n - 2
        BY <1>1, <2>3
    <3> QED BY <2>3, <3>1, <3>2, <3>3 DEF StackSound
  <2>12. TableSound'
    <3>1. ~Leaving' /\ ~Does("context")'
        BY <2>6, <2>7, NotWriting DEF Leaving, Does, CallSound, Lists
    <3> QED BY <1>1, <1>3, <3>1, TableWhole DEF TableSound
  <2>13. Serving'
    <3>1. ASSUME NEW k \in 1 .. n - 1, frames'[k].at = "isr"
          PROVE  frames'[k].handler # Null /\ frames'[k].context = frames'[k].handler
        BY <2>3, <2>4, <3>1 DEF IrqInv, Serving
    <3>2. Top'.at # "entry"
        BY <2>6, <2>7 DEF Running
    <3> QED BY <2>3, <3>1, <3>2 DEF Serving
  <2>14. RegistersTyped'
      BY <1>3, <2>1 DEF IrqInv, RegistersTyped
  <2> QED BY <2>8, <2>9, <2>10, <2>11, <2>12, <2>13, <2>14 DEF IrqInv
<1> QED BY <1>4, <1>5

LEMMA IrqInit == IrqAssumption /\ Init => IrqInv
<1> SUFFICES ASSUME IrqAssumption, Init PROVE IrqInv
    OBVIOUS
<1>1. /\ frames = <<Frame("run")>> /\ PIE = TRUE /\ irq = {} /\ ienable = {} /\ alt_irq_active = {}
      /\ alt_priority_mask = Ids /\ handler = [i \in Ids |-> Null] /\ context = [i \in Ids |-> Null]
    BY DEF Init
<1>2. PICK f : f = Frame("run")
    OBVIOUS
<1>3. 0 \in Ids /\ <<>> \in Rests /\ <<>> \in Seq(BOOLEAN)
    BY PlainLists DEF IrqAssumption, Ids
<1>4. /\ f \in Activations /\ f.at = "run" /\ f.todo = <<>> /\ f.saved = <<>> /\ f.old = <<>>
    BY <1>2, <1>3 DEF Frame, NoCall, Activations, Places
<1>5. /\ frames = <<f>> /\ Len(frames) = 1 /\ frames[1] = f /\ frames \in Seq(Activations) /\ Top = f
    BY <1>1, <1>2, <1>4 DEF Top, Last
<1>6. FramesTyped
  <2>1. 1 \in 1 .. MaxFrames
      BY DEF IrqAssumption
  <2> QED BY <1>5, <2>1 DEF FramesTyped
<1>7. CallSound(f)
    BY <1>4, IdleSound DEF CallSound, SavedSound
<1>8. CallsSound /\ StackSound /\ PieSound
    BY <1>1, <1>4, <1>5, <1>7 DEF CallsSound, StackSound, PieSound, Running, Base
<1>9. TableSound /\ Serving /\ RegistersTyped
    BY <1>1, <1>4, <1>5 DEF TableSound, Serving, RegistersTyped, Does
<1> QED BY <1>6, <1>8, <1>9 DEF IrqInv

LEMMA IrqNext == IrqAssumption /\ IrqInv /\ [Next]_vars => IrqInv'
<1> SUFFICES ASSUME IrqAssumption, IrqInv, [Next]_vars PROVE IrqInv'
    OBVIOUS
<1>1. ASSUME NEW id \in Ids, NEW h \in Handlers \cup {Null}, Register(id, h) PROVE IrqInv'
    BY <1>1, RegisterKeeps
<1>2. ASSUME NEW id \in Ids, Enable(id) \/ Disable(id) PROVE IrqInv'
    BY <1>2, SwitchKeeps
<1>3. CASE EnterCritical \/ LeaveCritical
    BY <1>3, CriticalKeeps
<1>4. CASE DisableAll
    BY <1>4, DisableAllKeeps
<1>5. CASE EnableAll
    BY <1>5, EnableAllKeeps
<1>6. CASE SetHandler
    BY <1>6, SetHandlerKeeps
<1>7. CASE SetContext
    BY <1>7, SetContextKeeps
<1>8. CASE SetActive
    BY <1>8, SetActiveKeeps
<1>9. CASE SetIenable
    BY <1>9, SetIenableKeeps
<1>10. CASE Dispatch
    BY <1>10, DispatchKeeps
<1>11. CASE Serve
    BY <1>11, ServeKeeps
<1>12. CASE Interruptible
    BY <1>12, InterruptibleKeeps
<1>13. CASE NonInterruptible
    BY <1>13, NonInterruptibleKeeps
<1>14. CASE IsrReturns
    BY <1>14, IsrReturnsKeeps
<1>15. CASE TestAgain
    BY <1>15, TestAgainKeeps
<1>16. CASE TakeInterrupt
    BY <1>16, TakeInterruptKeeps
<1>17. ASSUME NEW i \in Ids, Raise(i) PROVE IrqInv'
    BY <1>17, RaiseKeeps
<1>18. CASE UNCHANGED vars
    BY <1>18 DEF vars, masks, table, IrqInv, RegistersTyped, FramesTyped, CallsSound, CallSound, StepsSound,
                 SavedSound, Base, StackSound, PieSound, TableSound, Top, Leaving, Does, Serving, Pending
<1> QED BY <1>1, <1>2, <1>3, <1>4, <1>5, <1>6, <1>7, <1>8, <1>9, <1>10, <1>11, <1>12, <1>13, <1>14,
           <1>15, <1>16, <1>17, <1>18 DEF Next, Requests, Continue

LEMMA IrqInvSound == IrqInv => HandlersSound /\ CallsNest
<1> SUFFICES ASSUME IrqInv PROVE HandlersSound /\ CallsNest
    OBVIOUS
<1>1. /\ FramesTyped /\ DOMAIN frames = 1 .. Len(frames)
      /\ \A k \in 1 .. Len(frames) : frames[k] \in Activations
    BY StackTop, LenProperties DEF IrqInv, FramesTyped
<1>2. TypeOK
    BY <1>1 DEF TypeOK, IrqInv, RegistersTyped, FramesTyped, Activations
<1>3. HandlersSound
    BY <1>1, <1>2 DEF HandlersSound, IrqInv, Serving
<1>4. CallsNest
    BY DEF CallsNest, BetweenCalls, IrqInv, PieSound, Base, Running
<1> QED BY <1>3, <1>4

-----------------------------------------------------------------------------
(* The priorities                                                          *)

LEMMA AboveIsLess == \A id \in Ids : Above(id) # Ids /\ Above(id) \subseteq Ids
<1> SUFFICES ASSUME NEW id \in Ids PROVE Above(id) # Ids /\ Above(id) \subseteq Ids
    OBVIOUS
<1>1. id \notin Above(id)
    BY DEF Above, Ids
<1> QED BY <1>1 DEF Above

LEMMA MaskKept ==
    ASSUME IrqInv, MaskInv, NEW f \in Activations, SetTop(f),
           f.old # <<>> => f.old = <<Entered(Len(frames))>>,
           f.todo \in Switching => Len(frames) <= 2 /\ f.old = <<>>,
           alt_priority_mask' = IF f.old # <<>> THEN Above(f.id) ELSE Entered(Len(frames)),
           ienable' \subseteq alt_priority_mask',
           f.at \in {"isr", "served"} =>
              \/ f.id = Top.id /\ Top.at \in {"isr", "served"}
              \/ Len(frames) > 2 => f.id < frames[Len(frames) - 1].id
    PROVE  MaskInv'
<1> DEFINE n == Len(frames)
<1>1. n \in Nat /\ n >= 1 /\ Top = frames[n]
    BY StackTop DEF IrqInv
<1>2. /\ Len(frames') = n /\ Top' = f /\ frames'[n] = f
      /\ \A k \in 1 .. n - 1 : frames'[k] = frames[k]
    BY TopSet DEF IrqInv
<1>3. PICK m : m = n
    OBVIOUS
<1> HIDE DEF n
<1>4. ASSUME NEW k \in 1 .. m PROVE Entered(k)' = Entered(k)
  <2>1. k > 2 => k - 1 \in 1 .. n - 1
      BY <1>1, <1>3
  <2>2. CASE k <= 2
      BY <2>2 DEF Entered
  <2>3. CASE k > 2
    <3>1. frames'[k-1].id = frames[k-1].id
        BY <1>2, <2>1, <2>3
    <3> QED BY <1>1, <1>3, <2>3, <3>1 DEF Entered, Above
  <2> QED BY <1>1, <1>3, <2>2, <2>3
<1>5. ASSUME NEW k \in 1 .. m
      PROVE  /\ frames'[k].old # <<>> => frames'[k].old = <<Entered(k)'>>
             /\ frames'[k].todo \in Switching => k <= 2 /\ frames'[k].old = <<>>
  <2>1. CASE k = m
    <3>1. frames'[k] = f
        BY <1>2, <1>3, <2>1
    <3>2. Entered(k)' = Entered(n)
        BY <1>3, <1>4, <2>1
    <3> QED BY <1>3, <2>1, <3>1, <3>2 DEF n
  <2>2. CASE k # m
    <3>1. k \in 1 .. n - 1
        BY <1>1, <1>3, <2>2
    <3>2. /\ frames[k].old # <<>> => frames[k].old = <<Entered(k)>>
          /\ frames[k].todo \in Switching => k <= 2 /\ frames[k].old = <<>>
        BY <1>3 DEF MaskInv, n
    <3> QED BY <1>2, <1>4, <3>1, <3>2
  <2> QED BY <2>1, <2>2
<1>6. alt_priority_mask' = Standing'
  <2>1. Entered(Len(frames))' = Entered(m)'
      BY <1>2, <1>3 DEF Entered
  <2>2. Entered(m)' = Entered(n)
    <3>1. m \in 1 .. m
        BY <1>1, <1>3
    <3> QED BY <1>3, <1>4, <3>1
  <2> QED BY <1>2, <2>1, <2>2 DEF Standing, n, Above
<1>7. NestsByPriority'
  <2> SUFFICES ASSUME NEW k \in 2 .. m - 1, frames'[k + 1].at \in {"isr", "served"}
               PROVE  frames'[k + 1].id < frames'[k].id
      BY <1>2, <1>3 DEF NestsByPriority
  <2>1. k \in 1 .. n - 1 /\ frames'[k] = frames[k]
      BY <1>1, <1>2, <1>3
  <2>2. frames[k + 1].at \in {"isr", "served"} => frames[k + 1].id < frames[k].id
      BY <1>3 DEF MaskInv, NestsByPriority, n
  <2>3. CASE k + 1 = n
    <3>1. frames'[k + 1] = f /\ frames[k + 1] = Top /\ n > 2 /\ n - 1 = k
        BY <1>1, <1>2, <1>3, <2>3
    <3> QED BY <2>1, <2>2, <3>1 DEF n
  <2>4. CASE k + 1 # n
    <3>1. k + 1 \in 1 .. n - 1
        BY <1>1, <1>3, <2>4
    <3> QED BY <1>2, <2>1, <2>2, <3>1
  <2> QED BY <2>3, <2>4
<1> QED BY <1>2, <1>3, <1>5, <1>6, <1>7 DEF MaskInv

LEMMA MaskTop ==
    ASSUME IrqInv, MaskInv
    PROVE  /\ Top.old # <<>> => Top.old = <<Entered(Len(frames))>>
           /\ Top.todo \in Switching => Len(frames) <= 2 /\ Top.old = <<>>
           /\ alt_priority_mask = IF Top.old # <<>> THEN Above(Top.id) ELSE Entered(Len(frames))
           /\ ienable \subseteq alt_priority_mask
<1>1. Len(frames) \in 1 .. Len(frames) /\ Top = frames[Len(frames)]
    BY StackTop DEF IrqInv
<1>2. /\ frames[Len(frames)].old # <<>> => frames[Len(frames)].old = <<Entered(Len(frames))>>
      /\ frames[Len(frames)].todo \in Switching => Len(frames) <= 2 /\ frames[Len(frames)].old = <<>>
    BY <1>1 DEF MaskInv
<1> QED BY <1>1, <1>2 DEF MaskInv, Standing

\* A list that still switches an interrupt comes from one that did.
LEMMA SwitchingStays ==
    ASSUME NEW t \in Rests, t # <<>>, Tail(t) \in Switching
    PROVE  t \in Switching
<1>1. Tail(<<"disable_all">>) = <<>> /\ Tail(Sw1) = <<>> /\ Tail(Rg2) = Sw1
    BY HeadsAndTails
<1> QED BY <1>1 DEF Switching

LEMMA StepsKeepMask ==
    ASSUME IrqInv, MaskInv, NEW f \in Activations, SetTop(f), Top.todo # <<>>, f.todo = Tail(Top.todo),
           f.at = Top.at, f.id = Top.id, f.old = Top.old,
           alt_priority_mask' = alt_priority_mask, ienable' \subseteq alt_priority_mask
    PROVE  MaskInv'
<1>1. f.todo \in Switching => Top.todo \in Switching
    BY SwitchingStays, TopFacts
<1> QED BY <1>1, MaskTop, MaskKept

LEMMA SavedSet ==
    ASSUME IrqInv, Top.todo # <<>>, NEW s \in Seq(BOOLEAN)
    PROVE  \E f \in Activations :
              /\ f = [Done EXCEPT !.saved = s] /\ f.todo = Tail(Top.todo)
              /\ f.at = Top.at /\ f.id = Top.id /\ f.old = Top.old
<1>1. PICK g \in Activations :
         g = Done /\ g.todo = Tail(Top.todo) /\ g.at = Top.at /\ g.id = Top.id /\ g.old = Top.old
    BY DoneSound
<1>2. PICK f : f = [g EXCEPT !.saved = s]
    OBVIOUS
<1>3. f \in Activations /\ f.todo = g.todo /\ f.at = g.at /\ f.id = g.id /\ f.old = g.old
    BY <1>2 DEF Activations
<1> QED BY <1>1, <1>2, <1>3

LEMMA CallSteps ==
    ASSUME IrqInv, MaskInv,
           DisableAll \/ EnableAll \/ SetHandler \/ SetContext \/ SetActive \/ SetIenable
    PROVE  MaskInv'
<1>1. Top.todo # <<>> /\ Top.todo \in Rests
    BY TopFacts DEF DisableAll, EnableAll, SetHandler, SetContext, SetActive, SetIenable, Does
<1>2. alt_priority_mask' = alt_priority_mask
    BY DEF DisableAll, EnableAll, SetHandler, SetContext, SetActive, SetIenable, masks
<1>3. ienable' \subseteq alt_priority_mask
  <2>1. CASE SetIenable
    <3>1. Top.todo \in {Sw2, Rg3}
        BY <1>1, <2>1, StepsTaken DEF SetIenable, Does
    <3>2. Top.todo \in Switching
        BY <3>1, PlainLists, Differences DEF Switching, Lists
    <3>3. alt_priority_mask = Ids
        BY <3>2, MaskTop DEF Entered
    <3> QED BY <2>1, <3>3 DEF SetIenable, IrqInv, RegistersTyped
  <2>2. CASE ~SetIenable
      BY <2>2, MaskTop DEF DisableAll, EnableAll, SetHandler, SetContext, SetActive
  <2> QED BY <2>1, <2>2
<1>4. CASE SetTop(Done)
  <2>1. PICK f \in Activations :
           /\ f = Done /\ f.todo = Tail(Top.todo) /\ f.at = Top.at /\ f.id = Top.id /\ f.old = Top.old
      BY <1>1, DoneSound
  <2> QED BY <1>1, <1>2, <1>3, <1>4, <2>1, StepsKeepMask
<1>5. CASE DisableAll \/ EnableAll
  <2>1. Top.saved \in Seq(BOOLEAN) /\ PIE \in BOOLEAN /\ Done.saved = Top.saved
      BY <1>1, TopFacts, DoneSound
  <2>2. PICK s \in Seq(BOOLEAN) : SetTop([Done EXCEPT !.saved = s])
    <3>1. CASE DisableAll
      <4>1. Append(Top.saved, PIE) \in Seq(BOOLEAN)
          BY <2>1
      <4>2. [Done EXCEPT !.saved = Append(@, PIE)] = [Done EXCEPT !.saved = Append(Top.saved, PIE)]
          BY <2>1
      <4> QED BY <3>1, <4>1, <4>2 DEF DisableAll
    <3>2. CASE EnableAll
      <4>1. Len(Top.saved) >= 1
        <5>1. Top.todo \in {Sw1, Rg2}
            BY <1>1, <3>2, StepsTaken DEF EnableAll, Does
        <5> QED BY <5>1, TopFacts, PlainLists DEF CallSound, StepsSound
      <4>2. Front(Top.saved) \in Seq(BOOLEAN)
          BY <2>1, <4>1, FrontIs
      <4>3. [Done EXCEPT !.saved = Front(@)] = [Done EXCEPT !.saved = Front(Top.saved)]
          BY <2>1
      <4> QED BY <3>2, <4>2, <4>3 DEF EnableAll
    <3> QED BY <1>5, <3>1, <3>2
  <2>3. PICK f \in Activations :
           /\ f = [Done EXCEPT !.saved = s] /\ f.todo = Tail(Top.todo)
           /\ f.at = Top.at /\ f.id = Top.id /\ f.old = Top.old
      BY <1>1, SavedSet
  <2> QED BY <1>1, <1>2, <1>3, <2>2, <2>3, StepsKeepMask
<1> QED BY <1>4, <1>5 DEF SetHandler, SetContext, SetActive, SetIenable

LEMMA CallsKeepMask ==
    ASSUME IrqInv, MaskInv, Careful, NEW steps, NEW id, NEW h, Call(steps, id, h), steps \in Rests,
           id \in Ids, h \in Handlers \cup {Null},
           MaySwitch \/ steps \notin Switching
    PROVE  MaskInv'
<1>1. PICK f : f = [Top EXCEPT !.todo = steps, !.call = [id |-> id, handler |-> h]]
    OBVIOUS
<1>2. Top \in Activations
    BY TopFacts
<1>3. /\ f \in Activations /\ f.todo = steps /\ f.at = Top.at /\ f.old = Top.old /\ f.id = Top.id
    BY <1>1, <1>2 DEF Activations
<1>4. SetTop(f) /\ alt_priority_mask' = alt_priority_mask /\ ienable' = ienable
    BY <1>1 DEF Call, masks
<1>5. ASSUME steps \in Switching PROVE Len(frames) <= 2 /\ Top.old = <<>>
  <2>1. alt_priority_mask = Ids
      BY <1>5 DEF MaySwitch
  <2>2. Top.old = <<>>
    <3>1. Above(Top.id) # Ids
        BY <1>2, AboveIsLess DEF Activations
    <3> QED BY <2>1, <3>1, MaskTop
  <2>3. ASSUME Len(frames) > 2 PROVE FALSE
    <3>1. Len(frames) - 1 \in 1 .. Len(frames)
        BY <2>3, TopFacts
    <3>2. frames[Len(frames) - 1].id \in Ids
        BY <3>1, StackTop DEF IrqInv, Activations
    <3>3. Entered(Len(frames)) # Ids
        BY <2>3, <3>2, AboveIsLess, TopFacts DEF Entered
    <3> QED BY <2>1, <2>2, <3>3, MaskTop
  <2> QED BY <2>2, <2>3, TopFacts
<1> QED BY <1>3, <1>4, <1>5, MaskTop, MaskKept

LEMMA RequestsKeepMask ==
    ASSUME IrqAssumption, IrqInv, MaskInv, Careful, NEW id \in Ids, NEW h \in Handlers \cup {Null},
           Register(id, h) \/ Enable(id) \/ Disable(id) \/ EnterCritical \/ LeaveCritical
    PROVE  MaskInv'
<1>0. 0 \in Ids
    BY DEF IrqAssumption, Ids
<1>1. CASE Register(id, h)
  <2>1. Rg8(IF h = Null THEN "inactive" ELSE "active") \in Rests
      BY RegisterLists DEF Lists
  <2> QED BY <1>1, <2>1, RegisterIs, CallsKeepMask DEF Register
<1>2. CASE Enable(id) \/ Disable(id)
  <2>1. EnableSteps \in Rests /\ DisableSteps \in Rests
      BY DEF EnableSteps, DisableSteps, Rests, Rests0, Sw4, Lists
  <2> QED BY <1>2, <2>1, CallsKeepMask DEF Enable, Disable
<1>3. CASE EnterCritical \/ LeaveCritical
  <2>1. /\ <<"disable_all">> \in Rests /\ <<"disable_all">> \notin Switching
        /\ <<"enable_all">> \in Rests /\ <<"enable_all">> \notin Switching
      BY PlainLists DEF Switching, Sw1
  <2> QED BY <1>0, <1>3, <2>1, CallsKeepMask DEF EnterCritical, LeaveCritical
<1> QED BY <1>1, <1>2, <1>3

LEMMA DispatchKeepsMask == IrqInv /\ MaskInv /\ Dispatch => MaskInv'
<1> SUFFICES ASSUME IrqInv, MaskInv, Dispatch PROVE MaskInv'
    OBVIOUS
<1>1. /\ Top.at = "entry" /\ Top.at \notin Running /\ Pending # {} /\ Top \in Activations
    BY TopFacts DEF Dispatch, Running
<1>2. Top.old = <<>> /\ Top.todo = <<>>
    BY <1>1 DEF IrqInv, PieSound
<1>3. Chosen \in Pending /\ Chosen \in Ids
  <2>1. Pending \in SUBSET Nat /\ Pending \subseteq Ids
      BY DEF Pending, IrqInv, RegistersTyped, Ids
  <2> QED BY <1>1, <2>1, MinIs DEF Chosen
<1>4. PICK f : f = [Top EXCEPT !.at = "isr", !.id = Chosen,
                               !.handler = handler[Chosen], !.context = context[Chosen]]
    OBVIOUS
<1>5. /\ f \in Activations /\ f.old = <<>> /\ f.todo = <<>> /\ f.id = Chosen
    BY <1>1, <1>2, <1>3, <1>4 DEF Activations, Places, IrqInv, RegistersTyped
<1>6. SetTop(f) /\ alt_priority_mask' = alt_priority_mask /\ ienable' = ienable
    BY <1>4 DEF Dispatch, masks
<1>7. Chosen \in Entered(Len(frames))
    BY <1>2, <1>3, MaskTop DEF Pending
<1>8. Len(frames) > 2 => Chosen < frames[Len(frames) - 1].id
    BY <1>7, TopFacts DEF Entered, Above
<1>9. f.todo \notin Switching
    BY <1>5 DEF Switching
<1> QED BY <1>2, <1>5, <1>6, <1>8, <1>9, MaskTop, MaskKept

LEMMA HandlerKeepsMask ==
    ASSUME IrqAssumption, IrqInv, MaskInv, Serve \/ Interruptible \/ NonInterruptible \/ IsrReturns
    PROVE  MaskInv'
<1>0. Top \in Activations /\ Top.todo = <<>> /\ <<>> \notin Switching
    BY TopFacts DEF Serve, Interruptible, NonInterruptible, IsrReturns, MayCall, BetweenCalls, Switching
<1>1. CASE Serve
  <2>1. PICK f : f = [Top EXCEPT !.at = "served"]
      OBVIOUS
  <2>2. /\ f \in Activations /\ f.todo = <<>> /\ f.old = Top.old /\ f.id = Top.id
      BY <1>0, <2>1 DEF Activations, Places
  <2>3. /\ SetTop(f) /\ alt_priority_mask' = alt_priority_mask /\ ienable' = ienable
        /\ Top.at = "isr"
      BY <1>1, <2>1 DEF Serve, masks
  <2> QED BY <1>0, <2>2, <2>3, MaskTop, MaskKept
<1>2. CASE Interruptible
  <2>1. PICK f : f = [Top EXCEPT !.old = <<alt_priority_mask>>]
      OBVIOUS
  <2>2. /\ f \in Activations /\ f.todo = <<>> /\ f.old = <<alt_priority_mask>> /\ f.id = Top.id
        /\ f.at = Top.at
      BY <1>0, <2>1 DEF Activations, IrqInv, RegistersTyped
  <2>3. /\ SetTop(f) /\ alt_priority_mask' = Above(Top.id) /\ Top.at = "isr" /\ Top.old = <<>>
        /\ ienable' \subseteq alt_priority_mask'
      BY <1>2, <2>1 DEF Interruptible, MayCall, BetweenCalls
  <2>4. alt_priority_mask = Entered(Len(frames)) /\ f.old # <<>>
      BY <2>2, <2>3, MaskTop
  <2> QED BY <1>0, <2>2, <2>3, <2>4, MaskKept
<1>3. CASE NonInterruptible
  <2>1. PICK f : f = [Top EXCEPT !.old = <<>>]
      OBVIOUS
  <2>2. /\ f \in Activations /\ f.todo = <<>> /\ f.old = <<>> /\ f.id = Top.id /\ f.at = Top.at
      BY <1>0, <2>1 DEF Activations
  <2>3. Last(Top.old) = Entered(Len(frames))
      BY <1>3, MaskTop DEF NonInterruptible, Last
  <2>4. /\ SetTop(f) /\ alt_priority_mask' = Entered(Len(frames))
        /\ ienable' \subseteq alt_priority_mask'
      BY <1>3, <2>1, <2>3 DEF NonInterruptible
  <2> QED BY <1>0, <2>2, <2>4, MaskKept
<1>4. CASE IsrReturns
  <2>1. PICK f \in Activations : f = Frame("test")
      BY NewFrame
  <2>2. f.at = "test" /\ f.todo = <<>> /\ f.old = <<>>
      BY <2>1, NewFrame
  <2>3. /\ SetTop(f) /\ alt_priority_mask' = alt_priority_mask /\ ienable' = ienable
        /\ Top.old = <<>>
      BY <1>4, <2>1 DEF IsrReturns, masks
  <2> QED BY <1>0, <2>2, <2>3, MaskTop, MaskKept
<1> QED BY <1>1, <1>2, <1>3, <1>4

LEMMA TakeInterruptKeepsMask == IrqAssumption /\ IrqInv /\ MaskInv /\ TakeInterrupt => MaskInv'
<1> SUFFICES ASSUME IrqAssumption, IrqInv, MaskInv, TakeInterrupt PROVE MaskInv'
    OBVIOUS
<1>0. PICK n \in Nat : n = Len(frames) /\ n >= 1 /\ Top = frames[n]
    BY StackTop DEF IrqInv
<1>1. /\ CallSound(Top) /\ (Top.at = "run" <=> n = 1) /\ Top \in Activations /\ PIE
    BY <1>0, TopFacts DEF TakeInterrupt
<1>2. Base(Top)
    BY <1>1, TopFacts DEF IrqInv, PieSound
<1>3. alt_priority_mask' = alt_priority_mask /\ ienable' = ienable
    BY DEF TakeInterrupt, masks
<1>4. PICK f \in Activations : f = Frame("entry")
    BY NewFrame
<1>5. f.at = "entry" /\ f.todo = <<>> /\ f.old = <<>>
    BY <1>4, NewFrame
<1>6. /\ Len(frames') = n + 1 /\ frames'[n + 1] = f
      /\ \A k \in 1 .. n : frames'[k] = frames[k]
  <2>1. frames' = Append(frames, f) /\ frames \in Seq(Activations)
      BY <1>4 DEF TakeInterrupt, IrqInv, FramesTyped
  <2> QED BY <1>0, <2>1, AppendProperties
<1>7. Top' = f
    BY <1>0, <1>6 DEF Top, Last
<1>8. ASSUME NEW k \in 1 .. n PROVE Entered(k)' = Entered(k)
  <2>1. k > 2 => k - 1 \in 1 .. n
      OBVIOUS
  <2>2. CASE k <= 2
      BY <2>2 DEF Entered
  <2>3. CASE k > 2
    <3>1. frames'[k-1].id = frames[k-1].id
        BY <1>6, <2>1, <2>3
    <3>2. CASE k <= 2
        BY <3>2 DEF Entered
    <3>3. CASE k > 2
      <4>1. frames'[k-1].id = frames[k-1].id
          BY <2>3, <3>1, <3>3
      <4> QED BY <3>3, <4>1 DEF Entered, Above
    <3> QED BY <3>2, <3>3
  <2> QED BY <2>2, <2>3
<1>9. ASSUME NEW k \in 1 .. n + 1
      PROVE  /\ frames'[k].old # <<>> => frames'[k].old = <<Entered(k)'>>
             /\ frames'[k].todo \in Switching => k <= 2 /\ frames'[k].old = <<>>
  <2>1. CASE k = n + 1
      BY <1>5, <1>6, <2>1 DEF Switching
  <2>2. CASE k \in 1 .. n
    <3>1. /\ frames[k].old # <<>> => frames[k].old = <<Entered(k)>>
          /\ frames[k].todo \in Switching => k <= 2 /\ frames[k].old = <<>>
        BY <1>0, <2>2 DEF MaskInv
    <3> QED BY <1>6, <1>8, <2>2, <3>1
  <2> QED BY <2>1, <2>2
<1>10. alt_priority_mask' = Standing'
  <2>1. Standing' = IF n + 1 <= 2 THEN Ids ELSE Above(frames[n].id)
    <3>1. Entered(Len(frames))' = IF n + 1 <= 2 THEN Ids ELSE Above(frames'[n].id)
        BY <1>0, <1>6 DEF Entered, Above
    <3>2. frames'[n] = frames[n]
        BY <1>0, <1>6
    <3> QED BY <1>5, <1>7, <3>1, <3>2 DEF Standing, Above
  <2>2. CASE n = 1
    <3>1. Top.old = <<>>
        BY <1>1, <2>2 DEF CallSound, SavedSound
    <3> QED BY <1>0, <1>3, <2>1, <2>2, <3>1, MaskTop DEF Entered
  <2>3. CASE n # 1
    <3>1. Top.old # <<>>
        BY <1>1, <1>2, <2>3 DEF Base
    <3> QED BY <1>0, <1>3, <2>1, <2>3, <3>1, MaskTop
  <2> QED BY <2>2, <2>3
<1>11. NestsByPriority'
  <2> SUFFICES ASSUME NEW k \in 2 .. n, frames'[k + 1].at \in {"isr", "served"}
               PROVE  frames'[k + 1].id < frames'[k].id
      BY <1>6 DEF NestsByPriority
  <2>1. k + 1 # n + 1
      BY <1>5, <1>6
  <2>2. k \in 2 .. n - 1 /\ k + 1 \in 1 .. n /\ k \in 1 .. n
      BY <2>1
  <2> QED BY <1>0, <1>6, <2>2 DEF MaskInv, NestsByPriority
<1> QED BY <1>3, <1>6, <1>9, <1>10, <1>11, MaskTop DEF MaskInv

LEMMA TestAgainKeepsMask == IrqAssumption /\ IrqInv /\ MaskInv /\ TestAgain => MaskInv'
<1> SUFFICES ASSUME IrqAssumption, IrqInv, MaskInv, TestAgain PROVE MaskInv'
    OBVIOUS
<1>0. PICK n \in Nat : n = Len(frames) /\ n >= 1 /\ Top = frames[n]
    BY StackTop DEF IrqInv
<1>1. Top.at = "test" /\ n # 1 /\ Top.at \notin Running
    BY <1>0, TopFacts DEF TestAgain, Running
<1>2. Top.old = <<>> /\ Top.todo = <<>>
    BY <1>1 DEF IrqInv, PieSound
<1>3. alt_priority_mask' = alt_priority_mask /\ ienable' = ienable
    BY DEF TestAgain, masks
<1>4. CASE Pending # {}
  <2>1. PICK f \in Activations : f = Frame("entry")
      BY NewFrame
  <2>2. f.at = "entry" /\ f.todo = <<>> /\ f.old = <<>> /\ f.todo \notin Switching
      BY <2>1, NewFrame DEF Switching
  <2>3. SetTop(f)
      BY <1>4, <2>1 DEF TestAgain
  <2> QED BY <1>2, <1>3, <2>2, <2>3, MaskTop, MaskKept
<1>5. CASE Pending = {}
  <2>1. frames' = Front(frames) /\ frames \in Seq(Activations)
      BY <1>5 DEF TestAgain, IrqInv, FramesTyped
  <2>2. PICK m \in Nat : m = n - 1 /\ m >= 1
      BY <1>0, <1>1
  <2>3. Len(frames') = m /\ \A k \in 1 .. m : frames'[k] = frames[k]
      BY <1>0, <2>1, <2>2, FrontIs
  <2>4. Top' = frames[m]
      BY <2>2, <2>3 DEF Top, Last
  <2>5. ASSUME NEW k \in 1 .. m PROVE Entered(k)' = Entered(k)
    <3>1. k > 2 => k - 1 \in 1 .. m
        OBVIOUS
    <3>2. CASE k <= 2
        BY <3>2 DEF Entered
    <3>3. CASE k > 2
      <4>1. frames'[k-1].id = frames[k-1].id
          BY <2>3, <3>1, <3>3
      <4> QED BY <3>3, <4>1 DEF Entered, Above
    <3> QED BY <3>2, <3>3
  <2>6. ASSUME NEW k \in 1 .. m
        PROVE  /\ frames'[k].old # <<>> => frames'[k].old = <<Entered(k)'>>
               /\ frames'[k].todo \in Switching => k <= 2 /\ frames'[k].old = <<>>
    <3>1. k \in 1 .. Len(frames)
        BY <1>0, <2>2
    <3>2. /\ frames[k].old # <<>> => frames[k].old = <<Entered(k)>>
          /\ frames[k].todo \in Switching => k <= 2 /\ frames[k].old = <<>>
        BY <3>1 DEF MaskInv
    <3> QED BY <2>3, <2>5, <3>2
  <2>7. alt_priority_mask = IF n <= 2 THEN Ids ELSE Above(frames[m].id)
      BY <1>0, <1>2, <2>2, MaskTop DEF Entered
  <2>8. /\ frames[m].at = "run" <=> m = 1
        /\ Base(frames[m]) /\ CallSound(frames[m])
    <3>1. m \in 1 .. Len(frames) /\ m \in 1 .. Len(frames) - 1
        BY <1>0, <2>2
    <3> QED BY <3>1 DEF IrqInv, StackSound, CallsSound
  <2>9. alt_priority_mask' = Standing'
    <3>1. CASE m = 1
      <4>1. frames[m].old = <<>>
          BY <2>8, <3>1 DEF CallSound, SavedSound
      <4> QED BY <1>0, <1>3, <2>2, <2>3, <2>4, <2>7, <3>1, <4>1 DEF Standing, Entered
    <3>2. CASE m # 1
      <4>1. frames[m].old # <<>>
          BY <2>8, <3>2 DEF Base
      <4> QED BY <1>0, <1>3, <2>2, <2>4, <2>7, <3>2, <4>1 DEF Standing, Above
    <3> QED BY <3>1, <3>2
  <2>10. NestsByPriority'
    <3> SUFFICES ASSUME NEW k \in 2 .. m - 1, frames'[k + 1].at \in {"isr", "served"}
                 PROVE  frames'[k + 1].id < frames'[k].id
        BY <2>3 DEF NestsByPriority
    <3>1. k \in 2 .. n - 1 /\ k \in 1 .. m /\ k + 1 \in 1 .. m
        BY <1>0, <2>2
    <3> QED BY <1>0, <2>3, <3>1 DEF MaskInv, NestsByPriority
  <2> QED BY <1>3, <2>3, <2>6, <2>9, <2>10, MaskTop DEF MaskInv
<1> QED BY <1>4, <1>5

LEMMA MaskInit == IrqAssumption /\ Init => MaskInv
<1> SUFFICES ASSUME IrqAssumption, Init PROVE MaskInv
    OBVIOUS
<1>1. frames = <<Frame("run")>> /\ ienable = {} /\ alt_priority_mask = Ids
    BY DEF Init
<1>2. PICK f : f = Frame("run")
    OBVIOUS
<1>3. f.todo = <<>> /\ f.old = <<>>
    BY <1>2 DEF Frame
<1>4. Len(frames) = 1 /\ frames[1] = f /\ Top = f
    BY <1>1, <1>2 DEF Top, Last
<1> QED BY <1>1, <1>3, <1>4 DEF MaskInv, Standing, Entered, Switching, NestsByPriority

LEMMA MaskNext == IrqAssumption /\ Careful /\ IrqInv /\ MaskInv /\ [Next]_vars => MaskInv'
<1> SUFFICES ASSUME IrqAssumption, Careful, IrqInv, MaskInv, [Next]_vars PROVE MaskInv'
    OBVIOUS
<1>1. ASSUME NEW id \in Ids, NEW h \in Handlers \cup {Null},
             Register(id, h) \/ Enable(id) \/ Disable(id) \/ EnterCritical \/ LeaveCritical
      PROVE  MaskInv'
    BY <1>1, RequestsKeepMask
<1>2. CASE DisableAll \/ EnableAll \/ SetHandler \/ SetContext \/ SetActive \/ SetIenable
    BY <1>2, CallSteps
<1>3. CASE Dispatch
    BY <1>3, DispatchKeepsMask
<1>4. CASE Serve \/ Interruptible \/ NonInterruptible \/ IsrReturns
    BY <1>4, HandlerKeepsMask
<1>5. CASE TakeInterrupt
    BY <1>5, TakeInterruptKeepsMask
<1>6. CASE TestAgain
    BY <1>6, TestAgainKeepsMask
<1>7. ASSUME frames' = frames, alt_priority_mask' = alt_priority_mask, ienable' = ienable
      PROVE  MaskInv'
    BY <1>7 DEF MaskInv, Standing, Entered, Above, Top, NestsByPriority
<1>8. ASSUME NEW i \in Ids, Raise(i) PROVE MaskInv'
    BY <1>7, <1>8 DEF Raise, masks
<1>9. CASE UNCHANGED vars
    BY <1>7, <1>9 DEF vars, masks
<1>10. 0 \in Ids
    BY DEF IrqAssumption, Ids
<1>11. CASE Requests
    BY <1>1, <1>4, <1>10, <1>11 DEF Requests
<1>12. CASE Continue
    BY <1>1, <1>2, <1>3, <1>4, <1>6, <1>10, <1>12 DEF Continue
<1> QED BY <1>5, <1>8, <1>9, <1>11, <1>12 DEF Next

-----------------------------------------------------------------------------
(* The theorems                                                            *)

\* A handler that runs was registered and gets its own context: no interrupt finds the
\* entry that alt_irq_register.c:80-95 is writing (HandlersSound).  And whoever is between
\* calls has interrupts on exactly if it has restored every context it saved, as
\* alt_irq_enable_all (alt_irq.h:131) has to leave them (CallsNest).
THEOREM InterruptsKept ==
    ASSUME IrqAssumption PROVE Spec => [](HandlersSound /\ CallsNest)
<1>1. Init => IrqInv
    BY IrqInit
<1>2. IrqInv /\ [Next]_vars => IrqInv'
    BY IrqNext
<1>3. IrqInv => HandlersSound /\ CallsNest
    BY IrqInvSound
<1> QED BY <1>1, <1>2, <1>3, PTL DEF Spec

\* A handler is interrupted only by handlers of a higher priority, as alt_legacy_irq.h:116
\* promises, if handlers do not switch interrupts under a priority mask.
THEOREM PrioritiesNest ==
    ASSUME IrqAssumption, Careful PROVE Spec => []NestsByPriority
<1>1. Init => IrqInv /\ MaskInv
    BY IrqInit, MaskInit
<1>2. IrqInv /\ MaskInv /\ [Next]_vars => (IrqInv /\ MaskInv)'
    BY IrqNext, MaskNext
<1>3. IrqInv /\ MaskInv => NestsByPriority
    BY DEF MaskInv
<1> QED BY <1>1, <1>2, <1>3, PTL DEF Spec
==============================================================================
