--------------------------- MODULE JtagUartProofs ---------------------------
(***************************************************************************)
(* The interrupt-driven driver of the JTAG UART, for every size of the     *)
(* buffers and of the FIFOs: no wake-up is lost, a call waits only when it *)
(* must, and no character is lost, doubled or overtaken.                   *)
(***************************************************************************)
EXTENDS JtagUart, SequenceTheorems, TLAPS

-----------------------------------------------------------------------------
(* The arithmetic of a circular buffer                                     *)

\* The driver's comparisons choose the smaller of two numbers.
LEMMA MinOfTwo ==
    ASSUME NEW a \in Int, NEW b \in Int
    PROVE  Min({a, b}) = IF a <= b THEN a ELSE b
<1> DEFINE m == IF a <= b THEN a ELSE b
<1>1. m \in {a, b} /\ \A y \in {a, b} : m <= y
    OBVIOUS
<1>2. \A x \in {a, b} : (\A y \in {a, b} : x <= y) => x = m
    OBVIOUS
<1> HIDE DEF m
<1>3. Min({a, b}) = m
    BY <1>1, <1>2 DEF Min
<1> QED BY <1>3 DEF m

\* Slots are numbers below the length of the buffer.
LEMMA SlotsInNat == BUF_LEN \in Nat /\ BUF_LEN > 1 /\ Slots \subseteq Nat
                    /\ 0 \in Slots
BY JtagUartAssumption DEF Slots

\* An offset modulo the length is a slot.
LEMMA OffsetInSlots == ASSUME NEW x \in Int PROVE x % BUF_LEN \in Slots
BY SlotsInNat DEF Slots

\* An index moves on by at most one turn: past the end it starts again at 0.
LEMMA AdvanceWraps ==
    ASSUME NEW i \in Slots, NEW k \in 0 .. BUF_LEN
    PROVE  Advance(i, k) = IF i + k < BUF_LEN THEN i + k ELSE (i + k) - BUF_LEN
<1>1. CASE i + k < BUF_LEN
    BY <1>1, SlotsInNat DEF Advance, Slots
<1>2. CASE i + k >= BUF_LEN
    BY <1>2, SlotsInNat DEF Advance, Slots
<1> QED BY <1>1, <1>2, SlotsInNat DEF Slots

LEMMA AdvanceInSlots ==
    ASSUME NEW i \in Slots, NEW k \in 0 .. BUF_LEN
    PROVE  Advance(i, k) \in Slots
BY SlotsInNat DEF Advance, Slots

\* The distance from one index to another, around the end if need be.
LEMMA Distance ==
    ASSUME NEW i \in Slots, NEW o \in Slots
    PROVE  (i - o) % BUF_LEN = IF i >= o THEN i - o ELSE (i - o) + BUF_LEN
<1>1. CASE i >= o
    BY <1>1, SlotsInNat DEF Slots
<1>2. CASE i < o
    BY <1>2, SlotsInNat DEF Slots
<1> QED BY <1>1, <1>2, SlotsInNat DEF Slots

\* Filling the slots behind one index, or draining those before the other,
\* changes the distance by their number, the end of the buffer or not.
LEMMA DistanceMoves ==
    ASSUME NEW i \in Slots, NEW o \in Slots, NEW k \in 0 .. BUF_LEN
    PROVE  /\ k < BUF_LEN - ((i - o) % BUF_LEN) =>
                  (Advance(i, k) - o) % BUF_LEN = ((i - o) % BUF_LEN) + k
           /\ k <= (i - o) % BUF_LEN =>
                  (i - Advance(o, k)) % BUF_LEN = ((i - o) % BUF_LEN) - k
<1> DEFINE ik == Advance(i, k)
           ok == Advance(o, k)
           d  == (i - o) % BUF_LEN
<1>1. ik \in Slots /\ ok \in Slots
    BY AdvanceInSlots
<1>2. /\ ik = IF i + k < BUF_LEN THEN i + k ELSE (i + k) - BUF_LEN
      /\ ok = IF o + k < BUF_LEN THEN o + k ELSE (o + k) - BUF_LEN
      /\ d = IF i >= o THEN i - o ELSE (i - o) + BUF_LEN
    BY AdvanceWraps, Distance
<1> HIDE DEF ik, ok, d
<1>3. /\ (ik - o) % BUF_LEN = IF ik >= o THEN ik - o ELSE (ik - o) + BUF_LEN
      /\ (i - ok) % BUF_LEN = IF i >= ok THEN i - ok ELSE (i - ok) + BUF_LEN
    BY <1>1, Distance
<1>4. k < BUF_LEN - d => (ik - o) % BUF_LEN = d + k
    BY <1>2, <1>3, SlotsInNat DEF Slots
<1>5. k <= d => (i - ok) % BUF_LEN = d - k
    BY <1>2, <1>3, SlotsInNat DEF Slots
<1> QED BY <1>4, <1>5 DEF ik, ok, d

-----------------------------------------------------------------------------
(* Type correctness                                                        *)

\* The piece that can be read, or written, does not pass the end of the buffer.
LEMMA PieceInSlots ==
    ASSUME NEW i \in Slots, NEW o \in Slots
    PROVE  Readable(i, o) \in Slots /\ Writable(i, o) \in Slots
BY SlotsInNat DEF Readable, Writable, Slots

\* The indices are slots.
LEMMA Indices ==
    ASSUME TypeOK
    PROVE  /\ rx_in \in Slots /\ rx_out \in Slots
           /\ tx_in \in Slots /\ tx_out \in Slots
           /\ in \in Slots /\ out \in Slots
BY DEF TypeOK

\* What the interrupt moves fits: the receive buffer, and what the FIFO holds;
\* what the transmit buffer holds, and the FIFO.
LEMMA InterruptFits ==
    ASSUME TypeOK
    PROVE  /\ RxRoom \in Slots /\ TxUsed \in Slots
           /\ Received \in Nat /\ Received <= RxRoom /\ Received <= Len(rfifo)
           /\ Transmitted \in Nat /\ Transmitted <= TxUsed
           /\ Len(wfifo) + Transmitted <= FifoDepth
<1>1. RxRoom \in Slots /\ TxUsed \in Slots
    BY Indices, Distance, SlotsInNat DEF RxRoom, TxUsed, Slots
<1>2. Len(rfifo) \in Nat /\ Len(wfifo) \in Nat /\ FifoDepth \in Nat
      /\ Len(wfifo) <= FifoDepth
    BY JtagUartAssumption, LenProperties DEF TypeOK
<1>3. RxRoom \in Nat /\ TxUsed \in Nat /\ FifoDepth - Len(wfifo) \in Nat
    BY <1>1, <1>2, SlotsInNat
<1>4. Min({RxRoom, Len(rfifo)}) =
          IF RxRoom <= Len(rfifo) THEN RxRoom ELSE Len(rfifo)
    BY <1>2, <1>3, MinOfTwo
<1>5. Min({TxUsed, FifoDepth - Len(wfifo)}) =
          IF TxUsed <= FifoDepth - Len(wfifo) THEN TxUsed
                                              ELSE FifoDepth - Len(wfifo)
    BY <1>2, <1>3, MinOfTwo
<1> HIDE DEF RxRoom, TxUsed
<1> QED BY <1>1, <1>2, <1>3, <1>4, <1>5 DEF Received, Transmitted

\* The contents of the buffers and FIFOs stay places of the stream.
LEMMA TypeIrq ==
    ASSUME TypeOK, Irq PROVE TypeOK'
<1> USE SlotsInNat
<1>1. rx_in' \in Slots /\ tx_out' \in Slots
  <2>1. Received \in 0 .. BUF_LEN /\ Transmitted \in 0 .. BUF_LEN
      BY InterruptFits DEF Slots
  <2> QED BY <2>1, Indices, AdvanceInSlots DEF Irq
<1>2. \A k \in 1 .. Len(rfifo) : rfifo[k] \in Marks
    BY ElementOfSeq DEF TypeOK
<1>3. rx_buf' \in [Slots -> Marks]
  <2>1. \A i \in Slots : (i - rx_in) % BUF_LEN \in Nat
      BY DEF TypeOK, Slots
  <2>2. \A i \in Slots : (i - rx_in) % BUF_LEN < Received =>
            rfifo[((i - rx_in) % BUF_LEN) + 1] \in Marks
      BY <1>2, <2>1, InterruptFits, LenProperties DEF TypeOK
  <2> QED BY <2>2 DEF Irq, TypeOK
<1>4. rfifo' \in Seq(Marks) /\ Len(rfifo') <= FifoDepth
  <2>1. Len(rfifo) \in Nat /\ Received + 1 \in Int
      BY InterruptFits, LenProperties DEF TypeOK
  <2>2. \A k \in Received + 1 .. Len(rfifo) : rfifo[k] \in Marks
      BY <1>2, <2>1, InterruptFits
  <2>3. rfifo' \in Seq(Marks) /\ Len(rfifo') <= Len(rfifo)
      BY <2>1, <2>2, InterruptFits, SubSeqProperties DEF Irq
  <2> QED BY <2>1, <2>3, LenProperties, JtagUartAssumption DEF TypeOK
<1>5. wfifo' \in Seq(Marks) /\ Len(wfifo') <= FifoDepth
  <2>1. \A k \in 1 .. Transmitted : tx_buf[(tx_out + k - 1) % BUF_LEN] \in Marks
    <3>1. \A k \in 1 .. Transmitted : (tx_out + k - 1) % BUF_LEN \in Slots
      <4>1. tx_out \in Int
          BY Indices DEF Slots
      <4>0. Transmitted \in Nat
          BY InterruptFits
      <4>2. \A k \in 1 .. Transmitted : tx_out + k - 1 \in Int
          BY <4>0, <4>1
      <4> QED BY <4>2, OffsetInSlots
    <3> QED BY <3>1 DEF TypeOK
  <2> DEFINE sending == [k \in 1 .. Transmitted |->
                            tx_buf[(tx_out + k - 1) % BUF_LEN]]
  <2>2. sending \in Seq(Marks) /\ Len(sending) = Transmitted
    <3> HIDE DEF Transmitted
    <3>1. sending \in [1 .. Transmitted -> Marks]
        BY <2>1
    <3>2. sending \in Seq(Marks)
        BY <3>1, InterruptFits, SeqDef
    <3>3. 1 .. Transmitted = 1 .. Len(sending) /\ Len(sending) \in Nat
        BY <3>1, <3>2, LenProperties
    <3> QED BY <3>2, <3>3, InterruptFits
  <2> HIDE DEF sending
  <2>3. wfifo \o sending \in Seq(Marks)
        /\ Len(wfifo \o sending) = Len(wfifo) + Transmitted
      BY <2>2, ConcatProperties DEF TypeOK
  <2> QED BY <2>3, InterruptFits DEF Irq, sending
<1>6. irq_enable' \subseteq {"RE", "WE"}
    BY DEF Irq, TypeOK
<1> QED BY <1>1, <1>3, <1>4, <1>5, <1>6
        DEF Irq, TypeOK, presence, locals, streams

-----------------------------------------------------------------------------
(* The inductive invariant                                                 *)

\* A copy is of no more than is left of the request.
PieceFits == pc \in {"rx_copy", "tx_copy"} => n <= left

\* Neither call looks for more, or waits, once it has all it asked for.
MoreWanted == pc \in {"rx_load", "rx_spin", "tx_load", "tx_spin", "tx_check",
                      "rx_check"} => left > 0

\* A read that moves rx_out has a result, and so will come to rx_enable.
RoomIsResult == pc = "rx_store" => moved

\* A read waits because it found its in equal to rx_out, which it alone moves.
ReadFoundNothing == pc = "rx_spin" => in = rx_out

\* A write waits, or is about to, because it found no room; it alone moves tx_in.
WriteFoundNoRoom ==
    pc = "tx_spin" \/ (pc = "tx_enable" /\ left > 0) =>
        in = tx_in /\ Writable(in, out) = 0

-----------------------------------------------------------------------------
(* Type correctness, step by step                                          *)

LEMMA TypeInit == Init => TypeOK
<1> SUFFICES ASSUME Init PROVE TypeOK
    OBVIOUS
<1>1. 0 \in Marks /\ 0 \in Slots
    BY JtagUartAssumption DEF Marks, Slots
<1>2. <<>> \in Seq(Marks) /\ Len(<<>>) <= FifoDepth
    BY JtagUartAssumption
<1>3. [i \in Slots |-> 0] \in [Slots -> Marks]
    BY <1>1
<1>4. timeout \in 2 .. INT_MAX /\ host_inactive \in 0 .. INT_MAX-2
    BY JtagUartAssumption DEF Init
<1> QED BY <1>1, <1>2, <1>3, <1>4 DEF Init, TypeOK

\* A place moved on is a place.
LEMMA PlaceInMarks ==
    ASSUME NEW x \in Int PROVE x % Places \in Marks
BY JtagUartAssumption DEF Marks

LEMMA TypeHost == TypeOK /\ (HostSends \/ HostTakes) => TypeOK'
<1> SUFFICES ASSUME TypeOK, HostSends \/ HostTakes PROVE TypeOK'
    OBVIOUS
<1>1. (sent + 1) % Places \in Marks /\ (taken + 1) % Places \in Marks
  <2>1. sent + 1 \in Int /\ taken + 1 \in Int
    <3>1. sent \in Marks /\ taken \in Marks
        BY DEF TypeOK
    <3> QED BY <3>1 DEF Marks
  <2> QED BY <2>1, PlaceInMarks
<1>2. Len(rfifo) \in Nat /\ Len(wfifo) \in Nat /\ FifoDepth \in Nat
    BY JtagUartAssumption, LenProperties DEF TypeOK
<1>3. CASE HostSends
  <2>1. sent \in Marks /\ rfifo \in Seq(Marks)
      BY DEF TypeOK
  <2>2. rfifo' \in Seq(Marks) /\ Len(rfifo') <= FifoDepth
      BY <1>2, <1>3, <2>1, AppendProperties DEF HostSends
  <2> QED BY <1>1, <1>3, <2>2 DEF HostSends, TypeOK, presence, rx, tx, locals
<1>4. CASE HostTakes
  <2>1. wfifo' \in Seq(Marks) /\ Len(wfifo') <= FifoDepth
      BY <1>2, <1>4, HeadTailProperties DEF HostTakes, TypeOK
  <2> QED BY <1>1, <1>4, <2>1 DEF HostTakes, TypeOK, presence, rx, tx, locals
<1> QED BY <1>3, <1>4

\* The piece of a copy is a slot's number, and no more than was asked for.
LEMMA PieceOfRequest ==
    ASSUME NEW piece \in Slots, NEW request \in Nat
    PROVE  Min({piece, request}) \in Slots /\ Min({piece, request}) <= request
<1>1. piece \in Int /\ request \in Int
    BY DEF Slots
<1>2. Min({piece, request}) = IF piece <= request THEN piece ELSE request
    BY <1>1, MinOfTwo
<1> QED BY <1>2, SlotsInNat DEF Slots

LEMMA TypeRead ==
    ASSUME TypeOK, PieceFits,
           RxLoad \/ RxCopy \/ RxStore \/ RxSpin \/ RxCheck \/ RxEnable
    PROVE  TypeOK'
<1> USE DEF device, presence, rx, tx, locals, streams
<1>1. CASE RxLoad
  <2>1. Min({Readable(rx_in, rx_out), left}) \in Slots
      BY Indices, PieceInSlots, PieceOfRequest DEF TypeOK
  <2>2. 0 \in Slots
      BY SlotsInNat
  <2> HIDE DEF Readable, Min
  <2> QED BY <1>1, <2>1, <2>2 DEF RxLoad, Return, TypeOK
<1>2. CASE RxCopy
  <2>1. left' \in Nat
      BY <1>2 DEF RxCopy, TypeOK, PieceFits, Slots
  <2>2. got' \in Marks
    <3>1. got + n \in Int
        BY DEF TypeOK, Marks, Slots
    <3> QED BY <1>2, <3>1, PlaceInMarks DEF RxCopy
  <2> QED BY <1>2, <2>1, <2>2 DEF RxCopy, TypeOK
<1>3. CASE RxStore
  <2>1. n \in 0 .. BUF_LEN /\ out \in Slots
      BY SlotsInNat DEF TypeOK, Slots
  <2>2. rx_out' \in Slots
      BY <1>3, <2>1, AdvanceInSlots DEF RxStore
  <2> QED BY <1>3, <2>2 DEF RxStore, Goto, TypeOK
<1>4. CASE RxSpin
    BY <1>4 DEF RxSpin, Goto, TypeOK
<1>5. CASE RxCheck
    BY <1>5, SlotsInNat DEF RxCheck, Goto, Return, TypeOK
<1>6. CASE RxEnable
    BY <1>6, SlotsInNat DEF RxEnable, RxEnabled, Return, TypeOK
<1> QED BY <1>1, <1>2, <1>3, <1>4, <1>5, <1>6

LEMMA TypeWrite ==
    ASSUME TypeOK, PieceFits,
           TxLoad \/ TxCopy \/ TxStore \/ TxEnable \/ TxSpin \/ TxCheck \/ Close
    PROVE  TypeOK'
<1> USE DEF device, presence, rx, tx, locals, streams
<1>1. CASE TxLoad
  <2>1. Min({Writable(tx_in, tx_out), left}) \in Slots
      BY Indices, PieceInSlots, PieceOfRequest DEF TypeOK
  <2>2. n' \in Slots
      BY <1>1, <2>1 DEF TxLoad
  <2> QED BY <1>1, <2>2 DEF TxLoad, TypeOK
<1>2. CASE TxCopy
  <2>1. left' \in Nat
      BY <1>2 DEF TxCopy, TypeOK, PieceFits, Slots
  <2>2. put \in Int /\ n \in Int /\ in \in Int
      BY DEF TypeOK, Marks, Slots
  <2>3. put' \in Marks
      BY <1>2, <2>2, PlaceInMarks DEF TxCopy
  <2>4. \A i \in Slots : (put + i - in) % Places \in Marks
    <3>1. \A i \in Slots : put + i - in \in Int
        BY <2>2 DEF Slots
    <3> QED BY <3>1, PlaceInMarks
  <2>5. tx_buf' \in [Slots -> Marks]
      BY <1>2, <2>4 DEF TxCopy, TypeOK
  <2> QED BY <1>2, <2>1, <2>3, <2>5 DEF TxCopy, TypeOK
<1>3. CASE TxStore
  <2>1. n \in 0 .. BUF_LEN /\ in \in Slots
      BY SlotsInNat DEF TypeOK, Slots
  <2>2. tx_in' \in Slots
      BY <1>3, <2>1, AdvanceInSlots DEF TxStore
  <2> QED BY <1>3, <2>2 DEF TxStore, Goto, TypeOK
<1>4. CASE TxEnable
    BY <1>4, SlotsInNat DEF TxEnable, TxEnabled, Goto, Return, TypeOK
<1>5. CASE TxSpin
    BY <1>5 DEF TxSpin, Goto, TypeOK
<1>6. CASE TxCheck
    BY <1>6, SlotsInNat DEF TxCheck, Goto, Return, TypeOK
<1>7. CASE Close
    BY <1>7, SlotsInNat DEF Close, Return, TypeOK
<1> QED BY <1>1, <1>2, <1>3, <1>4, <1>5, <1>6, <1>7

LEMMA TypeNext == TypeOK /\ PieceFits /\ [Next]_vars => TypeOK'
<1> SUFFICES ASSUME TypeOK, PieceFits, [Next]_vars PROVE TypeOK'
    OBVIOUS
<1> USE DEF device, presence, rx, tx, locals, streams
<1>1. CASE HostSends \/ HostTakes
    BY <1>1, TypeHost
<1>2. CASE Irq
    BY <1>2, TypeIrq
<1>3. CASE Timeout
  <2>1. host_inactive' \in 0 .. INT_MAX-2
      BY <1>3, JtagUartAssumption DEF Timeout, TypeOK
  <2> QED BY <1>3, <2>1 DEF Timeout, TypeOK
<1>4. CASE Begin
  <2>1. ASSUME NEW first \in {"rx_load", "tx_load", "close"}, NEW size \in Nat,
               NEW flag \in BOOLEAN, Call(first, size, flag)
        PROVE  TypeOK'
      BY <2>1 DEF Call, TypeOK
  <2>2. ASSUME NEW t \in Timeouts, SetTimeout(t)
        PROVE  TypeOK'
    <3>1. timeout' \in 2 .. INT_MAX
        BY <2>2, JtagUartAssumption DEF SetTimeout
    <3> QED BY <2>2, <3>1 DEF SetTimeout, TypeOK
  <2>3. Sizes \subseteq Nat
      BY JtagUartAssumption
  <2> QED BY <1>4, <2>1, <2>2, <2>3 DEF Begin
<1>5. CASE Continue
    BY <1>5, TypeRead, TypeWrite DEF Continue
<1>6. CASE UNCHANGED vars
    BY <1>6 DEF TypeOK, vars
<1>7. CASE Spin
    BY <1>7, <1>6 DEF Spin
<1> QED BY <1>1, <1>2, <1>3, <1>4, <1>5, <1>6, <1>7 DEF Next

-----------------------------------------------------------------------------
(* The calls in progress                                                   *)

\* What a call knows of its own progress: its locals, and the index it alone
\* moves.
Progress == /\ PieceFits /\ MoreWanted /\ RoomIsResult
            /\ ReadFoundNothing /\ WriteFoundNoRoom

LEMMA ProgressNext == TypeOK /\ Progress /\ [Next]_vars => Progress'
<1> SUFFICES ASSUME TypeOK, Progress, [Next]_vars PROVE Progress'
    OBVIOUS
<1> USE DEF presence, rx, tx, locals, streams, Progress, PieceFits, MoreWanted,
            RoomIsResult, ReadFoundNothing, WriteFoundNoRoom
<1> HIDE DEF Progress
<1>1. CASE UNCHANGED <<pc, locals, rx_out, tx_in>>
    BY <1>1 DEF Progress, Writable
<1>2. CASE HostSends \/ HostTakes \/ Irq \/ Timeout \/ Spin \/ UNCHANGED vars
    BY <1>1, <1>2 DEF HostSends, HostTakes, Irq, Timeout, Spin, vars
<1>3. CASE Begin
  <2>1. ASSUME NEW first \in {"rx_load", "tx_load"}, NEW size \in Sizes,
               NEW flag \in BOOLEAN, Call(first, size, flag)
        PROVE  Progress'
      BY <2>1, JtagUartAssumption DEF Call, Progress
  <2>2. ASSUME NEW flag \in BOOLEAN, Call("close", 0, flag)
        PROVE  Progress'
      BY <2>2 DEF Call, Progress
  <2>3. ASSUME NEW t \in Timeouts, SetTimeout(t)
        PROVE  Progress'
      BY <1>1, <2>3 DEF SetTimeout
  <2> QED BY <1>3, <2>1, <2>2, <2>3 DEF Begin
<1>4. CASE RxLoad
  <2>1. Readable(rx_in, rx_out) \in Slots /\ left \in Nat
      BY Indices, PieceInSlots DEF TypeOK
  <2>2. Min({Readable(rx_in, rx_out), left}) <= left
      BY <2>1, PieceOfRequest
  <2>3. left > 0 /\ Min({Readable(rx_in, rx_out), left}) = 0 => rx_in = rx_out
    <3>1. Readable(rx_in, rx_out) \in Int /\ left \in Int
        BY <2>1 DEF Slots
    <3>2. left > 0 /\ Min({Readable(rx_in, rx_out), left}) = 0
              => Readable(rx_in, rx_out) = 0
        BY <3>1, MinOfTwo
    <3>3. Readable(rx_in, rx_out) = 0 => rx_in = rx_out
        BY Indices, SlotsInNat DEF Readable, Slots
    <3> QED BY <3>2, <3>3
  <2> DEFINE now == Min({Readable(rx_in, rx_out), left})
  <2> HIDE DEF now
  <2>4. now <= left /\ (left > 0 /\ now = 0 => rx_in = rx_out)
      BY <2>2, <2>3 DEF now
  <2>5. \/ now = 0 /\ ~moved /\ nonblock /\ Return
        \/ /\ now # 0 \/ moved \/ ~nonblock
           /\ in' = rx_in /\ n' = now
           /\ pc' = IF now # 0 THEN "rx_copy"
                    ELSE IF moved THEN "rx_enable" ELSE "rx_spin"
           /\ UNCHANGED <<left, moved, nonblock>>
      BY <1>4 DEF RxLoad, now
  <2>6. pc = "rx_load" /\ rx_out' = rx_out
      BY <1>4 DEF RxLoad
  <2> QED BY <2>4, <2>5, <2>6 DEF Progress, Return
<1>5. CASE RxCopy \/ RxStore \/ RxSpin \/ RxCheck \/ RxEnable
    BY <1>5 DEF RxCopy, RxStore, RxSpin, RxCheck, RxEnable, Goto, Return, Progress
<1>6. CASE TxLoad
  <2>1. Writable(tx_in, tx_out) \in Slots /\ left \in Nat
      BY Indices, PieceInSlots DEF TypeOK
  <2>2. n' <= left
      BY <1>6, <2>1, PieceOfRequest DEF TxLoad
  <2>3. left > 0 /\ n' = 0 => Writable(in', out') = 0
    <3>1. Writable(tx_in, tx_out) \in Int /\ left \in Int
        BY <2>1 DEF Slots
    <3>2. left > 0 /\ Min({Writable(tx_in, tx_out), left}) = 0
              => Writable(tx_in, tx_out) = 0
        BY <3>1, MinOfTwo
    <3>3. in' = tx_in /\ out' = tx_out /\ n' = Min({Writable(in', out'), left})
        BY <1>6 DEF TxLoad
    <3> QED BY <3>2, <3>3
  <2>4. /\ pc = "tx_load" /\ in' = tx_in /\ tx_in' = tx_in /\ left' = left
        /\ pc' = IF n' # 0 THEN "tx_copy" ELSE "tx_enable"
      BY <1>6 DEF TxLoad
  <2>5. Writable(in, out)' = Writable(in', out')
      BY DEF Writable
  <2> QED BY <2>2, <2>3, <2>4, <2>5 DEF Progress
<1>7. CASE TxCopy \/ TxStore \/ TxEnable \/ TxSpin \/ TxCheck \/ Close
  <2>1. Writable(in, out)' = Writable(in', out')
      BY DEF Writable
  <2> QED BY <1>7, <2>1 DEF TypeOK, TxCopy, TxStore, TxEnable, TxSpin, TxCheck,
                            Close, Goto, Return, Progress
<1> QED BY <1>2, <1>3, <1>4, <1>5, <1>6, <1>7 DEF Next, Continue

-----------------------------------------------------------------------------
(* The interrupts of the two sides                                         *)

\* Each side of the driver, on its own.
ReceiveArmed ==
    "RE" \notin irq_enable =>
        \/ RxRoom = 0
        \/ moved /\ pc \in {"rx_load", "rx_copy", "rx_store", "rx_enable"}

TransmitArmed ==
    "WE" \notin irq_enable =>
        TxUsed = 0 \/ pc \in {"tx_load", "tx_copy", "tx_store", "tx_enable"}

\* The interrupt that turns itself off has filled the receive buffer, or emptied
\* the transmit buffer; one that was off moves nothing.
LEMMA IrqArms ==
    ASSUME TypeOK, ReceiveArmed, TransmitArmed, Irq
    PROVE  ReceiveArmed' /\ TransmitArmed'
<1>1. Len(rfifo) \in Nat /\ Len(wfifo) \in Nat /\ FifoDepth \in Nat
      /\ Len(wfifo) <= FifoDepth
    BY JtagUartAssumption, LenProperties DEF TypeOK
<1>2. RxRoom \in Int /\ TxUsed \in Int
    BY InterruptFits DEF Slots
<1>3. /\ rx_in' = Advance(rx_in, Received) /\ rx_out' = rx_out
      /\ tx_out' = Advance(tx_out, Transmitted) /\ tx_in' = tx_in
      /\ pc' = pc /\ moved' = moved
    BY DEF Irq, locals
<1>4. RxRoom' = RxRoom - Received
  <2>1. Received \in 0 .. BUF_LEN /\ Received < BUF_LEN - ((rx_in - rx_out) % BUF_LEN)
    <3>1. Received \in Nat /\ Received <= RxRoom /\ RxRoom \in Slots
        BY InterruptFits
    <3>2. (rx_in - rx_out) % BUF_LEN \in Nat
        BY Indices, Distance, SlotsInNat DEF Slots
    <3> QED BY <3>1, <3>2, SlotsInNat DEF Slots, RxRoom
  <2>2. (rx_in' - rx_out') % BUF_LEN = ((rx_in - rx_out) % BUF_LEN) + Received
      BY <1>3, <2>1, Indices, DistanceMoves
  <2>3. (rx_in - rx_out) % BUF_LEN \in Int /\ Received \in Int
      BY <2>1, Indices, Distance, SlotsInNat DEF Slots
  <2> QED BY <2>2, <2>3, SlotsInNat DEF RxRoom
<1>5. TxUsed' = TxUsed - Transmitted
  <2>1. Transmitted \in 0 .. BUF_LEN /\ Transmitted <= (tx_in - tx_out) % BUF_LEN
      BY InterruptFits, SlotsInNat DEF Slots, TxUsed
  <2> QED BY <1>3, <2>1, Indices, DistanceMoves DEF TxUsed
<1>6. RxOff => RxRoom = Received
  <2>1. RxOff => RI /\ Received < Len(rfifo)
      BY DEF RxOff
  <2>2. RI => Received = Min({RxRoom, Len(rfifo)})
      BY DEF Received
  <2>3. Min({RxRoom, Len(rfifo)}) =
            IF RxRoom <= Len(rfifo) THEN RxRoom ELSE Len(rfifo)
      BY <1>1, <1>2, MinOfTwo
  <2> QED BY <1>1, <2>1, <2>2, <2>3
<1>7. TxOff => TxUsed = Transmitted
  <2>1. TxOff => WI /\ Transmitted < FifoDepth - Len(wfifo)
      BY DEF TxOff
  <2>2. WI => Transmitted = Min({TxUsed, FifoDepth - Len(wfifo)})
      BY DEF Transmitted
  <2>3. FifoDepth - Len(wfifo) \in Int
      BY <1>1
  <2>4. Min({TxUsed, FifoDepth - Len(wfifo)}) =
            IF TxUsed <= FifoDepth - Len(wfifo) THEN TxUsed
                                                ELSE FifoDepth - Len(wfifo)
      BY <1>2, <2>3, MinOfTwo
  <2> QED BY <2>1, <2>2, <2>3, <2>4
<1>8. ReceiveArmed'
  <2>1. CASE "RE" \notin irq_enable
    <3>1. Received = 0
        BY <2>1 DEF Received, RI
    <3>2. RxRoom' = RxRoom
        BY <1>2, <1>4, <3>1
    <3> QED BY <1>3, <2>1, <3>2 DEF ReceiveArmed
  <2>2. CASE "RE" \in irq_enable
    <3>1. "RE" \notin irq_enable' => RxOff
        BY <2>2 DEF Irq
    <3>2. RxOff => RxRoom' = 0
        BY <1>2, <1>4, <1>6
    <3> QED BY <3>1, <3>2 DEF ReceiveArmed
  <2> QED BY <2>1, <2>2
<1>9. TransmitArmed'
  <2>1. CASE "WE" \notin irq_enable
    <3>1. Transmitted = 0
        BY <2>1 DEF Transmitted, WI
    <3>2. TxUsed' = TxUsed
        BY <1>2, <1>5, <3>1
    <3> QED BY <1>3, <2>1, <3>2 DEF TransmitArmed
  <2>2. CASE "WE" \in irq_enable
    <3>1. "WE" \notin irq_enable' => TxOff
        BY <2>2 DEF Irq
    <3>2. TxOff => TxUsed' = 0
        BY <1>2, <1>5, <1>7
    <3> QED BY <3>1, <3>2 DEF TransmitArmed
  <2> QED BY <2>1, <2>2
<1> QED BY <1>8, <1>9

LEMMA ArmedNext ==
    ASSUME TypeOK, Progress, ReceiveArmed, TransmitArmed, [Next]_vars
    PROVE  ReceiveArmed' /\ TransmitArmed'
<1> USE DEF presence, rx, tx, locals, streams, ReceiveArmed, TransmitArmed
<1>1. CASE UNCHANGED <<irq_enable, rx, tx, pc, moved>>
    BY <1>1 DEF RxRoom, TxUsed
<1>2. CASE HostSends \/ HostTakes \/ Timeout \/ Spin \/ UNCHANGED vars
    BY <1>1, <1>2 DEF HostSends, HostTakes, Timeout, Spin, vars
<1>3. CASE Irq
    BY <1>3, IrqArms
\* Every other step leaves the room and the characters to send as they are,
\* save the stores of rx_out and tx_in.
<1>4. CASE Begin
  <2>1. pc = "idle" /\ UNCHANGED <<irq_enable, rx, tx>>
      BY <1>4 DEF Begin, Call, SetTimeout
  <2> QED BY <2>1 DEF RxRoom, TxUsed
<1>5. CASE RxLoad
  <2>1. pc = "rx_load" /\ UNCHANGED <<irq_enable, rx, tx>>
      BY <1>5 DEF RxLoad
  <2>2. moved => moved' /\ pc' \in {"rx_copy", "rx_enable"}
      BY <1>5 DEF RxLoad
  <2> QED BY <2>1, <2>2 DEF RxRoom, TxUsed
<1>6. CASE RxCopy \/ RxSpin \/ RxCheck
    BY <1>6 DEF RxCopy, RxSpin, RxCheck, Goto, Return, RxRoom, TxUsed
<1>7. CASE RxStore
  <2>1. moved' /\ pc' \in {"rx_load", "rx_enable"}
      BY <1>7 DEF RxStore, Goto, Progress, RoomIsResult
  <2> QED BY <1>7, <2>1 DEF RxStore, TxUsed
<1>8. CASE RxEnable
    BY <1>8 DEF RxEnable, RxEnabled, Return, TxUsed
<1>9. CASE TxLoad \/ TxCopy \/ TxSpin \/ TxCheck \/ Close
    BY <1>9 DEF TxLoad, TxCopy, TxSpin, TxCheck, Close, Goto, Return,
                RxRoom, TxUsed
<1>10. CASE TxStore
    BY <1>10 DEF TxStore, Goto, RxRoom
<1>11. CASE TxEnable
    BY <1>11 DEF TxEnable, TxEnabled, Goto, Return, RxRoom
<1> QED BY <1>2, <1>3, <1>4, <1>5, <1>6, <1>7, <1>8, <1>9, <1>10, <1>11
        DEF Next, Continue

-----------------------------------------------------------------------------
(* The theorems                                                            *)

IInv == TypeOK /\ Progress /\ ReceiveArmed /\ TransmitArmed

LEMMA Inductive == Spec => []IInv
<1>1. Init => IInv
  <2> SUFFICES ASSUME Init PROVE IInv
      OBVIOUS
  <2>1. Progress
      BY DEF Init, Progress, PieceFits, MoreWanted, RoomIsResult,
             ReadFoundNothing, WriteFoundNoRoom
  <2>2. ReceiveArmed
      BY DEF Init, ReceiveArmed
  <2>3. TransmitArmed
    <3>1. tx_in = 0 /\ tx_out = 0
        BY DEF Init
    <3>2. TxUsed = 0
        BY <3>1, SlotsInNat, Distance DEF TxUsed
    <3> QED BY <3>2 DEF TransmitArmed
  <2> QED BY <2>1, <2>2, <2>3, TypeInit DEF IInv
<1>2. IInv /\ [Next]_vars => IInv'
    BY TypeNext, ProgressNext, ArmedNext DEF IInv, Progress
<1> QED BY <1>1, <1>2, PTL DEF Spec

\* Every index stays in its buffer, every FIFO within its depth, and every
\* character in the buffers is a place of its stream, whatever the interrupt does
\* between two instructions of altera_avalon_jtag_uart_read and _write.
THEOREM TypeCorrect == Spec => []TypeOK
BY Inductive, PTL DEF IInv

\* No wake-up is lost: altera_avalon_jtag_uart_irq never stays disabled with work
\* left that no call in progress will enable it for.
THEOREM NoLostWakeup == Spec => []InterruptsArmed
<1>1. IInv => InterruptsArmed
    BY DEF IInv, InterruptsArmed, ReceiveArmed, TransmitArmed
<1> QED BY <1>1, Inductive, PTL

\* A read spins only on an empty buffer and a write only on a full one, although
\* both compare an index with the copy they took of it some steps before.
THEOREM WaitsForCause == Spec => []SpinsForCause
<1>1. IInv => SpinsForCause
  <2> SUFFICES ASSUME IInv PROVE SpinsForCause
      OBVIOUS
  <2>1. pc = "rx_spin" /\ in = rx_in => rx_in = rx_out
      BY DEF IInv, Progress, ReadFoundNothing
  <2>2. ASSUME pc = "tx_spin", out = tx_out PROVE TxUsed = BUF_LEN - 1
    <3>1. TypeOK /\ Writable(tx_in, tx_out) = 0
        BY <2>2 DEF IInv, Progress, WriteFoundNoRoom
    <3>2. tx_in \in Slots /\ tx_out \in Slots
        BY <3>1, Indices
    <3>3. TxUsed = IF tx_in >= tx_out THEN tx_in - tx_out
                                      ELSE (tx_in - tx_out) + BUF_LEN
        BY <3>2, Distance DEF TxUsed
    <3> QED BY <3>1, <3>2, <3>3, SlotsInNat DEF Writable, Slots
  <2> QED BY <2>1, <2>2 DEF SpinsForCause
<1> QED BY <1>1, Inductive, PTL

-----------------------------------------------------------------------------
(* Arithmetic modulo the length of a buffer or of a stream                 *)

\* What is left of a division is what it must be.
LEMMA ModUnique ==
    ASSUME NEW m \in Nat, m > 0, NEW q \in Int, NEW r \in 0 .. m-1
    PROVE  (m * q + r) % m = r
<1> DEFINE a == m * q + r
           d == a \div m
           s == a % m
<1>1. a \in Int
    OBVIOUS
<1> HIDE DEF a
<1>2. d \in Int /\ s \in 0 .. m-1 /\ a = m * d + s
    BY <1>1
<1> HIDE DEF d, s
<1>3. m * (q - d) = s - r
    BY <1>2 DEF a
<1>4. q - d = 0
  <2>1. q - d >= 1 => m * (q - d) >= m
      BY <1>2
  <2>2. q - d <= -1 => m * (q - d) <= -m
      BY <1>2
  <2> QED BY <1>2, <1>3, <2>1, <2>2
<1>5. s = r
    BY <1>2, <1>3, <1>4
<1> QED BY <1>5 DEF s, a

LEMMA ModSmall ==
    ASSUME NEW m \in Nat, m > 0, NEW r \in 0 .. m-1
    PROVE  r % m = r
<1>1. (m * 0 + r) % m = r
    BY ModUnique
<1>2. m * 0 + r = r
    OBVIOUS
<1> QED BY <1>1, <1>2

\* A sum may be taken modulo m before something is added to it.
LEMMA ModAdd ==
    ASSUME NEW m \in Nat, m > 0, NEW x \in Int, NEW y \in Int
    PROVE  ((x % m) + y) % m = (x + y) % m
<1> DEFINE q == x \div m
           r == x % m
           p == (r + y) \div m
           s == (r + y) % m
<1>1. q \in Int /\ r \in 0 .. m-1 /\ x = m * q + r
    OBVIOUS
<1> HIDE DEF q, r
<1>2. p \in Int /\ s \in 0 .. m-1 /\ r + y = m * p + s
    BY <1>1
<1> HIDE DEF p
<1>3. x + y = m * (q + p) + s
    BY <1>1, <1>2
<1>4. (m * (q + p) + s) % m = s
  <2>1. q + p \in Int
      BY <1>1, <1>2
  <2> HIDE DEF s
  <2> QED BY <1>2, <2>1, ModUnique
<1> QED BY <1>3, <1>4 DEF s, r

LEMMA ModSubtract ==
    ASSUME NEW m \in Nat, m > 0, NEW x \in Int, NEW y \in Int
    PROVE  (y - (x % m)) % m = (y - x) % m
<1> DEFINE q == x \div m
           r == x % m
           p == (y - x) \div m
           s == (y - x) % m
<1>1. q \in Int /\ r \in 0 .. m-1 /\ x = m * q + r
    OBVIOUS
<1> HIDE DEF q, r
<1>2. p \in Int /\ s \in 0 .. m-1 /\ y - x = m * p + s
    OBVIOUS
<1> HIDE DEF p
<1>3. y - r = m * (q + p) + s
    BY <1>1, <1>2
<1>4. (m * (q + p) + s) % m = s
  <2>1. q + p \in Int
      BY <1>1, <1>2
  <2> HIDE DEF s
  <2> QED BY <1>2, <2>1, ModUnique
<1> QED BY <1>3, <1>4 DEF s, r


-----------------------------------------------------------------------------
(* Places in a stream                                                      *)

LEMMA PlacesPositive == Places \in Nat /\ Places > 0 /\ FifoDepth \in Nat
                        /\ Places >= BUF_LEN + FifoDepth
BY JtagUartAssumption


LEMMA PlaceIsInt == ASSUME NEW x \in Int PROVE x % Places \in Marks /\ x % Places \in Int
BY PlaceInMarks, PlacesPositive DEF Marks

\* To go on from the place that lies y on is to go on from y.
LEMMA PlaceAdd ==
    ASSUME NEW x \in Int, NEW y \in Int
    PROVE  ((x % Places) + y) % Places = (x + y) % Places
BY ModAdd, PlacesPositive

LEMMA SlotAdd ==
    ASSUME NEW x \in Int, NEW y \in Int
    PROVE  ((x % BUF_LEN) + y) % BUF_LEN = (x + y) % BUF_LEN
<1>1. BUF_LEN \in Nat /\ BUF_LEN > 0
    BY JtagUartAssumption
<1> QED BY <1>1, ModAdd

\* A stream reaches from its first place to the one past its last, and grows and
\* shrinks by what is added to either.
LEMMA StreamLength ==
    ASSUME NEW first \in Marks, NEW past \in Marks, NEW l \in Nat,
           (past - first) % Places = l
    PROVE  /\ past = (first + l) % Places
           /\ \A j \in Nat : l + j < Places =>
                 (((past + j) % Places) - first) % Places = l + j
           /\ \A j \in Nat : j <= l =>
                 (past - ((first + j) % Places)) % Places = l - j
<1> USE PlacesPositive
<1>1. first \in Int /\ past \in Int /\ past \in 0 .. Places-1
      /\ past - first \in Int /\ l < Places
    BY DEF Marks
<1>2. past = (first + l) % Places
  <2>1. (((past - first) % Places) + first) % Places = (past - first + first) % Places
      BY <1>1, PlaceAdd
  <2>2. past - first + first = past /\ l + first = first + l
      BY <1>1
  <2>3. past % Places = past
      BY <1>1, ModSmall
  <2> QED BY <2>1, <2>2, <2>3
<1>3. ASSUME NEW j \in Nat, l + j < Places
      PROVE  (((past + j) % Places) - first) % Places = l + j
  <2>1. (((past + j) % Places) + (-first)) % Places = (past + j + (-first)) % Places
    <3>1. past + j \in Int /\ -first \in Int
        BY <1>1
    <3> QED BY <3>1, PlaceAdd
  <2>2. (((past - first) % Places) + j) % Places = (past - first + j) % Places
      BY <1>1, PlaceAdd
  <2>3. (l + j) % Places = l + j
    <3>1. l + j \in 0 .. Places-1
        BY <1>3
    <3> QED BY <3>1, ModSmall
  <2>4. past + j + (-first) = past - first + j
      BY <1>1
  <2>5. ((past + j) % Places) + (-first) = ((past + j) % Places) - first
    <3>1. (past + j) % Places \in Int
        BY <1>1
    <3> QED BY <1>1, <3>1
  <2> QED BY <2>1, <2>2, <2>3, <2>4, <2>5
<1>4. ASSUME NEW j \in Nat, j <= l
      PROVE  (past - ((first + j) % Places)) % Places = l - j
  <2>1. (past - ((first + j) % Places)) % Places = (past - (first + j)) % Places
    <3>1. first + j \in Int
        BY <1>1
    <3> QED BY <1>1, <3>1, ModSubtract
  <2>2. (((past - first) % Places) + (-j)) % Places = (past - first + (-j)) % Places
    <3>1. -j \in Int
        OBVIOUS
    <3> QED BY <1>1, <3>1, PlaceAdd
  <2>3. (l - j) % Places = l - j
    <3>1. l - j \in 0 .. Places-1
        BY <1>1, <1>4
    <3> QED BY <3>1, ModSmall
  <2>4. past - (first + j) = past - first + (-j) /\ l + (-j) = l - j
      BY <1>1
  <2> QED BY <2>1, <2>2, <2>3, <2>4
<1> QED BY <1>2, <1>3, <1>4

-----------------------------------------------------------------------------
(* The stream of received characters                                       *)

Used == (rx_in - rx_out) % BUF_LEN

\* Characters in the buffer that the program has not copied out.
Waiting == Used - CopiedOut

\* A read copies a piece of what was there when it looked.
ReadPiece == pc \in {"rx_copy", "rx_store"} => out = rx_out /\ n <= Used

\* The buffer and the FIFO hold as many characters as are under way, and each is
\* the one of its place.
ReceiveStream ==
    /\ (sent - got) % Places = Waiting + Len(rfifo)
    /\ \A k \in 0 .. BUF_LEN : k < Waiting =>
          rx_buf[(rx_out + CopiedOut + k) % BUF_LEN] = (got + k) % Places
    /\ \A k \in 1 .. Len(rfifo) : rfifo[k] = (got + Waiting + k - 1) % Places

\* The numbers of the receiving side.
LEMMA ReceiveNumbers ==
    ASSUME TypeOK, ReadPiece
    PROVE  /\ Used \in Slots /\ CopiedOut \in Slots /\ Waiting \in Slots
           /\ Used \in Int /\ CopiedOut \in Int /\ Waiting \in Int
           /\ rx_in \in Int /\ rx_out \in Int /\ n \in Slots
           /\ got \in Marks /\ sent \in Marks /\ got \in Int /\ sent \in Int
           /\ Len(rfifo) \in Nat /\ Len(rfifo) <= FifoDepth
<1>1. Used \in Slots
    BY Indices, OffsetInSlots, SlotsInNat DEF Used, Slots
<1>2. n \in Slots
    BY DEF TypeOK
<1>3. CopiedOut \in Slots /\ Waiting \in Slots
  <2> HIDE DEF Used
  <2> QED BY <1>1, <1>2, SlotsInNat DEF CopiedOut, Waiting, ReadPiece, Slots
<1>4. got \in Marks /\ sent \in Marks
    BY DEF TypeOK
<1>5. Len(rfifo) \in Nat /\ Len(rfifo) <= FifoDepth
    BY LenProperties DEF TypeOK
<1>6. Slots \subseteq Int /\ Marks \subseteq Int
    BY DEF Slots, Marks
<1> QED BY <1>1, <1>2, <1>3, <1>4, <1>5, <1>6, Indices

\* A step that moves no character and no index keeps the stream.
LEMMA ReceiveKept ==
    ASSUME ReadPiece, ReceiveStream,
           UNCHANGED <<sent, got, rx_in, rx_out, rx_buf, rfifo, CopiedOut>>
    PROVE  ReceiveStream'
BY DEF ReceiveStream, Waiting, Used


LEMMA ReceiveHost ==
    ASSUME TypeOK, ReadPiece, ReceiveStream, HostSends
    PROVE  ReceiveStream'
<1> DEFINE l == Len(rfifo)
<1>1. rfifo \in Seq(Marks) /\ l < FifoDepth /\ rfifo' = Append(rfifo, sent)
      /\ sent' = (sent + 1) % Places
    BY DEF HostSends, TypeOK
<1>2. UNCHANGED <<got, Waiting, CopiedOut, rx_out, rx_buf>>
    BY DEF HostSends, Waiting, Used, CopiedOut, rx, locals
<1>3. /\ Len(rfifo') = l + 1
      /\ \A k \in 1 .. l : rfifo'[k] = rfifo[k]
      /\ rfifo'[l + 1] = sent
    BY <1>1, ReceiveNumbers, AppendProperties
<1>4. l \in Nat /\ Waiting \in Nat /\ got \in Int /\ got \in Marks /\ sent \in Marks
      /\ Waiting + l + 1 < Places
    BY <1>1, ReceiveNumbers, SlotsInNat, PlacesPositive DEF Slots
<1>5. (sent - got) % Places = Waiting + l
      /\ \A k \in 1 .. l : rfifo[k] = (got + Waiting + k - 1) % Places
    BY DEF ReceiveStream
<1> HIDE DEF l
<1>6. sent = (got + (Waiting + l)) % Places
      /\ (((sent + 1) % Places) - got) % Places = Waiting + l + 1
  <2>1. Waiting + l \in Nat /\ Waiting + l + 1 < Places /\ 1 \in Nat
      BY <1>4
  <2> QED BY <1>4, <1>5, <2>1, StreamLength
<1>7. \A k \in 1 .. l + 1 : rfifo'[k] = (got + Waiting + k - 1) % Places
  <2> SUFFICES ASSUME NEW k \in 1 .. l + 1
               PROVE  rfifo'[k] = (got + Waiting + k - 1) % Places
      OBVIOUS
  <2>1. CASE k \in 1 .. l
      BY <1>3, <1>5, <2>1
  <2>2. CASE k = l + 1
    <3>1. got + Waiting + k - 1 = got + (Waiting + l)
        BY <1>4, <2>2
    <3>2. sent = (got + Waiting + k - 1) % Places
        BY <1>6, <3>1
    <3>3. rfifo'[k] = sent
        BY <1>3, <2>2
    <3> QED BY <3>2, <3>3
  <2> QED BY <1>4, <2>1, <2>2
<1>8. (sent' - got') % Places = Waiting' + Len(rfifo')
  <2>1. Waiting + (l + 1) = Waiting + l + 1
      BY <1>4
  <2> QED BY <1>1, <1>2, <1>3, <1>6, <2>1
<1>9. \A k \in 1 .. Len(rfifo') : rfifo'[k] = (got' + Waiting' + k - 1) % Places
    BY <1>2, <1>3, <1>7
<1>10. \A k \in 0 .. BUF_LEN : k < Waiting' =>
          rx_buf'[(rx_out' + CopiedOut' + k) % BUF_LEN] = (got' + k) % Places
    BY <1>2 DEF ReceiveStream
<1> QED BY <1>8, <1>9, <1>10 DEF ReceiveStream

\* The interrupt moves the first characters of the FIFO behind those that wait.
LEMMA ReceiveIrq ==
    ASSUME TypeOK, ReadPiece, ReceiveStream, Irq
    PROVE  ReceiveStream'
<1> DEFINE l == Len(rfifo)
           r == Received
           c == CopiedOut
           w == Waiting
<1>1. /\ l \in Nat /\ r \in Nat /\ r <= l /\ c \in Nat /\ w \in Nat /\ got \in Int
      /\ rx_in \in Slots /\ rx_out \in Slots /\ Used \in Nat /\ Used = w + c
      /\ r < BUF_LEN - Used
  <2>1. r \in Nat /\ r <= l /\ r <= RxRoom
      BY InterruptFits
  <2>2. Used \in Slots /\ c \in Slots /\ w \in Slots /\ l \in Nat /\ got \in Int
      BY ReceiveNumbers
  <2>3. RxRoom = BUF_LEN - 1 - Used
      BY DEF RxRoom, Used
  <2>4. w = Used - c
      BY DEF Waiting
  <2> HIDE DEF l, r, c, w
  <2> QED BY <2>1, <2>2, <2>3, <2>4, Indices, SlotsInNat DEF Slots
<1>2. /\ rx_in' = Advance(rx_in, r) /\ UNCHANGED <<rx_out, got, sent, CopiedOut>>
      /\ rfifo' = SubSeq(rfifo, r + 1, l)
      /\ rx_buf' = [i \in Slots |-> LET k == (i - rx_in) % BUF_LEN
                                   IN  IF k < r THEN rfifo[k + 1] ELSE rx_buf[i]]
    BY DEF Irq, streams, locals, CopiedOut
<1>3. /\ (sent - got) % Places = w + l
      /\ \A k \in 0 .. BUF_LEN : k < w =>
             rx_buf[(rx_out + c + k) % BUF_LEN] = (got + k) % Places
      /\ \A k \in 1 .. l : rfifo[k] = (got + w + k - 1) % Places
    BY DEF ReceiveStream
<1>4. rfifo \in Seq(Marks)
    BY DEF TypeOK
<1>5. Used' = Used + r
  <2>1. r \in 0 .. BUF_LEN
      BY <1>1, SlotsInNat
  <2> QED BY <1>1, <1>2, <2>1, DistanceMoves DEF Used
<1>6. CopiedOut' = c
    BY <1>2
<1>7. Used = (rx_in - rx_out) % BUF_LEN /\ Waiting' = Used' - CopiedOut'
    BY DEF Used, Waiting
<1> HIDE DEF l, r, c, w
<1> HIDE DEF Used
<1>8. Waiting' = w + r
    BY <1>1, <1>5, <1>6, <1>7
<1>9. Len(rfifo') = l - r /\ \A k \in 1 .. l - r : rfifo'[k] = rfifo[k + r]
  <2>1. \A k \in r + 1 .. l : rfifo[k] \in Marks
      BY <1>1, <1>4, ElementOfSeq DEF l
  <2>2. r + 1 \in Int /\ l \in Int
      BY <1>1
  <2>3. Len(rfifo') = IF r + 1 <= l THEN l - (r + 1) + 1 ELSE 0
      BY <1>2, <2>1, <2>2, SubSeqProperties
  <2>4. \A k \in 1 .. l - (r + 1) + 1 : rfifo'[k] = rfifo[r + 1 + k - 1]
      BY <1>2, <2>1, <2>2, SubSeqProperties
  <2>5. l - (r + 1) + 1 = l - r /\ \A k \in 1 .. l - r : r + 1 + k - 1 = k + r
      BY <1>1
  <2> QED BY <1>1, <2>3, <2>4, <2>5
<1>10. (sent' - got') % Places = Waiting' + Len(rfifo')
  <2>1. (w + r) + (l - r) = w + l
      BY <1>1
  <2> QED BY <1>2, <1>3, <1>8, <1>9, <2>1
<1>11. \A k \in 1 .. Len(rfifo') : rfifo'[k] = (got' + Waiting' + k - 1) % Places
  <2> SUFFICES ASSUME NEW k \in 1 .. l - r
               PROVE  rfifo'[k] = (got + (w + r) + k - 1) % Places
      BY <1>2, <1>8, <1>9
  <2>1. k + r \in 1 .. l /\ got + w + (k + r) - 1 = got + (w + r) + k - 1
      BY <1>1
  <2>2. rfifo'[k] = rfifo[k + r]
      BY <1>9
  <2>3. rfifo[k + r] = (got + w + (k + r) - 1) % Places
      BY <1>3, <2>1
  <2> QED BY <2>1, <2>2, <2>3
<1>12. ASSUME NEW k \in 0 .. BUF_LEN, k < w + r
       PROVE  rx_buf'[(rx_out + c + k) % BUF_LEN] = (got + k) % Places
  <2> DEFINE s == (rx_out + c + k) % BUF_LEN
             o == (s - rx_in) % BUF_LEN
  <2>1. s \in Slots
      BY <1>1, OffsetInSlots DEF Slots
  <2>2. rx_buf'[s] = IF o < r THEN rfifo[o + 1] ELSE rx_buf[s]
      BY <1>2, <2>1
  <2>3. o = (rx_out - rx_in + c + k) % BUF_LEN
    <3>1. (((rx_out + c + k) % BUF_LEN) + (-rx_in)) % BUF_LEN
              = (rx_out + c + k + (-rx_in)) % BUF_LEN
      <4>1. rx_out + c + k \in Int /\ -rx_in \in Int
          BY <1>1 DEF Slots
      <4> QED BY <4>1, SlotAdd
    <3>2. rx_out + c + k + (-rx_in) = rx_out - rx_in + c + k
        BY <1>1 DEF Slots
    <3>3. s + (-rx_in) = s - rx_in
      <4> HIDE DEF s
      <4> QED BY <1>1, <2>1 DEF Slots
    <3> QED BY <3>1, <3>2, <3>3
  <2>4. Used = IF rx_in >= rx_out THEN rx_in - rx_out ELSE (rx_in - rx_out) + BUF_LEN
      BY <1>1, <1>7, Distance
  <2>5. CASE k < w
    <3>1. rx_buf[s] = (got + k) % Places
        BY <1>3, <2>5
    <3>2. (rx_out - rx_in + c + k) % BUF_LEN >= r
      <4>1. rx_out - rx_in + c + k \in Int /\ BUF_LEN \in Nat /\ BUF_LEN > 0
          BY <1>1, SlotsInNat DEF Slots
      <4>2. CASE rx_in >= rx_out
        <5>1. rx_out - rx_in + c + k = c + k - Used
            BY <1>1, <2>4, <4>2 DEF Slots
        <5>2. (BUF_LEN * (-1) + (c + k - Used + BUF_LEN)) % BUF_LEN
                  = c + k - Used + BUF_LEN
          <6>1. c + k - Used + BUF_LEN \in 0 .. BUF_LEN-1
              BY <1>1, <2>5, SlotsInNat
          <6> QED BY <4>1, <6>1, ModUnique
        <5>3. BUF_LEN * (-1) + (c + k - Used + BUF_LEN) = c + k - Used
            BY <1>1, SlotsInNat
        <5> QED BY <1>1, <5>1, <5>2, <5>3, SlotsInNat
      <4>3. CASE rx_in < rx_out
        <5>1. rx_out - rx_in + c + k = c + k - Used + BUF_LEN
            BY <1>1, <2>4, <4>3, SlotsInNat DEF Slots
        <5>2. c + k - Used + BUF_LEN \in 0 .. BUF_LEN-1
            BY <1>1, <2>5, SlotsInNat
        <5>3. (c + k - Used + BUF_LEN) % BUF_LEN = c + k - Used + BUF_LEN
            BY <4>1, <5>2, ModSmall
        <5> QED BY <1>1, <5>1, <5>3, SlotsInNat
      <4> QED BY <1>1, <4>2, <4>3 DEF Slots
    <3>3. ~(o < r)
      <4> DEFINE x == (rx_out - rx_in + c + k) % BUF_LEN
      <4>1. x \in Int
        <5>1. rx_out - rx_in + c + k \in Int
            BY <1>1 DEF Slots
        <5> QED BY <5>1, SlotsInNat
      <4>2. x >= r /\ o = x
          BY <2>3, <3>2
      <4> HIDE DEF x, o
      <4> QED BY <1>1, <4>1, <4>2
    <3> HIDE DEF s, o
    <3> QED BY <2>2, <3>1, <3>3 DEF s
  <2>6. CASE k >= w
    <3>1. o = k - w
      <4>1. (k - w) \in 0 .. BUF_LEN-1 /\ BUF_LEN \in Nat /\ BUF_LEN > 0
          BY <1>1, <1>12, <2>6, SlotsInNat
      <4>2. CASE rx_in >= rx_out
        <5>1. rx_out - rx_in + c + k = k - w
            BY <1>1, <2>4, <4>2 DEF Slots
        <5>2. (k - w) % BUF_LEN = k - w
            BY <4>1, ModSmall
        <5> QED BY <2>3, <5>1, <5>2
      <4>3. CASE rx_in < rx_out
        <5>1. rx_out - rx_in + c + k = BUF_LEN * 1 + (k - w)
            BY <1>1, <2>4, <4>3, SlotsInNat DEF Slots
        <5>2. (BUF_LEN * 1 + (k - w)) % BUF_LEN = k - w
            BY <4>1, ModUnique
        <5> QED BY <2>3, <5>1, <5>2
      <4> QED BY <1>1, <4>2, <4>3 DEF Slots
    <3>2. o < r /\ (o + 1) \in 1 .. l /\ got + w + (o + 1) - 1 = got + k
      <4> HIDE DEF o
      <4> QED BY <1>1, <1>12, <2>6, <3>1
    <3>3. rfifo[o + 1] = (got + w + (o + 1) - 1) % Places
      <4> HIDE DEF o
      <4> QED BY <1>3, <3>2
    <3> HIDE DEF s, o
    <3> QED BY <2>2, <3>2, <3>3 DEF s
  <2> QED BY <1>1, <2>5, <2>6
<1>13. \A k \in 0 .. BUF_LEN : k < Waiting' =>
          rx_buf'[(rx_out' + CopiedOut' + k) % BUF_LEN] = (got' + k) % Places
    BY <1>2, <1>6, <1>8, <1>12
<1> QED BY <1>10, <1>11, <1>13 DEF ReceiveStream

LEMMA ReceiveCopied ==
    ASSUME TypeOK, ReadPiece, ReceiveStream, RxCopy
    PROVE  ReceiveStream'
<1> DEFINE l == Len(rfifo)
<1>1. /\ pc = "rx_copy" /\ pc' = "rx_store" /\ n' = n /\ got' = (got + n) % Places
      /\ UNCHANGED <<sent, rfifo, rx_in, rx_out, rx_buf>>
    BY DEF RxCopy, device, rx
<1>2. CopiedOut = 0 /\ CopiedOut' = n /\ Used' = Used
    BY <1>1 DEF CopiedOut, Used
<1>3. Waiting = Used - 0 /\ Waiting' = Used - n
    BY <1>2 DEF Waiting
<1>4. /\ l \in Nat /\ Used \in Nat /\ n \in Nat /\ n <= Used /\ got \in Int
      /\ got \in Marks /\ sent \in Marks /\ rx_out \in Int
      /\ Used < BUF_LEN /\ BUF_LEN \in Nat
    BY <1>1, ReceiveNumbers, SlotsInNat DEF Slots, ReadPiece
<1>5. /\ (sent - got) % Places = Waiting + l
      /\ \A k \in 0 .. BUF_LEN : k < Waiting =>
             rx_buf[(rx_out + CopiedOut + k) % BUF_LEN] = (got + k) % Places
      /\ \A k \in 1 .. l : rfifo[k] = (got + Waiting + k - 1) % Places
    BY DEF ReceiveStream
<1> HIDE DEF l, Used
<1>6. (sent' - got') % Places = Waiting' + Len(rfifo')
  <2>1. Used + l \in Nat /\ n <= Used + l /\ Waiting + l = Used + l
      BY <1>3, <1>4
  <2>2. (sent - ((got + n) % Places)) % Places = (Used + l) - n
    <3>1. (sent - got) % Places = Used + l
        BY <1>5, <2>1
    <3>2. \A j \in Nat : j <= Used + l =>
              (sent - ((got + j) % Places)) % Places = (Used + l) - j
      <4>1. sent \in Marks /\ got \in Marks /\ Used + l \in Nat
          BY <1>4, <2>1
      <4> QED BY <3>1, <4>1, StreamLength
    <3>3. n \in Nat /\ n <= Used + l
        BY <1>4, <2>1
    <3> QED BY <3>2, <3>3
  <2>3. (Used + l) - n = Waiting' + l
      BY <1>3, <1>4
  <2>4. sent' = sent /\ got' = (got + n) % Places /\ Len(rfifo') = l
      BY <1>1 DEF l
  <2> QED BY <2>2, <2>3, <2>4
<1>7. \A k \in 0 .. BUF_LEN : k < Waiting' =>
          rx_buf'[(rx_out' + CopiedOut' + k) % BUF_LEN] = (got' + k) % Places
  <2> SUFFICES ASSUME NEW k \in 0 .. BUF_LEN, k < Used - n
               PROVE  rx_buf[(rx_out + n + k) % BUF_LEN] = (((got + n) % Places) + k) % Places
      BY <1>1, <1>2, <1>3
  <2>1. n + k \in 0 .. BUF_LEN /\ n + k < Waiting
      BY <1>3, <1>4
  <2>2. rx_buf[(rx_out + CopiedOut + (n + k)) % BUF_LEN] = (got + (n + k)) % Places
      BY <1>5, <2>1
  <2>3. rx_out + CopiedOut + (n + k) = rx_out + n + k
      BY <1>2, <1>4
  <2>4. (((got + n) % Places) + k) % Places = (got + n + k) % Places
    <3>1. got + n \in Int /\ k \in Int
        BY <1>4
    <3> QED BY <3>1, PlaceAdd
  <2>5. got + n + k = got + (n + k)
      BY <1>4
  <2> QED BY <2>2, <2>3, <2>4, <2>5
<1>8. \A k \in 1 .. Len(rfifo') : rfifo'[k] = (got' + Waiting' + k - 1) % Places
  <2> SUFFICES ASSUME NEW k \in 1 .. l
               PROVE  rfifo[k] = (((got + n) % Places) + (Used - n) + k - 1) % Places
      BY <1>1, <1>3 DEF l
  <2>1. (((got + n) % Places) + (Used - n + k - 1)) % Places
            = (got + n + (Used - n + k - 1)) % Places
    <3>1. got + n \in Int /\ Used - n + k - 1 \in Int
        BY <1>4
    <3> QED BY <3>1, PlaceAdd
  <2>2. got + n + (Used - n + k - 1) = got + Waiting + k - 1
      BY <1>3, <1>4
  <2>3. ((got + n) % Places) + (Used - n) + k - 1
            = ((got + n) % Places) + (Used - n + k - 1)
    <3>1. (got + n) % Places \in Int
        BY <1>4, PlaceIsInt
    <3> QED BY <1>4, <3>1
  <2>4. rfifo[k] = (got + Waiting + k - 1) % Places
      BY <1>5
  <2> QED BY <2>1, <2>2, <2>3, <2>4
<1> QED BY <1>6, <1>7, <1>8 DEF ReceiveStream

LEMMA ReceiveStored ==
    ASSUME TypeOK, ReadPiece, ReceiveStream, RxStore
    PROVE  ReceiveStream'
<1>1. /\ pc = "rx_store" /\ pc' # "rx_store" /\ out = rx_out /\ n <= Used
      /\ rx_out' = Advance(rx_out, n)
      /\ UNCHANGED <<sent, got, rfifo, rx_in, rx_buf>>
    BY DEF RxStore, Goto, device, streams, ReadPiece
<1>2. CopiedOut = n /\ CopiedOut' = 0
    BY <1>1 DEF CopiedOut
<1>3. Used' = Used - n
  <2>1. n \in 0 .. BUF_LEN
      BY ReceiveNumbers, SlotsInNat DEF Slots
  <2> QED BY <1>1, <2>1, Indices, DistanceMoves DEF Used
<1>4. Waiting' = Waiting
  <2>1. Used \in Int /\ n \in Int
      BY ReceiveNumbers DEF Slots
  <2>2. Waiting = Used - CopiedOut /\ Waiting' = Used' - CopiedOut'
      BY DEF Waiting
  <2> QED BY <1>2, <1>3, <2>1, <2>2
<1>5. \A k \in 0 .. BUF_LEN :
          (rx_out' + CopiedOut' + k) % BUF_LEN = (rx_out + CopiedOut + k) % BUF_LEN
  <2> TAKE k \in 0 .. BUF_LEN
  <2>1. rx_out + n \in Int /\ k \in Int /\ rx_out' \in Int
    <3>1. Advance(rx_out, n) \in Slots
      <4>1. n \in 0 .. BUF_LEN
          BY ReceiveNumbers, SlotsInNat DEF Slots
      <4> QED BY <4>1, Indices, AdvanceInSlots
    <3> QED BY <1>1, <3>1, ReceiveNumbers, SlotsInNat DEF Slots
  <2>2. (((rx_out + n) % BUF_LEN) + k) % BUF_LEN = (rx_out + n + k) % BUF_LEN
      BY <2>1, SlotAdd
  <2>3. rx_out' + CopiedOut' + k = ((rx_out + n) % BUF_LEN) + k
    <3>1. rx_out' + 0 + k = rx_out' + k
        BY <2>1
    <3> QED BY <1>1, <1>2, <3>1 DEF Advance
  <2> QED BY <1>2, <2>2, <2>3
<1> QED BY <1>1, <1>4, <1>5 DEF ReceiveStream

\* The piece that can be read is in the buffer.
LEMMA ReadPieceNext ==
    ASSUME TypeOK, ReadPiece, ReceiveStream, [Next]_vars
    PROVE  ReadPiece' /\ ReceiveStream'
<1> USE DEF presence, rx, device, locals, streams
<1>1. CASE UNCHANGED <<sent, got, rx, pc, n, out, rfifo>>
    BY <1>1, ReceiveKept DEF ReadPiece, Used, CopiedOut
<1>2. CASE HostTakes \/ Timeout \/ Spin \/ UNCHANGED vars
    BY <1>1, <1>2 DEF HostTakes, Timeout, Spin, vars
<1>3. CASE HostSends
  <2>1. ReadPiece'
      BY <1>3 DEF HostSends, ReadPiece, Used
  <2> QED BY <1>3, <2>1, ReceiveHost
<1>4. CASE Irq
  <2>1. Used' = Used + Received /\ Used \in Nat /\ Received \in Nat
    <3>1. Received \in 0 .. BUF_LEN /\ Received < BUF_LEN - Used
      <4>1. Used \in Int /\ Used \in Slots
          BY ReceiveNumbers
      <4>2. RxRoom = BUF_LEN - 1 - Used
          BY DEF RxRoom, Used
      <4>3. Received \in Nat /\ Received <= RxRoom
          BY InterruptFits
      <4> HIDE DEF Used, Received, RxRoom
      <4> QED BY <4>1, <4>2, <4>3, SlotsInNat DEF Slots
    <3>2. rx_in' = Advance(rx_in, Received) /\ rx_out' = rx_out
        BY <1>4 DEF Irq
    <3>3. Used' = Used + Received
        BY <3>1, <3>2, Indices, DistanceMoves DEF Used
    <3> QED BY <3>3, ReceiveNumbers, InterruptFits, SlotsInNat DEF Slots
  <2>2. UNCHANGED <<pc, out, n, rx_out>>
      BY <1>4 DEF Irq
  <2>3. n \in Int
      BY ReceiveNumbers DEF Slots
  <2>4. ReadPiece'
    <3> HIDE DEF Used, Received
    <3> QED BY <2>1, <2>2, <2>3 DEF ReadPiece
  <2> QED BY <1>4, <2>4, ReceiveIrq
<1>5. CASE Begin
  <2>1. pc \notin {"rx_copy", "rx_store"} /\ pc' \notin {"rx_copy", "rx_store"}
        /\ UNCHANGED <<sent, got, rx, rfifo>>
      BY <1>5 DEF Begin, Call, SetTimeout
  <2> QED BY <2>1, ReceiveKept DEF ReadPiece, CopiedOut
<1>6. CASE RxLoad
  <2>1. pc = "rx_load" /\ pc' # "rx_store" /\ UNCHANGED <<sent, got, rx, rfifo>>
      BY <1>6 DEF RxLoad, Return
  <2>2. ReceiveStream'
      BY <2>1, ReceiveKept DEF CopiedOut
  <2>3. Min({Readable(rx_in, rx_out), left}) <= Used
    <3>1. Used = IF rx_in >= rx_out THEN rx_in - rx_out ELSE (rx_in - rx_out) + BUF_LEN
        BY Indices, Distance DEF Used
    <3>2. Readable(rx_in, rx_out) <= Used /\ Readable(rx_in, rx_out) \in Int
      <4> HIDE DEF Used
      <4> QED BY <3>1, Indices, SlotsInNat DEF Readable, Slots
    <3>3. left \in Int /\ Used \in Int
        BY ReceiveNumbers DEF TypeOK
    <3>4. Min({Readable(rx_in, rx_out), left})
              = IF Readable(rx_in, rx_out) <= left THEN Readable(rx_in, rx_out) ELSE left
        BY <3>2, <3>3, MinOfTwo
    <3> HIDE DEF Used, Readable
    <3> QED BY <3>2, <3>3, <3>4
  <2>4. pc' = "rx_copy" => out' = rx_out /\ n' = Min({Readable(rx_in, rx_out), left})
      BY <1>6 DEF RxLoad, Return
  <2>5. Used' = Used /\ rx_out' = rx_out
      BY <2>1 DEF Used
  <2>6. ReadPiece'
      BY <2>1, <2>3, <2>4, <2>5 DEF ReadPiece
  <2> QED BY <2>2, <2>6
<1>7. CASE RxCopy
  <2>1. ReadPiece'
      BY <1>7 DEF RxCopy, ReadPiece, Used
  <2> QED BY <1>7, <2>1, ReceiveCopied
<1>8. CASE RxStore
  <2>1. ReadPiece'
      BY <1>8 DEF RxStore, Goto, ReadPiece
  <2> QED BY <1>8, <2>1, ReceiveStored
<1>9. CASE RxSpin \/ RxCheck \/ RxEnable \/ TxLoad \/ TxCopy \/ TxStore \/ TxEnable
           \/ TxSpin \/ TxCheck \/ Close
  <2>1. pc \notin {"rx_copy", "rx_store"} /\ pc' \notin {"rx_copy", "rx_store"}
        /\ UNCHANGED <<sent, got, rx, rfifo>>
      BY <1>9 DEF RxSpin, RxCheck, RxEnable, TxLoad, TxCopy, TxStore, TxEnable, TxSpin,
                  TxCheck, Close, Goto, Return
  <2> QED BY <2>1, ReceiveKept DEF ReadPiece, CopiedOut
<1> QED BY <1>2, <1>3, <1>4, <1>5, <1>6, <1>7, <1>8, <1>9 DEF Next, Continue

-----------------------------------------------------------------------------
(* The stream of characters to send                                        *)

\* Characters in the buffer, those a write has copied in among them.
Ready == TxUsed + CopiedIn

\* A write copies a piece into slots that are free, none of them past the end.
WritePiece == pc \in {"tx_copy", "tx_store"} =>
    in = tx_in /\ TxUsed + n < BUF_LEN /\ in + n <= BUF_LEN

SendStream ==
    /\ (put - taken) % Places = Len(wfifo) + Ready
    /\ \A k \in 1 .. Len(wfifo) : wfifo[k] = (taken + k - 1) % Places
    /\ \A k \in 0 .. BUF_LEN : k < Ready =>
          tx_buf[(tx_out + k) % BUF_LEN] = (taken + Len(wfifo) + k) % Places

\* The numbers of the sending side.
LEMMA SendNumbers ==
    ASSUME TypeOK, WritePiece
    PROVE  /\ TxUsed \in Nat /\ CopiedIn \in Nat /\ Ready \in Nat /\ Ready < BUF_LEN
           /\ tx_in \in Int /\ tx_out \in Int /\ n \in Nat
           /\ put \in Marks /\ taken \in Marks /\ put \in Int /\ taken \in Int
           /\ Len(wfifo) \in Nat /\ Len(wfifo) <= FifoDepth
<1>1. TxUsed \in Slots
    BY InterruptFits
<1>2. n \in Slots
    BY DEF TypeOK
<1>3. CopiedIn \in Nat /\ Ready \in Nat /\ Ready < BUF_LEN
  <2> HIDE DEF TxUsed
  <2> QED BY <1>1, <1>2, SlotsInNat DEF CopiedIn, Ready, WritePiece, Slots
<1>4. put \in Marks /\ taken \in Marks
    BY DEF TypeOK
<1>5. Len(wfifo) \in Nat /\ Len(wfifo) <= FifoDepth
    BY LenProperties DEF TypeOK
<1>6. Slots \subseteq Nat /\ Slots \subseteq Int /\ Marks \subseteq Int
    BY DEF Slots, Marks
<1>7. tx_in \in Slots /\ tx_out \in Slots
    BY Indices
<1> QED BY <1>1, <1>2, <1>3, <1>4, <1>5, <1>6, <1>7

LEMMA SendKept ==
    ASSUME SendStream, UNCHANGED <<put, taken, tx_in, tx_out, tx_buf, wfifo, CopiedIn>>
    PROVE  SendStream'
BY DEF SendStream, Ready, TxUsed

LEMMA SendHost ==
    ASSUME TypeOK, WritePiece, SendStream, HostTakes
    PROVE  SendStream'
<1> DEFINE l == Len(wfifo)
<1>1. wfifo \in Seq(Marks) /\ wfifo # <<>> /\ wfifo' = Tail(wfifo)
      /\ taken' = (taken + 1) % Places
    BY DEF HostTakes, TypeOK
<1>2. UNCHANGED <<put, Ready, tx_out, tx_buf>>
    BY DEF HostTakes, Ready, TxUsed, CopiedIn, tx, locals
<1>3. /\ l \in Nat /\ l >= 1 /\ Len(wfifo') = l - 1
      /\ \A k \in 1 .. l - 1 : wfifo'[k] = wfifo[k + 1]
    BY <1>1, HeadTailProperties, EmptySeq, LenProperties
<1>4. taken \in Int /\ taken \in Marks /\ put \in Marks /\ Ready \in Nat /\ tx_out \in Int
    BY SendNumbers
<1>5. /\ (put - taken) % Places = l + Ready
      /\ \A k \in 1 .. l : wfifo[k] = (taken + k - 1) % Places
      /\ \A k \in 0 .. BUF_LEN : k < Ready =>
             tx_buf[(tx_out + k) % BUF_LEN] = (taken + l + k) % Places
    BY DEF SendStream
<1> HIDE DEF l
<1>6. (put - ((taken + 1) % Places)) % Places = (l + Ready) - 1
  <2>1. l + Ready \in Nat /\ 1 \in Nat /\ 1 <= l + Ready
      BY <1>3, <1>4
  <2>2. \A j \in Nat : j <= l + Ready =>
            (put - ((taken + j) % Places)) % Places = (l + Ready) - j
      BY <1>4, <1>5, <2>1, StreamLength
  <2> QED BY <2>1, <2>2
<1>7. \A k \in Int : (((taken + 1) % Places) + k) % Places = (taken + 1 + k) % Places
  <2>1. taken + 1 \in Int
      BY <1>4
  <2> QED BY <2>1, PlaceAdd
<1>8. (taken + 1) % Places \in Int
    BY <1>4, PlaceIsInt
<1>9. (put' - taken') % Places = Len(wfifo') + Ready'
  <2>1. (l + Ready) - 1 = (l - 1) + Ready
      BY <1>3, <1>4
  <2>2. (put' - taken') % Places = (l + Ready) - 1
    <3>1. put' = put /\ taken' = (taken + 1) % Places
        BY <1>1, <1>2
    <3> QED BY <1>6, <3>1
  <2>3. Len(wfifo') = l - 1 /\ Ready' = Ready
      BY <1>2, <1>3
  <2> QED BY <2>1, <2>2, <2>3
<1>10. \A k \in 1 .. Len(wfifo') : wfifo'[k] = (taken' + k - 1) % Places
  <2> SUFFICES ASSUME NEW k \in 1 .. l - 1
               PROVE  wfifo'[k] = (((taken + 1) % Places) + k - 1) % Places
      BY <1>1, <1>3
  <2>1. k + 1 \in 1 .. l /\ k - 1 \in Int
        /\ ((taken + 1) % Places) + k - 1 = ((taken + 1) % Places) + (k - 1)
        /\ taken + 1 + (k - 1) = taken + (k + 1) - 1
      BY <1>3, <1>4, <1>8
  <2>2. wfifo[k + 1] = (taken + (k + 1) - 1) % Places
      BY <1>5, <2>1
  <2> QED BY <1>3, <1>7, <2>1, <2>2
<1>11. \A k \in 0 .. BUF_LEN : k < Ready' =>
          tx_buf'[(tx_out' + k) % BUF_LEN] = (taken' + Len(wfifo') + k) % Places
  <2> SUFFICES ASSUME NEW k \in 0 .. BUF_LEN, k < Ready
               PROVE  tx_buf[(tx_out + k) % BUF_LEN]
                          = (((taken + 1) % Places) + (l - 1) + k) % Places
      BY <1>1, <1>2, <1>3
  <2>1. (l - 1) + k \in Int
        /\ ((taken + 1) % Places) + (l - 1) + k = ((taken + 1) % Places) + ((l - 1) + k)
        /\ taken + 1 + ((l - 1) + k) = taken + l + k
      BY <1>3, <1>4, <1>8
  <2>2. tx_buf[(tx_out + k) % BUF_LEN] = (taken + l + k) % Places
      BY <1>5
  <2> QED BY <1>7, <2>1, <2>2
<1> QED BY <1>9, <1>10, <1>11 DEF SendStream

\* The interrupt moves the first characters of the buffer behind those in the FIFO.
LEMMA SendIrq ==
    ASSUME TypeOK, WritePiece, SendStream, Irq
    PROVE  SendStream'
<1> DEFINE l == Len(wfifo)
           t == Transmitted
           sending == [k \in 1 .. t |-> tx_buf[(tx_out + k - 1) % BUF_LEN]]
<1>1. /\ l \in Nat /\ t \in Nat /\ t <= TxUsed /\ TxUsed \in Nat /\ CopiedIn \in Nat
      /\ Ready \in Nat /\ Ready < BUF_LEN /\ taken \in Int /\ tx_out \in Int
      /\ BUF_LEN \in Nat
    BY InterruptFits, SendNumbers, SlotsInNat
<1>2. /\ tx_out' = Advance(tx_out, t) /\ UNCHANGED <<tx_in, put, taken, tx_buf, CopiedIn>>
      /\ wfifo' = wfifo \o sending
    BY DEF Irq, streams, locals, CopiedIn
<1>3. /\ (put - taken) % Places = l + Ready
      /\ \A k \in 1 .. l : wfifo[k] = (taken + k - 1) % Places
      /\ \A k \in 0 .. BUF_LEN : k < Ready =>
             tx_buf[(tx_out + k) % BUF_LEN] = (taken + l + k) % Places
    BY DEF SendStream
<1>4. wfifo \in Seq(Marks)
    BY DEF TypeOK
<1>5. TxUsed' = TxUsed - t
  <2>1. t \in 0 .. BUF_LEN
      BY <1>1 DEF Ready
  <2> QED BY <1>1, <1>2, <2>1, Indices, DistanceMoves DEF TxUsed
<1> HIDE DEF t
<1>6. Ready = TxUsed + CopiedIn /\ Ready' = Ready - t
  <2>1. Ready = TxUsed + CopiedIn /\ Ready' = TxUsed' + CopiedIn'
      BY DEF Ready
  <2> HIDE DEF TxUsed
  <2> QED BY <1>1, <1>2, <1>5, <2>1
<1>7. sending \in Seq(Marks) /\ Len(sending) = t
      /\ \A k \in 1 .. t : sending[k] = (taken + l + (k - 1)) % Places
  <2> HIDE DEF l
  <2>1. \A k \in 1 .. t : tx_buf[(tx_out + k - 1) % BUF_LEN] = (taken + l + (k - 1)) % Places
    <3> TAKE k \in 1 .. t
    <3>1. k - 1 \in 0 .. BUF_LEN /\ k - 1 < Ready /\ tx_out + k - 1 = tx_out + (k - 1)
      <4> HIDE DEF TxUsed
      <4> QED BY <1>1, <1>6
    <3> QED BY <1>3, <3>1
  <2>2. \A k \in 1 .. t : (taken + l + (k - 1)) % Places \in Marks
    <3>1. \A k \in 1 .. t : taken + l + (k - 1) \in Int
        BY <1>1
    <3> QED BY <3>1, PlaceInMarks
  <2>3. sending \in [1 .. t -> Marks]
      BY <2>1, <2>2
  <2>4. sending \in Seq(Marks)
      BY <1>1, <2>3, SeqDef
  <2>5. 1 .. t = 1 .. Len(sending) /\ Len(sending) \in Nat
      BY <2>3, <2>4, LenProperties
  <2>6. Len(sending) = t
      BY <1>1, <2>5
  <2> QED BY <2>1, <2>4, <2>6
<1> HIDE DEF sending
<1>8. /\ Len(wfifo') = l + t
      /\ \A k \in 1 .. l + t : wfifo'[k] = IF k <= l THEN wfifo[k] ELSE sending[k - l]
    BY <1>2, <1>4, <1>7, ConcatProperties
<1> HIDE DEF l
<1>9. (put' - taken') % Places = Len(wfifo') + Ready'
  <2>1. (l + t) + (Ready - t) = l + Ready
      BY <1>1
  <2> QED BY <1>2, <1>3, <1>6, <1>8, <2>1
<1>10. \A k \in 1 .. Len(wfifo') : wfifo'[k] = (taken' + k - 1) % Places
  <2> SUFFICES ASSUME NEW k \in 1 .. l + t
               PROVE  wfifo'[k] = (taken + k - 1) % Places
      BY <1>2, <1>8
  <2>1. CASE k <= l
    <3>1. k \in 1 .. l
        BY <1>1, <2>1
    <3> QED BY <1>3, <1>8, <2>1, <3>1
  <2>2. CASE k > l
    <3>1. k - l \in 1 .. t /\ taken + l + ((k - l) - 1) = taken + k - 1 /\ ~(k <= l)
        BY <1>1, <2>2
    <3>2. sending[k - l] = (taken + l + ((k - l) - 1)) % Places
        BY <1>7, <3>1
    <3> QED BY <1>8, <3>1, <3>2
  <2> QED BY <1>1, <2>1, <2>2
<1>11. \A k \in 0 .. BUF_LEN : k < Ready' =>
          tx_buf'[(tx_out' + k) % BUF_LEN] = (taken' + Len(wfifo') + k) % Places
  <2> SUFFICES ASSUME NEW k \in 0 .. BUF_LEN, k < Ready - t
               PROVE  tx_buf[(((tx_out + t) % BUF_LEN) + k) % BUF_LEN]
                          = (taken + (l + t) + k) % Places
      BY <1>2, <1>6, <1>8 DEF Advance
  <2>1. t + k \in 0 .. BUF_LEN /\ t + k < Ready /\ tx_out + t \in Int
        /\ tx_out + t + k = tx_out + (t + k) /\ taken + (l + t) + k = taken + l + (t + k)
      BY <1>1
  <2>2. (((tx_out + t) % BUF_LEN) + k) % BUF_LEN = (tx_out + t + k) % BUF_LEN
      BY <2>1, SlotAdd
  <2>3. tx_buf[(tx_out + (t + k)) % BUF_LEN] = (taken + l + (t + k)) % Places
      BY <1>3, <2>1
  <2> QED BY <2>1, <2>2, <2>3
<1> QED BY <1>9, <1>10, <1>11 DEF SendStream

\* The interrupt that comes before the store does not see what a write copies in.
LEMMA SendCopied ==
    ASSUME TypeOK, WritePiece, SendStream, TxCopy
    PROVE  SendStream'
<1> DEFINE l == Len(wfifo)
<1>1. /\ pc = "tx_copy" /\ pc' = "tx_store" /\ n' = n /\ put' = (put + n) % Places
      /\ tx_buf' = [i \in Slots |-> IF i \in in .. in + n - 1
                                    THEN (put + i - in) % Places ELSE tx_buf[i]]
      /\ UNCHANGED <<taken, wfifo, tx_in, tx_out>>
    BY DEF TxCopy, device
<1>2. CopiedIn = 0 /\ CopiedIn' = n /\ TxUsed' = TxUsed
    BY <1>1 DEF CopiedIn, TxUsed
<1>3. Ready = TxUsed + 0 /\ Ready' = TxUsed + n
    BY <1>2 DEF Ready
<1>4. in = tx_in /\ TxUsed + n < BUF_LEN /\ in + n <= BUF_LEN
    BY <1>1 DEF WritePiece
<1>5. /\ l \in Nat /\ l <= FifoDepth /\ TxUsed \in Nat /\ n \in Nat
      /\ put \in Int /\ put \in Marks /\ taken \in Int /\ taken \in Marks
      /\ tx_in \in Slots /\ tx_out \in Slots /\ BUF_LEN \in Nat /\ BUF_LEN > 0
    BY SendNumbers, SlotsInNat, Indices
<1>6. /\ (put - taken) % Places = l + Ready
      /\ \A k \in 1 .. l : wfifo[k] = (taken + k - 1) % Places
      /\ \A k \in 0 .. BUF_LEN : k < Ready =>
             tx_buf[(tx_out + k) % BUF_LEN] = (taken + l + k) % Places
    BY DEF SendStream
<1>7. TxUsed = IF tx_in >= tx_out THEN tx_in - tx_out ELSE (tx_in - tx_out) + BUF_LEN
    BY <1>5, Distance DEF TxUsed
<1> HIDE DEF l, TxUsed
<1>8. (put - taken) % Places = l + TxUsed /\ l + TxUsed \in Nat
      /\ l + TxUsed + n < Places
  <2>1. l + TxUsed = l + Ready
      BY <1>3, <1>5
  <2> QED BY <1>4, <1>5, <1>6, <2>1, PlacesPositive
<1>9. /\ put = (taken + (l + TxUsed)) % Places
      /\ (((put + n) % Places) - taken) % Places = l + TxUsed + n
  <2>1. /\ put = (taken + (l + TxUsed)) % Places
        /\ \A j \in Nat : l + TxUsed + j < Places =>
              (((put + j) % Places) - taken) % Places = l + TxUsed + j
    <3>1. put \in Marks /\ taken \in Marks
        BY <1>5
    <3> QED BY <1>8, <3>1, StreamLength
  <2>2. n \in Nat /\ l + TxUsed + n < Places
      BY <1>5, <1>8
  <2> QED BY <2>1, <2>2
<1>10. (put' - taken') % Places = Len(wfifo') + Ready'
  <2>1. l + TxUsed + n = l + (TxUsed + n)
      BY <1>5
  <2> QED BY <1>1, <1>3, <1>9, <2>1 DEF l
<1>11. ASSUME NEW k \in 0 .. BUF_LEN, k < TxUsed + n
       PROVE  tx_buf'[(tx_out + k) % BUF_LEN] = (taken + l + k) % Places
  <2> DEFINE s == (tx_out + k) % BUF_LEN
  <2>1. s \in Slots
    <3>1. tx_out + k \in Int
        BY <1>5 DEF Slots
    <3> QED BY <3>1, OffsetInSlots
  <2>2. tx_buf'[s] = IF s \in in .. in + n - 1 THEN (put + s - in) % Places ELSE tx_buf[s]
      BY <1>1, <2>1
  <2>3. s = IF tx_out + k < BUF_LEN THEN tx_out + k ELSE (tx_out + k) - BUF_LEN
      BY <1>5, AdvanceWraps DEF Advance
  <2>4. tx_in \in Nat /\ tx_out \in Nat /\ tx_in < BUF_LEN /\ tx_out < BUF_LEN
      BY <1>5 DEF Slots
  <2> HIDE DEF s
  <2>5. CASE k < TxUsed
    <3>1. s \notin in .. in + n - 1
        BY <1>4, <1>5, <1>7, <2>3, <2>4, <2>5
    <3>2. k < Ready
        BY <1>3, <1>5, <2>5
    <3>3. tx_buf[s] = (taken + l + k) % Places
        BY <1>6, <3>2 DEF s
    <3> QED BY <2>2, <3>1, <3>3 DEF s
  <2>6. CASE k >= TxUsed
    <3>1. s = in + (k - TxUsed) /\ s \in in .. in + n - 1
        BY <1>4, <1>5, <1>7, <1>11, <2>3, <2>4, <2>6
    <3>2. put + s - in = put + (k - TxUsed) /\ k - TxUsed \in Int
        BY <1>4, <1>5, <2>4, <3>1
    <3>3. (((taken + (l + TxUsed)) % Places) + (k - TxUsed)) % Places
              = (taken + (l + TxUsed) + (k - TxUsed)) % Places
      <4>1. taken + (l + TxUsed) \in Int
          BY <1>5
      <4> QED BY <3>2, <4>1, PlaceAdd
    <3>4. taken + (l + TxUsed) + (k - TxUsed) = taken + l + k
        BY <1>5
    <3>5. (put + s - in) % Places = (taken + l + k) % Places
        BY <1>9, <3>2, <3>3, <3>4
    <3> QED BY <2>2, <3>1, <3>5 DEF s
  <2> QED BY <1>5, <2>5, <2>6 DEF s
<1>12. \A k \in 0 .. BUF_LEN : k < Ready' =>
          tx_buf'[(tx_out' + k) % BUF_LEN] = (taken' + Len(wfifo') + k) % Places
    BY <1>1, <1>3, <1>11 DEF l
<1> QED BY <1>1, <1>6, <1>10, <1>12 DEF SendStream, l

LEMMA SendStored ==
    ASSUME TypeOK, WritePiece, SendStream, TxStore
    PROVE  SendStream'
<1>1. /\ pc = "tx_store" /\ pc' # "tx_store" /\ in = tx_in /\ TxUsed + n < BUF_LEN
      /\ tx_in' = Advance(tx_in, n)
      /\ UNCHANGED <<put, taken, wfifo, tx_out, tx_buf>>
    BY DEF TxStore, Goto, device, streams, WritePiece
<1>2. CopiedIn = n /\ CopiedIn' = 0
    BY <1>1 DEF CopiedIn
<1>3. TxUsed' = TxUsed + n
  <2>1. n \in 0 .. BUF_LEN /\ n < BUF_LEN - TxUsed
    <3>1. n \in Nat /\ TxUsed \in Nat
        BY SendNumbers
    <3> HIDE DEF TxUsed
    <3> QED BY <1>1, <3>1, SlotsInNat
  <2> QED BY <1>1, <2>1, Indices, DistanceMoves DEF TxUsed
<1>4. Ready' = Ready
  <2>1. TxUsed \in Int /\ n \in Int
      BY SendNumbers
  <2>2. Ready = TxUsed + CopiedIn /\ Ready' = TxUsed' + CopiedIn'
      BY DEF Ready
  <2> HIDE DEF TxUsed
  <2> QED BY <1>2, <1>3, <2>1, <2>2
<1> QED BY <1>1, <1>4 DEF SendStream

LEMMA WritePieceNext ==
    ASSUME TypeOK, WritePiece, SendStream, [Next]_vars
    PROVE  WritePiece' /\ SendStream'
<1> USE DEF presence, tx, device, locals, streams
<1>1. CASE UNCHANGED <<put, taken, tx, pc, n, in, wfifo>>
    BY <1>1, SendKept DEF WritePiece, TxUsed, CopiedIn
<1>2. CASE HostSends \/ Timeout \/ Spin \/ UNCHANGED vars
    BY <1>1, <1>2 DEF HostSends, Timeout, Spin, vars
<1>3. CASE HostTakes
  <2>1. WritePiece'
      BY <1>3 DEF HostTakes, WritePiece, TxUsed
  <2> QED BY <1>3, <2>1, SendHost
<1>4. CASE Irq
  <2>1. TxUsed' = TxUsed - Transmitted /\ TxUsed \in Nat /\ Transmitted \in Nat
    <3>1. Transmitted \in 0 .. BUF_LEN /\ Transmitted <= TxUsed
      <4>1. TxUsed \in Slots /\ Transmitted \in Nat /\ Transmitted <= TxUsed
          BY InterruptFits
      <4> HIDE DEF TxUsed, Transmitted
      <4> QED BY <4>1, SlotsInNat DEF Slots
    <3>2. tx_out' = Advance(tx_out, Transmitted) /\ tx_in' = tx_in
        BY <1>4 DEF Irq
    <3>3. TxUsed' = TxUsed - Transmitted
        BY <3>1, <3>2, Indices, DistanceMoves DEF TxUsed
    <3> QED BY <3>3, SendNumbers, InterruptFits
  <2>2. UNCHANGED <<pc, in, n, tx_in>>
      BY <1>4 DEF Irq
  <2>3. n \in Nat /\ BUF_LEN \in Nat
      BY SendNumbers, SlotsInNat
  <2>4. WritePiece'
    <3> HIDE DEF TxUsed, Transmitted
    <3> QED BY <2>1, <2>2, <2>3 DEF WritePiece
  <2> QED BY <1>4, <2>4, SendIrq
<1>5. CASE Begin
  <2>1. pc \notin {"tx_copy", "tx_store"} /\ pc' \notin {"tx_copy", "tx_store"}
        /\ UNCHANGED <<put, taken, tx, wfifo>>
      BY <1>5 DEF Begin, Call, SetTimeout
  <2> QED BY <2>1, SendKept DEF WritePiece, CopiedIn
<1>6. CASE TxLoad
  <2>1. pc = "tx_load" /\ pc' # "tx_store" /\ UNCHANGED <<put, taken, tx, wfifo>>
      BY <1>6 DEF TxLoad
  <2>2. SendStream'
      BY <2>1, SendKept DEF CopiedIn
  <2> DEFINE m == Min({Writable(tx_in, tx_out), left})
  <2>3. TxUsed + m < BUF_LEN /\ tx_in + m <= BUF_LEN
    <3>1. TxUsed = IF tx_in >= tx_out THEN tx_in - tx_out ELSE (tx_in - tx_out) + BUF_LEN
        BY Indices, Distance DEF TxUsed
    <3>2. tx_in \in 0 .. BUF_LEN-1 /\ tx_out \in 0 .. BUF_LEN-1 /\ BUF_LEN \in Nat
        BY Indices, SlotsInNat DEF Slots
    <3> HIDE DEF TxUsed
    <3>3. TxUsed + Writable(tx_in, tx_out) < BUF_LEN
          /\ tx_in + Writable(tx_in, tx_out) <= BUF_LEN
        BY <3>1, <3>2 DEF Writable
    <3>4. Writable(tx_in, tx_out) \in Int /\ left \in Int /\ TxUsed \in Int
        BY <3>1, <3>2 DEF Writable, TypeOK
    <3>5. m = IF Writable(tx_in, tx_out) <= left THEN Writable(tx_in, tx_out) ELSE left
        BY <3>4, MinOfTwo
    <3> HIDE DEF Writable, m
    <3> QED BY <3>2, <3>3, <3>4, <3>5
  <2>4. in' = tx_in /\ n' = m
      BY <1>6 DEF TxLoad
  <2>5. TxUsed' = TxUsed /\ tx_in' = tx_in
      BY <2>1 DEF TxUsed
  <2>6. WritePiece'
    <3> HIDE DEF m, TxUsed
    <3> QED BY <2>3, <2>4, <2>5 DEF WritePiece
  <2> QED BY <2>2, <2>6
<1>7. CASE TxCopy
  <2>1. WritePiece'
      BY <1>7 DEF TxCopy, WritePiece, TxUsed
  <2> QED BY <1>7, <2>1, SendCopied
<1>8. CASE TxStore
  <2>1. WritePiece'
      BY <1>8 DEF TxStore, Goto, WritePiece
  <2> QED BY <1>8, <2>1, SendStored
<1>9. CASE RxLoad \/ RxCopy \/ RxStore \/ RxSpin \/ RxCheck \/ RxEnable \/ TxEnable
           \/ TxSpin \/ TxCheck \/ Close
  <2>1. pc \notin {"tx_copy", "tx_store"} /\ pc' \notin {"tx_copy", "tx_store"}
        /\ UNCHANGED <<put, taken, tx, wfifo>>
      BY <1>9 DEF RxLoad, RxCopy, RxStore, RxSpin, RxCheck, RxEnable, TxEnable,
                  TxSpin, TxCheck, Close, Goto, Return
  <2> QED BY <2>1, SendKept DEF WritePiece, CopiedIn
<1> QED BY <1>2, <1>3, <1>4, <1>5, <1>6, <1>7, <1>8, <1>9 DEF Next, Continue

-----------------------------------------------------------------------------
(* In order                                                                *)

\* A stretch of a buffer is a sequence.
LEMMA StretchProperties ==
    ASSUME NEW buf \in [Slots -> Marks], NEW from \in Int, NEW length \in Nat
    PROVE  /\ Stretch(buf, from, length) \in Seq(Marks)
           /\ Len(Stretch(buf, from, length)) = length
           /\ \A k \in 1 .. length :
                 Stretch(buf, from, length)[k] = buf[(from + k - 1) % BUF_LEN]
<1>1. \A k \in 1 .. length : buf[(from + k - 1) % BUF_LEN] \in Marks
  <2>1. \A k \in 1 .. length : from + k - 1 \in Int
      OBVIOUS
  <2> QED BY <2>1, OffsetInSlots
<1>2. Stretch(buf, from, length) \in [1 .. length -> Marks]
    BY <1>1 DEF Stretch
<1>3. Stretch(buf, from, length) \in Seq(Marks)
    BY <1>2, SeqDef
<1>4. Len(Stretch(buf, from, length)) = length
    BY <1>2, <1>3, LenProperties
<1> QED BY <1>3, <1>4 DEF Stretch

LEMMA ReceivedSound ==
    ASSUME TypeOK, ReadPiece, ReceiveStream
    PROVE  ReceivedInOrder
<1> DEFINE l == Len(rfifo)
           w == Waiting
           s == Stretch(rx_buf, rx_out + CopiedOut, w)
<1>1. /\ l \in Nat /\ w \in Nat /\ w < BUF_LEN /\ BUF_LEN \in Nat /\ CopiedOut \in Int
      /\ rx_out \in Int /\ got \in Int
      /\ rx_buf \in [Slots -> Marks] /\ rfifo \in Seq(Marks)
  <2>1. Waiting \in Slots /\ CopiedOut \in Int /\ rx_out \in Int /\ got \in Int
        /\ Len(rfifo) \in Nat
      BY ReceiveNumbers
  <2>2. Waiting \in Nat /\ Waiting < BUF_LEN /\ BUF_LEN \in Nat
      BY <2>1, SlotsInNat DEF Slots
  <2> QED BY <2>1, <2>2 DEF TypeOK
<1>2. /\ (sent - got) % Places = w + l
      /\ \A k \in 0 .. BUF_LEN : k < w =>
             rx_buf[(rx_out + CopiedOut + k) % BUF_LEN] = (got + k) % Places
      /\ \A k \in 1 .. l : rfifo[k] = (got + w + k - 1) % Places
    BY DEF ReceiveStream
<1> HIDE DEF w
<1>3. /\ s \in Seq(Marks) /\ Len(s) = w
      /\ \A k \in 1 .. w : s[k] = rx_buf[(rx_out + CopiedOut + k - 1) % BUF_LEN]
  <2>1. rx_out + CopiedOut \in Int
      BY <1>1
  <2> QED BY <1>1, <2>1, StretchProperties
<1> HIDE DEF s, l
<1>4. /\ s \o rfifo \in Seq(Marks) /\ Len(s \o rfifo) = w + l
      /\ \A k \in 1 .. w + l : (s \o rfifo)[k] = IF k <= w THEN s[k] ELSE rfifo[k - w]
    BY <1>1, <1>3, ConcatProperties DEF l
<1>5. \A k \in 1 .. w + l : (s \o rfifo)[k] = (got + k - 1) % Places
  <2> TAKE k \in 1 .. w + l
  <2>1. CASE k <= w
    <3>1. /\ k \in 1 .. w /\ k - 1 \in 0 .. BUF_LEN /\ k - 1 < w
          /\ rx_out + CopiedOut + k - 1 = rx_out + CopiedOut + (k - 1)
          /\ got + (k - 1) = got + k - 1
        BY <1>1, <2>1
    <3>2. rx_buf[(rx_out + CopiedOut + (k - 1)) % BUF_LEN] = (got + (k - 1)) % Places
        BY <1>2, <3>1
    <3> QED BY <1>3, <1>4, <2>1, <3>1, <3>2
  <2>2. CASE k > w
    <3>1. k - w \in 1 .. l /\ got + w + (k - w) - 1 = got + k - 1 /\ ~(k <= w)
        BY <1>1, <2>2
    <3>2. rfifo[k - w] = (got + w + (k - w) - 1) % Places
        BY <1>2, <3>1
    <3> QED BY <1>4, <3>1, <3>2
  <2>3. k <= w \/ k > w
      BY <1>1
  <2> QED BY <2>1, <2>2, <2>3
<1>6. s \o rfifo = [k \in 1 .. w + l |-> (got + k - 1) % Places]
  <2>1. s \o rfifo = [k \in 1 .. w + l |-> (s \o rfifo)[k]]
    <3> DEFINE whole == s \o rfifo
    <3>1. whole \in Seq(Marks) /\ Len(whole) = w + l
        BY <1>4
    <3> HIDE DEF whole
    <3>2. whole \in [1 .. w + l -> Marks]
        BY <3>1, LenProperties
    <3>3. whole = [k \in 1 .. w + l |-> whole[k]]
        BY <3>2
    <3> QED BY <3>3 DEF whole
  <2> QED BY <1>5, <2>1
<1>7. s = Stretch(rx_buf, rx_out + CopiedOut, ((rx_in - rx_out) % BUF_LEN) - CopiedOut)
    BY DEF s, w, Waiting, Used
<1> QED BY <1>2, <1>6, <1>7 DEF ReceivedInOrder, Marked

LEMMA SentSound ==
    ASSUME TypeOK, WritePiece, SendStream
    PROVE  SentInOrder
<1> DEFINE l == Len(wfifo)
           r == Ready
           s == Stretch(tx_buf, tx_out, r)
<1>1. /\ l \in Nat /\ r \in Nat /\ r < BUF_LEN /\ BUF_LEN \in Nat
      /\ tx_out \in Int /\ taken \in Int
      /\ tx_buf \in [Slots -> Marks] /\ wfifo \in Seq(Marks)
    BY SendNumbers, SlotsInNat DEF TypeOK
<1>2. /\ (put - taken) % Places = l + r
      /\ \A k \in 1 .. l : wfifo[k] = (taken + k - 1) % Places
      /\ \A k \in 0 .. BUF_LEN : k < r =>
            tx_buf[(tx_out + k) % BUF_LEN] = (taken + l + k) % Places
    BY DEF SendStream
<1> HIDE DEF r
<1>3. /\ s \in Seq(Marks) /\ Len(s) = r
      /\ \A k \in 1 .. r : s[k] = tx_buf[(tx_out + k - 1) % BUF_LEN]
    BY <1>1, StretchProperties
<1> HIDE DEF s, l
<1>4. /\ wfifo \o s \in Seq(Marks) /\ Len(wfifo \o s) = l + r
      /\ \A k \in 1 .. l + r : (wfifo \o s)[k] = IF k <= l THEN wfifo[k] ELSE s[k - l]
    BY <1>1, <1>3, ConcatProperties DEF l
<1>5. \A k \in 1 .. l + r : (wfifo \o s)[k] = (taken + k - 1) % Places
  <2> TAKE k \in 1 .. l + r
  <2>1. CASE k <= l
    <3>1. k \in 1 .. l
        BY <1>1, <2>1
    <3> QED BY <1>2, <1>4, <2>1, <3>1
  <2>2. CASE k > l
    <3> DEFINE j == k - l - 1
    <3>1. /\ k - l \in 1 .. r /\ j \in 0 .. BUF_LEN /\ j < r /\ ~(k <= l)
          /\ tx_out + (k - l) - 1 = tx_out + j /\ taken + l + j = taken + k - 1
        BY <1>1, <2>2
    <3> HIDE DEF j
    <3>2. tx_buf[(tx_out + j) % BUF_LEN] = (taken + l + j) % Places
        BY <1>2, <3>1
    <3> QED BY <1>3, <1>4, <3>1, <3>2
  <2>3. k <= l \/ k > l
      BY <1>1
  <2> QED BY <2>1, <2>2, <2>3
<1>6. wfifo \o s = [k \in 1 .. l + r |-> (taken + k - 1) % Places]
  <2>1. wfifo \o s = [k \in 1 .. l + r |-> (wfifo \o s)[k]]
    <3> DEFINE whole == wfifo \o s
    <3>1. whole \in Seq(Marks) /\ Len(whole) = l + r
        BY <1>4
    <3> HIDE DEF whole
    <3>2. whole \in [1 .. l + r -> Marks]
        BY <3>1, LenProperties
    <3>3. whole = [k \in 1 .. l + r |-> whole[k]]
        BY <3>2
    <3> QED BY <3>3 DEF whole
  <2> QED BY <1>5, <2>1
<1>7. s = Stretch(tx_buf, tx_out, TxUsed + CopiedIn)
    BY DEF s, r, Ready
<1> QED BY <1>2, <1>6, <1>7 DEF SentInOrder, Marked

\* Both streams, and the pieces of them that are being copied.
Streams == ReadPiece /\ ReceiveStream /\ WritePiece /\ SendStream

LEMMA StreamsInit == Init => Streams
<1> SUFFICES ASSUME Init PROVE Streams
    OBVIOUS
<1>1. /\ rfifo = <<>> /\ wfifo = <<>> /\ rx_in = 0 /\ rx_out = 0 /\ tx_in = 0 /\ tx_out = 0
      /\ pc = "idle" /\ sent = 0 /\ got = 0 /\ put = 0 /\ taken = 0
    BY DEF Init
<1>2. 0 % BUF_LEN = 0 /\ 0 % Places = 0
    BY SlotsInNat, PlacesPositive
<1>3. Used = 0 /\ TxUsed = 0 /\ CopiedOut = 0 /\ CopiedIn = 0
    BY <1>1, <1>2 DEF Used, TxUsed, CopiedOut, CopiedIn
<1>4. Waiting = 0 /\ Ready = 0 /\ Len(rfifo) = 0 /\ Len(wfifo) = 0
    BY <1>1, <1>3, EmptySeq DEF Waiting, Ready
<1>5. ReceiveStream
    BY <1>1, <1>2, <1>4 DEF ReceiveStream
<1>6. SendStream
    BY <1>1, <1>2, <1>4 DEF SendStream
<1> QED BY <1>1, <1>5, <1>6 DEF Streams, ReadPiece, WritePiece

\* No character is lost, doubled or overtaken on the way between the host and the
\* program, in either direction, whatever altera_avalon_jtag_uart_irq moves while
\* altera_avalon_jtag_uart_read or _write is between two of its steps.
THEOREM StreamsInOrder == Spec => []InOrder
<1>1. Init => Streams
    BY StreamsInit
<1>2. IInv /\ Streams /\ [Next]_vars => Streams'
    BY ReadPieceNext, WritePieceNext DEF IInv, Streams
<1>3. IInv /\ Streams => InOrder
    BY ReceivedSound, SentSound DEF IInv, Streams, InOrder
<1> QED BY <1>1, <1>2, <1>3, Inductive, PTL DEF Spec
=============================================================================
