--------------------------- MODULE DriversProofs ----------------------------
(***************************************************************************)
(* The drivers of MCDrivers, for every depth of a FIFO, every set of       *)
(* requests, transactions and callbacks and every size of the log: no byte *)
(* is lost or misplaced by the polled JTAG UART or the SPI master, a       *)
(* callback of the ADC is called with its own context, what the log loses  *)
(* is explained, and a call of the flash that reports success has done     *)
(* what it promises, for every geometry.                                   *)
(***************************************************************************)
EXTENDS MCDrivers, SequenceTheorems, TLAPS

-----------------------------------------------------------------------------
(* PolledUart: the arithmetic of the marks                                 *)

LEMMA PolledNumbers ==
    /\ PolledPlaces \in Nat /\ PolledDepth \in Nat /\ PolledDepth > 0
    /\ PolledPlaces > PolledDepth + 1 /\ PolledSizes \subseteq Nat
BY DriversAssumption DEF Polled!PolledAssumption

\* Within a turn of each other, places are found by one comparison.
LEMMA Gap ==
    ASSUME NEW first \in Polled!Marks, NEW past \in Polled!Marks
    PROVE  (past - first) % PolledPlaces
               = IF past >= first THEN past - first ELSE past - first + PolledPlaces
<1>1. CASE past >= first
    BY <1>1, PolledNumbers DEF Polled!Marks
<1>2. CASE past < first
    BY <1>2, PolledNumbers DEF Polled!Marks
<1> QED BY <1>1, <1>2, PolledNumbers DEF Polled!Marks

LEMMA Following ==
    ASSUME NEW x \in Polled!Marks
    PROVE  /\ Polled!Plus(x) = IF x + 1 < PolledPlaces THEN x + 1 ELSE 0
           /\ Polled!Plus(x) \in Polled!Marks
<1>1. CASE x + 1 < PolledPlaces
    BY <1>1, PolledNumbers DEF Polled!Marks, Polled!Plus
<1>2. CASE x + 1 = PolledPlaces
    BY <1>2, PolledNumbers DEF Polled!Marks, Polled!Plus
<1> QED BY <1>1, <1>2, PolledNumbers DEF Polled!Marks

LEMMA Along ==
    ASSUME NEW first \in Polled!Marks, NEW k \in 1 .. PolledPlaces
    PROVE  (first + k - 1) % PolledPlaces
               = IF first + k - 1 < PolledPlaces THEN first + k - 1
                                                 ELSE first + k - 1 - PolledPlaces
<1>1. CASE first + k - 1 < PolledPlaces
    BY <1>1, PolledNumbers DEF Polled!Marks
<1>2. CASE first + k - 1 >= PolledPlaces
    BY <1>2, PolledNumbers DEF Polled!Marks
<1> QED BY <1>1, <1>2, PolledNumbers DEF Polled!Marks

\* A FIFO holds the characters from one mark up to another.
Holds(fifo, first, past) ==
    /\ fifo \in Seq(Polled!Marks)
    /\ Len(fifo) = (past - first) % PolledPlaces
    /\ \A k \in 1 .. Len(fifo) : fifo[k] = (first + k - 1) % PolledPlaces

LEMMA HoldsIsMarked ==
    ASSUME NEW fifo, NEW first \in Polled!Marks, NEW past \in Polled!Marks
    PROVE  Holds(fifo, first, past) => fifo = Polled!Marked(first, past)
<1> SUFFICES ASSUME Holds(fifo, first, past) PROVE fifo = Polled!Marked(first, past)
    OBVIOUS
<1>1. fifo \in [1 .. Len(fifo) -> Polled!Marks]
    BY LenProperties DEF Holds
<1>2. fifo = [k \in 1 .. Len(fifo) |-> fifo[k]]
    BY <1>1
<1>3. fifo = [k \in 1 .. Len(fifo) |-> (first + k - 1) % PolledPlaces]
    BY <1>2 DEF Holds
<1> QED BY <1>3 DEF Holds, Polled!Marked

LEMMA AppendHolds ==
    ASSUME NEW fifo, NEW first \in Polled!Marks, NEW past \in Polled!Marks,
           Holds(fifo, first, past), Len(fifo) < PolledDepth
    PROVE  /\ Holds(Append(fifo, past), first, Polled!Plus(past))
           /\ Len(Append(fifo, past)) <= PolledDepth
<1> DEFINE l == Len(fifo)
           new == Append(fifo, past)
           next == Polled!Plus(past)
<1>1. fifo \in Seq(Polled!Marks) /\ l = (past - first) % PolledPlaces
      /\ \A k \in 1 .. l : fifo[k] = (first + k - 1) % PolledPlaces
    BY DEF Holds
<1>2. l \in Nat /\ l < PolledDepth
    BY <1>1, LenProperties
<1>3. new \in Seq(Polled!Marks) /\ Len(new) = l + 1
      /\ \A k \in 1 .. l + 1 : new[k] = IF k <= l THEN fifo[k] ELSE past
    BY <1>1, AppendProperties
<1>4. next \in Polled!Marks
      /\ next = IF past + 1 < PolledPlaces THEN past + 1 ELSE 0
    BY Following
<1>5. l = IF past >= first THEN past - first ELSE past - first + PolledPlaces
    BY <1>1, Gap
<1>6. (next - first) % PolledPlaces
          = IF next >= first THEN next - first ELSE next - first + PolledPlaces
    BY <1>4, Gap
<1> HIDE DEF l, new, next
<1>7. (next - first) % PolledPlaces = l + 1
    BY <1>2, <1>4, <1>5, <1>6, PolledNumbers DEF Polled!Marks
<1>8. (first + (l + 1) - 1) % PolledPlaces = past
  <2> DEFINE k == l + 1
  <2>1. k \in 1 .. PolledPlaces
      BY <1>2, PolledNumbers
  <2>2. first + k - 1 = first + l
      BY <1>2 DEF Polled!Marks
  <2> HIDE DEF k
  <2>3. (first + k - 1) % PolledPlaces
            = IF first + k - 1 < PolledPlaces THEN first + k - 1
                                              ELSE first + k - 1 - PolledPlaces
      BY <2>1, Along
  <2>4. (IF first + l < PolledPlaces THEN first + l ELSE first + l - PolledPlaces) = past
      BY <1>2, <1>5, PolledNumbers DEF Polled!Marks
  <2> DEFINE place == (first + k - 1) % PolledPlaces
  <2>5. place = IF first + k - 1 < PolledPlaces THEN first + k - 1
                                                ELSE first + k - 1 - PolledPlaces
      BY <2>3
  <2> HIDE DEF place
  <2>6. place = past
      BY <1>2, <2>1, <2>2, <2>4, <2>5, PolledNumbers DEF Polled!Marks
  <2> QED BY <2>6 DEF k, place
<1>9. ASSUME NEW k \in 1 .. l + 1 PROVE new[k] = (first + k - 1) % PolledPlaces
  <2>1. CASE k <= l
    <3>1. k \in 1 .. l
        BY <1>2, <2>1
    <3> QED BY <1>1, <1>3, <2>1, <3>1
  <2>2. CASE k = l + 1
    <3>1. ~(k <= l)
        BY <1>2, <2>2
    <3> QED BY <1>3, <1>8, <2>2, <3>1
  <2> QED BY <1>2, <2>1, <2>2
<1>10. l + 1 <= PolledDepth
    BY <1>2, PolledNumbers
<1> QED BY <1>3, <1>7, <1>9, <1>10 DEF Holds, new, next

LEMMA TailHolds ==
    ASSUME NEW fifo, NEW first \in Polled!Marks, NEW past \in Polled!Marks,
           Holds(fifo, first, past), fifo # <<>>, Len(fifo) <= PolledDepth
    PROVE  /\ Holds(Tail(fifo), Polled!Plus(first), past)
           /\ Len(Tail(fifo)) <= PolledDepth
<1> DEFINE l == Len(fifo)
           new == Tail(fifo)
           next == Polled!Plus(first)
<1>1. fifo \in Seq(Polled!Marks) /\ l = (past - first) % PolledPlaces
      /\ \A k \in 1 .. l : fifo[k] = (first + k - 1) % PolledPlaces
    BY DEF Holds
<1>2. l \in Nat /\ l # 0
    BY <1>1, LenProperties, EmptySeq
<1>3. new \in Seq(Polled!Marks) /\ Len(new) = l - 1
      /\ \A k \in 1 .. l - 1 : new[k] = fifo[k + 1]
    BY <1>1, HeadTailProperties
<1>4. next \in Polled!Marks
      /\ next = IF first + 1 < PolledPlaces THEN first + 1 ELSE 0
    BY Following
<1>5. l = IF past >= first THEN past - first ELSE past - first + PolledPlaces
    BY <1>1, Gap
<1>6. (past - next) % PolledPlaces
          = IF past >= next THEN past - next ELSE past - next + PolledPlaces
    BY <1>4, Gap
<1>7. l <= PolledDepth
    OBVIOUS
<1> HIDE DEF l, new, next
<1>8. (past - next) % PolledPlaces = l - 1
    BY <1>2, <1>4, <1>5, <1>6, <1>7, PolledNumbers DEF Polled!Marks
<1>9. ASSUME NEW k \in 1 .. l - 1
      PROVE  new[k] = (next + k - 1) % PolledPlaces
  <2> DEFINE j == k + 1
  <2>1. j \in 1 .. l /\ j \in 1 .. PolledPlaces /\ k \in 1 .. PolledPlaces
      BY <1>2, <1>7, PolledNumbers
  <2>2. new[k] = fifo[j]
      BY <1>3
  <2> HIDE DEF j
  <2>3. new[k] = (first + j - 1) % PolledPlaces
      BY <1>1, <2>1, <2>2 DEF l
  <2>4. /\ (first + j - 1) % PolledPlaces
              = IF first + j - 1 < PolledPlaces THEN first + j - 1
                                                ELSE first + j - 1 - PolledPlaces
        /\ (next + k - 1) % PolledPlaces
              = IF next + k - 1 < PolledPlaces THEN next + k - 1
                                               ELSE next + k - 1 - PolledPlaces
      BY <1>4, <2>1, Along
  <2> QED BY <1>4, <2>1, <2>3, <2>4, PolledNumbers DEF Polled!Marks, j
<1>10. l - 1 <= PolledDepth
    BY <1>2, <1>7, PolledNumbers
<1> QED BY <1>3, <1>8, <1>9, <1>10 DEF Holds, new, next

-----------------------------------------------------------------------------
(* PolledUart: in order                                                    *)

PolledInv ==
    /\ Polled!TypeOK
    /\ Holds(rfifo, got, sent)
    /\ Holds(wfifo, taken, put)

LEMMA PolledSound == PolledInv => Polled!PolledInOrder
<1> SUFFICES ASSUME PolledInv PROVE Polled!PolledInOrder
    OBVIOUS
<1>1. Polled!TypeOK /\ {sent, got, put, taken} \subseteq Polled!Marks
    BY DEF PolledInv, Polled!TypeOK
<1>2. rfifo = Polled!Marked(got, sent)
    BY <1>1, HoldsIsMarked DEF PolledInv
<1>3. wfifo = Polled!Marked(taken, put)
    BY <1>1, HoldsIsMarked DEF PolledInv
<1> QED BY <1>1, <1>2, <1>3 DEF Polled!PolledInOrder

LEMMA PolledInit == Polled!Init => PolledInv
<1> SUFFICES ASSUME Polled!Init PROVE PolledInv
    OBVIOUS
<1>1. /\ rfifo = <<>> /\ wfifo = <<>> /\ at = "idle" /\ left = 0
      /\ moved = FALSE /\ nonblock = FALSE /\ sent = 0 /\ got = 0 /\ put = 0 /\ taken = 0
    BY DEF Polled!Init
<1>2. 0 \in Polled!Marks
    BY PolledNumbers DEF Polled!Marks
<1>3. (0 - 0) % PolledPlaces = 0
  <2>1. (0 - 0) % PolledPlaces = IF 0 >= 0 THEN 0 - 0 ELSE 0 - 0 + PolledPlaces
      BY <1>2, Gap
  <2> QED BY <2>1
<1>4. <<>> \in Seq(Polled!Marks) /\ Len(<<>>) = 0
    BY EmptySeq
<1>5. Holds(<<>>, 0, 0)
    BY <1>3, <1>4 DEF Holds
<1>6. 0 <= PolledDepth
    BY PolledNumbers
<1> QED BY <1>1, <1>2, <1>4, <1>5, <1>6 DEF PolledInv, Polled!TypeOK

LEMMA PolledNext == PolledInv /\ [Polled!Next]_(Polled!vars) => PolledInv'
<1> SUFFICES ASSUME PolledInv, [Polled!Next]_(Polled!vars) PROVE PolledInv'
    OBVIOUS
<1> USE DEF Polled!device, Polled!call, Polled!streams
<1>1. /\ Polled!TypeOK /\ Holds(rfifo, got, sent) /\ Holds(wfifo, taken, put)
      /\ {sent, got, put, taken} \subseteq Polled!Marks
      /\ Len(rfifo) <= PolledDepth /\ Len(wfifo) <= PolledDepth /\ left \in Nat
      /\ Len(rfifo) \in Nat /\ Len(wfifo) \in Nat
  <2>1. rfifo \in Seq(Polled!Marks) /\ wfifo \in Seq(Polled!Marks)
      BY DEF PolledInv, Polled!TypeOK
  <2>2. Len(rfifo) \in Nat /\ Len(wfifo) \in Nat
      BY <2>1, LenProperties
  <2> QED BY <2>2 DEF PolledInv, Polled!TypeOK
<1>2. CASE Polled!HostSends
  <2>1. /\ Holds(rfifo', got, sent') /\ sent' \in Polled!Marks
        /\ Len(rfifo') <= PolledDepth
      BY <1>1, <1>2, AppendHolds, Following DEF Polled!HostSends
  <2>2. rfifo' \in Seq(Polled!Marks)
      BY <2>1 DEF Holds
  <2> QED BY <1>1, <1>2, <2>1, <2>2 DEF Polled!HostSends, PolledInv, Polled!TypeOK
<1>3. CASE Polled!HostTakes
  <2>1. /\ Holds(wfifo', taken', put) /\ taken' \in Polled!Marks
        /\ Len(wfifo') <= PolledDepth
      BY <1>1, <1>3, TailHolds, Following DEF Polled!HostTakes
  <2>2. wfifo' \in Seq(Polled!Marks)
      BY <2>1 DEF Holds
  <2> QED BY <1>1, <1>3, <2>1, <2>2 DEF Polled!HostTakes, PolledInv, Polled!TypeOK
<1>4. CASE Polled!Begin
    BY <1>1, <1>4, PolledNumbers DEF Polled!Begin, Polled!Call, PolledInv, Polled!TypeOK
<1>5. CASE Polled!ReadReturns \/ Polled!WriteReturns
  <2>1. /\ at' = "idle" /\ left' = 0 /\ moved' = FALSE /\ nonblock' = FALSE
        /\ UNCHANGED <<rfifo, wfifo, sent, got, put, taken>>
      BY <1>5 DEF Polled!ReadReturns, Polled!WriteReturns, Polled!Return
  <2> QED BY <1>1, <2>1 DEF PolledInv, Polled!TypeOK
<1>6. CASE Polled!ReadChar
  <2>1. /\ Holds(rfifo', got', sent) /\ got' \in Polled!Marks
        /\ Len(rfifo') <= PolledDepth
      BY <1>1, <1>6, TailHolds, Following DEF Polled!ReadChar
  <2>2. rfifo' \in Seq(Polled!Marks)
      BY <2>1 DEF Holds
  <2>3. left' \in Nat
      BY <1>1, <1>6 DEF Polled!ReadChar
  <2> QED BY <1>1, <1>6, <2>1, <2>2, <2>3 DEF Polled!ReadChar, PolledInv, Polled!TypeOK
<1>7. CASE Polled!WriteChar
  <2>1. /\ Holds(wfifo', taken, put') /\ put' \in Polled!Marks
        /\ Len(wfifo') <= PolledDepth
      BY <1>1, <1>7, AppendHolds, Following DEF Polled!WriteChar, Polled!WSpace
  <2>2. wfifo' \in Seq(Polled!Marks)
      BY <2>1 DEF Holds
  <2>3. left' \in Nat
      BY <1>1, <1>7 DEF Polled!WriteChar
  <2> QED BY <1>1, <1>7, <2>1, <2>2, <2>3 DEF Polled!WriteChar, PolledInv, Polled!TypeOK
<1>8. CASE Polled!Spin \/ UNCHANGED Polled!vars
    BY <1>1, <1>8 DEF Polled!Spin, Polled!vars, PolledInv, Polled!TypeOK
<1> QED BY <1>2, <1>3, <1>4, <1>5, <1>6, <1>7, <1>8 DEF Polled!Next, Polled!Continue

-----------------------------------------------------------------------------
(* SpiCommand: what the shared variables are                               *)

txdata == v1
shift  == v2
rxdata == v3
step   == v5
seen   == v6
credits     == v7
write_data  == v8
write_zeros == v9
read_ignore == v10
read_data   == v11
options     == v12
writes == v13[1]
reads  == v13[2]
clocked == v14

spiNames == <<txdata, shift, rxdata, step, seen, credits, write_data, write_zeros,
              read_ignore, read_data, options, writes, reads, clocked>>

\* The k-th byte that the slave is to get.
Byte(k) == IF k <= writes THEN k ELSE 0

\* How many bytes have been given to the master, and how many taken from it.
Supplied == (writes - Len(write_data)) + (reads - write_zeros)
Collected == (writes - read_ignore) + Len(read_data)

\* What there is to write and to discard, and what was read, follow the numbers.
Books ==
    /\ writes \in Nat /\ reads \in Nat
    /\ write_data \in Seq(Nat) /\ Len(write_data) <= writes
    /\ \A k \in 1 .. Len(write_data) : write_data[k] = (writes - Len(write_data)) + k
    /\ write_zeros \in Nat /\ write_zeros <= reads
    /\ write_data # <<>> => write_zeros = reads
    /\ read_ignore \in Nat /\ read_ignore <= writes
    /\ read_data \in Seq(Nat) /\ Len(read_data) <= reads
    /\ \A k \in 1 .. Len(read_data) : read_data[k] = writes + k
    /\ read_ignore > 0 => Len(read_data) = 0
    /\ clocked \in Seq(Nat)
    /\ \A k \in 1 .. Len(clocked) : clocked[k] = Byte(k)

\* The one credit: no more than one byte is anywhere in the master.
NoneInFlight ==
    /\ txdata = <<>> /\ shift = <<>> /\ rxdata = <<>>
    /\ Len(clocked) = Collected /\ Supplied = Collected /\ credits = 1
InTransmit ==
    /\ txdata = <<Byte(Supplied)>> /\ shift = <<>> /\ rxdata = <<>>
    /\ Len(clocked) = Collected /\ Supplied = Collected + 1 /\ credits = 0
InShift ==
    /\ txdata = <<>> /\ shift = <<Byte(Supplied)>> /\ rxdata = <<>>
    /\ Len(clocked) = Collected /\ Supplied = Collected + 1 /\ credits = 0
InReceive ==
    /\ txdata = <<>> /\ shift = <<>> /\ rxdata = <<Supplied>>
    /\ Len(clocked) = Supplied /\ Supplied = Collected + 1 /\ credits = 0

OneInFlight == NoneInFlight \/ InTransmit \/ InShift \/ InReceive

\* Before the first status is read.
Quiet ==
    /\ txdata = <<>> /\ shift = <<>> /\ rxdata \in {<<>>, <<0>>}
    /\ step = "idle" => write_zeros = 0 /\ read_ignore = 0 /\ credits = 0
    /\ step = "discard" =>
          /\ Books /\ Supplied = 0 /\ Collected = 0 /\ Len(clocked) = 0 /\ credits = 1
          /\ writes + reads > 0

Busy == step \in {"status", "send", "receive"}
Over == step \in {"finish", "release"}

SpiTyped ==
    /\ v4 \in BOOLEAN /\ options \subseteq Spi!Flags
    /\ step \in {"idle", "discard", "status", "send", "receive", "finish", "release"}
    /\ seen \in [trdy : BOOLEAN, rrdy : BOOLEAN]
    /\ step # "idle" => v4 \/ "TOGGLE_SS_N" \in options

SpiInv ==
    /\ SpiTyped
    /\ step \in {"idle", "discard"} => Quiet
    /\ Busy => Books /\ OneInFlight /\ Collected < writes + reads
    /\ Over => Books /\ OneInFlight /\ Collected = writes + reads
    /\ step = "release" => NoneInFlight
    /\ step \in {"send", "receive"} /\ seen.rrdy => rxdata # <<>>

USE DEF txdata, shift, rxdata, step, seen, credits, write_data, write_zeros, read_ignore,
        read_data, options, clocked

LEMMA OneMore ==
    ASSUME NEW s \in Seq(Nat), NEW x \in Nat
    PROVE  /\ s \o <<x>> \in Seq(Nat) /\ Len(s \o <<x>>) = Len(s) + 1
           /\ \A k \in 1 .. Len(s) + 1 : (s \o <<x>>)[k] = IF k <= Len(s) THEN s[k] ELSE x
<1>1. <<x>> \in Seq(Nat) /\ Len(<<x>>) = 1 /\ <<x>>[1] = x
    OBVIOUS
<1>2. /\ s \o <<x>> \in Seq(Nat) /\ Len(s \o <<x>>) = Len(s) + 1
      /\ \A k \in 1 .. Len(s) + 1 :
            (s \o <<x>>)[k] = IF k <= Len(s) THEN s[k] ELSE <<x>>[k - Len(s)]
    BY <1>1, ConcatProperties
<1>3. ASSUME NEW k \in 1 .. Len(s) + 1, ~(k <= Len(s)) PROVE <<x>>[k - Len(s)] = x
  <2>1. k - Len(s) = 1
      BY <1>3, LenProperties
  <2> QED BY <1>1, <2>1
<1> QED BY <1>2, <1>3

\* The numbers of the books.
LEMMA BookNumbers ==
    ASSUME Books
    PROVE  /\ Len(write_data) \in Nat /\ Len(read_data) \in Nat /\ Len(clocked) \in Nat
           /\ Supplied \in Nat /\ Collected \in Nat /\ Byte(Supplied) \in Nat
           /\ Supplied <= writes + reads /\ Collected <= writes + reads
<1>1. /\ writes \in Nat /\ reads \in Nat /\ write_zeros \in Nat /\ write_zeros <= reads
      /\ read_ignore \in Nat /\ read_ignore <= writes
      /\ Len(write_data) <= writes /\ Len(read_data) <= reads
    BY DEF Books
<1>2. Len(write_data) \in Nat /\ Len(read_data) \in Nat /\ Len(clocked) \in Nat
    BY LenProperties DEF Books
<1>3. Supplied \in Nat /\ Collected \in Nat /\ Supplied <= writes + reads /\ Collected <= writes + reads
    BY <1>1, <1>2 DEF Supplied, Collected
<1>4. Byte(Supplied) \in Nat
    BY <1>3 DEF Byte
<1> QED BY <1>2, <1>3, <1>4

LEMMA SpiLoad ==
    ASSUME SpiInv, Spi!Load
    PROVE  SpiInv'
<1>1. /\ txdata # <<>> /\ shift = <<>> /\ shift' = txdata /\ txdata' = <<>>
      /\ UNCHANGED <<rxdata, v4, step, seen, credits, write_data, write_zeros, read_ignore,
                     read_data, options, v13, clocked>>
    BY DEF Spi!Load, Spi!progress
<1>2. Books' = Books /\ Supplied' = Supplied /\ Collected' = Collected /\ Byte(Supplied)' = Byte(Supplied)
      /\ writes' = writes /\ reads' = reads
    BY <1>1 DEF Books, Supplied, Collected, Byte, writes, reads
<1>3. step \notin {"idle", "discard"}
    BY <1>1 DEF SpiInv, Quiet
<1>4. OneInFlight /\ ~NoneInFlight
    BY <1>1, <1>3 DEF SpiInv, SpiTyped, Busy, Over, NoneInFlight
<1>5. InTransmit
    BY <1>1, <1>4 DEF OneInFlight, InShift, InReceive
<1>6. InShift'
    BY <1>1, <1>2, <1>5 DEF InTransmit, InShift
<1>7. step # "release"
    BY <1>4 DEF SpiInv
<1>8. SpiTyped'
    BY <1>1 DEF SpiInv, SpiTyped
<1>9. Busy' = Busy /\ Over' = Over
    BY <1>1 DEF Busy, Over
<1> QED BY <1>1, <1>2, <1>3, <1>6, <1>7, <1>8, <1>9 DEF SpiInv, OneInFlight

LEMMA SpiShifted ==
    ASSUME SpiInv, Spi!Shifted
    PROVE  SpiInv'
<1>1. /\ shift # <<>> /\ shift' = <<>> /\ clocked' = clocked \o shift
      /\ rxdata' = <<Len(clocked')>>
      /\ UNCHANGED <<txdata, v4, step, seen, credits, write_data, write_zeros, read_ignore,
                     read_data, options, v13>>
    BY DEF Spi!Shifted, Spi!progress
<1>2. /\ Supplied' = Supplied /\ Collected' = Collected
      /\ writes' = writes /\ reads' = reads
    BY <1>1 DEF Supplied, Collected, writes, reads
<1>3. step \notin {"idle", "discard"}
    BY <1>1 DEF SpiInv, Quiet
<1>4. OneInFlight /\ ~NoneInFlight /\ Books
    BY <1>1, <1>3 DEF SpiInv, SpiTyped, Busy, Over, NoneInFlight
<1>5. InShift
    BY <1>1, <1>4 DEF OneInFlight, InTransmit, InReceive
<1>6. /\ shift = <<Byte(Supplied)>> /\ Len(clocked) = Collected /\ Supplied = Collected + 1
      /\ clocked \in Seq(Nat) /\ Byte(Supplied) \in Nat /\ Collected \in Nat
    BY <1>4, <1>5, BookNumbers DEF InShift, Books
<1>7. /\ clocked' \in Seq(Nat) /\ Len(clocked') = Collected + 1
      /\ \A k \in 1 .. Collected + 1 :
            clocked'[k] = IF k <= Collected THEN clocked[k] ELSE Byte(Supplied)
    BY <1>1, <1>6, OneMore
<1>8. ASSUME NEW k \in 1 .. Len(clocked') PROVE clocked'[k] = IF k <= writes THEN k ELSE 0
  <2>1. CASE k <= Collected
    <3>1. k \in 1 .. Len(clocked) /\ k \in 1 .. Collected + 1
        BY <1>6, <1>7, <2>1
    <3> QED BY <1>4, <1>7, <2>1, <3>1 DEF Books, Byte
  <2>2. CASE k = Supplied
    <3>1. ~(k <= Collected) /\ k \in 1 .. Collected + 1
        BY <1>6, <2>2
    <3> QED BY <1>7, <2>2, <3>1 DEF Byte
  <2> QED BY <1>6, <1>7, <2>1, <2>2
<1>9. Books'
    BY <1>1, <1>2, <1>4, <1>7, <1>8 DEF Books, Byte
<1>10. InReceive'
    BY <1>1, <1>2, <1>5, <1>6, <1>7 DEF InShift, InReceive
<1>11. step # "release"
    BY <1>4 DEF SpiInv
<1>12. SpiTyped'
    BY <1>1 DEF SpiInv, SpiTyped
<1>13. Busy' = Busy /\ Over' = Over /\ rxdata' # <<>>
    BY <1>1 DEF Busy, Over
<1> QED BY <1>1, <1>2, <1>3, <1>9, <1>10, <1>11, <1>12, <1>13 DEF SpiInv, OneInFlight

LEMMA SpiBegin ==
    ASSUME SpiInv, Spi!Begin
    PROVE  SpiInv'
<1> PICK l \in Lengths, f \in SUBSET Spi!Flags : Spi!Command(l, f)
    BY DEF Spi!Begin
<1>1. /\ step = "idle" /\ step' = "discard" /\ v13' = l /\ options' = f /\ credits' = 1
      /\ write_data' = [k \in 1 .. l[1] |-> k] /\ write_zeros' = l[2]
      /\ read_ignore' = l[1] /\ read_data' = <<>> /\ clocked' = <<>>
      /\ v4' = (v4 \/ "TOGGLE_SS_N" \notin f)
      /\ UNCHANGED <<txdata, shift, rxdata, seen>>
    BY DEF Spi!Command, Spi!InitialCredits
<1>2. l[1] \in Nat /\ l[2] \in Nat /\ l[1] + l[2] > 0
    BY DriversAssumption DEF Spi!SpiAssumption
<1>3. /\ write_data' \in Seq(Nat) /\ Len(write_data') = l[1]
      /\ \A k \in 1 .. l[1] : write_data'[k] = k
  <2>1. write_data' \in [1 .. l[1] -> Nat]
      BY <1>1
  <2>2. write_data' \in Seq(Nat)
      BY <1>2, <2>1, SeqDef
  <2>3. 1 .. Len(write_data') = 1 .. l[1] /\ Len(write_data') \in Nat
      BY <2>1, <2>2, LenProperties
  <2> QED BY <1>1, <1>2, <2>2, <2>3
<1>4. writes' = l[1] /\ reads' = l[2]
    BY <1>1 DEF writes, reads
<1>5. read_data' \in Seq(Nat) /\ clocked' \in Seq(Nat)
      /\ Len(read_data') = 0 /\ Len(clocked') = 0
    BY <1>1, EmptySeq
<1>6. Supplied' = 0 /\ Collected' = 0
    BY <1>1, <1>2, <1>3, <1>4, <1>5 DEF Supplied, Collected
<1>7. Books'
  <2>1. \A k \in 1 .. Len(write_data') : write_data'[k] = (l[1] - Len(write_data')) + k
      BY <1>2, <1>3
  <2> QED BY <1>1, <1>2, <1>3, <1>4, <1>5, <2>1 DEF Books
<1>8. Quiet'
    BY <1>1, <1>2, <1>4, <1>5, <1>6, <1>7 DEF SpiInv, Quiet
<1>9. SpiTyped'
    BY <1>1 DEF SpiInv, SpiTyped
<1> QED BY <1>1, <1>8, <1>9 DEF SpiInv, Busy, Over

LEMMA SpiDiscard ==
    ASSUME SpiInv, Spi!Discard
    PROVE  SpiInv'
<1>1. /\ step = "discard" /\ step' = "status" /\ rxdata' = <<>>
      /\ UNCHANGED <<txdata, shift, v4, seen, credits, write_data, write_zeros, read_ignore,
                     read_data, options, v13, clocked>>
    BY DEF Spi!Discard, Spi!progress
<1>2. Books' = Books /\ Supplied' = Supplied /\ Collected' = Collected
      /\ writes' = writes /\ reads' = reads
    BY <1>1 DEF Books, Supplied, Collected, Byte, writes, reads
<1>3. /\ Books /\ Supplied = 0 /\ Collected = 0 /\ Len(clocked) = 0 /\ credits = 1
      /\ writes + reads > 0 /\ txdata = <<>> /\ shift = <<>>
    BY <1>1 DEF SpiInv, Quiet
<1>4. NoneInFlight'
    BY <1>1, <1>2, <1>3 DEF NoneInFlight
<1>5. Collected' < writes' + reads'
    BY <1>2, <1>3 DEF Books
<1>6. SpiTyped'
    BY <1>1 DEF SpiInv, SpiTyped
<1> QED BY <1>1, <1>2, <1>3, <1>4, <1>5, <1>6 DEF SpiInv, Busy, Over, OneInFlight

LEMMA SpiStatus ==
    ASSUME SpiInv, Spi!Status
    PROVE  SpiInv'
<1>1. /\ step = "status" /\ step' = "send"
      /\ seen' = [trdy |-> txdata = <<>>, rrdy |-> rxdata # <<>>]
      /\ UNCHANGED <<txdata, shift, rxdata, v4, credits, write_data, write_zeros, read_ignore,
                     read_data, options, v13, clocked>>
    BY DEF Spi!Status, Spi!progress, Spi!master, Spi!TRDY, Spi!RRDY
<1>2. Books' = Books /\ OneInFlight' = OneInFlight /\ Collected' = Collected
      /\ writes' = writes /\ reads' = reads
    BY <1>1 DEF Books, OneInFlight, NoneInFlight, InTransmit, InShift, InReceive,
                Supplied, Collected, Byte, writes, reads
<1>3. SpiTyped' /\ (seen'.rrdy => rxdata' # <<>>)
    BY <1>1 DEF SpiInv, SpiTyped
<1> QED BY <1>1, <1>2, <1>3 DEF SpiInv, Busy, Over

\* A credit is there when nothing is in flight, and then there is something to send.
LEMMA SpiSend ==
    ASSUME SpiInv, Spi!Send
    PROVE  SpiInv'
<1>1. /\ step = "send" /\ step' = "receive"
      /\ UNCHANGED <<shift, rxdata, v4, seen, read_ignore, read_data, options, v13, clocked>>
    BY DEF Spi!Send
<1>2. Books /\ OneInFlight /\ Collected < writes + reads
    BY <1>1 DEF SpiInv, Busy
<1>3. /\ Len(write_data) \in Nat /\ Len(write_data) <= writes /\ write_data \in Seq(Nat)
      /\ writes \in Nat /\ reads \in Nat /\ write_zeros \in Nat /\ write_zeros <= reads
      /\ write_data # <<>> => write_zeros = reads
      /\ Supplied \in Nat /\ Collected \in Nat
    BY <1>2, BookNumbers DEF Books
<1>4. Collected' = Collected /\ writes' = writes /\ reads' = reads
    BY <1>1 DEF Collected, writes, reads
<1>5. SpiTyped'
    BY <1>1 DEF SpiInv, SpiTyped
<1>6. CASE ~(seen.trdy /\ credits > 0)
  <2>1. UNCHANGED <<txdata, credits, write_data, write_zeros>>
      BY <1>6 DEF Spi!Send
  <2>2. Books' = Books /\ OneInFlight' = OneInFlight
      BY <1>1, <2>1 DEF Books, OneInFlight, NoneInFlight, InTransmit, InShift, InReceive,
                        Supplied, Collected, Byte, writes, reads
  <2> QED BY <1>1, <1>2, <1>4, <1>5, <2>2 DEF SpiInv, Busy, Over
<1>7. CASE seen.trdy /\ credits > 0
  <2>1. NoneInFlight
      BY <1>2, <1>7 DEF OneInFlight, InTransmit, InShift, InReceive
  <2>2. /\ Supplied = Collected /\ Supplied < writes + reads /\ credits = 1
        /\ shift = <<>> /\ rxdata = <<>> /\ Len(clocked) = Collected
      BY <1>2, <2>1 DEF NoneInFlight
  <2>3. CASE write_data # <<>>
    <3>1. /\ txdata' = <<Head(write_data)>> /\ write_data' = Tail(write_data)
          /\ credits' = credits - 1 /\ write_zeros' = write_zeros
        BY <1>7, <2>3 DEF Spi!Send
    <3>2. /\ write_data' \in Seq(Nat) /\ Len(write_data') = Len(write_data) - 1
          /\ \A k \in 1 .. Len(write_data') : write_data'[k] = write_data[k + 1]
          /\ Len(write_data) > 0 /\ Head(write_data) = write_data[1]
      <4>1. Len(write_data) > 0
          BY <1>3, <2>3, EmptySeq
      <4> QED BY <1>3, <2>3, <3>1, <4>1, HeadTailProperties
    <3>3. /\ Supplied' = Supplied + 1 /\ Head(write_data) = Supplied'
          /\ Supplied' <= writes
      <4>1. Head(write_data) = (writes - Len(write_data)) + 1
          BY <1>2, <1>3, <3>2 DEF Books
      <4> QED BY <1>3, <1>4, <2>3, <3>1, <3>2, <4>1 DEF Supplied
    <3>4. Byte(Supplied)' = Head(write_data)
        BY <1>4, <3>3 DEF Byte
    <3>5. Books'
      <4>1. ASSUME NEW k \in 1 .. Len(write_data')
            PROVE  write_data'[k] = (writes - Len(write_data')) + k
        <5>1. k + 1 \in 1 .. Len(write_data)
            BY <1>3, <3>2
        <5>2. write_data[k + 1] = (writes - Len(write_data)) + (k + 1)
            BY <1>2, <5>1 DEF Books
        <5> QED BY <1>3, <3>2, <5>1, <5>2
      <4>2. Len(write_data') <= writes
          BY <1>3, <3>2
      <4>3. \A k : Byte(k) = IF k <= writes' THEN k ELSE 0
          BY <1>4 DEF Byte
      <4> QED BY <1>1, <1>2, <1>3, <1>4, <2>3, <3>1, <3>2, <4>1, <4>2, <4>3 DEF Books, Byte
    <3>6. InTransmit'
        BY <1>1, <1>4, <2>2, <3>1, <3>3, <3>4 DEF InTransmit
    <3> QED BY <1>1, <1>2, <1>4, <1>5, <2>2, <3>5, <3>6 DEF SpiInv, Busy, Over, OneInFlight
  <2>4. CASE write_data = <<>>
    <3>1. Len(write_data) = 0
        BY <2>4, EmptySeq
    <3>2. write_zeros > 0
        BY <1>3, <2>2, <3>1 DEF Supplied
    <3>3. /\ txdata' = <<0>> /\ write_zeros' = write_zeros - 1
          /\ credits' = credits - 1 /\ write_data' = write_data
        BY <1>3, <1>7, <2>4, <3>2 DEF Spi!Send
    <3>4. /\ Supplied' = Supplied + 1 /\ Supplied' > writes
        BY <1>3, <1>4, <3>1, <3>2, <3>3 DEF Supplied
    <3>5. Byte(Supplied)' = 0
        BY <1>3, <1>4, <3>4 DEF Byte
    <3>6. Books'
      <4>1. write_zeros' \in Nat /\ write_zeros' <= reads
          BY <1>3, <3>2, <3>3
      <4> QED BY <1>1, <1>2, <1>4, <2>4, <3>1, <3>3, <4>1 DEF Books, Byte
    <3>7. InTransmit'
        BY <1>1, <1>4, <2>2, <3>3, <3>4, <3>5 DEF InTransmit
    <3> QED BY <1>1, <1>2, <1>4, <1>5, <2>2, <3>6, <3>7 DEF SpiInv, Busy, Over, OneInFlight
  <2> QED BY <2>3, <2>4
<1> QED BY <1>6, <1>7

LEMMA SpiReceive ==
    ASSUME SpiInv, Spi!Receive
    PROVE  SpiInv'
<1>1. /\ step = "receive" /\ seen' = Spi!NoStatus
      /\ UNCHANGED <<txdata, shift, v4, write_data, write_zeros, options, v13, clocked>>
    BY DEF Spi!Receive
<1>2. Books /\ OneInFlight /\ Collected < writes + reads
    BY <1>1 DEF SpiInv, Busy
<1>3. /\ Len(read_data) \in Nat /\ Len(read_data) <= reads /\ read_data \in Seq(Nat)
      /\ writes \in Nat /\ reads \in Nat /\ read_ignore \in Nat /\ read_ignore <= writes
      /\ Supplied \in Nat /\ Collected \in Nat
    BY <1>2, BookNumbers DEF Books
<1>4. Supplied' = Supplied /\ writes' = writes /\ reads' = reads
    BY <1>1 DEF Supplied, writes, reads
<1>5. seen' \in [trdy : BOOLEAN, rrdy : BOOLEAN] /\ ~seen'.rrdy
    BY <1>1 DEF Spi!NoStatus
<1>6. CASE ~seen.rrdy
  <2>1. step' = "status" /\ UNCHANGED <<rxdata, credits, read_ignore, read_data>>
      BY <1>6 DEF Spi!Receive
  <2>2. Books' = Books /\ OneInFlight' = OneInFlight /\ Collected' = Collected
      BY <1>1, <2>1 DEF Books, OneInFlight, NoneInFlight, InTransmit, InShift, InReceive,
                        Supplied, Collected, Byte, writes, reads
  <2>3. SpiTyped'
      BY <1>1, <1>5, <2>1 DEF SpiInv, SpiTyped
  <2> QED BY <1>2, <1>4, <1>5, <2>1, <2>2, <2>3 DEF SpiInv, Busy, Over
<1>7. CASE seen.rrdy
  <2>1. InReceive
    <3>1. rxdata # <<>>
        BY <1>1, <1>7 DEF SpiInv
    <3> QED BY <1>2, <3>1 DEF OneInFlight, NoneInFlight, InTransmit, InShift
  <2>2. /\ rxdata = <<Supplied>> /\ Supplied = Collected + 1 /\ credits = 0
        /\ Len(clocked) = Supplied /\ txdata = <<>> /\ shift = <<>>
      BY <2>1 DEF InReceive
  <2>3. /\ rxdata' = <<>> /\ credits' = credits + 1
        /\ step' = IF read_ignore' = 0 /\ Len(read_data') = v13[2] THEN "finish" ELSE "status"
      BY <1>7 DEF Spi!Receive
  <2>4. Books' /\ Collected' = Collected + 1
    <3>1. CASE read_ignore > 0
      <4>1. read_ignore' = read_ignore - 1 /\ read_data' = read_data
          BY <1>7, <3>1 DEF Spi!Receive
      <4>2. read_ignore' \in Nat /\ read_ignore' <= writes
          BY <1>3, <3>1, <4>1
      <4>3. Len(read_data) = 0
          BY <1>2, <3>1 DEF Books
      <4> QED BY <1>1, <1>2, <1>3, <1>4, <4>1, <4>2, <4>3 DEF Books, Byte, Collected
    <3>2. CASE read_ignore = 0
      <4>1. read_ignore' = read_ignore /\ read_data' = read_data \o <<Supplied>>
          BY <1>7, <2>2, <3>2 DEF Spi!Receive
      <4>2. /\ read_data' \in Seq(Nat) /\ Len(read_data') = Len(read_data) + 1
            /\ \A k \in 1 .. Len(read_data) + 1 :
                  read_data'[k] = IF k <= Len(read_data) THEN read_data[k] ELSE Supplied
          BY <1>3, <4>1, OneMore
      <4>3. Supplied = writes + (Len(read_data) + 1) /\ Len(read_data) < reads
          BY <1>2, <1>3, <2>2, <3>2 DEF Collected
      <4>4. ASSUME NEW k \in 1 .. Len(read_data') PROVE read_data'[k] = writes + k
        <5>1. CASE k <= Len(read_data)
          <6>1. k \in 1 .. Len(read_data) /\ k \in 1 .. Len(read_data) + 1
              BY <1>3, <4>2, <5>1
          <6> QED BY <1>2, <4>2, <5>1, <6>1 DEF Books
        <5>2. CASE k = Len(read_data) + 1
          <6>1. ~(k <= Len(read_data)) /\ k \in 1 .. Len(read_data) + 1
              BY <1>3, <5>2
          <6> QED BY <4>2, <4>3, <5>2, <6>1
        <5> QED BY <1>3, <4>2, <5>1, <5>2
      <4>5. Collected' = Collected + 1
          BY <1>3, <1>4, <4>1, <4>2 DEF Collected
      <4>6. Len(read_data') <= reads
          BY <1>3, <4>2, <4>3
      <4>7. read_ignore' = 0 /\ ~(read_ignore' > 0)
          BY <3>2, <4>1
      <4>8. Books'
        <5>1. UNCHANGED <<writes, reads, write_data, write_zeros, clocked>>
            BY <1>1, <1>4
        <5> QED BY <1>2, <1>3, <4>2, <4>4, <4>6, <4>7, <5>1 DEF Books, Byte
      <4> QED BY <4>5, <4>8
    <3> QED BY <1>3, <3>1, <3>2
  <2>5. NoneInFlight'
      BY <1>1, <1>4, <2>2, <2>3, <2>4 DEF NoneInFlight
  <2>6. /\ step' = "finish" => Collected' = writes' + reads'
        /\ step' # "finish" => step' = "status" /\ Collected' < writes' + reads'
    <3>1. /\ read_ignore' \in Nat /\ read_ignore' <= writes' /\ Len(read_data') \in Nat
          /\ Len(read_data') <= reads' /\ writes' \in Nat /\ reads' \in Nat
      <4>1. Books'
          BY <2>4
      <4>2. Len(read_data') \in Nat
          BY <4>1, LenProperties DEF Books
      <4> QED BY <4>1, <4>2 DEF Books
    <3>2. step' = IF read_ignore' = 0 /\ Len(read_data') = reads' THEN "finish" ELSE "status"
        BY <1>1, <2>3 DEF reads
    <3>3. Collected' = (writes' - read_ignore') + Len(read_data')
        BY DEF Collected
    <3>4. CASE read_ignore' = 0 /\ Len(read_data') = reads'
        BY <3>1, <3>2, <3>3, <3>4
    <3>5. CASE ~(read_ignore' = 0 /\ Len(read_data') = reads')
      <4>1. \A a, b, c, d \in Nat :
                a <= b /\ c <= d /\ ~(a = 0 /\ c = d) => (b - a) + c < b + d
          OBVIOUS
      <4>2. (writes' - read_ignore') + Len(read_data') < writes' + reads'
          BY <3>1, <3>5, <4>1
      <4> QED BY <3>2, <3>3, <3>5, <4>2
    <3> QED BY <3>4, <3>5
  <2>7. SpiTyped'
      BY <1>1, <1>5, <2>6 DEF SpiInv, SpiTyped
  <2> QED BY <1>5, <2>4, <2>5, <2>6, <2>7 DEF SpiInv, Busy, Over, OneInFlight
<1> QED BY <1>6, <1>7

LEMMA SpiEnd ==
    ASSUME SpiInv, Spi!Finish \/ Spi!Release
    PROVE  SpiInv'
<1>1. CASE Spi!Finish
  <2>1. /\ step = "finish" /\ step' = "release" /\ txdata = <<>> /\ shift = <<>>
        /\ UNCHANGED <<txdata, shift, rxdata, v4, seen, credits, write_data, write_zeros,
                       read_ignore, read_data, options, v13, clocked>>
      BY <1>1 DEF Spi!Finish, Spi!TMT, Spi!master, Spi!progress
  <2>2. Books /\ OneInFlight /\ Collected = writes + reads
      BY <2>1 DEF SpiInv, Over
  <2>3. Supplied <= writes + reads /\ Supplied \in Nat /\ Collected \in Nat
        /\ writes + reads \in Nat
      BY <2>2, BookNumbers DEF Books
  <2>4. NoneInFlight
    <3>1. Supplied # Collected + 1
        BY <2>2, <2>3
    <3> QED BY <2>2, <3>1 DEF OneInFlight, InTransmit, InShift, InReceive
  <2>5. Books' = Books /\ NoneInFlight' = NoneInFlight /\ Collected' = Collected
        /\ writes' = writes /\ reads' = reads
      BY <2>1 DEF Books, NoneInFlight, Supplied, Collected, Byte, writes, reads
  <2>6. SpiTyped'
      BY <2>1 DEF SpiInv, SpiTyped
  <2> QED BY <2>1, <2>2, <2>4, <2>5, <2>6 DEF SpiInv, Busy, Over, OneInFlight
<1>2. CASE Spi!Release
  <2>1. /\ step = "release" /\ step' = "idle" /\ credits' = 0 /\ write_zeros' = 0
        /\ read_ignore' = 0 /\ options' = {}
        /\ v4' = (v4 /\ "MERGE" \in options)
        /\ UNCHANGED <<txdata, shift, rxdata, seen>>
      BY <1>2 DEF Spi!Release
  <2>2. NoneInFlight
      BY <2>1 DEF SpiInv
  <2>3. Quiet'
      BY <2>1, <2>2 DEF Quiet, NoneInFlight
  <2>4. SpiTyped'
      BY <2>1 DEF SpiInv, SpiTyped
  <2>5. v6' = v6
      BY <2>1
  <2> QED BY <2>1, <2>3, <2>4 DEF SpiInv, Busy, Over
<1> QED BY <1>1, <1>2

LEMMA SpiInit == Spi!Init => SpiInv
<1> SUFFICES ASSUME Spi!Init PROVE SpiInv
    OBVIOUS
<1>1. /\ txdata = <<>> /\ shift = <<>> /\ rxdata \in {<<>>, <<0>>} /\ v4 = FALSE
      /\ step = "idle" /\ seen = Spi!NoStatus /\ credits = 0
      /\ write_zeros = 0 /\ read_ignore = 0 /\ options = {}
    BY DEF Spi!Init
<1>2. Quiet
    BY <1>1 DEF Quiet
<1>3. SpiTyped
    BY <1>1 DEF SpiTyped, Spi!NoStatus
<1> QED BY <1>1, <1>2, <1>3 DEF SpiInv, Busy, Over

LEMMA SpiNext == SpiInv /\ [Spi!Next]_(Spi!vars) => SpiInv'
<1> SUFFICES ASSUME SpiInv, [Spi!Next]_(Spi!vars) PROVE SpiInv'
    OBVIOUS
<1>1. CASE Spi!Spin \/ UNCHANGED Spi!vars
  <2>1. UNCHANGED Spi!vars
      BY <1>1 DEF Spi!Spin
  <2>2. UNCHANGED <<v1, v2, v3, v4, v5, v6, v7, v8, v9, v10, v11, v12, v13, v14>>
      BY <2>1 DEF Spi!vars, Spi!master, Spi!progress
  <2> QED BY <2>2 DEF SpiInv, SpiTyped, Quiet, Busy, Over, Books, OneInFlight, NoneInFlight,
                      InTransmit, InShift, InReceive, Supplied, Collected, Byte, writes, reads
<1> QED BY <1>1, SpiBegin, SpiDiscard, SpiStatus, SpiSend, SpiReceive, SpiEnd, SpiLoad, SpiShifted
        DEF Spi!Next, Spi!Continue, Spi!Shifts

\* A sequence of naturals is known by its length and its elements.
LEMMA SequenceIs ==
    ASSUME NEW s \in Seq(Nat), NEW l \in Nat, Len(s) = l
    PROVE  s = [k \in 1 .. l |-> s[k]]
BY LenProperties

LEMMA SpiSound == SpiInv => Spi!Transferred
<1> SUFFICES ASSUME SpiInv PROVE Spi!Transferred
    OBVIOUS
<1>1. /\ (step \in {"idle", "discard"} /\ Quiet) \/ (Books /\ OneInFlight)
      /\ SpiTyped
    BY DEF SpiInv, SpiTyped, Busy, Over
<1>2. Spi!TypeOK
  <2>1. /\ txdata = <<>> \/ \E x : txdata = <<x>>
        /\ shift = <<>> \/ \E x : shift = <<x>>
        /\ rxdata = <<>> \/ \E x : rxdata = <<x>>
      BY <1>1 DEF Quiet, OneInFlight, NoneInFlight, InTransmit, InShift, InReceive
  <2>2. \A x : Len(<<x>>) = 1
      OBVIOUS
  <2>3. {Len(txdata), Len(shift), Len(rxdata)} \subseteq 0 .. 1
      BY <2>1, <2>2, EmptySeq
  <2>4. credits \in Int /\ credits <= 1 /\ write_zeros \in Nat /\ read_ignore \in Nat
    <3>1. CASE step \in {"idle", "discard"} /\ Quiet
        BY <1>1, <3>1 DEF SpiInv, SpiTyped, Quiet, Books
    <3>2. CASE Books /\ OneInFlight
        BY <3>2 DEF Books, OneInFlight, NoneInFlight, InTransmit, InShift, InReceive
    <3> QED BY <1>1, <3>1, <3>2
  <2> QED BY <1>1, <2>3, <2>4 DEF Spi!TypeOK, SpiTyped
<1>3. shift # <<>> => v4 \/ "TOGGLE_SS_N" \in options
    BY DEF SpiInv, SpiTyped, Quiet
<1>4. ASSUME step = "release"
      PROVE  /\ clocked = [k \in 1 .. writes + reads |-> IF k <= writes THEN k ELSE 0]
             /\ read_data = [k \in 1 .. reads |-> writes + k]
             /\ txdata = <<>> /\ shift = <<>> /\ rxdata = <<>>
  <2>1. Books /\ NoneInFlight /\ Collected = writes + reads
      BY <1>4 DEF SpiInv, Over
  <2>2. Len(clocked) = writes + reads /\ writes + reads \in Nat /\ clocked \in Seq(Nat)
      BY <2>1 DEF NoneInFlight, Books
  <2>3. Len(read_data) = reads /\ reads \in Nat /\ read_data \in Seq(Nat)
    <3>1. /\ Collected = (writes - read_ignore) + Len(read_data) /\ Len(read_data) \in Nat
          /\ writes \in Nat /\ reads \in Nat /\ read_ignore \in Nat /\ Len(read_data) <= reads
          /\ read_data \in Seq(Nat)
        BY <2>1, BookNumbers DEF Books, Collected
    <3> QED BY <2>1, <3>1
  <2>4. clocked = [k \in 1 .. writes + reads |-> clocked[k]]
      BY <2>2, SequenceIs
  <2>5. read_data = [k \in 1 .. reads |-> read_data[k]]
      BY <2>3, SequenceIs
  <2>6. \A k \in 1 .. writes + reads : clocked[k] = IF k <= writes THEN k ELSE 0
      BY <2>1, <2>2 DEF Books, Byte
  <2>7. \A k \in 1 .. reads : read_data[k] = writes + k
      BY <2>1, <2>3 DEF Books
  <2> QED BY <2>1, <2>4, <2>5, <2>6, <2>7 DEF NoneInFlight
<1> QED BY <1>2, <1>3, <1>4 DEF Spi!Transferred, Spi!TMT, writes, reads

-----------------------------------------------------------------------------
(* ModularAdc: the calls, step by step                                     *)

\* A concatenation is known by its elements.
LEMMA Literal ==
    ASSUME NEW S, NEW s \in Seq(S), NEW r \in Seq(S), NEW w \in Seq(S),
           Len(w) = Len(s) + Len(r),
           \A i \in 1 .. Len(w) : w[i] = IF i <= Len(s) THEN s[i] ELSE r[i - Len(s)]
    PROVE  s \o r = w
<1>1. /\ s \o r \in Seq(S) /\ Len(s \o r) = Len(w)
      /\ \A i \in 1 .. Len(w) : (s \o r)[i] = w[i]
    BY ConcatProperties
<1>2. s \o r \in [1 .. Len(w) -> S] /\ w \in [1 .. Len(w) -> S]
    BY <1>1, LenProperties
<1>3. s \o r = [i \in 1 .. Len(w) |-> (s \o r)[i]] /\ w = [i \in 1 .. Len(w) |-> w[i]]
    BY <1>2
<1> QED BY <1>1, <1>3

LEMMA RegisterList ==
    ASSUME NEW c
    PROVE  Adc!RegisterSteps(c) = IF c # Null
               THEN <<"callback", "context", "base", "clear", "enable">>
               ELSE <<"callback", "context", "base", "disable", "clear">>
<1> DEFINE s == <<"callback", "context", "base">>
           S == {"callback", "context", "base", "clear", "enable", "disable"}
<1>1. ASSUME NEW a \in S, NEW b \in S
      PROVE  s \o <<a, b>> = <<"callback", "context", "base", a, b>>
  <2> DEFINE r == <<a, b>>
             w == <<"callback", "context", "base", a, b>>
  <2>1. s \in Seq(S) /\ r \in Seq(S) /\ w \in Seq(S) /\ Len(s) = 3 /\ Len(r) = 2 /\ Len(w) = 5
      OBVIOUS
  <2>2. \A i \in 1 .. 5 : w[i] = IF i <= 3 THEN s[i] ELSE r[i - 3]
      OBVIOUS
  <2> HIDE DEF s, S, r, w
  <2>3. /\ Len(w) = Len(s) + Len(r)
        /\ \A i \in 1 .. Len(w) : w[i] = IF i <= Len(s) THEN s[i] ELSE r[i - Len(s)]
      BY <2>1, <2>2
  <2>4. s \o r = w
      BY <2>1, <2>3, Literal
  <2> QED BY <2>4 DEF s, r, w
<1>2. /\ s \o <<"clear", "enable">> = <<"callback", "context", "base", "clear", "enable">>
      /\ s \o <<"disable", "clear">> = <<"callback", "context", "base", "disable", "clear">>
    BY <1>1
<1> QED BY <1>2 DEF Adc!RegisterSteps

LEMMA RecalibrateList ==
    Adc!RecalibrateSteps
        = <<"backup", "stop", "poll", "RECALIBRATE", "start", "poll", "restore">>
<1> DEFINE a == <<"backup">>
           b == <<"stop", "poll">>
           c == <<"RECALIBRATE", "start", "poll", "restore">>
           ab == <<"backup", "stop", "poll">>
           abc == <<"backup", "stop", "poll", "RECALIBRATE", "start", "poll", "restore">>
           S == {"backup", "stop", "poll", "RECALIBRATE", "start", "restore"}
<1>1. /\ a \in Seq(S) /\ b \in Seq(S) /\ c \in Seq(S) /\ ab \in Seq(S) /\ abc \in Seq(S)
      /\ Len(a) = 1 /\ Len(b) = 2 /\ Len(c) = 4 /\ Len(ab) = 3 /\ Len(abc) = 7
    OBVIOUS
<1>2. \A i \in 1 .. 3 : ab[i] = IF i <= 1 THEN a[i] ELSE b[i - 1]
    OBVIOUS
<1>3. \A i \in 1 .. 7 : abc[i] = IF i <= 3 THEN ab[i] ELSE c[i - 3]
    OBVIOUS
<1> HIDE DEF a, b, c, ab, abc, S
<1>4. /\ Len(ab) = Len(a) + Len(b)
      /\ \A i \in 1 .. Len(ab) : ab[i] = IF i <= Len(a) THEN a[i] ELSE b[i - Len(a)]
    BY <1>1, <1>2
<1>5. /\ Len(abc) = Len(ab) + Len(c)
      /\ \A i \in 1 .. Len(abc) : abc[i] = IF i <= Len(ab) THEN ab[i] ELSE c[i - Len(ab)]
    BY <1>1, <1>3
<1>6. a \o b = ab
    BY <1>1, <1>4, Literal
<1>7. ab \o c = abc
    BY <1>1, <1>5, Literal
<1>8. Adc!RecalibrateSteps = a \o b \o c
    BY DEF Adc!RecalibrateSteps, Adc!StopSteps, a, b, c
<1>9. Adc!RecalibrateSteps = abc
    BY <1>6, <1>7, <1>8
<1> QED BY <1>9 DEF abc

\* Between calls: the callback has its context, and with one the base is known.
Settled == callback = callback_context /\ (callback # Null => base_known)

\* A callback is put in, over none or over another.
PutIn == callback = arg /\ callback_context = arg

Adding ==
    /\ arg # Null
    /\ \/ todo = <<"callback", "context", "base", "clear", "enable">> /\ Settled
       \/ todo = <<"context", "base", "clear", "enable">> /\ callback = arg
       \/ todo = <<"base", "clear", "enable">> /\ PutIn
       \/ todo = <<"clear", "enable">> /\ PutIn /\ base_known
       \/ todo = <<"enable">> /\ PutIn /\ base_known

\* One is taken out: from its first store on there is none to call.
TakenOut == callback = Null /\ callback_context = Null

Removing ==
    /\ arg = Null
    /\ \/ todo = <<"callback", "context", "base", "disable", "clear">> /\ Settled
       \/ todo = <<"context", "base", "disable", "clear">> /\ callback = Null
       \/ todo = <<"base", "disable", "clear">> /\ TakenOut
       \/ todo = <<"disable", "clear">> /\ TakenOut
       \/ todo = <<"clear">> /\ TakenOut

Switching ==
    /\ arg = Null /\ Settled
    /\ todo \in {<<"enable">>, <<"disable">>, <<"clear">>}

Driving ==
    /\ arg = Null /\ Settled
    /\ todo \in {<<"start">>, <<"stop", "poll">>, <<"poll">>, <<"wait">>, <<"ONCE">>,
                 <<"CONTINUOUS">>}

\* The sequencer is stopped, recalibrates, and has ended the recalibration.
Recalibrating ==
    /\ arg = Null /\ Settled
    /\ \/ todo = <<"backup", "stop", "poll", "RECALIBRATE", "start", "poll", "restore">>
       \/ todo = <<"stop", "poll", "RECALIBRATE", "start", "poll", "restore">>
       \/ /\ todo = <<"poll", "RECALIBRATE", "start", "poll", "restore">>
          /\ RUN => stopping
       \/ todo = <<"RECALIBRATE", "start", "poll", "restore">> /\ ~RUN
       \/ todo = <<"start", "poll", "restore">> /\ ~RUN /\ MODE = "RECALIBRATE"
       \/ /\ todo = <<"poll", "restore">> /\ MODE = "RECALIBRATE"
          /\ RUN \/ recalibrated
       \/ todo = <<"restore">> /\ ~RUN /\ recalibrated

Resting == todo = <<>> /\ arg = Null /\ Settled

\* What an interrupt needs, and when it may come: in a call that began with interrupts
\* on, since a call that turns them on does it in its last step.
Consistent == callback \in {Null, callback_context} /\ (callback # Null => base_known)
OnFromStart == irqEnable /\ todo # <<>> => live

AdcInv ==
    /\ Adc!TypeOK /\ Adc!CallbackWhole /\ OnFromStart
    /\ Resting \/ Adding \/ Removing \/ Switching \/ Driving \/ Recalibrating

LEMMA AdcInit == Adc!Init => AdcInv
<1> SUFFICES ASSUME Adc!Init PROVE AdcInv
    OBVIOUS
<1> USE DEF Adc!Init
<1>1. Adc!TypeOK
    BY DEF Adc!TypeOK, Adc!NoBackup, Adc!Modes
<1>2. Resting
    BY DEF Resting, Settled
<1> QED BY <1>1, <1>2 DEF AdcInv, Adc!CallbackWhole, OnFromStart

\* The values of the registers, the device and the call.
Flags == /\ RUN \in BOOLEAN /\ stopping \in BOOLEAN /\ irqStatus \in BOOLEAN
         /\ irqEnable \in BOOLEAN /\ base_known \in BOOLEAN /\ recalibrated \in BOOLEAN
         /\ live \in BOOLEAN
         /\ stopping => RUN
Device == /\ callback \in Callbacks \cup {Null} /\ callback_context \in Callbacks \cup {Null}
          /\ arg \in Callbacks \cup {Null}
Rest == /\ MODE \in Adc!Modes /\ backup_cmd_reg \in [run : BOOLEAN, mode : Adc!Modes]
        /\ isr \in {"none", "callback", "clear"}

LEMMA AdcTypeParts == Adc!TypeOK <=> Flags /\ Device /\ Rest
<1>1. Adc!TypeOK => Flags /\ Device /\ Rest
  <2>1. ASSUME Adc!TypeOK PROVE Flags
      BY <2>1 DEF Adc!TypeOK, Flags
  <2>2. ASSUME Adc!TypeOK PROVE Device /\ Rest
      BY <2>2 DEF Adc!TypeOK, Device, Rest
  <2> QED BY <2>1, <2>2
<1>2. Flags /\ Device /\ Rest => Adc!TypeOK
  <2> SUFFICES ASSUME Flags, Device, Rest PROVE Adc!TypeOK
      OBVIOUS
  <2>1. {RUN, stopping, irqStatus, irqEnable, base_known, recalibrated,
        live} \subseteq BOOLEAN
      BY DEF Flags
  <2>2. {callback, callback_context, arg} \subseteq Callbacks \cup {Null}
      BY DEF Device
  <2> QED BY <2>1, <2>2 DEF Adc!TypeOK, Flags, Rest
<1> QED BY <1>1, <1>2

LEMMA AdcTypes == AdcInv /\ Adc!Next => Adc!TypeOK'
<1> SUFFICES ASSUME Flags, Device, Rest, Adc!Next PROVE Flags' /\ Device' /\ Rest'
    BY AdcTypeParts DEF AdcInv, Adc!TypeOK, Flags, Device, Rest
<1> USE DEF Adc!sequencer, Adc!store, Adc!dev, Adc!program, Adc!history
<1>1. CASE Adc!Begin
  <2>1. \E steps, c : c \in Callbacks \cup {Null} /\ Adc!Call(steps, c)
      BY <1>1 DEF Adc!Begin, Adc!Register, Adc!SetMode, Adc!Switch
  <2>2. /\ arg' \in Callbacks \cup {Null} /\ recalibrated' = FALSE /\ live' = irqEnable
        /\ UNCHANGED <<RUN, MODE, stopping, irqStatus, irqEnable, callback, callback_context,
                       base_known, backup_cmd_reg, isr>>
      BY <2>1 DEF Adc!Call
  <2> QED BY <2>2 DEF Flags, Device, Rest
<1>2. CASE Adc!Command
  <2>1. \E run \in BOOLEAN, mode \in Adc!Modes : Adc!WriteCmd(run, mode)
      BY <1>2 DEF Adc!Command, Flags, Rest
  <2>2. RUN' \in BOOLEAN /\ MODE' \in Adc!Modes /\ stopping' \in BOOLEAN /\ (stopping' => RUN')
      BY <2>1 DEF Adc!WriteCmd, Flags, Rest
  <2>3. backup_cmd_reg' \in [run : BOOLEAN, mode : Adc!Modes]
      BY <1>2 DEF Adc!Command, Adc!NoBackup, Adc!Modes, Rest
  <2>4. arg' \in Callbacks \cup {Null}
      BY <1>2 DEF Adc!Command, Adc!Advances, Device
  <2>5. UNCHANGED <<irqStatus, irqEnable, callback, callback_context, base_known, isr,
                    recalibrated, live>>
      BY <1>2 DEF Adc!Command
  <2> QED BY <2>2, <2>3, <2>4, <2>5 DEF Flags, Device, Rest
<1>3. CASE Adc!Backup \/ Adc!Poll \/ Adc!SetDev \/ Adc!SetStore
  <2>1. arg' \in Callbacks \cup {Null}
      BY <1>3 DEF Adc!Backup, Adc!Poll, Adc!SetDev, Adc!SetStore, Adc!Advances, Device
  <2>2. UNCHANGED <<RUN, MODE, stopping, recalibrated, live, isr>>
      BY <1>3 DEF Adc!Backup, Adc!Poll, Adc!SetDev, Adc!SetStore
  <2>3. /\ irqStatus' \in {irqStatus, FALSE} /\ irqEnable' \in {irqEnable, TRUE, FALSE}
        /\ base_known' \in {base_known, TRUE}
      BY <1>3 DEF Adc!Backup, Adc!Poll, Adc!SetDev, Adc!SetStore
  <2>4. callback' \in {callback, arg} /\ callback_context' \in {callback_context, arg}
      BY <1>3 DEF Adc!Backup, Adc!Poll, Adc!SetDev, Adc!SetStore
  <2>5. backup_cmd_reg' = backup_cmd_reg \/ backup_cmd_reg' = [run |-> RUN, mode |-> MODE]
      BY <1>3 DEF Adc!Backup, Adc!Poll, Adc!SetDev, Adc!SetStore
  <2>6. Flags'
      BY <2>2, <2>3 DEF Flags
  <2>7. Device'
      BY <2>1, <2>4 DEF Device
  <2>8. Rest'
      BY <2>2, <2>5 DEF Rest, Flags
  <2> QED BY <2>6, <2>7, <2>8
<1>4. CASE Adc!Spin
    BY <1>4 DEF Adc!Spin, Adc!vars, Flags, Device, Rest
<1>5. CASE Adc!SequenceEnds
  <2>1. /\ UNCHANGED <<MODE, irqEnable, callback, callback_context, base_known, arg,
                       backup_cmd_reg, isr, live>>
        /\ RUN' \in BOOLEAN /\ stopping' = FALSE /\ irqStatus' \in BOOLEAN
        /\ recalibrated' \in BOOLEAN
      BY <1>5 DEF Adc!SequenceEnds, Flags
  <2> QED BY <2>1 DEF Flags, Device, Rest
<1>6. CASE Adc!Interrupt
  <2>1. /\ UNCHANGED <<RUN, stopping, MODE, irqEnable, callback, callback_context, base_known,
                       arg, backup_cmd_reg, recalibrated, live>>
        /\ irqStatus' \in BOOLEAN /\ isr' \in {"none", "callback", "clear"}
      BY <1>6 DEF Adc!Interrupt, Adc!TakeInterrupt, Adc!CallBack, Adc!ClearStatus, Flags
  <2> QED BY <2>1 DEF Flags, Device, Rest
<1> QED BY <1>1, <1>2, <1>3, <1>4, <1>5, <1>6 DEF Adc!Next, Adc!Continue

\* One step of a call: the store or the access at its head, and on to the rest.
LEMMA AdcStep ==
    ASSUME Adc!Continue
    PROVE  /\ todo # <<>> /\ isr = "none" /\ isr' = "none" /\ recalibrated' = recalibrated
           /\ live' = live
           /\ todo' = Tail(todo) /\ arg' = (IF Tail(todo) = <<>> THEN Null ELSE arg)
           /\ callback' = IF Head(todo) = "callback" THEN arg ELSE callback
           /\ callback_context' = IF Head(todo) = "context" THEN arg ELSE callback_context
           /\ base_known' = IF Head(todo) = "base" THEN TRUE ELSE base_known
           /\ irqEnable' = IF Head(todo) = "enable" THEN TRUE
                           ELSE IF Head(todo) = "disable" THEN FALSE ELSE irqEnable
           /\ Head(todo) \notin {"start", "stop", "restore"} \cup Adc!Modes
                  => UNCHANGED <<RUN, MODE, stopping>>
           /\ Head(todo) = "start" => Adc!WriteCmd(TRUE, MODE)
           /\ Head(todo) = "stop" => Adc!WriteCmd(FALSE, MODE)
           /\ Head(todo) = "restore" => Adc!WriteCmd(backup_cmd_reg.run, backup_cmd_reg.mode)
           /\ Head(todo) \in Adc!Modes => Adc!WriteCmd(RUN, Head(todo))
           /\ Head(todo) = "poll" => ~RUN
<1> USE DEF Adc!Does, Adc!Advances, Adc!sequencer, Adc!store, Adc!dev, Adc!program, Adc!history,
            Adc!Modes
<1>1. CASE Adc!Command
    BY <1>1 DEF Adc!Command
<1>2. CASE Adc!Backup
    BY <1>2 DEF Adc!Backup
<1>3. CASE Adc!Poll
    BY <1>3 DEF Adc!Poll
<1>4. CASE Adc!SetDev
    BY <1>4 DEF Adc!SetDev
<1>5. CASE Adc!SetStore
    BY <1>5 DEF Adc!SetStore
<1> QED BY <1>1, <1>2, <1>3, <1>4, <1>5 DEF Adc!Continue

Phase == Resting \/ Adding \/ Removing \/ Switching \/ Driving \/ Recalibrating

LEMMA AddingStep ==
    ASSUME AdcInv, Adding, Adc!Continue
    PROVE  Resting' \/ Adding'
<1> USE AdcStep DEF Adding, PutIn, Resting, Settled
<1>1. CASE todo = <<"callback", "context", "base", "clear", "enable">>
  <2>1. Head(todo) = "callback" /\ Tail(todo) = <<"context", "base", "clear", "enable">>
      BY <1>1
  <2> QED BY <1>1, <2>1
<1>2. CASE todo = <<"context", "base", "clear", "enable">>
  <2>1. Head(todo) = "context" /\ Tail(todo) = <<"base", "clear", "enable">>
      BY <1>2
  <2> QED BY <1>2, <2>1
<1>3. CASE todo = <<"base", "clear", "enable">>
  <2>1. Head(todo) = "base" /\ Tail(todo) = <<"clear", "enable">>
      BY <1>3
  <2> QED BY <1>3, <2>1
<1>4. CASE todo = <<"clear", "enable">>
  <2>1. Head(todo) = "clear" /\ Tail(todo) = <<"enable">>
      BY <1>4
  <2> QED BY <1>4, <2>1
<1>5. CASE todo = <<"enable">>
  <2>1. Head(todo) = "enable" /\ Tail(todo) = <<>>
      BY <1>5
  <2> QED BY <1>5, <2>1
<1> QED BY <1>1, <1>2, <1>3, <1>4, <1>5

LEMMA RemovingStep ==
    ASSUME AdcInv, Removing, Adc!Continue
    PROVE  Resting' \/ Removing'
<1> USE AdcStep DEF Removing, TakenOut, Resting, Settled
<1>1. CASE todo = <<"callback", "context", "base", "disable", "clear">>
  <2>1. Head(todo) = "callback" /\ Tail(todo) = <<"context", "base", "disable", "clear">>
      BY <1>1
  <2> QED BY <1>1, <2>1
<1>2. CASE todo = <<"context", "base", "disable", "clear">>
  <2>1. Head(todo) = "context" /\ Tail(todo) = <<"base", "disable", "clear">>
      BY <1>2
  <2> QED BY <1>2, <2>1
<1>3. CASE todo = <<"base", "disable", "clear">>
  <2>1. Head(todo) = "base" /\ Tail(todo) = <<"disable", "clear">>
      BY <1>3
  <2> QED BY <1>3, <2>1
<1>4. CASE todo = <<"disable", "clear">>
  <2>1. Head(todo) = "disable" /\ Tail(todo) = <<"clear">>
      BY <1>4
  <2> QED BY <1>4, <2>1
<1>5. CASE todo = <<"clear">>
  <2>1. Head(todo) = "clear" /\ Tail(todo) = <<>>
      BY <1>5
  <2> QED BY <1>5, <2>1
<1> QED BY <1>1, <1>2, <1>3, <1>4, <1>5

LEMMA SwitchingStep ==
    ASSUME AdcInv, Switching, Adc!Continue
    PROVE  Resting'
<1>1. ASSUME NEW one \in {"enable", "disable", "clear"}, todo = <<one>>
      PROVE  Resting'
  <2>1. Head(todo) = one /\ Tail(todo) = <<>>
      BY <1>1
  <2>2. Settled
      BY DEF Switching
  <2>3. /\ todo' = <<>> /\ arg' = Null
        /\ UNCHANGED <<callback, callback_context, base_known>>
      BY <2>1, AdcStep
  <2> QED BY <2>2, <2>3 DEF Resting, Settled
<1> QED BY <1>1 DEF Switching

LEMMA DrivingStep ==
    ASSUME AdcInv, Driving, Adc!Continue
    PROVE  Resting' \/ Driving'
<1>1. ASSUME NEW one \in {"start", "stop", "poll", "wait", "ONCE", "CONTINUOUS"},
             NEW after \in {<<>>, <<"poll">>}, Head(todo) = one, Tail(todo) = after
      PROVE  Resting' \/ Driving'
  <2>1. Settled /\ arg = Null
      BY DEF Driving
  <2>2. /\ todo' = after /\ arg' = Null
        /\ UNCHANGED <<callback, callback_context, base_known, irqEnable>>
      BY <1>1, <2>1, AdcStep
  <2>3. Settled'
      BY <2>1, <2>2 DEF Settled
  <2> QED BY <2>2, <2>3 DEF Resting, Driving
<1>2. ASSUME NEW one \in {"start", "poll", "wait", "ONCE", "CONTINUOUS"}, todo = <<one>>
      PROVE  Head(todo) = one /\ Tail(todo) = <<>>
    BY <1>2
<1>3. todo = <<"stop", "poll">> => Head(todo) = "stop" /\ Tail(todo) = <<"poll">>
    OBVIOUS
<1> QED BY <1>1, <1>2, <1>3 DEF Driving

LEMMA RecalibratingStep ==
    ASSUME AdcInv, Recalibrating, Adc!Continue
    PROVE  Resting' \/ Recalibrating'
<1>1. arg = Null /\ Settled
    BY DEF Recalibrating
<1>2. CASE todo = <<"backup", "stop", "poll", "RECALIBRATE", "start", "poll", "restore">>
  <2>1. Head(todo) = "backup"
        /\ Tail(todo) = <<"stop", "poll", "RECALIBRATE", "start", "poll", "restore">>
      BY <1>2
  <2> QED BY <1>1, <2>1, AdcStep DEF Recalibrating, Settled
<1>3. CASE todo = <<"stop", "poll", "RECALIBRATE", "start", "poll", "restore">>
  <2>1. Head(todo) = "stop" /\ Tail(todo) = <<"poll", "RECALIBRATE", "start", "poll", "restore">>
      BY <1>3
  <2>2. RUN' => stopping'
      BY <2>1, AdcStep DEF Adc!WriteCmd
  <2> QED BY <1>1, <2>1, <2>2, AdcStep DEF Recalibrating, Settled
<1>4. CASE todo = <<"poll", "RECALIBRATE", "start", "poll", "restore">>
  <2>1. Head(todo) = "poll" /\ Tail(todo) = <<"RECALIBRATE", "start", "poll", "restore">>
      BY <1>4
  <2>2. ~RUN'
      BY <2>1, AdcStep DEF Adc!Modes
  <2> QED BY <1>1, <2>1, <2>2, AdcStep DEF Recalibrating, Settled
<1>5. CASE todo = <<"RECALIBRATE", "start", "poll", "restore">>
  <2>1. Head(todo) = "RECALIBRATE" /\ Tail(todo) = <<"start", "poll", "restore">> /\ ~RUN
      BY <1>5 DEF Recalibrating
  <2>2. ~RUN' /\ MODE' = "RECALIBRATE"
      BY <2>1, AdcStep DEF Adc!WriteCmd, Adc!Modes
  <2> QED BY <1>1, <2>1, <2>2, AdcStep DEF Recalibrating, Settled
<1>6. CASE todo = <<"start", "poll", "restore">>
  <2>1. Head(todo) = "start" /\ Tail(todo) = <<"poll", "restore">> /\ ~RUN
        /\ MODE = "RECALIBRATE"
      BY <1>6 DEF Recalibrating
  <2>2. RUN' /\ MODE' = "RECALIBRATE"
      BY <2>1, AdcStep DEF Adc!WriteCmd
  <2> QED BY <1>1, <2>1, <2>2, AdcStep DEF Recalibrating, Settled
<1>7. CASE todo = <<"poll", "restore">>
  <2>1. Head(todo) = "poll" /\ Tail(todo) = <<"restore">> /\ (RUN \/ recalibrated)
      BY <1>7 DEF Recalibrating
  <2>2. ~RUN' /\ recalibrated'
      BY <2>1, AdcStep DEF Adc!Modes
  <2> QED BY <1>1, <2>1, <2>2, AdcStep DEF Recalibrating, Settled
<1>8. CASE todo = <<"restore">>
  <2>1. Head(todo) = "restore" /\ Tail(todo) = <<>>
      BY <1>8
  <2> QED BY <1>1, <2>1, AdcStep DEF Resting, Settled
<1> QED BY <1>2, <1>3, <1>4, <1>5, <1>6, <1>7, <1>8 DEF Recalibrating

\* Turning interrupts on is the last step of a call.
LEMMA EnableIsLast ==
    ASSUME Phase, todo # <<>>, Head(todo) = "enable"
    PROVE  Tail(todo) = <<>>
<1>1. ~Resting
    BY DEF Resting
<1>2. Adding => todo = <<"enable">>
    BY DEF Adding
<1>3. ~Removing
    BY DEF Removing
<1>4. Switching => Tail(todo) = <<>>
  <2>1. ASSUME NEW one \in {"enable", "disable", "clear"}, todo = <<one>>
        PROVE  Tail(todo) = <<>>
      BY <2>1
  <2> QED BY <2>1 DEF Switching
<1>5. ~Driving
  <2>1. ASSUME NEW one \in {"start", "poll", "wait", "ONCE", "CONTINUOUS"}, todo = <<one>>
        PROVE  FALSE
    <3>1. Head(todo) = one
        BY <2>1
    <3> QED BY <3>1
  <2>2. todo = <<"stop", "poll">> => Head(todo) = "stop"
      OBVIOUS
  <2> QED BY <2>1, <2>2 DEF Driving
<1>6. ~Recalibrating
    BY DEF Recalibrating
<1>7. todo = <<"enable">> => Tail(todo) = <<>>
    OBVIOUS
<1> QED BY <1>1, <1>2, <1>3, <1>4, <1>5, <1>6, <1>7 DEF Phase

LEMMA AdcContinues ==
    ASSUME AdcInv, Adc!Continue
    PROVE  Phase' /\ Adc!CallbackWhole' /\ OnFromStart'
<1>1. /\ todo # <<>> /\ isr' = "none" /\ live' = live /\ todo' = Tail(todo)
      /\ irqEnable' => irqEnable \/ Head(todo) = "enable"
    BY AdcStep DEF AdcInv, Adc!TypeOK
<1>2. Resting' \/ Adding' \/ Removing' \/ Switching' \/ Driving' \/ Recalibrating'
  <2>1. ~Resting
      BY <1>1 DEF Resting
  <2> QED BY <2>1, AddingStep, RemovingStep, SwitchingStep, DrivingStep, RecalibratingStep
          DEF AdcInv
<1>3. Adc!CallbackWhole'
    BY <1>1 DEF Adc!CallbackWhole
<1>4. OnFromStart'
  <2>1. Head(todo) = "enable" => todo' = <<>>
      BY <1>1, EnableIsLast DEF AdcInv, Phase
  <2> QED BY <1>1, <2>1 DEF AdcInv, OnFromStart
<1>5. Phase'
    BY <1>2 DEF Phase
<1> QED BY <1>3, <1>4, <1>5

\* An interrupt that may come outside the stores of a registration that is not yet whole
\* finds what it needs.
LEMMA InterruptFinds ==
    ASSUME Phase, OnFromStart, irqEnable, ~Adc!HalfStored
    PROVE  Consistent
<1>1. Settled => Consistent
    BY DEF Settled, Consistent
<1>2. CASE Resting \/ Switching \/ Driving \/ Recalibrating
    BY <1>1, <1>2 DEF Resting, Switching, Driving, Recalibrating
<1>3. CASE Adding
  <2>1. todo # <<>> /\ Head(todo) \notin {"context", "base"}
    <3>1. todo # <<>>
        BY <1>3 DEF Adding
    <3> QED BY <3>1 DEF OnFromStart, Adc!HalfStored
  <2>2. \/ todo = <<"callback", "context", "base", "clear", "enable">> /\ Settled
        \/ PutIn /\ base_known
      BY <1>3, <2>1 DEF Adding
  <2> QED BY <1>1, <2>2 DEF PutIn, Consistent
<1>4. CASE Removing
    BY <1>1, <1>4 DEF Removing, TakenOut, Consistent
<1> QED BY <1>2, <1>3, <1>4 DEF Phase

\* What a phase is about.
phaseVars == <<todo, arg, callback, callback_context, base_known, irqEnable,
               RUN, MODE, stopping, recalibrated>>

LEMMA PhaseStays == Phase /\ UNCHANGED phaseVars => Phase'
<1> SUFFICES ASSUME Phase, UNCHANGED phaseVars PROVE Phase'
    OBVIOUS
<1> USE DEF phaseVars, Settled
<1>1. CASE Resting
    BY <1>1 DEF Resting, Phase
<1>2. CASE Adding
    BY <1>2 DEF Adding, PutIn, Phase
<1>3. CASE Removing
    BY <1>3 DEF Removing, TakenOut, Phase
<1>4. CASE Switching
    BY <1>4 DEF Switching, Phase
<1>5. CASE Driving
    BY <1>5 DEF Driving, Phase
<1>6. CASE Recalibrating
    BY <1>6 DEF Recalibrating, Phase
<1> QED BY <1>1, <1>2, <1>3, <1>4, <1>5, <1>6 DEF Phase

LEMMA OnlyRestingIsEmpty == Phase /\ todo = <<>> => Resting
<1> SUFFICES ASSUME todo = <<>>
             PROVE  ~Adding /\ ~Removing /\ ~Switching /\ ~Driving /\ ~Recalibrating
    BY DEF Phase
<1>1. ~Adding
    BY DEF Adding
<1>2. ~Removing
    BY DEF Removing
<1>3. ~Switching /\ ~Driving
    BY DEF Switching, Driving
<1>4. ~Recalibrating
    BY DEF Recalibrating
<1> QED BY <1>1, <1>2, <1>3, <1>4

LEMMA AdcBegins ==
    AdcInv /\ Adc!Begin
      => Phase' /\ live' = irqEnable /\ isr = "none"
         /\ UNCHANGED <<Adc!sequencer, Adc!store, Adc!dev, isr>>
<1> SUFFICES ASSUME AdcInv, Adc!Begin
             PROVE  /\ Phase' /\ live' = irqEnable /\ isr = "none"
                    /\ UNCHANGED <<Adc!sequencer, Adc!store, Adc!dev, isr>>
    OBVIOUS
<1>6. \E steps, c : Adc!Call(steps, c)
    BY DEF Adc!Begin, Adc!Register, Adc!SetMode, Adc!Switch
<1>7. live' = irqEnable /\ isr = "none"
    BY <1>6 DEF Adc!Call
<1>1. ASSUME NEW steps, NEW c, Adc!Call(steps, c)
      PROVE  /\ Resting /\ todo' = steps /\ arg' = c
             /\ UNCHANGED <<Adc!sequencer, Adc!store, Adc!dev, isr>>
    BY <1>1, OnlyRestingIsEmpty DEF Adc!Call, AdcInv, Phase
<1> USE DEF Adc!sequencer, Adc!store, Adc!dev
<1>2. ASSUME NEW c \in Callbacks \cup {Null}, Adc!Register(c)
      PROVE  Phase' /\ UNCHANGED <<Adc!sequencer, Adc!store, Adc!dev, isr>>
  <2>2. /\ Resting /\ todo' = Adc!RegisterSteps(c) /\ arg' = c
        /\ UNCHANGED <<Adc!sequencer, Adc!store, Adc!dev, isr>>
      BY <1>1, <1>2 DEF Adc!Register
  <2>3. CASE c = Null
    <3>1. todo' = <<"callback", "context", "base", "disable", "clear">>
        BY <2>2, <2>3, RegisterList
    <3>2. Removing'
        BY <2>2, <2>3, <3>1 DEF Removing, Resting, Settled
    <3> QED BY <2>2, <3>2 DEF Phase
  <2>4. CASE c # Null
    <3>1. todo' = <<"callback", "context", "base", "clear", "enable">>
        BY <2>2, <2>4, RegisterList
    <3>2. Adding'
        BY <2>2, <2>4, <3>1 DEF Adding, Resting, Settled
    <3> QED BY <2>2, <3>2 DEF Phase
  <2> QED BY <2>3, <2>4
<1>3. ASSUME NEW mode \in {"ONCE", "CONTINUOUS"}, Adc!SetMode(mode)
      PROVE  Phase' /\ UNCHANGED <<Adc!sequencer, Adc!store, Adc!dev, isr>>
  <2>1. /\ Resting /\ todo' = <<mode>> /\ arg' = Null
        /\ UNCHANGED <<Adc!sequencer, Adc!store, Adc!dev, isr>>
      BY <1>1, <1>3 DEF Adc!SetMode
  <2>2. Driving'
      BY <2>1 DEF Driving, Resting, Settled
  <2> QED BY <2>1, <2>2 DEF Phase
<1>4. ASSUME NEW one \in {"enable", "disable", "clear"}, Adc!Switch(one)
      PROVE  Phase' /\ UNCHANGED <<Adc!sequencer, Adc!store, Adc!dev, isr>>
  <2>1. /\ Resting /\ todo' = <<one>> /\ arg' = Null
        /\ UNCHANGED <<Adc!sequencer, Adc!store, Adc!dev, isr>>
      BY <1>1, <1>4 DEF Adc!Switch
  <2>2. Switching'
      BY <2>1 DEF Switching, Resting, Settled
  <2> QED BY <2>1, <2>2 DEF Phase
<1>5. ASSUME NEW steps \in {<<"start">>, Adc!StopSteps, Adc!RecalibrateSteps, <<"wait">>},
             Adc!Call(steps, Null)
      PROVE  Phase' /\ UNCHANGED <<Adc!sequencer, Adc!store, Adc!dev, isr>>
  <2>1. /\ Resting /\ todo' = steps /\ arg' = Null
        /\ UNCHANGED <<Adc!sequencer, Adc!store, Adc!dev, isr>>
      BY <1>1, <1>5
  <2>2. Settled'
      BY <2>1 DEF Resting, Settled
  <2>3. CASE steps = Adc!RecalibrateSteps
    <3>1. Recalibrating'
        BY <2>1, <2>2, <2>3, RecalibrateList DEF Recalibrating
    <3> QED BY <2>1, <3>1 DEF Phase
  <2>4. CASE steps # Adc!RecalibrateSteps
    <3>1. Driving'
        BY <2>1, <2>2, <2>4, <1>5 DEF Driving, Adc!StopSteps
    <3> QED BY <2>1, <3>1 DEF Phase
  <2> QED BY <2>3, <2>4
<1> QED BY <1>7, <1>2, <1>3, <1>4, <1>5 DEF Adc!Begin

LEMMA SequenceEndsPhase == AdcInv /\ Adc!SequenceEnds => Phase'
<1> SUFFICES ASSUME AdcInv, Adc!SequenceEnds PROVE Phase'
    OBVIOUS
<1>1. /\ RUN /\ (stopping => ~RUN')
      /\ UNCHANGED <<todo, arg, callback, callback_context, base_known, irqEnable, MODE>>
      /\ MODE = "RECALIBRATE" => recalibrated'
    BY DEF Adc!SequenceEnds, Adc!dev, Adc!program
<1>2. CASE Recalibrating
  <2>1. Recalibrating'
    <3>1. arg' = Null /\ Settled'
        BY <1>1, <1>2 DEF Recalibrating, Settled
    <3> HIDE DEF Settled
    <3> QED BY <1>1, <1>2, <3>1 DEF Recalibrating
  <2> QED BY <2>1 DEF Phase
<1>3. CASE Resting \/ Switching \/ Driving
    BY <1>1, <1>3 DEF Resting, Switching, Driving, Settled, Phase
<1>4. CASE Adding
    BY <1>1, <1>4 DEF Adding, PutIn, Settled, Phase
<1>5. CASE Removing
    BY <1>1, <1>5 DEF Removing, TakenOut, Settled, Phase
<1> QED BY <1>2, <1>3, <1>4, <1>5 DEF AdcInv

LEMMA AdcNext == AdcInv /\ [Adc!Next]_(Adc!vars) => AdcInv'
<1> SUFFICES ASSUME AdcInv, [Adc!Next]_(Adc!vars) PROVE AdcInv'
    OBVIOUS
<1>1. AdcInv' <=> Adc!TypeOK' /\ Adc!CallbackWhole' /\ OnFromStart' /\ Phase'
    BY DEF AdcInv, Phase
<1>2. Adc!CallbackWhole /\ OnFromStart /\ Phase
    BY DEF AdcInv, Phase
<1>3. ASSUME UNCHANGED phaseVars, live' = live
      PROVE  /\ Phase' /\ OnFromStart' /\ Consistent' = Consistent
             /\ Adc!HalfStored' = Adc!HalfStored
  <2>1. Phase'
      BY <1>2, <1>3, PhaseStays
  <2> QED BY <1>2, <1>3, <2>1 DEF phaseVars, OnFromStart, Consistent, Adc!HalfStored
<1>4. Adc!CallbackWhole <=> (isr # "none" /\ ~Adc!HalfStored => Consistent)
    BY DEF Adc!CallbackWhole, Consistent
<1>5. Adc!CallbackWhole' <=> (isr' # "none" /\ ~Adc!HalfStored' => Consistent')
    BY DEF Adc!CallbackWhole, Consistent
<1>6. CASE UNCHANGED Adc!vars
  <2>1. UNCHANGED <<Adc!sequencer, Adc!store, Adc!dev, Adc!program, isr, recalibrated, live>>
      BY <1>6 DEF Adc!vars, Adc!history
  <2>2. Adc!TypeOK'
    <3>1. Flags' /\ Device' /\ Rest'
        BY <2>1, AdcTypeParts
           DEF AdcInv, Flags, Device, Rest, Adc!sequencer, Adc!store, Adc!dev, Adc!program
    <3> QED BY <3>1, AdcTypeParts DEF Adc!TypeOK, Flags, Device, Rest
  <2>3. UNCHANGED phaseVars /\ isr' = isr /\ live' = live
      BY <2>1 DEF phaseVars, Adc!sequencer, Adc!store, Adc!dev, Adc!program
  <2> QED BY <1>1, <1>2, <1>3, <1>4, <1>5, <2>2, <2>3
<1>7. CASE Adc!Next
  <2>1. Adc!TypeOK'
      BY <1>7, AdcTypes
  <2>2. Adc!CallbackWhole' /\ OnFromStart' /\ Phase'
    <3>1. CASE Adc!Begin
      <4>1. /\ Phase' /\ live' = irqEnable /\ isr' = "none" /\ irqEnable' = irqEnable
          BY <3>1, AdcBegins DEF Adc!store
      <4> QED BY <1>5, <4>1 DEF OnFromStart
    <3>2. CASE Adc!Continue
        BY <3>2, AdcContinues
    <3>3. CASE Adc!Spin
      <4>1. UNCHANGED phaseVars /\ isr' = isr /\ live' = live
          BY <3>3 DEF Adc!Spin, Adc!vars, phaseVars, Adc!sequencer, Adc!store, Adc!dev,
                      Adc!program, Adc!history
      <4> QED BY <1>2, <1>3, <1>4, <1>5, <4>1
    <3>4. CASE Adc!SequenceEnds
      <4>1. Phase'
          BY <3>4, SequenceEndsPhase
      <4>2. UNCHANGED <<isr, live, todo, irqEnable, callback, callback_context, base_known>>
          BY <3>4 DEF Adc!SequenceEnds, Adc!dev, Adc!program
      <4>3. Consistent' = Consistent /\ Adc!HalfStored' = Adc!HalfStored /\ OnFromStart'
          BY <1>2, <4>2 DEF Consistent, Adc!HalfStored, OnFromStart
      <4> QED BY <1>2, <1>4, <1>5, <4>1, <4>2, <4>3
    <3>5. CASE Adc!Interrupt
      <4>1. UNCHANGED phaseVars /\ live' = live /\ (isr = "none" => irqEnable)
          BY <3>5 DEF Adc!Interrupt, Adc!TakeInterrupt, Adc!CallBack, Adc!ClearStatus,
                      phaseVars, Adc!sequencer, Adc!store, Adc!dev, Adc!program, Adc!history
      <4>2. Phase' /\ OnFromStart' /\ Consistent' = Consistent
            /\ Adc!HalfStored' = Adc!HalfStored
          BY <1>3, <4>1
      <4>3. isr = "none" /\ ~Adc!HalfStored => Consistent
          BY <1>2, <4>1, InterruptFinds
      <4> QED BY <1>2, <1>4, <1>5, <4>2, <4>3
    <3> QED BY <1>7, <3>1, <3>2, <3>3, <3>4, <3>5 DEF Adc!Next
  <2> QED BY <1>1, <2>1, <2>2
<1> QED BY <1>6, <1>7

\* The restore is the last step of a recalibration, made with the sequencer at rest.
AdcRecalibrated ==
    Adc!Does("restore") /\ todo' = <<>> => recalibrated /\ MODE' = backup_cmd_reg.mode

LEMMA AdcRestores == AdcInv /\ [Adc!Next]_(Adc!vars) => [AdcRecalibrated]_(Adc!vars)
<1> SUFFICES ASSUME AdcInv, Adc!Next, Adc!Does("restore"), todo' = <<>>
             PROVE  recalibrated /\ MODE' = backup_cmd_reg.mode
    BY DEF AdcRecalibrated
<1>1. todo # <<>> /\ Head(todo) = "restore" /\ isr = "none"
    BY DEF Adc!Does
<1>2. Recalibrating
  <2>1. ~Resting
      BY <1>1 DEF Resting
  <2>2. ~Adding
      BY <1>1 DEF Adding
  <2>3. ~Removing
      BY <1>1 DEF Removing
  <2>4. ~Switching
    <3>1. ASSUME NEW one \in {"enable", "disable", "clear"}, todo = <<one>> PROVE FALSE
      <4>1. Head(todo) = one
          BY <3>1
      <4> QED BY <1>1, <4>1
    <3> QED BY <3>1 DEF Switching
  <2>5. ~Driving
    <3>1. ASSUME NEW one \in {"start", "poll", "wait", "ONCE", "CONTINUOUS"}, todo = <<one>>
          PROVE FALSE
      <4>1. Head(todo) = one
          BY <3>1
      <4> QED BY <1>1, <4>1
    <3>2. todo = <<"stop", "poll">> => Head(todo) = "stop"
        OBVIOUS
    <3> QED BY <1>1, <3>1, <3>2 DEF Driving
  <2> QED BY <2>1, <2>2, <2>3, <2>4, <2>5 DEF AdcInv
<1>3. todo = <<"restore">> /\ ~RUN /\ recalibrated
    BY <1>1, <1>2 DEF Recalibrating
<1>4. Adc!Continue
  <2>1. ~Adc!Begin
      BY <1>1 DEF Adc!Begin, Adc!Register, Adc!SetMode, Adc!Switch, Adc!Call
  <2>2. ~Adc!Spin
      BY <1>1 DEF Adc!Spin, Adc!Does
  <2>3. ~Adc!SequenceEnds
      BY <1>3 DEF Adc!SequenceEnds
  <2>4. ~Adc!Interrupt
    <3>1. Adc!Interrupt => todo' = todo
        BY DEF Adc!Interrupt, Adc!TakeInterrupt, Adc!CallBack, Adc!ClearStatus, Adc!program
    <3> QED BY <1>1, <3>1
  <2> QED BY <2>1, <2>2, <2>3, <2>4 DEF Adc!Next
<1>5. Adc!WriteCmd(backup_cmd_reg.run, backup_cmd_reg.mode)
    BY <1>1, <1>4, AdcStep
<1> QED BY <1>3, <1>5 DEF Adc!WriteCmd
-----------------------------------------------------------------------------
(* AltLog: what the shared variables are                                   *)

fifo      == v3
mine      == v4
theirs    == v5
stages    == v6
echo      == v9
disturbed == v10
lost      == v11

Progress == [left : 0 .. Length, room : BOOLEAN]

\* The room that was found: an interrupt finds it when it writes, and so does the
\* program unless an interrupt has written since.
LogInv ==
    /\ Log!LogSound
    /\ theirs.room => theirs.left > 0 /\ fifo < LogDepth
    /\ mine.room /\ ~disturbed => fifo < LogDepth

USE DEF fifo, mine, theirs, stages, echo, disturbed, lost

LEMMA LogNumbers ==
    /\ LogDepth \in Nat /\ LogDepth > 0 /\ Length \in Nat /\ Length > 0
    /\ ALT_LOG_SYS_CLK_INTERVAL \in Nat
    /\ ALT_LOG_JTAG_UART_TICKS \in Nat /\ ALT_LOG_JTAG_UART_TICKS > 0
    /\ ALT_LOG_WRITE_ECHO_LEN \in Nat
    /\ Log!Message \in Progress /\ Log!Nothing \in Progress
    /\ Changing \subseteq Log!Kinds
    /\ \A text \in Texts : Len(text) \in Nat
<1>1. /\ LogDepth \in Nat /\ LogDepth > 0 /\ Length \in Nat /\ Length > 0
      /\ ALT_LOG_SYS_CLK_INTERVAL \in Nat
      /\ ALT_LOG_JTAG_UART_TICKS \in Nat /\ ALT_LOG_JTAG_UART_TICKS > 0
      /\ ALT_LOG_WRITE_ECHO_LEN \in Nat
    BY DriversAssumption DEF Log!LogAssumption
<1>2. Changing \subseteq Log!Kinds /\ \A text \in Texts : Len(text) \in Nat
    BY DriversAssumption DEF Log!LogAssumption, Log!Kinds
<1>3. Log!Message \in Progress /\ Log!Nothing \in Progress
    BY <1>1 DEF Log!Message, Log!Nothing, Progress
<1> QED BY <1>1, <1>2, <1>3

\* The type invariant in two parts: numbers, and the rest.
LogNumbered == /\ fifo \in 0 .. LogDepth /\ v7 \in 0 .. ALT_LOG_SYS_CLK_INTERVAL
               /\ v8 \in 0 .. ALT_LOG_JTAG_UART_TICKS
LogTyped == /\ v1 \subseteq Log!Kinds /\ v2 \in {"boot", "init", "run"}
            /\ mine \in Progress /\ theirs \in Progress
            /\ disturbed \in BOOLEAN /\ lost \subseteq Log!Writers

LEMMA LogTypeParts == Log!TypeOK <=> LogNumbered /\ LogTyped
BY DEF Log!TypeOK, LogNumbered, LogTyped, Progress

LEMMA LogInit == Log!Init => LogInv
<1> SUFFICES ASSUME Log!Init PROVE LogInv
    OBVIOUS
<1>1. v1 \subseteq Log!Kinds
    BY DriversAssumption DEF Log!LogAssumption, Log!Init, Log!Setting, Log!Kinds
<1>2. /\ v2 = "boot" /\ fifo = 0 /\ mine = Log!Nothing /\ theirs = Log!Nothing
      /\ v7 = 0 /\ v8 = 0 /\ echo = <<>> /\ disturbed = FALSE /\ lost = {}
    BY DEF Log!Init
<1>3. LogNumbered
    BY <1>2, LogNumbers DEF LogNumbered
<1>4. LogTyped
    BY <1>1, <1>2, LogNumbers DEF LogTyped
<1>5. Log!TypeOK
    BY <1>3, <1>4, LogTypeParts
<1>6. ~mine.room /\ ~theirs.room
    BY <1>2 DEF Log!Nothing
<1> QED BY <1>2, <1>5, <1>6 DEF LogInv, Log!LogSound, Log!LossesExplained, Log!EchoSafe

\* What has been written and what has room: the steps that change them.
LEMMA LogWritten ==
    ASSUME NEW m \in Progress, m.left > 0
    PROVE  Log!Written(m) \in Progress /\ ~Log!Written(m).room
BY LogNumbers DEF Progress, Log!Written

LEMMA LogReady ==
    ASSUME NEW m \in Progress
    PROVE  Log!Ready(m) \in Progress /\ Log!Ready(m).room /\ Log!Ready(m).left = m.left
BY LogNumbers DEF Progress, Log!Ready

\* The echo of a text of at least two characters.
LEMMA EchoIsSafe ==
    ASSUME NEW text, NEW len \in Nat, len >= 2, len <= ALT_LOG_WRITE_ECHO_LEN
    PROVE  LET e == Log!Escaped(text, len)
           IN  /\ Len(e) <= ALT_LOG_WRITE_ECHO_LEN + 1
               /\ e[Len(e) - 1] = "LF" /\ e[Len(e)] = "CR"
               /\ \A i \in DOMAIN e : e[i] # "EOT"
<1> DEFINE e == Log!Escaped(text, len)
           copied == Log!Copied(text, len)
<1>1. e = [i \in 1 .. len + 1 |->
              CASE i = len     -> "LF"
                [] i = len + 1 -> "CR"
                [] OTHER       -> IF copied[i] = "EOT" THEN "D" ELSE copied[i]]
    BY DEF Log!Escaped
<1> HIDE DEF e, copied
<1>2. DOMAIN e = 1 .. len + 1
    BY <1>1
<1>3. e[len] = "LF" /\ e[len + 1] = "CR"
    BY <1>1
<1>4. \A i \in 1 .. len + 1 : e[i] # "EOT"
    BY <1>1
<1>5. Len(e) = len + 1
    BY <1>2
<1>6. ALT_LOG_WRITE_ECHO_LEN \in Nat
    BY LogNumbers
<1>7. Len(e) - 1 = len
    BY <1>5
<1>8. /\ Len(e) <= ALT_LOG_WRITE_ECHO_LEN + 1
      /\ e[Len(e) - 1] = "LF" /\ e[Len(e)] = "CR"
      /\ \A i \in DOMAIN e : e[i] # "EOT"
    BY <1>2, <1>3, <1>4, <1>5, <1>6, <1>7
<1> QED BY <1>8 DEF e
\* A step of the program with no interrupt served and nothing written or polled.
LEMMA LogCalm ==
    ASSUME LogInv, LogNumbered', v1' \subseteq Log!Kinds, v2' \in {"boot", "init", "run"},
           mine' \in {mine, Log!Message, Log!Nothing},
           theirs' \in {theirs, Log!Message, Log!Nothing},
           fifo' <= fifo, UNCHANGED <<disturbed, lost>>, Log!EchoSafe'
    PROVE  LogInv'
<1>1. LogNumbered /\ LogTyped /\ Log!LossesExplained
      /\ (theirs.room => theirs.left > 0 /\ fifo < LogDepth)
      /\ (mine.room /\ ~disturbed => fifo < LogDepth)
    BY LogTypeParts DEF LogInv, Log!LogSound
<1>2. ~Log!Message.room /\ ~Log!Nothing.room
    BY DEF Log!Message, Log!Nothing
<1>3. LogTyped'
    BY <1>1, LogNumbers DEF LogTyped
<1>4. Log!TypeOK'
  <2>1. LogNumbered' /\ LogTyped' => Log!TypeOK'
      BY DEF Log!TypeOK, LogNumbered, LogTyped, Progress
  <2> QED BY <1>3, <2>1
<1>5. fifo \in Int /\ fifo' \in Int /\ LogDepth \in Int
    BY <1>1, LogNumbers DEF LogNumbered
<1>6. theirs'.room => theirs'.left > 0 /\ fifo' < LogDepth
  <2>1. CASE theirs' = theirs
      BY <1>1, <1>5, <2>1
  <2>2. CASE theirs' \in {Log!Message, Log!Nothing}
      BY <1>2, <2>2
  <2> QED BY <2>1, <2>2
<1>7. mine'.room /\ ~disturbed' => fifo' < LogDepth
  <2>1. CASE mine' = mine
      BY <1>1, <1>5, <2>1
  <2>2. CASE mine' \in {Log!Message, Log!Nothing}
      BY <1>2, <2>2
  <2> QED BY <2>1, <2>2
<1>8. Log!LossesExplained'
    BY <1>1 DEF Log!LossesExplained
<1> QED BY <1>4, <1>6, <1>7, <1>8 DEF LogInv, Log!LogSound

LEMMA LogWrites ==
    ASSUME LogInv, Log!ProgramWrites \/ Log!InterruptWrites
    PROVE  LogInv'
<1>1. /\ LogNumbered /\ LogTyped /\ Log!LossesExplained /\ Log!EchoSafe
      /\ theirs.room => theirs.left > 0 /\ fifo < LogDepth
      /\ mine.room /\ ~disturbed => fifo < LogDepth
    BY LogTypeParts DEF LogInv, Log!LogSound
<1>2. fifo \in 0 .. LogDepth /\ LogDepth \in Nat /\ LogDepth > 0
    BY <1>1, LogNumbers DEF LogNumbered
<1>3. LogNumbered' /\ LogTyped' => Log!TypeOK'
    BY DEF Log!TypeOK, LogNumbered, LogTyped, Progress
<1>4. CASE Log!ProgramWrites
  <2>1. /\ mine.left > 0 /\ mine.room /\ ~Log!Serving
        /\ mine' = Log!Written(mine)
        /\ fifo' = IF fifo < LogDepth THEN fifo + 1 ELSE fifo
        /\ lost' = IF fifo < LogDepth THEN lost ELSE lost \cup {"program"}
        /\ echo' \in {<<>>, echo}
        /\ UNCHANGED <<v1, v2, theirs, stages, v7, v8, disturbed>>
      BY <1>4 DEF Log!ProgramWrites, Log!Writes
  <2>2. mine' \in Progress /\ ~mine'.room
      BY <1>1, <2>1, LogWritten DEF LogTyped
  <2>3. ~theirs.room
    <3>1. ~(theirs.left > 0)
        BY <2>1 DEF Log!Serving
    <3> QED BY <1>1, <3>1
  <2>4. LogNumbered'
      BY <1>1, <1>2, <2>1 DEF LogNumbered
  <2>5. LogTyped'
      BY <1>1, <2>1, <2>2 DEF LogTyped, Log!Writers
  <2>6. Log!LossesExplained'
      BY <1>1, <2>1 DEF Log!LossesExplained
  <2>7. Log!EchoSafe'
      BY <1>1, <2>1 DEF Log!EchoSafe
  <2> QED BY <1>3, <2>1, <2>2, <2>3, <2>4, <2>5, <2>6, <2>7 DEF LogInv, Log!LogSound
<1>5. CASE Log!InterruptWrites
  <2>1. /\ theirs.left > 0 /\ theirs.room
        /\ theirs' = Log!Written(theirs)
        /\ fifo' = IF fifo < LogDepth THEN fifo + 1 ELSE fifo
        /\ lost' = IF fifo < LogDepth THEN lost ELSE lost \cup {"interrupt"}
        /\ disturbed' = TRUE
        /\ UNCHANGED <<v1, v2, mine, stages, v7, v8, echo>>
      BY <1>5 DEF Log!InterruptWrites, Log!Writes
  <2>2. theirs' \in Progress /\ ~theirs'.room
      BY <1>1, <2>1, LogWritten DEF LogTyped
  <2>3. lost' = lost /\ fifo' = fifo + 1 /\ fifo < LogDepth
      BY <1>1, <2>1
  <2>4. LogNumbered'
      BY <1>1, <1>2, <2>1, <2>3 DEF LogNumbered
  <2>5. LogTyped'
      BY <1>1, <2>1, <2>2, <2>3 DEF LogTyped
  <2>6. Log!LossesExplained'
      BY <1>1, <2>1, <2>3 DEF Log!LossesExplained
  <2>7. Log!EchoSafe'
      BY <1>1, <2>1 DEF Log!EchoSafe
  <2> QED BY <1>3, <2>1, <2>2, <2>4, <2>5, <2>6, <2>7 DEF LogInv, Log!LogSound
<1> QED BY <1>4, <1>5

LEMMA LogPolls ==
    ASSUME LogInv, Log!ProgramPolls \/ Log!InterruptPolls
    PROVE  LogInv'
<1>1. /\ LogNumbered /\ LogTyped /\ Log!LossesExplained /\ Log!EchoSafe
      /\ theirs.room => theirs.left > 0 /\ fifo < LogDepth
      /\ mine.room /\ ~disturbed => fifo < LogDepth
    BY LogTypeParts DEF LogInv, Log!LogSound
<1>2. LogNumbered' /\ LogTyped' => Log!TypeOK'
    BY DEF Log!TypeOK, LogNumbered, LogTyped, Progress
<1>3. CASE Log!ProgramPolls
  <2>1. /\ fifo < LogDepth /\ mine' = Log!Ready(mine) /\ disturbed' = FALSE /\ lost' = {}
        /\ UNCHANGED <<v1, v2, fifo, theirs, stages, v7, v8, echo>>
      BY <1>3 DEF Log!ProgramPolls, Log!Polls
  <2>2. mine' \in Progress
      BY <1>1, <2>1, LogReady DEF LogTyped
  <2>3. LogNumbered' /\ LogTyped'
      BY <1>1, <2>1, <2>2 DEF LogNumbered, LogTyped
  <2>4. Log!LossesExplained' /\ Log!EchoSafe'
      BY <1>1, <2>1 DEF Log!LossesExplained, Log!EchoSafe
  <2> QED BY <1>1, <1>2, <2>1, <2>3, <2>4 DEF LogInv, Log!LogSound
<1>4. CASE Log!InterruptPolls
  <2>1. /\ theirs.left > 0 /\ fifo < LogDepth /\ theirs' = Log!Ready(theirs)
        /\ UNCHANGED <<v1, v2, fifo, mine, stages, v7, v8, echo, disturbed, lost>>
      BY <1>4 DEF Log!InterruptPolls, Log!Polls
  <2>2. theirs' \in Progress /\ theirs'.left = theirs.left
      BY <1>1, <2>1, LogReady DEF LogTyped
  <2>3. LogNumbered' /\ LogTyped'
      BY <1>1, <2>1, <2>2 DEF LogNumbered, LogTyped
  <2>4. Log!LossesExplained' /\ Log!EchoSafe'
      BY <1>1, <2>1 DEF Log!LossesExplained, Log!EchoSafe
  <2> QED BY <1>1, <1>2, <2>1, <2>2, <2>3, <2>4 DEF LogInv, Log!LogSound
<1> QED BY <1>3, <1>4

LEMMA LogNext == LogInv /\ [Log!Next]_(Log!vars) => LogInv'
<1> SUFFICES ASSUME LogInv, [Log!Next]_(Log!vars) PROVE LogInv'
    OBVIOUS
<1>1. LogNumbered /\ LogTyped /\ Log!EchoSafe
    BY LogTypeParts DEF LogInv, Log!LogSound
<1>2. fifo \in Nat /\ fifo <= LogDepth /\ LogDepth \in Nat
    BY <1>1, LogNumbers DEF LogNumbered
<1>3. UNCHANGED echo => Log!EchoSafe'
    BY <1>1 DEF Log!EchoSafe
<1>4. CASE Log!Boot
  <2>1. UNCHANGED <<fifo, v7, v8, v1, v2, theirs, echo, disturbed, lost>>
        /\ mine' = Log!Message
      BY <1>4 DEF Log!Boot
  <2>2. LogNumbered' /\ v1' \subseteq Log!Kinds /\ v2' \in {"boot", "init", "run"}
      BY <1>1, <2>1 DEF LogNumbered, LogTyped
  <2> QED BY <1>2, <1>3, <2>1, <2>2, LogCalm
<1>5. CASE Log!StartTimer
  <2>1. UNCHANGED <<fifo, v7, v8, v1, mine, theirs, echo, disturbed, lost>> /\ v2' = "init"
      BY <1>5 DEF Log!StartTimer
  <2>2. LogNumbered' /\ v1' \subseteq Log!Kinds /\ v2' \in {"boot", "init", "run"}
      BY <1>1, <2>1 DEF LogNumbered, LogTyped
  <2> QED BY <1>2, <1>3, <2>1, <2>2, LogCalm
<1>6. CASE Log!Register
  <2>1. /\ UNCHANGED <<fifo, v7, v1, theirs, echo, disturbed, lost>> /\ v2' = "run"
        /\ v8' \in {ALT_LOG_JTAG_UART_TICKS, 0} /\ mine' \in {Log!Message, Log!Nothing}
      BY <1>6 DEF Log!Register
  <2>2. LogNumbered' /\ v1' \subseteq Log!Kinds /\ v2' \in {"boot", "init", "run"}
      BY <1>1, <2>1, LogNumbers DEF LogNumbered, LogTyped
  <2> QED BY <1>2, <1>3, <2>1, <2>2, LogCalm
<1>7. ASSUME NEW text \in Texts, Log!Write(text) PROVE LogInv'
  <2>1. UNCHANGED <<fifo, v7, v8, v1, v2, theirs, disturbed, lost>> /\ Log!alt_log_write(text)
      BY <1>7 DEF Log!Write
  <2>2. LogNumbered' /\ v1' \subseteq Log!Kinds /\ v2' \in {"boot", "init", "run"}
      BY <1>1, <2>1 DEF LogNumbered, LogTyped
  <2> DEFINE len == IF ALT_LOG_WRITE_ECHO_LEN > Len(text) THEN Len(text)
                                                          ELSE ALT_LOG_WRITE_ECHO_LEN
  <2>3. len \in Nat /\ len <= ALT_LOG_WRITE_ECHO_LEN
      BY LogNumbers
  <2>4. \/ len >= 2 /\ mine' = Log!Message /\ echo' = Log!Escaped(text, len)
        \/ UNCHANGED <<mine, echo>>
      BY <2>1 DEF Log!alt_log_write
  <2> HIDE DEF len
  <2>5. CASE len >= 2 /\ mine' = Log!Message /\ echo' = Log!Escaped(text, len)
    <3>1. Log!EchoSafe'
        BY <2>3, <2>5, EchoIsSafe DEF Log!EchoSafe
    <3> QED BY <1>2, <2>1, <2>2, <2>5, <3>1, LogCalm
  <2>6. CASE UNCHANGED <<mine, echo>>
      BY <1>2, <1>3, <2>1, <2>2, <2>6, LogCalm
  <2> QED BY <2>4, <2>5, <2>6
<1>8. ASSUME NEW kind \in Changing, Log!SetFlag(kind) PROVE LogInv'
  <2>1. /\ UNCHANGED <<fifo, v7, v8, v2, mine, theirs, echo, disturbed, lost>>
        /\ v1' \subseteq v1 \cup {kind}
      BY <1>8 DEF Log!SetFlag
  <2>2. LogNumbered' /\ v1' \subseteq Log!Kinds /\ v2' \in {"boot", "init", "run"}
      BY <1>1, <2>1, LogNumbers DEF LogNumbered, LogTyped
  <2> QED BY <1>2, <1>3, <2>1, <2>2, LogCalm
<1>9. CASE Log!TimerInterrupt \/ Log!UartInterrupt
  <2>1. UNCHANGED <<fifo, v7, v8, v1, v2, mine, theirs, echo, disturbed, lost>>
      BY <1>9 DEF Log!TimerInterrupt, Log!UartInterrupt
  <2>2. LogNumbered' /\ v1' \subseteq Log!Kinds /\ v2' \in {"boot", "init", "run"}
      BY <1>1, <2>1 DEF LogNumbered, LogTyped
  <2> QED BY <1>2, <1>3, <2>1, <2>2, LogCalm
<1>10. CASE Log!alt_log_system_clock
  <2>1. /\ UNCHANGED <<fifo, v8, v1, v2, mine, echo, disturbed, lost>>
        /\ theirs' \in {Log!Message, Log!Nothing}
      BY <1>10 DEF Log!alt_log_system_clock, Log!Begins
  <2>2. v7' = v7 \/ v7' = 0 \/ (v7' = v7 + 1 /\ ~(v7 + 1 > ALT_LOG_SYS_CLK_INTERVAL))
      BY <1>10 DEF Log!alt_log_system_clock
  <2>3. LogNumbered' /\ v1' \subseteq Log!Kinds /\ v2' \in {"boot", "init", "run"}
      BY <1>1, <2>1, <2>2, LogNumbers DEF LogNumbered, LogTyped
  <2> QED BY <1>2, <1>3, <2>1, <2>3, LogCalm
<1>11. CASE Log!altera_avalon_jtag_uart_report_log
  <2>1. /\ UNCHANGED <<fifo, v7, v1, v2, mine, echo, disturbed, lost>>
        /\ theirs' \in {Log!Message, Log!Nothing}
      BY <1>11 DEF Log!altera_avalon_jtag_uart_report_log, Log!Begins
  <2>2. v8' = 0 \/ v8' = ALT_LOG_JTAG_UART_TICKS \/ (v8 > 1 /\ v8' = v8 - 1)
      BY <1>11 DEF Log!altera_avalon_jtag_uart_report_log
  <2>3. LogNumbered' /\ v1' \subseteq Log!Kinds /\ v2' \in {"boot", "init", "run"}
      BY <1>1, <2>1, <2>2, LogNumbers DEF LogNumbered, LogTyped
  <2> QED BY <1>2, <1>3, <2>1, <2>3, LogCalm
<1>12. CASE Log!alt_log_jtag_uart_isr_proc
  <2>1. /\ UNCHANGED <<fifo, v7, v8, v1, v2, mine, echo, disturbed, lost>>
        /\ theirs' \in {Log!Message, Log!Nothing}
      BY <1>12 DEF Log!alt_log_jtag_uart_isr_proc, Log!Begins
  <2>2. LogNumbered' /\ v1' \subseteq Log!Kinds /\ v2' \in {"boot", "init", "run"}
      BY <1>1, <2>1 DEF LogNumbered, LogTyped
  <2> QED BY <1>2, <1>3, <2>1, <2>2, LogCalm
<1>13. CASE Log!HostTakes
  <2>1. /\ UNCHANGED <<v7, v8, v1, v2, mine, theirs, echo, disturbed, lost>>
        /\ fifo > 0 /\ fifo' = fifo - 1
      BY <1>13 DEF Log!HostTakes
  <2>2. LogNumbered' /\ v1' \subseteq Log!Kinds /\ v2' \in {"boot", "init", "run"}
      BY <1>1, <1>2, <2>1 DEF LogNumbered, LogTyped
  <2>3. fifo' <= fifo
      BY <1>2, <2>1
  <2> QED BY <1>3, <2>1, <2>2, <2>3, LogCalm
<1>14. CASE UNCHANGED Log!vars
  <2>1. UNCHANGED <<fifo, v7, v8, v1, v2, mine, theirs, echo, disturbed, lost>>
      BY <1>14 DEF Log!vars
  <2>2. LogNumbered' /\ v1' \subseteq Log!Kinds /\ v2' \in {"boot", "init", "run"}
      BY <1>1, <2>1 DEF LogNumbered, LogTyped
  <2> QED BY <1>2, <1>3, <2>1, <2>2, LogCalm
<1> QED BY <1>4, <1>5, <1>6, <1>7, <1>8, <1>9, <1>10, <1>11, <1>12, <1>13, <1>14,
           LogWrites, LogPolls DEF Log!Next
-----------------------------------------------------------------------------
(* OnchipFlash: what holds during a call                                   *)

Erasing     == {"erase_wait", "erase_check"}
Programming == {"write_word", "write_wait", "write_check"}
First == asked.offset
Past  == asked.offset + Len(asked.data)

\* The regions are whole pages in ascending order.
RegionsSound ==
    /\ DOMAIN region_info \subseteq Nat
    /\ \A i \in DOMAIN region_info :
          /\ region_info[i] \in [start : Nat, end : Nat]
          /\ region_info[i].start % page_size = 0
          /\ (region_info[i].end + 1) % page_size = 0
          /\ region_info[i].end < length
    /\ \A i, j \in DOMAIN region_info : i < j => region_info[i].end < region_info[j].start

FlashTyped ==
    /\ memory \in [Bytes -> {0, 1}] /\ before \in [Bytes -> {0, 1}]
    /\ status \in [erase : BOOLEAN, write : BOOLEAN]
    /\ busy.op \in {"idle", "erase", "write"} /\ busy.at \in Nat
    /\ busy.op = "idle" => busy = Idle
    /\ busy.op = "write" => busy.data \in [1 .. DATA_ALIGN_SIZE -> {0, 1}]
    /\ protected <=> pc \notin Erasing \cup Programming
    /\ pc \in {"ready", "scan", "erase_idle", "write_idle"} \cup Erasing \cup Programming

\* What is left of the data of a call begins at its offset.
LeftOver ==
    /\ asked.offset \in Nat /\ asked.data \in Seq({0, 1})
    /\ asked.idle \in BOOLEAN /\ (asked.fresh => asked.idle)
    /\ asked.offset < length /\ Past <= length
    /\ call \in [name : {"write", "write_block", "erase_block"}, offset : Nat, data : Seq({0, 1})]
    /\ call.name = asked.name
    /\ call.offset \in First .. Past
    /\ Len(call.data) = Past - call.offset
    /\ \A i \in 1 .. Len(call.data) : call.data[i] = asked.data[call.offset - First + i]

\* Where each call may be.
CallSound ==
    \/ /\ asked.name = "erase_block" /\ pc \in {"erase_idle"} \cup Erasing
       /\ call.offset = First /\ First % page_size = 0
    \/ /\ asked.name = "write_block" /\ pc \in {"write_idle"} \cup Programming
       /\ call.offset = First
    \/ asked.name = "write" /\ pc # "ready"

\* A write that the cache did not deceive has done all blocks before its offset; one is
\* inside of a block unless it looks for one.
WriteSound ==
    asked.name = "write" =>
        /\ asked.fresh =>
              \A b \in First .. call.offset - 1 : memory[b] = asked.data[b - First + 1]
        /\ IF pc = "scan"
           THEN \/ block = NoBlock /\ call.offset = First
                \/ /\ block \in Blocks /\ call.offset = Start(block) + page_size
                   /\ call.data # <<>>
           ELSE /\ block \in Blocks
                /\ Start(block) <= call.offset /\ call.offset < Start(block) + page_size
                /\ call.offset = First \/ call.offset = Start(block)
                /\ call.data # <<>>

\* The page that is erased, and the end of what is programmed.
ErasedAt == IF asked.name = "write" THEN Start(block) ELSE call.offset
Hi == IF asked.name = "write" THEN call.offset + Done(block) ELSE Past

EraseSound ==
    pc \in Erasing =>
        /\ busy = Idle \/ (busy.op = "erase" /\ busy.at = ErasedAt)
        /\ status.erase => busy = Idle /\ \A b \in Page(ErasedAt) : memory[b] = 1

\* The bytes to be programmed, as they were and as they are to be.
Old(b) == IF asked.name = "write" THEN 1 ELSE before[b]
New(b) == Min2(Old(b), asked.data[b - First + 1])

ChunkSound ==
    pc \in Programming \cup {"write_idle"} =>
        /\ chunk.at \in Nat /\ call.offset <= chunk.at
        /\ chunk.data \in Seq({0, 1})
        /\ Len(chunk.data) = IF chunk.at <= Hi THEN Hi - chunk.at ELSE 0
        /\ \A i \in 1 .. Len(chunk.data) : chunk.data[i] = asked.data[chunk.at - First + i]
        /\ pc = "write_idle" => chunk.at = call.offset
        /\ pc \in {"write_wait", "write_check"} => chunk.at >= DATA_ALIGN_SIZE

\* A write, and a call of write_block that found the flash idle, know what the bytes are.
ProgramSound ==
    /\ pc \in {"write_word", "write_check"} => busy = Idle
    /\ pc = "write_idle" /\ (asked.name = "write" \/ asked.idle) =>
          busy = Idle /\ \A b \in call.offset .. Hi - 1 : memory[b] = Old(b)
    /\ pc = "write_word" /\ (asked.name = "write" \/ asked.idle) =>
          \A b \in call.offset .. Hi - 1 : memory[b] = IF b < chunk.at THEN New(b) ELSE Old(b)
    /\ pc = "write_wait" /\ busy # Idle =>
          /\ busy.op = "write" /\ busy.at = chunk.at - DATA_ALIGN_SIZE
          /\ \A b \in busy.at .. busy.at + DATA_ALIGN_SIZE - 1 :
                b \notin call.offset .. Hi - 1 => busy.data[b - busy.at + 1] = 1
    /\ pc \in {"write_wait", "write_check"} /\ (asked.name = "write" \/ asked.idle) =>
          /\ status.write => busy = Idle
          /\ \A b \in call.offset .. Hi - 1 :
                /\ b >= chunk.at => memory[b] = Old(b)
                /\ b < chunk.at - DATA_ALIGN_SIZE => memory[b] = New(b)
                /\ b < chunk.at /\ b >= chunk.at - DATA_ALIGN_SIZE =>
                      /\ status.write => memory[b] = New(b)
                      /\ busy # Idle => Min2(memory[b], busy.data[b - busy.at + 1]) = New(b)

\* What is under way may be in the way of no byte that the call is not about.
Harmless ==
    asked.idle =>
        /\ \A b \in Bytes \ Reach : memory[b] = before[b]
        /\ busy.op = "erase" => pc \in Erasing /\ Page(busy.at) \subseteq Reach
        /\ busy.op = "write" => pc = "write_wait"

FlashInv ==
    /\ RegionsSound /\ FlashTyped
    /\ pc = "ready" => block = NoBlock
    /\ pc # "ready" =>
          LeftOver /\ CallSound /\ WriteSound /\ EraseSound /\ ChunkSound /\ ProgramSound /\ Harmless

\* What a write has yet to compare with: all from its offset on, or from the end of its
\* block on.  If the cache showed it as it was, it shows it as it is.
Ahead == IF pc = "scan" THEN call.offset ELSE BlockEnd(block)

FreshAhead ==
    pc # "ready" /\ asked.name = "write" /\ asked.fresh =>
        \A b \in Ahead .. Past - 1 : Seen(b) = memory[b]

-----------------------------------------------------------------------------
(* OnchipFlash: the blocks                                                 *)

\* The page that an address lies in.
LEMMA PageIs ==
    ASSUME NEW a \in Nat, a % page_size = 0
    PROVE  /\ \A x \in Nat : a <= x /\ x < a + page_size <=> x \div page_size = a \div page_size
           /\ Page(a) = {b \in Bytes : a <= b /\ b < a + page_size}
<1> DEFINE p == page_size
<1>1. p \in Nat \ {0} /\ length \in Nat
    BY GeometryAssumption
<1> HIDE DEF p
<1>2. a = p * (a \div p) /\ a \div p \in Nat
    BY <1>1, Z3 DEF p
<1>3. ASSUME NEW x \in Nat
      PROVE  a <= x /\ x < a + p <=> x \div p = a \div p
  <2>1. x = p * (x \div p) + (x % p) /\ x % p \in 0 .. p - 1 /\ x \div p \in Nat
      BY <1>1, Z3
  <2>2. ASSUME NEW q \in Nat, NEW r \in Nat, NEW y \in 0 .. p - 1, NEW z \in Nat, z = p * r + y,
               p * q <= z, z < p * q + p
        PROVE  r = q
    <3>1. CASE r < q
      <4>1. p * (r + 1) <= p * q
          BY <1>1, <2>2, <3>1, Z3
      <4>2. p * (r + 1) = p * r + p
          BY <1>1, Z3
      <4> QED BY <1>1, <2>2, <4>1, <4>2, Z3
    <3>2. CASE r > q
      <4>1. p * (q + 1) <= p * r
          BY <1>1, <2>2, <3>2, Z3
      <4>2. p * (q + 1) = p * q + p
          BY <1>1, Z3
      <4> QED BY <1>1, <2>2, <4>1, <4>2, Z3
    <3> QED BY <3>1, <3>2
  <2>3. a <= x /\ x < a + p => x \div p = a \div p
      BY <1>2, <2>1, <2>2
  <2>4. x \div p = a \div p => a <= x /\ x < a + p
      BY <1>1, <1>2, <2>1, Z3
  <2> QED BY <2>3, <2>4
<1>4. Page(a) = {b \in Bytes : a <= b /\ b < a + page_size}
    BY <1>1, <1>3 DEF Page, Bytes, p
<1> QED BY <1>3, <1>4 DEF p

\* A block is a page of its region.
LEMMA BlockIs ==
    ASSUME RegionsSound, NEW k \in Blocks
    PROVE  /\ k[1] \in DOMAIN region_info /\ k[1] \in Nat /\ k[2] \in Nat \ {0} /\ k = <<k[1], k[2]>>
           /\ Start(k) \in Nat /\ Start(k) % page_size = 0
           /\ region_info[k[1]].start <= Start(k)
           /\ Start(k) + page_size <= region_info[k[1]].end + 1
           /\ Start(k) + page_size <= length
<1>1. PICK i \in DOMAIN region_info : k \in {i} \X (1 .. NumberOfBlocks(i))
    BY DEF Blocks
<1>2. k[1] = i /\ k[2] \in 1 .. NumberOfBlocks(i) /\ k = <<k[1], k[2]>>
    BY <1>1
<1> DEFINE p == page_size
           s == region_info[i].start
           e == region_info[i].end + 1
           m == k[2]
<1>3. p \in Nat \ {0} /\ s \in Nat /\ e \in Nat /\ i \in Nat /\ s % p = 0 /\ e % p = 0 /\ e <= length
      /\ length \in Nat
    BY GeometryAssumption DEF RegionsSound
<1>4. m \in 1 .. (e - s) \div p /\ Start(k) = s + (m - 1) * p
    BY <1>2 DEF Start, NumberOfBlocks
<1> HIDE DEF p, s, e, m
<1>5. m \in Nat \ {0}
    BY <1>3, <1>4
<1>6. s = p * (s \div p) /\ s \div p \in Nat /\ e = p * (e \div p) /\ e \div p \in Nat
    BY <1>3, Z3
<1>7. (m - 1) * p \in Nat /\ m * p = (m - 1) * p + p
    BY <1>3, <1>5, Z3
<1>8. (s + (m - 1) * p) % p = 0
  <2>1. s + (m - 1) * p = p * (s \div p + (m - 1)) /\ s \div p + (m - 1) \in Nat
      BY <1>3, <1>5, <1>6, Z3
  <2>2. \A q \in Nat : (p * q) % p = 0
      BY <1>3, Z3
  <2> QED BY <2>1, <2>2
<1>9. m * p <= e - s
  <2>1. (e - s) = p * ((e - s) \div p) + ((e - s) % p) /\ (e - s) % p >= 0 /\ (e - s) \div p \in Int
      BY <1>3, Z3
  <2>2. p * m <= p * ((e - s) \div p)
      BY <1>3, <1>4, <1>5, <2>1, Z3
  <2>3. p * m = m * p
      BY <1>3, <1>5, Z3
  <2>4. p * ((e - s) \div p) \in Int /\ m * p \in Int /\ (e - s) % p \in Int
      BY <1>3, <1>5, <2>1, Z3
  <2> QED BY <1>3, <2>1, <2>2, <2>3, <2>4
<1>10. s + (m - 1) * p + p <= e
    BY <1>3, <1>7, <1>9
<1>11. /\ s + (m - 1) * p \in Nat /\ s <= s + (m - 1) * p
       /\ s + (m - 1) * p + p <= length
    BY <1>3, <1>7, <1>10
<1> QED BY <1>1, <1>2, <1>3, <1>4, <1>5, <1>8, <1>10, <1>11 DEF p, s, e, m

\* The order of the blocks is that of their addresses.
LEMMA BlocksOrdered ==
    ASSUME RegionsSound, NEW k \in Blocks, NEW l \in Blocks
    PROVE  /\ Start(k) < Start(l) => Later(l, k)
           /\ Start(k) = Start(l) => k = l
<1> DEFINE p == page_size
<1>1. p \in Nat \ {0}
    BY GeometryAssumption
<1>2. /\ k[1] \in DOMAIN region_info /\ k[1] \in Nat /\ k[2] \in Nat \ {0} /\ k = <<k[1], k[2]>>
      /\ l[1] \in DOMAIN region_info /\ l[1] \in Nat /\ l[2] \in Nat \ {0} /\ l = <<l[1], l[2]>>
    BY BlockIs
<1>3. ASSUME NEW x \in Blocks, NEW y \in Blocks, x[1] < y[1]
      PROVE  Start(x) < Start(y)
  <2>1. /\ x[1] \in DOMAIN region_info /\ Start(x) \in Nat
        /\ Start(x) + p <= region_info[x[1]].end + 1
        /\ y[1] \in DOMAIN region_info /\ Start(y) \in Nat /\ region_info[y[1]].start <= Start(y)
      BY BlockIs
  <2>2. /\ region_info[x[1]].end < region_info[y[1]].start
        /\ region_info[x[1]].end \in Nat /\ region_info[y[1]].start \in Nat
      BY <1>3, <2>1 DEF RegionsSound
  <2> HIDE DEF p
  <2> QED BY <1>1, <2>1, <2>2
<1>4. ASSUME k[1] = l[1]
      PROVE  /\ k[2] <= l[2] => Start(k) <= Start(l)
             /\ k[2] < l[2] => Start(k) < Start(l)
             /\ l[2] < k[2] => Start(l) < Start(k)
             /\ l[2] <= k[2] => Start(l) <= Start(k)
  <2> DEFINE s == region_info[k[1]].start
             x == k[2]
             y == l[2]
  <2>1. Start(k) = s + (x - 1) * p /\ Start(l) = s + (y - 1) * p /\ s \in Nat
      BY <1>2, <1>4 DEF Start, RegionsSound
  <2>2. x \in Nat \ {0} /\ y \in Nat \ {0}
      BY <1>2
  <2> HIDE DEF s, x, y, p
  <2>3. \A i \in Nat, j \in Nat : i < j => i * p < j * p
    <3> SUFFICES ASSUME NEW i \in Nat, NEW j \in Nat, i < j PROVE i * p < j * p
        OBVIOUS
    <3>1. (i + 1) * p <= j * p
        BY <1>1, Z3
    <3>2. (i + 1) * p = i * p + p
        BY <1>1, Z3
    <3> QED BY <1>1, <3>1, <3>2, Z3
  <2>4. (x - 1) * p \in Nat /\ (y - 1) * p \in Nat /\ x - 1 \in Nat /\ y - 1 \in Nat
      BY <1>1, <2>2, Z3
  <2>5. /\ x < y => (x - 1) * p < (y - 1) * p
        /\ y < x => (y - 1) * p < (x - 1) * p
        /\ x = y => (y - 1) * p = (x - 1) * p
      BY <2>2, <2>3, <2>4
  <2>6. /\ x <= y => Start(k) <= Start(l)
        /\ x < y => Start(k) < Start(l)
        /\ y < x => Start(l) < Start(k)
        /\ y <= x => Start(l) <= Start(k)
      BY <2>1, <2>2, <2>4, <2>5
  <2> QED BY <2>6 DEF x, y
<1>5. Start(k) \in Nat /\ Start(l) \in Nat
    BY BlockIs
<1>6. ASSUME Start(k) < Start(l) PROVE Later(l, k)
  <2>1. ~(l[1] < k[1])
      BY <1>3, <1>5, <1>6
  <2>2. l[1] = k[1] => ~(l[2] <= k[2])
      BY <1>4, <1>5, <1>6
  <2> QED BY <1>2, <2>1, <2>2 DEF Later
<1>7. ASSUME Start(k) = Start(l) PROVE k = l
  <2>1. ~(l[1] < k[1]) /\ ~(k[1] < l[1])
      BY <1>3, <1>5, <1>7
  <2>2. l[1] = k[1]
      BY <1>2, <2>1
  <2>3. ~(l[2] < k[2]) /\ ~(k[2] < l[2])
      BY <1>4, <1>5, <1>7, <2>2
  <2>4. l[2] = k[2]
      BY <1>2, <2>3
  <2> QED BY <1>2, <2>2, <2>4
<1> QED BY <1>6, <1>7

\* An address lies in one block only.
LEMMA OneBlock ==
    ASSUME RegionsSound, NEW k \in Blocks, NEW l \in Blocks, NEW x \in Nat,
           Start(k) <= x, x < Start(k) + page_size, Start(l) <= x, x < Start(l) + page_size
    PROVE  k = l
<1>1. /\ Start(k) \in Nat /\ Start(k) % page_size = 0
      /\ Start(l) \in Nat /\ Start(l) % page_size = 0
    BY BlockIs
<1>2. x \div page_size = Start(k) \div page_size /\ x \div page_size = Start(l) \div page_size
    BY <1>1, PageIs
<1>3. Start(k) = page_size * (Start(k) \div page_size)
      /\ Start(l) = page_size * (Start(l) \div page_size)
  <2>1. page_size \in Nat \ {0}
      BY GeometryAssumption
  <2>2. \A y \in Nat : y % page_size = 0 => y = page_size * (y \div page_size)
      BY <2>1, Z3
  <2> QED BY <1>1, <2>2
<1>4. Start(k) = Start(l)
    BY <1>2, <1>3
<1> QED BY <1>4, BlocksOrdered

\* Every byte of a region lies in a block.
LEMMA RegionsCovered ==
    ASSUME RegionsSound, NEW b \in InRegions
    PROVE  \E k \in Blocks : b \in Nat /\ Start(k) <= b /\ b < Start(k) + page_size
<1>1. PICK i \in DOMAIN region_info : b \in region_info[i].start .. region_info[i].end
    BY DEF InRegions
<1> DEFINE p == page_size
           s == region_info[i].start
           e == region_info[i].end + 1
<1>3. p \in Nat \ {0} /\ s \in Nat /\ e \in Nat /\ s % p = 0 /\ e % p = 0
    BY GeometryAssumption DEF RegionsSound
<1>4. b \in Nat /\ s <= b /\ b < e
  <2>1. region_info[i].end \in Nat
      BY DEF RegionsSound
  <2> HIDE DEF s
  <2>2. b \in s .. region_info[i].end
      BY <1>1 DEF s
  <2> QED BY <1>3, <2>1, <2>2
<1> DEFINE q == (b - s) \div p
           k == <<i, q + 1>>
<1> HIDE DEF p, s, e
<1>5. b - s = p * q + ((b - s) % p) /\ (b - s) % p \in 0 .. p - 1 /\ q \in Nat
    BY <1>3, <1>4, Z3
<1>6. p * q = q * p /\ q * p \in Nat
    BY <1>3, <1>5, Z3
<1>7. s + q * p <= b /\ b < s + q * p + p
    BY <1>3, <1>4, <1>5, <1>6
<1>8. q + 1 <= (e - s) \div p
  <2>1. s = p * (s \div p) /\ e = p * (e \div p) /\ s \div p \in Nat /\ e \div p \in Nat
      BY <1>3, Z3
  <2> DEFINE x == s \div p
             y == e \div p
  <2> HIDE DEF x, y
  <2>2. s = p * x /\ e = p * y /\ x \in Nat /\ y \in Nat
      BY <2>1 DEF x, y
  <2>3. e - s = p * (y - x) /\ y - x \in Int
      BY <1>3, <2>2, Z3
  <2>4. e - s \in Nat /\ p * q < e - s
      BY <1>3, <1>4, <1>6, <1>7
  <2>5. q < y - x
    <3>1. ASSUME y - x <= q PROVE FALSE
      <4>1. p * (y - x) <= p * q
          BY <1>3, <1>5, <2>3, <3>1, Z3
      <4> QED BY <1>6, <2>3, <2>4, <4>1
    <3> QED BY <1>5, <2>3, <3>1
  <2>6. \A j \in Nat : (p * j) \div p = j
      BY <1>3, Z3
  <2>7. y - x \in Nat
      BY <1>5, <2>3, <2>5
  <2>8. (e - s) \div p = y - x
      BY <2>3, <2>6, <2>7
  <2> QED BY <1>5, <2>5, <2>7, <2>8
<1> HIDE DEF q
<1>9. k \in {i} \X (1 .. NumberOfBlocks(i))
  <2>1. NumberOfBlocks(i) = (e - s) \div p
      BY DEF NumberOfBlocks, p, e, s
  <2>2. (e - s) \div p \in Int
      BY <1>3, Z3
  <2>3. q + 1 \in 1 .. NumberOfBlocks(i)
      BY <1>5, <1>8, <2>1, <2>2
  <2> QED BY <2>3
<1>10. k \in Blocks
    BY <1>9 DEF Blocks
<1>11. Start(k) = s + q * p
    BY <1>5 DEF Start, s, p
<1> QED BY <1>4, <1>7, <1>10, <1>11 DEF p
-----------------------------------------------------------------------------
(* OnchipFlash: the flash ends an operation                                *)

\* The bytes a call is about are all in the flash.
LEMMA ReachIs ==
    ASSUME LeftOver
    PROVE  /\ Asked = First .. Past - 1 /\ Asked \subseteq Bytes /\ First \in Nat /\ Past \in Nat
           /\ First <= Past /\ Past <= length
           /\ asked.name = "write" => \A a \in Asked : Page(a) \subseteq Reach
           /\ asked.name \in {"write", "write_block"} => Asked \subseteq Reach
           /\ asked.name = "write_block" => Reach = Asked
           /\ asked.name = "erase_block" => Reach = Page(asked.offset)
<1>1. First \in Nat /\ Len(asked.data) \in Nat /\ Past <= length /\ length \in Nat
    BY GeometryAssumption DEF LeftOver, First
<1>2. Asked = First .. Past - 1 /\ Asked \subseteq Bytes /\ Past \in Nat /\ First <= Past
    BY <1>1 DEF Asked, First, Past, Bytes
<1>3. asked.name = "write" => Reach = UNION {Page(b) : b \in Asked}
    BY DEF Reach
<1>4. asked.name = "write_block" => Reach = Asked
    BY DEF Reach
<1>5. asked.name = "erase_block" => Reach = Page(asked.offset)
    BY DEF Reach
<1>6. \A b \in Asked : b \in Page(b)
    BY <1>2 DEF Page
<1>7. asked.name = "write" => (\A a \in Asked : Page(a) \subseteq Reach) /\ Asked \subseteq Reach
    BY <1>3, <1>6
<1> QED BY <1>1, <1>2, <1>4, <1>5, <1>7

\* Where what is programmed ends.
LEMMA HiIs ==
    ASSUME RegionsSound, LeftOver, WriteSound, pc # "scan"
    PROVE  /\ Hi \in Nat /\ call.offset \in Nat /\ call.offset <= Hi /\ Hi <= Past
           /\ asked.name = "write" =>
                 /\ Hi = call.offset + Done(block) /\ Done(block) \in Nat \ {0} /\ Done(block) <= Len(call.data)
                 /\ Hi <= Start(block) + page_size
                 /\ Start(block) <= call.offset
                 /\ Hi < Past => Hi = Start(block) + page_size
<1>1. /\ call.offset \in First .. Past /\ Len(call.data) = Past - call.offset
      /\ call.data \in Seq({0, 1}) /\ First \in Nat /\ Past \in Nat /\ Len(call.data) \in Nat
    BY ReachIs DEF LeftOver
<1>2. CASE asked.name = "write"
  <2>1. /\ block \in Blocks /\ Start(block) <= call.offset /\ call.offset < Start(block) + page_size
        /\ call.data # <<>>
      BY <1>2 DEF WriteSound
  <2>2. Start(block) \in Nat /\ page_size \in Nat
      BY <2>1, BlockIs, GeometryAssumption
  <2>3. Len(call.data) # 0
      BY <1>1, <2>1
  <2>4. Hi = call.offset + Done(block)
      BY <1>2 DEF Hi
  <2>5. Done(block) = IF (Start(block) + page_size) - call.offset < Len(call.data)
               THEN (Start(block) + page_size) - call.offset ELSE Len(call.data)
      BY DEF Done, Min2, BlockEnd
  <2>6. ASSUME NEW o \in Nat, NEW size \in Nat \ {0}, NEW s \in Nat, NEW p \in Nat, NEW d, o < s + p,
               d = IF (s + p) - o < size THEN (s + p) - o ELSE size
        PROVE  /\ d \in Nat \ {0} /\ d <= size /\ o + d <= s + p
               /\ d < size => o + d = s + p
      BY <2>6
  <2>7. call.offset \in Nat /\ Len(call.data) \in Nat \ {0}
      BY <1>1, <2>3
  <2>8. /\ Done(block) \in Nat \ {0} /\ Done(block) <= Len(call.data) /\ call.offset + Done(block) <= Start(block) + page_size
        /\ Done(block) < Len(call.data) => call.offset + Done(block) = Start(block) + page_size
      BY <2>1, <2>2, <2>5, <2>6, <2>7
  <2> HIDE DEF Hi, Done, Start
  <2> QED BY <1>1, <2>1, <2>4, <2>7, <2>8
<1>3. CASE asked.name # "write"
    BY <1>1, <1>3 DEF Hi
<1> QED BY <1>2, <1>3

LEMMA RegionsStay == ASSUME RegionsSound, region_info' = region_info PROVE RegionsSound'
BY DEF RegionsSound

\* What the operators are about that a step leaves alone.
LEMMA SameCall ==
    ASSUME UNCHANGED <<call, block, asked, before, region_info>>
    PROVE  /\ Hi' = Hi /\ Reach' = Reach /\ Asked' = Asked /\ First' = First /\ Past' = Past
           /\ ErasedAt' = ErasedAt /\ Blocks' = Blocks /\ Start(block)' = Start(block)
           /\ \A k : Start(k)' = Start(k) /\ BlockEnd(k)' = BlockEnd(k) /\ Done(k)' = Done(k)
           /\ \A b : Old(b)' = Old(b) /\ New(b)' = New(b)
<1>1. \A i : NumberOfBlocks(i)' = NumberOfBlocks(i)
    BY DEF NumberOfBlocks
<1>2. Blocks' = Blocks /\ Start(block)' = Start(block)
    BY <1>1 DEF Blocks, Start
<1>a. \A k : Start(k)' = Start(k) /\ BlockEnd(k)' = BlockEnd(k) /\ Done(k)' = Done(k)
  <2>1. \A k : Start(k)' = Start(k)
      BY DEF Start
  <2> QED BY <2>1 DEF BlockEnd, Done
<1>3. Asked' = Asked /\ First' = First /\ Past' = Past
    BY DEF Asked, First, Past
<1>4. Reach' = Reach
    BY <1>3 DEF Reach
<1>5. Hi' = Hi /\ ErasedAt' = ErasedAt
    BY <1>2, <1>3, <1>a DEF Hi, ErasedAt
<1>6. \A b : Old(b)' = Old(b) /\ New(b)' = New(b)
    BY <1>3 DEF Old, New
<1> QED BY <1>2, <1>3, <1>4, <1>5, <1>6, <1>a

\* The minimum of two bits.
LEMMA Bits ==
    /\ \A x \in {0, 1}, y \in {0, 1} : Min2(x, y) \in {0, 1}
    /\ \A x \in {0, 1} : Min2(x, 1) = x /\ Min2(1, x) = x
BY DEF Min2

\* What an operation leaves alone when it ends.
LEMMA Effect ==
    ASSUME FlashTyped, Complete
    PROVE  /\ busy' = Idle
           /\ \A b \in Bytes : memory'[b] \in {0, 1} /\ memory[b] \in {0, 1}
           /\ memory' \in [Bytes -> {0, 1}] /\ status' \in [erase : BOOLEAN, write : BOOLEAN]
           /\ busy.op = "erase" =>
                 /\ status'.erase => \A b \in Page(busy.at) : memory'[b] = 1
                 /\ \A b \in Bytes \ Page(busy.at) : memory'[b] = memory[b]
                 /\ status'.write = status.write
           /\ busy.op = "write" =>
                 /\ \A b \in Bytes : b \notin busy.at .. busy.at + DATA_ALIGN_SIZE - 1
                                        => memory'[b] = memory[b]
                 /\ \A b \in Bytes : /\ b \in busy.at .. busy.at + DATA_ALIGN_SIZE - 1
                                     /\ status'.write
                        => memory'[b] = Min2(memory[b], busy.data[b - busy.at + 1])
                 /\ \A b \in Bytes : /\ b \in busy.at .. busy.at + DATA_ALIGN_SIZE - 1
                                     /\ busy.data[b - busy.at + 1] = 1
                        => memory'[b] = memory[b]
                 /\ status'.erase = status.erase
<1>1. PICK passed \in BOOLEAN, worked \in BOOLEAN :
          /\ passed => worked
          /\ status' = IF busy.op = "erase" THEN [status EXCEPT !.erase = passed]
                                            ELSE [status EXCEPT !.write = passed]
          /\ memory' = IF ~worked THEN memory
                       ELSE IF busy.op = "erase" THEN [b \in Bytes |-> Erased(b)]
                       ELSE [b \in Bytes |-> Programmed(b)]
    BY DEF Complete
<1>2. /\ memory \in [Bytes -> {0, 1}] /\ status \in [erase : BOOLEAN, write : BOOLEAN]
      /\ busy.op \in {"erase", "write"} /\ busy.at \in Nat /\ busy' = Idle
      /\ busy.op = "write" => busy.data \in [1 .. DATA_ALIGN_SIZE -> {0, 1}]
    BY DEF FlashTyped, Complete
<1>3. \A b \in Bytes : Erased(b) \in {0, 1}
    BY <1>2 DEF Erased
<1>w. ASSUME NEW b \in Bytes, b \in busy.at .. busy.at + DATA_ALIGN_SIZE - 1
      PROVE  b - busy.at + 1 \in 1 .. DATA_ALIGN_SIZE /\ (b - busy.at) + 1 = b - busy.at + 1
    BY <1>2, <1>w, GeometryAssumption DEF Bytes
<1>4. ASSUME busy.op = "write", NEW b \in Bytes
      PROVE  Programmed(b) \in {0, 1}
    BY <1>2, <1>4, <1>w, Bits DEF Programmed
<1>5. memory' \in [Bytes -> {0, 1}]
    BY <1>1, <1>2, <1>3, <1>4
<1>6. status' \in [erase : BOOLEAN, write : BOOLEAN]
    BY <1>1, <1>2
<1>7. CASE busy.op = "erase"
  <2>1. status'.erase = passed /\ status'.write = status.write
      BY <1>1, <1>2, <1>7
  <2>2. \A b \in Bytes : memory'[b] = IF worked THEN Erased(b) ELSE memory[b]
      BY <1>1, <1>7
  <2>3. status'.erase => \A b \in Page(busy.at) : memory'[b] = 1
      BY <1>1, <2>1, <2>2 DEF Erased, Page
  <2>4. \A b \in Bytes \ Page(busy.at) : memory'[b] = memory[b]
      BY <2>2 DEF Erased
  <2> QED BY <1>2, <1>5, <1>6, <1>7, <2>1, <2>3, <2>4
<1>8. CASE busy.op = "write"
  <2>1. status'.write = passed /\ status'.erase = status.erase
      BY <1>1, <1>2, <1>8
  <2>2. \A b \in Bytes : memory'[b] = IF worked THEN Programmed(b) ELSE memory[b]
      BY <1>1, <1>8
  <2>3. \A b \in Bytes : b \notin busy.at .. busy.at + DATA_ALIGN_SIZE - 1 => memory'[b] = memory[b]
      BY <2>2 DEF Programmed
  <2>4. ASSUME NEW b \in Bytes, b \in busy.at .. busy.at + DATA_ALIGN_SIZE - 1
        PROVE  /\ status'.write => memory'[b] = Min2(memory[b], busy.data[b - busy.at + 1])
               /\ busy.data[b - busy.at + 1] = 1 => memory'[b] = memory[b]
    <3>1. Programmed(b) = Min2(memory[b], busy.data[b - busy.at + 1])
        BY <2>4 DEF Programmed
    <3>2. memory[b] \in {0, 1}
        BY <1>2
    <3> QED BY <1>1, <2>1, <2>2, <3>1, <3>2, Bits
  <2> QED BY <1>2, <1>5, <1>6, <1>8, <2>1, <2>3, <2>4
<1> QED BY <1>2, <1>7, <1>8

\* An operation ends while a call is in progress.
LEMMA CompletesInCall ==
    ASSUME FlashInv, Complete, pc # "ready"
    PROVE  /\ WriteSound' /\ EraseSound' /\ ProgramSound' /\ Harmless'
<1>1. /\ RegionsSound /\ FlashTyped /\ LeftOver /\ CallSound /\ WriteSound /\ EraseSound
      /\ ChunkSound /\ ProgramSound /\ Harmless
    BY DEF FlashInv
<1>2. UNCHANGED <<pc, call, block, chunk, asked, before, region_info>> /\ busy.op # "idle"
    BY DEF Complete, fixed, frame, history
<1>3. /\ Hi' = Hi /\ Reach' = Reach /\ Asked' = Asked /\ First' = First /\ Past' = Past
      /\ ErasedAt' = ErasedAt /\ Blocks' = Blocks /\ Start(block)' = Start(block)
      /\ \A b : Old(b)' = Old(b) /\ New(b)' = New(b)
    BY <1>2, SameCall
<1>4. busy.op \in {"erase", "write"} /\ busy.at \in Nat /\ busy # Idle
  <2>1. busy.op \in {"idle", "erase", "write"} /\ busy.at \in Nat
      BY <1>1 DEF FlashTyped
  <2>2. Idle.op = "idle"
      BY DEF Idle
  <2> QED BY <1>2, <2>1, <2>2
<1>5. DATA_ALIGN_SIZE \in Nat \ {0} /\ length \in Nat
    BY GeometryAssumption
<1>6. /\ Asked = First .. Past - 1 /\ Asked \subseteq Bytes /\ First \in Nat /\ Past \in Nat
      /\ First <= Past /\ Past <= length
      /\ asked.name \in {"write", "write_block"} => Asked \subseteq Reach
    BY <1>1, ReachIs
<1>7. asked.idle => pc \in Erasing \/ pc = "write_wait"
    BY <1>1, <1>4 DEF Harmless
<1>c. call.offset \in First .. Past
    BY <1>1 DEF LeftOver
\* A byte that is not to be programmed is not by a write, and none but the page by an erase.
<1>8. ASSUME NEW b \in Bytes, pc \in Erasing, b \notin Page(ErasedAt)
      PROVE  memory'[b] = memory[b]
    BY <1>1, <1>4, <1>8, Effect DEF EraseSound
<1>9. ASSUME NEW b \in Bytes, pc = "write_wait", b \notin call.offset .. Hi - 1
      PROVE  memory'[b] = memory[b]
    BY <1>1, <1>4, <1>9, Effect DEF ProgramSound
<1>10. WriteSound'
  <2>1. CASE asked.name # "write"
      BY <1>2, <2>1 DEF WriteSound
  <2>2. CASE asked.name = "write"
    <3>1. ASSUME asked.fresh, NEW b \in First .. call.offset - 1
          PROVE  memory'[b] = memory[b]
      <4>1. b \in Bytes /\ b \in Nat /\ b < call.offset /\ call.offset # First
          BY <1>5, <1>6, <1>c, <3>1 DEF Bytes
      <4>2. CASE pc \in Erasing
        <5>1. block \in Blocks /\ call.offset = Start(block) /\ ErasedAt = Start(block)
            BY <1>1, <2>2, <4>1, <4>2 DEF WriteSound, ErasedAt, Erasing
        <5>2. Page(ErasedAt) = {x \in Bytes : Start(block) <= x /\ x < Start(block) + page_size}
              /\ Start(block) \in Nat
            BY <1>1, <5>1, BlockIs, PageIs
        <5> QED BY <1>8, <4>1, <4>2, <5>1, <5>2
      <4>3. CASE pc = "write_wait"
        <5>1. b \notin call.offset .. Hi - 1
            BY <1>6, <1>c, <4>1
        <5> QED BY <1>9, <4>1, <4>3, <5>1
      <4>4. asked.idle
          BY <1>1, <3>1 DEF LeftOver
      <4> QED BY <1>7, <4>2, <4>3, <4>4
    <3>2. asked.fresh => \A b \in First .. call.offset - 1 : memory'[b] = asked.data[b - First + 1]
        BY <1>1, <2>2, <3>1 DEF WriteSound
    <3> QED BY <1>1, <1>2, <1>3, <2>2, <3>2 DEF WriteSound
  <2> QED BY <2>1, <2>2
<1>11. EraseSound'
  <2>1. ASSUME pc \in Erasing
        PROVE  status'.erase => \A b \in Page(ErasedAt) : memory'[b] = 1
      BY <1>1, <1>4, <2>1, Effect DEF EraseSound
  <2>2. busy' = Idle /\ \A x : Page(x)' = Page(x)
      BY DEF Complete, Page, Bytes
  <2> QED BY <1>2, <1>3, <2>1, <2>2 DEF EraseSound
<1>12. ProgramSound'
  <2>1. busy' = Idle
      BY DEF Complete
  <2>2. ASSUME pc = "write_idle", asked.name = "write" \/ asked.idle PROVE FALSE
      BY <1>1, <1>4, <2>2 DEF ProgramSound
  <2>3. pc # "write_word" /\ pc # "write_check"
      BY <1>1, <1>4 DEF ProgramSound
  <2>4. ASSUME pc = "write_wait", asked.name = "write" \/ asked.idle, NEW b \in call.offset .. Hi - 1
        PROVE  /\ b >= chunk.at => memory'[b] = Old(b)
               /\ b < chunk.at - DATA_ALIGN_SIZE => memory'[b] = New(b)
               /\ b < chunk.at /\ b >= chunk.at - DATA_ALIGN_SIZE /\ status'.write => memory'[b] = New(b)
    <3>1. /\ Hi \in Nat /\ call.offset \in Nat /\ Hi <= Past
        BY <1>1, <2>4, HiIs
    <3>2. b \in Bytes /\ b \in Nat
        BY <1>5, <1>6, <3>1 DEF Bytes
    <3>3. chunk.at \in Nat
        BY <1>1, <2>4 DEF ChunkSound, Programming
    <3>4. busy.op = "write" /\ busy.at = chunk.at - DATA_ALIGN_SIZE
        BY <1>1, <1>4, <2>4 DEF ProgramSound
    <3>5. /\ b >= chunk.at => memory[b] = Old(b)
          /\ b < chunk.at - DATA_ALIGN_SIZE => memory[b] = New(b)
          /\ b < chunk.at /\ b >= chunk.at - DATA_ALIGN_SIZE =>
                Min2(memory[b], busy.data[b - busy.at + 1]) = New(b)
        BY <1>1, <1>4, <2>4 DEF ProgramSound
    <3>6. /\ b >= chunk.at => b \notin busy.at .. busy.at + DATA_ALIGN_SIZE - 1
          /\ b < chunk.at - DATA_ALIGN_SIZE => b \notin busy.at .. busy.at + DATA_ALIGN_SIZE - 1
          /\ b < chunk.at /\ b >= chunk.at - DATA_ALIGN_SIZE
                => b \in busy.at .. busy.at + DATA_ALIGN_SIZE - 1
        BY <1>5, <3>2, <3>3, <3>4
    <3> QED BY <1>1, <3>2, <3>4, <3>5, <3>6, Effect
  <2> QED BY <1>2, <1>3, <2>1, <2>2, <2>3, <2>4 DEF ProgramSound
<1>13. Harmless'
  <2> SUFFICES ASSUME asked.idle PROVE Harmless'
      BY <1>2 DEF Harmless
  <2>1. busy'.op = "idle" /\ Bytes' = Bytes
      BY DEF Complete, Idle, Bytes
  <2>2. ASSUME NEW b \in Bytes \ Reach
        PROVE  memory'[b] = memory[b]
    <3>1. CASE busy.op = "erase"
      <4>1. Page(busy.at) \subseteq Reach
          BY <1>1, <3>1 DEF Harmless
      <4> QED BY <1>1, <3>1, <4>1, Effect
    <3>2. CASE busy.op = "write"
      <4>1. pc = "write_wait"
          BY <1>1, <3>2 DEF Harmless
      <4>2. asked.name \in {"write", "write_block"}
          BY <1>1, <4>1 DEF CallSound, Erasing
      <4>3. b \notin call.offset .. Hi - 1
        <5>1. Hi \in Nat /\ Hi <= Past /\ call.offset \in Nat
            BY <1>1, <4>1, HiIs
        <5>2. call.offset .. Hi - 1 \subseteq Asked
            BY <1>6, <1>c, <5>1
        <5> QED BY <1>6, <4>2, <5>2
      <4> QED BY <1>9, <4>1, <4>3
    <3> QED BY <1>4, <3>1, <3>2
  <2> QED BY <1>1, <1>2, <1>3, <2>1, <2>2 DEF Harmless
<1> QED BY <1>10, <1>11, <1>12, <1>13

LEMMA FlashCompletes == ASSUME FlashInv, Complete PROVE FlashInv'
<1>1. RegionsSound /\ FlashTyped
    BY DEF FlashInv
<1>2. UNCHANGED <<pc, call, block, chunk, asked, before, region_info, protected>>
    BY DEF Complete, fixed, frame, history
<1>3. FlashTyped'
  <2>1. Idle.op = "idle" /\ Idle.at = 0
      BY DEF Idle
  <2>2. /\ memory' \in [Bytes -> {0, 1}] /\ status' \in [erase : BOOLEAN, write : BOOLEAN]
        /\ busy' = Idle
      BY <1>1, Effect
  <2> QED BY <1>1, <1>2, <2>1, <2>2 DEF FlashTyped, Bytes
<1>4. ASSUME pc # "ready"
      PROVE  LeftOver' /\ CallSound' /\ ChunkSound'
  <2>1. /\ Hi' = Hi /\ First' = First /\ Past' = Past
      BY <1>2, SameCall
  <2>2. LeftOver /\ CallSound /\ ChunkSound
      BY <1>4 DEF FlashInv
  <2> QED BY <1>2, <2>1, <2>2 DEF LeftOver, CallSound, ChunkSound
<1> QED BY <1>1, <1>2, <1>3, <1>4, RegionsStay, CompletesInCall DEF FlashInv

-----------------------------------------------------------------------------
(* OnchipFlash: the steps of the driver                                    *)

\* A call that has returned leaves nothing to be kept but the types.
LEMMA LeaveKeeps ==
    ASSUME FlashInv, UNCHANGED <<memory, busy, status, region_info>>, NEW code, NEW cached,
           Leave(code, cached), protected'
    PROVE  FlashInv'
<1>1. RegionsSound' /\ pc' = "ready" /\ block' = NoBlock
    BY RegionsStay DEF FlashInv, Leave
<1>2. before' \in [Bytes -> {0, 1}]
    BY DEF Leave, Blank
<1>3. FlashTyped'
    BY <1>1, <1>2 DEF FlashInv, FlashTyped, Bytes, Erasing, Programming
<1> QED BY <1>1, <1>3 DEF FlashInv

LEMMA ReturnKeeps ==
    ASSUME FlashInv, UNCHANGED <<memory, busy, status, region_info>>, NEW code, Return(code), protected'
    PROVE  FlashInv'
BY LeaveKeeps DEF Return

\* A call that begins.
LEMMA BeginKeeps ==
    ASSUME FlashInv, pc = "ready", UNCHANGED <<memory, busy, status, protected, region_info, block>>,
           NEW name \in {"write", "write_block", "erase_block"}, NEW offset \in Nat,
           NEW data \in Seq({0, 1}), NEW label, Begin(name, offset, data, label),
           offset < length, offset + Len(data) <= length,
           \/ name = "write" /\ label = "scan"
           \/ /\ name = "write_block" /\ label = "write_idle"
              /\ chunk' = [at |-> offset, data |-> data]
           \/ /\ name = "erase_block" /\ label = "erase_idle"
              /\ data = <<>> /\ offset % page_size = 0
    PROVE  FlashInv'
<1>1. /\ RegionsSound /\ FlashTyped /\ block = NoBlock
    BY DEF FlashInv
<1>2. /\ pc' = label /\ before' = memory /\ memory' = memory /\ busy' = busy /\ status' = status
      /\ call'.name = name /\ call'.offset = offset /\ call'.data = data
      /\ asked'.name = name /\ asked'.offset = offset /\ asked'.data = data
      /\ asked'.idle = (busy = Idle)
    BY DEF Begin
<1>a. asked'.fresh => asked'.idle
    BY DEF Begin
<1>3. label \in {"scan", "write_idle", "erase_idle"}
    OBVIOUS
<1>4. FlashTyped' /\ RegionsSound' /\ block' = NoBlock
    BY <1>1, <1>2, <1>3, RegionsStay DEF FlashTyped, Bytes, Erasing, Programming
<1>5. Len(data) \in Nat /\ length \in Nat /\ DATA_ALIGN_SIZE \in Nat
    BY GeometryAssumption
<1>6. First' = offset /\ Past' = offset + Len(data)
    BY <1>2 DEF First, Past
<1>7. LeftOver'
  <2>1. asked'.idle \in BOOLEAN /\ (asked'.fresh => asked'.idle)
        /\ call' \in [name : {"write", "write_block", "erase_block"}, offset : Nat, data : Seq({0, 1})]
      BY <1>2, <1>a DEF Begin
  <2>2. call'.offset \in First' .. Past' /\ Len(call'.data) = Past' - call'.offset
    <3>1. \A x, first, past, len :
              x = offset /\ first = offset /\ past = offset + Len(data) /\ len = Len(data)
                  => x \in first .. past /\ len = past - x
        BY <1>5
    <3>2. Len(call'.data) = Len(data)
        BY <1>2
    <3> QED BY <1>2, <1>6, <3>1, <3>2, Zenon
  <2>3. \A i \in 1 .. Len(call'.data) : call'.data[i] = asked'.data[call'.offset - First' + i]
    <3>1. \A i \in 1 .. Len(data) : offset - offset + i = i
        BY <1>5
    <3> QED BY <1>2, <1>6, <3>1
  <2> QED BY <1>2, <1>5, <1>6, <2>1, <2>2, <2>3 DEF LeftOver
<1>8. CallSound'
    BY <1>2, <1>3, <1>6 DEF CallSound, Erasing, Programming
<1>9. WriteSound'
  <2> SUFFICES ASSUME name = "write" PROVE WriteSound'
      BY <1>2 DEF WriteSound
  <2>1. pc' = "scan" /\ block' = NoBlock /\ call'.offset = First'
      BY <1>2, <1>4, <1>6
  <2>2. First' .. call'.offset - 1 = {}
      BY <1>2, <1>6
  <2> QED BY <2>1, <2>2 DEF WriteSound
<1>10. EraseSound'
    BY <1>2, <1>3 DEF EraseSound, Erasing
<1>11. ChunkSound'
  <2> SUFFICES ASSUME name = "write_block" PROVE ChunkSound'
      BY <1>2, <1>3 DEF ChunkSound, Programming
  <2>1. Hi' = Past' /\ chunk'.at = offset /\ chunk'.data = data
      BY <1>2 DEF Hi
  <2>2. Len(chunk'.data) = IF chunk'.at <= Hi' THEN Hi' - chunk'.at ELSE 0
      BY <1>5, <1>6, <2>1
  <2>3. \A i \in 1 .. Len(data) : offset - offset + i = i
      BY <1>5
  <2> QED BY <1>2, <1>6, <2>1, <2>2, <2>3 DEF ChunkSound, Programming
<1>12. ProgramSound'
  <2> SUFFICES ASSUME name = "write_block" PROVE ProgramSound'
      BY <1>2, <1>3 DEF ProgramSound, Programming
  <2>1. pc' = "write_idle" /\ Hi' = Past'
      BY <1>2 DEF Hi
  <2>2. ASSUME asked'.idle
        PROVE  busy' = Idle /\ \A b \in call'.offset .. Hi' - 1 : memory'[b] = Old(b)'
      BY <1>2, <2>2 DEF Old
  <2> QED BY <1>2, <2>1, <2>2 DEF ProgramSound
<1>13. Harmless'
  <2>1. asked'.idle => busy'.op = "idle"
    <3>1. Idle.op = "idle"
        BY DEF Idle
    <3> QED BY <1>2, <3>1, Zenon
  <2>2. \A b : memory'[b] = before'[b]
      BY <1>2
  <2> QED BY <2>1, <2>2 DEF Harmless
<1> QED BY <1>4, <1>7, <1>8, <1>9, <1>10, <1>11, <1>12, <1>13, <1>2, <1>3 DEF FlashInv

\* What a program calls.
LEMMA CallKeeps ==
    ASSUME FlashInv, Call
    PROVE  FlashInv'
<1>1. pc = "ready" /\ RegionsSound /\ FlashTyped /\ block = NoBlock /\ protected
  <2>1. pc = "ready"
      BY DEF Call, GetInfo, EraseBlock, WriteBlock, Write, Read
  <2> QED BY <2>1 DEF FlashInv, FlashTyped, Erasing, Programming
<1>2. UNCHANGED <<memory, busy, status, protected, region_info>>
    BY DEF Call, GetInfo, EraseBlock, WriteBlock, Write, Read, device, fixed
<1>3. ASSUME NEW code, Return(code) PROVE FlashInv'
    BY <1>1, <1>2, <1>3, ReturnKeeps
<1>4. ASSUME UNCHANGED <<pc, frame, history>> PROVE FlashInv'
  <2>1. pc' = "ready" /\ block' = NoBlock /\ before' = before
      BY <1>1, <1>4 DEF frame, history
  <2>2. RegionsSound' /\ FlashTyped'
      BY <1>1, <1>2, <2>1, RegionsStay DEF FlashTyped, Bytes
  <2> QED BY <2>1, <2>2 DEF FlashInv
<1>5. ASSUME NEW offset \in Offsets, NEW data \in Data
      PROVE  offset \in Nat /\ data \in Seq({0, 1}) /\ length \in Nat /\ Len(data) \in Nat
    BY GeometryAssumption
<1>6. ASSUME NEW offset \in Offsets, EraseBlock(offset) PROVE FlashInv'
  <2>1. CASE EraseRefusal(offset) = "ok"
    <3>1. offset \in Nat /\ <<>> \in Seq({0, 1}) /\ Len(<<>>) = 0 /\ length \in Nat
        BY GeometryAssumption
    <3>2. offset < length /\ offset % page_size = 0
        BY <2>1, <3>1 DEF EraseRefusal
    <3>3. Begin("erase_block", offset, <<>>, "erase_idle") /\ block' = block
        BY <1>6, <2>1 DEF EraseBlock
    <3>4. offset + Len(<<>>) <= length
        BY <3>1, <3>2
    <3> QED BY <1>1, <1>2, <3>1, <3>2, <3>3, <3>4, BeginKeeps
  <2>2. CASE EraseRefusal(offset) # "ok"
    <3>1. Return(EraseRefusal(offset))
        BY <1>6, <2>2 DEF EraseBlock
    <3> QED BY <1>3, <3>1
  <2> QED BY <2>1, <2>2
<1>7. ASSUME NEW offset \in Offsets, NEW data \in Data, WriteBlock(offset, data) PROVE FlashInv'
  <2> DEFINE refusal == WriteRefusal(offset - (offset % page_size), offset, Len(data))
  <2>1. CASE refusal = "ok"
    <3>1. ~OutOfRange(offset, Len(data))
        BY <2>1 DEF WriteRefusal
    <3>2. offset < length /\ offset + Len(data) <= length
        BY <1>5, <3>1 DEF OutOfRange
    <3>3. /\ Begin("write_block", offset, data, "write_idle") /\ block' = block
          /\ chunk' = [at |-> offset, data |-> data]
        BY <1>7, <2>1 DEF WriteBlock
    <3> QED BY <1>1, <1>2, <1>5, <3>2, <3>3, BeginKeeps
  <2>2. CASE refusal # "ok"
    <3>1. Return(refusal)
        BY <1>7, <2>2 DEF WriteBlock
    <3> QED BY <1>3, <3>1
  <2> QED BY <2>1, <2>2
<1>8. ASSUME NEW offset \in Offsets, NEW data \in Data, Write(offset, data) PROVE FlashInv'
  <2>1. CASE ~OutOfRange(offset, Len(data))
    <3>1. offset < length /\ offset + Len(data) <= length
        BY <1>5, <2>1 DEF OutOfRange
    <3>2. Begin("write", offset, data, "scan") /\ block' = block
        BY <1>8, <2>1 DEF Write
    <3> QED BY <1>1, <1>2, <1>5, <3>1, <3>2, BeginKeeps
  <2>2. CASE OutOfRange(offset, Len(data))
    <3>1. Return("EFAULT")
        BY <1>8, <2>2 DEF Write
    <3> QED BY <1>3, <3>1
  <2> QED BY <2>1, <2>2
<1>9. ASSUME NEW offset \in Offsets, NEW data \in Data, Read(offset, Len(data)) PROVE FlashInv'
    BY <1>4, <1>9 DEF Read
<1>10. ASSUME GetInfo PROVE FlashInv'
    BY <1>4, <1>10 DEF GetInfo
<1> QED BY <1>6, <1>7, <1>8, <1>9, <1>10 DEF Call

\* The end of a sequence of bits.
LEMMA BitsLeft ==
    ASSUME NEW d \in Seq({0, 1}), NEW m \in Nat, m <= Len(d), NEW r, r = SubSeq(d, m + 1, Len(d))
    PROVE  r \in Seq({0, 1}) /\ Len(r) = Len(d) - m /\ \A i \in 1 .. Len(r) : r[i] = d[m + i]
<1>1. Len(d) \in Nat /\ m + 1 \in Nat /\ m + 1 \in 1 .. Len(d) + 1
    OBVIOUS
<1>2. r = [i \in 1 .. ((Len(d) - (m + 1)) + 1) |-> d[(m + 1) + i - 1]]
    BY <1>1
<1>3. (Len(d) - (m + 1)) + 1 = Len(d) - m
    BY <1>1
<1>4. \A i \in 1 .. Len(d) - m : (m + 1) + i - 1 = m + i /\ m + i \in 1 .. Len(d)
    BY <1>1
<1>5. r = [i \in 1 .. Len(d) - m |-> d[m + i]] /\ \A i \in 1 .. Len(d) - m : d[m + i] \in {0, 1}
    BY <1>1, <1>2, <1>3, <1>4
<1>6. Len(d) - m \in Nat
    BY <1>1
<1> QED BY <1>5, <1>6

\* A write leaves the bytes of a block behind it.
LEMMA MovedOn ==
    ASSUME LeftOver, NEW e \in Nat, NEW m \in Nat, e = call.offset + m, m < Len(call.data),
           call' = [call EXCEPT !.offset = e, !.data = SubSeq(@, m + 1, Len(@))],
           asked' = asked
    PROVE  /\ LeftOver' /\ call'.data # <<>> /\ call'.offset = e /\ call'.name = call.name
<1>1. /\ call \in [name : {"write", "write_block", "erase_block"}, offset : Nat, data : Seq({0, 1})]
      /\ call.offset \in First .. Past /\ Len(call.data) = Past - call.offset
      /\ \A i \in 1 .. Len(call.data) : call.data[i] = asked.data[call.offset - First + i]
    BY DEF LeftOver
<1>2. First \in Nat /\ Past \in Nat
    BY ReachIs
<1>3. First' = First /\ Past' = Past
    BY DEF First, Past
<1>4. PICK r : r = SubSeq(call.data, m + 1, Len(call.data))
    OBVIOUS
<1>5. /\ call'.offset = e /\ call'.data = r /\ call'.name = call.name
      /\ call' = [name |-> call.name, offset |-> e, data |-> r]
    BY <1>1, <1>4
<1>6. r \in Seq({0, 1}) /\ Len(r) = Len(call.data) - m /\ \A i \in 1 .. Len(r) : r[i] = call.data[m + i]
    BY <1>1, <1>4, BitsLeft
<1>7. ASSUME NEW first \in Nat, NEW past \in Nat, NEW o \in first .. past, NEW size, size = past - o,
             NEW w, w = size - m, e = o + m, m < size
      PROVE  /\ w # 0 /\ e \in first .. past /\ w = past - e
             /\ \A i \in 1 .. w : m + i \in 1 .. size /\ (o - first) + (m + i) = (e - first) + i
    BY <1>7
<1>8. /\ Len(r) # 0 /\ e \in First .. Past /\ Len(r) = Past - e
      /\ \A i \in 1 .. Len(r) : /\ m + i \in 1 .. Len(call.data)
                                /\ (call.offset - First) + (m + i) = (e - First) + i
    BY <1>1, <1>2, <1>6, <1>7
<1>9. \A i \in 1 .. Len(r) : r[i] = asked.data[e - First + i]
    BY <1>1, <1>6, <1>8
<1>10. r # <<>>
    BY <1>8
<1>11. call' \in [name : {"write", "write_block", "erase_block"}, offset : Nat, data : Seq({0, 1})]
    BY <1>1, <1>5, <1>6
<1>12. call'.offset \in First' .. Past' /\ Len(call'.data) = Past' - call'.offset
    BY <1>3, <1>5, <1>8, Zenon
<1>13. \A i \in 1 .. Len(call'.data) : call'.data[i] = asked'.data[call'.offset - First' + i]
    BY <1>3, <1>5, <1>9, Zenon
<1>14. asked'.offset < length /\ Past' <= length
    BY <1>3, Zenon DEF LeftOver
<1> QED BY <1>5, <1>10, <1>11, <1>12, <1>13, <1>14 DEF LeftOver

\* The choices of Scan.  A block that is found is the only one that the offset is in.
LEMMA BlockFound ==
    ASSUME RegionsSound, call.offset \in Nat, NEW k,
           k = CHOOSE x \in Next_Blocks : \A l \in Next_Blocks : ~Later(x, l),
           Next_Blocks # {}
    PROVE  k \in Blocks /\ Start(k) <= call.offset /\ call.offset < Start(k) + page_size
<1>1. PICK x \in Next_Blocks : TRUE
    OBVIOUS
<1>2. ASSUME NEW l \in Next_Blocks PROVE l = x
    BY <1>1, OneBlock DEF Next_Blocks, BlockEnd
<1>3. x \in Blocks /\ x[1] \in Nat /\ x[2] \in Nat
    BY <1>1, BlockIs DEF Next_Blocks
<1>4. ~Later(x, x)
    BY <1>3 DEF Later
<1>5. \A l \in Next_Blocks : ~Later(x, l)
    BY <1>2, <1>4
<1>6. k \in Next_Blocks
    BY <1>5
<1> QED BY <1>6 DEF Next_Blocks, BlockEnd

\* What of the data lies in the block of the offset.
LEMMA DoneIs ==
    ASSUME RegionsSound, LeftOver, NEW k \in Blocks,
           Start(k) <= call.offset, call.offset < Start(k) + page_size
    PROVE  /\ Done(k) \in Nat /\ Done(k) <= Len(call.data) /\ Len(call.data) \in Nat
           /\ call.offset + Done(k) <= BlockEnd(k)
           /\ Done(k) # Len(call.data) =>
                 /\ Done(k) < Len(call.data) /\ BlockEnd(k) = call.offset + Done(k)
           /\ call.data # <<>> => Done(k) # 0
           /\ BlockEnd(k) \in Nat /\ Start(k) \in Nat /\ page_size \in Nat \ {0}
           /\ call.offset \in Nat
<1>1. /\ call.offset \in Nat /\ call.data \in Seq({0, 1}) /\ Len(call.data) \in Nat
      /\ Start(k) \in Nat /\ page_size \in Nat \ {0} /\ BlockEnd(k) = Start(k) + page_size
    BY BlockIs, GeometryAssumption DEF LeftOver, BlockEnd
<1>2. Done(k) = IF BlockEnd(k) - call.offset < Len(call.data)
                THEN BlockEnd(k) - call.offset ELSE Len(call.data)
    BY DEF Done, Min2
<1>3. ASSUME NEW s \in Nat, NEW p \in Nat, NEW o \in Nat, NEW size \in Nat, NEW e, NEW d,
             o < s + p, e = s + p, d = IF e - o < size THEN e - o ELSE size
      PROVE  /\ d \in Nat /\ d <= size /\ o + d <= e /\ (d # size => d < size /\ e = o + d)
             /\ (size # 0 => d # 0) /\ e \in Nat
    BY <1>3
<1>4. call.data # <<>> => Len(call.data) # 0
    BY <1>1
<1> HIDE DEF Done, BlockEnd, Start
<1> QED BY <1>1, <1>2, <1>3, <1>4

\* Pages follow one another.
LEMMA PagesFollow ==
    ASSUME NEW x \in Nat, NEW y \in Nat, x % page_size = 0, y % page_size = 0,
           y <= x + page_size, x + page_size < y + page_size
    PROVE  y = x + page_size
<1>1. page_size \in Nat \ {0}
    BY GeometryAssumption
<1>2. (x + page_size) % page_size = 0 /\ x + page_size \in Nat
  <2>1. x = page_size * (x \div page_size) /\ x \div page_size \in Nat
      BY <1>1, Z3
  <2>2. \A q \in Nat : (page_size * (q + 1)) % page_size = 0
      BY <1>1, Z3
  <2>3. \A q \in Nat : page_size * (q + 1) = page_size * q + page_size
      BY <1>1, Z3
  <2>4. x + page_size = page_size * (x \div page_size + 1)
      BY <2>1, <2>3
  <2>5. (page_size * (x \div page_size + 1)) % page_size = 0
      BY <2>1, <2>2
  <2>6. x + page_size \in Nat
      BY <1>1
  <2> QED BY <2>4, <2>5, <2>6, Zenon
<1>3. (x + page_size) \div page_size = y \div page_size
    BY <1>2, PageIs
<1>4. \A z \in Nat : z % page_size = 0 => z = page_size * (z \div page_size)
    BY <1>1, Z3
<1> QED BY <1>2, <1>3, <1>4

\* Nothing of the flash changes, and the call is the same.
LEMMA SameFlash ==
    ASSUME RegionsSound, FlashTyped, UNCHANGED <<memory, before, busy, status, region_info>>,
           pc' \in {"ready", "scan", "erase_idle", "write_idle"} \cup Erasing \cup Programming,
           protected' <=> pc' \notin Erasing \cup Programming
    PROVE  RegionsSound' /\ FlashTyped'
BY RegionsStay DEF FlashTyped, Bytes, Erasing, Programming

\* A write goes on to erase the block that it has found.
LEMMA ScanErases ==
    ASSUME FlashInv, pc = "scan", NEW k \in Blocks,
           Start(k) <= call.offset, call.offset < Start(k) + page_size, ~Same(k),
           block' = k, pc' = "erase_idle",
           UNCHANGED <<device, fixed, protected, call, chunk, ret_code, history>>
    PROVE  FlashInv'
<1>1. /\ RegionsSound /\ FlashTyped /\ LeftOver /\ CallSound /\ WriteSound /\ Harmless
    BY DEF FlashInv
<1>2. UNCHANGED <<memory, busy, status, region_info, call, chunk, asked, before, protected>>
    BY DEF device, fixed, history
<1>3. protected /\ asked.name = "write"
    BY <1>1 DEF FlashTyped, Erasing, Programming, CallSound
<1>4. RegionsSound' /\ FlashTyped'
  <2>1. protected' /\ pc' \notin Erasing \cup Programming
      BY <1>2, <1>3 DEF Erasing, Programming
  <2> QED BY <1>1, <1>2, <2>1, SameFlash
<1>5. First' = First /\ Past' = Past /\ Reach' = Reach /\ Blocks' = Blocks /\ Start(k)' = Start(k)
  <2>1. \A i : NumberOfBlocks(i)' = NumberOfBlocks(i)
      BY <1>2 DEF NumberOfBlocks
  <2>2. First' = First /\ Past' = Past /\ Asked' = Asked
      BY <1>2 DEF First, Past, Asked
  <2> QED BY <1>2, <2>1, <2>2 DEF Blocks, Start, Reach
<1>6. LeftOver' /\ CallSound'
  <2>1. LeftOver'
      BY <1>1, <1>2, <1>5 DEF LeftOver
  <2> QED BY <1>2, <1>3, <2>1 DEF CallSound
<1>7. call.data # <<>>
  <2>1. PICK i \in 1 .. Done(k) : call.data[i] # Seen(call.offset + i - 1)
      BY DEF Same
  <2>2. Done(k) \in Nat /\ Done(k) <= Len(call.data) /\ Len(call.data) \in Nat
      BY <1>1, DoneIs
  <2>3. Len(call.data) # 0
      BY <2>1, <2>2
  <2> QED BY <2>3
<1>8. call.offset = First \/ call.offset = Start(k)
  <2>1. CASE block \in Blocks /\ call.offset = Start(block) + page_size
    <3>1. Start(block) \in Nat /\ Start(block) % page_size = 0
          /\ Start(k) \in Nat /\ Start(k) % page_size = 0
        BY <1>1, <2>1, BlockIs
    <3>2. Start(k) = Start(block) + page_size
        BY <2>1, <3>1, PagesFollow
    <3> QED BY <2>1, <3>2
  <2> QED BY <1>1, <1>3, <2>1 DEF WriteSound
<1>9. WriteSound'
  <2>1. Start(block)' = Start(k)
      BY <1>5 DEF Start
  <2>2. /\ Start(block)' <= call'.offset /\ call'.offset < Start(block)' + page_size
        /\ (call'.offset = First' \/ call'.offset = Start(block)')
        /\ block' \in Blocks' /\ call'.data # <<>>
      BY <1>2, <1>5, <1>7, <1>8, <2>1, Zenon
  <2>3. asked'.fresh =>
            \A b \in First' .. call'.offset - 1 : memory'[b] = asked'.data[b - First' + 1]
      BY <1>1, <1>2, <1>3, <1>5 DEF WriteSound
  <2>4. pc' # "scan"
      OBVIOUS
  <2> QED BY <1>2, <1>5, <1>8, <2>1, <2>2, <2>3, <2>4 DEF WriteSound
<1>10. EraseSound' /\ ChunkSound' /\ ProgramSound'
    BY <1>2 DEF EraseSound, ChunkSound, ProgramSound, Erasing, Programming
<1>11. Harmless'
    BY <1>1, <1>2, <1>5 DEF Harmless, Bytes, Page, Erasing, Programming
<1> QED BY <1>4, <1>6, <1>9, <1>10, <1>11 DEF FlashInv

\* What a block holds already is what it is to hold, unless the cache deceives.
LEMMA SameData ==
    ASSUME LeftOver, FreshAhead, pc = "scan", asked.name = "write", asked.fresh, NEW k, Same(k), Done(k) \in Nat, Done(k) <= Len(call.data),
           NEW b \in Nat, b >= call.offset, b < call.offset + Done(k)
    PROVE  memory[b] = asked.data[b - First + 1]
<1>1. /\ First \in Nat /\ call.offset \in Nat /\ First <= call.offset /\ Len(call.data) \in Nat
      /\ Past \in Nat /\ Len(call.data) = Past - call.offset
    BY ReachIs DEF LeftOver
<1>2. PICK i : i = b - call.offset + 1
    OBVIOUS
<1>3. i \in 1 .. Done(k) /\ i \in 1 .. Len(call.data)
    BY <1>1, <1>2
<1>4. call.offset + i - 1 = b
    BY <1>1, <1>2
<1>5. call.offset - First + i = b - First + 1
    BY <1>1, <1>2
<1>6. call.data[i] = memory[b]
  <2>1. b \in Ahead .. Past - 1
      BY <1>1 DEF Ahead
  <2>2. Seen(b) = memory[b]
      BY <2>1 DEF FreshAhead
  <2> QED BY <1>3, <1>4, <2>2 DEF Same
<1>7. call.data[i] = asked.data[b - First + 1]
    BY <1>3, <1>5 DEF LeftOver
<1> QED BY <1>6, <1>7

\* A write passes over a block that holds its data already.
LEMMA ScanPasses ==
    ASSUME FlashInv, FreshAhead, pc = "scan", NEW k \in Blocks,
           Start(k) <= call.offset, call.offset < Start(k) + page_size, Same(k),
           Done(k) # Len(call.data), block' = k,
           call' = [call EXCEPT !.offset = BlockEnd(k), !.data = SubSeq(@, Done(k) + 1, Len(@))],
           UNCHANGED <<device, fixed, protected, pc, chunk, ret_code, history>>
    PROVE  FlashInv'
<1>1. /\ RegionsSound /\ FlashTyped /\ LeftOver /\ CallSound /\ WriteSound /\ Harmless
    BY DEF FlashInv
<1>2. UNCHANGED <<memory, busy, status, region_info, chunk, asked, before, protected>>
    BY DEF device, fixed, history
<1>3. protected /\ asked.name = "write"
    BY <1>1 DEF FlashTyped, Erasing, Programming, CallSound
<1>4. RegionsSound' /\ FlashTyped'
  <2>1. protected' /\ pc' \notin Erasing \cup Programming
      BY <1>2, <1>3 DEF Erasing, Programming
  <2> QED BY <1>1, <1>2, <2>1, SameFlash
<1>5. First' = First /\ Past' = Past /\ Reach' = Reach /\ Blocks' = Blocks /\ Start(k)' = Start(k)
  <2>1. \A i : NumberOfBlocks(i)' = NumberOfBlocks(i)
      BY <1>2 DEF NumberOfBlocks
  <2>2. First' = First /\ Past' = Past /\ Asked' = Asked
      BY <1>2 DEF First, Past, Asked
  <2> QED BY <1>2, <2>1, <2>2 DEF Blocks, Start, Reach
<1>6. /\ Done(k) \in Nat /\ Done(k) < Len(call.data) /\ BlockEnd(k) = call.offset + Done(k)
      /\ BlockEnd(k) \in Nat /\ call.offset \in Nat /\ Len(call.data) \in Nat
    BY <1>1, DoneIs
<1>7. LeftOver' /\ call'.data # <<>> /\ call'.offset = BlockEnd(k) /\ call'.name = call.name
    BY <1>1, <1>2, <1>6, MovedOn
<1>8. CallSound'
    BY <1>2, <1>3 DEF CallSound
<1>9. ASSUME asked.fresh, NEW b \in First .. BlockEnd(k) - 1
      PROVE  memory[b] = asked.data[b - First + 1]
  <2>1. First \in Nat /\ Past \in Nat /\ call.offset \in First .. Past
      BY <1>1, ReachIs DEF LeftOver
  <2>2. CASE b < call.offset
      BY <1>1, <1>3, <1>6, <1>9, <2>1, <2>2 DEF WriteSound
  <2>3. CASE b >= call.offset
    <3>1. b \in Nat /\ b < call.offset + Done(k)
        BY <1>6, <1>9, <2>1
    <3> QED BY <1>1, <1>3, <1>6, <1>9, <2>3, <3>1, SameData
  <2> QED BY <1>6, <1>9, <2>1, <2>2, <2>3
<1>10. WriteSound'
  <2>1. call'.offset = Start(block)' + page_size
      BY <1>5, <1>7 DEF Start, BlockEnd
  <2>2. asked'.fresh =>
            \A b \in First' .. call'.offset - 1 : memory'[b] = asked'.data[b - First' + 1]
      BY <1>2, <1>5, <1>7, <1>9
  <2>3. pc' = "scan" /\ block' \in Blocks'
      BY <1>2, <1>5
  <2> QED BY <1>7, <2>1, <2>2, <2>3 DEF WriteSound
<1>11. EraseSound' /\ ChunkSound' /\ ProgramSound'
    BY DEF EraseSound, ChunkSound, ProgramSound, Erasing, Programming
<1>12. Harmless'
    BY <1>1, <1>2, <1>5 DEF Harmless, Bytes, Page, Erasing, Programming
<1> QED BY <1>4, <1>7, <1>8, <1>10, <1>11, <1>12 DEF FlashInv

\* A write looks for its next block.
LEMMA ScanFinds ==
    ASSUME FlashInv, Scan, Next_Blocks # {}
    PROVE  \E k \in Blocks :
              Start(k) <= call.offset /\ call.offset < Start(k) + page_size /\ ScanBlock(k)
<1>1. PICK k : k = CHOOSE x \in Next_Blocks : \A l \in Next_Blocks : ~Later(x, l)
    OBVIOUS
<1>2. RegionsSound /\ call.offset \in Nat
    BY DEF FlashInv, LeftOver, Scan
<1>3. k \in Blocks /\ Start(k) <= call.offset /\ call.offset < Start(k) + page_size
    BY <1>1, <1>2, BlockFound
<1>4. ScanBlock(k)
    BY <1>1, Zenon DEF Scan
<1> QED BY <1>3, <1>4

LEMMA ScanKeeps ==
    ASSUME FlashInv, FreshAhead, Scan
    PROVE  FlashInv'
<1>1. pc = "scan" /\ UNCHANGED <<device, fixed, protected>>
      /\ UNCHANGED <<memory, busy, status, region_info>>
    BY DEF Scan, device, fixed
<1>2. protected'
    BY <1>1 DEF FlashInv, FlashTyped, Erasing, Programming
<1>3. CASE Next_Blocks = {}
  <2>1. Return("ok")
      BY <1>3 DEF Scan
  <2> QED BY <1>1, <1>2, <2>1, ReturnKeeps
<1>4. CASE Next_Blocks # {}
  <2>1. PICK k \in Blocks :
            Start(k) <= call.offset /\ call.offset < Start(k) + page_size /\ ScanBlock(k)
      BY <1>4, ScanFinds
  <2>2. ASSUME NEW code, NEW cached, Leave(code, cached) PROVE FlashInv'
      BY <1>1, <1>2, <2>2, LeaveKeeps
  <2>3. CASE ~Same(k) /\ EraseRefusal(Start(k)) = "ok"
    <3>1. block' = k /\ pc' = "erase_idle" /\ UNCHANGED <<call, chunk, ret_code, history>>
        BY <2>1, <2>3 DEF ScanBlock
    <3> QED BY <1>1, <2>1, <2>3, <3>1, ScanErases
  <2>4. CASE Same(k) /\ Done(k) # Len(call.data)
    <3>1. /\ block' = k /\ UNCHANGED <<pc, chunk, ret_code, history>>
          /\ call' = [call EXCEPT !.offset = BlockEnd(k), !.data = SubSeq(@, Done(k) + 1, Len(@))]
        BY <2>1, <2>4 DEF ScanBlock
    <3> QED BY <1>1, <2>1, <2>4, <3>1, ScanPasses
  <2>5. CASE ~Same(k) /\ EraseRefusal(Start(k)) # "ok"
      BY <2>1, <2>2, <2>5 DEF ScanBlock
  <2>6. CASE Same(k) /\ Done(k) = Len(call.data)
      BY <2>1, <2>2, <2>6 DEF ScanBlock
  <2> QED BY <2>3, <2>4, <2>5, <2>6
<1> QED BY <1>3, <1>4

\* What a step inside of a call keeps that touches neither the memory nor the call.
LEMMA StepInCall ==
    ASSUME FlashInv, pc \notin {"ready", "scan"}, pc' \notin {"ready", "scan"},
           UNCHANGED <<memory, before, region_info, call, block, asked>>
    PROVE  /\ LeftOver' /\ WriteSound'
           /\ RegionsSound /\ FlashTyped /\ LeftOver /\ CallSound /\ WriteSound /\ EraseSound
           /\ ChunkSound /\ ProgramSound /\ Harmless
           /\ asked.idle => \A b \in Bytes \ Reach : memory'[b] = before'[b]
           /\ Bytes' = Bytes /\ RegionsSound'
           /\ Hi' = Hi /\ Reach' = Reach /\ First' = First /\ Past' = Past /\ ErasedAt' = ErasedAt
           /\ \A b : Old(b)' = Old(b) /\ New(b)' = New(b) /\ Page(b)' = Page(b)
<1>1. /\ RegionsSound /\ FlashTyped /\ LeftOver /\ CallSound /\ WriteSound /\ EraseSound
      /\ ChunkSound /\ ProgramSound /\ Harmless
    BY DEF FlashInv
<1>2. /\ Hi' = Hi /\ Reach' = Reach /\ First' = First /\ Past' = Past /\ ErasedAt' = ErasedAt
      /\ Blocks' = Blocks /\ Start(block)' = Start(block)
      /\ \A b : Old(b)' = Old(b) /\ New(b)' = New(b)
    BY SameCall
<1>3. Bytes' = Bytes /\ \A b : Page(b)' = Page(b)
    BY DEF Bytes, Page
<1>4. LeftOver'
    BY <1>1, <1>2 DEF LeftOver
<1>5. WriteSound'
    BY <1>1, <1>2 DEF WriteSound
<1>6. asked.idle => \A b \in Bytes \ Reach : memory'[b] = before'[b]
    BY <1>1 DEF Harmless
<1> QED BY <1>1, <1>2, <1>3, <1>4, <1>5, <1>6, RegionsStay

\* The page to be erased is of the call.
LEMMA ErasedIsReached ==
    ASSUME RegionsSound, LeftOver, CallSound, WriteSound, pc \in {"erase_idle"} \cup Erasing
    PROVE  ErasedAt \in Nat /\ ErasedAt % page_size = 0 /\ Page(ErasedAt) \subseteq Reach
<1>1. /\ First \in Nat /\ Past \in Nat /\ Asked = First .. Past - 1
      /\ asked.name = "write" => \A a \in Asked : Page(a) \subseteq Reach
      /\ asked.name = "erase_block" => Reach = Page(asked.offset)
    BY ReachIs
<1>2. CASE asked.name = "write"
  <2>1. /\ block \in Blocks /\ ErasedAt = Start(block) /\ Start(block) \in Nat
        /\ Start(block) % page_size = 0 /\ page_size \in Nat \ {0}
        /\ Start(block) <= call.offset /\ call.offset < Start(block) + page_size /\ call.data # <<>>
      BY <1>2, BlockIs, GeometryAssumption DEF WriteSound, ErasedAt, Erasing
  <2>2. call.offset \in Nat /\ call.offset \in First .. Past /\ Len(call.data) = Past - call.offset
        /\ call.data \in Seq({0, 1})
      BY DEF LeftOver
  <2>3. call.offset \in Asked
    <3>1. Len(call.data) # 0
        BY <2>1, <2>2
    <3> QED BY <1>1, <2>2, <3>1
  <2>4. call.offset \div page_size = Start(block) \div page_size
      BY <2>1, <2>2, PageIs
  <2>5. Page(call.offset) = Page(Start(block))
      BY <2>4 DEF Page
  <2> QED BY <1>1, <1>2, <2>1, <2>3, <2>5
<1>3. CASE asked.name # "write"
  <2>1. asked.name = "erase_block" /\ call.offset = First /\ First % page_size = 0
      BY <1>3 DEF CallSound, Erasing, Programming
  <2> QED BY <1>1, <1>3, <2>1 DEF ErasedAt, First
<1> QED BY <1>2, <1>3

\* The steps of alt_onchip_flash_erase_block.
LEMMA EraseIdleKeeps == ASSUME FlashInv, EraseIdle PROVE FlashInv'
<1>1. pc = "erase_idle" /\ UNCHANGED fixed /\ region_info' = region_info
    BY DEF EraseIdle, fixed
<1>2. FlashTyped /\ protected
    BY <1>1 DEF FlashInv, FlashTyped, Erasing, Programming
<1>3. CASE \E code \in PollIdle : code = "ETIMEDOUT" /\ Return(code) /\ UNCHANGED <<device, protected>>
    BY <1>1, <1>2, <1>3, ReturnKeeps DEF device
<1>4. CASE \E code \in PollIdle :
              /\ code = "ok" /\ protected' = FALSE
              /\ Command("erase", IF call.name = "write" THEN Start(block) ELSE call.offset, <<>>)
              /\ pc' = "erase_wait" /\ UNCHANGED <<frame, ret_code, history, copy>>
  <2>1. /\ protected' = FALSE /\ pc' = "erase_wait" /\ memory' = memory /\ busy.op = "idle"
        /\ UNCHANGED <<call, block, chunk, asked, before>>
        /\ status' = [status EXCEPT !.erase = FALSE]
        /\ busy' = [op |-> "erase", at |-> IF call.name = "write" THEN Start(block) ELSE call.offset,
                    data |-> <<>>]
      BY <1>4 DEF Command, PollIdle, frame, history
  <2>2. /\ LeftOver' /\ WriteSound'
        /\ RegionsSound /\ FlashTyped /\ LeftOver /\ CallSound /\ WriteSound /\ Harmless
        /\ asked.idle => \A b \in Bytes \ Reach : memory'[b] = before'[b]
        /\ Bytes' = Bytes /\ RegionsSound'
        /\ Reach' = Reach /\ First' = First /\ ErasedAt' = ErasedAt
        /\ \A b : Page(b)' = Page(b)
      BY <1>1, <2>1, StepInCall
  <2>3. ErasedAt \in Nat /\ Page(ErasedAt) \subseteq Reach
      BY <1>1, <2>2, ErasedIsReached
  <2>4. busy'.op = "erase" /\ busy'.at = ErasedAt /\ busy' # Idle'
    <3>1. call.name = asked.name
        BY <2>2 DEF LeftOver
    <3>2. busy'.op = "erase" /\ Idle'.op = "idle"
        BY <2>1 DEF Idle
    <3> QED BY <2>1, <3>1, <3>2 DEF ErasedAt
  <2>5. status'.erase = FALSE /\ status' \in [erase : BOOLEAN, write : BOOLEAN]
      BY <1>2, <2>1 DEF FlashTyped
  <2>6. FlashTyped'
      BY <2>1, <2>2, <2>3, <2>4, <2>5 DEF FlashTyped, Erasing, Programming
  <2>7. CallSound'
      BY <1>1, <2>1, <2>2 DEF CallSound, Erasing, Programming
  <2>8. EraseSound'
      BY <2>1, <2>2, <2>4, <2>5 DEF EraseSound
  <2>9. ChunkSound' /\ ProgramSound'
      BY <2>1 DEF ChunkSound, ProgramSound, Programming
  <2>10. Harmless'
      BY <2>1, <2>2, <2>3, <2>4 DEF Harmless, Erasing
  <2> QED BY <2>1, <2>2, <2>6, <2>7, <2>8, <2>9, <2>10 DEF FlashInv
<1> QED BY <1>3, <1>4 DEF EraseIdle

LEMMA EraseWaitKeeps == ASSUME FlashInv, EraseWait PROVE FlashInv'
<1>1. /\ pc = "erase_wait" /\ pc' = "erase_check"
      /\ UNCHANGED <<memory, busy, status, protected, region_info, call, block, chunk, asked, before>>
    BY DEF EraseWait, device, fixed, frame, history
<1>2. /\ LeftOver' /\ WriteSound'
      /\ RegionsSound /\ FlashTyped /\ LeftOver /\ CallSound /\ WriteSound /\ EraseSound /\ Harmless
      /\ asked.idle => \A b \in Bytes \ Reach : memory'[b] = before'[b]
      /\ Bytes' = Bytes /\ RegionsSound'
      /\ Reach' = Reach /\ First' = First /\ ErasedAt' = ErasedAt
      /\ \A b : Page(b)' = Page(b)
    BY <1>1, StepInCall
<1>3. FlashTyped'
    BY <1>1, <1>2 DEF FlashTyped, Erasing, Programming, Bytes
<1>4. CallSound'
    BY <1>1, <1>2 DEF CallSound, Erasing, Programming
<1>5. EraseSound'
    BY <1>1, <1>2 DEF EraseSound, Erasing
<1>6. ChunkSound' /\ ProgramSound'
    BY <1>1 DEF ChunkSound, ProgramSound, Programming
<1>7. Harmless'
    BY <1>1, <1>2 DEF Harmless, Erasing
<1> QED BY <1>1, <1>2, <1>3, <1>4, <1>5, <1>6, <1>7 DEF FlashInv

\* An erased block of a write is to be programmed with the data that lies in it.
LEMMA EraseMovesOn ==
    ASSUME FlashInv, pc = "erase_check", call.name = "write", status.erase,
           protected' = TRUE, pc' = "write_idle",
           chunk' = [at |-> call.offset, data |-> SubSeq(call.data, 1, Done(block))],
           UNCHANGED <<call, block, ret_code, history, device, fixed>>
    PROVE  FlashInv'
<1>1. UNCHANGED <<memory, busy, status, region_info, call, block, asked, before>>
    BY DEF history, device, fixed
<1>2. /\ LeftOver' /\ WriteSound'
      /\ RegionsSound /\ FlashTyped /\ LeftOver /\ CallSound /\ WriteSound /\ EraseSound /\ Harmless
      /\ asked.idle => \A b \in Bytes \ Reach : memory'[b] = before'[b]
      /\ Bytes' = Bytes /\ RegionsSound'
      /\ Hi' = Hi /\ Reach' = Reach /\ First' = First
      /\ \A b : Old(b)' = Old(b)
    BY <1>1, StepInCall
<1>3. asked.name = "write"
    BY <1>2 DEF LeftOver
<1>4. /\ Hi = call.offset + Done(block) /\ Done(block) \in Nat \ {0} /\ Done(block) <= Len(call.data)
      /\ Hi <= Start(block) + page_size /\ Start(block) <= call.offset /\ Hi <= Past
      /\ Hi \in Nat /\ call.offset \in Nat
    BY <1>2, <1>3, HiIs
<1>5. busy = Idle /\ \A b \in Page(Start(block)) : memory[b] = 1
    BY <1>2, <1>3 DEF EraseSound, Erasing, ErasedAt
<1>6. FlashTyped'
    BY <1>1, <1>2 DEF FlashTyped, Erasing, Programming
<1>7. CallSound' /\ EraseSound'
    BY <1>1, <1>2, <1>3 DEF CallSound, EraseSound, Erasing, Programming
<1>8. ChunkSound'
  <2>1. PICK r : r = SubSeq(call.data, 1, Done(block))
      OBVIOUS
  <2>2. /\ r \in Seq({0, 1}) /\ Len(r) = Done(block)
        /\ \A i \in 1 .. Done(block) : r[i] = call.data[i] /\ i \in 1 .. Len(call.data)
    <3>1. call.data \in Seq({0, 1})
        BY <1>2 DEF LeftOver
    <3> QED BY <1>4, <2>1, <3>1
  <2>3. chunk'.at = call.offset /\ chunk'.data = r
      BY <2>1
  <2>4. Len(chunk'.data) = IF chunk'.at <= Hi THEN Hi - chunk'.at ELSE 0
    <3>1. call.offset <= Hi /\ Hi - call.offset = Done(block)
        BY <1>4
    <3> QED BY <2>2, <2>3, <3>1, Zenon
  <2>5. \A i \in 1 .. Len(r) : r[i] = asked.data[call.offset - First + i]
      BY <1>2, <2>2 DEF LeftOver
  <2>6. call.offset <= call.offset
      BY <1>4
  <2> QED BY <1>1, <1>2, <1>4, <2>2, <2>3, <2>4, <2>5, <2>6 DEF ChunkSound, Programming
<1>9. ProgramSound'
  <2>1. ASSUME NEW b \in call.offset .. Hi - 1 PROVE memory[b] = 1
    <3>1. b \in Nat /\ Start(block) <= b /\ b < Start(block) + page_size
      <4>1. block \in Blocks
          BY <1>2, <1>3 DEF WriteSound
      <4>2. Start(block) \in Nat /\ page_size \in Nat
          BY <1>2, <4>1, BlockIs, GeometryAssumption
      <4> QED BY <1>4, <4>2
    <3>2. block \in Blocks
        BY <1>2, <1>3 DEF WriteSound
    <3>3. Start(block) \in Nat /\ Start(block) % page_size = 0 /\ Start(block) + page_size <= length
          /\ length \in Nat /\ page_size \in Nat
        BY <1>2, <3>2, BlockIs, GeometryAssumption
    <3>4. b \in Bytes
        BY <3>1, <3>3 DEF Bytes
    <3>5. b \in Page(Start(block))
        BY <3>1, <3>3, <3>4, PageIs
    <3> QED BY <1>5, <3>5
  <2> QED BY <1>1, <1>2, <1>3, <1>5, <2>1 DEF ProgramSound, Programming, Old, Idle
<1>10. Harmless'
  <2>1. busy'.op = "idle"
      BY <1>1, <1>5 DEF Idle
  <2> QED BY <1>1, <1>2, <2>1 DEF Harmless
<1> QED BY <1>2, <1>6, <1>7, <1>8, <1>9, <1>10 DEF FlashInv

LEMMA EraseCheckKeeps == ASSUME FlashInv, EraseCheck PROVE FlashInv'
<1>1. pc = "erase_check" /\ UNCHANGED <<device, fixed>>
      /\ UNCHANGED <<memory, busy, status, region_info>>
    BY DEF EraseCheck, device, fixed
<1>2. ASSUME NEW code, Finish(code) PROVE FlashInv'
    BY <1>1, <1>2, ReturnKeeps DEF Finish
<1>3. PICK code \in PollPassed(status.erase) :
          IF call.name = "write" /\ code = "ok"
          THEN LET refusal == WriteRefusal(Start(block), call.offset, Done(block)) IN
               IF refusal = "ok"
               THEN /\ protected' = TRUE
                    /\ pc' = "write_idle"
                    /\ chunk' = [at |-> call.offset, data |-> SubSeq(call.data, 1, Done(block))]
                    /\ UNCHANGED <<call, block, ret_code, history, copy>>
               ELSE Finish(refusal)
          ELSE Finish(code)
    BY DEF EraseCheck
<1>4. CASE call.name = "write" /\ code = "ok"
  <2>1. status.erase
      BY <1>4 DEF PollPassed
  <2>2. CASE WriteRefusal(Start(block), call.offset, Done(block)) = "ok"
    <3>1. /\ protected' = TRUE /\ pc' = "write_idle"
          /\ chunk' = [at |-> call.offset, data |-> SubSeq(call.data, 1, Done(block))]
          /\ UNCHANGED <<call, block, ret_code, history, copy>>
        BY <1>3, <1>4, <2>2
    <3> QED BY <1>1, <1>4, <2>1, <3>1, EraseMovesOn
  <2>3. CASE WriteRefusal(Start(block), call.offset, Done(block)) # "ok"
      BY <1>2, <1>3, <1>4, <2>3
  <2> QED BY <2>2, <2>3
<1>5. CASE ~(call.name = "write" /\ code = "ok")
    BY <1>2, <1>3, <1>5
<1> QED BY <1>4, <1>5

\* The steps of alt_onchip_flash_write_block.
LEMMA WriteIdleKeeps == ASSUME FlashInv, WriteIdle PROVE FlashInv'
<1>1. pc = "write_idle" /\ UNCHANGED <<memory, busy, status, region_info>>
    BY DEF WriteIdle, device, fixed
<1>2. FlashTyped /\ protected
    BY <1>1 DEF FlashInv, FlashTyped, Erasing, Programming
<1>3. CASE \E code \in PollIdle : code = "ETIMEDOUT" /\ Return(code) /\ UNCHANGED protected
    BY <1>1, <1>2, <1>3, ReturnKeeps
<1>4. CASE \E code \in PollIdle :
              /\ code = "ok" /\ protected' = FALSE /\ pc' = "write_word"
              /\ UNCHANGED <<frame, ret_code, history, copy>>
  <2>1. /\ protected' = FALSE /\ pc' = "write_word" /\ busy.op = "idle"
        /\ UNCHANGED <<call, block, chunk, asked, before>>
      BY <1>4 DEF PollIdle, frame, history
  <2>2. /\ LeftOver' /\ WriteSound'
        /\ RegionsSound /\ FlashTyped /\ LeftOver /\ CallSound /\ WriteSound
        /\ ChunkSound /\ ProgramSound /\ Harmless
        /\ asked.idle => \A b \in Bytes \ Reach : memory'[b] = before'[b]
        /\ Bytes' = Bytes /\ RegionsSound'
        /\ Hi' = Hi /\ Reach' = Reach /\ First' = First
        /\ \A b : Old(b)' = Old(b) /\ New(b)' = New(b)
      BY <1>1, <2>1, StepInCall
  <2>3. FlashTyped' /\ busy = Idle
      BY <1>1, <2>1, <2>2 DEF FlashTyped, Erasing, Programming
  <2>4. CallSound' /\ EraseSound'
      BY <1>1, <2>1, <2>2 DEF CallSound, EraseSound, Erasing, Programming
  <2>5. ChunkSound'
      BY <1>1, <2>1, <2>2 DEF ChunkSound, Programming
  <2>6. ProgramSound'
    <3>1. chunk.at = call.offset /\ call.offset \in Nat
        BY <1>1, <2>2 DEF ChunkSound, LeftOver
    <3>2. Hi \in Nat
        BY <1>1, <2>2, HiIs
    <3>3. \A b \in call.offset .. Hi - 1 : ~(b < chunk.at)
        BY <3>1, <3>2
    <3>4. asked.name = "write" \/ asked.idle =>
              \A b \in call.offset .. Hi - 1 : memory[b] = IF b < chunk.at THEN New(b) ELSE Old(b)
        BY <1>1, <2>2, <3>3 DEF ProgramSound
    <3>5. Idle' = Idle
        BY DEF Idle
    <3> QED BY <1>1, <2>1, <2>2, <2>3, <3>4, <3>5 DEF ProgramSound
  <2>7. Harmless'
      BY <1>1, <2>1, <2>2 DEF Harmless
  <2> QED BY <2>1, <2>2, <2>3, <2>4, <2>5, <2>6, <2>7 DEF FlashInv
<1> QED BY <1>3, <1>4 DEF WriteIdle

LEMMA WriteWaitKeeps == ASSUME FlashInv, WriteWait PROVE FlashInv'
<1>1. pc = "write_wait" /\ UNCHANGED <<memory, busy, status, region_info>>
    BY DEF WriteWait, device, fixed
<1>2. FlashTyped
    BY DEF FlashInv
<1>3. CASE \E code \in PollIdle : code = "ETIMEDOUT" /\ Finish(code)
    BY <1>1, <1>3, ReturnKeeps DEF Finish
<1>4. CASE \E code \in PollIdle :
              /\ code = "ok" /\ pc' = "write_check"
              /\ UNCHANGED <<protected, frame, ret_code, history, copy>>
  <2>1. /\ protected' = protected /\ pc' = "write_check" /\ busy.op = "idle"
        /\ UNCHANGED <<call, block, chunk, asked, before>>
      BY <1>4 DEF PollIdle, frame, history
  <2>2. /\ LeftOver' /\ WriteSound'
        /\ RegionsSound /\ FlashTyped /\ LeftOver /\ CallSound /\ WriteSound
        /\ ChunkSound /\ ProgramSound /\ Harmless
        /\ asked.idle => \A b \in Bytes \ Reach : memory'[b] = before'[b]
        /\ Bytes' = Bytes /\ RegionsSound'
        /\ Hi' = Hi /\ Reach' = Reach /\ First' = First
        /\ \A b : Old(b)' = Old(b) /\ New(b)' = New(b)
      BY <1>1, <2>1, StepInCall
  <2>3. FlashTyped' /\ busy = Idle /\ Idle' = Idle
      BY <1>1, <2>1, <2>2 DEF FlashTyped, Erasing, Programming, Idle
  <2>4. CallSound' /\ EraseSound'
      BY <1>1, <2>1, <2>2 DEF CallSound, EraseSound, Erasing, Programming
  <2>5. ChunkSound'
      BY <1>1, <2>1, <2>2 DEF ChunkSound, Programming
  <2>6. ProgramSound'
      BY <1>1, <2>1, <2>2, <2>3 DEF ProgramSound
  <2>7. Harmless'
      BY <1>1, <2>1, <2>2 DEF Harmless
  <2> QED BY <2>1, <2>2, <2>3, <2>4, <2>5, <2>6, <2>7 DEF FlashInv
<1> QED BY <1>3, <1>4 DEF WriteWait

LEMMA WriteCheckKeeps == ASSUME FlashInv, WriteCheck PROVE FlashInv'
<1>1. pc = "write_check" /\ UNCHANGED <<memory, busy, status, region_info>>
    BY DEF WriteCheck, device, fixed
<1>2. FlashTyped
    BY DEF FlashInv
<1>3. CASE \E code \in PollPassed(status.write) : code = "ETIMEDOUT" /\ Finish(code)
    BY <1>1, <1>3, ReturnKeeps DEF Finish
<1>4. CASE \E code \in PollPassed(status.write) :
              /\ code = "ok" /\ pc' = "write_word"
              /\ UNCHANGED <<protected, frame, ret_code, history, copy>>
  <2>1. /\ protected' = protected /\ pc' = "write_word" /\ status.write
        /\ UNCHANGED <<call, block, chunk, asked, before>>
      BY <1>4 DEF PollPassed, frame, history
  <2>2. /\ LeftOver' /\ WriteSound'
        /\ RegionsSound /\ FlashTyped /\ LeftOver /\ CallSound /\ WriteSound
        /\ ChunkSound /\ ProgramSound /\ Harmless
        /\ asked.idle => \A b \in Bytes \ Reach : memory'[b] = before'[b]
        /\ Bytes' = Bytes /\ RegionsSound'
        /\ Hi' = Hi /\ Reach' = Reach /\ First' = First
        /\ \A b : Old(b)' = Old(b) /\ New(b)' = New(b)
      BY <1>1, <2>1, StepInCall
  <2>3. FlashTyped' /\ busy = Idle /\ Idle' = Idle
      BY <1>1, <2>1, <2>2 DEF FlashTyped, ProgramSound, Erasing, Programming, Idle
  <2>4. CallSound' /\ EraseSound'
      BY <1>1, <2>1, <2>2 DEF CallSound, EraseSound, Erasing, Programming
  <2>5. ChunkSound'
      BY <1>1, <2>1, <2>2 DEF ChunkSound, Programming
  <2>6. ProgramSound'
    <3>1. ASSUME asked.name = "write" \/ asked.idle, NEW b \in call.offset .. Hi - 1
          PROVE  memory[b] = IF b < chunk.at THEN New(b) ELSE Old(b)
      <4>1. /\ b >= chunk.at => memory[b] = Old(b)
            /\ b < chunk.at - DATA_ALIGN_SIZE => memory[b] = New(b)
            /\ b < chunk.at /\ b >= chunk.at - DATA_ALIGN_SIZE => memory[b] = New(b)
          BY <1>1, <2>1, <2>2, <3>1 DEF ProgramSound
      <4>2. b \in Nat /\ chunk.at \in Nat /\ DATA_ALIGN_SIZE \in Nat
        <5>1. Hi \in Nat /\ call.offset \in Nat
            BY <1>1, <2>2, HiIs
        <5> QED BY <1>1, <2>2, <5>1, GeometryAssumption DEF ChunkSound, Programming
      <4> QED BY <4>1, <4>2
    <3> QED BY <1>1, <2>1, <2>2, <2>3, <3>1 DEF ProgramSound
  <2>7. Harmless'
      BY <1>1, <2>1, <2>2, <2>3 DEF Harmless, Idle
  <2> QED BY <2>1, <2>2, <2>3, <2>4, <2>5, <2>6, <2>7 DEF FlashInv
<1> QED BY <1>3, <1>4 DEF WriteCheck

\* What is left over of a division.
LEMMA LeftOfDivision ==
    ASSUME NEW a \in Nat, NEW w \in Nat \ {0}
    PROVE  a % w \in 0 .. w - 1 /\ a % w <= a
<1>1. a % w \in 0 .. w - 1
    OBVIOUS
<1>2. a = w * (a \div w) + (a % w) /\ w * (a \div w) \in Nat
    BY Z3
<1> QED BY <1>1, <1>2

\* Where the word of an address begins, f, and how much of the data that is left, k bytes,
\* goes into it, g.
WordOf(a, w, k, p, f, g) ==
    /\ f \in Nat /\ f <= a /\ a = f + p /\ a < f + w
    /\ g \in 1 .. k /\ (g = k \/ p + g = w)
    /\ k - g = IF f + w <= a + k THEN (a + k) - (f + w) ELSE 0
    /\ k - g # 0 => a + g = f + w

LEMMA WordBounds ==
    ASSUME NEW a \in Nat, NEW w \in Nat, NEW k \in Nat \ {0}, NEW p \in 0 .. w - 1, p <= a
    PROVE  WordOf(a, w, k, p, a - p, Min2(k + p, w) - p)
<1>1. PICK f : f = a - p
    OBVIOUS
<1>2. PICK g : g = Min2(k + p, w) - p
    OBVIOUS
<1>3. f \in Nat /\ f <= a /\ a = f + p /\ a < f + w
    BY <1>1
<1>4. g = IF k + p < w THEN k ELSE w - p
    BY <1>2 DEF Min2
<1>5. WordOf(a, w, k, p, f, g)
  <2>1. CASE k + p < w
    <3>1. g = k /\ k - g = 0
        BY <1>4, <2>1
    <3>2. ~(f + w <= a + k)
        BY <1>3, <2>1
    <3> QED BY <1>3, <3>1, <3>2 DEF WordOf
  <2>2. CASE ~(k + p < w)
    <3>1. g \in 1 .. k /\ p + g = w
        BY <1>4, <2>2
    <3>2. a + g = f + w /\ f + w <= a + k
        BY <1>3, <3>1
    <3>3. (a + k) - (a + g) = k - g
        BY <3>1
    <3>4. k - g = (a + k) - (f + w)
        BY <3>2, <3>3, Zenon
    <3> QED BY <1>3, <3>1, <3>2, <3>4, Zenon DEF WordOf
  <2> QED BY <2>1, <2>2
<1> QED BY <1>1, <1>2, <1>5, Zenon

\* The word that is programmed next, and the data that is left after it.
LEMMA NextWord ==
    ASSUME RegionsSound, LeftOver, WriteSound, ChunkSound, pc = "write_word", chunk.data # <<>>
    PROVE  \A f, r :
              f = chunk.at - Padding /\ r = SubSeq(chunk.data, Taken + 1, Len(chunk.data)) =>
              /\ f \in Nat /\ f <= chunk.at /\ chunk.at < f + DATA_ALIGN_SIZE /\ chunk.at \in Nat
              /\ DATA_ALIGN_SIZE \in Nat \ {0}
              /\ call.offset <= chunk.at /\ Hi \in Nat /\ call.offset \in Nat
              /\ r \in Seq({0, 1})
              /\ Len(r) = IF f + DATA_ALIGN_SIZE <= Hi THEN Hi - (f + DATA_ALIGN_SIZE) ELSE 0
              /\ \A i \in 1 .. Len(r) : r[i] = asked.data[(f + DATA_ALIGN_SIZE) - First + i]
              /\ Word \in [1 .. DATA_ALIGN_SIZE -> {0, 1}]
              /\ \A b \in f .. f + DATA_ALIGN_SIZE - 1 :
                    Word[b - f + 1] = IF chunk.at <= b /\ b < Hi THEN asked.data[b - First + 1] ELSE 1
<1>0. TAKE f, r
<1> DEFINE a == chunk.at
           w == DATA_ALIGN_SIZE
           d == chunk.data
           k == Len(chunk.data)
           p == Padding
           g == Taken
<1>1. Hi \in Nat /\ call.offset \in Nat /\ First \in Nat /\ w \in Nat \ {0}
    BY HiIs, ReachIs, GeometryAssumption DEF LeftOver
<1>2. a \in Nat /\ call.offset <= a
    BY DEF ChunkSound, Programming
<1>3. d \in Seq({0, 1}) /\ \A i \in 1 .. k : d[i] = asked.data[a - First + i]
    BY DEF ChunkSound, Programming
<1>4. k \in Nat \ {0} /\ Hi = a + k /\ k = Len(d)
  <2>1. k = IF a <= Hi THEN Hi - a ELSE 0
      BY DEF ChunkSound, Programming
  <2>2. k # 0
      BY <1>3
  <2> HIDE DEF a, k
  <2> QED BY <1>1, <1>2, <2>1, <2>2 DEF k
<1>5. p = a % w /\ g = Min2(k + p, w) - p
    BY DEF Padding, Taken
<1>6. Word = [i \in 1 .. w |-> IF i \in p + 1 .. p + g THEN d[i - p] ELSE 1]
    BY DEF Word
<1> HIDE DEF a, w, d, k, p, g
<1>7. SUFFICES ASSUME f = a - p, r = SubSeq(d, g + 1, Len(d))
               PROVE  /\ f \in Nat /\ f <= a /\ a < f + w /\ a \in Nat /\ w \in Nat \ {0}
                      /\ call.offset <= a /\ Hi \in Nat /\ call.offset \in Nat
                      /\ r \in Seq({0, 1})
                      /\ Len(r) = IF f + w <= Hi THEN Hi - (f + w) ELSE 0
                      /\ \A i \in 1 .. Len(r) : r[i] = asked.data[(f + w) - First + i]
                      /\ Word \in [1 .. w -> {0, 1}]
                      /\ \A b \in f .. f + w - 1 :
                            Word[b - f + 1] = IF a <= b /\ b < Hi THEN asked.data[b - First + 1] ELSE 1
    BY DEF a, w, d, p, g
<1>8. p \in 0 .. w - 1 /\ p <= a
    BY <1>1, <1>2, <1>5, LeftOfDivision
<1>9. /\ f \in Nat /\ f <= a /\ a = f + p /\ a < f + w
      /\ g \in 1 .. k /\ (g = k \/ p + g = w)
      /\ k - g = IF f + w <= a + k THEN (a + k) - (f + w) ELSE 0
      /\ k - g # 0 => a + g = f + w
  <2>1. f = a - p /\ g = Min2(k + p, w) - p
      BY <1>1, <1>5, <1>7
  <2>2. a \in Nat /\ w \in Nat /\ k \in Nat \ {0} /\ p \in 0 .. w - 1 /\ p <= a
      BY <1>1, <1>2, <1>4, <1>8
  <2>3. WordOf(a, w, k, p, a - p, Min2(k + p, w) - p)
      BY <2>2, WordBounds
  <2>4. WordOf(a, w, k, p, f, g)
      BY <2>1, <2>3, Zenon
  <2> QED BY <2>4, Zenon DEF WordOf
<1>10. r \in Seq({0, 1}) /\ Len(r) = k - g /\ \A i \in 1 .. Len(r) : r[i] = d[g + i]
  <2>1. g \in Nat /\ g <= Len(d)
      BY <1>4, <1>9
  <2>2. r \in Seq({0, 1}) /\ Len(r) = Len(d) - g /\ \A i \in 1 .. Len(r) : r[i] = d[g + i]
      BY <1>3, <1>7, <2>1, BitsLeft
  <2> QED BY <1>4, <2>2, Zenon
<1>11. Len(r) = IF f + w <= Hi THEN Hi - (f + w) ELSE 0
    BY <1>4, <1>9, <1>10, Zenon
<1>12. ASSUME NEW i \in 1 .. Len(r)
       PROVE  r[i] = asked.data[(f + w) - First + i]
  <2>1. k - g # 0 /\ g + i \in 1 .. k /\ g \in Int /\ i \in Int
      BY <1>4, <1>9, <1>10
  <2>2. a - First + (g + i) = (f + w) - First + i
    <3>1. f + w = a + g
        BY <1>9, <2>1, Zenon
    <3>2. \A x \in Int, y \in Int, z \in Int, v \in Int : x - y + (z + v) = (x + z) - y + v
        OBVIOUS
    <3>3. a \in Int /\ First \in Int /\ g \in Int /\ i \in Int
        BY <1>1, <1>2, <2>1
    <3>4. a - First + (g + i) = (a + g) - First + i
        BY <3>2, <3>3
    <3> QED BY <3>1, <3>4, Zenon
  <2>3. d[g + i] = asked.data[a - First + (g + i)]
      BY <1>3, <2>1, Zenon
  <2> QED BY <1>10, <2>2, <2>3, Zenon
<1>13. Word \in [1 .. w -> {0, 1}]
  <2>1. ASSUME NEW i \in 1 .. w, i \in p + 1 .. p + g PROVE d[i - p] \in {0, 1}
    <3>1. i - p \in 1 .. Len(d)
        BY <1>4, <1>8, <1>9, <2>1
    <3> QED BY <1>3, <3>1
  <2> QED BY <1>6, <2>1
<1>14. ASSUME NEW b \in f .. f + w - 1
       PROVE  Word[b - f + 1] = IF a <= b /\ b < Hi THEN asked.data[b - First + 1] ELSE 1
  <2>1. b \in Nat /\ f <= b /\ b < f + w
      BY <1>1, <1>8, <1>9
  <2>2. PICK i : i = b - f + 1
      OBVIOUS
  <2>3. i \in 1 .. w /\ i - p = b - a + 1
      BY <1>1, <1>2, <1>8, <1>9, <2>1, <2>2
  <2>4. i \in p + 1 .. p + g <=> a <= b /\ b < Hi
    <3>1. CASE g = k
        BY <1>2, <1>4, <1>8, <1>9, <2>1, <2>2, <3>1
    <3>2. CASE p + g = w /\ g # k
      <4>1. f + w <= Hi /\ b < Hi
        <5>1. k - g # 0
            BY <1>4, <1>8, <1>9, <3>2
        <5> QED BY <1>1, <1>2, <1>4, <1>8, <1>9, <2>1, <5>1
      <4>2. i \in p + 1 .. w <=> a <= b
          BY <1>1, <1>2, <1>8, <1>9, <2>1, <2>2
      <4> QED BY <3>2, <4>1, <4>2, Zenon
    <3> QED BY <1>9, <3>1, <3>2
  <2>5. ASSUME a <= b, b < Hi
        PROVE  d[i - p] = asked.data[b - First + 1]
    <3>1. b - a + 1 \in 1 .. k
        BY <1>2, <1>4, <2>1, <2>5
    <3>2. a - First + (b - a + 1) = b - First + 1
        BY <1>1, <1>2, <2>1
    <3>3. d[b - a + 1] = asked.data[a - First + (b - a + 1)]
        BY <1>3, <3>1, Zenon
    <3> QED BY <2>3, <3>2, <3>3, Zenon
  <2>6. Word[i] = IF i \in p + 1 .. p + g THEN d[i - p] ELSE 1
      BY <1>6, <2>3, Zenon
  <2> QED BY <2>2, <2>4, <2>5, <2>6, Zenon
<1> QED BY <1>1, <1>2, <1>9, <1>10, <1>11, <1>12, <1>13, <1>14, Zenon

\* The flash is told to program a word.
LEMMA WordKeeps ==
    ASSUME FlashInv, pc = "write_word", chunk.data # <<>>, UNCHANGED <<protected, fixed>>,
           Command("write", chunk.at - Padding, Word), pc' = "write_wait",
           chunk' = [at |-> chunk.at - Padding + DATA_ALIGN_SIZE,
                     data |-> SubSeq(chunk.data, Taken + 1, Len(chunk.data))],
           UNCHANGED <<call, block, ret_code, history, copy>>
    PROVE  FlashInv'
<1>1. UNCHANGED <<memory, region_info, call, block, asked, before>>
    BY DEF Command, fixed, history
<1>2. /\ LeftOver' /\ WriteSound'
      /\ RegionsSound /\ FlashTyped /\ LeftOver /\ CallSound /\ WriteSound
      /\ ChunkSound /\ ProgramSound /\ Harmless
      /\ asked.idle => \A b \in Bytes \ Reach : memory'[b] = before'[b]
      /\ Bytes' = Bytes /\ RegionsSound'
      /\ Hi' = Hi /\ Reach' = Reach /\ First' = First
      /\ \A b : Old(b)' = Old(b) /\ New(b)' = New(b)
    BY <1>1, StepInCall
<1>3. ~protected'
    BY <1>2 DEF FlashTyped, Programming
<1> DEFINE w == DATA_ALIGN_SIZE
<1>4. PICK f : f = chunk.at - Padding
    OBVIOUS
<1>5. PICK r : r = SubSeq(chunk.data, Taken + 1, Len(chunk.data))
    OBVIOUS
<1>6. /\ f \in Nat /\ f <= chunk.at /\ chunk.at < f + w /\ chunk.at \in Nat /\ w \in Nat \ {0}
      /\ call.offset <= chunk.at /\ Hi \in Nat /\ call.offset \in Nat
      /\ r \in Seq({0, 1}) /\ Len(r) = IF f + w <= Hi THEN Hi - (f + w) ELSE 0
      /\ \A i \in 1 .. Len(r) : r[i] = asked.data[(f + w) - First + i]
      /\ Word \in [1 .. w -> {0, 1}]
      /\ \A b \in f .. f + w - 1 :
            Word[b - f + 1] = IF chunk.at <= b /\ b < Hi THEN asked.data[b - First + 1] ELSE 1
  <2>1. RegionsSound /\ LeftOver /\ WriteSound /\ ChunkSound
      BY <1>2, Zenon
  <2> QED BY <1>4, <1>5, <2>1, NextWord, ZenonT(60)
<1>7. /\ busy' = [op |-> "write", at |-> f, data |-> Word]
      /\ status' = [status EXCEPT !.write = FALSE]
    BY <1>3, <1>4 DEF Command
<1>8. chunk'.at = f + w /\ chunk'.data = r
    BY <1>4, <1>5
<1>9. /\ busy'.op = "write" /\ busy'.at = f /\ busy'.data = Word
      /\ status' \in [erase : BOOLEAN, write : BOOLEAN] /\ status'.write = FALSE
    BY <1>2, <1>7 DEF FlashTyped
<1>10. FlashTyped'
    BY <1>1, <1>2, <1>3, <1>6, <1>9 DEF FlashTyped, Erasing, Programming
<1>11. CallSound' /\ EraseSound'
    BY <1>1, <1>2 DEF CallSound, EraseSound, Erasing, Programming
<1>12. ChunkSound'
  <2>1. f + w \in Nat /\ call.offset <= f + w /\ f + w >= DATA_ALIGN_SIZE
      BY <1>6
  <2>2. Len(chunk'.data) = IF chunk'.at <= Hi' THEN Hi' - chunk'.at ELSE 0
      BY <1>2, <1>6, <1>8, Zenon
  <2>3. \A i \in 1 .. Len(chunk'.data) : chunk'.data[i] = asked'.data[chunk'.at - First' + i]
      BY <1>1, <1>2, <1>6, <1>8, Zenon
  <2>4. chunk'.at \in Nat /\ call'.offset <= chunk'.at /\ chunk'.data \in Seq({0, 1})
        /\ chunk'.at >= DATA_ALIGN_SIZE
      BY <1>1, <1>6, <1>8, <2>1, Zenon
  <2> QED BY <2>2, <2>3, <2>4 DEF ChunkSound
<1>13. ProgramSound'
  <2>1. (f + w) - DATA_ALIGN_SIZE = f
      BY <1>6
  <2>2. chunk'.at - DATA_ALIGN_SIZE = f
      BY <1>8, <2>1, Zenon
  <2>3. ASSUME NEW b \in f .. f + w - 1, b \notin call.offset .. Hi - 1
        PROVE  Word[b - f + 1] = 1
    <3>1. ~(chunk.at <= b /\ b < Hi)
        BY <1>6, <2>3
    <3> QED BY <1>6, <3>1
  <2>4. ASSUME asked.name = "write" \/ asked.idle, NEW b \in call.offset .. Hi - 1
        PROVE  /\ b >= f + w => memory[b] = Old(b)
               /\ b < f => memory[b] = New(b)
               /\ b < f + w /\ b >= f => Min2(memory[b], Word[b - f + 1]) = New(b)
    <3>1. memory[b] = IF b < chunk.at THEN New(b) ELSE Old(b)
        BY <1>2, <2>4 DEF ProgramSound
    <3>2. b \in Nat /\ b < Hi /\ call.offset <= b
        BY <1>6
    <3>3. b >= f + w => memory[b] = Old(b)
        BY <1>6, <3>1, <3>2
    <3>4. b < f => memory[b] = New(b)
        BY <1>6, <3>1, <3>2
    <3>5. ASSUME b < f + w, b >= f, b < chunk.at
          PROVE  Min2(memory[b], Word[b - f + 1]) = New(b)
      <4>1. Word[b - f + 1] = 1
        <5>1. b \in f .. f + w - 1 /\ ~(chunk.at <= b /\ b < Hi)
            BY <1>6, <3>2, <3>5
        <5> QED BY <1>6, <5>1
      <4>2. memory[b] \in {0, 1}
        <5>1. Hi <= length /\ length \in Nat
          <6>1. Hi <= Past /\ Past \in Nat /\ Past <= length
              BY <1>2, HiIs, ReachIs
          <6> QED BY <1>6, <6>1, GeometryAssumption
        <5>2. b \in Bytes
            BY <1>6, <3>2, <5>1 DEF Bytes
        <5> QED BY <1>2, <5>2 DEF FlashTyped
      <4> QED BY <3>1, <3>5, <4>1, <4>2, Bits
    <3>6. ASSUME b < f + w, b >= f, b >= chunk.at
          PROVE  Min2(memory[b], Word[b - f + 1]) = New(b)
      <4>1. b \in f .. f + w - 1 /\ chunk.at <= b /\ ~(b < chunk.at)
          BY <1>6, <3>2, <3>6
      <4>2. Word[b - f + 1] = asked.data[b - First + 1]
          BY <1>6, <3>2, <4>1
      <4> QED BY <3>1, <4>1, <4>2 DEF New
    <3> QED BY <1>6, <3>2, <3>3, <3>4, <3>5, <3>6
  <2>5. ASSUME asked.name = "write" \/ asked.idle, NEW b \in call'.offset .. Hi' - 1
        PROVE  /\ b >= chunk'.at => memory'[b] = Old(b)'
               /\ b < chunk'.at - DATA_ALIGN_SIZE => memory'[b] = New(b)'
               /\ b < chunk'.at /\ b >= chunk'.at - DATA_ALIGN_SIZE =>
                     Min2(memory'[b], busy'.data[b - busy'.at + 1]) = New(b)'
    <3>1. b \in call.offset .. Hi - 1
        BY <1>1, <1>2
    <3> QED BY <1>1, <1>2, <1>8, <1>9, <2>2, <2>4, <2>5, <3>1, Zenon
  <2>6. \A b \in busy'.at .. busy'.at + DATA_ALIGN_SIZE - 1 :
            b \notin call'.offset .. Hi' - 1 => busy'.data[b - busy'.at + 1] = 1
      BY <1>1, <1>2, <1>9, <2>3
  <2> QED BY <1>1, <1>9, <2>2, <2>5, <2>6 DEF ProgramSound
<1>14. Harmless'
    BY <1>1, <1>2, <1>9 DEF Harmless
<1> QED BY <1>2, <1>10, <1>11, <1>12, <1>13, <1>14 DEF FlashInv

\* All bytes of a block are written: what is promised up to its end is done.
LEMMA BlockIsWritten ==
    ASSUME FlashInv, pc = "write_word", chunk.data = <<>>, asked.name = "write" \/ asked.idle
    PROVE  \A b \in call.offset .. Hi - 1 : memory[b] = New(b)
<1>1. RegionsSound /\ LeftOver /\ WriteSound /\ ChunkSound /\ ProgramSound
    BY DEF FlashInv
<1>2. Hi \in Nat /\ call.offset \in Nat /\ chunk.at \in Nat
    BY <1>1, HiIs DEF ChunkSound, Programming
<1>3. Hi <= chunk.at
  <2>1. Len(chunk.data) = 0
      OBVIOUS
  <2>2. Len(chunk.data) = IF chunk.at <= Hi THEN Hi - chunk.at ELSE 0
      BY <1>1 DEF ChunkSound, Programming
  <2> QED BY <1>2, <2>1, <2>2
<1>4. \A b \in call.offset .. Hi - 1 : memory[b] = IF b < chunk.at THEN New(b) ELSE Old(b)
    BY <1>1 DEF ProgramSound
<1> QED BY <1>2, <1>3, <1>4

\* A write is promised the data itself, for it programs an erased block.
LEMMA NewIsData ==
    ASSUME LeftOver, asked.name = "write", NEW b \in Nat, b >= First, b < Past
    PROVE  New(b) = asked.data[b - First + 1]
<1>1. First \in Nat /\ Len(asked.data) \in Nat /\ asked.data \in Seq({0, 1}) /\ Past = First + Len(asked.data)
    BY DEF LeftOver, First, Past
<1>2. b - First + 1 \in 1 .. Len(asked.data)
    BY <1>1
<1>3. asked.data[b - First + 1] \in {0, 1}
    BY <1>1, <1>2
<1>4. Old(b) = 1
    BY DEF Old
<1> QED BY <1>3, <1>4, Bits DEF New

\* What a write has done when the block it is in is written.
LEMMA WrittenSoFar ==
    ASSUME FlashInv, pc = "write_word", chunk.data = <<>>, asked.name = "write", asked.fresh
    PROVE  \A b \in First .. Hi - 1 : memory[b] = asked.data[b - First + 1]
<1>1. RegionsSound /\ LeftOver /\ WriteSound
    BY DEF FlashInv
<1>2. /\ Hi \in Nat /\ call.offset \in Nat /\ Hi <= Past /\ First \in Nat /\ Past \in Nat
      /\ First <= call.offset
    BY <1>1, HiIs, ReachIs DEF LeftOver
<1>3. ASSUME NEW b \in First .. Hi - 1 PROVE memory[b] = asked.data[b - First + 1]
  <2>1. CASE b < call.offset
    <3>1. b \in First .. call.offset - 1
        BY <1>2, <2>1
    <3> QED BY <1>1, <3>1 DEF WriteSound
  <2>2. CASE b >= call.offset
    <3>1. b \in call.offset .. Hi - 1 /\ b \in Nat /\ b >= First /\ b < Past
        BY <1>2, <2>2
    <3>2. memory[b] = New(b)
        BY <3>1, BlockIsWritten
    <3> QED BY <1>1, <3>1, <3>2, NewIsData
  <2> QED BY <1>2, <2>1, <2>2
<1> QED BY <1>3

\* A write goes on after its block.
LEMMA BlockMovesOn ==
    ASSUME FlashInv, pc = "write_word", chunk.data = <<>>, UNCHANGED <<device, fixed>>,
           protected' = TRUE, call.name = "write", Done(block) < Len(call.data),
           call' = [call EXCEPT !.offset = BlockEnd(block), !.data = SubSeq(@, Done(block) + 1, Len(@))],
           pc' = "scan", UNCHANGED <<block, ret_code, history, copy>>
    PROVE  FlashInv'
<1>1. UNCHANGED <<memory, busy, status, region_info, block, asked, before>>
    BY DEF device, fixed, history
<1>2. RegionsSound /\ FlashTyped /\ LeftOver /\ WriteSound /\ ProgramSound /\ Harmless
    BY DEF FlashInv
<1>3. asked.name = "write"
    BY <1>2 DEF LeftOver
<1>4. /\ block \in Blocks /\ Start(block) <= call.offset /\ call.offset < Start(block) + page_size
    BY <1>2, <1>3 DEF WriteSound
<1>5. /\ Done(block) \in Nat /\ BlockEnd(block) = call.offset + Done(block) /\ BlockEnd(block) \in Nat
      /\ Len(call.data) \in Nat
    BY <1>2, <1>4, DoneIs
<1>6. LeftOver' /\ call'.data # <<>> /\ call'.offset = BlockEnd(block) /\ call'.name = call.name
    BY <1>1, <1>2, <1>5, MovedOn
<1>7. busy = Idle /\ Idle' = Idle /\ Hi = BlockEnd(block)
    BY <1>2, <1>3, <1>5 DEF ProgramSound, Idle, Hi
<1>8. First' = First /\ Reach' = Reach /\ Blocks' = Blocks /\ Start(block)' = Start(block)
  <2>1. \A i : NumberOfBlocks(i)' = NumberOfBlocks(i)
      BY <1>1 DEF NumberOfBlocks
  <2>2. First' = First /\ Asked' = Asked
      BY <1>1 DEF First, Asked
  <2> QED BY <1>1, <2>1, <2>2 DEF Blocks, Start, Reach
<1>9. RegionsSound' /\ FlashTyped'
  <2>1. protected' /\ pc' \notin Erasing \cup Programming
      BY DEF Erasing, Programming
  <2> QED BY <1>1, <1>2, <2>1, SameFlash
<1>10. CallSound'
    BY <1>1, <1>3 DEF CallSound
<1>11. WriteSound'
  <2>1. asked.fresh => \A b \in First .. BlockEnd(block) - 1 : memory[b] = asked.data[b - First + 1]
      BY <1>3, <1>7, WrittenSoFar
  <2>2. call'.offset = Start(block)' + page_size
      BY <1>6, <1>8 DEF BlockEnd
  <2>3. asked'.fresh =>
            \A b \in First' .. call'.offset - 1 : memory'[b] = asked'.data[b - First' + 1]
      BY <1>1, <1>6, <1>8, <2>1
  <2>4. block' \in Blocks'
      BY <1>1, <1>4, <1>8
  <2> QED BY <1>6, <2>2, <2>3, <2>4 DEF WriteSound
<1>12. EraseSound' /\ ChunkSound' /\ ProgramSound'
    BY DEF EraseSound, ChunkSound, ProgramSound, Erasing, Programming
<1>13. Harmless'
  <2>1. busy'.op = "idle" /\ Bytes' = Bytes
      BY <1>1, <1>7 DEF Idle, Bytes
  <2> QED BY <1>1, <1>2, <1>8, <2>1 DEF Harmless
<1> QED BY <1>6, <1>9, <1>10, <1>11, <1>12, <1>13 DEF FlashInv

LEMMA WriteWordKeeps == ASSUME FlashInv, WriteWord PROVE FlashInv'
<1>1. pc = "write_word" /\ UNCHANGED fixed
    BY DEF WriteWord
<1>2. CASE chunk.data = <<>>
  <2>1. BlockWritten /\ UNCHANGED device
      BY <1>2 DEF WriteWord
  <2>2. CASE call.name = "write" /\ Done(block) < Len(call.data)
    <3>1. /\ protected' = TRUE /\ pc' = "scan"
          /\ call' = [call EXCEPT !.offset = BlockEnd(block),
                                  !.data = SubSeq(@, Done(block) + 1, Len(@))]
          /\ UNCHANGED <<block, ret_code, history, copy>>
        BY <2>1, <2>2 DEF BlockWritten
    <3> QED BY <1>1, <1>2, <2>1, <2>2, <3>1, BlockMovesOn
  <2>3. CASE ~(call.name = "write" /\ Done(block) < Len(call.data))
    <3>1. Return("ok") /\ protected' = TRUE /\ UNCHANGED <<memory, busy, status, region_info>>
        BY <1>1, <2>1, <2>3 DEF BlockWritten, device, fixed
    <3> QED BY <3>1, ReturnKeeps
  <2> QED BY <2>2, <2>3
<1>3. CASE chunk.data # <<>>
  <2>1. /\ UNCHANGED protected
        /\ Command("write", chunk.at - Padding, Word)
        /\ pc' = "write_wait"
        /\ chunk' = [at |-> chunk.at - Padding + DATA_ALIGN_SIZE,
                     data |-> SubSeq(chunk.data, Taken + 1, Len(chunk.data))]
        /\ UNCHANGED <<call, block, ret_code, history, copy>>
      BY <1>3, Zenon DEF WriteWord
  <2> QED BY <1>1, <1>3, <2>1, WordKeeps
<1> QED BY <1>2, <1>3

-----------------------------------------------------------------------------
(* OnchipFlash: the promise                                                *)

LEMMA FlashInit == Init => FlashInv
<1> SUFFICES ASSUME Init PROVE FlashInv
    OBVIOUS
<1>1. PICK available \in SUBSET DOMAIN sectors : region_info \in Regions(available)
    BY DEF Init
<1>2. PICK q \in InOrder(available) : region_info = [i \in DOMAIN q |-> sectors[q[i]]]
    BY <1>1 DEF Regions
<1>3. /\ DOMAIN q = 1 .. Cardinality(available)
      /\ \A i \in DOMAIN q : q[i] \in DOMAIN sectors
      /\ \A i, j \in DOMAIN q : i < j => q[i] < q[j]
    BY <1>1, <1>2 DEF InOrder
<1>4. DOMAIN q \subseteq Nat
    BY <1>3
<1>5. DOMAIN region_info = DOMAIN q /\ \A i \in DOMAIN q : region_info[i] = sectors[q[i]]
    BY <1>2
<1>6. \A s \in DOMAIN sectors : sectors[s] \in [start : Nat, end : Nat]
  <2>1. sectors \in Seq([start : Nat, end : Nat])
      BY GeometryAssumption
  <2>2. DOMAIN sectors = 1 .. Len(sectors)
      BY <2>1
  <2> QED BY <2>1, <2>2, ElementOfSeq
<1>7. RegionsSound
    BY <1>3, <1>4, <1>5, <1>6, GeometryAssumption DEF RegionsSound
<1>8. FlashTyped
    BY DEF Init, FlashTyped, Blank, Idle, Erasing, Programming
<1>9. pc = "ready" /\ block = NoBlock
    BY DEF Init
<1> QED BY <1>7, <1>8, <1>9 DEF FlashInv

\* A line that is dropped, like a step of nothing, leaves all but the cache as it is.
LEMMA FlashNext == FlashInv /\ FreshAhead /\ [Next]_vars => FlashInv'
<1> SUFFICES ASSUME FlashInv, FreshAhead, [Next]_vars PROVE FlashInv'
    OBVIOUS
<1>1. CASE Evict \/ UNCHANGED vars
  <2>1. /\ UNCHANGED <<memory, busy, status, protected, region_info, pc, call, block, chunk>>
        /\ UNCHANGED <<before, asked>>
      BY <1>1 DEF vars, Evict, device, fixed, frame, history
  <2>2. /\ Hi' = Hi /\ Reach' = Reach /\ First' = First /\ Past' = Past
        /\ ErasedAt' = ErasedAt /\ Blocks' = Blocks /\ Start(block)' = Start(block)
        /\ \A b : Old(b)' = Old(b) /\ New(b)' = New(b)
      BY <2>1, SameCall
  <2>3. Bytes' = Bytes /\ \A b : Page(b)' = Page(b)
      BY DEF Bytes, Page
  <2>4. RegionsSound' /\ FlashTyped' /\ (pc' = "ready" => block' = NoBlock)
      BY <2>1, <2>3, RegionsStay DEF FlashInv, FlashTyped
  <2>5. ASSUME pc # "ready"
        PROVE  /\ LeftOver' /\ CallSound' /\ WriteSound' /\ EraseSound' /\ ChunkSound'
               /\ ProgramSound' /\ Harmless'
    <3>1. /\ LeftOver /\ CallSound /\ WriteSound /\ EraseSound /\ ChunkSound /\ ProgramSound /\ Harmless
        BY <2>5 DEF FlashInv
    <3>2. LeftOver' /\ CallSound'
        BY <2>1, <2>2, <3>1 DEF LeftOver, CallSound
    <3>3. WriteSound'
        BY <2>1, <2>2, <3>1 DEF WriteSound
    <3>4. EraseSound'
        BY <2>1, <2>2, <2>3, <3>1 DEF EraseSound
    <3>5. ChunkSound'
        BY <2>1, <2>2, <3>1 DEF ChunkSound
    <3>6. ProgramSound'
        BY <2>1, <2>2, <3>1 DEF ProgramSound
    <3>7. Harmless'
        BY <2>1, <2>2, <2>3, <3>1 DEF Harmless
    <3> QED BY <3>2, <3>3, <3>4, <3>5, <3>6, <3>7
  <2> QED BY <2>1, <2>4, <2>5 DEF FlashInv
<1> QED BY <1>1, CallKeeps, ScanKeeps, EraseIdleKeeps, EraseWaitKeeps, EraseCheckKeeps, WriteIdleKeeps,
           WriteWordKeeps, WriteWaitKeeps, WriteCheckKeeps, FlashCompletes DEF Next, Driver

\* The offset of a write that goes on.
LEMMA EndMoves ==
    ASSUME LeftOver, NEW e, NEW d, call' = [call EXCEPT !.offset = e, !.data = d]
    PROVE  call'.offset = e
BY DEF LeftOver

\* What a step of the driver leaves alone that does not look for a block and does not end
\* the call.
LEMMA DriverQuiet ==
    ASSUME FlashInv, Driver, ~Scan, pc' # "ready"
    PROVE  /\ pc \notin {"ready", "scan"}
           /\ UNCHANGED <<memory, copy, block, asked, region_info>>
           /\ \/ pc' # "scan" /\ call' = call
              \/ pc' = "scan" /\ call'.offset = BlockEnd(block)
<1>1. ASSUME NEW code PROVE ~Return(code) /\ ~Finish(code)
    BY DEF Return, Leave, Finish
<1>2. CASE EraseIdle
    BY <1>1, <1>2 DEF EraseIdle, Command, fixed, frame, history
<1>3. CASE EraseWait
    BY <1>3 DEF EraseWait, device, fixed, frame, history
<1>4. CASE EraseCheck
    BY <1>1, <1>4 DEF EraseCheck, device, fixed, frame, history
<1>5. CASE WriteIdle
    BY <1>1, <1>5 DEF WriteIdle, device, fixed, frame, history
<1>6. CASE WriteWord
  <2>1. CASE chunk.data = <<>>
    <3>1. /\ pc = "write_word" /\ pc' = "scan" /\ UNCHANGED <<memory, copy, block, asked, region_info>>
          /\ call' = [call EXCEPT !.offset = BlockEnd(block),
                                  !.data = SubSeq(@, Done(block) + 1, Len(@))]
        BY <1>1, <1>6, <2>1, Zenon DEF WriteWord, BlockWritten, device, fixed, history
    <3>2. call'.offset = BlockEnd(block)
        BY <3>1, EndMoves DEF FlashInv
    <3> QED BY <3>1, <3>2
  <2>2. CASE chunk.data # <<>>
    <3>1. /\ UNCHANGED <<memory, copy, block, asked, region_info, call>>
          /\ pc = "write_word" /\ pc' = "write_wait"
        BY <1>6, <2>2, Zenon DEF WriteWord, Command, fixed, history
    <3> QED BY <3>1
  <2> QED BY <2>1, <2>2
<1>7. CASE WriteWait
    BY <1>1, <1>7 DEF WriteWait, device, fixed, frame, history
<1>8. CASE WriteCheck
    BY <1>1, <1>8 DEF WriteCheck, device, fixed, frame, history
<1> QED BY <1>2, <1>3, <1>4, <1>5, <1>6, <1>7, <1>8 DEF Driver

\* Where what is ahead begins.
LEMMA AheadIs ==
    ASSUME FlashInv, pc # "ready", asked.name = "write"
    PROVE  /\ Ahead \in Nat /\ Past \in Nat /\ Past <= length /\ length \in Nat
           /\ pc # "scan" => block \in Blocks /\ Start(block) \in Nat /\ page_size \in Nat
<1>1. RegionsSound /\ LeftOver /\ WriteSound
    BY DEF FlashInv
<1>2. /\ Past \in Nat /\ Past <= length /\ length \in Nat /\ page_size \in Nat
      /\ call.offset \in Nat
    BY <1>1, ReachIs, GeometryAssumption DEF LeftOver
<1>3. ASSUME pc # "scan" PROVE block \in Blocks /\ Start(block) \in Nat
  <2>1. block \in Blocks
      BY <1>1, <1>3 DEF WriteSound
  <2> QED BY <1>1, <2>1, BlockIs
<1> QED BY <1>2, <1>3 DEF Ahead, BlockEnd

\* What ends in a write that found the flash idle is of its block.
LEMMA CompletesBehind ==
    ASSUME FlashInv, Complete, pc # "ready", asked.name = "write", asked.fresh,
           NEW b \in Ahead .. Past - 1
    PROVE  memory'[b] = memory[b]
<1>1. /\ RegionsSound /\ FlashTyped /\ LeftOver /\ WriteSound /\ EraseSound /\ ProgramSound
      /\ Harmless /\ asked.idle
    BY DEF FlashInv, LeftOver
<1>2. busy.op \in {"erase", "write"} /\ busy # Idle
    BY <1>1 DEF FlashTyped, Complete, Idle
<1>3. pc \in Erasing \/ pc = "write_wait"
    BY <1>1, <1>2 DEF Harmless
<1>4. /\ block \in Blocks /\ Start(block) \in Nat /\ page_size \in Nat
      /\ Ahead = Start(block) + page_size /\ Past \in Nat /\ Past <= length /\ length \in Nat
    BY <1>3, AheadIs DEF Ahead, BlockEnd, Erasing
<1>5. b \in Bytes /\ b \in Nat /\ Start(block) + page_size <= b
    BY <1>4 DEF Bytes
<1>6. CASE pc \in Erasing
  <2>1. busy.op = "erase" /\ busy.at = Start(block)
      BY <1>1, <1>2, <1>6 DEF EraseSound, ErasedAt
  <2>2. Start(block) % page_size = 0
      BY <1>1, <1>4, BlockIs
  <2>3. b \notin Page(busy.at)
      BY <1>4, <1>5, <2>1, <2>2, PageIs
  <2> QED BY <1>1, <1>5, <2>1, <2>3, Effect
<1>7. CASE pc = "write_wait"
  <2>1. Hi \in Nat /\ Hi <= Start(block) + page_size /\ call.offset \in Nat
      BY <1>1, <1>7, HiIs
  <2>2. b \notin call.offset .. Hi - 1
      BY <1>4, <1>5, <2>1
  <2> QED BY <1>1, <1>2, <1>5, <1>7, <2>2, Effect DEF ProgramSound
<1> QED BY <1>3, <1>6, <1>7

LEMMA FreshNext == FlashInv /\ FreshAhead /\ [Next]_vars => FreshAhead'
<1> SUFFICES ASSUME FlashInv, FreshAhead, [Next]_vars,
                    pc' # "ready", asked'.name = "write", asked'.fresh
             PROVE  \A b \in Ahead' .. Past' - 1 : Seen(b)' = memory'[b]
    BY DEF FreshAhead
<1>1. CASE Call
  <2>1. PICK offset \in Offsets, data \in Data : Begin("write", offset, data, "scan") /\ memory' = memory
      BY <1>1 DEF Call, GetInfo, EraseBlock, WriteBlock, Write, Read, Begin, Return, Leave, history, device
  <2>2. Ahead' = offset /\ Past' = offset + Len(data) /\ copy' = copy
      BY <2>1 DEF Begin, Ahead, Past
  <2>3. \A b \in offset .. offset + Len(data) - 1 : Seen(b) = memory[b]
      BY <2>1 DEF Begin
  <2>4. \A b : Seen(b)' = Seen(b)
      BY <2>1, <2>2 DEF Seen
  <2>5. offset \in Nat /\ Len(data) \in Nat
      BY GeometryAssumption
  <2>6. \A p : p = offset + Len(data) => offset .. p - 1 = offset .. offset + Len(data) - 1
      BY <2>5
  <2> QED BY <2>1, <2>2, <2>3, <2>4, <2>6, Zenon
<1>2. CASE ~Call
  <2>1. asked' = asked /\ pc # "ready" /\ Past' = Past /\ region_info' = region_info
    <3>1. asked' = asked /\ pc # "ready" /\ region_info' = region_info
      <4>1. CASE Driver /\ ~Scan
          BY <4>1, DriverQuiet
      <4>2. CASE Scan
          BY <4>2 DEF Scan, ScanBlock, Return, Leave, history, fixed
      <4>3. CASE Complete \/ Evict \/ UNCHANGED vars
          BY <4>3 DEF Complete, Evict, vars, history, fixed
      <4> QED BY <1>2, <4>1, <4>2, <4>3 DEF Next
    <3> QED BY <3>1 DEF Past
  <2>2. /\ Ahead \in Nat /\ Past \in Nat
        /\ \A b \in Ahead .. Past - 1 : Seen(b) = memory[b]
        /\ \A k : BlockEnd(k)' = BlockEnd(k)
      BY <2>1, AheadIs DEF FreshAhead, BlockEnd, Start
  <2>3. CASE Driver /\ ~Scan
    <3>1. /\ pc \notin {"ready", "scan"}
          /\ UNCHANGED <<memory, copy, block>>
          /\ \/ pc' # "scan" /\ call' = call
             \/ pc' = "scan" /\ call'.offset = BlockEnd(block)
        BY <2>3, DriverQuiet
    <3>2. Ahead' = Ahead
        BY <2>2, <3>1 DEF Ahead
    <3> QED BY <2>1, <2>2, <3>1, <3>2 DEF Seen
  <2>4. CASE Scan
    <3>1. pc = "scan" /\ memory' = memory /\ Next_Blocks # {}
        BY <2>4 DEF Scan, device, Return, Leave
    <3>2. PICK k \in Blocks :
              Start(k) <= call.offset /\ call.offset < Start(k) + page_size /\ ScanBlock(k)
        BY <2>4, <3>1, ScanFinds
    <3>3. copy' = Fill(Compared(k)) /\ Ahead' = BlockEnd(k)
      <4>1. \/ block' = k /\ pc' = "erase_idle" /\ copy' = Fill(Compared(k))
            \/ /\ pc' = pc /\ copy' = Fill(Compared(k))
               /\ call' = [call EXCEPT !.offset = BlockEnd(k), !.data = SubSeq(@, Done(k) + 1, Len(@))]
          BY <3>2, Zenon DEF ScanBlock, Leave
      <4>2. CASE block' = k /\ pc' = "erase_idle" /\ copy' = Fill(Compared(k))
          BY <2>2, <4>2 DEF Ahead
      <4>3. CASE pc' = pc /\ copy' = Fill(Compared(k)) /\ call'.offset = BlockEnd(k)
          BY <3>1, <4>3 DEF Ahead
      <4>4. LeftOver
          BY <3>1 DEF FlashInv
      <4> QED BY <4>1, <4>2, <4>3, <4>4, EndMoves
    <3>4. Start(k) + page_size \in Nat /\ BlockEnd(k) = Start(k) + page_size
      <4>1. RegionsSound
          BY DEF FlashInv
      <4> QED BY <4>1, BlockIs, GeometryAssumption DEF BlockEnd
    <3>5. \A b \in Ahead' .. Past - 1 : b \in Ahead .. Past - 1
        BY <2>2, <3>1, <3>2, <3>3, <3>4 DEF Ahead
    <3>6. \A b : Seen(b)' = Seen(b)
        BY <3>1, <3>3 DEF Fill, Seen
    <3> QED BY <2>1, <2>2, <3>1, <3>5, <3>6
  <2>5. CASE Complete
    <3>1. Ahead' = Ahead /\ copy' = copy
        BY <2>2, <2>5 DEF Complete, Ahead, frame
    <3>2. \A b \in Ahead .. Past - 1 : memory'[b] = memory[b]
        BY <2>1, <2>5, CompletesBehind
    <3> QED BY <2>1, <2>2, <3>1, <3>2 DEF Seen
  <2>6. CASE Evict
    <3>1. Ahead' = Ahead /\ memory' = memory
        BY <2>2, <2>6 DEF Evict, Ahead, frame, device
    <3>2. PICK x \in DOMAIN copy : copy' = Drop(copy, Line(x))
        BY <2>6 DEF Evict
    <3>3. \A b : Seen(b)' = Seen(b) \/ Seen(b)' = memory[b]
        BY <3>1, <3>2 DEF Drop, Seen
    <3> QED BY <2>1, <2>2, <3>1, <3>3
  <2>7. CASE UNCHANGED vars
    <3>1. Ahead' = Ahead /\ copy' = copy /\ memory' = memory
        BY <2>2, <2>7 DEF vars, Ahead
    <3> QED BY <2>1, <2>2, <3>1 DEF Seen
  <2> QED BY <1>2, <2>3, <2>4, <2>5, <2>6, <2>7 DEF Next
<1> QED BY <1>1, <1>2

\* What a call has done when it reports success.
Kept == \A b \in Bytes : Promised(b, memory)

\* A write that finds no block for its next byte has nothing left to write, or was asked
\* for bytes that are in no region.
LEMMA NoBlockLeft ==
    ASSUME FlashInv, pc = "scan", Next_Blocks = {}
    PROVE  Kept
<1>1. RegionsSound /\ LeftOver /\ WriteSound /\ CallSound
    BY DEF FlashInv
<1>2. asked.name = "write"
    BY <1>1 DEF CallSound, Erasing, Programming
<1>3. /\ Asked = First .. Past - 1 /\ First \in Nat /\ Past \in Nat /\ call.offset \in First .. Past
      /\ call.data \in Seq({0, 1}) /\ Len(call.data) = Past - call.offset
    BY <1>1, ReachIs DEF LeftOver
<1>4. ASSUME Asked \subseteq InRegions PROVE call.offset = Past
  <2>1. SUFFICES ASSUME call.offset # Past PROVE FALSE
      OBVIOUS
  <2>2. call.offset \in InRegions /\ call.offset \in Nat
      BY <1>3, <1>4, <2>1
  <2>3. PICK k \in Blocks : Start(k) <= call.offset /\ call.offset < Start(k) + page_size
      BY <1>1, <2>2, RegionsCovered
  <2>4. ~Later(k, block)
      BY <2>3 DEF Next_Blocks, BlockEnd
  <2>5. CASE block = NoBlock
    <3>1. k[1] \in Nat /\ k[2] \in Nat \ {0}
        BY <1>1, BlockIs
    <3>2. block[1] = 0 /\ block[2] = 0
        BY <2>5 DEF NoBlock
    <3> QED BY <2>4, <3>1, <3>2 DEF Later
  <2>6. CASE block \in Blocks /\ call.offset = Start(block) + page_size
    <3>1. Start(block) \in Nat /\ Start(k) \in Nat /\ page_size \in Nat
        BY <1>1, <2>6, BlockIs, GeometryAssumption
    <3>2. Start(block) < Start(k)
        BY <2>3, <2>6, <3>1
    <3> QED BY <1>1, <2>4, <2>6, <3>2, BlocksOrdered
  <2> QED BY <1>1, <1>2, <2>5, <2>6 DEF WriteSound
<1>5. ASSUME Asked \subseteq InRegions, asked.fresh, NEW b \in Asked
      PROVE  memory[b] = asked.data[b - asked.offset + 1]
    BY <1>1, <1>2, <1>3, <1>4, <1>5 DEF WriteSound, First
<1> QED BY <1>2, <1>5 DEF Kept, Promised

\* A write whose last block holds its data already.
LEMMA LastIsSame ==
    ASSUME FlashInv, FreshAhead, pc = "scan", NEW k \in Blocks,
           Start(k) <= call.offset, call.offset < Start(k) + page_size, Same(k),
           Done(k) = Len(call.data)
    PROVE  Kept
<1>1. RegionsSound /\ LeftOver /\ WriteSound /\ CallSound
    BY DEF FlashInv
<1>2. asked.name = "write"
    BY <1>1 DEF CallSound, Erasing, Programming
<1>3. /\ Asked = First .. Past - 1 /\ First \in Nat /\ Past \in Nat /\ call.offset \in First .. Past
      /\ Len(call.data) = Past - call.offset
    BY <1>1, ReachIs DEF LeftOver
<1>4. ASSUME asked.fresh, NEW b \in Asked PROVE memory[b] = asked.data[b - asked.offset + 1]
  <2>1. CASE b < call.offset
      BY <1>1, <1>2, <1>3, <1>4, <2>1 DEF WriteSound, First
  <2>2. CASE b >= call.offset
    <3>1. Done(k) \in Nat /\ Done(k) <= Len(call.data)
        BY <1>1, DoneIs
    <3>2. b \in Nat /\ b < call.offset + Done(k)
        BY <1>3, <1>4, <3>1
    <3> QED BY <1>1, <1>2, <1>4, <2>2, <3>1, <3>2, SameData DEF First
  <2> QED BY <1>3, <1>4, <2>1, <2>2
<1> QED BY <1>2, <1>4 DEF Kept, Promised

\* The end of a call that has programmed its last word.
LEMMA LastIsWritten ==
    ASSUME FlashInv, pc = "write_word", chunk.data = <<>>,
           ~(call.name = "write" /\ Done(block) < Len(call.data))
    PROVE  Kept
<1>1. RegionsSound /\ LeftOver /\ WriteSound /\ CallSound
    BY DEF FlashInv
<1>2. /\ Asked = First .. Past - 1 /\ First \in Nat /\ Past \in Nat /\ call.offset \in First .. Past
      /\ Len(call.data) = Past - call.offset /\ call.name = asked.name
    BY <1>1, ReachIs DEF LeftOver
<1>3. CASE asked.name = "write"
  <2>1. Hi = Past
    <3>1. Hi = call.offset + Done(block) /\ Done(block) \in Nat /\ Done(block) <= Len(call.data)
        BY <1>1, <1>3, HiIs
    <3> QED BY <1>2, <1>3, <3>1
  <2>2. asked.fresh => \A b \in Asked : memory[b] = asked.data[b - asked.offset + 1]
      BY <1>2, <1>3, <2>1, WrittenSoFar DEF First
  <2> QED BY <1>3, <2>2 DEF Kept, Promised
<1>4. CASE asked.name = "write_block"
  <2>1. Hi = Past /\ call.offset = First
      BY <1>1, <1>4 DEF Hi, CallSound
  <2>2. ASSUME asked.idle, NEW b \in Asked
        PROVE  memory[b] = Min2(before[b], asked.data[b - asked.offset + 1])
    <3>1. memory[b] = New(b)
        BY <1>2, <2>1, <2>2, BlockIsWritten
    <3> QED BY <1>4, <3>1 DEF New, Old, First
  <2> QED BY <1>4, <2>2 DEF Kept, Promised
<1> QED BY <1>1, <1>3, <1>4 DEF CallSound, Erasing

\* A page that is erased.
LEMMA PageIsErased ==
    ASSUME FlashInv, pc = "erase_check", status.erase, call.name # "write"
    PROVE  Kept
<1>1. LeftOver /\ EraseSound /\ CallSound
    BY DEF FlashInv
<1>2. asked.name = "erase_block" /\ call.offset = asked.offset
    BY <1>1 DEF CallSound, Programming, LeftOver, First
<1>3. \A b \in Page(asked.offset) : memory[b] = 1
    BY <1>1, <1>2 DEF EraseSound, Erasing, ErasedAt
<1> QED BY <1>2, <1>3 DEF Kept, Promised

\* Every way out of a call is one of Leave.
LEMMA FlashLeaves ==
    ASSUME Next, pc # "ready", pc' = "ready"
    PROVE  \E code, cached : Leave(code, cached)
<1>1. ~Call /\ ~Complete /\ ~EraseWait /\ ~Evict
    BY DEF Call, GetInfo, EraseBlock, WriteBlock, Write, Read, Complete, EraseWait, Evict
<1>2. ASSUME NEW code, Return(code) PROVE \E c, cached : Leave(c, cached)
    BY <1>2 DEF Return
<1>3. ASSUME NEW code, Finish(code) PROVE \E c, cached : Leave(c, cached)
    BY <1>2, <1>3 DEF Finish
<1>4. CASE Scan
  <2>1. ASSUME NEW k, ScanBlock(k) PROVE \E code, cached : Leave(code, cached)
      BY <2>1 DEF ScanBlock
  <2> QED BY <1>2, <1>4, <2>1, Zenon DEF Scan
<1>5. CASE EraseIdle
    BY <1>2, <1>5 DEF EraseIdle
<1>6. CASE EraseCheck
    BY <1>3, <1>6 DEF EraseCheck
<1>7. CASE WriteIdle
    BY <1>2, <1>7 DEF WriteIdle
<1>8. CASE WriteWord
    BY <1>2, <1>8 DEF WriteWord, BlockWritten
<1>9. CASE WriteWait
    BY <1>3, <1>9 DEF WriteWait
<1>10. CASE WriteCheck
    BY <1>3, <1>10 DEF WriteCheck
<1> QED BY <1>1, <1>4, <1>5, <1>6, <1>7, <1>8, <1>9, <1>10 DEF Next, Driver

\* A call that ends leaves the memory alone, and has kept its promise if it says so.
LEMMA FlashReturns ==
    ASSUME FlashInv, FreshAhead, Next, pc # "ready", pc' = "ready"
    PROVE  memory' = memory /\ (ret_code' = "ok" => Kept)
<1>1. ~Call /\ ~Complete /\ ~EraseWait /\ ~Evict
    BY DEF Call, GetInfo, EraseBlock, WriteBlock, Write, Read, Complete, EraseWait, Evict
<1>2. CASE Scan
  <2>1. pc = "scan" /\ memory' = memory
      BY <1>2 DEF Scan, device
  <2>2. CASE Next_Blocks = {}
      BY <2>1, <2>2, NoBlockLeft
  <2>3. CASE Next_Blocks # {}
    <3>1. PICK k \in Blocks :
              Start(k) <= call.offset /\ call.offset < Start(k) + page_size /\ ScanBlock(k)
        BY <1>2, <2>3, ScanFinds
    <3>2. CASE Same(k)
      <4>1. Done(k) = Len(call.data)
          BY <2>1, <3>1, <3>2 DEF ScanBlock
      <4> QED BY <2>1, <3>1, <3>2, <4>1, LastIsSame
    <3>3. CASE ~Same(k)
        BY <2>1, <3>1, <3>3 DEF ScanBlock, Leave
    <3> QED BY <3>2, <3>3
  <2> QED BY <2>2, <2>3
<1>3. CASE EraseIdle
    BY <1>3 DEF EraseIdle, Return, Leave, device
<1>4. CASE EraseCheck
  <2>1. pc = "erase_check" /\ memory' = memory
      BY <1>4 DEF EraseCheck, device
  <2>2. PICK code \in PollPassed(status.erase) :
            IF call.name = "write" /\ code = "ok"
            THEN LET refusal == WriteRefusal(Start(block), call.offset, Done(block)) IN
                 IF refusal = "ok"
                 THEN /\ protected' = TRUE
                      /\ pc' = "write_idle"
                      /\ chunk' = [at |-> call.offset, data |-> SubSeq(call.data, 1, Done(block))]
                      /\ UNCHANGED <<call, block, ret_code, history, copy>>
                 ELSE Finish(refusal)
            ELSE Finish(code)
      BY <1>4 DEF EraseCheck
  <2>3. CASE call.name = "write" /\ code = "ok"
      BY <2>1, <2>2, <2>3 DEF Finish, Return, Leave
  <2>4. CASE ~(call.name = "write" /\ code = "ok")
    <3>1. ret_code' = code
        BY <2>2, <2>4 DEF Finish, Return, Leave
    <3>2. code = "ok" => status.erase
        BY DEF PollPassed
    <3> QED BY <2>1, <2>4, <3>1, <3>2, PageIsErased
  <2> QED BY <2>3, <2>4
<1>5. CASE WriteIdle
    BY <1>5 DEF WriteIdle, Return, Leave, device
<1>6. CASE WriteWord
  <2>1. pc = "write_word" /\ chunk.data = <<>> /\ BlockWritten /\ UNCHANGED device
      BY <1>6 DEF WriteWord
  <2>2. ~(call.name = "write" /\ Done(block) < Len(call.data))
      BY <2>1 DEF BlockWritten
  <2> QED BY <2>1, <2>2, LastIsWritten DEF device
<1>7. CASE WriteWait
    BY <1>7 DEF WriteWait, Finish, Return, Leave, device
<1>8. CASE WriteCheck
    BY <1>8 DEF WriteCheck, Finish, Return, Leave, device
<1> QED BY <1>1, <1>2, <1>3, <1>4, <1>5, <1>6, <1>7, <1>8 DEF Next, Driver

\* A product with the same factor grows with the other one.
LEMMA Multiples ==
    ASSUME NEW w \in Nat \ {0}, NEW x \in Int, NEW y \in Int, w * x < w * y
    PROVE  x < y
<1>1. ASSUME y <= x PROVE w * y <= w * x
    BY <1>1, Z3
<1>2. w * x \in Int /\ w * y \in Int
    BY Z3
<1> QED BY <1>1, <1>2

\* The lines of some bytes in a row.
LEMMA LinesCover ==
    ASSUME NEW w \in Nat \ {0}, NEW o \in Nat, NEW c \in Nat, NEW b \in Nat, o <= b, b < o + c,
           NEW s, s = (c + w - 1) \div w
    PROVE  /\ o \div w \in Nat /\ b \div w \in Nat /\ s \in Nat
           /\ o \div w <= b \div w
           /\ o % w = 0 => b \div w < o \div w + s
           /\ b \div w < o \div w + s + 1
<1> DEFINE q == o \div w
           r == o % w
           p == b \div w
           u == b % w
           t == (c + w - 1) % w
<1>1. o = w * q + r /\ r \in 0 .. w - 1 /\ q \in Nat
    BY Z3
<1>2. b = w * p + u /\ u \in 0 .. w - 1 /\ p \in Nat
    BY Z3
<1>3. c + w - 1 = w * s + t /\ t \in 0 .. w - 1 /\ s \in Nat
  <2>1. PICK z : z = c + w - 1
      OBVIOUS
  <2>2. z \in Nat
      BY <2>1
  <2>3. z = w * (z \div w) + (z % w) /\ z % w \in 0 .. w - 1 /\ z \div w \in Nat
      BY <2>2, Z3
  <2> QED BY <2>1, <2>3
<1> HIDE DEF q, r, p, u, t
<1>4. w * q \in Nat /\ w * p \in Nat /\ w * s \in Nat
    BY <1>1, <1>2, <1>3, Z3
<1>5. w * (q + s) = w * q + w * s /\ w * (q + s + 1) = w * q + w * s + w /\ w * (p + 1) = w * p + w
    BY <1>1, <1>2, <1>3, Z3
<1>6. c <= w * s
    BY <1>3, <1>4
<1>7. w * q < w * (p + 1)
    BY <1>1, <1>2, <1>4, <1>5
<1>8. w * p < w * (q + s + 1)
    BY <1>1, <1>2, <1>4, <1>5, <1>6
<1>9. r = 0 => w * p < w * (q + s)
    BY <1>1, <1>2, <1>4, <1>5, <1>6
<1>10. q < p + 1 /\ p < q + s + 1 /\ (r = 0 => p < q + s)
    BY <1>1, <1>2, <1>3, <1>7, <1>8, <1>9, Multiples
<1>11. q \in Nat /\ p \in Nat /\ s \in Nat /\ q <= p /\ (r = 0 => p < q + s) /\ p < q + s + 1
    BY <1>1, <1>2, <1>3, <1>10
<1> QED BY <1>11 DEF q, p, r

\* The flush at the end of a write is of every byte it was asked for.
LEMMA FlushCovers == ASSUME LeftOver PROVE Asked \subseteq Flushed
<1> SUFFICES ASSUME NEW b \in Asked PROVE b \in Flushed
    OBVIOUS
<1> DEFINE o == asked.offset
           c == Len(asked.data)
           w == line_size
           s == (c + w - 1) \div w
           more == IF o % w = 0 THEN 0 ELSE 1
<1>1. o \in Nat /\ c \in Nat /\ w \in Nat \ {0}
    BY GeometryAssumption DEF LeftOver
<1>2. b \in Bytes /\ b \in Nat /\ o <= b /\ b < o + c
  <2>1. b \in o .. o + c - 1 /\ b \in Bytes
      BY ReachIs DEF Asked
  <2> HIDE DEF o, c
  <2> QED BY <1>1, <2>1
<1>3. Flushed = {x \in Bytes : x \div w \in o \div w .. o \div w + s + more - 1}
    BY DEF Flushed
<1> HIDE DEF o, c, w, s
<1>4. /\ o \div w \in Nat /\ b \div w \in Nat /\ s \in Nat
      /\ o \div w <= b \div w
      /\ o % w = 0 => b \div w < o \div w + s
      /\ b \div w < o \div w + s + 1
    BY <1>1, <1>2, LinesCover DEF s
<1>5. b \div w \in o \div w .. o \div w + s + more - 1
  <2>1. CASE o % w = 0
      BY <1>4, <2>1
  <2>2. CASE o % w # 0
      BY <1>4, <2>2
  <2> QED BY <2>1, <2>2
<1> QED BY <1>2, <1>3, <1>5

LEMMA FlashPromised ==
    ASSUME FlashInv, FreshAhead, [Next]_vars
    PROVE  pc # "ready" /\ pc' = "ready" =>
              /\ protected'
              /\ ret_code' = "ok" => \A b \in Bytes : Promised(b, memory')
              /\ asked.name = "write" => Asked \cap DOMAIN copy' = {}
              /\ asked.idle => \A b \in Bytes \ Reach : memory'[b] = before[b]
<1> SUFFICES ASSUME pc # "ready", pc' = "ready"
             PROVE  /\ protected'
                    /\ ret_code' = "ok" => \A b \in Bytes : Promised(b, memory')
                    /\ asked.name = "write" => Asked \cap DOMAIN copy' = {}
                    /\ asked.idle => \A b \in Bytes \ Reach : memory'[b] = before[b]
    OBVIOUS
<1>1. Next
    BY DEF vars
<1>2. protected'
    BY FlashNext DEF FlashInv, FlashTyped, Erasing, Programming
<1>3. memory' = memory /\ (ret_code' = "ok" => Kept)
    BY <1>1, FlashReturns
<1>4. LeftOver /\ Harmless
    BY DEF FlashInv
<1>5. ASSUME asked.name = "write" PROVE Asked \cap DOMAIN copy' = {}
  <2>1. PICK code, cached : Leave(code, cached)
      BY <1>1, FlashLeaves
  <2>2. copy' = Drop(cached, Flushed)
      BY <1>4, <1>5, <2>1 DEF Leave, LeftOver
  <2>3. DOMAIN copy' = DOMAIN cached \ Flushed
      BY <2>2 DEF Drop
  <2> QED BY <1>4, <2>3, FlushCovers
<1> QED BY <1>2, <1>3, <1>4, <1>5 DEF Kept, Harmless

LEMMA FlashKeeps == Spec => KeepsPromise
<1>1. FlashInv /\ FreshAhead /\ [Next]_vars
      => [pc # "ready" /\ pc' = "ready" =>
             /\ protected'
             /\ ret_code' = "ok" => \A b \in Bytes : Promised(b, memory')
             /\ asked.name = "write" => Asked \cap DOMAIN copy' = {}
             /\ asked.idle => \A b \in Bytes \ Reach : memory'[b] = before[b]]_vars
    BY FlashPromised
<1>2. Init => FreshAhead
    BY DEF Init, FreshAhead
<1> QED BY <1>1, <1>2, FlashInit, FlashNext, FreshNext, PTL DEF Spec, KeepsPromise

-----------------------------------------------------------------------------
(* The whole: a part keeps its invariant while it moves, and stays as it is *)
(* while another does.                                                     *)

PolledPart == part = "polled" => PolledInv
SpiPart    == part = "spi" => SpiInv
LogPart    == part = "log" => LogInv

LEMMA PartsInit == MCInit => PolledPart /\ SpiPart /\ LogPart /\ AdcInv
<1> SUFFICES ASSUME MCInit PROVE PolledPart /\ SpiPart /\ LogPart /\ AdcInv
    OBVIOUS
<1>1. Polled!Init /\ Adc!Init
    BY DEF MCInit
<1>2. part = "spi" => Spi!Init
    BY DEF MCInit
<1>3. part = "log" => Log!Init
    BY DEF MCInit
<1> QED BY <1>1, <1>2, <1>3, PolledInit, SpiInit, LogInit, AdcInit
        DEF PolledPart, SpiPart, LogPart

\* What a step is to each part.
LEMMA PartSteps ==
    ASSUME [MCNext]_<<part, partVars>>
    PROVE  /\ part' = part
           /\ part = "polled" => [Polled!Next]_(Polled!vars)
           /\ part = "spi" => [Spi!Next]_(Spi!vars)
           /\ part = "log" => [Log!Next]_(Log!vars)
           /\ [Adc!Next]_(Adc!vars)
<1>1. UNCHANGED adcVars => UNCHANGED Adc!vars
    BY DEF adcVars, Adc!vars, Adc!sequencer, Adc!store, Adc!dev, Adc!program, Adc!history
<1>2. CASE UNCHANGED <<part, partVars>>
  <2>1. part' = part /\ UNCHANGED <<polledVars, adcVars, sharedVars>>
      BY <1>2 DEF partVars, uartVars
  <2>2. UNCHANGED Polled!vars
      BY <2>1 DEF polledVars, Polled!vars, Polled!device, Polled!call, Polled!streams
  <2>3. UNCHANGED Spi!vars
      BY <2>1 DEF sharedVars, afterLog, Spi!vars, Spi!master, Spi!progress
  <2>4. UNCHANGED Log!vars
      BY <2>1 DEF sharedVars, Log!vars
  <2> QED BY <1>1, <2>1, <2>2, <2>3, <2>4
<1>3. CASE part = "flash" /\ NotFlash
    BY <1>1, <1>3 DEF NotFlash
<1>4. CASE part = "uart" /\ NotUart
    BY <1>1, <1>4 DEF NotUart
<1>5. CASE part = "polled" /\ Polled!Next /\ NotPolled
    BY <1>1, <1>5 DEF NotPolled
<1>6. CASE part = "adc" /\ Adc!Next /\ NotAdc
    BY <1>6 DEF NotAdc
<1>7. CASE part = "spi" /\ Spi!Next /\ NotSpi
    BY <1>1, <1>7 DEF NotSpi
<1>8. CASE part = "log" /\ Log!Next /\ NotLog
    BY <1>1, <1>8 DEF NotLog
<1> QED BY <1>2, <1>3, <1>4, <1>5, <1>6, <1>7, <1>8 DEF MCNext

LEMMA PartsNext ==
    /\ PolledPart /\ [MCNext]_<<part, partVars>> => PolledPart'
    /\ SpiPart /\ [MCNext]_<<part, partVars>> => SpiPart'
    /\ LogPart /\ [MCNext]_<<part, partVars>> => LogPart'
BY PartSteps, PolledNext, SpiNext, LogNext DEF PolledPart, SpiPart, LogPart

LEMMA PartsKept == MCSpec => [](PolledPart /\ SpiPart /\ LogPart)
<1>1. MCInit => PolledPart /\ SpiPart /\ LogPart
    BY PartsInit
<1> QED BY <1>1, PartsNext, PTL DEF MCSpec

\* Every transaction of the SPI master sends and returns its own bytes, whatever is
\* written and read and however the shifting falls between a status and its use, and
\* the polled JTAG UART loses and misplaces no character in either direction, for every
\* depth of its FIFOs (altera_avalon_spi.c:53-120, altera_avalon_jtag_uart_write.c:71).
THEOREM BytesStayWhole == MCSpec => []BytesKept
<1>1. PolledPart /\ SpiPart => BytesKept
    BY PolledSound, SpiSound DEF PolledPart, SpiPart, BytesKept
<1> QED BY <1>1, PartsKept, PTL

\* Whatever the sizes of the FIFO and of the messages and whichever kinds are on, an
\* interrupt loses no character of the log and the program only one it had found room
\* for before an interrupt wrote; and the echo of a write stays in its buffer and
\* breaks no terminal (alt_log_printf.c:98-101, 440-462).
THEOREM LogStaysSound == MCSpec => []LogSound
<1>1. LogPart => LogSound
    BY DEF LogPart, LogInv, LogSound
<1> QED BY <1>1, PartsKept, PTL

\* With any callbacks, an interrupt of the ADC calls one with its own context only and
\* finds a place to clear its request, wherever it comes in any sequence of calls, but
\* between the stores of a registration begun with interrupts on; and a recalibration
\* takes place and gives the mode back, whatever the sequencer was doing
\* (altera_modular_adc.c:61-67, 161-174, 228-234).
THEOREM AdcStaysSound == MCSpec => AdcSound
<1>1. MCInit => AdcInv
    BY PartsInit
<1>2. AdcInv /\ [MCNext]_<<part, partVars>> => AdcInv'
    BY PartSteps, AdcNext
<1>3. AdcInv => (part = "adc" => Adc!TypeOK /\ Adc!CallbackWhole)
    BY DEF AdcInv
<1>4. AdcInv /\ [MCNext]_<<part, partVars>> => [AdcRecalibrated]_(Adc!vars)
    BY PartSteps, AdcRestores
<1>5. [][AdcRecalibrated]_(Adc!vars) => Adc!Recalibrates
    BY DEF AdcRecalibrated, Adc!Recalibrates
<1> QED BY <1>1, <1>2, <1>3, <1>4, <1>5, PTL DEF MCSpec, AdcSound

LEMMA FlashSteps == [MCNext]_<<part, partVars>> => [Next]_vars
BY DEF MCNext, partVars, NotUart, NotPolled, NotAdc, NotSpi, NotLog

\* Whatever the sizes of the memory, its pages, its words and the lines of the cache,
\* whichever sectors there are and are available, whatever is called, whatever the cache
\* holds and however the flash fails or comes late: every way out of a call puts the write
\* protection back, and one of a write leaves no byte that it was about in the cache; a call
\* that reports success has done what it was asked, a write if its bytes lie in the regions,
\* the flash was idle and the cache showed them as they were; and one that found the flash idle has touched
\* nothing else (altera_onchip_flash.c:131-383).
THEOREM FlashKeepsPromise == MCSpec => KeepsPromise
<1>1. MCInit => Init
    BY DEF MCInit
<1>2. MCSpec => Spec
    BY <1>1, FlashSteps, PTL DEF MCSpec, Spec
<1> QED BY <1>2, FlashKeeps
=============================================================================
