------------------------------ MODULE BoardProofs ------------------------------
(***************************************************************************)
(* The properties that the run of MCBoard checks of the accelerometer      *)
(* reader, the screen, the bar of LEDs and the dimmer, for every value of  *)
(* the constants: any length of the table and of the idle interval, any    *)
(* resolution whose window ends before the line does, any width of the     *)
(* counter of the bar, any number of switches.                             *)
(***************************************************************************)
EXTENDS MCBoard, FiniteSets, FiniteSetTheorems, WellFoundedInduction, TLAPS

\* A transfer: the chip is selected for it, the counter starts one clock later, and it
\* has sent as many clocks as the counter has gone down.
FrameSound ==
    /\ spi_go <=> spi_state = "TRANSFER"
    /\ ~spi_go => ~spi_count_en /\ spi_count = 15
    /\ spi_go => IF spi_count_en THEN pulses = 15 - spi_count
                                 ELSE spi_count = 15 /\ pulses = 0

\* The sensor has as many entries as have been sent, and until it has them all nothing
\* but an entry is sent and nothing is to be read.
TableSent ==
    /\ configured = ini_index
    /\ Configuring /\ spi_go => p2s_data = Write(ini_index)
    /\ Configuring => ~high_byte /\ ~read_back /\ ~read_back_d /\ ~high_byte_d

\* What is read back is chosen when the transfer starts; between two transfers nothing
\* is, and the high byte follows the low one at once.
ReadsChosen ==
    /\ spi_state = "IDLE" => ~read_back
    /\ ~Configuring /\ spi_go =>
          /\ read_back <=> high_byte \/ read_ready
          /\ read_back => p2s_data = IF high_byte THEN Read("X_HB") ELSE Read("X_LB")
    /\ spi_state = "IDLE" /\ ~Configuring => (high_byte <=> read_back_d /\ ~high_byte_d)

\* The answer as far as it has come in: its first bits, in their places.
AnswerSound ==
    /\ spi_count_en /\ read_mode /\ spi_count < 8 =>
          /\ reply.of = p2s_data.entry
          /\ \A i \in 0 .. 7 :
                i + spi_count + 1 <= 7 =>
                    s2p_data[i] = [of |-> reply.of, place |-> i + spi_count + 1,
                                   value |-> reply.value]
          /\ p2s_data.entry = "INT_SOURCE" => reply.value = reported

\* The bytes taken over: the shift register one clock after a transfer, the low byte
\* until the high byte has come.
BytesKept ==
    /\ BytesWhole
    /\ spi_state = "IDLE" /\ read_back_d =>
          WholeByte(s2p_data, IF high_byte_d THEN "X_HB" ELSE "X_LB")
    /\ (spi_go /\ high_byte) \/ (spi_state = "IDLE" /\ read_back_d /\ high_byte_d) =>
          WholeByte(low_byte_data, "X_LB")

\* What the line announces is what the sensor last sent, unless read_ready is still what
\* it came up with.
Announced ==
    settled =>
        /\ read_ready /\ (Configuring \/ ~read_back) => reported \/ leftover
        /\ spi_go /\ ~Configuring /\ ~read_back => p2s_data = Read("INT_SOURCE")

ReaderInv ==
    TypeOK /\ FrameSound /\ TableSent /\ ReadsChosen /\ AnswerSound /\ BytesKept /\ Announced

-----------------------------------------------------------------------------

LEMMA PowerPositive == ASSUME NEW n \in Nat PROVE 2^n \in Nat \ {0}
<1>1. IsFiniteSet(1 .. n) /\ Cardinality(1 .. n) = n
    BY FS_Interval
<1>2. IsFiniteSet(SUBSET (1 .. n)) /\ Cardinality(SUBSET (1 .. n)) = 2^n
    BY <1>1, FS_SUBSET
<1>3. Cardinality(SUBSET (1 .. n)) \in Nat /\ Cardinality(SUBSET (1 .. n)) # 0
    BY <1>2, FS_CardinalityType, FS_EmptySet
<1> QED BY <1>2, <1>3

LEMMA IdleLimit == 2^(IDLE_MSB + 1) \in Nat \ {0}
<1>1. IDLE_MSB + 1 \in Nat
    BY SpiAssumption
<1> QED BY <1>1, PowerPositive

\* A word that is a read is one of the three, and a write one of the table.
LEMMA WordIs ==
    ASSUME NEW w \in Words
    PROVE  \/ w.mode = "read" /\ w.entry \in {"INT_SOURCE", "X_LB", "X_HB"}
           \/ w.mode = "write" /\ w.entry \in 0 .. INI_NUMBER - 1
BY DEF Words, Read, Write

\* How the counter goes down.
LEMMA CountsDown ==
    ASSUME TypeOK, FrameSound, Clock
    PROVE  /\ spi_count_en /\ spi_count # 0 => spi_count_en' /\ spi_count' = spi_count - 1
           /\ SPI_END => ~spi_count_en' /\ spi_count' = 15 /\ spi_count_en
           /\ spi_go /\ ~spi_count_en => spi_count_en' /\ spi_count' = 15
           /\ ~spi_go => ~spi_count_en' /\ spi_count' = 15
<1>1. spi_count \in 0 .. 15 /\ spi_count_en \in BOOLEAN /\ spi_go \in BOOLEAN
    BY DEF TypeOK
<1>2. /\ spi_count_en' <=> spi_count # 0 /\ (spi_go \/ spi_count_en)
      /\ spi_count' = IF spi_count_en THEN (spi_count - 1) % 16 ELSE 15
    BY DEF Clock, SpiController, NextSpiCount, SPI_END
<1>3. (spi_count - 1) % 16 = IF spi_count = 0 THEN 15 ELSE spi_count - 1
    BY <1>1
<1>4. spi_count # 0 => (spi_count - 1) % 16 = spi_count - 1
    BY <1>3
<1>5. spi_count = 0 => (spi_count - 1) % 16 = 15
    BY <1>3
<1>6. spi_count_en /\ spi_count # 0 => spi_count_en' /\ spi_count' = spi_count - 1
    BY <1>1, <1>2, <1>4 DEF SPI_END
<1>7. SPI_END => ~spi_count_en' /\ spi_count' = 15 /\ spi_count_en
    BY <1>1, <1>2, <1>5 DEF SPI_END, FrameSound
<1>8. spi_go /\ ~spi_count_en => spi_count_en' /\ spi_count' = 15
    BY <1>1, <1>2 DEF SPI_END, FrameSound
<1>9. ~spi_go => ~spi_count_en' /\ spi_count' = 15
    BY <1>1, <1>2 DEF SPI_END, FrameSound
<1> QED BY <1>6, <1>7, <1>8, <1>9

\* One edge changes the transfer state as the frames demand.
LEMMA FrameKept == TypeOK /\ FrameSound /\ Clock => FrameSound'
<1> SUFFICES ASSUME TypeOK, FrameSound, Clock PROVE FrameSound'
    OBVIOUS
<1>1. PICK int \in IntSamples : SpiEeConfig(int)
    BY DEF Clock
<1>2. pulses' = IF ~spi_go THEN 0
                ELSE IF spi_count_en /\ pulses < 17 THEN pulses + 1 ELSE pulses
    BY DEF Clock, CountPulses
<1>3. spi_count \in 0 .. 15
    BY DEF TypeOK
<1>4. CASE spi_state = "IDLE"
  <2>1. (spi_go' <=> spi_state' = "TRANSFER")
      BY <1>1, <1>4 DEF SpiEeConfig, ConfigIdle, ConfigTransferEnd, ReadIdle,
             DataTransferEnd, StatusTransferEnd, Transferring, FrameSound
  <2> QED BY <1>2, <1>4, <2>1, CountsDown DEF FrameSound
<1>5. CASE spi_state # "IDLE" /\ SPI_END
  <2>1. spi_go' = FALSE /\ spi_state' = "IDLE"
      BY <1>1, <1>5 DEF SpiEeConfig, ConfigIdle, ConfigTransferEnd, ReadIdle,
             DataTransferEnd, StatusTransferEnd, Transferring
  <2> QED BY <1>5, <2>1, CountsDown DEF FrameSound
<1>6. CASE spi_state # "IDLE" /\ ~SPI_END
  <2>1. spi_go' = spi_go /\ spi_state' = spi_state /\ spi_go
      BY <1>1, <1>6 DEF SpiEeConfig, ConfigIdle, ConfigTransferEnd, ReadIdle,
             DataTransferEnd, StatusTransferEnd, Transferring, configState, FrameSound, TypeOK
  <2>2. CASE spi_count_en
      BY <1>2, <1>3, <1>6, <2>1, <2>2, CountsDown DEF FrameSound, SPI_END
  <2>3. CASE ~spi_count_en
      BY <1>2, <1>3, <1>6, <2>1, <2>3, CountsDown DEF FrameSound, SPI_END
  <2> QED BY <2>2, <2>3
<1> QED BY <1>4, <1>5, <1>6

\* The value of a bit, and the bytes of bits, are of their types after an edge.
LEMMA SensorTypes ==
    ASSUME TypeOK, SensorFetch \/ SensorStore \/ SensorIdle
    PROVE  /\ {data_ready', settled', reported'} \subseteq BOOLEAN
           /\ configured' \in 0 .. INI_NUMBER
           /\ sample' \in Samples \cup {NoSample}
           /\ reply' \in [of : {"INT_SOURCE", "X_LB", "X_HB"}, value : Values]
<1>1. p2s_data \in Words /\ {data_ready, settled, reported} \subseteq BOOLEAN
    BY DEF TypeOK
<1>2. CASE SensorFetch
  <2>1. p2s_data.entry \in {"INT_SOURCE", "X_LB", "X_HB"}
      BY <1>1, <1>2, WordIs DEF SensorFetch, read_mode
  <2>2. (IF p2s_data.entry = "INT_SOURCE" THEN data_ready ELSE sample) \in Values
      BY <1>1 DEF Values, TypeOK
  <2>3. reply' \in [of : {"INT_SOURCE", "X_LB", "X_HB"}, value : Values]
      BY <1>2, <2>1, <2>2 DEF SensorFetch
  <2>4. {data_ready', settled', reported'} \subseteq BOOLEAN
      BY <1>1, <1>2 DEF SensorFetch
  <2> QED BY <1>2, <2>3, <2>4 DEF SensorFetch, TypeOK
<1>3. CASE SensorStore
  <2>1. p2s_data.entry \in 0 .. INI_NUMBER - 1
      BY <1>1, <1>3, WordIs DEF SensorStore, read_mode
  <2>2. configured' \in 0 .. INI_NUMBER
      BY <1>3, <2>1, SpiAssumption DEF SensorStore, TypeOK
  <2> QED BY <1>1, <1>3, <2>2 DEF SensorStore, TypeOK
<1>4. CASE SensorIdle
    BY <1>1, <1>4 DEF SensorIdle, sensorState, TypeOK
<1> QED BY <1>2, <1>3, <1>4

LEMMA ControllerTypes ==
    ASSUME TypeOK, FrameSound, Clock
    PROVE  /\ spi_count_en' \in BOOLEAN /\ spi_count' \in 0 .. 15
           /\ s2p_data' \in [0 .. 7 -> Bits] /\ pulses' \in 0 .. 17
<1>1. spi_count \in 0 .. 15 /\ {spi_go, spi_count_en} \subseteq BOOLEAN /\ pulses \in 0 .. 17
    BY DEF TypeOK
<1>2. spi_count_en' \in BOOLEAN
    BY DEF Clock, SpiController
<1>3. spi_count' \in 0 .. 15
    BY <1>1 DEF Clock, SpiController, NextSpiCount
<1>4. s2p_data' \in [0 .. 7 -> Bits]
  <2>1. ASSUME AnswerDue PROVE Sdio \in Bits
      BY <1>1, <2>1 DEF AnswerDue, Sdio, Bits, TypeOK
  <2>2. s2p_data \in [0 .. 7 -> Bits]
      BY DEF TypeOK
  <2>3. CASE AnswerDue
    <3>1. s2p_data' = [i \in 0 .. 7 |-> IF i = 0 THEN Sdio ELSE s2p_data[i-1]]
        BY <2>3 DEF Clock, SpiController
    <3>2. \A i \in 0 .. 7 : i # 0 => s2p_data[i-1] \in Bits
        BY <2>2
    <3> QED BY <2>1, <2>3, <3>1, <3>2
  <2>4. CASE ~AnswerDue
      BY <2>2, <2>4 DEF Clock, SpiController
  <2> QED BY <2>3, <2>4
<1>5. pulses' \in 0 .. 17
    BY <1>1 DEF Clock, CountPulses
<1> QED BY <1>2, <1>3, <1>4, <1>5

LEMMA ConfigTypes ==
    ASSUME TypeOK, Clock
    PROVE  /\ ini_index' \in 0 .. INI_NUMBER /\ spi_state' \in {"IDLE", "TRANSFER"}
           /\ {spi_go', high_byte', read_back', clear_status', read_ready'} \subseteq BOOLEAN
           /\ p2s_data' \in Words
           /\ read_idle_count' \in 0 .. 2^(IDLE_MSB+1) - 1
           /\ low_byte_data' \in [0 .. 7 -> Bits]
           /\ oDATA' \in [high : [0 .. 7 -> Bits], low : [0 .. 7 -> Bits]]
<1>1. /\ ini_index \in 0 .. INI_NUMBER /\ spi_state \in {"IDLE", "TRANSFER"}
      /\ {spi_go, high_byte, read_back, clear_status, read_ready} \subseteq BOOLEAN
      /\ p2s_data \in Words
      /\ read_idle_count \in 0 .. 2^(IDLE_MSB+1) - 1
      /\ s2p_data \in [0 .. 7 -> Bits] /\ low_byte_data \in [0 .. 7 -> Bits]
      /\ oDATA \in [high : [0 .. 7 -> Bits], low : [0 .. 7 -> Bits]]
    BY DEF TypeOK
<1>2. INI_NUMBER \in Nat
    BY SpiAssumption
<1>3. PICK int \in IntSamples : SpiEeConfig(int)
    BY DEF Clock
<1>4. CASE ConfigIdle
  <2>1. Write(ini_index) \in Words
      BY <1>1, <1>2, <1>4 DEF ConfigIdle, Configuring, Words
  <2> QED BY <1>1, <1>4, <2>1 DEF ConfigIdle
<1>5. CASE ConfigTransferEnd
  <2>1. ini_index' \in 0 .. INI_NUMBER
      BY <1>1, <1>2, <1>5 DEF ConfigTransferEnd, Configuring
  <2> QED BY <1>1, <1>5, <2>1 DEF ConfigTransferEnd
<1>6. CASE ReadIdle(int)
  <2>1. /\ p2s_data' = CASE high_byte                -> Read("X_HB")
                         [] ~high_byte /\ read_ready -> Read("X_LB")
                         [] OTHER -> IF Wake(int.word) THEN Read("INT_SOURCE") ELSE p2s_data
        /\ Read("X_HB") \in Words /\ Read("X_LB") \in Words /\ Read("INT_SOURCE") \in Words
      BY <1>6 DEF ReadIdle, Words
  <2>2. p2s_data' \in Words
      BY <1>1, <2>1
  <2>3. read_idle_count' \in 0 .. 2^(IDLE_MSB+1) - 1
    <3> DEFINE m == 2^(IDLE_MSB+1)
    <3>1. m \in Nat \ {0} /\ read_idle_count' = (read_idle_count + 1) % m /\ read_idle_count \in Nat
        BY <1>1, <1>6, IdleLimit DEF ReadIdle
    <3> HIDE DEF m
    <3>2. read_idle_count' \in 0 .. m - 1
        BY <3>1
    <3> QED BY <3>2 DEF m
  <2>4. low_byte_data' \in [0 .. 7 -> Bits]
      BY <1>1, <1>6 DEF ReadIdle
  <2>5. oDATA' \in [high : [0 .. 7 -> Bits], low : [0 .. 7 -> Bits]]
      BY <1>1, <1>6 DEF ReadIdle
  <2>6. {spi_go', read_back', clear_status'} \subseteq BOOLEAN /\ spi_state' \in {"IDLE", "TRANSFER"}
      BY <1>1, <1>6 DEF ReadIdle
  <2> QED BY <1>1, <1>6, <2>2, <2>3, <2>4, <2>5, <2>6 DEF ReadIdle
<1>7. CASE DataTransferEnd
    BY <1>1, <1>7 DEF DataTransferEnd
<1>8. CASE StatusTransferEnd
  <2>1. read_ready' \in BOOLEAN
    <3>1. StatusBit \in Bits
        BY <1>1 DEF StatusBit
    <3>2. StatusBit.of = "INT_SOURCE" => (StatusBit.place = 7 /\ StatusBit.value) \in BOOLEAN
        OBVIOUS
    <3> QED BY <1>8, <3>2 DEF StatusTransferEnd, Levels
  <2>2. read_idle_count' \in 0 .. 2^(IDLE_MSB+1) - 1
      BY <1>8, IdleLimit DEF StatusTransferEnd
  <2> QED BY <1>1, <1>8, <2>1, <2>2 DEF StatusTransferEnd
<1>9. CASE Transferring
    BY <1>1, <1>9 DEF Transferring, configState
<1> QED BY <1>3, <1>4, <1>5, <1>6, <1>7, <1>8, <1>9 DEF SpiEeConfig

LEMMA ReaderTypes == TypeOK /\ FrameSound /\ Clock => TypeOK'
<1> SUFFICES ASSUME TypeOK, FrameSound, Clock PROVE TypeOK'
    OBVIOUS
<1>1. /\ {high_byte_d', read_back_d'} \subseteq BOOLEAN
      /\ clear_status_d' \in [0 .. 3 -> BOOLEAN]
  <2>1. {high_byte, read_back, clear_status} \subseteq BOOLEAN /\ clear_status_d \in [0 .. 3 -> BOOLEAN]
      BY DEF TypeOK
  <2>2. high_byte_d' = high_byte /\ read_back_d' = read_back
      BY DEF Clock, Delays
  <2>3. clear_status_d' \in [0 .. 3 -> BOOLEAN]
    <3>1. \A i \in 0 .. 3 : i # 0 => clear_status_d[i-1] \in BOOLEAN
        BY <2>1
    <3>2. clear_status_d' = [i \in 0 .. 3 |-> IF i = 0 THEN clear_status
                                                       ELSE clear_status_d[i-1]]
        BY DEF Clock, Delays
    <3> QED BY <2>1, <3>1, <3>2
  <2> QED BY <2>1, <2>2, <2>3
<1>2. SensorFetch \/ SensorStore \/ SensorIdle
    BY DEF Clock
<1>3. leftover' \in BOOLEAN
    BY DEF Clock, AgeReady
<1> QED BY <1>1, <1>2, <1>3, SensorTypes, ControllerTypes, ConfigTypes DEF TypeOK

-----------------------------------------------------------------------------
(* One edge: the table, the choice of the reads, the answer, the bytes      *)

LEMMA EndStops ==
    ASSUME TypeOK, FrameSound
    PROVE  SPI_END => spi_count_en /\ spi_go /\ spi_state = "TRANSFER"
BY DEF TypeOK, FrameSound, SPI_END

LEMMA TableKept ==
    ASSUME TypeOK, FrameSound, TableSent, Clock
    PROVE  TableSent'
<1>1. PICK int \in IntSamples : SpiEeConfig(int)
    BY DEF Clock
<1>2. /\ ini_index \in 0 .. INI_NUMBER /\ INI_NUMBER \in Nat
      /\ spi_count \in 0 .. 15 /\ configured = ini_index /\ p2s_data \in Words
    BY SpiAssumption DEF TypeOK, TableSent
<1>3. high_byte_d' = high_byte /\ read_back_d' = read_back
    BY DEF Clock, Delays
<1>4. CASE Configuring /\ spi_state = "IDLE"
  <2>1. /\ p2s_data' = Write(ini_index) /\ ini_index' = ini_index
        /\ high_byte' = high_byte /\ read_back' = read_back
      BY <1>1, <1>4 DEF SpiEeConfig, ConfigIdle, ConfigTransferEnd, ReadIdle,
             DataTransferEnd, StatusTransferEnd, Transferring
  <2>2. configured' = configured
      BY <1>4 DEF Clock, SensorFetch, SensorStore, SensorIdle, sensorState, FrameSound
  <2> QED BY <1>2, <1>3, <1>4, <2>1, <2>2 DEF TableSent, Configuring
<1>5. CASE Configuring /\ spi_state # "IDLE" /\ SPI_END
  <2>1. /\ ini_index' = ini_index + 1 /\ spi_go' = FALSE
        /\ high_byte' = high_byte /\ read_back' = read_back
      BY <1>1, <1>5 DEF SpiEeConfig, ConfigIdle, ConfigTransferEnd, ReadIdle,
             DataTransferEnd, StatusTransferEnd, Transferring
  <2>2. p2s_data.entry = configured /\ ~read_mode /\ spi_count_en
      BY <1>2, <1>5, EndStops DEF TableSent, Write, read_mode
  <2>3. configured' = configured + 1
      BY <1>5, <2>2 DEF Clock, SensorFetch, SensorStore, SensorIdle, SPI_END
  <2> QED BY <1>2, <1>3, <1>5, <2>1, <2>3 DEF TableSent, Configuring
<1>6. CASE Configuring /\ spi_state # "IDLE" /\ ~SPI_END
  <2>1. UNCHANGED configState
      BY <1>1, <1>6 DEF SpiEeConfig, ConfigIdle, ConfigTransferEnd, ReadIdle,
             DataTransferEnd, StatusTransferEnd, Transferring
  <2>2. ~read_mode
      BY <1>6 DEF TableSent, FrameSound, TypeOK, Write, read_mode
  <2>3. configured' = configured
      BY <1>6, <2>2 DEF Clock, SensorFetch, SensorStore, SensorIdle, SPI_END, sensorState
  <2> QED BY <1>2, <1>3, <1>6, <2>1, <2>3 DEF TableSent, Configuring, configState
<1>7. CASE ~Configuring
  <2>1. ini_index' = ini_index /\ ini_index = INI_NUMBER
      BY <1>1, <1>2, <1>7 DEF SpiEeConfig, ConfigIdle, ConfigTransferEnd, ReadIdle,
             DataTransferEnd, StatusTransferEnd, Transferring, configState, Configuring
  <2>2. ~read_mode => p2s_data.entry \in 0 .. INI_NUMBER - 1
      BY <1>2, WordIs DEF read_mode
  <2>3. configured' = configured
    <3>1. SensorStore => p2s_data.entry # configured
        BY <1>2, <2>1, <2>2 DEF SensorStore
    <3> QED BY <3>1 DEF Clock, SensorFetch, SensorStore, SensorIdle, sensorState
  <2> QED BY <1>2, <2>1, <2>3 DEF TableSent, Configuring
<1> QED BY <1>4, <1>5, <1>6, <1>7

LEMMA ReadsKept ==
    ASSUME TypeOK, FrameSound, TableSent, ReadsChosen, Clock
    PROVE  ReadsChosen'
<1>1. PICK int \in IntSamples : SpiEeConfig(int)
    BY DEF Clock
<1>2. high_byte_d' = high_byte /\ read_back_d' = read_back
    BY DEF Clock, Delays
<1>3. {spi_go, high_byte, read_back, read_ready} \subseteq BOOLEAN /\ ini_index \in Int
    BY SpiAssumption DEF TypeOK
<1>4. CASE Configuring /\ spi_state = "IDLE"
  <2>1. /\ spi_state' = "TRANSFER" /\ ini_index' = ini_index
        /\ high_byte' = high_byte /\ read_back' = read_back
      BY <1>1, <1>4 DEF SpiEeConfig, ConfigIdle, ConfigTransferEnd, ReadIdle,
             DataTransferEnd, StatusTransferEnd, Transferring
  <2> QED BY <1>4, <2>1 DEF ReadsChosen, Configuring
<1>5. CASE Configuring /\ spi_state # "IDLE" /\ SPI_END
  <2>1. /\ spi_go' = FALSE /\ high_byte' = high_byte /\ read_back' = read_back
      BY <1>1, <1>5 DEF SpiEeConfig, ConfigIdle, ConfigTransferEnd, ReadIdle,
             DataTransferEnd, StatusTransferEnd, Transferring
  <2> QED BY <1>2, <1>5, <2>1 DEF ReadsChosen, TableSent
<1>6. CASE spi_state # "IDLE" /\ ~SPI_END
  <2>1. UNCHANGED configState
      BY <1>1, <1>6 DEF SpiEeConfig, ConfigIdle, ConfigTransferEnd, ReadIdle,
             DataTransferEnd, StatusTransferEnd, Transferring
  <2> QED BY <1>6, <2>1 DEF configState, ReadsChosen, Configuring
<1>7. CASE ~Configuring /\ spi_state = "IDLE"
  <2>1. /\ p2s_data' = CASE high_byte                -> Read("X_HB")
                         [] ~high_byte /\ read_ready -> Read("X_LB")
                         [] OTHER -> IF Wake(int.word) THEN Read("INT_SOURCE") ELSE p2s_data
        /\ read_back' = (read_back \/ high_byte \/ read_ready)
        /\ UNCHANGED <<ini_index, high_byte, read_ready>>
        /\ IF high_byte \/ read_ready \/ Wake(int.go)
           THEN spi_go' = TRUE /\ spi_state' = "TRANSFER"
           ELSE UNCHANGED <<spi_go, spi_state>>
      BY <1>1, <1>7 DEF SpiEeConfig, ConfigIdle, ConfigTransferEnd, ReadIdle,
             DataTransferEnd, StatusTransferEnd, Transferring
  <2>2. ~read_back /\ ~spi_go
      BY <1>7 DEF ReadsChosen, FrameSound
  <2>3. read_back' <=> high_byte' \/ read_ready'
      BY <2>1, <2>2
  <2>4. read_back' => p2s_data' = IF high_byte' THEN Read("X_HB") ELSE Read("X_LB")
      BY <2>1, <2>2
  <2>5. spi_state' = "IDLE" => ~read_back' /\ ~high_byte'
      BY <2>1, <2>2, <1>7
  <2> QED BY <1>2, <2>2, <2>3, <2>4, <2>5 DEF ReadsChosen
<1>8. CASE ~Configuring /\ spi_state # "IDLE" /\ SPI_END
  <2>1. spi_go
      BY <1>8, EndStops
  <2>2. /\ spi_go' = FALSE /\ spi_state' = "IDLE" /\ ~read_back'
        /\ high_byte' = IF read_back THEN ~high_byte ELSE high_byte
      BY <1>1, <1>3, <1>8 DEF SpiEeConfig, ConfigIdle, ConfigTransferEnd, ReadIdle,
             DataTransferEnd, StatusTransferEnd, Transferring
  <2>3. ~read_back => ~high_byte
      BY <1>8, <2>1 DEF ReadsChosen
  <2> QED BY <1>2, <1>3, <2>2, <2>3 DEF ReadsChosen
<1> QED BY <1>4, <1>5, <1>6, <1>7, <1>8

\* The shift register takes one bit while the answer is due.
LEMMA Shifts ==
    ASSUME TypeOK, AnswerDue, Clock, AnswerSound, spi_count_en
    PROVE  /\ reply' = reply /\ reported' = reported
           /\ \A i \in 0 .. 7 : i + spi_count <= 7 =>
                 s2p_data'[i] = [of |-> reply.of, place |-> i + spi_count,
                                 value |-> reply.value]
<1>1. spi_count \in 0 .. 7 /\ read_mode /\ spi_count < 8
    BY DEF TypeOK, AnswerDue
<1>2. reply' = reply /\ reported' = reported
    BY <1>1 DEF Clock, SensorFetch, SensorStore, SensorIdle, sensorState
<1>3. s2p_data' = [i \in 0 .. 7 |-> IF i = 0 THEN Sdio ELSE s2p_data[i-1]]
    BY DEF Clock, SpiController
<1>4. ASSUME NEW i \in 0 .. 7, i + spi_count <= 7
      PROVE  s2p_data'[i] = [of |-> reply.of, place |-> i + spi_count, value |-> reply.value]
  <2>1. CASE i = 0
      BY <1>1, <1>3, <2>1 DEF Sdio
  <2>2. CASE i # 0
    <3>1. PICK j \in 0 .. 7 : j = i - 1 /\ j + spi_count + 1 = i + spi_count
        BY <1>1, <2>2
    <3>2. s2p_data[j] = [of |-> reply.of, place |-> j + spi_count + 1, value |-> reply.value]
        BY <1>1, <1>4, <3>1 DEF AnswerSound
    <3> QED BY <1>3, <2>2, <3>1, <3>2
  <2> QED BY <2>1, <2>2
<1> QED BY <1>2, <1>4

LEMMA AnswerKept ==
    ASSUME TypeOK, FrameSound, AnswerSound, Clock
    PROVE  AnswerSound'
<1>1. PICK int \in IntSamples : SpiEeConfig(int)
    BY DEF Clock
<1>2. SUFFICES ASSUME spi_count_en', read_mode', spi_count' < 8
               PROVE  /\ reply'.of = p2s_data'.entry
                      /\ \A i \in 0 .. 7 :
                            i + spi_count' + 1 <= 7 =>
                                s2p_data'[i] = [of |-> reply'.of, place |-> i + spi_count' + 1,
                                                value |-> reply'.value]
                      /\ p2s_data'.entry = "INT_SOURCE" => reply'.value = reported'
    BY DEF AnswerSound
<1>3. /\ spi_count_en /\ spi_count # 0 /\ spi_count' = spi_count - 1 /\ spi_count \in 1 .. 8
      /\ spi_go /\ ~SPI_END
  <2>1. spi_count_en /\ spi_count # 0
      BY <1>2, CountsDown DEF SPI_END, FrameSound, TypeOK
  <2>2. spi_count \in 0 .. 15
      BY DEF TypeOK
  <2> QED BY <1>2, <2>1, <2>2, CountsDown DEF SPI_END, FrameSound
<1>4. p2s_data' = p2s_data /\ read_mode
  <2>1. UNCHANGED configState
      BY <1>1, <1>3 DEF SpiEeConfig, ConfigIdle, ConfigTransferEnd, ReadIdle,
             DataTransferEnd, StatusTransferEnd, Transferring, FrameSound
  <2> QED BY <1>2, <2>1 DEF configState, read_mode
<1>5. CASE spi_count = 8
  <2>1. SensorFetch
      BY <1>3, <1>4, <1>5 DEF Clock, SensorStore, SensorIdle
  <2>2. reply'.of = p2s_data.entry /\ (p2s_data.entry = "INT_SOURCE" => reply'.value = reported')
      BY <2>1 DEF SensorFetch
  <2>3. \A i \in 0 .. 7 : ~(i + spi_count' + 1 <= 7)
      BY <1>3, <1>5
  <2> QED BY <1>4, <2>2, <2>3
<1>6. CASE spi_count < 8
  <2>1. AnswerDue
      BY <1>4, <1>6 DEF AnswerDue
  <2>2. \A i \in 0 .. 7 : i + spi_count' + 1 = i + spi_count
      BY <1>3
  <2>3. reply.of = p2s_data.entry /\ (p2s_data.entry = "INT_SOURCE" => reply.value = reported)
      BY <1>3, <1>4, <1>6 DEF AnswerSound
  <2> QED BY <1>3, <1>4, <2>1, <2>2, <2>3, Shifts
<1> QED BY <1>3, <1>5, <1>6

LEMMA BytesStay ==
    ASSUME TypeOK, FrameSound, TableSent, ReadsChosen, AnswerSound, BytesKept, Clock
    PROVE  BytesKept'
<1>1. PICK int \in IntSamples : SpiEeConfig(int)
    BY DEF Clock
<1>2. high_byte_d' = high_byte /\ read_back_d' = read_back
    BY DEF Clock, Delays
<1>3. {spi_go, high_byte, read_back, read_ready} \subseteq BOOLEAN /\ ini_index \in Int
    BY SpiAssumption DEF TypeOK
<1>4. CASE Configuring /\ spi_state = "IDLE"
  <2>1. /\ spi_state' = "TRANSFER" /\ high_byte' = high_byte /\ oDATA' = oDATA
      BY <1>1, <1>4 DEF SpiEeConfig, ConfigIdle, ConfigTransferEnd, ReadIdle,
             DataTransferEnd, StatusTransferEnd, Transferring
  <2> QED BY <1>4, <2>1 DEF BytesKept, BytesWhole, TableSent
<1>5. CASE Configuring /\ spi_state # "IDLE" /\ SPI_END
  <2>1. /\ spi_go' = FALSE /\ oDATA' = oDATA
      BY <1>1, <1>5 DEF SpiEeConfig, ConfigIdle, ConfigTransferEnd, ReadIdle,
             DataTransferEnd, StatusTransferEnd, Transferring
  <2> QED BY <1>2, <1>5, <2>1 DEF BytesKept, BytesWhole, TableSent
<1>6. CASE spi_state # "IDLE" /\ ~SPI_END
  <2>1. UNCHANGED configState
      BY <1>1, <1>6 DEF SpiEeConfig, ConfigIdle, ConfigTransferEnd, ReadIdle,
             DataTransferEnd, StatusTransferEnd, Transferring
  <2>2. /\ spi_state' # "IDLE" /\ spi_go' = spi_go /\ high_byte' = high_byte
        /\ oDATA' = oDATA /\ low_byte_data' = low_byte_data
      BY <1>6, <2>1 DEF configState
  <2> QED BY <2>2 DEF BytesKept, BytesWhole, WholeByte
<1>7. CASE ~Configuring /\ spi_state = "IDLE"
  <2>1. /\ oDATA' = IF read_back_d /\ high_byte_d
                    THEN [high |-> s2p_data, low |-> low_byte_data] ELSE oDATA
        /\ low_byte_data' = IF read_back_d /\ ~high_byte_d THEN s2p_data ELSE low_byte_data
        /\ high_byte' = high_byte
      BY <1>1, <1>7 DEF SpiEeConfig, ConfigIdle, ConfigTransferEnd, ReadIdle,
             DataTransferEnd, StatusTransferEnd, Transferring
  <2>2. ~read_back_d'
      BY <1>2, <1>7 DEF ReadsChosen
  <2>3. BytesWhole'
    <3>1. CASE read_back_d /\ high_byte_d
      <4>1. oDATA'.high = s2p_data /\ oDATA'.low = low_byte_data
          BY <2>1, <3>1
      <4>2. WholeByte(s2p_data, "X_HB") /\ WholeByte(low_byte_data, "X_LB")
          BY <1>7, <3>1 DEF BytesKept
      <4> QED BY <4>1, <4>2 DEF BytesWhole, WholeByte
    <3>2. CASE ~(read_back_d /\ high_byte_d)
      <4>1. oDATA' = oDATA
          BY <2>1, <3>2
      <4> QED BY <4>1 DEF BytesKept, BytesWhole, WholeByte
    <3> QED BY <3>1, <3>2
  <2>4. high_byte' => WholeByte(low_byte_data', "X_LB")
    <3> SUFFICES ASSUME high_byte PROVE WholeByte(low_byte_data', "X_LB")
        BY <2>1
    <3>1. read_back_d /\ ~high_byte_d
        BY <1>7 DEF ReadsChosen
    <3>2. low_byte_data' = s2p_data /\ WholeByte(s2p_data, "X_LB")
        BY <1>7, <2>1, <3>1 DEF BytesKept
    <3> QED BY <3>2
  <2>5. WholeByte(low_byte_data, "X_LB")' <=> WholeByte(low_byte_data', "X_LB")
      BY DEF WholeByte
  <2> QED BY <2>2, <2>3, <2>4, <2>5 DEF BytesKept
<1>8. CASE ~Configuring /\ spi_state # "IDLE" /\ SPI_END
  <2>1. spi_go /\ spi_count_en /\ spi_count = 0
      BY <1>8, EndStops DEF SPI_END
  <2>2. /\ spi_go' = FALSE /\ oDATA' = oDATA /\ low_byte_data' = low_byte_data
      BY <1>1, <1>3, <1>8 DEF SpiEeConfig, ConfigIdle, ConfigTransferEnd, ReadIdle,
             DataTransferEnd, StatusTransferEnd, Transferring
  <2>3. BytesWhole'
      BY <2>2 DEF BytesKept, BytesWhole, WholeByte
  <2>4. CASE read_back
    <3>1. p2s_data = IF high_byte THEN Read("X_HB") ELSE Read("X_LB")
        BY <1>8, <2>1, <2>4 DEF ReadsChosen
    <3>2. AnswerDue /\ read_mode
        BY <2>1, <3>1 DEF AnswerDue, read_mode, Read
    <3>3. reply.of = IF high_byte THEN "X_HB" ELSE "X_LB"
        BY <2>1, <3>1, <3>2 DEF AnswerSound, Read
    <3>4. \A i \in 0 .. 7 : s2p_data'[i] = [of |-> reply.of, place |-> i, value |-> reply.value]
      <4>1. \A i \in 0 .. 7 : i + spi_count = i
          BY <2>1
      <4> QED BY <2>1, <3>2, <4>1, Shifts
    <3>5. WholeByte(s2p_data', IF high_byte THEN "X_HB" ELSE "X_LB")
        BY <3>3, <3>4 DEF WholeByte
    <3>6. WholeByte(s2p_data, IF high_byte_d THEN "X_HB" ELSE "X_LB")'
        BY <1>2, <3>5 DEF WholeByte
    <3>7. high_byte => WholeByte(low_byte_data, "X_LB")
        BY <2>1 DEF BytesKept
    <3> QED BY <1>2, <2>2, <2>3, <3>6, <3>7 DEF BytesKept, WholeByte
  <2>5. CASE ~read_back
      BY <1>2, <2>2, <2>3, <2>5 DEF BytesKept
  <2> QED BY <2>4, <2>5
<1> QED BY <1>4, <1>5, <1>6, <1>7, <1>8

LEMMA AnnouncedKept ==
    ASSUME TypeOK, FrameSound, TableSent, ReadsChosen, AnswerSound, Announced, Clock
    PROVE  Announced'
<1>1. PICK int \in IntSamples : SpiEeConfig(int)
    BY DEF Clock
<1>2. settled' = settled
    BY DEF Clock, SensorFetch, SensorStore, SensorIdle, sensorState
<1> SUFFICES ASSUME settled
             PROVE  /\ read_ready' /\ (Configuring' \/ ~read_back') => reported' \/ leftover'
                    /\ spi_go' /\ ~Configuring' /\ ~read_back' => p2s_data' = Read("INT_SOURCE")
    BY <1>2 DEF Announced
<1>3. {spi_go, high_byte, read_back, read_ready} \subseteq BOOLEAN /\ ini_index \in Int
    BY SpiAssumption DEF TypeOK
<1>4. CASE spi_state # "IDLE" /\ ~SPI_END
  <2>1. UNCHANGED configState
      BY <1>1, <1>4 DEF SpiEeConfig, ConfigIdle, ConfigTransferEnd, ReadIdle,
             DataTransferEnd, StatusTransferEnd, Transferring
  <2>2. reported' # reported => ~Configuring /\ spi_go /\ read_mode
    <3>1. SensorFetch => read_mode /\ spi_go
        BY DEF SensorFetch, FrameSound
    <3>2. read_mode /\ spi_go => ~Configuring
        BY DEF TableSent, Write, read_mode
    <3> QED BY <3>1, <3>2 DEF Clock, SensorFetch, SensorStore, SensorIdle, sensorState
  <2>3. read_ready /\ spi_go /\ ~Configuring => read_back
      BY DEF ReadsChosen
  <2>4. leftover => leftover'
      BY <1>4 DEF Clock, AgeReady
  <2> QED BY <2>1, <2>2, <2>3, <2>4 DEF configState, Announced, Configuring
<1>5. CASE spi_state = "IDLE" \/ SPI_END
  <2>1. reported' = reported
    <3>1. ~(spi_count_en /\ spi_count = 8)
        BY <1>5 DEF FrameSound, SPI_END
    <3> QED BY <3>1 DEF Clock, SensorFetch, SensorStore, SensorIdle, sensorState
  <2>2. CASE Configuring /\ spi_state = "IDLE"
    <3>1. ini_index' = ini_index /\ read_ready' = read_ready /\ read_back' = read_back
        BY <1>1, <2>2 DEF SpiEeConfig, ConfigIdle, ConfigTransferEnd, ReadIdle,
             DataTransferEnd, StatusTransferEnd, Transferring
    <3>2. leftover => leftover'
        BY <2>2 DEF Clock, AgeReady
    <3> QED BY <2>1, <2>2, <3>1, <3>2 DEF Announced, Configuring
  <2>3. CASE Configuring /\ spi_state # "IDLE"
    <3>1. ~spi_go' /\ read_ready' = read_ready /\ read_back' = read_back
        BY <1>1, <1>5, <2>3 DEF SpiEeConfig, ConfigIdle, ConfigTransferEnd, ReadIdle,
             DataTransferEnd, StatusTransferEnd, Transferring
    <3>2. leftover => leftover'
        BY <2>3 DEF Clock, AgeReady
    <3> QED BY <2>1, <2>3, <3>1, <3>2 DEF Announced
  <2>4. CASE ~Configuring /\ spi_state = "IDLE"
    <3>1. /\ p2s_data' = CASE high_byte                -> Read("X_HB")
                         [] ~high_byte /\ read_ready -> Read("X_LB")
                         [] OTHER -> IF Wake(int.word) THEN Read("INT_SOURCE") ELSE p2s_data
          /\ read_back' = (read_back \/ high_byte \/ read_ready)
          /\ UNCHANGED <<ini_index, high_byte, read_ready>>
          /\ IF high_byte \/ read_ready \/ Wake(int.go)
             THEN spi_go' = TRUE /\ spi_state' = "TRANSFER"
             ELSE UNCHANGED <<spi_go, spi_state>>
        BY <1>1, <2>4 DEF SpiEeConfig, ConfigIdle, ConfigTransferEnd, ReadIdle,
             DataTransferEnd, StatusTransferEnd, Transferring
    <3>2. ~Configuring' /\ ~spi_go
        BY <2>4, <3>1 DEF Configuring, FrameSound
    <3>3. int.word = int.go
        BY DEF IntSamples
    <3>4. ASSUME spi_go', ~read_back' PROVE p2s_data' = Read("INT_SOURCE")
      <4>1. ~high_byte /\ ~read_ready
          BY <3>1, <3>4
      <4>2. Wake(int.go)
          BY <3>1, <3>2, <3>4, <4>1
      <4> QED BY <3>1, <3>3, <4>1, <4>2
    <3>5. read_ready' => read_back'
        BY <3>1
    <3> QED BY <3>2, <3>4, <3>5
  <2>5. CASE ~Configuring /\ spi_state # "IDLE" /\ read_back
    <3>1. ~spi_go' /\ read_ready' = FALSE
        BY <1>1, <1>5, <2>5 DEF SpiEeConfig, ConfigIdle, ConfigTransferEnd, ReadIdle,
             DataTransferEnd, StatusTransferEnd, Transferring
    <3> QED BY <3>1
  <2>6. CASE ~Configuring /\ spi_state # "IDLE" /\ ~read_back
    <3>1. ~spi_go' /\ read_ready' \in Levels(StatusBit)
        BY <1>1, <1>5, <2>6 DEF SpiEeConfig, ConfigIdle, ConfigTransferEnd, ReadIdle,
             DataTransferEnd, StatusTransferEnd, Transferring
    <3>2. spi_go /\ spi_count_en /\ spi_count = 0
        BY <1>5, <2>6, EndStops DEF SPI_END
    <3>3. p2s_data = Read("INT_SOURCE")
        BY <2>6, <3>2 DEF Announced
    <3>4. read_mode /\ p2s_data.entry = "INT_SOURCE" /\ spi_count < 8
        BY <3>2, <3>3 DEF read_mode, Read
    <3>5. s2p_data[6] = [of |-> reply.of, place |-> 7, value |-> reply.value]
        BY <3>2, <3>4 DEF AnswerSound
    <3>6. reply.of = "INT_SOURCE" /\ reply.value = reported
        BY <3>2, <3>4 DEF AnswerSound
    <3>7. /\ StatusBit = [of |-> reply.of, place |-> 7, value |-> reply.value]
          /\ StatusBit.of = "INT_SOURCE" /\ StatusBit.place = 7 /\ StatusBit.value = reported
        BY <3>5, <3>6 DEF StatusBit
    <3>8. Levels(StatusBit) = {StatusBit.place = 7 /\ StatusBit.value}
        BY <3>7 DEF Levels
    <3>9. read_ready' = (StatusBit.place = 7 /\ StatusBit.value)
        BY <3>1, <3>8
    <3>10. read_ready' => reported
        BY <3>7, <3>9
    <3> QED BY <2>1, <3>1, <3>10
  <2> QED BY <2>2, <2>3, <2>4, <2>5, <2>6
<1> QED BY <1>4, <1>5

-----------------------------------------------------------------------------
(* The invariant                                                           *)

LEMMA ReaderInit == Init => ReaderInv
<1> SUFFICES ASSUME Init PROVE ReaderInv
    OBVIOUS
<1>1. INI_NUMBER \in Nat /\ INI_NUMBER > 0 /\ IDLE_MSB \in Nat
    BY SpiAssumption
<1>2. NoBit \in Bits
    BY DEF NoBit, Bits, Values
<1>3. low_byte_data \in [0 .. 7 -> Bits] /\ Write(0) \in Words
    BY <1>1, <1>2 DEF Init, Words
<1>4. 0 \in 0 .. 2^(IDLE_MSB+1) - 1
    BY IdleLimit
<1>5. oDATA \in [high : [0 .. 7 -> Bits], low : [0 .. 7 -> Bits]]
    BY <1>3 DEF Init
<1>6. reply \in [of : {"INT_SOURCE", "X_LB", "X_HB"}, value : Values]
    BY DEF Init, Values
<1>7. clear_status_d \in [0 .. 3 -> BOOLEAN]
    BY DEF Init
<1>8. TypeOK
  <2>1. /\ ini_index \in 0 .. INI_NUMBER /\ configured \in 0 .. INI_NUMBER
        /\ spi_count \in 0 .. 15 /\ pulses \in 0 .. 17
        /\ read_idle_count \in 0 .. 2^(IDLE_MSB+1) - 1
      BY <1>1, <1>4 DEF Init
  <2>2. /\ {spi_go, high_byte, read_back, clear_status, read_ready, high_byte_d,
            read_back_d, spi_count_en, data_ready, settled, reported, leftover} \subseteq BOOLEAN
        /\ spi_state \in {"IDLE", "TRANSFER"} /\ p2s_data \in Words
        /\ s2p_data \in [0 .. 7 -> Bits] /\ sample \in Samples \cup {NoSample}
      BY <1>3 DEF Init
  <2> QED BY <1>3, <1>5, <1>6, <1>7, <2>1, <2>2 DEF TypeOK
<1>9. FrameSound /\ TableSent /\ ReadsChosen /\ AnswerSound /\ Announced
    BY <1>1 DEF Init, FrameSound, TableSent, ReadsChosen, AnswerSound, Announced, Configuring
<1>10. BytesKept
  <2>1. oDATA.high[0] = NoBit
      BY DEF Init
  <2> QED BY <2>1 DEF Init, BytesKept, BytesWhole
<1> QED BY <1>8, <1>9, <1>10 DEF ReaderInv

LEMMA ReaderNext == ReaderInv /\ [Next]_vars => ReaderInv'
<1> SUFFICES ASSUME ReaderInv, [Next]_vars PROVE ReaderInv'
    OBVIOUS
<1>1. CASE Clock
  <2>1. TypeOK' /\ FrameSound'
      BY <1>1, ReaderTypes, FrameKept DEF ReaderInv
  <2>2. TableSent' /\ ReadsChosen' /\ AnswerSound'
      BY <1>1, TableKept, ReadsKept, AnswerKept DEF ReaderInv
  <2>3. BytesKept' /\ Announced'
      BY <1>1, BytesStay, AnnouncedKept DEF ReaderInv
  <2> QED BY <2>1, <2>2, <2>3 DEF ReaderInv
<1>2. CASE NewSample
  <2>1. /\ UNCHANGED <<configState, delayState, shiftState, configured, reply, settled,
                       reported, pulses, leftover>>
        /\ data_ready' \in BOOLEAN /\ sample' \in Samples \cup {NoSample}
      BY <1>2 DEF NewSample
  <2>2. TypeOK'
      BY <2>1 DEF ReaderInv, TypeOK, configState, delayState, shiftState
  <2>3. FrameSound' /\ TableSent' /\ ReadsChosen'
      BY <2>1 DEF ReaderInv, FrameSound, TableSent, ReadsChosen, Configuring, configState,
             delayState, shiftState
  <2>4. AnswerSound' /\ BytesKept' /\ Announced'
      BY <2>1 DEF ReaderInv, AnswerSound, BytesKept, BytesWhole, WholeByte, Announced,
             read_mode, Configuring, configState, delayState, shiftState
  <2> QED BY <2>2, <2>3, <2>4 DEF ReaderInv
<1>3. CASE UNCHANGED vars
  <2>1. TypeOK'
      BY <1>3 DEF vars, ReaderInv, TypeOK, configState, delayState, shiftState, sensorState
  <2>2. FrameSound' /\ TableSent' /\ ReadsChosen'
      BY <1>3 DEF vars, ReaderInv, FrameSound, TableSent, ReadsChosen, Configuring,
             configState, delayState, shiftState, sensorState
  <2>3. AnswerSound' /\ BytesKept' /\ Announced'
      BY <1>3 DEF vars, ReaderInv, AnswerSound, BytesKept, BytesWhole, WholeByte, Announced,
             read_mode, Configuring, configState, delayState, shiftState, sensorState
  <2> QED BY <2>1, <2>2, <2>3 DEF ReaderInv
<1> QED BY <1>1, <1>2, <1>3 DEF Next

LEMMA ReaderInvSound == ReaderInv => ReaderSound
<1> SUFFICES ASSUME ReaderInv PROVE ReaderSound
    OBVIOUS
<1>1. ASSUME spi_go, read_mode PROVE configured = INI_NUMBER
  <2>1. ~Configuring
      BY <1>1 DEF ReaderInv, TableSent, Write, read_mode
  <2> QED BY <2>1, SpiAssumption DEF ReaderInv, TableSent, TypeOK, Configuring
<1>2. ConfiguredFirst /\ ReadsOnlyReady
    BY <1>1 DEF ConfiguredFirst, ReadsOnlyReady, ReaderInv, Announced
<1> QED BY <1>2 DEF ReaderSound, ReaderInv, BytesKept

LEMMA FramesStayWhole ==
    ReaderInv /\ [Next]_vars
      => [/\ spi_go /\ ~spi_go' => pulses' = 16
          /\ spi_go => p2s_data' = p2s_data]_vars
<1> SUFFICES ASSUME ReaderInv, Next, spi_go
             PROVE  (~spi_go' => pulses' = 16) /\ p2s_data' = p2s_data
    BY DEF Next
<1>1. CASE NewSample
    BY <1>1 DEF NewSample, configState
<1>2. CASE Clock
  <2>1. PICK int \in IntSamples : SpiEeConfig(int)
      BY <1>2 DEF Clock
  <2>2. spi_state # "IDLE" /\ spi_count \in 0 .. 15
      BY DEF ReaderInv, FrameSound, TypeOK
  <2>3. p2s_data' = p2s_data /\ (~spi_go' => SPI_END)
      BY <2>1, <2>2 DEF SpiEeConfig, ConfigIdle, ConfigTransferEnd, ReadIdle,
             DataTransferEnd, StatusTransferEnd, Transferring, configState
  <2>4. SPI_END => spi_count_en /\ pulses = 15
      BY DEF ReaderInv, FrameSound, SPI_END
  <2>5. SPI_END => pulses' = 16
      BY <1>2, <2>4 DEF Clock, CountPulses
  <2> QED BY <2>3, <2>5
<1> QED BY <1>1, <1>2 DEF Next

LEMMA ReaderPart == MCSpec => Spec
<1>1. MCInit => Init
    BY DEF MCInit, ReaderIdle
<1>2. [MCNext]_<<board, boards>> => [Next]_vars
    BY DEF MCNext, boards, ReaderClock, ReaderSample, DimmerSlow, DimmerPwm, DimmerMove,
           DisplayClock, BarStep, OthersThanDimmer, Next
<1> QED BY <1>1, <1>2, PTL DEF MCSpec, Spec

\* The accelerometer is configured before it is read; where the line is settled, a
\* measurement is read only when it was announced, but for one pair at the start if
\* read_ready comes up TRUE; and the bytes put out are the whole bytes of X_HB and X_LB, each
\* taken from the shift register the clock after its transfer (spi_ee_config.v:82-93, 137, 163).
THEOREM ReaderStaysSound == MCSpec => []ReaderSound
<1>1. Spec => []ReaderInv
    BY ReaderInit, ReaderNext, PTL DEF Spec
<1> QED BY <1>1, ReaderPart, ReaderInvSound, PTL

\* Every transfer has exactly sixteen clocks, and its word stays while the chip is
\* selected (spi_controller.v:60-80, spi_ee_config.v:93-165).
THEOREM TransfersWhole == MCSpec => FramesWhole
<1>1. Spec => []ReaderInv
    BY ReaderInit, ReaderNext, PTL DEF Spec
<1>2. Spec => FramesWhole
    BY <1>1, FramesStayWhole, PTL DEF Spec, FramesWhole
<1> QED BY <1>2, ReaderPart

-----------------------------------------------------------------------------
(* The display                                                             *)

\* Each stage of the pipeline holds the pixel that the place on the screen will need when
\* it has come through the stages after it.

\* The column and the row of a register so many clocks after the coordinates are
\* compared; the address of a pixel; and the column shown for a column.
ColumnAt(delay) == H_Cont - (Vga!X_START + delay)
Pixel(row, column) == row * H_SYNC_ACT + column
Shown(column) == IF column < H_SYNC_ACT - 5 THEN column ELSE H_SYNC_ACT - 5
Rows == 0 .. V_SYNC_ACT - 1
Columns == 0 .. H_SYNC_ACT - 1

\* The pixel that a register holds for the place at this delay.
Holds(delay) == Pixel(Vga!Row, Shown(ColumnAt(delay)))

\* The coordinates stop at the last column.
CoordinatesSound ==
    Vga!Row \in Rows /\ ColumnAt(1) >= 0 =>
        /\ oCoord_Y = Vga!Row
        /\ oCoord_X = IF ColumnAt(1) < H_SYNC_ACT THEN ColumnAt(1) ELSE H_SYNC_ACT - 1

\* Stage by stage, for the places that lie on the screen.
StagesSound ==
    Vga!Row \in Rows =>
        /\ ColumnAt(5) \in Columns => oAddress = Holds(5)
        /\ ColumnAt(6) \in Columns => 8 * rdaddress + ADDR_d = Holds(6) /\ ADDR_d \in 0 .. 7
                                /\ rdaddress \in Nat
        /\ ColumnAt(7) \in Columns => 8 * ROM_DATA + 7 - ADDR_dd = Holds(7) /\ ROM_DATA \in Nat
        /\ ColumnAt(8) \in Columns => oRed = Holds(8)
        /\ ColumnAt(9) \in Columns =>
              Cur_Color = IF cursor.on /\ (Vga!Near(ColumnAt(9), cursor.x) \/ Vga!Near(Vga!Row, cursor.y))
                          THEN Vga!Cross ELSE Holds(9)
        /\ ColumnAt(10) \in Columns =>
              R_R = IF cursor.on /\ (Vga!Near(ColumnAt(10), cursor.x) \/ Vga!Near(Vga!Row, cursor.y))
                    THEN Vga!Cross ELSE Holds(10)

SyncSound ==
    /\ H_Cont > H_SYNC_CYC => oVGA_H_SYNC = 1
    /\ V_Cont > V_SYNC_CYC => oVGA_V_SYNC = 1

DarkElsewhere ==
    ~Vga!Visible => R_R = Vga!Black \/ (R_R = Vga!Unknown /\ H_Cont = 0 /\ V_Cont = 0)

DisplayInv == Vga!TypeOK /\ CoordinatesSound /\ StagesSound /\ SyncSound /\ DarkElsewhere

-----------------------------------------------------------------------------

LEMMA DisplayNumbers ==
    ASSUME Vga!VgaAssumption
    PROVE  /\ {H_SYNC_CYC, H_SYNC_BACK, V_SYNC_CYC, V_SYNC_BACK} \subseteq Nat \ {0}
           /\ H_SYNC_ACT \in Nat /\ H_SYNC_ACT > 4 /\ V_SYNC_ACT \in Nat \ {0}
           /\ Vga!X_START \in Nat /\ Vga!X_START > H_SYNC_CYC + 4
           /\ Vga!Y_START \in Nat /\ Vga!Y_START > V_SYNC_CYC
           /\ H_SYNC_TOTAL \in Nat /\ Vga!X_START + 9 + H_SYNC_ACT <= H_SYNC_TOTAL
           /\ V_SYNC_TOTAL \in Nat /\ Vga!Y_START + V_SYNC_ACT <= V_SYNC_TOTAL + 1
           /\ Addresses \in Nat \ {0}
BY DEF Vga!VgaAssumption, Vga!X_START, Vga!Y_START

\* Every pixel has an address.
LEMMA PixelInMemory ==
    ASSUME Vga!VgaAssumption, NEW row \in Rows, NEW column \in Columns
    PROVE  Pixel(row, column) \in 0 .. Addresses - 1
<1>0. /\ H_SYNC_ACT \in Nat /\ V_SYNC_ACT \in Nat /\ Addresses \in Nat
      /\ Addresses >= H_SYNC_ACT * V_SYNC_ACT
    BY DisplayNumbers DEF Vga!VgaAssumption
<1>1. row \in Nat /\ row + 1 <= V_SYNC_ACT /\ column \in Nat /\ column < H_SYNC_ACT
    BY <1>0 DEF Rows, Columns
<1>2. PICK k \in Nat : V_SYNC_ACT = row + 1 + k
    BY <1>0, <1>1
<1>3. H_SYNC_ACT * V_SYNC_ACT = row * H_SYNC_ACT + H_SYNC_ACT + k * H_SYNC_ACT
    BY <1>0, <1>1, <1>2
<1>4. k * H_SYNC_ACT \in Nat /\ row * H_SYNC_ACT \in Nat
    BY <1>0, <1>1, <1>2
<1> QED BY <1>0, <1>1, <1>3, <1>4 DEF Pixel

-----------------------------------------------------------------------------
(* The initial state and one clock edge                                    *)

LEMMA DisplayInvInit == Vga!VgaAssumption /\ Vga!Init => DisplayInv
<1> SUFFICES ASSUME Vga!VgaAssumption, Vga!Init PROVE DisplayInv
    OBVIOUS
<1>1. Vga!TypeOK
    BY DisplayNumbers DEF Vga!Init, Vga!TypeOK
<1>2. Vga!Row \notin Rows /\ ~Vga!Visible
    BY DisplayNumbers DEF Vga!Init, Vga!Row, Rows, Vga!Visible
<1> QED BY <1>1, <1>2, DisplayNumbers DEF Vga!Init, DisplayInv, CoordinatesSound, StagesSound, SyncSound, DarkElsewhere

\* Every address is one of the memory; the counters turn over at their totals.
LEMMA DisplayTypeNext == Vga!VgaAssumption /\ Vga!TypeOK /\ Vga!Clock => Vga!TypeOK'
<1> SUFFICES ASSUME Vga!VgaAssumption, Vga!TypeOK, Vga!Clock PROVE Vga!TypeOK'
    OBVIOUS
<1>1. H_Cont' \in 0 .. H_SYNC_TOTAL /\ oVGA_H_SYNC' \in {0, 1}
    BY DisplayNumbers DEF Vga!TypeOK, Vga!Clock, Vga!HSync
<1>2. V_Cont' \in 0 .. V_SYNC_TOTAL /\ oVGA_V_SYNC' \in {0, 1}
    BY DisplayNumbers DEF Vga!TypeOK, Vga!Clock, Vga!VSync
<1>3. oCoord_X' \in 0 .. H_SYNC_ACT - 1 /\ oCoord_Y' \in 0 .. V_SYNC_ACT - 1
    BY DisplayNumbers DEF Vga!TypeOK, Vga!Clock, Vga!AddressGenerator, Vga!InWindow, Vga!address
<1>4. oAddress' \in 0 .. Addresses - 1
  <2>1. oCoord_Y * H_SYNC_ACT + oCoord_X - Vga!Offset \in Int
      BY DisplayNumbers DEF Vga!TypeOK, Vga!Offset
  <2>2. (oCoord_Y * H_SYNC_ACT + oCoord_X - Vga!Offset) % Addresses \in 0 .. Addresses - 1
      BY <2>1, DisplayNumbers
  <2> QED BY <2>2 DEF Vga!TypeOK, Vga!Clock, Vga!AddressGenerator, Vga!address
<1>5. {ADDR_d', ADDR_dd'} \subseteq 0 .. 7
    BY DisplayNumbers DEF Vga!TypeOK, Vga!Clock, Vga!PictureColour
<1> QED BY <1>1, <1>2, <1>3, <1>4, <1>5 DEF Vga!TypeOK

\* Along a line the row stays and the column grows by one.
LEMMA Along ==
    ASSUME Vga!VgaAssumption, Vga!TypeOK, Vga!Clock, NEW delay \in 1 .. 10, ColumnAt(delay)' >= 0
    PROVE  /\ Vga!Row' = Vga!Row /\ H_Cont' = H_Cont + 1 /\ ColumnAt(delay)' = ColumnAt(delay) + 1
           /\ ColumnAt(delay)' = ColumnAt(delay - 1)
BY DisplayNumbers DEF Vga!TypeOK, Vga!Clock, Vga!HSync, Vga!VSync, ColumnAt, Vga!Row

\* The coordinates follow the counters one clock behind and stop at the last column.
LEMMA CoordinatesNext == Vga!VgaAssumption /\ DisplayInv /\ Vga!Clock => CoordinatesSound'
<1> SUFFICES ASSUME Vga!VgaAssumption, DisplayInv, Vga!Clock, Vga!Row' \in Rows, ColumnAt(1)' >= 0
             PROVE  /\ oCoord_Y' = Vga!Row'
                    /\ oCoord_X' = IF ColumnAt(1)' < H_SYNC_ACT THEN ColumnAt(1)' ELSE H_SYNC_ACT - 1
    BY DEF CoordinatesSound
<1>0. /\ Vga!Row' = Vga!Row /\ H_Cont' = H_Cont + 1 /\ ColumnAt(1)' = ColumnAt(1) + 1
      /\ ColumnAt(1)' = H_Cont - Vga!X_START
  <2>1. Vga!Row' = Vga!Row /\ H_Cont' = H_Cont + 1 /\ ColumnAt(1)' = ColumnAt(1) + 1
      BY Along DEF DisplayInv
  <2> QED BY <2>1, DisplayNumbers DEF DisplayInv, Vga!TypeOK, ColumnAt
<1>1. H_Cont \in Nat /\ V_Cont \in Nat
    BY DisplayNumbers DEF DisplayInv, Vga!TypeOK
<1>2. V_Cont >= Vga!Y_START /\ V_Cont < Vga!Y_START + V_SYNC_ACT
    BY <1>0, <1>1, DisplayNumbers DEF Rows, Vga!Row
<1>3. CASE H_Cont < Vga!X_START + H_SYNC_ACT
  <2>1. Vga!InWindow(0)
      BY <1>0, <1>1, <1>2, <1>3, DisplayNumbers DEF Vga!InWindow
  <2>2. oCoord_X' = H_Cont - Vga!X_START /\ oCoord_Y' = V_Cont - Vga!Y_START
      BY <2>1 DEF Vga!Clock, Vga!AddressGenerator
  <2> QED BY <1>0, <1>1, <1>3, <2>2, DisplayNumbers DEF Vga!Row
<1>4. CASE H_Cont >= Vga!X_START + H_SYNC_ACT
  <2>1. ~Vga!InWindow(0)
      BY <1>1, <1>4, DisplayNumbers DEF Vga!InWindow
  <2>2. oCoord_X' = oCoord_X /\ oCoord_Y' = oCoord_Y
      BY <2>1 DEF Vga!Clock, Vga!AddressGenerator, Vga!address
  <2>3. ColumnAt(1) >= 0 /\ ColumnAt(1) >= H_SYNC_ACT - 1
      BY <1>0, <1>1, <1>4, DisplayNumbers DEF ColumnAt
  <2> QED BY <1>0, <1>1, <1>4, <2>2, <2>3, DisplayNumbers DEF DisplayInv, CoordinatesSound, ColumnAt
<1> QED BY <1>1, <1>3, <1>4, DisplayNumbers

\* The address: the -3 in it makes up for the coordinates before it and for the four
\* clocks in X_START.
LEMMA AddressNext ==
    ASSUME Vga!VgaAssumption, DisplayInv, Vga!Clock, Vga!Row' \in Rows, ColumnAt(5)' \in Columns
    PROVE  oAddress' = Holds(5)'
<1>0. /\ Vga!Row' = Vga!Row /\ H_Cont' = H_Cont + 1 /\ ColumnAt(5)' = ColumnAt(5) + 1
      /\ ColumnAt(5)' = H_Cont - Vga!X_START - 4 /\ ColumnAt(1) = ColumnAt(5)' + 3
      /\ ColumnAt(5)' >= 0 /\ ColumnAt(5)' < H_SYNC_ACT /\ ColumnAt(5)' \in Int
  <2>1. ColumnAt(5)' >= 0 /\ ColumnAt(5)' < H_SYNC_ACT /\ ColumnAt(5)' \in Int
      BY DisplayNumbers DEF Columns
  <2>2. Vga!Row' = Vga!Row /\ H_Cont' = H_Cont + 1 /\ ColumnAt(5)' = ColumnAt(5) + 1
      BY <2>1, Along DEF DisplayInv
  <2> QED BY <2>1, <2>2, DisplayNumbers DEF DisplayInv, Vga!TypeOK, ColumnAt
<1>1. H_Cont \in Nat /\ V_Cont \in Nat
    BY DisplayNumbers DEF DisplayInv, Vga!TypeOK
<1>2. V_Cont >= Vga!Y_START /\ V_Cont < Vga!Y_START + V_SYNC_ACT /\ Vga!Row \in Rows
    BY <1>0, <1>1, DisplayNumbers DEF Rows, Vga!Row
<1>3. /\ oCoord_Y = Vga!Row
      /\ oCoord_X = IF ColumnAt(1) < H_SYNC_ACT THEN ColumnAt(1) ELSE H_SYNC_ACT - 1
    BY <1>0, <1>2, DisplayNumbers DEF DisplayInv, CoordinatesSound
<1>4. CASE H_Cont < Vga!X_START + H_SYNC_ACT
  <2>1. Vga!InWindow(0)
      BY <1>0, <1>1, <1>2, <1>4, DisplayNumbers DEF Vga!InWindow
  <2>2. ColumnAt(1) < H_SYNC_ACT /\ ColumnAt(5)' < H_SYNC_ACT - 4
      BY <1>0, <1>1, <1>4, DisplayNumbers
  <2>3. oCoord_X - Vga!Offset = ColumnAt(5)'
      BY <1>0, <1>3, <2>2, DisplayNumbers DEF Vga!Offset
  <2>4. oCoord_Y * H_SYNC_ACT + oCoord_X - Vga!Offset = Pixel(Vga!Row, ColumnAt(5)')
      BY <1>0, <1>2, <1>3, <2>3, DisplayNumbers DEF Pixel, Vga!Offset, Rows
  <2>5. Pixel(Vga!Row, ColumnAt(5)') \in 0 .. Addresses - 1
      BY <1>2, PixelInMemory
  <2>6. oAddress' = Pixel(Vga!Row, ColumnAt(5)') % Addresses
      BY <2>1, <2>4 DEF Vga!Clock, Vga!AddressGenerator
  <2>7. oAddress' = Pixel(Vga!Row, ColumnAt(5)')
      BY <2>5, <2>6, DisplayNumbers
  <2>8. Shown(ColumnAt(5)') = ColumnAt(5)'
      BY <1>0, <2>2, DisplayNumbers DEF Shown
  <2> QED BY <1>0, <2>7, <2>8 DEF Holds
<1>5. CASE H_Cont >= Vga!X_START + H_SYNC_ACT
  <2>1. ~Vga!InWindow(0)
      BY <1>1, <1>5, DisplayNumbers DEF Vga!InWindow
  <2>2. oAddress' = oAddress
      BY <2>1 DEF Vga!Clock, Vga!AddressGenerator, Vga!address
  <2>3. ColumnAt(5) \in Columns /\ Shown(ColumnAt(5)) = H_SYNC_ACT - 5 /\ Shown(ColumnAt(5)') = H_SYNC_ACT - 5
      BY <1>0, <1>1, <1>5, DisplayNumbers DEF ColumnAt, Columns, Shown
  <2> QED BY <1>0, <1>2, <2>2, <2>3 DEF DisplayInv, StagesSound, Holds
<1> QED BY <1>1, <1>4, <1>5, DisplayNumbers

\* One stage on: what a register after the address takes over from the one before
\* it is for the same place.
LEMMA OneStage ==
    ASSUME Vga!VgaAssumption, DisplayInv, Vga!Clock, NEW delay \in 6 .. 10,
           Vga!Row' \in Rows, ColumnAt(delay)' \in Columns
    PROVE  /\ Vga!Row' = Vga!Row /\ Vga!Row \in Rows /\ Vga!Row \in Int /\ ColumnAt(delay)' = ColumnAt(delay - 1)
           /\ ColumnAt(delay - 1) \in Columns /\ ColumnAt(delay - 1) \in Nat
           /\ ColumnAt(delay)' = H_Cont - (Vga!X_START + (delay - 1))
           /\ Holds(delay)' = Holds(delay - 1)
           /\ Holds(delay - 1) \in Nat
<1>1. ColumnAt(delay)' \in Nat
    BY DisplayNumbers DEF Columns
<1>2. Vga!Row' = Vga!Row /\ ColumnAt(delay)' = ColumnAt(delay - 1)
    BY <1>1, Along DEF DisplayInv
<1>3. Vga!Row \in Rows /\ Vga!Row \in Int /\ ColumnAt(delay - 1) \in Columns /\ ColumnAt(delay - 1) \in Nat
    BY <1>1, <1>2, DisplayNumbers DEF Rows
<1>4. Shown(ColumnAt(delay - 1)) \in Columns
    BY <1>3, DisplayNumbers DEF Shown, Columns
<1>5. Holds(delay - 1) \in 0 .. Addresses - 1
    BY <1>3, <1>4, PixelInMemory DEF Holds
<1>6. Holds(delay)' = Holds(delay - 1)
    BY <1>2 DEF Holds, Pixel, Shown
<1>7. ColumnAt(delay)' = H_Cont - (Vga!X_START + (delay - 1))
    BY <1>2 DEF ColumnAt
<1> QED BY <1>2, <1>3, <1>5, <1>6, <1>7, DisplayNumbers

\* The memory and the place in the byte take two clocks each, the colour one.
LEMMA MemoryNext ==
    ASSUME Vga!VgaAssumption, DisplayInv, Vga!Clock, Vga!Row' \in Rows
    PROVE  /\ ColumnAt(6)' \in Columns => 8 * rdaddress' + ADDR_d' = Holds(6)' /\ ADDR_d' \in 0 .. 7
                                     /\ rdaddress' \in Nat
           /\ ColumnAt(7)' \in Columns => 8 * ROM_DATA' + 7 - ADDR_dd' = Holds(7)' /\ ROM_DATA' \in Nat
           /\ ColumnAt(8)' \in Columns => oRed' = Holds(8)'
<1>1. ASSUME ColumnAt(6)' \in Columns
      PROVE  8 * rdaddress' + ADDR_d' = Holds(6)' /\ ADDR_d' \in 0 .. 7 /\ rdaddress' \in Nat
  <2>1. oAddress = Holds(5) /\ Holds(6)' = Holds(5) /\ Holds(5) \in Nat
      BY <1>1, OneStage DEF DisplayInv, StagesSound
  <2>2. rdaddress' = oAddress \div 8 /\ ADDR_d' = oAddress % 8
      BY DEF Vga!Clock, Vga!PictureMemory, Vga!PictureColour
  <2> QED BY <2>1, <2>2
<1>2. ASSUME ColumnAt(7)' \in Columns
      PROVE  8 * ROM_DATA' + 7 - ADDR_dd' = Holds(7)' /\ ROM_DATA' \in Nat
  <2>1. /\ 8 * rdaddress + ADDR_d = Holds(6) /\ ADDR_d \in 0 .. 7 /\ rdaddress \in Nat
        /\ Holds(7)' = Holds(6)
      BY <1>2, OneStage DEF DisplayInv, StagesSound
  <2>2. ROM_DATA' = rdaddress /\ ADDR_dd' = 7 - ADDR_d
      BY DEF Vga!Clock, Vga!PictureMemory, Vga!PictureColour
  <2> QED BY <2>1, <2>2
<1>3. ASSUME ColumnAt(8)' \in Columns
      PROVE  oRed' = Holds(8)'
  <2>1. /\ 8 * ROM_DATA + 7 - ADDR_dd = Holds(7) /\ ROM_DATA \in Nat
        /\ Holds(8)' = Holds(7)
      BY <1>3, OneStage DEF DisplayInv, StagesSound
  <2>2. ROM_DATA # Vga!Unknown
      BY <2>1 DEF Vga!Unknown
  <2> QED BY <2>1, <2>2 DEF Vga!Clock, Vga!PictureColour
<1> QED BY <1>1, <1>2, <1>3

\* The cursor is laid over the colour, and the colour put out, at the clock at which
\* the window has come to its place: +8 and +9.
LEMMA ColourNext ==
    ASSUME Vga!VgaAssumption, DisplayInv, Vga!Clock, Vga!Row' \in Rows
    PROVE  /\ ColumnAt(9)' \in Columns =>
                 Cur_Color' = IF cursor'.on /\ (Vga!Near(ColumnAt(9)', cursor'.x) \/ Vga!Near(Vga!Row', cursor'.y))
                              THEN Vga!Cross ELSE Holds(9)'
           /\ ColumnAt(10)' \in Columns =>
                 R_R' = IF cursor'.on /\ (Vga!Near(ColumnAt(10)', cursor'.x) \/ Vga!Near(Vga!Row', cursor'.y))
                        THEN Vga!Cross ELSE Holds(10)'
<1>0. cursor' = cursor /\ H_Cont \in Nat /\ V_Cont \in Nat
    BY DisplayNumbers DEF DisplayInv, Vga!TypeOK, Vga!Clock
<1>1. ASSUME NEW delay \in {9, 10}, ColumnAt(delay)' \in Columns
      PROVE  Vga!InWindow(delay - 1)
  <2>1. /\ Vga!Row \in Rows /\ ColumnAt(delay - 1) \in Columns
        /\ ColumnAt(delay - 1) = H_Cont - (Vga!X_START + (delay - 1))
      BY <1>1, OneStage DEF ColumnAt
  <2> QED BY <1>0, <2>1, DisplayNumbers DEF Vga!InWindow, Rows, Columns, Vga!Row
<1>2. ASSUME ColumnAt(9)' \in Columns
      PROVE  Cur_Color' = IF cursor.on /\ (Vga!Near(ColumnAt(9)', cursor.x) \/ Vga!Near(Vga!Row, cursor.y))
                          THEN Vga!Cross ELSE Holds(9)'
  <2>1. oRed = Holds(8) /\ Holds(9)' = Holds(8) /\ ColumnAt(9)' = H_Cont - (Vga!X_START + 8)
      BY <1>2, OneStage DEF DisplayInv, StagesSound
  <2>2. Vga!InWindow(8)
      BY <1>1, <1>2
  <2>3. Vga!OnCross <=> Vga!Near(ColumnAt(9)', cursor.x) \/ Vga!Near(Vga!Row, cursor.y)
      BY <2>1 DEF Vga!OnCross, Vga!Near, Vga!Row
  <2>4. Cur_Color' = IF cursor.on /\ Vga!OnCross THEN Vga!Cross ELSE oRed
      BY <2>2 DEF Vga!Clock, Vga!CursorGenerator
  <2> QED BY <2>1, <2>3, <2>4
<1>3. ASSUME ColumnAt(10)' \in Columns
      PROVE  R_R' = IF cursor.on /\ (Vga!Near(ColumnAt(10)', cursor.x) \/ Vga!Near(Vga!Row, cursor.y))
                    THEN Vga!Cross ELSE Holds(10)'
  <2>1. /\ Holds(10)' = Holds(9) /\ ColumnAt(10)' = ColumnAt(9)
        /\ Cur_Color = IF cursor.on /\ (Vga!Near(ColumnAt(9), cursor.x) \/ Vga!Near(Vga!Row, cursor.y))
                       THEN Vga!Cross ELSE Holds(9)
      BY <1>3, OneStage DEF DisplayInv, StagesSound
  <2>2. Vga!InWindow(9)
      BY <1>1, <1>3
  <2> QED BY <2>1, <2>2 DEF Vga!Clock, Vga!Output
<1>4. Vga!Row' = Vga!Row \/ (ColumnAt(9)' \notin Columns /\ ColumnAt(10)' \notin Columns)
    BY OneStage
<1> QED BY <1>0, <1>2, <1>3, <1>4

LEMMA SyncNext == Vga!VgaAssumption /\ DisplayInv /\ Vga!Clock => SyncSound'
<1> SUFFICES ASSUME Vga!VgaAssumption, DisplayInv, Vga!Clock PROVE SyncSound'
    OBVIOUS
<1>1. H_Cont' > H_SYNC_CYC => oVGA_H_SYNC' = 1
    BY DisplayNumbers DEF DisplayInv, Vga!TypeOK, Vga!Clock, Vga!HSync
<1>2. V_Cont' > V_SYNC_CYC => oVGA_V_SYNC' = 1
    BY DisplayNumbers DEF DisplayInv, Vga!TypeOK, SyncSound, Vga!Clock, Vga!VSync
<1> QED BY <1>1, <1>2 DEF SyncSound

\* Nothing is put out for a place that is not on the screen: the window ends before
\* the line does.
LEMMA DarkNext == Vga!VgaAssumption /\ DisplayInv /\ Vga!Clock => DarkElsewhere'
<1> SUFFICES ASSUME Vga!VgaAssumption, DisplayInv, Vga!Clock, ~Vga!Visible' PROVE R_R' = Vga!Black
    BY DEF DarkElsewhere
<1>1. H_Cont \in Nat /\ V_Cont \in Nat /\ H_Cont <= H_SYNC_TOTAL
    BY DisplayNumbers DEF DisplayInv, Vga!TypeOK
<1>2. SUFFICES ASSUME Vga!InWindow(9) PROVE FALSE
    BY DEF Vga!Clock, Vga!Output
<1>3. H_Cont < H_SYNC_TOTAL /\ H_Cont # 0
    BY <1>1, <1>2, DisplayNumbers DEF Vga!InWindow
<1>4. H_Cont' = H_Cont + 1 /\ V_Cont' = V_Cont
    BY <1>3 DEF Vga!Clock, Vga!HSync, Vga!VSync
<1> QED BY <1>1, <1>2, <1>4, DisplayNumbers DEF Vga!InWindow, Vga!Visible, Vga!Column, Vga!Row

LEMMA DisplayInvNext == Vga!VgaAssumption /\ DisplayInv /\ [Vga!Next]_Vga!vars => DisplayInv'
<1> SUFFICES ASSUME Vga!VgaAssumption, DisplayInv, [Vga!Next]_Vga!vars PROVE DisplayInv'
    OBVIOUS
<1>1. CASE Vga!Clock
  <2>1. Vga!TypeOK' /\ CoordinatesSound' /\ SyncSound' /\ DarkElsewhere'
      BY <1>1, DisplayTypeNext, CoordinatesNext, SyncNext, DarkNext DEF DisplayInv
  <2>2. StagesSound'
      BY <1>1, AddressNext, MemoryNext, ColourNext DEF StagesSound
  <2> QED BY <2>1, <2>2 DEF DisplayInv
<1>2. CASE UNCHANGED Vga!vars
    BY <1>2 DEF Vga!vars, Vga!counters, Vga!address, Vga!memory, DisplayInv, Vga!TypeOK, CoordinatesSound,
                StagesSound, SyncSound, DarkElsewhere, Vga!Row, ColumnAt, Holds, Pixel, Vga!Visible,
                Vga!Column, Shown, Vga!Near
<1> QED BY <1>1, <1>2 DEF Vga!Next

LEMMA InvShowsPicture == Vga!VgaAssumption /\ DisplayInv => Vga!PictureInPlace
<1> SUFFICES ASSUME Vga!VgaAssumption, DisplayInv PROVE Vga!PictureInPlace
    OBVIOUS
<1>1. H_Cont \in Nat /\ V_Cont \in Nat
    BY DisplayNumbers DEF DisplayInv, Vga!TypeOK
<1>2. CASE Vga!Visible
  <2>1. Vga!Row \in Rows /\ ColumnAt(10) \in Columns /\ ColumnAt(10) = Vga!Column
      BY <1>1, <1>2, DisplayNumbers DEF Vga!Visible, Rows, Columns, ColumnAt, Vga!Column
  <2>2. R_R = IF cursor.on /\ (Vga!Near(Vga!Column, cursor.x) \/ Vga!Near(Vga!Row, cursor.y))
              THEN Vga!Cross ELSE Pixel(Vga!Row, Shown(Vga!Column))
      BY <2>1 DEF DisplayInv, StagesSound, Holds
  <2>3. H_Cont > H_SYNC_CYC /\ V_Cont > V_SYNC_CYC
      BY <1>1, <2>1, DisplayNumbers DEF Rows, Columns, Vga!Row, Vga!Column
  <2>4. oVGA_H_SYNC = 1 /\ oVGA_V_SYNC = 1
      BY <2>3 DEF DisplayInv, SyncSound
  <2> QED BY <1>2, <2>2, <2>4 DEF Vga!PictureInPlace, Pixel, Shown
<1>3. CASE ~Vga!Visible
    BY <1>3 DEF DisplayInv, DarkElsewhere, Vga!PictureInPlace
<1> QED BY <1>2, <1>3

LEMMA DisplayInit == MCInit => DisplayInv
BY DisplayAssumption, DisplayInvInit DEF MCInit, VgaIdle

LEMMA DisplayNext == DisplayInv /\ [MCNext]_<<board, boards>> => DisplayInv'
<1>1. [MCNext]_<<board, boards>> => [Vga!Next]_(Vga!vars)
  <2>1. ASSUME UNCHANGED displayVars PROVE UNCHANGED Vga!vars
      BY <2>1 DEF displayVars, Vga!vars, Vga!counters, Vga!address, Vga!memory
  <2> SUFFICES ASSUME [MCNext]_<<board, boards>>, ~UNCHANGED displayVars
               PROVE  Vga!Next
      BY <2>1
  <2> QED BY DEF MCNext, boards, ReaderClock, ReaderSample, DimmerSlow, DimmerPwm, DimmerMove,
             DisplayClock, BarStep, OthersThanDimmer, OthersThanReader
<1> QED BY <1>1, DisplayAssumption, DisplayInvNext

LEMMA DisplaySound == DisplayInv => Vga!TypeOK /\ Vga!PictureInPlace
BY DisplayAssumption, InvShowsPicture DEF DisplayInv

-----------------------------------------------------------------------------
(* The bar of LEDs                                                         *)

\* Until the bar has been quiet for an interval the counter tells for how long.
BarInv ==
    /\ Bar!TypeOK
    /\ int2_count = IF quiet < Bar!Full THEN quiet ELSE Bar!Full

LEMMA FullPositive == Bar!Full \in Nat \ {0}
<1>1. Top \in Nat
    BY LedBarAssumption DEF Bar!BarAssumption
<1> QED BY <1>1, PowerPositive DEF Bar!Full

LEMMA BarInit == MCInit => BarInv
<1>1. MCInit => Bar!Init
    BY DEF MCInit, BarIdle
<1> SUFFICES ASSUME Bar!Init PROVE BarInv
    BY <1>1
<1>2. /\ int2_d[1] \in BOOLEAN /\ int2_d[2] \in BOOLEAN
      /\ iG_INT2 \in BOOLEAN /\ int2_count_en \in BOOLEAN
    BY DEF Bar!Init
<1>3. {iG_INT2, int2_d[1], int2_d[2], int2_count_en} \subseteq BOOLEAN
    BY <1>2
<1>4. int2_count \in 0 .. Bar!Full /\ quiet \in 0 .. Bar!Full + 1
    BY FullPositive DEF Bar!Init
<1>5. int2_count = IF quiet < Bar!Full THEN quiet ELSE Bar!Full
    BY FullPositive DEF Bar!Init
<1>6. iDIG \in Accelerations
    BY DEF Bar!Init
<1> QED BY <1>3, <1>4, <1>5, <1>6 DEF BarInv, Bar!TypeOK

LEMMA BarNext == BarInv /\ [MCNext]_<<board, boards>> => BarInv'
<1> SUFFICES ASSUME BarInv, [MCNext]_<<board, boards>> PROVE BarInv'
    OBVIOUS
<1>0. /\ int2_count \in 0 .. Bar!Full /\ quiet \in 0 .. Bar!Full + 1
      /\ iDIG \in Accelerations /\ iG_INT2 \in BOOLEAN /\ int2_count_en \in BOOLEAN
      /\ int2_d[1] \in BOOLEAN /\ int2_d[2] \in BOOLEAN
    BY DEF BarInv, Bar!TypeOK
<1>1. CASE UNCHANGED barVars
    BY <1>1 DEF barVars, BarInv, Bar!TypeOK
<1>2. CASE Bar!Clock
  <2>1. int2_d' = <<iG_INT2, int2_d[1]>> /\ UNCHANGED <<iDIG, iG_INT2>>
      BY <1>2 DEF Bar!Clock, Bar!inputs
  <2>2. int2_d'[1] \in BOOLEAN /\ int2_d'[2] \in BOOLEAN
      BY <1>0, <2>1
  <2>3. int2_count_en' \in BOOLEAN
      BY <1>2 DEF Bar!Clock
  <2>4. /\ int2_count' = IF Bar!Rising THEN 0 ELSE IF int2_count = Bar!Full THEN Bar!Full ELSE int2_count + 1
        /\ quiet' = IF Bar!Rising THEN 0 ELSE IF quiet <= Bar!Full THEN quiet + 1 ELSE quiet
      BY <1>2 DEF Bar!Clock
  <2>5. /\ int2_count' \in 0 .. Bar!Full /\ quiet' \in 0 .. Bar!Full + 1
        /\ int2_count' = IF quiet' < Bar!Full THEN quiet' ELSE Bar!Full
    <3>1. CASE Bar!Rising
        BY <2>4, <3>1, FullPositive
    <3>2. CASE ~Bar!Rising
        BY <1>0, <2>4, <3>2, FullPositive DEF BarInv
    <3> QED BY <3>1, <3>2
  <2> QED BY <1>0, <2>1, <2>2, <2>3, <2>5 DEF BarInv, Bar!TypeOK
<1>3. ASSUME NEW x \in Accelerations, Bar!Measure(x) PROVE BarInv'
    BY <1>0, <1>3 DEF BarInv, Bar!TypeOK, Bar!Measure
<1>4. CASE Bar!Interrupt
    BY <1>0, <1>4 DEF BarInv, Bar!TypeOK, Bar!Interrupt
<1> QED BY <1>1, <1>2, <1>3, <1>4 DEF MCNext, boards, ReaderClock, ReaderSample, DimmerSlow,
             DimmerPwm, DimmerMove, DisplayClock, BarStep, OthersThanDimmer,
             OthersThanReader, Bar!Next

\* The LEDs of a distance: two, or one taken twice, and twice their middle.
Twice(n) == IF n <= 7 THEN 9 - n ELSE 0

LEMMA RightIs ==
    ASSUME NEW n \in 0 .. 15
    PROVE  \E lo, hi \in 0 .. 9 : Bar!Right(n) = {lo, hi} /\ lo <= hi /\ lo + hi = Twice(n)
<1>1. CASE n = 0
  <2>1. Bar!Right(0) = {4, 5}
      BY DEF Bar!Right
  <2> QED BY <1>1, <2>1 DEF Twice
<1>2. CASE n \in {1, 3, 5, 7}
  <2> DEFINE m == 4 - n \div 2
  <2>1. Bar!Right(n) = {m}
      BY <1>2 DEF Bar!Right
  <2>2. m \in 0 .. 9 /\ m + m = 9 - n
      BY <1>2
  <2> HIDE DEF m
  <2>3. Bar!Right(n) = {m, m}
      BY <2>1
  <2> QED BY <1>2, <2>2, <2>3 DEF Twice
<1>3. CASE n \in {2, 4, 6}
  <2> DEFINE m == 4 - n \div 2
  <2>1. Bar!Right(n) = {m, 5 - n \div 2}
      BY <1>3 DEF Bar!Right
  <2>2. m \in 0 .. 8 /\ m + m + 1 = 9 - n /\ 5 - n \div 2 = m + 1
      BY <1>3
  <2> HIDE DEF m
  <2> QED BY <1>3, <2>1, <2>2 DEF Twice
<1>4. CASE n >= 8
  <2>1. Bar!Right(n) = {0}
      BY <1>4 DEF Bar!Right
  <2>2. Bar!Right(n) = {0, 0}
      BY <2>1
  <2> QED BY <1>4, <2>2 DEF Twice
<1> QED BY <1>1, <1>2, <1>3, <1>4

LEMMA MiddleIs ==
    ASSUME NEW lo \in Int, NEW hi \in Int, lo <= hi
    PROVE  Bar!Middle({lo, hi}) = lo + hi
<1>1. Bar!Max({lo, hi}) = hi
    BY DEF Bar!Max
<1>2. Bar!Min({lo, hi}) = lo
    BY DEF Bar!Min
<1> QED BY <1>1, <1>2 DEF Bar!Middle

LEMMA PairSmall ==
    ASSUME NEW lo, NEW hi
    PROVE  Cardinality({lo, hi}) <= 2 /\ {lo, hi} # {}
<1>1. IsFiniteSet({lo}) /\ Cardinality({lo}) = 1
    BY FS_Singleton
<1>2. Cardinality({lo} \cup {hi}) <= 2
    BY <1>1, FS_AddElement
<1>3. {lo} \cup {hi} = {lo, hi}
    OBVIOUS
<1> QED BY <1>2, <1>3

\* What is selected of an acceleration has five bits and is the complement for its
\* complement; it never moves against the acceleration.
Readings == -512 .. 511

LEMMA SelectedIs ==
    ASSUME NEW x \in Readings, NEW fine \in BOOLEAN
    PROVE  /\ Bar!Selected(x, fine) \in Int
           /\ -16 <= Bar!Selected(x, fine) /\ Bar!Selected(x, fine) <= 15
           /\ Bar!Selected(-x - 1, fine) = -Bar!Selected(x, fine) - 1
<1>0. x \in Int /\ -512 <= x /\ x <= 511
    BY DEF Readings
<1>1. CASE fine
    BY <1>0, <1>1 DEF Bar!Selected
<1>2. CASE ~fine
  <2>1. /\ Bar!Selected(x, fine) = Bar!Clamp(x \div 16)
        /\ Bar!Selected(-x - 1, fine) = Bar!Clamp((-x - 1) \div 16)
      BY <1>2 DEF Bar!Selected
  <2>2. (-x - 1) \div 16 = -(x \div 16) - 1 /\ x \div 16 \in Int
      BY <1>0
  <2>3. PICK q \in Int : q = x \div 16
      BY <2>2
  <2>4. Bar!Clamp(-q - 1) = -Bar!Clamp(q) - 1 /\ Bar!Clamp(q) \in Int
        /\ -16 <= Bar!Clamp(q) /\ Bar!Clamp(q) <= 15
      BY DEF Bar!Clamp
  <2> QED BY <2>1, <2>2, <2>3, <2>4
<1> QED BY <1>1, <1>2

LEMMA SelectedGrows ==
    ASSUME NEW x \in Readings, NEW y \in Readings, x <= y, NEW fine \in BOOLEAN
    PROVE  Bar!Selected(x, fine) <= Bar!Selected(y, fine)
<1>0. x \in Int /\ y \in Int
    BY DEF Readings
<1>1. CASE fine
    BY <1>0, <1>1 DEF Bar!Selected
<1>2. CASE ~fine
  <2>1. PICK p, q \in Int : p = x \div 16 /\ q = y \div 16 /\ p <= q
      BY <1>0
  <2>2. Bar!Clamp(p) <= Bar!Clamp(q)
      BY <2>1 DEF Bar!Clamp
  <2> QED BY <1>2, <2>1, <2>2 DEF Bar!Selected
<1> QED BY <1>1, <1>2

\* The place of a position is twice the middle of its LEDs.
Place(s) == IF s < 0 THEN 18 - Twice(-s - 1) ELSE Twice(s)

LEMMA PositionIs ==
    ASSUME NEW x \in Readings, NEW fine \in BOOLEAN
    PROVE  \E lo, hi \in 0 .. 9 : /\ Bar!Position(x, fine) = {lo, hi} /\ lo <= hi
                                  /\ lo + hi = Place(Bar!Selected(x, fine))
<1>1. PICK s \in Int : s = Bar!Selected(x, fine) /\ -16 <= s /\ s <= 15
    BY SelectedIs
<1>2. Bar!Position(x, fine) = IF s < 0 THEN Bar!Mirrored(Bar!Right(-s - 1)) ELSE Bar!Right(s)
    BY <1>1 DEF Bar!Position
<1>3. CASE s >= 0
  <2>1. s \in 0 .. 15
      BY <1>1, <1>3
  <2>2. PICK lo, hi \in 0 .. 9 : Bar!Right(s) = {lo, hi} /\ lo <= hi /\ lo + hi = Twice(s)
      BY <2>1, RightIs
  <2>3. Place(s) = Twice(s)
      BY <1>3 DEF Place
  <2> QED BY <1>1, <1>2, <1>3, <2>2, <2>3
<1>4. CASE s < 0
  <2>1. -s - 1 \in 0 .. 15
      BY <1>1, <1>4
  <2>2. PICK lo, hi \in 0 .. 9 : /\ Bar!Right(-s - 1) = {lo, hi} /\ lo <= hi
                                 /\ lo + hi = Twice(-s - 1)
      BY <2>1, RightIs
  <2>3. Bar!Mirrored({lo, hi}) = {9 - hi, 9 - lo}
      BY DEF Bar!Mirrored
  <2>4. /\ 9 - hi \in 0 .. 9 /\ 9 - lo \in 0 .. 9 /\ 9 - hi <= 9 - lo
        /\ (9 - hi) + (9 - lo) = 18 - Twice(-s - 1)
      BY <2>2
  <2>5. Bar!Position(x, fine) = {9 - hi, 9 - lo}
      BY <1>2, <1>4, <2>2, <2>3
  <2>6. Place(s) = 18 - Twice(-s - 1)
      BY <1>4 DEF Place
  <2>7. (9 - hi) + (9 - lo) = Place(Bar!Selected(x, fine))
      BY <1>1, <2>4, <2>6
  <2> QED BY <2>4, <2>5, <2>7
<1> QED BY <1>1, <1>3, <1>4

LEMMA PlaceFalls ==
    ASSUME NEW s \in Int, NEW t \in Int, s <= t
    PROVE  Place(t) <= Place(s)
BY DEF Place, Twice

\* The complement of an acceleration is shown at the mirrored place.
LEMMA PositionMirrored ==
    ASSUME NEW x \in Readings, NEW fine \in BOOLEAN
    PROVE  Bar!Position(x, fine) = Bar!Mirrored(Bar!Position(-x - 1, fine))
<1>1. PICK s \in Int : /\ s = Bar!Selected(x, fine) /\ Bar!Selected(-x - 1, fine) = -s - 1
                       /\ -16 <= s /\ s <= 15
    BY SelectedIs
<1>2. CASE s < 0
  <2>1. ~(-s - 1 < 0)
      BY <1>2
  <2>2. Bar!Position(-x - 1, fine) = Bar!Right(-s - 1)
      BY <1>1, <2>1 DEF Bar!Position
  <2>3. Bar!Position(x, fine) = Bar!Mirrored(Bar!Right(-s - 1))
      BY <1>1, <1>2 DEF Bar!Position
  <2> QED BY <2>2, <2>3
<1>3. CASE s >= 0
  <2>1. -s - 1 < 0 /\ -(-s - 1) - 1 = s /\ ~(s < 0) /\ s \in 0 .. 15
      BY <1>1, <1>3
  <2>2. Bar!Position(-x - 1, fine) = Bar!Mirrored(Bar!Right(s)) /\ Bar!Position(x, fine) = Bar!Right(s)
      BY <1>1, <2>1 DEF Bar!Position
  <2>3. PICK lo, hi \in 0 .. 9 : Bar!Right(s) = {lo, hi}
      BY <2>1, RightIs
  <2>4. Bar!Mirrored(Bar!Mirrored({lo, hi})) = {lo, hi}
    <3>1. Bar!Mirrored({lo, hi}) = {9 - hi, 9 - lo}
        BY DEF Bar!Mirrored
    <3>2. Bar!Mirrored({9 - hi, 9 - lo}) = {9 - (9 - hi), 9 - (9 - lo)}
        BY DEF Bar!Mirrored
    <3>3. 9 - (9 - hi) = hi /\ 9 - (9 - lo) = lo
        OBVIOUS
    <3>4. {hi, lo} = {lo, hi}
        OBVIOUS
    <3> QED BY <3>1, <3>2, <3>3, <3>4
  <2> QED BY <2>2, <2>3, <2>4
<1> QED BY <1>1, <1>2, <1>3

LEMMA BarShows == BarInv => Bar!BarInPlace
<1> SUFFICES ASSUME BarInv PROVE Bar!BarInPlace
    OBVIOUS
<1>1. /\ quiet \in 0 .. Bar!Full + 1 /\ iDIG \in Accelerations /\ iG_INT2 \in BOOLEAN
    BY DEF BarInv, Bar!TypeOK
<1>2. Accelerations \subseteq Readings
    BY LedBarAssumption DEF Bar!BarAssumption, Readings
<1>3. CASE quiet < Bar!Full
  <2>1. int2_count # Bar!Full
      BY <1>1, <1>3, FullPositive DEF BarInv
  <2> QED BY <1>1, <1>3, <2>1, FullPositive DEF Bar!BarInPlace, Bar!oLED
<1>4. CASE quiet >= Bar!Full
  <2>1. Bar!oLED = Bar!Position(iDIG, iG_INT2)
      BY <1>1, <1>4, FullPositive DEF BarInv, Bar!oLED
  <2>2. iDIG \in Readings
      BY <1>1, <1>2
  <2>3. PICK lo, hi \in 0 .. 9 : /\ Bar!oLED = {lo, hi} /\ lo <= hi
                                 /\ lo + hi = Place(Bar!Selected(iDIG, iG_INT2))
      BY <1>1, <2>1, <2>2, PositionIs
  <2>4. Bar!oLED # {} /\ Bar!Cardinality(Bar!oLED) <= 2
    <3>1. Bar!oLED # {} /\ Cardinality(Bar!oLED) <= 2
        BY <2>3, PairSmall
    <3>2. Bar!Cardinality(Bar!oLED) = Cardinality(Bar!oLED)
        BY DEF Bar!Cardinality, Cardinality
    <3> QED BY <3>1, <3>2
  <2>5. Bar!oLED = Bar!Mirrored(Bar!Position(-iDIG - 1, iG_INT2))
      BY <1>1, <2>1, <2>2, PositionMirrored
  <2>6. ASSUME NEW x \in Accelerations, x >= iDIG
        PROVE  Bar!Middle(Bar!Position(x, iG_INT2)) <= Bar!Middle(Bar!oLED)
    <3>1. x \in Readings
        BY <1>2
    <3>2. PICK l, h \in 0 .. 9 : /\ Bar!Position(x, iG_INT2) = {l, h} /\ l <= h
                                 /\ l + h = Place(Bar!Selected(x, iG_INT2))
        BY <1>1, <3>1, PositionIs
    <3>3. Bar!Middle(Bar!oLED) = lo + hi /\ Bar!Middle(Bar!Position(x, iG_INT2)) = l + h
        BY <2>3, <3>2, MiddleIs
    <3>4. /\ Bar!Selected(x, iG_INT2) \in Int /\ Bar!Selected(iDIG, iG_INT2) \in Int
          /\ Bar!Selected(iDIG, iG_INT2) <= Bar!Selected(x, iG_INT2)
      <4>1. Bar!Selected(x, iG_INT2) \in Int /\ Bar!Selected(iDIG, iG_INT2) \in Int
          BY <1>1, <2>2, <3>1, SelectedIs
      <4>2. iDIG <= x
          BY <2>2, <2>6, <3>1 DEF Readings
      <4> QED BY <1>1, <2>2, <3>1, <4>1, <4>2, SelectedGrows
    <3>6. Place(Bar!Selected(x, iG_INT2)) <= Place(Bar!Selected(iDIG, iG_INT2))
        BY <3>4, PlaceFalls
    <3>7. l + h <= lo + hi
        BY <2>3, <3>2, <3>6
    <3> QED BY <3>3, <3>7
  <2>7. ~(quiet < Bar!Full)
      BY <1>1, <1>4, FullPositive
  <2>8. \A x \in Accelerations :
            x >= iDIG => Bar!Middle(Bar!Position(x, iG_INT2)) <= Bar!Middle(Bar!oLED)
      BY <2>6
  <2>9. quiet < Bar!Full => Bar!oLED \in {Bar!All, {}}
      BY <2>7
  <2> QED BY <2>4, <2>5, <2>8, <2>9, Zenon DEF Bar!BarInPlace
<1> QED BY <1>1, <1>3, <1>4, FullPositive

\* Every place on the screen shows its own pixel or the cursor, for every resolution whose
\* window ends before the line does (VGA_Controller.v:99-107, VGA_OSD_RAM.v:46-64); and the
\* bar of LEDs shows no position before it has been quiet for an interval, and then one
\* that never moves against the acceleration (led_driver.v:21-46).
THEOREM BoardsShowInPlace == MCSpec => []ShownInPlace
<1>1. MCSpec => []DisplayInv
    BY DisplayInit, DisplayNext, PTL DEF MCSpec
<1>2. MCSpec => []BarInv
    BY BarInit, BarNext, PTL DEF MCSpec
<1>3. DisplayInv /\ BarInv => ShownInPlace
    BY DisplaySound, BarShows DEF ShownInPlace, BarInv
<1> QED BY <1>1, <1>2, <1>3, PTL

-----------------------------------------------------------------------------
(* The dimmer: what the switches denote                                    *)

LEMMA SmallestOf ==
    ASSUME NEW S \in SUBSET Nat, S # {}
    PROVE  \E x \in S : \A y \in S : x <= y
<1> DEFINE T == {0 .. x : x \in S}
<1>1. T \subseteq FiniteSubsetsOf(Nat) /\ T # {}
  <2>1. ASSUME NEW x \in S PROVE 0 .. x \in FiniteSubsetsOf(Nat)
      BY FS_Interval DEF FiniteSubsetsOf
  <2> QED BY <2>1
<1>2. PICK m \in T : \A y \in T : ~(<<y, m>> \in StrictSubsetOrdering(Nat))
    BY <1>1, WFMin, FS_StrictSubsetOrderingWellFounded
<1>3. PICK x \in S : m = 0 .. x
    OBVIOUS
<1>4. ASSUME NEW y \in S PROVE x <= y
  <2> SUFFICES ASSUME y < x PROVE FALSE
      OBVIOUS
  <2>1. 0 .. y \subseteq 0 .. x /\ x \in 0 .. x /\ x \notin 0 .. y
      OBVIOUS
  <2>2. 0 .. y \in T /\ 0 .. y \in SUBSET Nat /\ 0 .. x \in SUBSET Nat
      OBVIOUS
  <2>3. <<0 .. y, 0 .. x>> \in StrictSubsetOrdering(Nat)
      BY <2>1, <2>2 DEF StrictSubsetOrdering
  <2> QED BY <1>2, <1>3, <2>2, <2>3
<1> QED BY <1>4

\* Induction up to a number, for a set.
LEMMA Climb ==
    ASSUME NEW S, NEW n \in Nat, 0 \in S, \A i \in 1 .. n : i - 1 \in S => i \in S
    PROVE  \A i \in 0 .. n : i \in S
<1> DEFINE bad == {i \in Nat : i \in 0 .. n /\ i \notin S}
<1>1. ASSUME bad # {} PROVE FALSE
  <2>1. PICK i \in bad : \A j \in bad : i <= j
      BY <1>1, SmallestOf
  <2>2. i # 0 /\ i \in 1 .. n /\ i - 1 \in Nat /\ i - 1 \in 0 .. n /\ i - 1 < i
      BY <2>1
  <2>3. i - 1 \in S
      BY <2>1, <2>2
  <2> QED BY <2>1, <2>2, <2>3
<1> QED BY <1>1

\* V begins with c, doubles and adds.
Doubles(V, c, t, n) == V = [i \in 0 .. n |-> IF i = 0 THEN c ELSE 2 * V[i-1] + t[i]]

LEMMA CanDouble ==
    ASSUME NEW c, NEW t, NEW n \in Nat
    PROVE  \E V : Doubles(V, c, t, n)
<1> DEFINE S == {k \in Nat : \E V : Doubles(V, c, t, k)}
<1>1. 0 \in S
  <2> DEFINE V == [i \in 0 .. 0 |-> c]
  <2>1. Doubles(V, c, t, 0)
      BY DEF Doubles
  <2> HIDE DEF V
  <2> QED BY <2>1
<1>2. ASSUME NEW k \in 1 .. n, k - 1 \in S PROVE k \in S
  <2>1. PICK W : Doubles(W, c, t, k - 1)
      BY <1>2
  <2> DEFINE V == [i \in 0 .. k |-> IF i = 0 THEN c ELSE 2 * W[i-1] + t[i]]
  <2>2. \A i \in 0 .. k - 1 : i \in 0 .. k /\ V[i] = W[i]
    <3>1. \A i \in 0 .. k - 1 : W[i] = IF i = 0 THEN c ELSE 2 * W[i-1] + t[i]
        BY <2>1 DEF Doubles
    <3>2. \A i \in 0 .. k - 1 : i \in 0 .. k
        OBVIOUS
    <3> QED BY <3>1, <3>2
  <2>3. \A i \in 0 .. k : i # 0 => i - 1 \in 0 .. k - 1
      OBVIOUS
  <2>4. V = [i \in 0 .. k |-> V[i]]
      OBVIOUS
  <2>5. \A i \in 0 .. k : V[i] = IF i = 0 THEN c ELSE 2 * V[i-1] + t[i]
      BY <2>2, <2>3
  <2> HIDE DEF V
  <2>6. Doubles(V, c, t, k)
      BY <2>4, <2>5 DEF Doubles
  <2> QED BY <2>6
<1> HIDE DEF S
<1>3. n \in S
    BY <1>1, <1>2, Climb
<1> QED BY <1>3 DEF S

LEMMA DoublesNat ==
    ASSUME NEW c \in Nat, NEW t, NEW n \in Nat, NEW V, Doubles(V, c, t, n),
           \A i \in 1 .. n : t[i] \in Nat
    PROVE  /\ V[0] = c
           /\ \A i \in 0 .. n : V[i] \in Nat
           /\ \A i \in 1 .. n : V[i] = 2 * V[i-1] + t[i]
<1>0. \A i \in 0 .. n : V[i] = IF i = 0 THEN c ELSE 2 * V[i-1] + t[i]
    BY DEF Doubles
<1>1. V[0] = c
    BY <1>0
<1>2. \A i \in 1 .. n : V[i] = 2 * V[i-1] + t[i]
    BY <1>0
<1> DEFINE S == {i \in Nat : V[i] \in Nat}
<1>3. 0 \in S
    BY <1>1
<1>4. ASSUME NEW i \in 1 .. n, i - 1 \in S PROVE i \in S
    BY <1>2, <1>4
<1> HIDE DEF S
<1>5. \A i \in 0 .. n : i \in S
    BY <1>3, <1>4, Climb
<1> QED BY <1>1, <1>2, <1>5 DEF S

\* The weights behind Modulus, and the values of ever more of the bits behind Value.
Weights(V) == V = [i \in 0 .. Width |-> IF i = 0 THEN 1 ELSE 2 * V[i-1]]

Bit(bits, i) == IF bits[Width - i] THEN 1 ELSE 0

BitReadings(V, bits) ==
    V = [i \in 0 .. Width |-> IF i = 0 THEN 0
                              ELSE 2 * V[i-1] + (IF bits[Width - i] THEN 1 ELSE 0)]

LEMMA WeightsAre ==
    ASSUME Dimmer!PwmAssumption
    PROVE  \E V : /\ Dimmer!Modulus = V[Width]
                  /\ V[0] = 1
                  /\ \A i \in 0 .. Width : V[i] \in Nat
                  /\ \A i \in 1 .. Width : V[i] = 2 * V[i-1]
<1> DEFINE t == [i \in 1 .. Width |-> 0]
<1>0. Width \in Nat
    BY DEF Dimmer!PwmAssumption
<1>t. \A i \in 1 .. Width : t[i] = 0
    OBVIOUS
<1> HIDE DEF t
<1>1. PICK V : Doubles(V, 1, t, Width)
    BY <1>0, CanDouble
<1>2. /\ V[0] = 1 /\ \A i \in 0 .. Width : V[i] \in Nat
      /\ \A i \in 1 .. Width : V[i] = 2 * V[i-1] + t[i]
    BY <1>0, <1>t, <1>1, DoublesNat
<1>3. \A i \in 1 .. Width : i - 1 \in 0 .. Width /\ V[i] = 2 * V[i-1]
    BY <1>0, <1>t, <1>2
<1>4. \A i \in 0 .. Width : V[i] = IF i = 0 THEN 1 ELSE 2 * V[i-1]
    BY <1>0, <1>2, <1>3
<1>5. V = [i \in 0 .. Width |-> V[i]]
    BY <1>1 DEF Doubles
<1>6. Weights(V)
    BY <1>4, <1>5 DEF Weights
<1> DEFINE W == CHOOSE U : Weights(U)
<1>7. Weights(W)
    BY <1>6
<1>8. Dimmer!Modulus = W[Width]
    BY DEF Dimmer!Modulus, Weights
<1>9. \A i \in 0 .. Width : W[i] = IF i = 0 THEN 1 ELSE 2 * W[i-1]
    BY <1>7 DEF Weights
<1> HIDE DEF W
<1> DEFINE S == {i \in Nat : W[i] \in Nat}
<1>10. 0 \in S
    BY <1>0, <1>9
<1>11. ASSUME NEW i \in 1 .. Width, i - 1 \in S PROVE i \in S
    BY <1>9, <1>11
<1>12. \A i \in 0 .. Width : i \in S
  <2> HIDE DEF S
  <2> QED BY <1>0, <1>10, <1>11, Climb
<1>13. W[0] = 1 /\ \A i \in 1 .. Width : W[i] = 2 * W[i-1]
    BY <1>0, <1>9
<1> QED BY <1>8, <1>12, <1>13

LEMMA ReadingsAre ==
    ASSUME Dimmer!PwmAssumption, NEW bits
    PROVE  \E V : /\ Dimmer!Value(bits) = V[Width]
                  /\ V[0] = 0
                  /\ \A i \in 0 .. Width : V[i] \in Nat
                  /\ \A i \in 1 .. Width : V[i] = 2 * V[i-1] + Bit(bits, i)
<1> DEFINE t == [i \in 1 .. Width |-> Bit(bits, i)]
<1>0. Width \in Nat
    BY DEF Dimmer!PwmAssumption
<1>t. \A i \in 1 .. Width : t[i] = Bit(bits, i) /\ t[i] \in Nat
    BY DEF Bit
<1> HIDE DEF t
<1>1. PICK V : Doubles(V, 0, t, Width)
    BY <1>0, CanDouble
<1>3. \A i \in 1 .. Width : t[i] = IF bits[Width - i] THEN 1 ELSE 0
    BY <1>t DEF Bit
<1>4. \A i \in 0 .. Width : V[i] = IF i = 0 THEN 0
                                   ELSE 2 * V[i-1] + (IF bits[Width - i] THEN 1 ELSE 0)
  <2>1. \A i \in 0 .. Width : V[i] = IF i = 0 THEN 0 ELSE 2 * V[i-1] + t[i]
      BY <1>1 DEF Doubles
  <2>2. \A i \in 0 .. Width : i # 0 => i \in 1 .. Width
      BY <1>0
  <2> QED BY <1>3, <2>1, <2>2
<1>5. V = [i \in 0 .. Width |-> V[i]]
    BY <1>1 DEF Doubles
<1>6. BitReadings(V, bits)
    BY <1>4, <1>5 DEF BitReadings
<1> DEFINE W == CHOOSE U : BitReadings(U, bits)
<1>7. BitReadings(W, bits)
    BY <1>6
<1>8. Dimmer!Value(bits) = W[Width]
    BY DEF Dimmer!Value, BitReadings
<1>9. \A i \in 0 .. Width : W[i] = IF i = 0 THEN 0 ELSE 2 * W[i-1] + Bit(bits, i)
    BY <1>7 DEF BitReadings, Bit
<1> HIDE DEF W
<1>b. \A i \in 1 .. Width : Bit(bits, i) \in Nat
    BY DEF Bit
<1> DEFINE S == {i \in Nat : W[i] \in Nat}
<1>10. 0 \in S
    BY <1>0, <1>9
<1>11. ASSUME NEW i \in 1 .. Width, i - 1 \in S PROVE i \in S
    BY <1>9, <1>11, <1>b
<1>12. \A i \in 0 .. Width : i \in S
  <2> HIDE DEF S
  <2> QED BY <1>0, <1>10, <1>11, Climb
<1>13. W[0] = 0 /\ \A i \in 1 .. Width : W[i] = 2 * W[i-1] + Bit(bits, i)
    BY <1>0, <1>9
<1> QED BY <1>8, <1>12, <1>13

\* A number and the one with every bit turned over add up to the highest there is.
LEMMA Complements ==
    ASSUME Dimmer!PwmAssumption, NEW a \in [Dimmer!Lines -> BOOLEAN],
           NEW b \in [Dimmer!Lines -> BOOLEAN], \A i \in Dimmer!Lines : b[i] = ~a[i]
    PROVE  Dimmer!Value(a) + Dimmer!Value(b) + 1 = Dimmer!Modulus
<1>0. Width \in Nat \ {0}
    BY DEF Dimmer!PwmAssumption
<1>1. PICK P : /\ Dimmer!Modulus = P[Width] /\ P[0] = 1
               /\ \A i \in 0 .. Width : P[i] \in Nat
               /\ \A i \in 1 .. Width : P[i] = 2 * P[i-1]
    BY WeightsAre
<1>2. PICK V : /\ Dimmer!Value(a) = V[Width] /\ V[0] = 0
               /\ \A i \in 0 .. Width : V[i] \in Nat
               /\ \A i \in 1 .. Width : V[i] = 2 * V[i-1] + Bit(a, i)
    BY ReadingsAre
<1>3. PICK W : /\ Dimmer!Value(b) = W[Width] /\ W[0] = 0
               /\ \A i \in 0 .. Width : W[i] \in Nat
               /\ \A i \in 1 .. Width : W[i] = 2 * W[i-1] + Bit(b, i)
    BY ReadingsAre
<1>4. ASSUME NEW i \in 1 .. Width
      PROVE  Bit(a, i) \in Nat /\ Bit(b, i) \in Nat /\ Bit(a, i) + Bit(b, i) = 1
  <2>1. Width - i \in Dimmer!Lines
      BY <1>0 DEF Dimmer!Lines
  <2>2. a[Width - i] \in BOOLEAN /\ b[Width - i] = ~a[Width - i]
      BY <2>1
  <2> QED BY <2>2 DEF Bit
<1> DEFINE S == {i \in Nat : V[i] + W[i] + 1 = P[i]}
<1>5. 0 \in S
    BY <1>1, <1>2, <1>3
<1>6. ASSUME NEW i \in 1 .. Width, i - 1 \in S PROVE i \in S
  <2>1. i - 1 \in 0 .. Width
      BY <1>0
  <2>2. V[i-1] \in Nat /\ W[i-1] \in Nat /\ P[i-1] \in Nat /\ V[i-1] + W[i-1] + 1 = P[i-1]
      BY <1>1, <1>2, <1>3, <1>6, <2>1
  <2>3. V[i] = 2 * V[i-1] + Bit(a, i) /\ W[i] = 2 * W[i-1] + Bit(b, i) /\ P[i] = 2 * P[i-1]
      BY <1>1, <1>2, <1>3
  <2> QED BY <1>4, <2>2, <2>3
<1> HIDE DEF S
<1>7. Width \in S
    BY <1>0, <1>5, <1>6, Climb
<1> QED BY <1>1, <1>2, <1>3, <1>7 DEF S

\* A number the switches denote is one the counter reaches.
LEMMA ValueFits ==
    ASSUME Dimmer!PwmAssumption
    PROVE  /\ Dimmer!Modulus \in Nat \ {0}
           /\ \A a \in [Dimmer!Lines -> BOOLEAN] : Dimmer!Value(a) \in 0 .. Dimmer!Modulus - 1
<1>0. Width \in Nat
    BY DEF Dimmer!PwmAssumption
<1>1. Dimmer!Modulus \in Nat
    BY <1>0, WeightsAre
<1>2. ASSUME NEW a PROVE Dimmer!Value(a) \in Nat
    BY <1>0, ReadingsAre
<1>3. ASSUME NEW a \in [Dimmer!Lines -> BOOLEAN]
      PROVE  Dimmer!Value(a) + 1 <= Dimmer!Modulus
  <2> DEFINE b == [i \in Dimmer!Lines |-> ~a[i]]
  <2>1. b \in [Dimmer!Lines -> BOOLEAN] /\ \A i \in Dimmer!Lines : b[i] = ~a[i]
      OBVIOUS
  <2> HIDE DEF b
  <2>2. Dimmer!Value(a) + Dimmer!Value(b) + 1 = Dimmer!Modulus
      BY <2>1, Complements
  <2> QED BY <1>1, <1>2, <2>2
<1>5. Dimmer!Modulus # 0
  <2>1. PICK a \in [Dimmer!Lines -> BOOLEAN] : a = [i \in Dimmer!Lines |-> TRUE]
      OBVIOUS
  <2>2. Dimmer!Value(a) \in Nat /\ Dimmer!Value(a) + 1 <= Dimmer!Modulus
      BY <1>2, <1>3
  <2> QED BY <1>1, <2>2
<1> QED BY <1>1, <1>2, <1>3, <1>5

-----------------------------------------------------------------------------
(* The dimmer: a line that has changed stays                               *)

RegBits == 1 .. Depth

RegistersOK ==
    /\ SW \in [Dimmer!Lines -> BOOLEAN]
    /\ shiftreg \in [Dimmer!Lines -> [RegBits -> BOOLEAN]]
    /\ debounced \in [Dimmer!Lines -> BOOLEAN]
    /\ held \in [Dimmer!Lines -> 0 .. Depth]

\* A line changes when all its register holds the level it changes from.  These bits
\* move on by one with every edge, and before the last of them has left the register
\* the line cannot change back.
TailKept ==
    \A i \in Dimmer!Lines, k \in RegBits : k >= held[i] + 2 => shiftreg[i][k] # debounced[i]

DimmerInv == RegistersOK /\ TailKept

\* An output changes only when the whole register agrees with it.  The register shows
\* the switch, which is inverted.
LEMMA ChangeNeedsAll ==
    ASSUME NEW i \in Dimmer!Lines, RegistersOK, Dimmer!Debounce(i) # debounced[i]
    PROVE  \A k \in RegBits : shiftreg[i][k] = debounced[i]
<1>1. debounced[i] \in BOOLEAN /\ shiftreg[i] \in [RegBits -> BOOLEAN]
    BY DEF RegistersOK
<1>2. CASE \A k \in RegBits : ~shiftreg[i][k]
  <2>1. Dimmer!Debounce(i) = TRUE
      BY <1>2 DEF Dimmer!Debounce, RegBits
  <2>2. debounced[i] = FALSE
      BY <1>1, <2>1
  <2> QED BY <1>1, <1>2, <2>2
<1>3. CASE ~(\A k \in RegBits : ~shiftreg[i][k]) /\ \A k \in RegBits : shiftreg[i][k]
  <2>1. Dimmer!Debounce(i) = FALSE
      BY <1>3 DEF Dimmer!Debounce, RegBits
  <2>2. debounced[i] = TRUE
      BY <1>1, <2>1
  <2> QED BY <1>1, <1>3, <2>2
<1>4. CASE ~(\A k \in RegBits : ~shiftreg[i][k]) /\ ~(\A k \in RegBits : shiftreg[i][k])
    BY <1>4 DEF Dimmer!Debounce, RegBits
<1> QED BY <1>2, <1>3, <1>4

\* What an edge of the slow clock writes is of its type.
LEMMA DimmerRegisters ==
    ASSUME Dimmer!PwmAssumption, RegistersOK, Dimmer!SlowClock
    PROVE  RegistersOK'
<1>1. ASSUME NEW i \in Dimmer!Lines
      PROVE  Dimmer!Debounce(i) \in BOOLEAN
    BY DEF Dimmer!Debounce, RegistersOK
<1>2. debounced' \in [Dimmer!Lines -> BOOLEAN]
    BY <1>1 DEF Dimmer!SlowClock
<1>3. ASSUME NEW i \in Dimmer!Lines, NEW k \in RegBits
      PROVE  (IF k = 1 THEN SW[i] ELSE shiftreg[i][k-1]) \in BOOLEAN
  <2>1. k # 1 => k - 1 \in RegBits
      BY Dimmer!PwmAssumption DEF Dimmer!PwmAssumption, RegBits
  <2> QED BY <2>1 DEF RegistersOK
<1>4. shiftreg' \in [Dimmer!Lines -> [RegBits -> BOOLEAN]]
    BY <1>3 DEF Dimmer!SlowClock, RegBits
<1>5. ASSUME NEW i \in Dimmer!Lines
      PROVE  (IF debounced'[i] # debounced[i] THEN 0
              ELSE IF held[i] < Depth THEN held[i] + 1 ELSE Depth) \in 0 .. Depth
    BY Dimmer!PwmAssumption DEF Dimmer!PwmAssumption, RegistersOK
<1>6. held' \in [Dimmer!Lines -> 0 .. Depth]
    BY <1>5 DEF Dimmer!SlowClock
<1>7. SW' \in [Dimmer!Lines -> BOOLEAN]
    BY DEF Dimmer!SlowClock, Dimmer!switches, RegistersOK
<1> QED BY <1>2, <1>4, <1>6, <1>7 DEF RegistersOK

\* An edge of the slow clock moves the tail on, or begins a new one.
LEMMA DimmerTail ==
    ASSUME Dimmer!PwmAssumption, DimmerInv, Dimmer!SlowClock
    PROVE  TailKept'
<1> SUFFICES ASSUME NEW i \in Dimmer!Lines, NEW k \in RegBits, k >= held'[i] + 2
             PROVE  shiftreg'[i][k] # debounced'[i]
    BY DEF TailKept
<1>1. RegistersOK' /\ RegistersOK
    BY DimmerRegisters DEF DimmerInv
<1>2. held'[i] \in 0 .. Depth /\ held[i] \in 0 .. Depth
    BY <1>1 DEF RegistersOK
<1>3. k \in 2 .. Depth /\ k - 1 \in RegBits
    BY <1>2, Dimmer!PwmAssumption DEF RegBits, Dimmer!PwmAssumption
<1>4. shiftreg'[i][k] = shiftreg[i][k-1]
    BY <1>3 DEF Dimmer!SlowClock, RegBits
<1>5. debounced'[i] = Dimmer!Debounce(i)
    BY DEF Dimmer!SlowClock
<1>6. CASE debounced'[i] # debounced[i]
  <2>1. shiftreg[i][k-1] = debounced[i]
      BY <1>1, <1>3, <1>5, <1>6, ChangeNeedsAll
  <2> QED BY <1>4, <1>6, <2>1
<1>7. CASE debounced'[i] = debounced[i]
  <2>1. held'[i] = IF held[i] < Depth THEN held[i] + 1 ELSE Depth
      BY <1>7 DEF Dimmer!SlowClock
  <2>2. k - 1 >= held[i] + 2
      BY <1>2, <1>3, <2>1 DEF RegBits
  <2>3. shiftreg[i][k-1] # debounced[i]
      BY <1>3, <2>2 DEF DimmerInv, TailKept
  <2> QED BY <1>4, <1>7, <2>3
<1> QED BY <1>6, <1>7

\* The switches move and the generator counts without the debouncers.
LEMMA DimmerOthers ==
    ASSUME Dimmer!PwmAssumption, DimmerInv,
           \/ Dimmer!PwmClock
           \/ \E i \in Dimmer!Lines : Dimmer!Move(i)
           \/ UNCHANGED Dimmer!vars
    PROVE  DimmerInv' /\ debounced' = debounced
<1>1. UNCHANGED <<shiftreg, debounced, held>>
    BY DEF Dimmer!PwmClock, Dimmer!Move, Dimmer!vars, Dimmer!debouncers
<1>2. SW' \in [Dimmer!Lines -> BOOLEAN]
  <2>1. ASSUME NEW i \in Dimmer!Lines, Dimmer!Move(i)
        PROVE  SW' \in [Dimmer!Lines -> BOOLEAN]
      BY <2>1 DEF Dimmer!Move, DimmerInv, RegistersOK
  <2>2. ASSUME Dimmer!PwmClock \/ UNCHANGED Dimmer!vars
        PROVE  SW' \in [Dimmer!Lines -> BOOLEAN]
      BY <2>2 DEF Dimmer!PwmClock, Dimmer!vars, Dimmer!switches, DimmerInv, RegistersOK
  <2> QED BY <2>1, <2>2
<1> QED BY <1>1, <1>2 DEF DimmerInv, RegistersOK, TailKept

LEMMA DimmerInit == ASSUME Dimmer!PwmAssumption PROVE Dimmer!Init => DimmerInv
<1> SUFFICES ASSUME Dimmer!Init
             PROVE  DimmerInv
    OBVIOUS
<1>1. RegistersOK
    BY Dimmer!PwmAssumption DEF Dimmer!Init, RegistersOK, Dimmer!PwmAssumption, RegBits
<1>2. TailKept
    BY Dimmer!PwmAssumption DEF Dimmer!Init, TailKept, Dimmer!PwmAssumption, RegBits
<1> QED BY <1>1, <1>2 DEF DimmerInv

LEMMA DimmerNext == ASSUME Dimmer!PwmAssumption PROVE DimmerInv /\ [Dimmer!Next]_Dimmer!vars => DimmerInv'
<1> SUFFICES ASSUME DimmerInv, [Dimmer!Next]_Dimmer!vars
             PROVE  DimmerInv'
    OBVIOUS
<1>1. CASE Dimmer!SlowClock
    BY <1>1, DimmerRegisters, DimmerTail DEF DimmerInv
<1>2. CASE Dimmer!PwmClock \/ (\E i \in Dimmer!Lines : Dimmer!Move(i)) \/ UNCHANGED Dimmer!vars
    BY <1>2, DimmerOthers
<1> QED BY <1>1, <1>2 DEF Dimmer!Next

\* The step of a line that changes: its whole register, the last bit too, agrees with
\* the output it had, which the tail excludes until Depth-1 edges have passed.
LEMMA StepKeepsLine ==
    ASSUME Dimmer!PwmAssumption, DimmerInv, [Dimmer!Next]_Dimmer!vars, NEW i \in Dimmer!Lines, debounced'[i] # debounced[i]
    PROVE  held[i] >= Depth - 1
<1>1. Dimmer!SlowClock
    BY DimmerOthers DEF Dimmer!Next
<1>2. \A k \in RegBits : shiftreg[i][k] = debounced[i]
    BY <1>1, ChangeNeedsAll DEF Dimmer!SlowClock, DimmerInv
<1>3. Depth \in RegBits /\ held[i] \in 0 .. Depth
    BY Dimmer!PwmAssumption DEF Dimmer!PwmAssumption, RegBits, DimmerInv, RegistersOK
<1>4. ~(Depth >= held[i] + 2)
    BY <1>2, <1>3 DEF DimmerInv, TailKept
<1> QED BY <1>3, <1>4, Dimmer!PwmAssumption DEF Dimmer!PwmAssumption

LEMMA DimmerBegins == ASSUME Dimmer!PwmAssumption, MCInit PROVE DimmerInv
<1>1. ASSUME DimmerIdle PROVE DimmerInv
  <2>1. RegistersOK
      BY <1>1 DEF DimmerIdle, RegistersOK, Dimmer!PwmAssumption, RegBits
  <2>2. TailKept
      BY <1>1 DEF DimmerIdle, TailKept, Dimmer!PwmAssumption, RegBits
  <2> QED BY <2>1, <2>2 DEF DimmerInv
<1> QED BY <1>1, DimmerInit DEF MCInit

LEMMA DimmerSteps == [MCNext]_<<board, boards>> => [Dimmer!Next]_(Dimmer!vars)
<1>1. ASSUME UNCHANGED dimmerVars PROVE UNCHANGED Dimmer!vars
    BY <1>1 DEF dimmerVars, Dimmer!vars, Dimmer!switches, Dimmer!debouncers, Dimmer!generator
<1> SUFFICES ASSUME [MCNext]_<<board, boards>>, ~UNCHANGED dimmerVars
             PROVE  Dimmer!Next
    BY <1>1
<1> QED BY DEF MCNext, boards, ReaderClock, ReaderSample, DimmerSlow, DimmerPwm,
               DimmerMove, DisplayClock, BarStep, OthersThanReader, Dimmer!Next

\* However the switches bounce and whatever the registers power up with, a bit of the
\* duty cycle that has changed keeps its value for as many edges of the slow clock as
\* the debouncer of debouncer.v:7-24 is long.
LEMMA DutyCycleSteady == MCSpec => Dimmer!NoFlicker
<1>1. Dimmer!PwmAssumption
    BY DimmerAssumption
<1>2. MCInit => DimmerInv
    BY <1>1, DimmerBegins
<1>3. DimmerInv /\ [MCNext]_<<board, boards>> => DimmerInv'
    BY <1>1, DimmerSteps, DimmerNext
<1>4. DimmerInv /\ [Dimmer!Next]_(Dimmer!vars)
         => [\A i \in Dimmer!Lines : debounced'[i] # debounced[i] => held[i] >= Depth - 1]_(Dimmer!vars)
    BY <1>1, StepKeepsLine
<1> QED BY <1>2, <1>3, <1>4, DimmerSteps, PTL DEF MCSpec, Dimmer!NoFlicker

-----------------------------------------------------------------------------
(* The dimmer: still switches give their brightness                        *)

ClocksOK ==
    /\ count \in 0 .. Dimmer!Modulus - 1 /\ pwm \in BOOLEAN
    /\ stable \in 0 .. Depth + 1
    /\ lit \in Seq(BOOLEAN) /\ Len(lit) <= Dimmer!Modulus

\* A switch has come as far into its register as it has been still, and from there to
\* the output.
Settled ==
    /\ \A i \in Dimmer!Lines, k \in RegBits : k <= stable => shiftreg[i][k] = SW[i]
    /\ stable > Depth => \A i \in Dimmer!Lines : debounced[i] = ~SW[i]

\* The count at the edge k of the window, the latest first.
CountAt(k) == IF count >= k - 1 THEN count - (k - 1) ELSE count - (k - 1) + Dimmer!Modulus

\* What the window saw is what the comparison gave at each of its counts.
WindowKept ==
    stable > Depth =>
        \A k \in 1 .. Len(lit) : lit[k] = ~(CountAt(k) < Dimmer!duty_cycle)

BrightInv == DimmerInv /\ ClocksOK /\ Settled /\ WindowKept

\* Putting an element in front of a window that is never longer than m.
LEMMA WindowMoves ==
    ASSUME NEW s \in Seq(BOOLEAN), NEW b \in BOOLEAN, NEW m \in Nat \ {0}, Len(s) <= m,
           NEW t, t = SubSeq(<<b>> \o s, 1, IF Len(s) < m THEN Len(s) + 1 ELSE m)
    PROVE  /\ t \in Seq(BOOLEAN)
           /\ Len(t) = IF Len(s) < m THEN Len(s) + 1 ELSE m
           /\ \A k \in 1 .. Len(t) : t[k] = IF k = 1 THEN b ELSE s[k-1]
<1> DEFINE u == <<b>> \o s
           n == IF Len(s) < m THEN Len(s) + 1 ELSE m
<1>1. /\ u \in Seq(BOOLEAN) /\ Len(u) = Len(s) + 1 /\ Len(s) \in Nat
      /\ \A k \in 1 .. Len(u) : u[k] = IF k = 1 THEN b ELSE s[k-1]
    OBVIOUS
<1>2. n \in 1 .. Len(u)
    BY <1>1
<1>3. t = SubSeq(u, 1, n)
    OBVIOUS
<1> HIDE DEF u, n
<1>4. t \in Seq(BOOLEAN) /\ Len(t) = n /\ \A k \in 1 .. n : t[k] = u[k]
    BY <1>1, <1>2, <1>3
<1>5. \A k \in 1 .. n : k \in 1 .. Len(u)
    BY <1>1, <1>2
<1> QED BY <1>1, <1>4, <1>5 DEF n

LEMMA NoneLit == <<>> \in Seq(BOOLEAN) /\ \A m \in Nat : Len(<<>>) <= m
OBVIOUS

\* Once the switches have been still for long enough the duty cycle is the number that
\* they denote with every bit turned over.
LEMMA DutyCycleIs ==
    ASSUME Dimmer!PwmAssumption, RegistersOK
    PROVE  /\ Dimmer!duty_cycle \in 0 .. Dimmer!Modulus - 1
           /\ (\A i \in Dimmer!Lines : debounced[i] = ~SW[i])
                => Dimmer!Value(SW) + 1 = Dimmer!Modulus - Dimmer!duty_cycle
<1>1. debounced \in [Dimmer!Lines -> BOOLEAN] /\ SW \in [Dimmer!Lines -> BOOLEAN]
    BY DEF RegistersOK
<1>2. /\ Dimmer!Modulus \in Nat /\ Dimmer!Value(debounced) \in 0 .. Dimmer!Modulus - 1
      /\ Dimmer!Value(SW) \in 0 .. Dimmer!Modulus - 1
    BY <1>1, ValueFits
<1>3. ASSUME \A i \in Dimmer!Lines : debounced[i] = ~SW[i]
      PROVE  Dimmer!Value(SW) + Dimmer!Value(debounced) + 1 = Dimmer!Modulus
    BY <1>1, <1>3, Complements
<1> QED BY <1>2, <1>3 DEF Dimmer!duty_cycle

\* The counts of a full window are all the counts there are, each once; the LED is lit
\* at those from the duty cycle up.
LEMMA BrightnessIs ==
    ASSUME Dimmer!PwmAssumption, BrightInv
    PROVE  Dimmer!SteadyBrightness
<1> DEFINE M == Dimmer!Modulus
           d == Dimmer!duty_cycle
           bright == {k \in 1 .. M : lit[k]}
<1> SUFFICES ASSUME stable > Depth, Len(lit) = M
             PROVE  Dimmer!Cardinality(bright) = Dimmer!Value(SW) + 1
    BY DEF Dimmer!SteadyBrightness
<1>1. M \in Nat \ {0} /\ count \in 0 .. M - 1 /\ d \in 0 .. M - 1
    BY ValueFits, DutyCycleIs DEF BrightInv, ClocksOK, DimmerInv
<1>2. Dimmer!Value(SW) + 1 = M - d
    BY DutyCycleIs DEF BrightInv, DimmerInv, Settled
<1>3. \A k \in 1 .. M : lit[k] = ~(CountAt(k) < d)
    BY DEF BrightInv, WindowKept
<1> HIDE DEF d, M
<1> DEFINE Edge(p) == IF count >= p THEN count - p + 1 ELSE count - p + M + 1
           f == [p \in d .. M - 1 |-> Edge(p)]
<1>c. \A k \in 1 .. M : CountAt(k) = IF count >= k - 1 THEN count - (k - 1) ELSE count - (k - 1) + M
    BY DEF CountAt, M
<1>4. ASSUME NEW p \in d .. M - 1
      PROVE  Edge(p) \in 1 .. M /\ CountAt(Edge(p)) = p
    BY <1>1, <1>c
<1>5. ASSUME NEW k \in bright
      PROVE  CountAt(k) \in d .. M - 1 /\ Edge(CountAt(k)) = k
  <2>1. k \in 1 .. M /\ ~(CountAt(k) < d)
      BY <1>3
  <2> QED BY <1>1, <1>c, <2>1
<1>6. f \in Bijection(d .. M - 1, bright)
  <2>1. \A p \in d .. M - 1 : f[p] = Edge(p) /\ f[p] \in bright /\ CountAt(f[p]) = p
    <3>1. \A p \in d .. M - 1 : ~(p < d)
        BY <1>1
    <3> QED BY <1>3, <1>4, <3>1
  <2>2. \A k \in bright : \E p \in d .. M - 1 : f[p] = k
      BY <1>5
  <2>3. f \in [d .. M - 1 -> bright]
      BY <2>1
  <2> HIDE DEF f, bright
  <2>4. f \in Injection(d .. M - 1, bright)
      BY <2>1, <2>3 DEF Injection, IsInjective
  <2>5. f \in Surjection(d .. M - 1, bright)
      BY <2>2, <2>3 DEF Surjection
  <2> QED BY <2>4, <2>5 DEF Bijection
<1>7. IsFiniteSet(d .. M - 1) /\ Cardinality(d .. M - 1) = M - d
    BY <1>1, FS_Interval
<1>8. Cardinality(bright) = M - d
  <2> HIDE DEF f, bright
  <2>1. ExistsBijection(d .. M - 1, bright)
      BY <1>6 DEF ExistsBijection
  <2> QED BY <1>7, <2>1, FS_Bijection
<1>9. Dimmer!Cardinality(bright) = Cardinality(bright)
    BY Zenon DEF Dimmer!Cardinality, Cardinality
<1> QED BY <1>2, <1>8, <1>9

\* An edge of the slow clock moves the switches on.
LEMMA SlowSettles ==
    ASSUME Dimmer!PwmAssumption, BrightInv, Dimmer!SlowClock
    PROVE  BrightInv'
<1>0. Depth \in Nat \ {0}
    BY DEF Dimmer!PwmAssumption
<1>1. DimmerInv' /\ RegistersOK /\ RegistersOK'
    BY DimmerRegisters, DimmerTail DEF DimmerInv, BrightInv
<1>2. /\ SW' = SW /\ count' = count /\ pwm' = pwm
      /\ stable' = IF stable <= Depth THEN stable + 1 ELSE stable
      /\ lit' = IF stable <= Depth THEN <<>> ELSE lit
      /\ stable \in 0 .. Depth + 1
    BY DEF Dimmer!SlowClock, Dimmer!switches, BrightInv, ClocksOK
<1>3. ClocksOK'
  <2>1. Dimmer!Modulus \in Nat /\ Dimmer!Modulus' = Dimmer!Modulus
      BY ValueFits
  <2>2. /\ lit \in Seq(BOOLEAN) /\ Len(lit) <= Dimmer!Modulus
        /\ count \in 0 .. Dimmer!Modulus - 1 /\ pwm \in BOOLEAN
      BY DEF BrightInv, ClocksOK
  <2>3. lit' \in Seq(BOOLEAN) /\ Len(lit') <= Dimmer!Modulus
    <3>1. CASE stable <= Depth
      <4>1. lit' = <<>>
          BY <1>2, <3>1
      <4> QED BY <2>1, <4>1, NoneLit
    <3> QED BY <1>2, <2>2, <3>1
  <2>4. stable' \in 0 .. Depth + 1
      BY <1>0, <1>2
  <2> QED BY <1>2, <2>1, <2>2, <2>3, <2>4 DEF ClocksOK
<1>4. ASSUME NEW i \in Dimmer!Lines, NEW k \in RegBits, k <= stable'
      PROVE  shiftreg'[i][k] = SW'[i]
  <2>1. shiftreg'[i][k] = IF k = 1 THEN SW[i] ELSE shiftreg[i][k-1]
      BY DEF Dimmer!SlowClock, RegBits
  <2>2. k # 1 => k - 1 \in RegBits /\ k - 1 <= stable
      BY <1>0, <1>2, <1>4 DEF RegBits
  <2> QED BY <1>2, <2>1, <2>2 DEF BrightInv, Settled
<1>5. ASSUME stable' > Depth, NEW i \in Dimmer!Lines
      PROVE  debounced'[i] = ~SW'[i]
  <2>1. stable >= Depth
      BY <1>0, <1>2, <1>5
  <2>2. \A k \in 1 .. Depth : shiftreg[i][k] = SW[i]
      BY <1>0, <1>2, <2>1 DEF BrightInv, Settled, RegBits
  <2>3. debounced'[i] = Dimmer!Debounce(i)
      BY DEF Dimmer!SlowClock
  <2>4. SW[i] \in BOOLEAN /\ 1 \in 1 .. Depth
      BY <1>0, <1>1 DEF RegistersOK
  <2>5. CASE SW[i] = TRUE
    <3>1. ~(\A k \in 1 .. Depth : ~shiftreg[i][k]) /\ \A k \in 1 .. Depth : shiftreg[i][k]
        BY <2>2, <2>4, <2>5
    <3>2. Dimmer!Debounce(i) = FALSE
        BY <3>1 DEF Dimmer!Debounce
    <3> QED BY <1>2, <2>3, <2>5, <3>2
  <2>6. CASE SW[i] = FALSE
    <3>1. \A k \in 1 .. Depth : ~shiftreg[i][k]
        BY <2>2, <2>6
    <3>2. Dimmer!Debounce(i) = TRUE
        BY <3>1 DEF Dimmer!Debounce
    <3> QED BY <1>2, <2>3, <2>6, <3>2
  <2> QED BY <2>4, <2>5, <2>6
<1>6. Settled'
    BY <1>4, <1>5 DEF Settled, RegBits
<1>7. WindowKept'
  <2>1. CASE stable <= Depth
    <3>1. Len(lit') = 0
        BY <1>2, <2>1
    <3> QED BY <3>1 DEF WindowKept
  <2>2. CASE stable > Depth
    <3>1. \A i \in Dimmer!Lines : debounced'[i] = debounced[i]
      <4>1. stable' > Depth
          BY <1>0, <1>2, <2>2
      <4> QED BY <1>2, <1>5, <2>2, <4>1 DEF BrightInv, Settled
    <3>2. debounced' = debounced
        BY <1>1, <3>1 DEF RegistersOK
    <3>3. lit' = lit
        BY <1>0, <1>2, <2>2
    <3> QED BY <1>2, <2>2, <3>2, <3>3 DEF WindowKept, BrightInv, CountAt, Dimmer!duty_cycle
  <2> QED BY <1>0, <1>2, <2>1, <2>2
<1> QED BY <1>1, <1>3, <1>6, <1>7 DEF BrightInv

\* An edge of the fast clock puts one more count in front of the window.
LEMMA CountGoesOn ==
    ASSUME Dimmer!PwmAssumption, BrightInv, Dimmer!PwmClock
    PROVE  BrightInv'
<1> DEFINE M == Dimmer!Modulus
           d == Dimmer!duty_cycle
<1>1. M \in Nat \ {0} /\ count \in 0 .. M - 1 /\ d \in 0 .. M - 1 /\ M' = M
    BY ValueFits, DutyCycleIs DEF BrightInv, ClocksOK, DimmerInv
<1>2. /\ SW' = SW /\ shiftreg' = shiftreg /\ debounced' = debounced
      /\ held' = held /\ stable' = stable
    BY DEF Dimmer!PwmClock, Dimmer!switches, Dimmer!debouncers
<1>3. DimmerInv' /\ Settled' /\ d' = d
    BY <1>2, DimmerOthers DEF BrightInv, Settled, Dimmer!duty_cycle
<1>4. /\ count' = (count + 1) % M /\ pwm' = (count' < d)
      /\ lit' = SubSeq(<<~pwm'>> \o lit, 1, IF Len(lit) < M THEN Len(lit) + 1 ELSE M)
    BY DEF Dimmer!PwmClock, Dimmer!NextCount, Dimmer!High
<1>5. lit \in Seq(BOOLEAN) /\ Len(lit) <= M
    BY DEF BrightInv, ClocksOK
<1> HIDE DEF M, d
<1>6. count' = IF count + 1 = M THEN 0 ELSE count + 1
  <2>1. count + 1 = M => (count + 1) % M = 0
      BY <1>1
  <2>2. count + 1 # M => (count + 1) % M = count + 1
      BY <1>1
  <2> QED BY <1>4, <2>1, <2>2
<1>7. count' \in 0 .. M - 1 /\ pwm' \in BOOLEAN
    BY <1>1, <1>4, <1>6
<1>m. M \in Nat /\ count' \in 0 .. M - 1
    BY <1>1, <1>7
<1>8. /\ lit' \in Seq(BOOLEAN)
      /\ Len(lit') = IF Len(lit) < M THEN Len(lit) + 1 ELSE M
      /\ \A k \in 1 .. Len(lit') : lit'[k] = IF k = 1 THEN ~pwm' ELSE lit[k-1]
  <2> DEFINE b == ~pwm'
  <2>1. b \in BOOLEAN
      OBVIOUS
  <2>2. lit' = SubSeq(<<b>> \o lit, 1, IF Len(lit) < M THEN Len(lit) + 1 ELSE M)
      BY <1>4
  <2> HIDE DEF b
  <2>3. /\ lit' \in Seq(BOOLEAN)
        /\ Len(lit') = IF Len(lit) < M THEN Len(lit) + 1 ELSE M
        /\ \A k \in 1 .. Len(lit') : lit'[k] = IF k = 1 THEN b ELSE lit[k-1]
      BY <1>1, <1>5, <2>1, <2>2, WindowMoves
  <2> QED BY <2>3 DEF b
<1>9. Len(lit) \in Nat /\ Len(lit') <= M
    BY <1>1, <1>5, <1>8
<1>10. ClocksOK'
  <2>1. stable' \in 0 .. Depth + 1
      BY <1>2 DEF BrightInv, ClocksOK
  <2> QED BY <1>1, <1>7, <1>8, <1>9, <2>1 DEF ClocksOK, M
<1>11. ASSUME stable > Depth, NEW k \in 1 .. Len(lit')
       PROVE  lit'[k] = ~(CountAt(k)' < d)
  <2>1. CountAt(k)' = IF count' >= k - 1 THEN count' - (k - 1) ELSE count' - (k - 1) + M
      BY <1>1 DEF CountAt, M
  <2>2. CASE k = 1
    <3>1. CountAt(k)' = count'
      <4>1. \A c \in Nat : (IF c >= 1 - 1 THEN c - (1 - 1) ELSE c - (1 - 1) + M) = c
          OBVIOUS
      <4>2. count' \in Nat
          BY <1>m
      <4>3. CountAt(1)' = IF count' >= 1 - 1 THEN count' - (1 - 1) ELSE count' - (1 - 1) + M
          BY <2>1, <2>2
      <4> QED BY <2>2, <4>1, <4>2, <4>3, Zenon
    <3> QED BY <1>4, <1>8, <2>2, <3>1
  <2>3. CASE k # 1
    <3>1. k - 1 \in 1 .. Len(lit) /\ k \in 2 .. M
        BY <1>1, <1>8, <1>9, <2>3
    <3>2. CountAt(k - 1) = IF count >= k - 2 THEN count - (k - 2) ELSE count - (k - 2) + M
        BY <3>1 DEF CountAt, M
    <3>3. CountAt(k)' = CountAt(k - 1)
        BY <1>1, <1>6, <2>1, <3>1, <3>2
    <3>4. lit[k-1] = ~(CountAt(k - 1) < d)
        BY <1>11, <3>1 DEF BrightInv, WindowKept, d
    <3> QED BY <1>8, <2>3, <3>3, <3>4
  <2> QED BY <2>2, <2>3
<1>12. WindowKept'
    BY <1>2, <1>3, <1>11 DEF WindowKept, d
<1> QED BY <1>3, <1>10, <1>12 DEF BrightInv

\* A switch that moves begins everything anew.
LEMMA MoveBegins ==
    ASSUME Dimmer!PwmAssumption, BrightInv, NEW i \in Dimmer!Lines, Dimmer!Move(i)
    PROVE  BrightInv'
<1>0. Depth \in Nat \ {0} /\ Dimmer!Modulus \in Nat /\ Dimmer!Modulus' = Dimmer!Modulus
    BY ValueFits DEF Dimmer!PwmAssumption
<1>1. DimmerInv'
    BY DimmerOthers DEF BrightInv
<1>2. stable' = 0 /\ lit' = <<>> /\ count' = count /\ pwm' = pwm
    BY DEF Dimmer!Move
<1>3. Settled'
    BY <1>0, <1>2 DEF Settled, RegBits
<1>4. ClocksOK'
  <2>1. lit' \in Seq(BOOLEAN) /\ Len(lit') <= Dimmer!Modulus
      BY <1>0, <1>2, NoneLit
  <2> QED BY <1>0, <1>2, <2>1 DEF BrightInv, ClocksOK
<1>5. WindowKept'
    BY <1>0, <1>2 DEF WindowKept
<1> QED BY <1>1, <1>3, <1>4, <1>5 DEF BrightInv

LEMMA BrightBegins ==
    ASSUME Dimmer!PwmAssumption, DimmerInv, count = 0, pwm = FALSE, stable = 0, lit = <<>>
    PROVE  BrightInv
<1>0. Depth \in Nat \ {0} /\ Dimmer!Modulus \in Nat \ {0}
    BY ValueFits DEF Dimmer!PwmAssumption
<1>1. lit \in Seq(BOOLEAN) /\ Len(lit) <= Dimmer!Modulus
    BY <1>0, NoneLit
<1>2. ClocksOK
  <2>1. count \in 0 .. Dimmer!Modulus - 1 /\ stable \in 0 .. Depth + 1
      BY <1>0
  <2> QED BY <1>1, <2>1 DEF ClocksOK
<1>3. Settled /\ WindowKept
    BY <1>0 DEF Settled, WindowKept, RegBits
<1> QED BY <1>2, <1>3 DEF BrightInv

LEMMA BrightNext ==
    ASSUME Dimmer!PwmAssumption, BrightInv, [Dimmer!Next]_(Dimmer!vars)
    PROVE  BrightInv'
<1>1. CASE Dimmer!SlowClock
    BY <1>1, SlowSettles
<1>2. CASE Dimmer!PwmClock
    BY <1>2, CountGoesOn
<1>3. CASE \E i \in Dimmer!Lines : Dimmer!Move(i)
    BY <1>3, MoveBegins
<1>4. CASE UNCHANGED Dimmer!vars
  <2>1. DimmerInv'
      BY <1>4, DimmerOthers DEF BrightInv
  <2>2. UNCHANGED dimmerVars
      BY <1>4 DEF Dimmer!vars, Dimmer!switches, Dimmer!debouncers, Dimmer!generator, dimmerVars
  <2>3. ClocksOK' /\ Settled' /\ WindowKept'
      BY <2>2 DEF BrightInv, ClocksOK, Settled, WindowKept, CountAt, Dimmer!duty_cycle, dimmerVars
  <2> QED BY <2>1, <2>3 DEF BrightInv
<1> QED BY <1>1, <1>2, <1>3, <1>4 DEF Dimmer!Next

\* The registers and the counter of the dimmer stay in range, still switches give
\* exactly their brightness in every window of as many edges as the counter has values
\* (pwm_gen.v:21), wherever the window begins, and no line of the duty cycle flickers
\* (debouncer.v:12): for every number of switches and every length of the registers.
THEOREM DimmerStaysSteady == MCSpec => DimmerSound
<1>1. Dimmer!PwmAssumption
    BY DimmerAssumption
<1>2. MCInit => BrightInv
  <2> SUFFICES ASSUME MCInit PROVE BrightInv
      OBVIOUS
  <2>1. DimmerIdle \/ Dimmer!Init
      BY DEF MCInit
  <2>2. count = 0 /\ pwm = FALSE /\ stable = 0 /\ lit = <<>>
      BY <2>1 DEF DimmerIdle, Dimmer!Init
  <2>3. DimmerInv
      BY <1>1, DimmerBegins
  <2> QED BY <1>1, <2>2, <2>3, BrightBegins
<1>3. BrightInv /\ [MCNext]_<<board, boards>> => BrightInv'
    BY <1>1, DimmerSteps, BrightNext
<1>4. BrightInv => (board = "dimmer" => Dimmer!TypeOK /\ Dimmer!SteadyBrightness)
  <2> SUFFICES ASSUME BrightInv PROVE Dimmer!TypeOK /\ Dimmer!SteadyBrightness
      OBVIOUS
  <2>1. Dimmer!TypeOK
      BY DEF BrightInv, DimmerInv, RegistersOK, ClocksOK, Dimmer!TypeOK, RegBits
  <2> QED BY <1>1, <2>1, BrightnessIs
<1> QED BY <1>2, <1>3, <1>4, DutyCycleSteady, PTL DEF MCSpec, DimmerSound
==============================================================================
