----------------------------- MODULE GSensorSpi -----------------------------
(***************************************************************************)
(* The accelerometer reader of the week 1 board design, clock by clock:    *)
(*   v/spi_ee_config.v    configures the ADXL345, then polls and reads it  *)
(*   v/spi_controller.v   moves one 16-bit word over the three-wire bus    *)
(* and, external, the sensor as these two use it.                          *)
(*                                                                         *)
(* One step of Clock is one rising edge of iSPI_CLK: every register loads  *)
(* a function of the values before the edge.  Words and bytes are kept as  *)
(* what they stand for - a write of a configuration entry, a read of a     *)
(* register, a bit of the answer - so that a byte taken too early, or of   *)
(* another register, is seen to be one.                                    *)
(***************************************************************************)
EXTENDS Integers, Sequences

CONSTANTS INI_NUMBER,   \* entries of the configuration table
          IDLE_MSB,     \* the polling interval is 2^IDLE_MSB idle clocks
          Samples,      \* what the sensor may measure
          NoSample      \* before the first measurement

ASSUME SpiAssumption ==
    /\ INI_NUMBER \in 1 .. 15 /\ IDLE_MSB \in Nat
    /\ NoSample \notin Samples

VARIABLES
    \* spi_ee_config
    ini_index, spi_go, spi_state, p2s_data, high_byte, read_back, clear_status,
    read_ready, read_idle_count, high_byte_d, read_back_d, clear_status_d,
    low_byte_data, oDATA,       \* oDATA: the pair oDATA_H, oDATA_L
    \* spi_controller
    spi_count_en, spi_count, s2p_data,
    \* the sensor
    configured,   \* entries of the table received, in order
    sample,       \* the latest measurement
    data_ready,   \* its DATA_READY flag
    reply,        \* the byte the sensor is sending
    settled,      \* its interrupt line is still around every clock edge
    \* history
    pulses,       \* clocks sent since the chip was selected
    reported,     \* the DATA_READY flag as last sent
    leftover      \* read_ready is what it was at power-up: nothing has assigned it

configState == <<ini_index, spi_go, spi_state, p2s_data, high_byte, read_back,
                 clear_status, read_ready, read_idle_count, low_byte_data, oDATA>>
delayState == <<high_byte_d, read_back_d, clear_status_d>>
shiftState == <<spi_count_en, spi_count, s2p_data>>
sensorState == <<configured, sample, data_ready, reply, settled, reported>>
vars == <<configState, delayState, shiftState, sensorState, pulses, leftover>>

\* What the two groups of registers that load iG_INT2, an asynchronous input, may
\* see of it at one edge.
IntSamples == {int \in [word : BOOLEAN, go : BOOLEAN] : settled => int.word = int.go}

Write(k) == [mode |-> "write", entry |-> k]
Read(register) == [mode |-> "read", entry |-> register]
Words == {Write(k) : k \in 0 .. INI_NUMBER-1}
            \cup {Read(r) : r \in {"INT_SOURCE", "X_LB", "X_HB"}}

\* A bit of an answer: of which register, at which place, of which value.
Values == BOOLEAN \cup Samples \cup {NoSample}
Bits == [of : {"INT_SOURCE", "X_LB", "X_HB"}, place : 0 .. 7, value : Values]
NoBit == [of |-> "INT_SOURCE", place |-> 0, value |-> FALSE]

\* DATA_READY is bit 7 of INT_SOURCE; the other bits of it are not used.  A bit
\* of a measurement may have either level.
Levels(bit) == IF bit.of = "INT_SOURCE" THEN {bit.place = 7 /\ bit.value}
                                        ELSE BOOLEAN

TypeOK ==
    /\ ini_index \in 0 .. INI_NUMBER
    /\ spi_state \in {"IDLE", "TRANSFER"}
    /\ {spi_go, high_byte, read_back, clear_status, read_ready, high_byte_d,
        read_back_d, spi_count_en, data_ready, settled, reported, leftover} \subseteq BOOLEAN
    /\ p2s_data \in Words
    /\ read_idle_count \in 0 .. 2^(IDLE_MSB+1) - 1
    /\ clear_status_d \in [0 .. 3 -> BOOLEAN]
    /\ spi_count \in 0 .. 15
    /\ s2p_data \in [0 .. 7 -> Bits]
    /\ low_byte_data \in [0 .. 7 -> Bits]
    /\ oDATA \in [high : [0 .. 7 -> Bits], low : [0 .. 7 -> Bits]]
    /\ configured \in 0 .. INI_NUMBER
    /\ sample \in Samples \cup {NoSample}
    /\ reply \in [of : {"INT_SOURCE", "X_LB", "X_HB"}, value : Values]
    /\ pulses \in 0 .. 17

\* After the reset, which comes once: a counter that starts at power-up drives iRSTN
\* (DE10_LITE_Small.v:78, 95).  Nothing resets read_ready, the words and the bytes, and
\* the sensor has announced nothing.
Init ==
    /\ ini_index = 0 /\ spi_go = FALSE /\ spi_state = "IDLE"
    /\ p2s_data = Write(0)
    /\ read_idle_count = 0
    /\ high_byte = FALSE /\ read_back = FALSE /\ clear_status = FALSE
    /\ read_ready \in BOOLEAN
    /\ high_byte_d = FALSE /\ read_back_d = FALSE
    /\ clear_status_d = [i \in 0 .. 3 |-> FALSE]
    /\ low_byte_data = [i \in 0 .. 7 |-> NoBit]
    /\ oDATA = [high |-> low_byte_data, low |-> low_byte_data]
    /\ spi_count_en = FALSE /\ spi_count = 15
    /\ s2p_data = low_byte_data
    /\ configured = 0 /\ sample = NoSample /\ data_ready = FALSE
    /\ reply = [of |-> "INT_SOURCE", value |-> FALSE]
    /\ settled \in BOOLEAN
    /\ pulses = 0 /\ reported = FALSE /\ leftover = read_ready

-----------------------------------------------------------------------------
(* spi_controller.  A definition with an underscore in its name is a        *)
(* variant of the one below it with a fault: the properties must tell them  *)
(* apart.                                                                   *)

read_mode == p2s_data.mode = "read"

SPI_END_Early == spi_count = 1
SPI_END == spi_count = 0

\* The line while the answer is due: the bit of the answer at this place.
Sdio == [of |-> reply.of, place |-> spi_count, value |-> reply.value]

AnswerDue_Late == read_mode /\ spi_count < 7
AnswerDue == read_mode /\ spi_count < 8

NextSpiCount == IF spi_count_en THEN (spi_count - 1) % 16 ELSE 15

SpiController ==
    /\ spi_count_en' = (~SPI_END /\ (spi_go \/ spi_count_en))
    /\ spi_count' = NextSpiCount
    /\ s2p_data' = IF AnswerDue
                   THEN [i \in 0 .. 7 |-> IF i = 0 THEN Sdio ELSE s2p_data[i-1]]
                   ELSE s2p_data

-----------------------------------------------------------------------------
(* spi_ee_config                                                           *)

Configuring_OneShort == ini_index < INI_NUMBER - 1
Configuring == ini_index < INI_NUMBER

ConfigIdle ==
    /\ Configuring /\ spi_state = "IDLE"
    /\ p2s_data' = Write(ini_index)
    /\ spi_go' = TRUE
    /\ spi_state' = "TRANSFER"
    /\ UNCHANGED <<ini_index, high_byte, read_back, clear_status, read_ready,
                   read_idle_count, low_byte_data, oDATA>>

ConfigTransferEnd ==
    /\ Configuring /\ spi_state = "TRANSFER" /\ SPI_END
    /\ ini_index' = ini_index + 1
    /\ spi_go' = FALSE
    /\ spi_state' = "IDLE"
    /\ UNCHANGED <<p2s_data, high_byte, read_back, clear_status, read_ready,
                   read_idle_count, low_byte_data, oDATA>>

Poll_Never == FALSE
Poll == read_idle_count >= 2^IDLE_MSB

Wake(int) == Poll \/ (int /\ ~clear_status_d[3])

\* Choose what to read, the high byte first in line; start the transfer; and
\* take over the byte that the transfer before this clock brought.
ReadIdle(int) ==
    /\ ~Configuring /\ spi_state = "IDLE"
    /\ read_idle_count' = (read_idle_count + 1) % 2^(IDLE_MSB+1)
    /\ p2s_data' = CASE high_byte                -> Read("X_HB")
                     [] ~high_byte /\ read_ready -> Read("X_LB")
                     [] OTHER -> IF Wake(int.word) THEN Read("INT_SOURCE") ELSE p2s_data
    /\ read_back' = (read_back \/ high_byte \/ read_ready)
    /\ clear_status' =
          (clear_status \/ (~high_byte /\ ~read_ready /\ Wake(int.word)))
    /\ IF high_byte \/ read_ready \/ Wake(int.go)
       THEN spi_go' = TRUE /\ spi_state' = "TRANSFER"
       ELSE UNCHANGED <<spi_go, spi_state>>
    /\ oDATA' = IF read_back_d /\ high_byte_d
                THEN [high |-> s2p_data, low |-> low_byte_data] ELSE oDATA
    /\ low_byte_data' = IF read_back_d /\ ~high_byte_d THEN s2p_data
                                                       ELSE low_byte_data
    /\ UNCHANGED <<ini_index, high_byte, read_ready>>

DataTransferEnd ==
    /\ ~Configuring /\ spi_state = "TRANSFER" /\ SPI_END /\ read_back
    /\ spi_go' = FALSE
    /\ spi_state' = "IDLE"
    /\ read_back' = FALSE
    /\ high_byte' = ~high_byte
    /\ read_ready' = FALSE
    /\ UNCHANGED <<ini_index, p2s_data, clear_status, read_idle_count,
                   low_byte_data, oDATA>>

\* The last bit is still on the line: DATA_READY, the first of the answer, is
\* at place 6 of the shift register.
StatusBit_Msb == s2p_data[7]
StatusBit == s2p_data[6]

StatusTransferEnd ==
    /\ ~Configuring /\ spi_state = "TRANSFER" /\ SPI_END /\ ~read_back
    /\ spi_go' = FALSE
    /\ spi_state' = "IDLE"
    /\ clear_status' = FALSE
    /\ read_ready' \in Levels(StatusBit)
    /\ read_idle_count' = 0
    /\ UNCHANGED <<ini_index, p2s_data, high_byte, read_back, low_byte_data, oDATA>>

Transferring == spi_state = "TRANSFER" /\ ~SPI_END /\ UNCHANGED configState

SpiEeConfig(int) ==
    \/ ConfigIdle \/ ConfigTransferEnd
    \/ ReadIdle(int) \/ DataTransferEnd \/ StatusTransferEnd
    \/ Transferring

Delays ==
    /\ high_byte_d' = high_byte
    /\ read_back_d' = read_back
    /\ clear_status_d' = [i \in 0 .. 3 |-> IF i = 0 THEN clear_status
                                                    ELSE clear_status_d[i-1]]

-----------------------------------------------------------------------------
(* The sensor, external                                                    *)

Measuring == configured = INI_NUMBER

\* At the last bit of the command of a read the sensor fetches its answer;
\* reading a byte of the measurement clears DATA_READY.  At the last bit of a
\* write it has the entry.
SensorFetch ==
    /\ spi_count_en /\ read_mode /\ spi_count = 8
    /\ reply' = [of |-> p2s_data.entry,
                 value |-> IF p2s_data.entry = "INT_SOURCE" THEN data_ready ELSE sample]
    /\ IF p2s_data.entry = "INT_SOURCE"
       THEN reported' = data_ready /\ UNCHANGED data_ready
       ELSE data_ready' = FALSE /\ reported' = FALSE
    /\ UNCHANGED <<configured, sample, settled>>

SensorStore ==
    /\ spi_count_en /\ ~read_mode /\ spi_count = 0
    /\ configured' = IF p2s_data.entry = configured THEN configured + 1 ELSE configured
    /\ UNCHANGED <<sample, data_ready, reply, settled, reported>>

SensorIdle ==
    /\ ~(spi_count_en /\ spi_count = (IF read_mode THEN 8 ELSE 0))
    /\ UNCHANGED sensorState

\* The clocks sent while selected; the count saturates at 17.
CountPulses ==
    pulses' = IF ~spi_go THEN 0
              ELSE IF spi_count_en /\ pulses < 17 THEN pulses + 1 ELSE pulses

\* Both ends of a transfer that is not of the configuration assign read_ready.
AgeReady ==
    leftover' = (leftover /\ ~(~Configuring /\ spi_state = "TRANSFER" /\ SPI_END))

Clock ==
    /\ \E int \in IntSamples : SpiEeConfig(int)
    /\ SpiController
    /\ Delays
    /\ SensorFetch \/ SensorStore \/ SensorIdle
    /\ CountPulses /\ AgeReady

NewSample ==
    /\ Measuring
    /\ sample' \in Samples \ {sample}
    /\ data_ready' = TRUE
    /\ UNCHANGED <<configState, delayState, shiftState, configured, reply,
                   settled, reported, pulses, leftover>>

Next == Clock \/ NewSample

Spec == Init /\ [][Next]_vars

\* The clock of the PLL does not stop.
FairSpec == Spec /\ WF_vars(Clock)

-----------------------------------------------------------------------------
(* Properties                                                              *)

\* The chip is deselected after exactly sixteen clocks, and the word on the way
\* does not change while it is selected.
FramesWhole ==
    [][/\ spi_go /\ ~spi_go' => pulses' = 16
       /\ spi_go => p2s_data' = p2s_data]_vars

\* No register is read before the sensor has received every entry of the table
\* in order; POWER_CONTROL, which starts the measurements, is the last one.
ConfiguredFirst == spi_go /\ read_mode => configured = INI_NUMBER

\* A byte as it was sent: eight bits of one register, in their places, of one
\* measurement.
WholeByte(byte, register) ==
    \A i \in 0 .. 7 : byte[i] = [of |-> register, place |-> i, value |-> byte[0].value]

\* The bytes put out are whole bytes and the right ones: the shift register is
\* read one clock after the transfer ends, when the last bit has come in.
BytesWhole ==
    \/ oDATA.high[0] = NoBit
    \/ WholeByte(oDATA.high, "X_HB") /\ WholeByte(oDATA.low, "X_LB")

\* A measurement is read only when the sensor has announced one since the last
\* was read, if the line is settled.  One pair may be read that nothing announced: the
\* first, if read_ready, which no reset assigns, comes up TRUE (spi_ee_config.v:82-91).
ReadsOnlyReady ==
    settled /\ read_ready /\ ~read_back /\ ~Configuring => reported \/ leftover

\* Every measurement announced is fetched: polling does it even when the
\* interrupt line never rises.  If the line is not settled, a word may be chosen
\* and not sent, or sent and not chosen.
MeasurementFetched == settled => (data_ready ~> ~data_ready)

\* spi_ee_config.v:115 calls the pair a "multiple-byte read", the access in which
\* the sensor answers with both bytes of one measurement.
SameMeasurement ==
    oDATA.low[0].value \in Samples => oDATA.high[0].value = oDATA.low[0].value
=============================================================================
