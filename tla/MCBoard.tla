------------------------------- MODULE MCBoard -------------------------------
(***************************************************************************)
(* Instances for TLC of the designs in hardware that keep a state, each on *)
(* a board of its own: GSensorSpi, PwmLed, VgaDisplay and LedBar.  The     *)
(* board is chosen in the initial state and stays.                         *)
(*                                                                         *)
(* Every transfer of the accelerometer reader has its sixteen clocks and   *)
(* the table its length; the polling interval is two idle clocks.  The     *)
(* dimmer has two switches, so that lines change apart, and three samples  *)
(* to a debouncer, so that a register has an inside besides its ends.  The *)
(* display has two bytes of picture to a line, three lines and a cursor at *)
(* the corners, in the middle or off.  The bar is quiet for eight clocks,  *)
(* and accelerations lie on both sides of every step it makes.             *)
(***************************************************************************)
EXTENDS GSensorSpi

CONSTANTS
    Depth, Width,                                                 \* PwmLed
    H_SYNC_CYC, H_SYNC_BACK, H_SYNC_ACT, H_SYNC_TOTAL,            \* VgaDisplay
    V_SYNC_CYC, V_SYNC_BACK, V_SYNC_ACT, V_SYNC_TOTAL, Addresses, Cursors,
    Top, Blink, Accelerations                                     \* LedBar

VARIABLES board,
          SW, shiftreg, debounced, count, pwm, stable, lit, held,
          H_Cont, V_Cont, oVGA_H_SYNC, oVGA_V_SYNC, oCoord_X, oCoord_Y, oAddress,
          rdaddress, ROM_DATA, ADDR_d, ADDR_dd, oRed, Cur_Color, R_R, cursor,
          iDIG, iG_INT2, int2_d, int2_count, int2_count_en, quiet

dimmerVars == <<SW, shiftreg, debounced, count, pwm, stable, lit, held>>
displayVars == <<H_Cont, V_Cont, oVGA_H_SYNC, oVGA_V_SYNC, oCoord_X, oCoord_Y, oAddress,
                 rdaddress, ROM_DATA, ADDR_d, ADDR_dd, oRed, Cur_Color, R_R, cursor>>
barVars == <<iDIG, iG_INT2, int2_d, int2_count, int2_count_en, quiet>>
boards == <<vars, dimmerVars, displayVars, barVars>>

MCCursors == {[on |-> FALSE, x |-> 0, y |-> 0]} \cup [on : {TRUE}, x : {0, 7, 15}, y : 0 .. 2]
MCAccelerations == {-512, -257, -256, -33, -32, -17, -16, -1, 0, 15, 16, 31, 32, 100,
                    255, 256, 511}

Dimmer == INSTANCE PwmLed
Vga == INSTANCE VgaDisplay
Bar == INSTANCE LedBar

ASSUME DimmerAssumption == Dimmer!PwmAssumption
ASSUME DisplayAssumption == Vga!VgaAssumption
ASSUME LedBarAssumption == Bar!BarAssumption

\* A board the run is not about stays as it is.
ReaderIdle == Init /\ ~read_ready /\ settled
DimmerIdle ==
    /\ SW = [i \in Dimmer!Lines |-> FALSE]
    /\ shiftreg = [i \in Dimmer!Lines |-> [k \in 1 .. Depth |-> FALSE]]
    /\ debounced = [i \in Dimmer!Lines |-> TRUE]
    /\ count = 0 /\ pwm = FALSE /\ stable = 0 /\ lit = <<>>
    /\ held = [i \in Dimmer!Lines |-> Depth]
VgaIdle == Vga!Init /\ cursor = (CHOOSE c \in Cursors : TRUE)
BarIdle == Bar!Init /\ iDIG = (CHOOSE x \in Accelerations : TRUE) /\ ~iG_INT2 /\ int2_d = <<FALSE, FALSE>>

MCInit ==
    \/ board = "reader" /\ Init /\ DimmerIdle /\ VgaIdle /\ BarIdle
    \/ board = "dimmer" /\ ReaderIdle /\ Dimmer!Init /\ VgaIdle /\ BarIdle
    \/ board = "display" /\ ReaderIdle /\ DimmerIdle /\ Vga!Init /\ BarIdle
    \/ board = "bar" /\ ReaderIdle /\ DimmerIdle /\ VgaIdle /\ Bar!Init

OthersThanReader == UNCHANGED <<dimmerVars, displayVars, barVars>>
OthersThanDimmer == UNCHANGED <<vars, displayVars, barVars>>

ReaderClock == board = "reader" /\ Clock /\ OthersThanReader
ReaderSample == board = "reader" /\ NewSample /\ OthersThanReader
DimmerSlow == board = "dimmer" /\ Dimmer!SlowClock /\ OthersThanDimmer
DimmerPwm == board = "dimmer" /\ Dimmer!PwmClock /\ OthersThanDimmer
DimmerMove ==
    board = "dimmer" /\ OthersThanDimmer /\ \E i \in Dimmer!Lines : Dimmer!Move(i)
DisplayClock ==
    board = "display" /\ Vga!Next /\ UNCHANGED <<vars, dimmerVars, barVars>>
BarStep == board = "bar" /\ Bar!Next /\ UNCHANGED <<vars, dimmerVars, displayVars>>

MCNext ==
    /\ \/ ReaderClock \/ ReaderSample
       \/ DimmerSlow \/ DimmerPwm \/ DimmerMove
       \/ DisplayClock \/ BarStep
    /\ UNCHANGED board

MCSpec == MCInit /\ [][MCNext]_<<board, boards>>

\* The clocks of the PLLs do not stop.
MCFairSpec == /\ MCSpec
              /\ WF_boards(ReaderClock)
              /\ WF_boards(DimmerSlow)
              /\ WF_boards(DimmerPwm)

\* The types of the reader; no register is read before the sensor is configured, nor a
\* measurement before it was announced (spi_ee_config.v:93, 163), and a byte that is
\* shown is one byte of one measurement (spi_ee_config.v:137).
ReaderSound == TypeOK /\ ConfiguredFirst /\ ReadsOnlyReady /\ BytesWhole

\* The types of the dimmer.  SteadyBrightness: still switches give exactly their
\* brightness in every window (pwm_gen.v:21); and NoFlicker: a debounced line holds
\* for the length of its register (debouncer.v:12).
DimmerSound ==
    /\ [](board = "dimmer" => Dimmer!TypeOK /\ Dimmer!SteadyBrightness)
    /\ Dimmer!NoFlicker

\* PwmLed's Follows: still switches are followed in the end (debouncer.v:7).
Follows == (board = "dimmer") => Dimmer!Follows

\* The types of the display and its PictureInPlace: every place on the screen shows
\* the pixel of the picture, or the cursor, of the same place
\* (VGA_Controller.v:99-107, VGA_OSD_RAM.v:46-64); and those of the bar and its
\* BarInPlace: no position until it has been quiet, and then one that follows the
\* acceleration (led_driver.v:21-46).
ShownInPlace ==
    /\ board = "display" => Vga!TypeOK /\ Vga!PictureInPlace
    /\ board = "bar" => Bar!TypeOK /\ Bar!BarInPlace
==============================================================================
