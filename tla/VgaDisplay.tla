----------------------------- MODULE VgaDisplay -----------------------------
(***************************************************************************)
(* The picture of DE10_LITE_Default:                                       *)
(*   VGA_DATA/VGA_Controller.v   counters, address, cursor, colour         *)
(*   VGA_DATA/VGA_OSD_RAM.v      the picture memory and its colours        *)
(*   VGA_DATA/VGA_Param.h        the parameters of the constants below     *)
(*                                                                         *)
(* One clock edge is one step.  Between the counters and the screen there  *)
(* are the coordinates, the address, two stages of memory with the place   *)
(* in the byte beside them, the colour of the memory, that of the cursor   *)
(* and the output.  A colour is the address of the pixel it was read from; *)
(* the three channels are treated alike.  The memory is external: it has a *)
(* register for the address and one for the byte.                          *)
(***************************************************************************)
EXTENDS Integers

CONSTANTS H_SYNC_CYC, H_SYNC_BACK, H_SYNC_ACT, H_SYNC_TOTAL,
          V_SYNC_CYC, V_SYNC_BACK, V_SYNC_ACT, V_SYNC_TOTAL,
          Addresses,   \* of the memory; further bits of an address are dropped
          Cursors      \* the cursors to look at, [on, x, y]

X_START == H_SYNC_CYC + H_SYNC_BACK + 4
Y_START == V_SYNC_CYC + V_SYNC_BACK

\* What the constants must be; the module that is run assumes it.
VgaAssumption ==
    /\ {H_SYNC_CYC, H_SYNC_BACK, V_SYNC_CYC, V_SYNC_BACK} \subseteq Nat \ {0}
    /\ H_SYNC_ACT \in Nat /\ H_SYNC_ACT > 4 /\ V_SYNC_ACT \in Nat \ {0}
    /\ {H_SYNC_TOTAL, V_SYNC_TOTAL, Addresses} \subseteq Nat \ {0}
    /\ X_START + 9 + H_SYNC_ACT <= H_SYNC_TOTAL
    /\ Y_START + V_SYNC_ACT <= V_SYNC_TOTAL + 1
    /\ Addresses % 8 = 0 /\ Addresses >= H_SYNC_ACT * V_SYNC_ACT

VARIABLES
    H_Cont, V_Cont, oVGA_H_SYNC, oVGA_V_SYNC,
    oCoord_X, oCoord_Y, oAddress,
    rdaddress, ROM_DATA,    \* the registers of the memory: which byte
    ADDR_d, ADDR_dd,        \* which bit of it
    oRed, Cur_Color, R_R,   \* colours
    cursor                  \* iCursor_RGB_EN[3], iCursor_X and iCursor_Y

counters == <<H_Cont, V_Cont, oVGA_H_SYNC, oVGA_V_SYNC>>
address == <<oCoord_X, oCoord_Y, oAddress>>
memory == <<rdaddress, ROM_DATA, ADDR_d, ADDR_dd, oRed>>
vars == <<counters, address, memory, Cur_Color, R_R, cursor>>

Black == -2       \* colours that are no address of the memory
Cross == -3
Unknown == -1     \* a register that reset does not reach; a colour made of it

TypeOK ==
    /\ H_Cont \in 0 .. H_SYNC_TOTAL /\ V_Cont \in 0 .. V_SYNC_TOTAL
    /\ {oVGA_H_SYNC, oVGA_V_SYNC} \subseteq {0, 1}
    /\ oCoord_X \in 0 .. H_SYNC_ACT - 1 /\ oCoord_Y \in 0 .. V_SYNC_ACT - 1
    /\ oAddress \in 0 .. Addresses - 1
    /\ {ADDR_d, ADDR_dd} \subseteq 0 .. 7

\* After reset.
Init ==
    /\ H_Cont = 0 /\ V_Cont = 0 /\ oVGA_H_SYNC = 0 /\ oVGA_V_SYNC = 0
    /\ oCoord_X = 0 /\ oCoord_Y = 0 /\ oAddress = 0
    /\ rdaddress = Unknown /\ ROM_DATA = Unknown
    /\ ADDR_d = 0 /\ ADDR_dd = 0 /\ oRed = Black
    /\ Cur_Color = Black /\ R_R = Unknown
    /\ cursor \in Cursors

-----------------------------------------------------------------------------
(* A definition with an underscore in its name is a variant of the one      *)
(* below it with a fault: the properties must tell them apart.              *)

\* The window of the lines shown, so many clocks after the coordinates.
InWindow(delay) ==
    /\ H_Cont >= X_START + delay /\ H_Cont < X_START + H_SYNC_ACT + delay
    /\ V_Cont >= Y_START /\ V_Cont < Y_START + V_SYNC_ACT

\* The pixel LUT address generator: the address is of the coordinates before.
Offset_None == 0
Offset == 3
AddressGenerator ==
    IF InWindow(0)
    THEN /\ oCoord_X' = H_Cont - X_START
         /\ oCoord_Y' = V_Cont - Y_START
         /\ oAddress' = (oCoord_Y * H_SYNC_ACT + oCoord_X - Offset) % Addresses
    ELSE UNCHANGED address

\* The cursor generator.  The lines of the cross are three pixels wide.
OnCross ==
    \/ H_Cont - (X_START + 8) \in cursor.x - 1 .. cursor.x + 1
    \/ V_Cont - Y_START \in cursor.y - 1 .. cursor.y + 1
CursorGenerator ==
    Cur_Color' = IF InWindow(8) /\ cursor.on /\ OnCross THEN Cross ELSE oRed

HSync ==
    /\ H_Cont' = IF H_Cont < H_SYNC_TOTAL THEN H_Cont + 1 ELSE 0
    /\ oVGA_H_SYNC' = IF H_Cont < H_SYNC_CYC THEN 0 ELSE 1

\* Vertically, at the start of a line.
VSync ==
    IF H_Cont = 0
    THEN /\ V_Cont' = IF V_Cont < V_SYNC_TOTAL THEN V_Cont + 1 ELSE 0
         /\ oVGA_V_SYNC' = IF V_Cont < V_SYNC_CYC THEN 0 ELSE 1
    ELSE UNCHANGED <<V_Cont, oVGA_V_SYNC>>

Output == R_R' = IF InWindow(9) THEN Cur_Color ELSE Black

\* The memory, external.
PictureMemory == rdaddress' = oAddress \div 8 /\ ROM_DATA' = rdaddress

\* The bits of a byte are stored in reverse.
PictureColour ==
    /\ ADDR_d' = oAddress % 8
    /\ ADDR_dd' = 7 - ADDR_d
    /\ oRed' = IF ROM_DATA = Unknown THEN Unknown ELSE 8 * ROM_DATA + 7 - ADDR_dd

Clock ==
    /\ AddressGenerator /\ CursorGenerator /\ HSync /\ VSync /\ Output
    /\ PictureMemory /\ PictureColour
    /\ UNCHANGED cursor

Next == Clock

Spec == Init /\ [][Next]_vars

-----------------------------------------------------------------------------
(* Properties                                                              *)

\* The place on the screen that the output is for.
Column == H_Cont - 1 - (X_START + 9)
Row    == V_Cont - Y_START
Visible == Column \in 0 .. H_SYNC_ACT - 1 /\ Row \in 0 .. V_SYNC_ACT - 1

Near(a, b) == a \in b - 1 .. b + 1

\* Every stage between the counters and the screen keeps step: a place on the screen
\* shows the cursor if it lies on its lines, else the pixel of the picture of the same
\* place; and nothing is shown outside the picture or during a sync pulse.  The address
\* stops four clocks before the output does (VGA_Controller.v:99, 206): the last four
\* places of a line repeat the one before them.
PictureInPlace ==
    IF Visible
    THEN /\ oVGA_H_SYNC = 1 /\ oVGA_V_SYNC = 1
         /\ R_R = IF cursor.on /\ (Near(Column, cursor.x) \/ Near(Row, cursor.y)) THEN Cross
                  ELSE LET shown == IF Column < H_SYNC_ACT - 5 THEN Column ELSE H_SYNC_ACT - 5
                       IN  Row * H_SYNC_ACT + shown
    ELSE R_R = Black \/ (R_R = Unknown /\ H_Cont = 0 /\ V_Cont = 0)
==============================================================================
