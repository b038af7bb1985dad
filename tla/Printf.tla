------------------------------- MODULE Printf -------------------------------
(***************************************************************************)
(* The two small printfs of the HAL: alt_log_private_printf, which the log *)
(* uses (HAL/src/alt_log_printf.c), and alt_printf (HAL/src/alt_printf.c)  *)
(* with the buffer it prints through under semihosting                     *)
(* (HAL/src/alt_putcharbuf.c).                                             *)
(*                                                                         *)
(*   pc      "idle", or the routine that is called                         *)
(*   fmt     what is left of the format, after w                           *)
(*   state   the state of the log's parser                                 *)
(*   spec    what it makes of the directive so far, where a number that is *)
(*           absent is -1; read is a history of its characters             *)
(*   buf     characters in the buffer                                      *)
(*   out     what has been printed                                         *)
(*   pieces  history: for every directive its letter, the settings and the *)
(*           argument it was given, and the characters it was turned into  *)
(*                                                                         *)
(* A step reads one character of the format.  The arguments are words of   *)
(* Bits bits, in which an int and a long have the same width.  How long a  *)
(* character of the log waits for the JTAG UART is AltLog's.               *)
(***************************************************************************)
EXTENDS Integers, SequencesExt, FiniteSetsExt

CONSTANTS
    Bits,                    \* of a word: 32; a multiple of 4
    ALT_PUTBUF_SIZE,         \* 1 when, without semihosting, a character is written at once
    LogFormats, Formats,     \* the formats of the log and of alt_printf
    Values, Strings          \* the arguments: words, and strings

\* A place value: base to the power n.
Power(base, n) ==
    LET power[i \in 0 .. n] == IF i = 0 THEN 1 ELSE base * power[i-1]
    IN power[n]

PrintfAssumption ==
    /\ Bits \in Nat \ {0} /\ Bits % 4 = 0 /\ ALT_PUTBUF_SIZE \in Nat \ {0}
    /\ \A f \in LogFormats \cup Formats \cup Strings : f \in Seq(Range(f))
    /\ Values \subseteq 0 .. Power(2, Bits) - 1

VARIABLES pc, fmt, state, spec, buf, out, pieces

vars == <<pc, fmt, state, spec, buf, out, pieces>>

Decimals == <<"0", "1", "2", "3", "4", "5", "6", "7", "8", "9">>
Lower == Decimals \o <<"a", "b", "c", "d", "e", "f">>
Upper == Decimals \o <<"A", "B", "C", "D", "E", "F">>

NoSpec == [zero |-> FALSE, base |-> 10, signed |-> TRUE, upper |-> FALSE,
           before |-> -1, after |-> -1, read |-> <<>>]

TypeOK ==
    /\ pc \in {"idle", "log", "printf"}
    /\ state \in {"chars", "first", "other"}
    /\ spec \in [zero : BOOLEAN, base : {8, 10, 16}, signed : BOOLEAN, upper : BOOLEAN,
                 before : Int, after : Int, read : Seq(Range(Decimals) \cup {".", "l"})]
    /\ Len(buf) < ALT_PUTBUF_SIZE

Init ==
    /\ pc = "idle" /\ fmt = <<>> /\ state = "chars" /\ spec = NoSpec
    /\ buf = <<>> /\ out = <<>> /\ pieces = <<>>

-----------------------------------------------------------------------------
(* Characters and numbers                                                  *)

\* r of the character c; none when r is not positive.
RepChar(c, r) == [i \in 1 .. r |-> c]

\* The digits of v in a base, from the largest place value that it reaches.
Digits_SmallerPlace(v, base, upper) ==
    LET n == CHOOSE k \in 1 .. Bits : v <= Power(base, k) /\ (k = 1 \/ v > Power(base, k - 1)) IN
    [i \in 1 .. n |->
        (IF upper THEN Upper ELSE Lower)[((v \div Power(base, n - i)) % base) + 1]]

Digits(v, base, upper) ==
    LET n == CHOOSE k \in 1 .. Bits : v < Power(base, k) /\ (k = 1 \/ v >= Power(base, k - 1)) IN
    [i \in 1 .. n |->
        (IF upper THEN Upper ELSE Lower)[((v \div Power(base, n - i)) % base) + 1]]

\* The sign is the top bit, and stripped from a number that has one.
Negative(s, v) == s.signed /\ v >= Power(2, Bits - 1)
Magnitude(s, v) == IF Negative(s, v) THEN Power(2, Bits) - v ELSE v

\* A number as the log prints it: zeros after the sign, or spaces before it.
Number_SignNotCounted(s, v) ==
    LET sign   == IF Negative(s, v) THEN <<"-">> ELSE <<>>
        digits == Digits(Magnitude(s, v), s.base, s.upper)
        pad    == s.before - Len(digits)
    IN IF s.zero THEN sign \o RepChar("0", pad) \o digits
                 ELSE RepChar(" ", pad) \o sign \o digits

Number(s, v) ==
    LET sign   == IF Negative(s, v) THEN <<"-">> ELSE <<>>
        digits == Digits(Magnitude(s, v), s.base, s.upper)
        pad    == s.before - Len(digits) - Len(sign)
    IN IF s.zero THEN sign \o RepChar("0", pad) \o digits
                 ELSE RepChar(" ", pad) \o sign \o digits

\* A number as alt_printf prints it: nibble by nibble from the first that is not zero.
Hex(v) ==
    IF v = 0 THEN <<"0">>
    ELSE LET Nibble(shift) == (v \div Power(2, shift)) % 16
             first == Max({s \in {4 * k : k \in 0 .. Bits \div 4 - 1} : Nibble(s) # 0})
         IN [i \in 1 .. first \div 4 + 1 |-> Lower[Nibble(first - 4 * (i - 1)) + 1]]

\* What a piece is the record of.
Piece(letter, s, arg, text) ==
    [letter |-> letter, spec |-> s, arg |-> arg, text |-> text]

-----------------------------------------------------------------------------
(* The log                                                                 *)

Call(routine, formats) ==
    /\ pc = "idle"
    /\ \E f \in formats : fmt' = f
    /\ pc' = routine /\ out' = <<>> /\ pieces' = <<>>
    /\ state' = "chars" /\ spec' = NoSpec
    /\ UNCHANGED buf

\* The next character of the format is c.
Takes(routine, c) == pc = routine /\ fmt # <<>> /\ c = Head(fmt) /\ fmt' = Tail(fmt)

\* Characters and a piece are printed past any buffer.
Prints(p) == out' = out \o p.text /\ pieces' = Append(pieces, p)

LogChars(c) ==
    /\ Takes("log", c) /\ state = "chars"
    /\ IF c = "%" THEN spec' = NoSpec /\ state' = "first" /\ UNCHANGED <<out, pieces>>
                  ELSE Prints(Piece("", spec, c, <<c>>)) /\ UNCHANGED <<state, spec>>
    /\ UNCHANGED <<pc, buf>>

LogFirst(c) ==
    /\ Takes("log", c) /\ state = "first"
    /\ \/ /\ c = "0"
          /\ spec' = [spec EXCEPT !.zero = TRUE, !.read = <<c>>] /\ state' = "other"
          /\ UNCHANGED <<out, pieces>>
       \/ /\ c = "%"
          /\ Prints(Piece("", spec, c, <<c>>)) /\ state' = "chars"
          /\ UNCHANGED spec
    /\ UNCHANGED <<pc, buf>>

\* A character that is neither belongs to the rest of the directive.
Rest(c) ==
    /\ Takes("log", c)
    /\ \/ state = "other"
       \/ state = "first" /\ c \notin {"0", "%"}
    /\ UNCHANGED <<pc, buf>>

IsDigit(c) == c \in Range(Decimals)
DigitOf(c) == (CHOOSE i \in 1 .. 10 : Decimals[i] = c) - 1

LogWidth_Replaces(c) ==
    /\ Rest(c) /\ (c \in {".", "l"} \/ IsDigit(c))
    /\ LET s == [spec EXCEPT !.read = Append(@, c)] IN
       spec' = CASE c = "." -> [s EXCEPT !.after = 0]
                 [] c = "l" -> s
                 [] IsDigit(c) /\ s.after < 0 -> [s EXCEPT !.before = DigitOf(c)]
                 [] OTHER -> [s EXCEPT !.after = 10 * @ + DigitOf(c)]
    /\ state' = "other"
    /\ UNCHANGED <<out, pieces>>

LogWidth(c) ==
    /\ Rest(c) /\ (c \in {".", "l"} \/ IsDigit(c))
    /\ LET s == [spec EXCEPT !.read = Append(@, c)] IN
       spec' = CASE c = "." -> [s EXCEPT !.after = 0]
                 [] c = "l" -> s
                 [] IsDigit(c) /\ s.after < 0 ->
                        [s EXCEPT !.before = (IF @ < 0 THEN 0 ELSE 10 * @) + DigitOf(c)]
                 [] OTHER -> [s EXCEPT !.after = 10 * @ + DigitOf(c)]
    /\ state' = "other"
    /\ UNCHANGED <<out, pieces>>

\* What a letter sets before its number is printed.
Typed(c, s) ==
    CASE c \in {"d", "i"} -> s
      [] c = "u" -> [s EXCEPT !.signed = FALSE]
      [] c = "o" -> [s EXCEPT !.signed = FALSE, !.base = 8]
      [] c = "x" -> [s EXCEPT !.signed = FALSE, !.base = 16]
      [] c = "X" -> [s EXCEPT !.signed = FALSE, !.base = 16, !.upper = TRUE]

Numeric == {"d", "i", "u", "o", "x", "X"}

\* The letter of a directive ends it; one that is none prints nothing.
LogLetter(c) ==
    /\ Rest(c) /\ c \notin {".", "l"} /\ ~IsDigit(c)
    /\ CASE c \in Numeric ->
                \E v \in Values :
                    /\ spec' = Typed(c, spec)
                    /\ Prints(Piece(c, spec', v, Number(spec', v)))
         [] c = "c" ->
                /\ Prints(Piece(c, spec, <<"z">>, RepChar(" ", spec.before - 1) \o <<"z">>))
                /\ UNCHANGED spec
         [] c = "s" ->
                /\ \E s \in Strings :
                       Prints(Piece(c, spec, s, RepChar(" ", spec.before - Len(s)) \o s))
                /\ UNCHANGED spec
         [] OTHER -> UNCHANGED <<out, pieces, spec>>
    /\ state' = "chars"

LogReturns ==
    /\ pc = "log" /\ fmt = <<>>
    /\ pc' = "idle"
    /\ UNCHANGED <<fmt, state, spec, buf, out, pieces>>

-----------------------------------------------------------------------------
(* alt_printf                                                              *)

\* The buffer is written each time it is full.
Buffered(text) ==
    LET all  == buf \o text
        full == Len(all) - (Len(all) % ALT_PUTBUF_SIZE)
    IN out' = out \o SubSeq(all, 1, full) /\ buf' = SubSeq(all, full + 1, Len(all))

Puts(p) ==
    /\ pieces' = Append(pieces, p)
    /\ Buffered(p.text)

PrintfChar(c) ==
    /\ Takes("printf", c) /\ c # "%"
    /\ Puts(Piece("", spec, c, <<c>>))
    /\ UNCHANGED <<pc, state, spec>>

\* A "%" takes the character after it; at the end of the format it prints nothing.
PrintfDirective(c) ==
    /\ pc = "printf" /\ fmt # <<>> /\ Head(fmt) = "%"
    /\ IF Len(fmt) > 1 THEN c = fmt[2] /\ fmt' = SubSeq(fmt, 3, Len(fmt))
                       ELSE c = "%" /\ fmt' = <<>>
    /\ CASE Len(fmt) = 1 -> UNCHANGED <<out, pieces, buf>>
         [] c = "%" /\ Len(fmt) > 1 -> Puts(Piece("", spec, c, <<c>>))
         [] c = "c" -> Puts(Piece(c, spec, <<"z">>, <<"z">>))
         [] c = "x" -> \E v \in Values :
                           Puts(Piece(c, [Typed(c, NoSpec) EXCEPT !.zero = FALSE], v, Hex(v)))
         [] c = "s" -> \E s \in Strings : Puts(Piece(c, spec, s, s))
         [] OTHER -> UNCHANGED <<out, pieces, buf>>
    /\ UNCHANGED <<pc, state, spec>>

PrintfReturns_NotFlushed ==
    /\ pc = "printf" /\ fmt = <<>>
    /\ pc' = "idle"
    /\ UNCHANGED <<fmt, state, spec, pieces, buf, out>>

PrintfReturns ==
    /\ pc = "printf" /\ fmt = <<>>
    /\ pc' = "idle"
    /\ out' = out \o buf /\ buf' = <<>>
    /\ UNCHANGED <<fmt, state, spec, pieces>>

Next ==
    \/ Call("log", LogFormats) \/ Call("printf", Formats)
    \/ \E c \in Range(fmt) : LogChars(c) \/ LogFirst(c) \/ LogWidth(c) \/ LogLetter(c)
                             \/ PrintfChar(c) \/ PrintfDirective(c)
    \/ LogReturns \/ PrintfReturns

Spec == Init /\ [][Next]_vars

-----------------------------------------------------------------------------
(* Properties                                                              *)

\* The number that a sequence of digits denotes in a base.
Worth(d) == (CHOOSE i \in 1 .. 16 : d \in {Lower[i], Upper[i]}) - 1
Denotes(digits, base) ==
    LET value[i \in 0 .. Len(digits)] ==
            IF i = 0 THEN 0 ELSE base * value[i-1] + Worth(digits[i])
    IN value[Len(digits)]

\* The width that a directive of the log asks for: the number of the digits before its
\* point.
Width(read) ==
    LET point == SelectInSeq(Append(read, "."), LAMBDA c : c = ".")
        width[i \in 0 .. point - 1] ==
            IF i = 0 THEN 0
            ELSE IF IsDigit(read[i]) THEN 10 * width[i-1] + Worth(read[i]) ELSE width[i-1]
    IN width[point - 1]

Fills(p) == Len(p.text) >= Width(p.spec.read)

\* The text of a number reads back as the number, with its sign, whatever its
\* value; it fills its width, with zeros after the sign or with spaces before it,
\* and has nothing to spare when it is wider (alt_log_printf.c:248-303).
ReadsBack(p) ==
    LET neg  == p.spec.signed /\ p.arg >= Power(2, Bits - 1)
        lead == Cardinality({i \in DOMAIN p.text : p.text[i] = " "})
        rest == SubSeq(p.text, lead + 1, Len(p.text))
        digits == IF neg THEN Tail(rest) ELSE rest
        lean == Len(digits) = 1 \/ Head(digits) # "0"
    IN /\ \A i \in 1 .. lead : p.text[i] = " "
       /\ neg => Head(rest) = "-"
       /\ digits # <<>>
       /\ \A d \in Range(digits) : d \in Range(IF p.spec.upper THEN Upper ELSE Lower)
       /\ Denotes(digits, p.spec.base) = IF neg THEN Power(2, Bits) - p.arg ELSE p.arg
       /\ Fills(p)
       /\ IF IsPrefix(<<"0">>, p.spec.read) THEN lead = 0 ELSE lean
       /\ Len(p.text) > Width(p.spec.read) => lead = 0 /\ lean

\* Every directive has printed its argument, a string or a character behind the
\* spaces its width asks for.
PiecesSound ==
    \A i \in DOMAIN pieces :
        LET p == pieces[i] IN
        /\ p.letter \in Numeric => ReadsBack(p)
        /\ p.letter \in {"c", "s"} =>
               Fills(p) /\ IsSuffix(p.arg, p.text)

\* A call that has returned has printed everything, in the order of the format:
\* nothing is left in the buffer (alt_printf.c:129-131, alt_putcharbuf.c:58-79).
AllPrinted ==
    pc = "idle" => buf = <<>> /\ out = FlattenSeq([i \in DOMAIN pieces |-> pieces[i].text])

\* Both hold of every call.
PrintfSound == PiecesSound /\ AllPrinted
=============================================================================
