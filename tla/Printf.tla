------------------------------- MODULE Printf -------------------------------
(* printf.c: the formatter behind the printf family, in the build without   *)
(* long long (the other one does not compile: printf.c:665).  Text is kept  *)
(* in reading order, so what the code appends to the reversed digits of a   *)
(* number is put in front.  The machine words are scaled down to a few bits *)
(* and a double is an exact decimal: the estimate of its exponent and the   *)
(* errors of its arithmetic are left out.                                   *)
EXTENDS Chars

CONSTANTS NtoaBuffer,                           \* PRINTF_NTOA_BUFFER_SIZE
          FtoaBuffer,                           \* PRINTF_FTOA_BUFFER_SIZE
          CharBits, ShortBits, IntBits,         \* widths of char, short, int
          DefaultPrecision, MaxPrecision,       \* 6 and 9
          MaxFloat,                             \* PRINTF_MAX_FLOAT
          AdaptLow, AdaptHigh,                  \* %g prints 10^-AdaptLow up to 10^AdaptHigh as %f
          ZeroExponent,                         \* the exponent found for zero, negated
          PointerWidth                          \* sizeof(void *) * 2

(* No double that _etoa rescales or hands back comes to _etoa again.        *)
ASSUME FloatAssumption ==
    /\ MaxFloat >= 10 ^ AdaptHigh /\ MaxFloat >= 10
    /\ NtoaBuffer >= IntBits

VARIABLE pf     \* a call: the format, its arguments, the place in both, the output

FlagOf == [c \in {"0", "-", "+", " ", "#"} |->
    CASE c = "0" -> "ZEROPAD" [] c = "-" -> "LEFT" [] c = "+" -> "PLUS"
      [] c = " " -> "SPACE" [] c = "#" -> "HASH"]

Least(a, b) == IF a < b THEN a ELSE b

RECURSIVE Times(_, _)
Times(c, n) == IF n <= 0 THEN "" ELSE c \o Times(c, n - 1)

DigitChar(k, upper) ==
    IF k < 10 THEN ByteOf[Code["0"] + k]
    ELSE ByteOf[(Code[IF upper THEN "A" ELSE "a"] + k) - 10]

(* The digits of a number, one at least.                                    *)
RECURSIVE DigitsOf(_, _, _)
DigitsOf(n, base, upper) ==
    (IF n >= base THEN DigitsOf(n \div base, base, upper) ELSE "")
    \o DigitChar(n % base, upper)

KeepLast(text, n) == SubSeq(text, (Len(text) - Least(n, Len(text))) + 1, Len(text))
InFront(c, text, room) == IF Len(text) < room THEN c \o text ELSE text
ZerosTo(n, text, room) == Times("0", Least(n, room) - Len(text)) \o text

-----------------------------------------------------------------------------
(* Padding, the sign and the prefix.                                        *)
OutRev(text, width, flags) ==
    (IF flags \cap {"LEFT", "ZEROPAD"} = {} THEN Times(" ", width - Len(text)) ELSE "")
    \o text
    \o (IF "LEFT" \in flags THEN Times(" ", width - Len(text)) ELSE "")

Signed(text, negative, flags, room) ==
    LET sign == IF negative THEN "-" ELSE IF "PLUS" \in flags THEN "+"
                ELSE IF "SPACE" \in flags THEN " " ELSE ""
    IN  InFront(sign, text, room)

SignWidth(width, negative, flags) ==
    IF /\ width > 0 /\ "ZEROPAD" \in flags /\ "LEFT" \notin flags
       /\ negative \/ flags \cap {"PLUS", "SPACE"} # {}
    THEN width - 1 ELSE width

(* Mutant: the precision also pads a number that is set to the left.        *)
PaddedAlways(text, prec, width, flags) ==
    ZerosTo(IF "ZEROPAD" \in flags THEN width ELSE 0, ZerosTo(prec, text, NtoaBuffer), NtoaBuffer)

PaddedWithZeros(text, prec, width, flags) ==
    IF "LEFT" \in flags THEN text
    ELSE ZerosTo(IF "ZEROPAD" \in flags THEN width ELSE 0,
                 ZerosTo(prec, text, NtoaBuffer), NtoaBuffer)

(* One zero of the padding makes room for the prefix, two for 0x: the code  *)
(* takes a number as long as the width for a padded one.                    *)
WithRoomForHash(text, base, prec, width, flags) ==
    IF "PRECISION" \notin flags /\ Len(text) > 0 /\ Len(text) \in {prec, width}
    THEN SubSeq(text, IF base = 16 THEN 3 ELSE 2, Len(text))
    ELSE text

Hashed(text, base, prec, width, flags) ==
    LET letter == CASE base = 16 -> IF "UPPERCASE" \in flags THEN "X" ELSE "x"
                    [] base = 2 -> "b"
                    [] OTHER -> ""
    IN  IF "HASH" \notin flags THEN text
        ELSE InFront("0", InFront(letter, WithRoomForHash(text, base, prec, width, flags),
                                  NtoaBuffer), NtoaBuffer)

NtoaFormat(text, negative, base, prec, width, flags) ==
    OutRev(Signed(Hashed(PaddedWithZeros(text, prec, width, flags), base, prec, width, flags),
                  negative, flags, NtoaBuffer),
           width, flags)

_ntoa_long(value, negative, base, prec, width, flags) ==
    NtoaFormat(IF value = 0 /\ "PRECISION" \in flags THEN ""
                   ELSE DigitsOf(value, base, "UPPERCASE" \in flags),
               negative, base, prec, SignWidth(width, negative, flags),
               IF value = 0 THEN flags \ {"HASH"} ELSE flags)

-----------------------------------------------------------------------------
(* A double: [kind, neg, num, scale] is num / 10^scale, or NaN, or infinite. *)
FtoaSpecial(v, width, flags) ==
    OutRev(CASE v.kind = "nan" -> "nan"
             [] v.kind = "inf" /\ v.neg -> "-inf"
             [] OTHER -> IF "PLUS" \in flags THEN "+inf" ELSE "inf",
           width, flags)

(* The fraction and the whole rounded: up above the half, to the even digit *)
(* at the half, where the digits 99...9 give one digit too many.            *)
Rounded(whole, frac, unit, up, half) ==
    CASE up -> IF frac + 1 >= unit THEN <<whole + 1, 0>> ELSE <<whole, frac + 1>>
      [] half /\ unit = 1 -> <<whole + (whole % 2), 0>>
      [] half /\ unit > 1 /\ (frac = 0 \/ frac % 2 = 1) -> <<whole, frac + 1>>
      [] OTHER -> <<whole, frac>>

(* The digits after the point, behind the zeros of a precision above the    *)
(* largest.  With more digits than the precision the count of the zeros to  *)
(* add wraps, and they fill the buffer.                                     *)
FracText(digits, prec, zeros) ==
    InFront(".", ZerosTo(IF Len(digits) > prec THEN FtoaBuffer ELSE prec + Len(zeros),
                         KeepLast(digits, FtoaBuffer - Len(zeros)) \o zeros, FtoaBuffer),
            FtoaBuffer)

FixedText(rounded, prec, zeros) ==
    LET frac == IF prec = 0 THEN zeros
                ELSE FracText(DigitsOf(rounded[2], 10, FALSE), prec, zeros)
    IN  KeepLast(DigitsOf(rounded[1], 10, FALSE), FtoaBuffer - Len(frac)) \o frac

FtoaSigned(text, negative, width, flags) ==
    OutRev(Signed(IF {"LEFT", "ZEROPAD"} \cap flags = {"ZEROPAD"}
                  THEN ZerosTo(SignWidth(width, negative, flags), text, FtoaBuffer) ELSE text,
                  negative, flags, FtoaBuffer),
           SignWidth(width, negative, flags), flags)

FtoaRounded(v, prec, zeros, width, flags) ==
    LET one == 10 ^ v.scale
        tmp == (v.num % one) * 10 ^ prec
        twice == 2 * (tmp % one)
    IN  FtoaSigned(FixedText(Rounded(v.num \div one, tmp \div one, 10 ^ prec,
                                     twice > one, twice = one), prec, zeros),
                   v.neg /\ v.num > 0, width, flags)

(* Zeros stand for the digits behind MaxPrecision.  When they fill the      *)
(* buffer the precision left is still larger and pow10 is read behind its   *)
(* end; what is found there does not show, since no digit has room.         *)
FtoaFixed(v, prec, width, flags) ==
    LET p == IF "PRECISION" \in flags THEN prec ELSE DefaultPrecision
    IN  FtoaRounded(v, Least(p, MaxPrecision), Times("0", Least(p - MaxPrecision, FtoaBuffer)),
                    width, flags)

(* The decimal exponent, and the value divided by that power of ten.        *)
Exponent(v) == IF v.num = 0 THEN 0 - ZeroExponent ELSE (Len(DigitsOf(v.num, 10, FALSE)) - 1) - v.scale
Mantissa(v) == [v EXCEPT !.scale = Len(DigitsOf(v.num, 10, FALSE)) - 1]

(* The part before the exponent: with more width than the exponent needs    *)
(* the rest is its own, and a number set to the left is padded at the end.  *)
MantissaWidth(width, minwidth, flags) ==
    IF width > minwidth /\ ("LEFT" \notin flags \/ minwidth = 0) THEN width - minwidth ELSE 0

EtoaText(mantissa, expval, width, minwidth, flags) ==
    LET text == mantissa \o (IF "UPPERCASE" \in flags THEN "E" ELSE "e")
                \o _ntoa_long(IF expval < 0 THEN 0 - expval ELSE expval, expval < 0, 10, 0,
                              minwidth - 1, {"ZEROPAD", "PLUS"})
    IN  text \o (IF "LEFT" \in flags THEN Times(" ", width - Len(text)) ELSE "")

EtoaExponential(v, expval, prec, width, flags) ==
    LET minwidth == IF expval \in -99..99 THEN 4 ELSE 5
    IN  EtoaText(FtoaFixed(IF expval = 0 THEN v ELSE Mantissa(v), prec,
                           MantissaWidth(width, minwidth, flags), flags),
                 expval, width, minwidth, flags)

Etoa(v, prec, width, flags) ==
    LET p == IF "PRECISION" \in flags THEN prec ELSE DefaultPrecision
        expval == Exponent(v)
    IN  IF "ADAPT_EXP" \notin flags THEN EtoaExponential(v, expval, p, width, flags)
        ELSE IF v.num > 0 /\ expval >= 0 - AdaptLow /\ expval < AdaptHigh
        THEN FtoaFixed(v, IF p > expval THEN (p - expval) - 1 ELSE 0, width, flags \cup {"PRECISION"})
        ELSE EtoaExponential(v, expval, IF p > 0 /\ "PRECISION" \in flags THEN p - 1 ELSE p,
                             width, flags)

_etoa(v, prec, width, flags) ==
    IF v.kind # "finite" THEN FtoaSpecial(v, width, flags) ELSE Etoa(v, prec, width, flags)

_ftoa(v, prec, width, flags) ==
    IF v.kind # "finite" THEN FtoaSpecial(v, width, flags)
    ELSE IF v.num > MaxFloat * 10 ^ v.scale THEN Etoa(v, prec, width, flags)
    ELSE FtoaFixed(v, prec, width, flags)
-----------------------------------------------------------------------------
(* A directive %[flags][width][.precision][length]specifier.  d is what is  *)
(* read of it: the place behind that, the arguments left, and the flags,    *)
(* width and precision found.                                               *)
RECURSIVE RunEnd(_, _, _)
RunEnd(format, at, set) ==
    IF OffsetAt(format, at) \in set THEN RunEnd(format, at + 1, set) ELSE at

RECURSIVE Atoi(_, _, _)
Atoi(format, at, end) ==
    IF at = end THEN 0
    ELSE 10 * Atoi(format, at, end - 1) + DigitValue(OffsetAt(format, end - 1))

TakeFlags(format, d) ==
    LET end == RunEnd(format, d.at, DOMAIN FlagOf)
    IN  [d EXCEPT !.at = end, !.flags = {FlagOf[OffsetAt(format, i)] : i \in d.at..(end - 1)}]

TakeWidth(format, d) ==
    LET end == RunEnd(format, d.at, Digits)
        star == OffsetAt(format, d.at) = "*"
        w == Head(d.args)
    IN  IF ~star THEN [d EXCEPT !.at = end, !.width = Atoi(format, d.at, end)]
        ELSE [d EXCEPT !.at = @ + 1, !.args = Tail(@), !.width = IF w < 0 THEN 0 - w ELSE w,
                       !.flags = IF w < 0 THEN @ \cup {"LEFT"} ELSE @]

TakePrecision(format, d) ==
    LET end == RunEnd(format, d.at + 1, Digits)
        found == d.flags \cup {"PRECISION"}
        p == Head(d.args)
    IN  CASE OffsetAt(format, d.at) # "." -> d
          [] OffsetAt(format, d.at + 1) = "*" ->
                 [d EXCEPT !.at = @ + 2, !.flags = found, !.args = Tail(@),
                           !.prec = IF p > 0 THEN p ELSE 0]
          [] OTHER -> [d EXCEPT !.at = end, !.flags = found, !.prec = Atoi(format, d.at + 1, end)]

(* On this machine ptrdiff_t, intmax_t and size_t are as wide as a long.    *)
TakeLength(format, d) ==
    LET c == OffsetAt(format, d.at)
        twice == OffsetAt(format, d.at + 1) = c
        by == IF c \in {"l", "h"} /\ twice THEN 2 ELSE 1
    IN  CASE c = "l" -> [d EXCEPT !.at = @ + by, !.flags = @ \cup {"LONG"} \cup
                                      (IF twice THEN {"LONG_LONG"} ELSE {})]
          [] c = "h" -> [d EXCEPT !.at = @ + by, !.flags = @ \cup {"SHORT"} \cup
                                      (IF twice THEN {"CHAR"} ELSE {})]
          [] c \in {"t", "j", "z"} -> [d EXCEPT !.at = @ + 1, !.flags = @ \cup {"LONG"}]
          [] OTHER -> d

-----------------------------------------------------------------------------
(* The values of an argument: the low bits, read with their sign or         *)
(* without.  The magnitude of a long is cut to an int.                      *)
LowBits(v, bits) == v % 2 ^ bits
WithSign(v, bits) ==
    IF LowBits(v, bits) >= 2 ^ (bits - 1) THEN LowBits(v, bits) - 2 ^ bits ELSE LowBits(v, bits)
BitsOf(flags) == IF "LONG" \in flags THEN IntBits
                 ELSE IF "CHAR" \in flags THEN CharBits
                 ELSE IF "SHORT" \in flags THEN ShortBits ELSE IntBits
SignedArg(v, flags) == IF "LONG" \in flags THEN v ELSE WithSign(v, BitsOf(flags))

IntegerFlags(c, flags) ==
    ((flags \cup (IF c = "X" THEN {"UPPERCASE"} ELSE {}))
     \ (IF c \in {"d", "i"} THEN {} ELSE {"PLUS", "SPACE"}))
     \ ((IF c \in {"d", "i", "u"} THEN {"HASH"} ELSE {})
         \cup (IF "PRECISION" \in flags THEN {"ZEROPAD"} ELSE {}))

IntegerBase(c) == CASE c \in {"x", "X"} -> 16 [] c = "o" -> 8 [] c = "b" -> 2 [] OTHER -> 10

IntegerText(c, v, d) ==
    LET value == SignedArg(v, d.flags)
    IN  IF c \in {"d", "i"}
        THEN _ntoa_long(LowBits(IF value > 0 THEN value ELSE 0 - value, IntBits), value < 0,
                        10, d.prec, d.width, IntegerFlags(c, d.flags))
        ELSE _ntoa_long(LowBits(v, BitsOf(d.flags)), FALSE, IntegerBase(c), d.prec, d.width,
                        IntegerFlags(c, d.flags))

FloatFlags(c, flags) == flags \cup (IF c \in {"F", "E", "G"} THEN {"UPPERCASE"} ELSE {})
                              \cup (IF c \in {"g", "G"} THEN {"ADAPT_EXP"} ELSE {})

Padded(text, d) ==
    IF "LEFT" \in d.flags THEN text \o Times(" ", d.width - Len(text))
    ELSE Times(" ", d.width - Len(text)) \o text

(* The text of one directive and what is left of the arguments: %% and an   *)
(* unknown specifier take none, nor does a long long in this build.         *)
Converted(c, d) ==
    CASE c \in {"d", "i", "u", "x", "X", "o", "b"} /\ "LONG_LONG" \notin d.flags ->
             <<IntegerText(c, Head(d.args), d), Tail(d.args)>>
      [] c \in {"d", "i", "u", "x", "X", "o", "b"} /\ "LONG_LONG" \in d.flags -> <<"", d.args>>
      [] c \in {"f", "F"} ->
             <<_ftoa(Head(d.args), d.prec, d.width, FloatFlags(c, d.flags)), Tail(d.args)>>
      [] c \in {"e", "E", "g", "G"} ->
             <<_etoa(Head(d.args), d.prec, d.width, FloatFlags(c, d.flags)), Tail(d.args)>>
      [] c = "c" -> <<Padded(Head(d.args), d), Tail(d.args)>>
      [] c = "s" ->
             <<Padded(IF "PRECISION" \in d.flags
                      THEN SubSeq(Head(d.args), 1, Least(d.prec, Len(Head(d.args))))
                      ELSE Head(d.args), d), Tail(d.args)>>
      [] c = "p" ->
             <<_ntoa_long(LowBits(Head(d.args), IntBits), FALSE, 16, d.prec, PointerWidth,
                          d.flags \cup {"ZEROPAD", "UPPERCASE"}), Tail(d.args)>>
      [] OTHER -> <<c, d.args>>

-----------------------------------------------------------------------------
(* _vsnprintf, a turn of its loop at a time.                                *)
Called(format, args) ==
    [format |-> format, args |-> args, at |-> 0, out |-> "", done |-> FALSE]

Ordinary ==
    /\ ~pf.done
    /\ OffsetAt(pf.format, pf.at) \notin {"%", "NUL"}
    /\ pf' = [pf EXCEPT !.out = @ \o OffsetAt(pf.format, pf.at), !.at = @ + 1]

Emit(converted, at) ==
    pf' = [pf EXCEPT !.out = @ \o converted[1], !.args = converted[2], !.at = at + 1]

ConvertAt(d) == Emit(Converted(OffsetAt(pf.format, d.at), d), d.at)

Directive ==
    /\ ~pf.done
    /\ OffsetAt(pf.format, pf.at) = "%"
    /\ ConvertAt(TakeLength(pf.format, TakePrecision(pf.format, TakeWidth(pf.format,
            TakeFlags(pf.format, [at |-> pf.at + 1, args |-> pf.args, flags |-> {},
                                  width |-> 0, prec |-> 0])))))

Terminate ==
    /\ ~pf.done
    /\ OffsetAt(pf.format, pf.at) = "NUL"
    /\ pf' = [pf EXCEPT !.done = TRUE]

PrintfNext == Ordinary \/ Directive \/ Terminate

(* What snprintf_ leaves in a buffer of so many bytes, the ones it does not *)
(* write left as they were, and what it returns.                            *)
Stored(out, count) ==
    [i \in 0..(count - 1) |->
        IF i = Least(Len(out), count - 1) THEN "NUL"
        ELSE IF i < Len(out) THEN OffsetAt(out, i) ELSE "as before"]
Returned(out) == Len(out)
=============================================================================
