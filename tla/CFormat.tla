------------------------------ MODULE CFormat -------------------------------
(* What C asks of a conversion, written from its parts and not from its     *)
(* text, and the conversions for which printf.c keeps to it.                *)
EXTENDS Printf

VARIABLE asked      \* the conversion in the format of pf: its parts and its argument

(* width and prec are -1 when the format has none; with star they come as   *)
(* arguments.                                                               *)
Asked(flags, width, prec, length, c, arg, star) ==
    [flags |-> flags, width |-> width, prec |-> prec, length |-> length, c |-> c,
     arg |-> arg, star |-> star]

FlagText(flags) == (IF "+" \in flags THEN "+" ELSE "") \o (IF "0" \in flags THEN "0" ELSE "")
                   \o (IF "#" \in flags THEN "#" ELSE "") \o (IF " " \in flags THEN " " ELSE "")
                   \o (IF "-" \in flags THEN "-" ELSE "")
NumberText(n, star) == IF n < 0 THEN "" ELSE IF star THEN "*" ELSE ToString(n)
FormatOf(a) == "<%" \o FlagText(a.flags) \o NumberText(a.width, a.star)
               \o (IF a.prec >= 0 THEN "." \o NumberText(a.prec, a.star) ELSE "")
               \o a.length \o a.c \o (IF a.c = "s" THEN "%%" ELSE "")
ArgsOf(a) == (IF a.star /\ a.width >= 0 THEN <<a.width>> ELSE <<>>)
             \o (IF a.star /\ a.prec >= 0 THEN <<a.prec>> ELSE <<>>) \o <<a.arg>>

-----------------------------------------------------------------------------
Has(a, flag) == flag \in a.flags
SignText(a, negative) ==
    IF a.c \notin {"d", "i", "f", "F", "e", "E", "g", "G"} THEN ""
    ELSE IF negative THEN "-" ELSE IF Has(a, "+") THEN "+" ELSE IF Has(a, " ") THEN " " ELSE ""

(* A field: front is the sign and the prefix, body the digits.              *)
Field(a, front, body, zeros) ==
    LET gap == a.width - (Len(front) + Len(body))
    IN  IF Has(a, "-") THEN front \o body \o Times(" ", gap)
        ELSE IF zeros /\ Has(a, "0") THEN front \o Times("0", gap) \o body
        ELSE Times(" ", gap) \o front \o body

TypeBits(a) == CASE a.length = "hh" -> CharBits [] a.length = "h" -> ShortBits [] OTHER -> IntBits
ValueOf(a) == CASE a.c \notin {"d", "i"} -> LowBits(a.arg, TypeBits(a))
                [] a.length \in {"l", "z", "t", "j"} -> a.arg
                [] OTHER -> WithSign(a.arg, TypeBits(a))
Magnitude(v) == IF v < 0 THEN 0 - v ELSE v

PlainDigits(a) == IF ValueOf(a) = 0 /\ a.prec = 0 THEN ""
                  ELSE DigitsOf(Magnitude(ValueOf(a)), IntegerBase(a.c), a.c = "X")
Prefix(a, body) ==
    CASE ~Has(a, "#") -> ""
      [] a.c \in {"x", "X", "b"} -> IF ValueOf(a) = 0 THEN "" ELSE "0" \o a.c
      [] a.c = "o" -> IF body # "" /\ CharAt(body, 1) = "0" THEN "" ELSE "0"
      [] OTHER -> ""
CIntegerText(a, body) ==
    Field(a, SignText(a, ValueOf(a) < 0) \o Prefix(a, body), body, a.prec < 0)
CInteger(a) == CIntegerText(a, ZerosTo(a.prec, PlainDigits(a), 99))

(* Where the code departs from C: a number set to the left loses the zeros  *)
(* of its precision; with # a number as long as the width loses digits, and *)
(* an octal one gets a zero too many and a binary one of a padded width is  *)
(* one too long; a long is cut to an int.                                   *)
IntegerConforms(a, n) ==
    /\ Has(a, "-") => a.prec <= n
    /\ Has(a, "#") /\ a.prec < 0 /\ a.c \in {"x", "X", "o", "b"} =>
           a.width \notin n..(IF ~Has(a, "0") \/ Has(a, "-") \/ a.c = "o" THEN n
                               ELSE IF a.c = "b" THEN a.width ELSE n + 1)
    /\ Has(a, "#") /\ a.c = "o" => a.prec <= n /\ (a.prec = 0 => ValueOf(a) # 0)
    /\ Magnitude(ValueOf(a)) < 2 ^ IntBits
    /\ Len(CInteger(a)) <= NtoaBuffer

-----------------------------------------------------------------------------
(* The decimals with prec digits that are as near to num / 10^scale as any, *)
(* without their point: two at a half.                                      *)
Near(num, scale, prec, n) ==
    LET off == n * 10 ^ scale - num * 10 ^ prec
    IN  2 * Magnitude(off) <= 10 ^ scale
Nearest(num, scale, prec) ==
    {n \in {(num * 10 ^ prec) \div 10 ^ scale, (num * 10 ^ prec) \div 10 ^ scale + 1} :
        Near(num, scale, prec, n)}

DecimalText(a, n, prec) ==
    DigitsOf(n \div 10 ^ prec, 10, FALSE)
    \o (IF prec = 0 /\ ~Has(a, "#") THEN "" ELSE ".")
    \o (IF prec = 0 THEN "" ELSE ZerosTo(prec, DigitsOf(n % 10 ^ prec, 10, FALSE), 99))

(* The same without the zeros at its end, which %g leaves out.              *)
Significant(n, prec) ==
    CHOOSE d \in 0..prec :
        /\ n % 10 ^ (prec - d) = 0
        /\ \A k \in 0..(d - 1) : n % 10 ^ (prec - k) # 0
ShortText(a, n, prec) ==
    LET d == IF Has(a, "#") THEN prec ELSE Significant(n, prec)
    IN  DecimalText(a, n \div 10 ^ (prec - d), d)

(* Scientific notation: one digit before the point, not zero but for zero,  *)
(* and the power of ten.                                                    *)
Places(v) == Len(DigitsOf(v.num, 10, FALSE)) - 1
Power(v) == Places(v) - v.scale
Scientific(v, prec) ==
    IF v.num = 0 THEN {<<0, 0>>}
    ELSE {IF n = 10 ^ (prec + 1) THEN <<10 ^ prec, Power(v) + 1>> ELSE <<n, Power(v)>> :
            n \in Nearest(v.num, Places(v), prec)}
ExponentText(a, x) ==
    (IF a.c \in {"E", "G"} THEN "E" ELSE "e") \o (IF x < 0 THEN "-" ELSE "+")
    \o ZerosTo(2, DigitsOf(Magnitude(x), 10, FALSE), 99)

PrecOf(a) == IF a.prec < 0 THEN DefaultPrecision ELSE a.prec
(* The precision of %g counts digits, of which there is one at least, and   *)
(* bounds the powers of ten that are written out.                           *)
DigitsAsked(a) == IF PrecOf(a) = 0 THEN 1 ELSE PrecOf(a)
WrittenOut(x, digits) == x \in (0 - AdaptLow)..(digits - 1)

FixedTexts(a) == {DecimalText(a, n, PrecOf(a)) : n \in Nearest(a.arg.num, a.arg.scale, PrecOf(a))}
ExponentTexts(a) ==
    {DecimalText(a, m[1], PrecOf(a)) \o ExponentText(a, m[2]) : m \in Scientific(a.arg, PrecOf(a))}
GeneralTexts(a) ==
    {IF WrittenOut(m[2], DigitsAsked(a)) THEN ShortText(a, m[1], (DigitsAsked(a) - 1) - m[2])
     ELSE ShortText(a, m[1], DigitsAsked(a) - 1) \o ExponentText(a, m[2]) :
        m \in Scientific(a.arg, DigitsAsked(a) - 1)}

Capital(a) == a.c \in {"F", "E", "G"}
SpecialText(a) == IF a.arg.kind = "nan" THEN IF Capital(a) THEN "NAN" ELSE "nan"
                  ELSE IF Capital(a) THEN "INF" ELSE "inf"
FloatTexts(a) == CASE a.c \in {"f", "F"} -> FixedTexts(a)
                   [] a.c \in {"e", "E"} -> ExponentTexts(a)
                   [] OTHER -> GeneralTexts(a)
FloatForms(a) ==
    IF a.arg.kind # "finite" THEN {Field(a, SignText(a, a.arg.neg), SpecialText(a), FALSE)}
    ELSE {Field(a, SignText(a, a.arg.neg), text, TRUE) : text \in FloatTexts(a)}

(* Where the code departs from C.  A NaN or infinity is never in capitals,  *)
(* has no sign but a minus or, when infinite, a plus (printf.c:305-310), and*)
(* is not padded with 0.                                                    *)
SpecialConforms(a) ==
    /\ ~Capital(a) /\ ~Has(a, "0")
    /\ a.arg.neg \/ ~Has(a, " ") \/ (Has(a, "+") /\ a.arg.kind = "inf")
    /\ a.arg.kind = "nan" => ~Has(a, "+")

(* %e does not look again at a mantissa that is rounded to ten (:487), and  *)
(* finds no exponent for zero (:435).                                       *)
ScientificConforms(v, prec) ==
    /\ v.num > 0
    /\ 10 ^ (prec + 1) \notin Nearest(v.num, Places(v), prec)

(* %g bounds the powers of ten it writes out by a constant (:455), keeps    *)
(* the zeros at the end, takes no digits for none, and without a precision  *)
(* has a digit too many in front of an exponent (:465).                     *)
GeneralConforms(a) ==
    LET x == Power(a.arg)
    IN  /\ WrittenOut(x, AdaptHigh) = WrittenOut(x, DigitsAsked(a))
        /\ a.prec > 0 \/ (a.prec < 0 /\ WrittenOut(x, AdaptHigh))
        /\ \A m \in Scientific(a.arg, DigitsAsked(a) - 1) :
               DigitsAsked(a) = 1 \/ m[1] % 10 # 0

(* The digits behind the point, and the decimal they are of.                *)
DigitsAfter(a) == IF a.c \notin {"g", "G"} THEN PrecOf(a)
                  ELSE IF WrittenOut(Power(a.arg), AdaptHigh) THEN (DigitsAsked(a) - 1) - Power(a.arg)
                  ELSE DigitsAsked(a) - 1
ScaleOf(a) == IF a.c \in {"f", "F"} \/ (a.c \in {"g", "G"} /\ WrittenOut(Power(a.arg), AdaptHigh))
              THEN a.arg.scale ELSE Places(a.arg)
(* A fraction of nines and a half is rounded up without a carry (:352).     *)
HalfOfNines(a) ==
    LET rest == (a.arg.num % 10 ^ ScaleOf(a)) * 10 ^ DigitsAfter(a)
    IN  /\ DigitsAfter(a) > 0 /\ 2 * (rest % 10 ^ ScaleOf(a)) = 10 ^ ScaleOf(a)
        /\ rest \div 10 ^ ScaleOf(a) = 10 ^ DigitsAfter(a) - 1

(* # is not looked at, nor the sign of zero; digits behind the ninth are    *)
(* zeros (:334), a number is cut to its buffer, and a large one has an      *)
(* exponent though %f asks for none (:316).                                 *)
FloatConforms(a) ==
    IF a.arg.kind # "finite" THEN SpecialConforms(a)
    ELSE /\ Has(a, "#") => a.c \notin {"g", "G"} /\ PrecOf(a) > 0
         /\ a.arg.neg => a.arg.num > 0
         /\ PrecOf(a) <= MaxPrecision /\ DigitsAfter(a) <= MaxPrecision
         /\ a.c \in {"f", "F"} => a.arg.num <= MaxFloat * 10 ^ a.arg.scale
         /\ a.c \in {"e", "E"} => ScientificConforms(a.arg, PrecOf(a))
         /\ a.c \in {"g", "G"} => ScientificConforms(a.arg, DigitsAsked(a) - 1) /\ GeneralConforms(a)
         /\ ~HalfOfNines(a)
         /\ \A text \in FloatForms(a) : Len(text) <= FtoaBuffer

-----------------------------------------------------------------------------
IsFloat(a) == a.c \in {"f", "F", "e", "E", "g", "G"}
IsInteger(a) == a.c \in {"d", "i", "u", "x", "X", "o", "b"}
Conforms(a) == IF IsFloat(a) THEN FloatConforms(a)
               ELSE IsInteger(a) => a.length # "ll" /\ IntegerConforms(a, Len(PlainDigits(a)))
Forms(a) ==
    CASE IsFloat(a) -> FloatForms(a)
      [] IsInteger(a) -> {CInteger(a)}
      [] a.c = "s" -> {Field(a, "", IF a.prec < 0 THEN a.arg
                                    ELSE SubSeq(a.arg, 1, Least(a.prec, Len(a.arg))), FALSE)}
      [] a.c = "p" -> {ZerosTo(PointerWidth, DigitsOf(LowBits(a.arg, IntBits), 16, TRUE), 99)}
      [] OTHER -> {Field(a, "", a.arg, FALSE)}

(* printf.c:505-775: where Conforms says that it departs from C nowhere, a  *)
(* conversion of _vsnprintf gives the text C asks for, of a double with its *)
(* nearest decimal, between the characters around it.  Of every conversion, *)
(* in a buffer of any size, the text is a terminated prefix, whole when the *)
(* number returned is less than the size.                                   *)
PrintfExact ==
    pf.done =>
        /\ Conforms(asked) => pf.out \in {"<" \o text \o (IF asked.c = "s" THEN "%" ELSE "") : text \in Forms(asked)}
        /\ \A count \in {0, 1, 4, 40} :
               \A i \in 0..(count - 1) :
                   Stored(pf.out, count)[i] =
                       IF i < Least(count - 1, Returned(pf.out)) THEN OffsetAt(pf.out, i)
                       ELSE IF i = Least(count - 1, Returned(pf.out)) THEN "NUL" ELSE "as before"
=============================================================================
