------------------------------- MODULE Chars -------------------------------
(* Bytes as one-character strings, in the order of their codes, with the    *)
(* character classes of the C sources.  Text is a TLA+ string: TLC reads it *)
(* as a sequence.  A byte outside the table is a string of several          *)
(* characters ("NUL", "DEL", "0x80"...), which no class contains.              *)
EXTENDS Integers, Sequences, TLC

LOCAL FromSpace ==
    " !\"#$%&'()*+,-./0123456789:;<=>?@ABCDEFGHIJKLMNOPQRSTUVWXYZ[\\]^_"
LOCAL FromA == "abcdefghijklmnopqrstuvwxyz{|}~"

(* The byte at position i (from 1), and the one at offset i (from 0) of a   *)
(* string that ends with the byte zero.                                     *)
CharAt(s, i) == SubSeq(s, i, i)
OffsetAt(s, i) == IF i < Len(s) THEN CharAt(s, i + 1) ELSE "NUL"

CharsOf(s) == {CharAt(s, i) : i \in 1..Len(s)}

LOCAL Others == ("NUL" :> 0) @@ ("\t" :> 9) @@ ("\n" :> 10) @@ ("\f" :> 12)
                @@ ("\r" :> 13) @@ ("0x60" :> 96) @@ ("DEL" :> 127) @@ ("0x80" :> 128)

Bytes == CharsOf(FromSpace) \cup CharsOf(FromA) \cup DOMAIN Others

LOCAL PlaceIn(s, c) == CHOOSE i \in 1..Len(s) : CharAt(s, i) = c

(* The code of a byte, and the byte of a code.                              *)
Code == [c \in Bytes |->
    CASE c \in CharsOf(FromSpace) -> 31 + PlaceIn(FromSpace, c)
      [] c \in CharsOf(FromA) -> 96 + PlaceIn(FromA, c)
      [] OTHER -> Others[c]]

ByteOf == [k \in {Code[c] : c \in Bytes} |-> CHOOSE c \in Bytes : Code[c] = k]

Digits == CharsOf("0123456789")
Upper == CharsOf("ABCDEFGHIJKLMNOPQRSTUVWXYZ")
LowerLetters == CharsOf("abcdefghijklmnopqrstuvwxyz")
Letters == Upper \cup LowerLetters
HexDigits == Digits \cup CharsOf("abcdefABCDEF")

DigitValue(c) == Code[c] - Code["0"]
HexValue(c) == IF c \in Digits THEN DigitValue(c)
               ELSE 10 + ((Code[c] - Code["A"]) % 32)

(* LOWER: the byte with the bit 0x20 set.  A tab becomes a parenthesis and  *)
(* an underscore the byte 127.                                              *)
Lower == [c \in Bytes |->
    LET k == Code[c]
        l == IF (k \div 32) % 2 = 0 THEN k + 32 ELSE k
    IN  IF l \in DOMAIN ByteOf THEN ByteOf[l] ELSE c]
=============================================================================
