------------------------------- MODULE Codecs -------------------------------
(* hex.c, urlencode.c and base64.c.  Text and data are sequences of bytes;  *)
(* an encoder or a decoder is the sequence it writes.                       *)
EXTENDS Chars, FiniteSets

CONSTANTS StepWrap,     \* 2^8: hex_decode keeps its step in a byte
          LineBreak,    \* LINE_BREAK_COUNT, a multiple of four
          Samples,      \* the data to encode
          Affixes       \* <<prefix, separator>> of hex pairs

VARIABLE coded          \* the data, the way it is encoded, its text and what that decodes to

ASSUME LineBreakAssumption == LineBreak > 0 /\ LineBreak % 4 = 0

CodesOf(s) == [i \in 1..Len(s) |-> Code[CharAt(s, i)]]
Byte(n) == n % 256

-----------------------------------------------------------------------------
(* Two hex digits.  A decoded pair is right for digits of either case.      *)
LowerHex == CodesOf("0123456789abcdef")
UpperHex == CodesOf("0123456789ABCDEF")
HexPair(b, hex) == <<hex[b \div 16 + 1], hex[(b % 16) + 1]>>
Nibble(b) == IF (b \div 16) % 2 = 1 THEN b % 16 ELSE 9 + (b % 8)
hex_decode_char_fast(b1, b2) == Byte(16 * Nibble(b1) + Nibble(b2))

hex_encode_len(n, prelen, speclen) == IF n = 0 THEN 0 ELSE (2 + prelen + speclen) * n - speclen
hex_decode_len(n, prelen, speclen) == IF n = 0 THEN 0 ELSE (n + speclen) \div (2 + prelen + speclen)

RECURSIVE hex_encode(_, _, _)
hex_encode(src, pre, spec) ==
    IF src = <<>> THEN <<>>
    ELSE pre \o HexPair(Head(src), LowerHex)
         \o (IF Tail(src) = <<>> THEN <<>> ELSE spec) \o hex_encode(Tail(src), pre, spec)

(* Never with a step of 0, which the byte makes of one that is as large as  *)
(* StepWrap: the loop does not end.                                         *)
RECURSIVE HexFrom(_, _, _)
HexFrom(src, at, step) ==
    IF at >= Len(src) - 1 THEN <<>>
    ELSE <<hex_decode_char_fast(src[at + 1], src[at + 2])>> \o HexFrom(src, at + step, step)
HexStep(prelen, speclen) == (2 + prelen + speclen) % StepWrap
hex_decode(src, prelen, speclen) ==
    IF Len(src) < 2 THEN <<>> ELSE HexFrom(src, prelen, HexStep(prelen, speclen))

-----------------------------------------------------------------------------
(* The bits of the characters to encode, from 32 to 127.  The shift goes    *)
(* by the place of the character and not by its last three bits (& binds    *)
(* less than >>), so it is out of range from 64 on: then the machine takes  *)
(* its last five bits, or the vector instructions give zero.                *)
URL_MAP == <<37, 0, 0, 80, 0, 0, 0, 120, 1, 0, 0, 184>>
URL_COMPONENT_MAP == <<125, 152, 0, 252, 1, 0, 0, 120, 1, 0, 0, 184>>

ShiftedBit(bits, by, masked) ==
    CASE by < 32 -> (bits \div 2 ^ (IF by < 8 THEN by ELSE 8)) % 2
      [] by >= 32 /\ masked -> (bits \div 2 ^ (IF by % 32 < 8 THEN by % 32 ELSE 8)) % 2
      [] OTHER -> 0
required_encode(ch, map, masked) ==
    ch < 32 \/ ch > 127 \/ ShiftedBit(map[(ch - 32) \div 8 + 1], ch - 32, masked) = 1

RECURSIVE encode_length(_, _, _)
encode_length(src, map, masked) ==
    IF src = <<>> THEN 0
    ELSE (IF required_encode(Head(src), map, masked) THEN 3 ELSE 1) + encode_length(Tail(src), map, masked)

Percent == Code["%"]

(* encode writes to a destination of room bytes: an ordinary character is   *)
(* stored before the room is tested, so one behind an encoded character     *)
(* that filled it is stored beyond.                                         *)
RECURSIVE EncodeOnto(_, _, _, _, _)
EncodeOnto(out, src, room, map, masked) ==
    IF src = <<>> THEN out
    ELSE IF ~required_encode(Head(src), map, masked)
    THEN IF Len(out) + 1 >= room THEN Append(out, Head(src))
         ELSE EncodeOnto(Append(out, Head(src)), Tail(src), room, map, masked)
    ELSE IF Len(out) + 3 > room THEN out
    ELSE EncodeOnto(out \o <<Percent>> \o HexPair(Head(src), UpperHex), Tail(src), room, map, masked)

(* Mutant: the last place of the room is kept free.                         *)
RoomButOne(src, room, map, masked) ==
    IF src = <<>> \/ room = 0 THEN <<>> ELSE EncodeOnto(<<>>, src, room - 1, map, masked)

encode(src, room, map, masked) ==
    IF src = <<>> \/ room = 0 THEN <<>> ELSE EncodeOnto(<<>>, src, room, map, masked)

RECURSIVE url_decode_length(_)
url_decode_length(src) ==
    CASE src = <<>> -> 0
      [] src # <<>> /\ Head(src) = Percent ->
             IF Len(src) < 3 THEN 0 ELSE 1 + url_decode_length(SubSeq(src, 4, Len(src)))
      [] OTHER -> 1 + url_decode_length(Tail(src))

RECURSIVE DecodeOnto(_, _, _)
DecodeOnto(out, src, room) ==
    CASE src = <<>> -> out
      [] src # <<>> /\ Head(src) = Percent ->
             IF Len(src) < 3 THEN out
             ELSE DecodeOnto(Append(out, hex_decode_char_fast(src[2], src[3])),
                             SubSeq(src, 4, Len(src)), room)
      [] OTHER ->
             IF Len(out) + 1 >= room THEN Append(out, Head(src))
             ELSE DecodeOnto(Append(out, Head(src)), Tail(src), room)
url_decode(src, room) == IF src = <<>> \/ room = 0 THEN <<>> ELSE DecodeOnto(<<>>, src, room)

-----------------------------------------------------------------------------
(* Base64 and its alphabet for urls.  A character outside the alphabet has  *)
(* the value 127, and what lies behind the text is a byte of no meaning.    *)
LettersAndDigits == "ABCDEFGHIJKLMNOPQRSTUVWXYZabcdefghijklmnopqrstuvwxyz0123456789"
ENC_MAP == CodesOf(LettersAndDigits \o "+/")
URL_ENC_MAP == CodesOf(LettersAndDigits \o "-_")
Padding == Code["="]
CR == Code["\r"]
LF == Code["\n"]

DecMap(map) == [c \in 0..127 |->
    IF c = Padding THEN 0
    ELSE IF \E i \in DOMAIN map : map[i] = c THEN (CHOOSE i \in DOMAIN map : map[i] = c) - 1
    ELSE 127]
DEC_MAP == DecMap(ENC_MAP)
URL_DEC_MAP == DecMap(URL_ENC_MAP)

base64_encode_len(n, padding, line_break) ==
    LET m == n % 3
        c == 4 * (n \div 3) + (CASE m = 0 -> 0 [] m > 0 /\ padding -> 4 [] OTHER -> m + 1)
    IN  IF line_break THEN c + 2 * (c \div LineBreak) ELSE c

base64_decode_len(src) ==
    LET n == Len(src)
        c == 3 * (n \div 4)
        broken == n >= LineBreak + 2 /\ src[LineBreak + 1] = CR /\ src[LineBreak + 2] = LF
        breaks == IF broken THEN 2 * (c \div LineBreak + 2) ELSE 0
        tail == IF n % 4 > 0 THEN IF n % 4 = 2 THEN 1 ELSE 2
                ELSE IF src[n] # Padding THEN 0 ELSE IF src[n - 1] # Padding THEN -1 ELSE -2
    IN  (c - breaks) + tail

Sixes(a, b, c, map) ==
    <<map[a \div 4 + 1], map[16 * (a % 4) + b \div 16 + 1], map[4 * (b % 16) + c \div 64 + 1], map[(c % 64) + 1]>>

(* The rest of one or two bytes, then groups of three: a line is broken     *)
(* behind the group that fills it, the last one included.                   *)
Rest(src, padding, map) ==
    LET pads == IF padding THEN <<Padding, Padding>> ELSE <<>>
    IN  CASE src = <<>> -> <<>>
          [] Len(src) = 1 -> SubSeq(Sixes(src[1], 0, 0, map), 1, 2) \o pads
          [] OTHER -> SubSeq(Sixes(src[1], src[2], 0, map), 1, 3) \o SubSeq(pads, 1, Len(pads) \div 2)

RECURSIVE Groups(_, _, _, _, _)
Groups(src, line, padding, line_break, map) ==
    IF Len(src) < 3 THEN Rest(src, padding, map)
    ELSE LET full == line_break /\ line + 4 >= LineBreak
         IN  Sixes(src[1], src[2], src[3], map) \o (IF full THEN <<CR, LF>> ELSE <<>>)
             \o Groups(SubSeq(src, 4, Len(src)), IF full THEN 0 ELSE line + 4, padding, line_break, map)
base64_encode_custom(src, padding, line_break, map) == Groups(src, 0, padding, line_break, map)

RECURSIVE Stripped(_)
Stripped(src) ==
    IF src # <<>> /\ src[Len(src)] \in {Padding, CR, LF} THEN Stripped(SubSeq(src, 1, Len(src) - 1))
    ELSE src

Value(src, at, map) == IF at < Len(src) THEN map[src[at + 1]] ELSE 127
Three(c0, c1, c2, c3) == <<Byte(4 * c0 + c1 \div 16), Byte(16 * c1 + c2 \div 4), Byte(64 * c2 + c3)>>
ThreeAt(src, at, map) ==
    Three(Value(src, at, map), Value(src, at + 1, map), Value(src, at + 2, map), Value(src, at + 3, map))

(* The line break before a group is stepped over before the group is read,  *)
(* without looking again whether four characters are left.                  *)
RECURSIVE DecodeFrom(_, _, _, _)
DecodeFrom(src, at, end, map) ==
    LET group == IF at < Len(src) /\ src[at + 1] = CR THEN at + 2 ELSE at
    IN  IF at < end - 3 THEN ThreeAt(src, group, map) \o DecodeFrom(src, group + 4, end, map)
        ELSE SubSeq(ThreeAt(src, at, map), 1,
                    IF at + 2 < end THEN 2 ELSE IF at + 1 < end THEN 1 ELSE 0)
base64_decode_custom(src, map) == DecodeFrom(src, 0, Len(Stripped(src)), map)

-----------------------------------------------------------------------------
(* Data is encoded and decoded again with the room the length functions     *)
(* give.  A step of zero is left out: hex_decode then never returns.        *)
Way(codec, pre, spec, flag1, flag2, flag3) ==
    [codec |-> codec, pre |-> pre, spec |-> spec, padding |-> flag1, line_break |-> flag2, url |-> flag3]
HexWays == {Way("hex", a[1], a[2], FALSE, FALSE, FALSE) :
                a \in {b \in Affixes : HexStep(Len(b[1]), Len(b[2])) > 0}}
Base64Ways == {Way("base64", <<>>, <<>>, p, l, u) : p \in BOOLEAN, l \in BOOLEAN, u \in BOOLEAN}
(* For a url the flags say the map and what a shift out of range gives.     *)
UrlWays == {Way("url", <<>>, <<>>, FALSE, masked, component) : masked \in BOOLEAN, component \in BOOLEAN}
UrlMap(way) == IF way.url THEN URL_COMPONENT_MAP ELSE URL_MAP

UrlText(data, way) ==
    encode(data, encode_length(data, UrlMap(way), way.line_break), UrlMap(way), way.line_break)

CodecsInit ==
    \E data \in Samples, way \in HexWays \cup Base64Ways \cup UrlWays :
        coded = [data |-> data, way |-> way, stage |-> "data", text |-> <<>>, back |-> <<>>]

Encode ==
    /\ coded.stage = "data"
    /\ coded' = [coded EXCEPT !.stage = "text", !.text =
           CASE coded.way.codec = "hex" -> hex_encode(coded.data, coded.way.pre, coded.way.spec)
             [] coded.way.codec = "url" -> UrlText(coded.data, coded.way)
             [] OTHER -> base64_encode_custom(coded.data, coded.way.padding, coded.way.line_break,
                                              IF coded.way.url THEN URL_ENC_MAP ELSE ENC_MAP)]

Decode ==
    /\ coded.stage = "text"
    /\ coded' = [coded EXCEPT !.stage = "back", !.back =
           CASE coded.way.codec = "hex" -> hex_decode(coded.text, Len(coded.way.pre), Len(coded.way.spec))
             [] coded.way.codec = "url" -> url_decode(coded.text, url_decode_length(coded.text))
             [] OTHER -> base64_decode_custom(coded.text, IF coded.way.url THEN URL_DEC_MAP ELSE DEC_MAP)]

CodecsNext == Encode \/ Decode

-----------------------------------------------------------------------------
HexExact(data, text, back, prelen, speclen) ==
    /\ Len(text) = hex_encode_len(Len(data), prelen, speclen)
    /\ Len(data) = hex_decode_len(Len(text), prelen, speclen)
    /\ 2 + prelen + speclen < StepWrap => back = data

(* What the comment on the maps says (urlencode.c:5, :8, :25): a bit for     *)
(* each character from the space on, and a character whose bit is one is    *)
(* encoded.  required_encode finds the bits of the first eight characters   *)
(* only: its shift leaves nothing of a flag from ( on, unless the machine   *)
(* takes the last bits of the shift, so that + , / : ; = ? @ of a component *)
(* stay, and < > [ \ ] ^ { | } of any url.                                  *)
Flagged(c, map) ==
    c \notin 32..127 \/ (map[(c - 32) \div 8 + 1] \div 2 ^ ((c - 32) % 8)) % 2 = 1
FlagFound(c) == c \notin 40..127

UrlTextExact(data, text, back, map) ==
    /\ back = data /\ url_decode_length(text) = Len(data)
    /\ \A i \in DOMAIN text :
           /\ FlagFound(text[i]) /\ text[i] # Percent => ~Flagged(text[i], map)
           /\ text[i] = Percent => i + 2 <= Len(text) /\ \A k \in {i + 1, i + 2} :
                                      \E d \in DOMAIN UpperHex : UpperHex[d] = text[k]
    /\ (\A i \in DOMAIN data : Flagged(data[i], map) => FlagFound(data[i])) =>
           Len(text) = Len(data) + 2 * Cardinality({i \in DOMAIN data : Flagged(data[i], map)})

(* The last line, of two or three characters and any padding: its decoder   *)
(* steps over the line break and reads four characters all the same.        *)
ShortLastLine(data, way) ==
    /\ way.line_break /\ Len(data) % 3 > 0
    /\ 3 * (Len(data) \div 3) > 0 /\ (4 * (Len(data) \div 3)) % LineBreak = 0

Base64Exact(data, text, back, way) ==
    /\ Len(text) <= base64_encode_len(Len(data), way.padding, way.line_break)
    /\ ~ShortLastLine(data, way) => back = data
    /\ (text # <<>> /\ Len(text) < LineBreak + 2) => base64_decode_len(text) = Len(data)
    /\ ~way.line_break => /\ base64_encode_len(Len(data), way.padding, FALSE) = Len(text)
                          /\ text # <<>> => base64_decode_len(text) = Len(data)
    /\ way.padding /\ ~way.line_break => Len(text) % 4 = 0

(* hex.c:29-75, urlencode.c:23-133, base64.c:68-189: data that is encoded    *)
(* and decoded with the room the length functions give comes back as it     *)
(* was, and they give that room exactly; except that hex_decode loses its   *)
(* place with affixes of 254 characters, and base64 broken into lines has a *)
(* length of its own and does not come back from a short last line.  In a   *)
(* url the characters flagged in its map, and no others, are encoded, of    *)
(* those whose flag is found (FlagFound).                                   *)
CodecsInvert ==
    coded.stage = "back" =>
        CASE coded.way.codec = "hex" -> HexExact(coded.data, coded.text, coded.back,
                                                 Len(coded.way.pre), Len(coded.way.spec))
          [] coded.way.codec = "url" -> UrlTextExact(coded.data, coded.text, coded.back, UrlMap(coded.way))
          [] OTHER -> Base64Exact(coded.data, coded.text, coded.back, coded.way)
=============================================================================
