-------------------------------- MODULE Jsmn --------------------------------
(* jsmn.h: the parser of JSON into an array of tokens.  It keeps its place, *)
(* so a call that ran out of text or of tokens is followed by another one.  *)
(* The builds with JSMN_STRICT and with JSMN_PARENT_LINKS are modelled too. *)
EXTENDS Chars

VARIABLES js,       \* the text, and the build that parses it
          jp        \* the parser, its tokens and the result of the last call

None == -1
NOMEM == -1
INVAL == -2
PART == -3

Space == {"\t", "\r", "\n", " "}
Escaped == {"\"", "/", "\\", "b", "f", "r", "n", "t"}

(* p is the parser during a call: its fields, the tokens (when counting,    *)
(* tokens are not kept), and in r the error that ends the call.             *)
jsmn_init == [pos |-> 0, toknext |-> 0, toksuper |-> None, tokens |-> <<>>, count |-> 0, r |-> 0]

(* A call: len bytes of text, room for num tokens, counting without tokens. *)
Call(text, len, num, counting, build) ==
    [text |-> text, len |-> len, num |-> num, counting |-> counting,
     strict |-> "strict" \in build, links |-> "links" \in build]

More(call, pos) == pos < call.len /\ OffsetAt(call.text, pos) # "NUL"
Fails(p, r) == [p EXCEPT !.r = r]

(* Tokens are numbered from 0 in the code and stored from 1 here.           *)
Token(p, i) == p.tokens[i + 1]
Open(p, i) == Token(p, i).start # None /\ Token(p, i).end = None
IsContainer(t) == t.type \in {"OBJECT", "ARRAY"}
LastOf(S) == CHOOSE i \in S : \A j \in S : j <= i
Newest(p, S) == IF S = {} THEN None ELSE LastOf(S)
OpenTokens(p) == {i \in 0..(p.toknext - 1) : Open(p, i)}

Full(call, p) == p.toknext >= call.num

Allocated(call, p, type, start, end) ==
    [p EXCEPT !.tokens = Append(@, [type |-> type, start |-> start, end |-> end, size |-> 0,
                                    parent |-> IF call.links THEN p.toksuper ELSE None]),
              !.toknext = @ + 1]

-----------------------------------------------------------------------------
(* A primitive lasts until a character that ends it; in the strict build    *)
(* the end of the text does not, nor does a colon.                          *)
EndsPrimitive(call) == Space \cup {",", "]", "}"} \cup (IF call.strict THEN {} ELSE {":"})

RECURSIVE PrimitiveEnd(_, _)
PrimitiveEnd(call, pos) ==
    IF More(call, pos) /\ OffsetAt(call.text, pos) \notin EndsPrimitive(call)
                       /\ Code[OffsetAt(call.text, pos)] \in 32..126
    THEN PrimitiveEnd(call, pos + 1) ELSE pos

jsmn_parse_primitive(call, p, end) ==
    IF More(call, end) /\ OffsetAt(call.text, end) \notin EndsPrimitive(call) THEN Fails(p, INVAL)
    ELSE IF call.strict /\ ~More(call, end) THEN Fails(p, PART)
    ELSE IF call.counting THEN [p EXCEPT !.pos = end - 1]
    ELSE IF Full(call, p) THEN Fails(p, NOMEM)
    ELSE [Allocated(call, p, "PRIMITIVE", p.pos, end) EXCEPT !.pos = end - 1]

(* The place of the quote that ends a string, or an error.                  *)
RECURSIVE HexEnd(_, _, _)
HexEnd(call, pos, n) ==
    IF n > 0 /\ More(call, pos) /\ OffsetAt(call.text, pos) \in HexDigits
    THEN HexEnd(call, pos + 1, n - 1) ELSE pos

RECURSIVE StringEnd(_, _)
StringEnd(call, pos) ==
    LET c == OffsetAt(call.text, pos)
        escaped == OffsetAt(call.text, pos + 1)
        hex == HexEnd(call, pos + 2, 4)
    IN  CASE ~More(call, pos) -> PART
          [] More(call, pos) /\ c = "\"" -> pos
          [] More(call, pos) /\ c = "\\" /\ pos + 1 < call.len ->
                 IF escaped \in Escaped THEN StringEnd(call, pos + 2)
                 ELSE IF escaped = "u" /\ (hex = pos + 6 \/ ~More(call, hex)) THEN StringEnd(call, hex)
                 ELSE INVAL
          [] OTHER -> StringEnd(call, pos + 1)

(* Mutant: a string that finds no token is left behind.                     *)
StringSkipped(call, p, end) ==
    IF end < 0 THEN Fails(p, end)
    ELSE IF call.counting THEN [p EXCEPT !.pos = end]
    ELSE IF Full(call, p) THEN Fails([p EXCEPT !.pos = end], NOMEM)
    ELSE [Allocated(call, p, "STRING", p.pos + 1, end) EXCEPT !.pos = end]

jsmn_parse_string(call, p, end) ==
    IF end < 0 THEN Fails(p, end)
    ELSE IF call.counting THEN [p EXCEPT !.pos = end]
    ELSE IF Full(call, p) THEN Fails(p, NOMEM)
    ELSE [Allocated(call, p, "STRING", p.pos + 1, end) EXCEPT !.pos = end]

-----------------------------------------------------------------------------
(* One character of the text, by its kind.                                  *)
Counted(call, p) ==
    IF p.r < 0 THEN p
    ELSE IF call.counting \/ p.toksuper = None THEN [p EXCEPT !.count = @ + 1]
    ELSE [p EXCEPT !.count = @ + 1, !.tokens[p.toksuper + 1].size = @ + 1]

Opened(call, p, type) ==
    IF call.counting THEN [p EXCEPT !.count = @ + 1]
    ELSE IF Full(call, p) THEN Fails(p, NOMEM)
    ELSE IF call.strict /\ p.toksuper # None /\ Token(p, p.toksuper).type = "OBJECT"
    THEN Fails(Allocated([call EXCEPT !.links = FALSE], p, "UNDEFINED", None, None), INVAL)
    ELSE [Counted(call, Allocated(call, p, type, p.pos, None)) EXCEPT !.toksuper = p.toknext]

Closed(p, i, super) == [p EXCEPT !.tokens[i + 1].end = p.pos + 1, !.toksuper = super]

RECURSIVE OpenAncestor(_, _)
OpenAncestor(p, i) ==
    IF Open(p, i) \/ Token(p, i).parent = None THEN i ELSE OpenAncestor(p, Token(p, i).parent)

CloseByLinks(p, i, type) ==
    CASE Open(p, i) /\ Token(p, i).type = type -> Closed(p, i, Token(p, i).parent)
      [] ~Open(p, i) /\ Token(p, i).type = type /\ p.toksuper # None -> p
      [] OTHER -> Fails(p, INVAL)

CloseBySearch(p, i, type) ==
    IF i = None \/ Token(p, i).type # type THEN Fails(p, INVAL)
    ELSE Closed(p, i, Newest(p, OpenTokens(p) \ {i}))

Close(call, p, type) ==
    IF call.counting THEN p
    ELSE IF ~call.links THEN CloseBySearch(p, Newest(p, OpenTokens(p)), type)
    ELSE IF p.toknext < 1 THEN Fails(p, INVAL)
    ELSE CloseByLinks(p, OpenAncestor(p, p.toknext - 1), type)

(* After a comma the superior is the innermost open container again.        *)
Comma(call, p) ==
    LET containers == {i \in OpenTokens(p) : IsContainer(Token(p, i))}
    IN  IF call.counting \/ p.toksuper = None \/ IsContainer(Token(p, p.toksuper)) THEN p
        ELSE IF call.links THEN [p EXCEPT !.toksuper = Token(p, p.toksuper).parent]
        ELSE IF containers = {} THEN p
        ELSE [p EXCEPT !.toksuper = LastOf(containers)]

StartsPrimitive == Digits \cup {"-", "t", "f", "n"}
KeyInStrict(call, p) ==
    /\ ~call.counting /\ p.toksuper # None
    /\ LET t == Token(p, p.toksuper) IN t.type = "OBJECT" \/ (t.type = "STRING" /\ t.size # 0)

Primitive(call, p, c) ==
    IF call.strict /\ (c \notin StartsPrimitive \/ KeyInStrict(call, p)) THEN Fails(p, INVAL)
    ELSE Counted(call, jsmn_parse_primitive(call, p, PrimitiveEnd(call, p.pos)))

Char(call, p, c) ==
    CASE c = "{" -> Opened(call, p, "OBJECT")
      [] c = "[" -> Opened(call, p, "ARRAY")
      [] c = "}" -> Close(call, p, "OBJECT")
      [] c = "]" -> Close(call, p, "ARRAY")
      [] c = "\"" -> Counted(call, jsmn_parse_string(call, p, StringEnd(call, p.pos + 1)))
      [] c \in Space -> p
      [] c = ":" -> [p EXCEPT !.toksuper = p.toknext - 1]
      [] c = "," -> Comma(call, p)
      [] OTHER -> Primitive(call, p, c)

Advanced(p) == IF p.r < 0 THEN p ELSE [p EXCEPT !.pos = @ + 1]

RECURSIVE Scan(_, _)
Scan(call, p) ==
    IF p.r < 0 \/ ~More(call, p.pos) THEN p
    ELSE Scan(call, Advanced(Char(call, p, OffsetAt(call.text, p.pos))))

Answer(call, p) ==
    IF p.r < 0 THEN p
    ELSE [p EXCEPT !.r = IF ~call.counting /\ OpenTokens(p) # {} THEN PART ELSE p.count]

jsmn_parse(call, p) == Answer(call, Scan(call, [p EXCEPT !.r = 0, !.count = p.toknext]))

-----------------------------------------------------------------------------
CONSTANTS Texts,    \* the texts to parse
          Builds,   \* sets of "strict" and "links"
          Rooms     \* numbers of tokens offered

JsmnInit ==
    /\ \E text \in Texts, build \in Builds :
           js = [text |-> text, build |-> build, len |-> 0, num |-> 0]
    /\ jp = jsmn_init

AtOnce(text, build, counting) ==
    jsmn_parse(Call(text, Len(text), Len(text), counting, build), jsmn_init)

(* Without JSMN_STRICT a primitive ends where the text given ends, so the   *)
(* text may not be cut inside one.                                          *)
MayCut(len, whole) ==
    /\ whole.r # INVAL
    /\ \A i \in DOMAIN whole.tokens :
           whole.tokens[i].type = "PRIMITIVE" => len \notin (whole.tokens[i].start + 1)..(whole.tokens[i].end - 1)
Cuts(text, build) ==
    {len \in 0..Len(text) : \/ len = Len(text) \/ "strict" \in build
                           \/ MayCut(len, AtOnce(text, build, FALSE))}

(* A call with the text and the room of the last one, or more.              *)
ParseMore ==
    /\ jp.r # INVAL
    /\ \E len \in {n \in Cuts(js.text, js.build) : n >= js.len},
          num \in {n \in Rooms : n >= js.num} :
        /\ <<len, num>> # <<js.len, js.num>>
        /\ js' = [js EXCEPT !.len = len, !.num = num]
        /\ jp' = jsmn_parse(Call(js.text, len, num, FALSE, js.build), jp)
=============================================================================
