------------------------------ MODULE JsonText ------------------------------
(* JSON values as trees, their text and the tokens that describe it: what   *)
(* jsmn_parse is to find.                                                   *)
EXTENDS Jsmn

CONSTANT Trees      \* values; objects and arrays are sequences of members

(* A value is its kind, the text that opens it, its members and the text    *)
(* that closes it; an object's member is a key that holds a value.          *)
Atom(text) == [type |-> "PRIMITIVE", open |-> "", members |-> <<>>, inner |-> text, close |-> ""]
Str(text) == [type |-> "STRING", open |-> "\"", members |-> <<>>, inner |-> text, close |-> "\""]
Array(values) == [type |-> "ARRAY", open |-> "[", members |-> values, inner |-> "", close |-> "]"]
Object(values) == [type |-> "OBJECT", open |-> "{ ", members |-> values, inner |-> "", close |-> "}"]
Key(text, value) == [Str(text) EXCEPT !.members = <<value>>, !.close = "\": "]

RECURSIVE Text(_), Joined(_)
Joined(values) ==
    IF values = <<>> THEN ""
    ELSE Text(Head(values)) \o (IF Tail(values) = <<>> THEN "" ELSE ",") \o Joined(Tail(values))
Text(v) ==
    IF v.type = "STRING" THEN v.open \o v.inner \o v.close \o Joined(v.members)
    ELSE v.open \o v.inner \o Joined(v.members) \o v.close

TokenOf(v, at, parent) ==
    [type |-> v.type, size |-> Len(v.members), parent |-> parent,
     start |-> IF v.type = "STRING" THEN at + 1 ELSE at,
     end |-> IF v.type = "STRING" THEN at + 1 + Len(v.inner) ELSE at + Len(Text(v))]

(* The tokens of a value at an offset, and of the members of one, when so   *)
(* many tokens come before.                                                 *)
RECURSIVE TokensOf(_, _, _, _), TokensIn(_, _, _, _), Size(_)
Size(values) == IF values = <<>> THEN 0 ELSE 1 + Size(Head(values).members) + Size(Tail(values))
TokensIn(values, at, parent, before) ==
    IF values = <<>> THEN <<>>
    ELSE TokensOf(Head(values), at, parent, before)
         \o TokensIn(Tail(values), at + Len(Text(Head(values))) + 1, parent,
                     before + Size(<<Head(values)>>))
TokensOf(v, at, parent, before) ==
    <<TokenOf(v, at, parent)>>
    \o TokensIn(v.members, at + Len(v.open) + (IF v.type = "STRING" THEN Len(v.inner \o v.close) ELSE 0),
                before, before + 1)

NoParents(tokens) == [i \in DOMAIN tokens |-> [tokens[i] EXCEPT !.parent = None]]
Expected == [text \in {Text(v) : v \in Trees} |->
                TokensOf(CHOOSE v \in Trees : Text(v) = text, 0, None, 0)]

-----------------------------------------------------------------------------
Agrees(whole) ==
    /\ js.len = Len(js.text) /\ jp.r # NOMEM => jp.r = whole.r /\ jp.tokens = whole.tokens
    /\ jp.r = INVAL => whole.r = INVAL
    /\ whole.r >= 0 => /\ AtOnce(js.text, js.build, TRUE).r = whole.r
                       /\ whole.r = Len(whole.tokens)

(* jsmn.h:268-449: after calls that ran out of text or of tokens the parser *)
(* has the tokens and the result that one call with everything gives; a     *)
(* part is refused only if the whole is; counting gives the number of       *)
(* tokens; and the tokens of a JSON value are its parts, in order, with     *)
(* their places, their numbers of members and, where kept, their parents.   *)
JsonExact ==
    js.text # "" =>
        /\ Agrees(AtOnce(js.text, js.build, FALSE))
        /\ js.len = Len(js.text) /\ jp.r # NOMEM /\ js.text \in DOMAIN Expected =>
               jp.tokens = IF "links" \in js.build THEN Expected[js.text] ELSE NoParents(Expected[js.text])
=============================================================================
