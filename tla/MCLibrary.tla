----------------------------- MODULE MCLibrary ------------------------------
(* The start and exit of servers, and the structures and the text libraries *)
(* beside them, each on its own: a behaviour uses one of them.              *)
EXTENDS ServerExit, RBTree, ListHead, LogFile, OldBuffer, CFormat, JsonText, Codecs, CountedStr

VARIABLE part        \* the library this behaviour uses

MCTreeNodes == 1..10
MCKeyOf == [n \in MCTreeNodes |-> IF n = 10 THEN 5 ELSE n]

-----------------------------------------------------------------------------
(* Conversions: every set of flags with widths and precisions around the    *)
(* numbers of digits, the lengths, doubles at and around the halves.        *)
Plainly(flags, width, prec, c, arg) == Asked(flags, width, prec, "", c, arg, FALSE)
Double(kind, neg, num, scale) == [kind |-> kind, neg |-> neg, num |-> num, scale |-> scale]

Integers_ == {Plainly(f, w, p, c, v) :
    f \in SUBSET {"+", "0", "#", " ", "-"}, w \in {-1, 2, 3, 5}, p \in {-1, 0, 3},
    c \in {"d", "x", "o", "b"}, v \in {0, -5, 10, 255}}
Lengths_ == {Asked(f, 4, p, l, c, v, TRUE) :
    f \in SUBSET {"0", "-"}, p \in {-1, 2}, l \in {"h", "hh", "l", "ll", "z"},
    c \in {"i", "u", "X"}, v \in {0, -1, 7, 8, -8, 33, 255, -256}}
Doubles == {Double("nan", FALSE, 0, 0), Double("inf", FALSE, 0, 0), Double("inf", TRUE, 0, 0)}
           \cup {Double("finite", neg, num, scale) :
                    neg \in BOOLEAN, num \in {0, 5, 15, 25, 95, 995, 1234}, scale \in {0, 1, 3}}
Floats == {Plainly(f, w, p, c, v) :
    f \in (SUBSET {"+", "0", "-"}) \cup {{" "}, {"#"}, {"0", "#"}}, w \in {-1, 8}, p \in {-1, 0, 1, 2},
    c \in {"f", "E", "g"}, v \in Doubles}
    \cup {Plainly({}, -1, p, c, v) : p \in {4, 13}, c \in {"F", "e", "G"}, v \in Doubles}
Others_ == {Asked(f, w, p, "", "s", v, TRUE) :
                f \in SUBSET {"-"}, w \in {-1, 2, 5}, p \in {-1, 0, 2}, v \in {"", "abc"}}
           \cup {Plainly(f, w, -1, "c", "k") : f \in SUBSET {"-"}, w \in {-1, 2, 5}}
           \cup {Plainly({}, -1, -1, "p", v) : v \in {0, 171}}

PrintfInit ==
    /\ \E a \in Integers_ \cup Lengths_ \cup Floats \cup Others_ : asked = a
    /\ pf = Called(FormatOf(asked), ArgsOf(asked))
PrintfIdle ==
    /\ asked = Plainly({}, -1, -1, "c", "")
    /\ pf = Called("", <<>>)

-----------------------------------------------------------------------------
MCTrees == {
    Array(<<Atom("1"), Str("a\\n")>>),
    Object(<<Key("k", Atom("true"))>>),
    Array(<<Array(<<>>), Object(<<>>), Atom("-1")>>),
    Object(<<Key("a", Array(<<Atom("1"), Atom("2")>>)), Key("b", Object(<<Key("c", Str("\\u00e9"))>>)),
             Key("d", Atom("null"))>>),
    Str("q\\\""),
    Array(<<Object(<<Key("x", Str("")), Key("y", Atom("3"))>>), Atom("4")>>)}

RECURSIVE Strings(_)
Strings(n) == IF n = 0 THEN {""}
              ELSE {c \o s : c \in {"{", "}", "[", "]", "\"", "1", ",", ":"}, s \in Strings(n - 1)}
MCTexts == UNION {Strings(n) : n \in 1..3} \cup {Text(v) : v \in MCTrees}
           \cup {"[1}", "{\"a\":1,2}", "\"\\x\"", "\"\\u1g\"", "[a:1,2]", "[\t]", "[t\t,\r]", "{1:2}",
                 "[1] [2,3]", "{\"a\":\"b\":1}", "{\"a\":{}}", "[true,\"s\"]"}
MCBuilds == {{}, {"strict"}, {"links"}, {"strict", "links"}}

JsmnIdle == js = [text |-> "", build |-> {}, len |-> 0, num |-> 0] /\ jp = jsmn_init

-----------------------------------------------------------------------------
MCSamples == UNION {[1..n -> {0, 37, 107, 255}] : n \in 0..3}
             \cup {[i \in 1..n |-> (i * 37) % 256] : n \in 4..14}
             \cup {<<i>> : i \in 0..255} \cup {<<32, i, 98>> : i \in 32..128}
MCAffixes == {<<pre, spec>> : pre \in {<<>>, CodesOf("0x")},
                              spec \in {<<>>, CodesOf(","), CodesOf("----"), CodesOf("-------")}}
CodecsIdle ==
    coded = [data |-> <<>>, way |-> Way("hex", <<>>, <<>>, FALSE, FALSE, FALSE), stage |-> "data",
             text |-> <<>>, back |-> <<>>]

MCWords == {<<>>, <<"a">>, <<"b", "c", "d">>}
StrIdle == str = str_malloc(0) /\ counted = Counting(<<>>, FALSE)
PtrIdle == ptr = <<>> /\ held = <<>>

BufferIdle ==
    /\ buf = [ref |-> 0, len |-> 0, cap |-> 0, array_cap |-> 0, leaked |-> FALSE, array |-> <<>>]
    /\ text = <<>>

-----------------------------------------------------------------------------
MCInit ==
    /\ part \in {"tree", "list", "log", "buffer", "printf", "json", "codecs", "strings", "pointers", "exit"}
    /\ ExitInit /\ TreeInit /\ ListInit /\ LogInit
    /\ IF part = "buffer" THEN BufferInit ELSE BufferIdle
    /\ IF part = "printf" THEN PrintfInit ELSE PrintfIdle
    /\ IF part = "json" THEN JsmnInit ELSE JsmnIdle
    /\ IF part = "codecs" THEN CodecsInit ELSE CodecsIdle
    /\ IF part = "strings" THEN StrInit ELSE StrIdle
    /\ IF part = "pointers" THEN PtrInit ELSE PtrIdle

structureVars == <<exitVars, treeVars, listVars, logVars, bufferVars>>
textVars == <<pf, asked, js, jp, coded, str, counted, ptr, held>>
vars == <<part, structureVars, textVars>>

StructuresNext ==
    \/ part = "exit" /\ ExitNext /\ UNCHANGED <<treeVars, listVars, logVars, bufferVars>>
    \/ part = "tree" /\ TreeNext /\ UNCHANGED <<exitVars, listVars, logVars, bufferVars>>
    \/ part = "list" /\ ListNext /\ UNCHANGED <<exitVars, treeVars, logVars, bufferVars>>
    \/ part = "log" /\ LogNext /\ UNCHANGED <<exitVars, treeVars, listVars, bufferVars>>
    \/ part = "buffer" /\ BufferNext /\ UNCHANGED <<exitVars, treeVars, listVars, logVars>>
TextsNext ==
    \/ part = "printf" /\ PrintfNext /\ UNCHANGED <<asked, js, jp, coded, str, counted, ptr, held>>
    \/ part = "json" /\ ParseMore /\ UNCHANGED <<pf, asked, coded, str, counted, ptr, held>>
    \/ part = "codecs" /\ CodecsNext /\ UNCHANGED <<pf, asked, js, jp, str, counted, ptr, held>>
    \/ part = "strings" /\ StrNext /\ UNCHANGED <<pf, asked, js, jp, coded, ptr, held>>
    \/ part = "pointers" /\ PtrNext /\ UNCHANGED <<pf, asked, js, jp, coded, str, counted>>

MCNext ==
    \/ StructuresNext /\ UNCHANGED <<part, textVars>>
    \/ TextsNext /\ UNCHANGED <<part, structureVars>>

MCSpec == MCInit /\ [][MCNext]_vars
=============================================================================
