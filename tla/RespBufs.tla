------------------------------ MODULE RespBufs ------------------------------
(***************************************************************************)
(* One reply of httpserver.c: the callback of the application puts a       *)
(* content type, header fields and a body into the buffer of the reply     *)
(* (httpctx.h), write_http_resp composes the header behind them on a page  *)
(* of its own, and describes header and body to libuv by an array of       *)
(* uv_buf_t, none of which crosses a page.                                 *)
(*                                                                         *)
(* The buffer is the flat array that module DynMem implements.  A byte is  *)
(* named by the piece of text it belongs to and its place there; the       *)
(* literals of the header are one byte each.                               *)
(***************************************************************************)
EXTENDS Integers, SequencesExt

CONSTANTS Page,        \* the page size of the buffer
          StatusLen,   \* bytes of the status line with its two fixed fields
          TextLens,    \* the lengths of a type, of a name or value of a field
          BodyLens,    \* the lengths of a part of a body
          MaxHeaders,  \* bound: header fields of a reply
          MaxParts     \* bound: parts of a body

\* snprintf writes the status line into one page.
ASSUME RespAssumption ==
    /\ Page \in Nat \ {0} /\ StatusLen \in 1 .. Page - 1
    /\ TextLens \subseteq Nat /\ BodyLens \subseteq Nat
    /\ MaxHeaders \in Nat /\ MaxParts \in Nat

VARIABLES data,    \* res.data: the bytes below its length
          res,     \* httpres_t: content_type, headers, body, keep_alive, and the
                   \* length declared of a body that a callback is to bring
          out,     \* write_bufs, and the numbers it was made from
          phase,   \* how far the reply is
          reply    \* history: what the callback asked for

vars == <<data, res, out, phase, reply>>

PieceOf(piece, n) == [k \in 1 .. n |-> [of |-> piece, arg |-> 0, at |-> k]]
Numbered(piece, a, n) == [k \in 1 .. n |-> [of |-> piece, arg |-> a, at |-> k]]

\* http_value_t: a range of the buffer.
Value == [pos : Nat, len : Nat]
NoValue == [pos |-> 0, len |-> 0]

Junk == [of |-> "junk", arg |-> 0, at |-> 1]

\* What mem_array_copyfrom copies: dynmem_read stops at the length.
Content(d, v) == [k \in 1 .. v.len |-> IF v.pos + k <= Len(d) THEN d[v.pos + k] ELSE Junk]

NoReply == [keep |-> FALSE, type |-> <<>>, headers |-> <<>>, body |-> <<>>, length |-> -1]
NoOut == [start |-> 0, head |-> 0, size |-> 0, bufs |-> <<>>]
EmptyRes == [keep_alive |-> FALSE, content_type |-> NoValue, headers |-> <<>>,
             body |-> NoValue, parts |-> 0, body_type |-> "memory", content_length |-> 0]

Init == /\ data = <<>> /\ res = EmptyRes /\ out = NoOut
        /\ phase = "header" /\ reply = NoReply

(***************************************************************************)
(* The callback.  httpctx.h asks that the header fields be set before the  *)
(* body, and that body_begin come before body_append.                      *)
(***************************************************************************)
keep_alive_set ==
    /\ phase = "header" /\ ~res.keep_alive
    /\ res' = [res EXCEPT !.keep_alive = TRUE]
    /\ reply' = [reply EXCEPT !.keep = TRUE]
    /\ UNCHANGED <<data, out, phase>>

\* The application says that a callback brings the body, and how long it is.
body_type_set(n) ==
    /\ phase = "header" /\ res.body_type = "memory"
    /\ res' = [res EXCEPT !.body_type = "callback", !.content_length = n]
    /\ reply' = [reply EXCEPT !.length = n]
    /\ UNCHANGED <<data, out, phase>>

\* Bound: once for a reply.
httpctx_set_content_type(n) ==
    /\ phase = "header" /\ res.content_type.len = 0
    /\ data' = data \o PieceOf("type", n)
    /\ res' = [res EXCEPT !.content_type = [pos |-> Len(data), len |-> n]]
    /\ reply' = [reply EXCEPT !.type = PieceOf("type", n)]
    /\ UNCHANGED <<out, phase>>

httpctx_add_header(f, v) ==
    LET i == Len(res.headers) + 1
        field == Numbered("field", i, f)
        value == Numbered("value", i, v)
    IN  /\ phase = "header" /\ i <= MaxHeaders
        /\ data' = data \o field \o value
        /\ res' = [res EXCEPT !.headers = Append(@,
                      [field |-> [pos |-> Len(data), len |-> f],
                       value |-> [pos |-> Len(data) + f, len |-> v]])]
        /\ reply' = [reply EXCEPT !.headers = Append(@, <<field, value>>)]
        /\ UNCHANGED <<out, phase>>

httpctx_set_body(n) ==
    /\ phase = "header"
    /\ data' = data \o Numbered("body", 0, n)
    /\ res' = [res EXCEPT !.body = [pos |-> Len(data), len |-> n]]
    /\ reply' = [reply EXCEPT !.body = Numbered("body", 0, n)]
    /\ phase' = "done"
    /\ UNCHANGED out

httpctx_body_begin ==
    /\ phase = "header"
    /\ res' = [res EXCEPT !.body.pos = Len(data)]
    /\ phase' = "body"
    /\ UNCHANGED <<data, out, reply>>

httpctx_body_append(n) ==
    LET part == Numbered("body", res.parts + 1, n)
    IN  /\ phase = "body" /\ res.parts < MaxParts
        /\ data' = data \o part
        /\ res' = [res EXCEPT !.body.len = @ + n, !.parts = @ + 1]
        /\ reply' = [reply EXCEPT !.body = @ \o part]
        /\ UNCHANGED <<out, phase>>

(***************************************************************************)
(* write_http_resp                                                         *)
(***************************************************************************)
PagesFor(n) == (n + Page - 1) \div Page

\* Mutant: the header follows the body at once.
NotAligned(d) == d

\* dynmem_align: what lies between is never written.
dynmem_align(d) == d \o PieceOf("gap", PagesFor(Len(d)) * Page - Len(d))

\* The status line names the length of the body, or the one declared.
Status(n) == Numbered("status", n, StatusLen)

\* A header field: mem_array_copyfrom reads it where the callback put it.
HeaderLine(d, h) == Content(d, h.field) \o PieceOf("colon", 1)
                        \o Content(d, h.value) \o PieceOf("crlf", 1)

body_len == IF res.body_type = "callback" THEN res.content_length ELSE res.body.len

\* write_http_header: what it appends to the buffer.
write_http_header(d) ==
    Status(body_len)
    \o (IF res.keep_alive THEN PieceOf("keep-alive", 1) ELSE <<>>)
    \o (IF res.content_type.len = 0 THEN <<>>
        ELSE PieceOf("content-type", 1) \o Content(d, res.content_type) \o PieceOf("crlf", 1))
    \o FlattenSeq([i \in DOMAIN res.headers |-> HeaderLine(d, res.headers[i])])
    \o PieceOf("crlf", 1)

Lesser(a, b) == IF a <= b THEN a ELSE b

\* Mutant: the room in a page is taken to be the page.
WholePage(off) == Page

dynmem_surplus(off) == Page - (off % Page)

\* The loop goes from off to the start of the next page, and from page to page,
\* as long as it is below off + n: once for each page of the range.  len is
\* not lowered on the way.
fill_uv_buf_ts(off, n) ==
    LET count == IF n = 0 THEN 0 ELSE PagesFor((off % Page) + n)
        start(i) == IF i = 1 THEN off ELSE ((off \div Page) + i - 1) * Page
    IN  [i \in 1 .. count |->
            [base |-> start(i), len |-> Lesser(n, dynmem_surplus(start(i)))]]

bufs_size(head, body) == PagesFor(head) + PagesFor(body)

write_http_resp ==
    LET d == dynmem_align(data)
        head == write_http_header(d)
    IN  /\ phase \in {"header", "body", "done"}
        /\ data' = d \o head
        /\ out' = [start |-> Len(d), head |-> Len(head),
                   size |-> bufs_size(Len(head), res.body.len),
                   bufs |-> fill_uv_buf_ts(Len(d), Len(head))
                              \o fill_uv_buf_ts(res.body.pos, res.body.len)]
        /\ phase' = "writing"
        /\ UNCHANGED <<res, reply>>

\* Mutant: the fields of the last reply stay.
ResetKeepsHeaders ==
    /\ phase = "writing"
    /\ data' = <<>> /\ res' = [EmptyRes EXCEPT !.headers = res.headers] /\ out' = NoOut
    /\ phase' = "header" /\ reply' = NoReply

\* on_writed: httpctx_reset leaves an empty reply for the next request.
on_writed ==
    /\ phase = "writing"
    /\ data' = <<>> /\ res' = EmptyRes /\ out' = NoOut
    /\ phase' = "header" /\ reply' = NoReply

Next == \/ keep_alive_set
        \/ \E n \in BodyLens : body_type_set(n)
        \/ \E n \in TextLens : httpctx_set_content_type(n)
        \/ \E f \in TextLens \ {0}, v \in TextLens : httpctx_add_header(f, v)
        \/ \E n \in BodyLens : httpctx_set_body(n)
        \/ httpctx_body_begin
        \/ \E n \in BodyLens : httpctx_body_append(n)
        \/ write_http_resp
        \/ on_writed

Spec == Init /\ [][Next]_vars

(***************************************************************************)
(* What libuv sends: the bytes of the first size entries of the array.     *)
(***************************************************************************)
MemoryAt(p) == IF p < Len(data) THEN data[p + 1] ELSE Junk

BufBytes(b) == [k \in 1 .. b.len |-> MemoryAt(b.base + k - 1)]

Sent == FlattenSeq([i \in 1 .. Lesser(out.size, Len(out.bufs)) |-> BufBytes(out.bufs[i])])

\* The header that the callback asked for, in the order of HTTP.
WireHeader ==
    Status(IF reply.length = -1 THEN Len(reply.body) ELSE reply.length)
    \o (IF reply.keep THEN PieceOf("keep-alive", 1) ELSE <<>>)
    \o (IF reply.type = <<>> THEN <<>>
        ELSE PieceOf("content-type", 1) \o reply.type \o PieceOf("crlf", 1))
    \o FlattenSeq([i \in DOMAIN reply.headers |->
           reply.headers[i][1] \o PieceOf("colon", 1)
               \o reply.headers[i][2] \o PieceOf("crlf", 1)])
    \o PieceOf("crlf", 1)

Wire == WireHeader \o reply.body

(***************************************************************************)
(* Properties.                                                             *)
(***************************************************************************)
BufSet == [base : Nat, len : 1 .. Page]

\* The ranges, the array and the history are of their kinds.
TypeOK ==
    /\ res.keep_alive \in BOOLEAN /\ res.body_type \in {"memory", "callback"}
    /\ res.content_length \in Nat /\ res.content_type \in Value /\ res.body \in Value
    /\ \A i \in DOMAIN res.headers : res.headers[i] \in [field : Value, value : Value]
    /\ phase \in {"header", "body", "done", "writing"}
    /\ out.start \in Nat /\ out.head \in Nat /\ out.size \in Nat
    /\ \A i \in DOMAIN out.bufs : out.bufs[i] \in BufSet

\* Neither the header nor the body needs a second page.
Short == /\ out.head <= Page
         /\ (res.body.pos % Page) + res.body.len <= Page

\* A reply whose header fits in a page, and whose body does not cross one, is
\* sent byte for byte as the callback composed it, with its length or the one declared,
\* wherever the pieces lie in the buffer.
ShortReplyExact == (phase = "writing" /\ Short) => Sent = Wire

\* Whatever its length, the header comes first and is complete.
HeaderFirst ==
    phase = "writing" =>
        /\ Len(WireHeader) <= Len(Sent)
        /\ SubSeq(Sent, 1, Len(WireHeader)) = WireHeader

\* The loop fills every entry that libuv is given, and writes none behind the
\* array of size + 1 entries that was allocated.
ArrayInBounds ==
    phase = "writing" =>
        out.size <= Len(out.bufs) /\ Len(out.bufs) <= out.size + 1

\* Each entry is memory of one page, and starts at a byte of the reply.
BufsInPages ==
    phase = "writing" =>
        \A i \in DOMAIN out.bufs :
            LET b == out.bufs[i]
            IN  (b.base % Page) + b.len <= Page /\ b.base < Len(data)

\* What libuv is given is inside the array and the pages that were allocated.
ArraySound == ArrayInBounds /\ BufsInPages

\* The array describes the header and the body: bytes behind a header that
\* goes beyond its first page are not sent.
SentAsComposed == phase = "writing" => Sent = Wire
=============================================================================
