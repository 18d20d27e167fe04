--------------------------- MODULE RespBufsProofs ---------------------------
(***************************************************************************)
(* The array of buffers of a reply, for every page size and every length   *)
(* of the header and the body: each part takes as many entries as it       *)
(* touches pages, which is the number counted or one more, and the header, *)
(* which starts a page, takes exactly its number.                          *)
(***************************************************************************)
EXTENDS RespBufs, DataInduction

\* A page has bytes.
LEMMA PageNat == Page \in Nat /\ Page > 0
  BY RespAssumption

\* Quotient and remainder by the page size.
LEMMA DivMod ==
    ASSUME NEW p \in Nat
    PROVE  /\ p \div Page \in Nat /\ p % Page \in 0 .. Page - 1
           /\ p = (p \div Page) * Page + (p % Page)
  BY PageNat, SMTT(30)

\* A number of pages, in bytes.
LEMMA ProductNat ==
    ASSUME NEW k \in Nat
    PROVE  k * Page \in Nat /\ (k + 1) * Page = k * Page + Page
  BY PageNat, SMTT(30)

\* Fewer pages are at least a page of bytes fewer.
LEMMA ProductLess ==
    ASSUME NEW k \in Nat, NEW m \in Nat
    PROVE  (k < m) <=> (k * Page + Page <= m * Page)
  BY PageNat, SMTT(30)

\* The pages for n bytes are enough, and less than a page too many.
LEMMA Rounding ==
    ASSUME NEW n \in Nat
    PROVE  /\ PagesFor(n) \in Nat
           /\ PagesFor(n) * Page \in Nat
           /\ n <= PagesFor(n) * Page
           /\ PagesFor(n) * Page < n + Page
<1> DEFINE m == n + Page - 1
<1>1. m \in Nat
  BY PageNat
<1>2. m \div Page \in Nat /\ m % Page \in 0 .. Page - 1 /\ m = (m \div Page) * Page + (m % Page)
  BY <1>1, DivMod
<1>3. (m \div Page) * Page \in Nat
  BY <1>2, ProductNat
<1>4. PagesFor(n) = m \div Page
  BY DEF PagesFor
<1> QED
  BY <1>2, <1>3, <1>4, PageNat

\* A range that starts r bytes inside a page touches one page more, or none.
LEMMA Touched ==
    ASSUME NEW n \in Nat, NEW r \in 0 .. Page - 1
    PROVE  PagesFor(r + n) \in {PagesFor(n), PagesFor(n) + 1}
<1> DEFINE a == PagesFor(n)
           b == PagesFor(r + n)
           x == a * Page
           y == b * Page
<1>1. r + n \in Nat
  BY PageNat
<1>2. a \in Nat /\ x \in Nat /\ n <= x /\ x < n + Page
  BY Rounding
<1>3. b \in Nat /\ y \in Nat /\ r + n <= y /\ y < (r + n) + Page
  BY <1>1, Rounding
<1>4. ~(b < a)
  <2>1. ~(y + Page <= x)
    <3> HIDE DEF x, y, a, b
    <3> QED
      BY <1>2, <1>3, PageNat
  <2>2. (b < a) <=> (y + Page <= x)
    <3> HIDE DEF a, b
    <3> QED
      BY <1>2, <1>3, ProductLess
  <2> QED
    BY <2>1, <2>2
<1>5. ~(a + 1 < b)
  <2> DEFINE z == (a + 1) * Page
  <2>1. z = x + Page
    <3> HIDE DEF a, b
    <3> QED
      BY <1>2, ProductNat
  <2>2. (a + 1 < b) <=> (z + Page <= y)
    <3> HIDE DEF a, b
    <3>1. a + 1 \in Nat
      BY <1>2
    <3> QED
      BY <1>3, <3>1, ProductLess
  <2>3. ~(z + Page <= y)
    <3> HIDE DEF x, y, z, a, b
    <3> QED
      BY <1>2, <1>3, <2>1, PageNat
  <2> QED
    BY <2>2, <2>3
<1> HIDE DEF a, b
<1> QED
  BY <1>2, <1>3, <1>4, <1>5 DEF a, b

\* An entry of the array: some bytes, at most a page.
Entry == [base : Nat, len : 1 .. Page]

\* The number of entries of a range: the pages it touches.
LEMMA EntriesCount ==
    ASSUME NEW off \in Nat, NEW n \in Nat
    PROVE  /\ fill_uv_buf_ts(off, n) \in Seq(Entry)
           /\ Len(fill_uv_buf_ts(off, n)) \in {PagesFor(n), PagesFor(n) + 1}
           /\ off % Page = 0 => Len(fill_uv_buf_ts(off, n)) = PagesFor(n)
<1> DEFINE r == off % Page
           count == IF n = 0 THEN 0 ELSE PagesFor(r + n)
           start(i) == IF i = 1 THEN off ELSE ((off \div Page) + i - 1) * Page
           entry(i) == [base |-> start(i), len |-> Lesser(n, dynmem_surplus(start(i)))]
           s == [i \in 1 .. count |-> entry(i)]
<1>1. off \div Page \in Nat /\ r \in 0 .. Page - 1 /\ r + n \in Nat
  BY DivMod, PageNat
<1>2. PagesFor(0) = 0
  <2> DEFINE a == PagesFor(0)
  <2>1. a \in Nat /\ a * Page \in Nat /\ a * Page < 0 + Page
    BY Rounding
  <2>2. ~(0 < a)
    <3> HIDE DEF a
    <3>1. (0 < a) <=> (0 * Page + Page <= a * Page)
      BY <2>1, ProductLess
    <3>2. 0 * Page = 0
      BY PageNat
    <3> QED
      BY <2>1, <3>1, <3>2, PageNat
  <2> HIDE DEF a
  <2>3. a = 0
    BY <2>1, <2>2
  <2> QED
    BY <2>3 DEF a
<1>3. count \in Nat /\ count \in {PagesFor(n), PagesFor(n) + 1}
  <2>1. PagesFor(n) \in Nat /\ PagesFor(r + n) \in Nat
    BY <1>1, Rounding
  <2>2. PagesFor(r + n) \in {PagesFor(n), PagesFor(n) + 1}
    BY <1>1, Touched
  <2> HIDE DEF r
  <2> QED
    BY <1>2, <2>1, <2>2
<1>4. r = 0 => count = PagesFor(n)
  BY <1>1, <1>2
<1>5. ASSUME NEW i \in 1 .. count PROVE entry(i) \in Entry
  <2>0. n > 0
    BY <1>3
  <2>1. start(i) \in Nat
    <3>1. i - 1 \in Nat
      BY <1>3
    <3>2. (off \div Page) + (i - 1) \in Nat
      BY <1>1, <3>1
    <3>3. ((off \div Page) + (i - 1)) * Page \in Nat
      BY <3>2, ProductNat
    <3>4. (off \div Page) + i - 1 = (off \div Page) + (i - 1)
      BY <1>1, <1>3
    <3> QED
      BY <3>3, <3>4
  <2> HIDE DEF start
  <2>2. start(i) % Page \in 0 .. Page - 1
    BY <2>1, DivMod
  <2>3. dynmem_surplus(start(i)) \in 1 .. Page
    BY <2>2, PageNat DEF dynmem_surplus
  <2>4. Lesser(n, dynmem_surplus(start(i))) \in 1 .. Page
    BY <2>0, <2>3, PageNat DEF Lesser
  <2> QED
    BY <2>1, <2>4 DEF Entry
<1>6. fill_uv_buf_ts(off, n) = s
  BY DEF fill_uv_buf_ts
<1> HIDE DEF count, entry
<1>7. s \in Seq(Entry) /\ Len(s) = count
  BY <1>3, <1>5
<1> QED
  BY <1>3, <1>4, <1>6, <1>7

\* Each entry of a range is memory of one page, and starts inside the range: the
\* loop of fill_uv_buf_ts asks dynmem_get for no address behind it.
THEOREM EntriesInPages ==
    ASSUME NEW off \in Nat, NEW n \in Nat,
           NEW i \in 1 .. Len(fill_uv_buf_ts(off, n))
    PROVE  LET b == fill_uv_buf_ts(off, n)[i]
           IN  /\ off <= b.base /\ b.base < off + n
               /\ (b.base % Page) + b.len <= Page
<1> DEFINE r == off % Page
           q == off \div Page
           count == IF n = 0 THEN 0 ELSE PagesFor(r + n)
           start == IF i = 1 THEN off ELSE (q + i - 1) * Page
           b == [base |-> start, len |-> Lesser(n, dynmem_surplus(start))]
<1>1. q \in Nat /\ r \in 0 .. Page - 1 /\ off = q * Page + r /\ q * Page \in Nat /\ r + n \in Nat
  BY DivMod, ProductNat, PageNat
<1>2. PagesFor(r + n) \in Nat /\ PagesFor(r + n) * Page \in Nat
      /\ PagesFor(r + n) * Page < (r + n) + Page
  BY <1>1, Rounding
<1>3. count \in Nat
  BY <1>2
<1>4. i \in 1 .. count /\ fill_uv_buf_ts(off, n)[i] = b
  <2>1. fill_uv_buf_ts(off, n) = [j \in 1 .. count |->
            LET st == IF j = 1 THEN off ELSE (q + j - 1) * Page
            IN  [base |-> st, len |-> Lesser(n, dynmem_surplus(st))]]
    BY DEF fill_uv_buf_ts
  <2> DEFINE f == [j \in 1 .. count |->
            LET st == IF j = 1 THEN off ELSE (q + j - 1) * Page
            IN  [base |-> st, len |-> Lesser(n, dynmem_surplus(st))]]
  <2>2. Len(f) = count
    <3> HIDE DEF count
    <3> QED
      BY <1>3
  <2>3. i \in 1 .. count
    BY <2>1, <2>2
  <2>4. f[i] = b
    <3> HIDE DEF count
    <3> QED
      BY <2>3
  <2> QED
    BY <2>1, <2>3, <2>4
<1>5. n > 0 /\ i \in Nat /\ i >= 1 /\ i <= PagesFor(r + n)
  BY <1>2, <1>4
<1>6. start \in Nat /\ off <= start /\ start < off + n
  <2>1. CASE i = 1
    BY <1>1, <1>5, <2>1
  <2>2. CASE i # 1
    <3> DEFINE k == i - 1
               m == PagesFor(r + n)
    <3>1. k \in Nat /\ k >= 1 /\ k < m /\ m \in Nat
      BY <1>2, <1>5, <2>2
    <3>2. k * Page \in Nat /\ k * Page + Page <= m * Page
      BY <3>1, ProductNat, ProductLess
    <3>3. Page <= k * Page
      <4>1. \A a \in Nat : a >= 1 => Page <= a * Page
        BY PageNat, SMTT(30)
      <4> HIDE DEF k
      <4> QED
        BY <3>1, <4>1
    <3>4. start = q * Page + k * Page
      <4>1. \A a, c \in Nat : (a + c) * Page = a * Page + c * Page
        BY PageNat, SMTT(30)
      <4>2. start = (q + k) * Page
        BY <1>1, <1>5, <2>2
      <4> HIDE DEF start, k, q
      <4> QED
        BY <1>1, <3>1, <4>1, <4>2
    <3> DEFINE x == q * Page
               y == k * Page
               z == m * Page
    <3>5. /\ x \in Nat /\ y \in Nat /\ z \in Nat /\ off = x + r /\ start = x + y
          /\ y + Page <= z /\ Page <= y /\ z < (r + n) + Page
      BY <1>1, <1>2, <3>2, <3>3, <3>4
    <3> HIDE DEF x, y, z, start, r
    <3> QED
      BY <1>1, <3>5, PageNat
  <2> QED
    BY <2>1, <2>2
<1> HIDE DEF start
<1>7. (start % Page) + Lesser(n, dynmem_surplus(start)) <= Page
  <2>1. start % Page \in 0 .. Page - 1
    BY <1>6, DivMod
  <2> QED
    BY <2>1, PageNat DEF Lesser, dynmem_surplus
<1> QED
  BY <1>4, <1>6, <1>7

\* write_http_resp fills every entry that it gives to uv_write, and at most one
\* more, the terminator: never one behind the array it allocated.
THEOREM ArrayFits ==
    ASSUME NEW start \in Nat, NEW head \in Nat, NEW pos \in Nat, NEW body \in Nat,
           start % Page = 0
    PROVE  LET s == fill_uv_buf_ts(start, head) \o fill_uv_buf_ts(pos, body)
           IN  Len(s) \in {bufs_size(head, body), bufs_size(head, body) + 1}
<1> DEFINE a == fill_uv_buf_ts(start, head)
           b == fill_uv_buf_ts(pos, body)
<1>1. a \in Seq(Entry) /\ Len(a) = PagesFor(head)
  BY EntriesCount
<1>2. b \in Seq(Entry) /\ Len(b) \in {PagesFor(body), PagesFor(body) + 1}
  BY EntriesCount
<1>3. PagesFor(head) \in Nat /\ PagesFor(body) \in Nat
  BY Rounding
<1> HIDE DEF a, b
<1>4. Len(a \o b) = Len(a) + Len(b)
  BY <1>1, <1>2
<1>5. Len(a \o b) \in {PagesFor(head) + PagesFor(body), PagesFor(head) + PagesFor(body) + 1}
  BY <1>1, <1>2, <1>3, <1>4
<1> QED
  BY <1>5 DEF a, b, bufs_size

(***************************************************************************)
(* The invariant that the properties of a reply rest on.                   *)
(***************************************************************************)
\* The pieces of text that a byte of a reply belongs to.
Pieces == {"status", "keep-alive", "content-type", "colon", "crlf",
           "type", "field", "value", "body", "gap"}

Byte == [of : Pieces, arg : Nat, at : Nat]
HeaderRange == [field : Value, value : Value]

ResSet == [keep_alive : BOOLEAN, content_type : Value, headers : Seq(HeaderRange),
           body : Value, parts : Nat, body_type : {"memory", "callback"}, content_length : Nat]
ReplySet == [keep : BOOLEAN, type : Seq(Byte), headers : Seq(Seq(Byte) \X Seq(Byte)),
             body : Seq(Byte), length : Nat \cup {-1}]
OutSet == [start : Nat, head : Nat, size : Nat, bufs : Seq(Entry)]

\* The range v of d holds the piece, byte for byte.
Holds(d, v, piece) ==
    /\ v.len = Len(piece) /\ v.pos + v.len <= Len(d)
    /\ \A k \in 1 .. v.len : d[v.pos + k] = piece[k]

\* Everything the callback put into the reply is where its range says.
Placed ==
    /\ res.keep_alive = reply.keep
    /\ IF res.body_type = "callback" THEN reply.length = res.content_length
       ELSE reply.length = -1
    /\ Holds(data, res.content_type, reply.type)
    /\ Len(res.headers) = Len(reply.headers)
    /\ \A i \in 1 .. Len(res.headers) :
           /\ Holds(data, res.headers[i].field, reply.headers[i][1])
           /\ Holds(data, res.headers[i].value, reply.headers[i][2])
    /\ Holds(data, res.body, reply.body)

\* A body that is appended to ends the buffer; before it begins there is none.
BodyAtEnd ==
    /\ phase = "body" => res.body.pos + res.body.len = Len(data)
    /\ phase = "header" => res.body.len = 0

\* A composed header starts a page, ends the buffer, and is what was asked for;
\* the array describes it and the body.
Composed ==
    phase = "writing" =>
        /\ out.start % Page = 0 /\ out.start + out.head = Len(data)
        /\ Holds(data, [pos |-> out.start, len |-> out.head], WireHeader)
        /\ out.size = bufs_size(out.head, res.body.len)
        /\ out.bufs = fill_uv_buf_ts(out.start, out.head)
                          \o fill_uv_buf_ts(res.body.pos, res.body.len)

ReplyTypes ==
    /\ data \in Seq(Byte) /\ res \in ResSet /\ reply \in ReplySet /\ out \in OutSet
    /\ phase \in {"header", "body", "done", "writing"}

ReplyInv == ReplyTypes /\ Placed /\ BodyAtEnd /\ Composed

-----------------------------------------------------------------------------
(***************************************************************************)
(* Pieces of text and the ranges that hold them.                           *)
(***************************************************************************)

\* A piece of n bytes is a sequence of n bytes.
LEMMA NumberedType ==
    ASSUME NEW p \in Pieces, NEW a \in Nat, NEW n \in Nat
    PROVE  Numbered(p, a, n) \in Seq(Byte) /\ Len(Numbered(p, a, n)) = n
<1>1. \A k \in 1 .. n : [of |-> p, arg |-> a, at |-> k] \in Byte
  BY DEF Byte
<1> QED
  BY <1>1 DEF Numbered

LEMMA BytesType ==
    ASSUME NEW p \in Pieces, NEW n \in Nat
    PROVE  PieceOf(p, n) \in Seq(Byte) /\ Len(PieceOf(p, n)) = n
<1>1. PieceOf(p, n) = Numbered(p, 0, n)
  BY DEF PieceOf, Numbered
<1> QED
  BY <1>1, NumberedType

\* The literals of the header are one byte each.
LEMMA LiteralType == \A p \in Pieces : PieceOf(p, 1) \in Seq(Byte)
  BY BytesType

\* A range holds its piece still when the buffer grows.
LEMMA HoldsLater ==
    ASSUME NEW d \in Seq(Byte), NEW e \in Seq(Byte), NEW v \in Value, NEW piece,
           Holds(d, v, piece)
    PROVE  Holds(d \o e, v, piece)
<1>1. v.pos \in Nat /\ v.len \in Nat /\ Len(d \o e) = Len(d) + Len(e)
  BY DEF Value
<1>2. ASSUME NEW k \in 1 .. v.len PROVE (d \o e)[v.pos + k] = d[v.pos + k]
  BY <1>1 DEF Holds
<1> QED
  BY <1>1, <1>2 DEF Holds

\* What is appended is held by the range that starts where the buffer ended.
LEMMA HoldsEnd ==
    ASSUME NEW d \in Seq(Byte), NEW e \in Seq(Byte), NEW v \in Value,
           v.pos = Len(d), v.len = Len(e)
    PROVE  Holds(d \o e, v, e)
<1>1. d \o e \in Seq(Byte) /\ Len(d \o e) = Len(d) + Len(e)
  OBVIOUS
<1>2. \A k \in 1 .. Len(e) : (d \o e)[Len(d) + k] = e[k]
  OBVIOUS
<1> QED
  BY <1>1, <1>2 DEF Holds

\* It does not matter in how many steps text is appended.
LEMMA Associative ==
    ASSUME NEW a \in Seq(Byte), NEW b \in Seq(Byte), NEW c \in Seq(Byte)
    PROVE  (a \o b) \o c = a \o (b \o c)
  OBVIOUS

\* mem_array_copyfrom copies the piece that its range holds.
LEMMA HoldsContent ==
    ASSUME NEW d \in Seq(Byte), NEW v \in Value, NEW piece \in Seq(Byte),
           Holds(d, v, piece)
    PROVE  Content(d, v) = piece
<1> DEFINE n == Len(piece)
           c == [k \in 1 .. n |-> IF v.pos + k <= Len(d) THEN d[v.pos + k] ELSE Junk]
<1>1. v.pos \in Nat /\ v.len = n /\ v.pos + n <= Len(d) /\ n \in Nat
  BY DEF Value, Holds
<1>2. Content(d, v) = c
  BY <1>1 DEF Content
<1>3. ASSUME NEW k \in 1 .. n PROVE c[k] = piece[k]
  <2>1. v.pos + k <= Len(d) /\ d[v.pos + k] = piece[k]
    BY <1>1 DEF Holds
  <2> QED
    BY <2>1
<1>4. piece = [k \in 1 .. n |-> piece[k]]
  OBVIOUS
<1>5. c = [k \in 1 .. n |-> piece[k]]
  BY <1>3
<1> QED
  BY <1>2, <1>4, <1>5

(***************************************************************************)
(* write_http_header composes what was asked for.                          *)
(***************************************************************************)

\* FlattenSeq joins sequences to a sequence.
LEMMA FlattenType ==
    ASSUME NEW T, NEW s \in Seq(Seq(T))
    PROVE  FlattenSeq(s) \in Seq(T)
<1>1. PICK F \in [0 .. Len(s) -> Seq(T)] : F[Len(s)] = FlattenSeq(s)
  BY FlattenSteps
<1>2. Len(s) \in 0 .. Len(s)
  OBVIOUS
<1> QED
  BY <1>1, <1>2

\* The lines of the header fields that the callback asked for.
AskedLines == [i \in DOMAIN reply.headers |->
                  reply.headers[i][1] \o PieceOf("colon", 1)
                      \o reply.headers[i][2] \o PieceOf("crlf", 1)]

LEMMA AskedLinesType ==
    ASSUME reply \in ReplySet
    PROVE  AskedLines \in Seq(Seq(Byte))
<1> DEFINE h == reply.headers
           n == Len(h)
           line(i) == h[i][1] \o PieceOf("colon", 1) \o h[i][2] \o PieceOf("crlf", 1)
           lines == [i \in 1 .. n |-> line(i)]
<1>1. h \in Seq(Seq(Byte) \X Seq(Byte)) /\ n \in Nat /\ DOMAIN h = 1 .. n
  BY DEF ReplySet
<1>2. PieceOf("colon", 1) \in Seq(Byte) /\ PieceOf("crlf", 1) \in Seq(Byte)
  BY LiteralType DEF Pieces
<1>3. ASSUME NEW i \in 1 .. n PROVE line(i) \in Seq(Byte)
  <2>1. h[i][1] \in Seq(Byte) /\ h[i][2] \in Seq(Byte)
    BY <1>1
  <2> QED
    BY <1>2, <2>1
<1>4. AskedLines = lines
  BY <1>1 DEF AskedLines
<1> HIDE DEF line
<1>5. lines \in Seq(Seq(Byte))
  BY <1>1, <1>3
<1> QED
  BY <1>4, <1>5

LEMMA WireHeaderType ==
    ASSUME reply \in ReplySet
    PROVE  WireHeader \in Seq(Byte) /\ Len(WireHeader) > 0
<1> DEFINE number == IF reply.length = -1 THEN Len(reply.body) ELSE reply.length
           status == Status(number)
           keep == IF reply.keep THEN PieceOf("keep-alive", 1) ELSE <<>>
           type == IF reply.type = <<>> THEN <<>>
                   ELSE PieceOf("content-type", 1) \o reply.type \o PieceOf("crlf", 1)
           lines == FlattenSeq(AskedLines)
           end == PieceOf("crlf", 1)
<1>1. status \in Seq(Byte) /\ Len(status) = StatusLen
  <2>1. number \in Nat /\ StatusLen \in Nat
    BY RespAssumption DEF ReplySet
  <2>2. "status" \in Pieces
    BY DEF Pieces
  <2> HIDE DEF number
  <2> QED
    BY <2>1, <2>2, NumberedType, Zenon DEF Status
<1>2. keep \in Seq(Byte)
  <2>1. PieceOf("keep-alive", 1) \in Seq(Byte)
    BY LiteralType DEF Pieces
  <2> QED
    BY <2>1
<1>3. type \in Seq(Byte)
  <2>1. PieceOf("content-type", 1) \in Seq(Byte) /\ PieceOf("crlf", 1) \in Seq(Byte)
    BY LiteralType DEF Pieces
  <2>2. reply.type \in Seq(Byte)
    BY DEF ReplySet
  <2> QED
    BY <2>1, <2>2
<1>4. lines \in Seq(Byte)
  BY AskedLinesType, FlattenType
<1>5. end \in Seq(Byte)
  BY LiteralType DEF Pieces
<1>6. WireHeader = status \o keep \o type \o lines \o end
  BY DEF WireHeader, AskedLines
<1>7. StatusLen > 0
  BY RespAssumption
<1> HIDE DEF status, keep, type, lines, end
<1> QED
  BY <1>1, <1>2, <1>3, <1>4, <1>5, <1>6, <1>7

\* The text that write_http_header appends is the header that was asked for,
\* whatever lies behind the pieces in the buffer.
LEMMA HeaderAsAsked ==
    ASSUME ReplyTypes, Placed, NEW gap \in Seq(Byte)
    PROVE  write_http_header(data \o gap) = WireHeader
<1> DEFINE d == data \o gap
<1>1. data \in Seq(Byte) /\ d \in Seq(Byte)
  BY DEF ReplyTypes
<1>2. /\ body_len = IF reply.length = -1 THEN Len(reply.body) ELSE reply.length
      /\ res.keep_alive = reply.keep
  BY DEF Placed, Holds, body_len, ReplyTypes, ResSet
<1>3. res.content_type.len = 0 <=> reply.type = <<>>
  <2>1. reply.type \in Seq(Byte) /\ res.content_type.len = Len(reply.type)
    BY DEF ReplyTypes, ReplySet, Placed, Holds
  <2> QED
    BY <2>1
<1>4. Content(d, res.content_type) = reply.type
  <2>1. reply.type \in Seq(Byte) /\ res.content_type \in Value
    BY DEF ReplyTypes, ReplySet, ResSet
  <2>2. Holds(d, res.content_type, reply.type)
    BY <1>1, <2>1, HoldsLater DEF Placed
  <2> HIDE DEF d
  <2> QED
    BY <1>1, <2>1, <2>2, HoldsContent
<1>5. DOMAIN res.headers = 1 .. Len(res.headers) /\ DOMAIN reply.headers = 1 .. Len(res.headers)
  BY DEF Placed, ReplyTypes, ResSet, ReplySet
<1>6. ASSUME NEW i \in 1 .. Len(res.headers)
      PROVE  HeaderLine(d, res.headers[i]) =
                 reply.headers[i][1] \o PieceOf("colon", 1) \o reply.headers[i][2] \o PieceOf("crlf", 1)
  <2> DEFINE h == res.headers[i]
             a == reply.headers[i]
  <2>1. h.field \in Value /\ h.value \in Value
    <3>1. res.headers \in Seq(HeaderRange)
      BY DEF ReplyTypes, ResSet
    <3>2. h \in HeaderRange
      BY <3>1
    <3> QED
      BY <3>2 DEF HeaderRange
  <2>2. a[1] \in Seq(Byte) /\ a[2] \in Seq(Byte)
    <3>1. reply.headers \in Seq(Seq(Byte) \X Seq(Byte)) /\ i \in 1 .. Len(reply.headers)
      BY DEF ReplyTypes, ReplySet, Placed
    <3> QED
      BY <3>1
  <2>3. Holds(data, h.field, a[1]) /\ Holds(data, h.value, a[2])
    BY DEF Placed
  <2> HIDE DEF h, a
  <2>4. Holds(d, h.field, a[1]) /\ Holds(d, h.value, a[2])
    BY <1>1, <2>1, <2>3, HoldsLater
  <2> HIDE DEF d
  <2>5. Content(d, h.field) = a[1] /\ Content(d, h.value) = a[2]
    BY <1>1, <2>1, <2>2, <2>4, HoldsContent
  <2>6. HeaderLine(d, h) = a[1] \o PieceOf("colon", 1) \o a[2] \o PieceOf("crlf", 1)
    BY <2>5 DEF HeaderLine
  <2> QED
    BY <2>6 DEF h, a
<1> HIDE DEF d
<1>7. [i \in DOMAIN res.headers |-> HeaderLine(d, res.headers[i])] = AskedLines
  BY <1>5, <1>6 DEF AskedLines
<1>8. write_http_header(d) = WireHeader
  BY <1>2, <1>3, <1>4, <1>7 DEF write_http_header, WireHeader, AskedLines
<1> QED
  BY <1>8 DEF d

-----------------------------------------------------------------------------
(***************************************************************************)
(* The invariant is inductive: a lemma for each operation.                 *)
(***************************************************************************)

\* What is behind the pieces does not disturb them.
LEMMA PlacedLater ==
    ASSUME ReplyTypes, Placed, NEW e \in Seq(Byte)
    PROVE  /\ data \o e \in Seq(Byte) /\ Len(data \o e) = Len(data) + Len(e)
           /\ Holds(data \o e, res.content_type, reply.type)
           /\ \A i \in 1 .. Len(res.headers) :
                  /\ Holds(data \o e, res.headers[i].field, reply.headers[i][1])
                  /\ Holds(data \o e, res.headers[i].value, reply.headers[i][2])
           /\ Holds(data \o e, res.body, reply.body)
<1>1. data \in Seq(Byte) /\ res.content_type \in Value /\ res.body \in Value
      /\ res.headers \in Seq(HeaderRange)
  BY DEF ReplyTypes, ResSet
<1>2. ASSUME NEW i \in 1 .. Len(res.headers)
      PROVE  /\ Holds(data \o e, res.headers[i].field, reply.headers[i][1])
             /\ Holds(data \o e, res.headers[i].value, reply.headers[i][2])
  <2>1. res.headers[i] \in HeaderRange
    BY <1>1
  <2>2. res.headers[i].field \in Value /\ res.headers[i].value \in Value
    BY <2>1 DEF HeaderRange
  <2>3. /\ Holds(data, res.headers[i].field, reply.headers[i][1])
        /\ Holds(data, res.headers[i].value, reply.headers[i][2])
    BY DEF Placed
  <2> QED
    BY <1>1, <2>2, <2>3, HoldsLater
<1>3. data \o e \in Seq(Byte) /\ Len(data \o e) = Len(data) + Len(e)
  BY <1>1
<1>4. Holds(data \o e, res.content_type, reply.type) /\ Holds(data \o e, res.body, reply.body)
  BY <1>1, HoldsLater DEF Placed
<1> QED
  BY <1>2, <1>3, <1>4

LEMMA InitReply ==
    ASSUME Init
    PROVE  ReplyInv
<1>1. ReplyTypes
  <2>1. /\ <<>> \in Seq(Byte) /\ <<>> \in Seq(HeaderRange)
        /\ <<>> \in Seq(Seq(Byte) \X Seq(Byte)) /\ <<>> \in Seq(Entry)
    OBVIOUS
  <2>2. NoValue \in Value
    BY DEF NoValue, Value
  <2>3. EmptyRes \in ResSet
    BY <2>1, <2>2 DEF EmptyRes, ResSet
  <2>4. NoReply \in ReplySet
    BY <2>1 DEF NoReply, ReplySet
  <2>5. NoOut \in OutSet
    BY <2>1 DEF NoOut, OutSet
  <2> QED
    BY <2>1, <2>3, <2>4, <2>5 DEF Init, ReplyTypes
<1>2. Placed
  BY DEF Init, Placed, Holds, EmptyRes, NoReply, NoValue
<1>3. BodyAtEnd /\ Composed
  BY DEF Init, BodyAtEnd, Composed, EmptyRes, NoValue
<1> QED
  BY <1>1, <1>2, <1>3 DEF ReplyInv

LEMMA KeepAlive ==
    ASSUME ReplyInv, keep_alive_set
    PROVE  ReplyInv'
<1> USE DEF ReplyInv
<1>1. /\ res' = [res EXCEPT !.keep_alive = TRUE] /\ reply' = [reply EXCEPT !.keep = TRUE]
      /\ data' = data /\ out' = out /\ phase' = phase /\ phase = "header"
  BY DEF keep_alive_set
<1>2. res \in ResSet /\ reply \in ReplySet
  BY DEF ReplyTypes
<1>3. /\ res' = [keep_alive |-> TRUE, content_type |-> res.content_type,
                 headers |-> res.headers, body |-> res.body, parts |-> res.parts,
                 body_type |-> res.body_type, content_length |-> res.content_length]
      /\ reply' = [keep |-> TRUE, type |-> reply.type, headers |-> reply.headers,
                   body |-> reply.body, length |-> reply.length]
  BY <1>1, <1>2 DEF ResSet, ReplySet
<1>4. res' \in ResSet /\ reply' \in ReplySet
  BY <1>2, <1>3 DEF ResSet, ReplySet
<1>5. ReplyTypes'
  BY <1>1, <1>4 DEF ReplyTypes
<1>6. Placed'
  BY <1>1, <1>3 DEF Placed
<1>7. BodyAtEnd' /\ Composed'
  BY <1>1, <1>3 DEF BodyAtEnd, Composed
<1> QED
  BY <1>5, <1>6, <1>7

LEMMA BodyTypeSet ==
    ASSUME ReplyInv, NEW n \in BodyLens, body_type_set(n)
    PROVE  ReplyInv'
<1> USE DEF ReplyInv
<1>1. /\ res' = [res EXCEPT !.body_type = "callback", !.content_length = n]
      /\ reply' = [reply EXCEPT !.length = n]
      /\ data' = data /\ out' = out /\ phase' = phase /\ phase = "header"
  BY DEF body_type_set
<1>2. res \in ResSet /\ reply \in ReplySet /\ n \in Nat
  BY RespAssumption DEF ReplyTypes
<1>3. /\ res' = [keep_alive |-> res.keep_alive, content_type |-> res.content_type,
                 headers |-> res.headers, body |-> res.body, parts |-> res.parts,
                 body_type |-> "callback", content_length |-> n]
      /\ reply' = [keep |-> reply.keep, type |-> reply.type, headers |-> reply.headers,
                   body |-> reply.body, length |-> n]
  BY <1>1, <1>2 DEF ResSet, ReplySet
<1>4. res' \in ResSet /\ reply' \in ReplySet
  BY <1>2, <1>3 DEF ResSet, ReplySet
<1>5. ReplyTypes'
  BY <1>1, <1>4 DEF ReplyTypes
<1>6. Placed'
  BY <1>1, <1>3 DEF Placed
<1>7. BodyAtEnd' /\ Composed'
  BY <1>1, <1>3 DEF BodyAtEnd, Composed
<1> QED
  BY <1>5, <1>6, <1>7

LEMMA SetContentType ==
    ASSUME ReplyInv, NEW n \in TextLens, httpctx_set_content_type(n)
    PROVE  ReplyInv'
<1> DEFINE e == PieceOf("type", n)
           v == [pos |-> Len(data), len |-> n]
<1> USE DEF ReplyInv
<1>1. /\ data' = data \o e /\ res' = [res EXCEPT !.content_type = v]
      /\ reply' = [reply EXCEPT !.type = e]
      /\ out' = out /\ phase' = phase /\ phase = "header"
  BY DEF httpctx_set_content_type
<1>2. res \in ResSet /\ reply \in ReplySet /\ data \in Seq(Byte) /\ n \in Nat
  BY RespAssumption DEF ReplyTypes
<1>3. e \in Seq(Byte) /\ Len(e) = n
  BY <1>2, BytesType DEF Pieces
<1> HIDE DEF e
<1>4. v \in Value
  BY <1>2 DEF Value
<1>5. Holds(data \o e, v, e)
  <2>1. v.pos = Len(data) /\ v.len = Len(e)
    BY <1>3
  <2> HIDE DEF v
  <2> QED
    BY <1>2, <1>3, <1>4, <2>1, HoldsEnd
<1> HIDE DEF v
<1>6. /\ res' = [keep_alive |-> res.keep_alive, content_type |-> v,
                 headers |-> res.headers, body |-> res.body, parts |-> res.parts,
                 body_type |-> res.body_type, content_length |-> res.content_length]
      /\ reply' = [keep |-> reply.keep, type |-> e, headers |-> reply.headers,
                   body |-> reply.body, length |-> reply.length]
  BY <1>1, <1>2 DEF ResSet, ReplySet
<1>7. res' \in ResSet /\ reply' \in ReplySet
  BY <1>2, <1>3, <1>4, <1>6 DEF ResSet, ReplySet
<1>8. ReplyTypes'
  BY <1>1, <1>2, <1>3, <1>7, PlacedLater DEF ReplyTypes
<1>9. Placed'
  <2>1. /\ \A i \in 1 .. Len(res.headers) :
               /\ Holds(data', res.headers[i].field, reply.headers[i][1])
               /\ Holds(data', res.headers[i].value, reply.headers[i][2])
        /\ Holds(data', res.body, reply.body)
    BY <1>1, <1>3, PlacedLater
  <2> QED
    BY <1>1, <1>5, <1>6, <2>1 DEF Placed
<1>10. BodyAtEnd' /\ Composed'
  BY <1>1, <1>6 DEF BodyAtEnd, Composed
<1> QED
  BY <1>8, <1>9, <1>10

LEMMA AddHeader ==
    ASSUME ReplyInv, NEW f \in TextLens \ {0}, NEW n \in TextLens, httpctx_add_header(f, n)
    PROVE  ReplyInv'
<1> DEFINE m == Len(res.headers)
           field == Numbered("field", m + 1, f)
           value == Numbered("value", m + 1, n)
           fr == [pos |-> Len(data), len |-> f]
           vr == [pos |-> Len(data) + f, len |-> n]
           range == [field |-> fr, value |-> vr]
<1> USE DEF ReplyInv
<1>1. /\ data' = data \o field \o value
      /\ res' = [res EXCEPT !.headers = Append(@, range)]
      /\ reply' = [reply EXCEPT !.headers = Append(@, <<field, value>>)]
      /\ out' = out /\ phase' = phase /\ phase = "header"
  BY DEF httpctx_add_header
<1>2. res \in ResSet /\ reply \in ReplySet /\ data \in Seq(Byte) /\ f \in Nat /\ n \in Nat
  BY RespAssumption DEF ReplyTypes
<1>3. /\ res.headers \in Seq(HeaderRange) /\ reply.headers \in Seq(Seq(Byte) \X Seq(Byte))
      /\ m \in Nat /\ Len(reply.headers) = m
  BY <1>2 DEF ResSet, ReplySet, Placed
<1>4. /\ field \in Seq(Byte) /\ Len(field) = f
      /\ value \in Seq(Byte) /\ Len(value) = n
  <2>1. "field" \in Pieces /\ "value" \in Pieces /\ m + 1 \in Nat
    BY <1>3 DEF Pieces
  <2> HIDE DEF m
  <2> QED
    BY <1>2, <2>1, NumberedType
<1>5. fr \in Value /\ vr \in Value
  BY <1>2 DEF Value
<1>6. range \in HeaderRange /\ range.field = fr /\ range.value = vr
  BY <1>5 DEF HeaderRange
<1>7. fr.pos = Len(data) /\ fr.len = f /\ vr.pos = Len(data) + f /\ vr.len = n
  OBVIOUS
<1> HIDE DEF m, field, value, fr, vr, range
<1>8. /\ res' = [keep_alive |-> res.keep_alive, content_type |-> res.content_type,
                 headers |-> Append(res.headers, range), body |-> res.body,
                 parts |-> res.parts,
                 body_type |-> res.body_type, content_length |-> res.content_length]
      /\ reply' = [keep |-> reply.keep, type |-> reply.type,
                   headers |-> Append(reply.headers, <<field, value>>), body |-> reply.body,
                   length |-> reply.length]
  BY <1>1, <1>2 DEF ResSet, ReplySet
<1>9. res' \in ResSet /\ reply' \in ReplySet
  <2>1. Append(res.headers, range) \in Seq(HeaderRange)
    BY <1>3, <1>6
  <2>2. <<field, value>> \in Seq(Byte) \X Seq(Byte)
    BY <1>4
  <2>3. Append(reply.headers, <<field, value>>) \in Seq(Seq(Byte) \X Seq(Byte))
    BY <1>3, <2>2
  <2>4. res' \in ResSet
    BY <1>2, <1>8, <2>1 DEF ResSet
  <2>5. reply' \in ReplySet
    BY <1>2, <1>8, <2>3 DEF ReplySet
  <2> QED
    BY <2>4, <2>5
<1>10. /\ field \o value \in Seq(Byte) /\ data' = data \o (field \o value)
       /\ data \o field \in Seq(Byte) /\ Len(data \o field) = Len(data) + f
       /\ data' = (data \o field) \o value
  <2>1. /\ field \o value \in Seq(Byte) /\ data \o field \in Seq(Byte)
        /\ Len(data \o field) = Len(data) + f
    BY <1>2, <1>4
  <2>2. data' = (data \o field) \o value
    BY <1>1
  <2>3. (data \o field) \o value = data \o (field \o value)
    BY <1>2, <1>4, Associative
  <2> QED
    BY <2>1, <2>2, <2>3
<1>11. ReplyTypes'
  BY <1>1, <1>2, <1>9, <1>10, PlacedLater DEF ReplyTypes
<1>12. /\ Holds(data', res.content_type, reply.type)
       /\ \A i \in 1 .. Len(res.headers) :
               /\ Holds(data', res.headers[i].field, reply.headers[i][1])
               /\ Holds(data', res.headers[i].value, reply.headers[i][2])
       /\ Holds(data', res.body, reply.body)
  BY <1>10, PlacedLater
<1>13. Holds(data', fr, field) /\ Holds(data', vr, value)
  <2>1. Holds(data \o field, fr, field)
    BY <1>2, <1>4, <1>5, <1>7, HoldsEnd
  <2>2. Holds((data \o field) \o value, fr, field)
    BY <1>4, <1>5, <1>10, <2>1, HoldsLater
  <2>3. Holds((data \o field) \o value, vr, value)
    BY <1>4, <1>5, <1>7, <1>10, HoldsEnd
  <2> QED
    BY <1>10, <2>2, <2>3
<1>14. Placed'
  <2>1. /\ res'.headers = Append(res.headers, range) /\ Len(res'.headers) = m + 1
        /\ reply'.headers = Append(reply.headers, <<field, value>>)
        /\ Len(reply'.headers) = m + 1
    BY <1>3, <1>8 DEF m
  <2>2. ASSUME NEW i \in 1 .. m + 1
        PROVE  /\ Holds(data', res'.headers[i].field, reply'.headers[i][1])
               /\ Holds(data', res'.headers[i].value, reply'.headers[i][2])
    <3>1. CASE i = m + 1
      <4>1. res'.headers[i] = range /\ reply'.headers[i] = <<field, value>>
        BY <1>3, <2>1, <3>1 DEF m
      <4>2. reply'.headers[i][1] = field /\ reply'.headers[i][2] = value
        BY <4>1
      <4> QED
        BY <1>6, <1>13, <4>1, <4>2
    <3>2. CASE i # m + 1
      <4>1. i \in 1 .. Len(res.headers)
        BY <1>3, <3>2 DEF m
      <4>2. res'.headers[i] = res.headers[i] /\ reply'.headers[i] = reply.headers[i]
        BY <1>3, <2>1, <4>1 DEF m
      <4> QED
        BY <1>12, <4>1, <4>2
    <3> QED
      BY <3>1, <3>2
  <2>3. /\ res'.keep_alive = reply'.keep /\ res'.content_type = res.content_type
        /\ reply'.type = reply.type /\ res'.body = res.body /\ reply'.body = reply.body
        /\ res'.body_type = res.body_type /\ res'.content_length = res.content_length
        /\ reply'.length = reply.length
    BY <1>8 DEF Placed
  <2> QED
    BY <1>12, <2>1, <2>2, <2>3 DEF Placed
<1>15. BodyAtEnd' /\ Composed'
  BY <1>1, <1>8 DEF BodyAtEnd, Composed
<1> QED
  BY <1>11, <1>14, <1>15

LEMMA SetBody ==
    ASSUME ReplyInv, NEW n \in BodyLens, httpctx_set_body(n)
    PROVE  ReplyInv'
<1> DEFINE e == Numbered("body", 0, n)
           v == [pos |-> Len(data), len |-> n]
<1> USE DEF ReplyInv
<1>1. /\ data' = data \o e /\ res' = [res EXCEPT !.body = v]
      /\ reply' = [reply EXCEPT !.body = e] /\ out' = out /\ phase' = "done"
  BY DEF httpctx_set_body
<1>2. res \in ResSet /\ reply \in ReplySet /\ data \in Seq(Byte) /\ n \in Nat
  BY RespAssumption DEF ReplyTypes
<1>3. e \in Seq(Byte) /\ Len(e) = n
  BY <1>2, NumberedType DEF Pieces
<1> HIDE DEF e
<1>4. v \in Value /\ v.pos = Len(data) /\ v.len = Len(e)
  BY <1>2, <1>3 DEF Value
<1> HIDE DEF v
<1>5. Holds(data \o e, v, e)
  BY <1>2, <1>3, <1>4, HoldsEnd
<1>6. /\ res' = [keep_alive |-> res.keep_alive, content_type |-> res.content_type,
                 headers |-> res.headers, body |-> v, parts |-> res.parts,
                 body_type |-> res.body_type, content_length |-> res.content_length]
      /\ reply' = [keep |-> reply.keep, type |-> reply.type, headers |-> reply.headers,
                   body |-> e, length |-> reply.length]
  BY <1>1, <1>2 DEF ResSet, ReplySet
<1>7. res' \in ResSet /\ reply' \in ReplySet
  BY <1>2, <1>3, <1>4, <1>6 DEF ResSet, ReplySet
<1>8. ReplyTypes'
  BY <1>1, <1>2, <1>3, <1>7, PlacedLater DEF ReplyTypes
<1>9. Placed'
  <2>1. /\ \A i \in 1 .. Len(res.headers) :
               /\ Holds(data', res.headers[i].field, reply.headers[i][1])
               /\ Holds(data', res.headers[i].value, reply.headers[i][2])
        /\ Holds(data', res.content_type, reply.type)
    BY <1>1, <1>3, PlacedLater
  <2> QED
    BY <1>1, <1>5, <1>6, <2>1 DEF Placed
<1>10. BodyAtEnd' /\ Composed'
  BY <1>1 DEF BodyAtEnd, Composed
<1> QED
  BY <1>8, <1>9, <1>10

LEMMA BodyBegin ==
    ASSUME ReplyInv, httpctx_body_begin
    PROVE  ReplyInv'
<1> DEFINE v == [pos |-> Len(data), len |-> 0]
<1> USE DEF ReplyInv
<1>1. /\ res' = [res EXCEPT !.body.pos = Len(data)] /\ phase = "header"
      /\ data' = data /\ reply' = reply /\ out' = out /\ phase' = "body"
  BY DEF httpctx_body_begin
<1>2. /\ res \in ResSet /\ res.body \in Value /\ data \in Seq(Byte) /\ reply \in ReplySet
      /\ reply.body \in Seq(Byte)
  BY DEF ReplyTypes, ResSet, ReplySet
<1>3. res.body.len = 0 /\ Len(reply.body) = 0
  BY <1>1 DEF BodyAtEnd, Placed, Holds
<1>4. v \in Value /\ v.pos = Len(data) /\ v.len = 0
  BY <1>2 DEF Value
<1>5. res' = [keep_alive |-> res.keep_alive, content_type |-> res.content_type,
              headers |-> res.headers, body |-> v, parts |-> res.parts,
                 body_type |-> res.body_type, content_length |-> res.content_length]
  <2>1. [res.body EXCEPT !.pos = Len(data)] = v
    BY <1>2, <1>3 DEF Value
  <2> HIDE DEF v
  <2>2. res' = [res EXCEPT !.body = v]
    BY <1>1, <1>2, <2>1 DEF ResSet
  <2> QED
    BY <1>2, <2>2 DEF ResSet
<1> HIDE DEF v
<1>6. ReplyTypes'
  <2>1. res' \in ResSet
    BY <1>2, <1>4, <1>5 DEF ResSet
  <2> QED
    BY <1>1, <2>1 DEF ReplyTypes
<1>7. Placed'
  <2>1. Holds(data, v, reply.body)
    BY <1>2, <1>3, <1>4 DEF Holds
  <2> QED
    BY <1>1, <1>5, <2>1 DEF Placed
<1>8. BodyAtEnd' /\ Composed'
  BY <1>1, <1>2, <1>4, <1>5 DEF BodyAtEnd, Composed
<1> QED
  BY <1>6, <1>7, <1>8

\* What is appended lies behind what there was.
LEMMA BytesBehind ==
    ASSUME NEW x \in Seq(Byte), NEW y \in Seq(Byte)
    PROVE  \A k \in 1 .. Len(y) : (x \o y)[Len(x) + k] = y[k]
<1> SUFFICES ASSUME NEW k \in 1 .. Len(y) PROVE (x \o y)[Len(x) + k] = y[k]
  OBVIOUS
<1>1. Len(x) \in Nat /\ Len(y) \in Nat /\ Len(x) + k \in 1 .. Len(x) + Len(y)
  OBVIOUS
<1>2. ~(Len(x) + k <= Len(x)) /\ (Len(x) + k) - Len(x) = k
  BY <1>1
<1> QED
  BY <1>1, <1>2

\* A range that ends the buffer grows with what is appended to both.
LEMMA HoldsGrown ==
    ASSUME NEW d \in Seq(Byte), NEW e \in Seq(Byte), NEW b \in Seq(Byte),
           NEW p \in Nat, NEW m \in Nat, m = Len(b), p + m = Len(d),
           \A k \in 1 .. m : d[p + k] = b[k]
    PROVE  \A k \in 1 .. m + Len(e) : (d \o e)[p + k] = (b \o e)[k]
<1> SUFFICES ASSUME NEW k \in 1 .. m + Len(e) PROVE (d \o e)[p + k] = (b \o e)[k]
  OBVIOUS
<1>1. CASE k <= m
  <2>1. p + k \in 1 .. Len(d) /\ k \in 1 .. Len(b)
    BY <1>1
  <2>2. (d \o e)[p + k] = d[p + k]
    BY <2>1
  <2>3. (b \o e)[k] = b[k]
    BY <2>1
  <2> QED
    BY <2>1, <2>2, <2>3
<1>2. CASE ~(k <= m)
  <2>1. /\ k - m \in 1 .. Len(e) /\ p + k = Len(d) + (k - m) /\ k = Len(b) + (k - m)
    <3>1. Len(e) \in Nat /\ k \in 1 .. m + Len(e)
      OBVIOUS
    <3>2. \A u, w, z \in Nat : \A i \in 1 .. w + z :
              ~(i <= w) => i - w \in 1 .. z /\ u + i = (u + w) + (i - w) /\ i = w + (i - w)
      OBVIOUS
    <3>3. k - m \in 1 .. Len(e) /\ p + k = (p + m) + (k - m) /\ k = m + (k - m)
      BY <1>2, <3>1, <3>2
    <3> QED
      BY <3>3
  <2>2. \A j \in 1 .. Len(e) : (d \o e)[Len(d) + j] = e[j]
    BY BytesBehind
  <2>3. \A j \in 1 .. Len(e) : (b \o e)[Len(b) + j] = e[j]
    BY BytesBehind
  <2>4. (d \o e)[Len(d) + (k - m)] = e[k - m] /\ (b \o e)[Len(b) + (k - m)] = e[k - m]
    BY <2>1, <2>2, <2>3
  <2> QED
    BY <2>1, <2>4
<1> QED
  BY <1>1, <1>2

LEMMA BodyAppend ==
    ASSUME ReplyInv, NEW n \in BodyLens, httpctx_body_append(n)
    PROVE  ReplyInv'
<1> DEFINE e == Numbered("body", res.parts + 1, n)
           v == [pos |-> res.body.pos, len |-> res.body.len + n]
           b == reply.body \o e
<1> USE DEF ReplyInv
<1>1. data' = data \o e /\ out' = out /\ phase' = phase /\ phase = "body"
  BY DEF httpctx_body_append
<1>2. /\ res \in ResSet /\ res.body \in Value /\ res.parts \in Nat /\ data \in Seq(Byte)
      /\ reply \in ReplySet /\ reply.body \in Seq(Byte) /\ n \in Nat
  BY RespAssumption DEF ReplyTypes, ResSet, ReplySet
<1>3. e \in Seq(Byte) /\ Len(e) = n
  <2>1. res.parts + 1 \in Nat /\ "body" \in Pieces
    BY <1>2 DEF Pieces
  <2> QED
    BY <1>2, <2>1, NumberedType
<1> HIDE DEF e
<1>4. v \in Value /\ v.pos = res.body.pos /\ v.len = res.body.len + n
  BY <1>2 DEF Value
<1>5. /\ res' = [keep_alive |-> res.keep_alive, content_type |-> res.content_type,
                 headers |-> res.headers, body |-> v, parts |-> res.parts + 1,
                 body_type |-> res.body_type, content_length |-> res.content_length]
      /\ reply' = [keep |-> reply.keep, type |-> reply.type, headers |-> reply.headers,
                   body |-> b, length |-> reply.length]
  <2>1. [res.body EXCEPT !.len = @ + n] = v
    BY <1>2 DEF Value
  <2>2. /\ res' = [res EXCEPT !.body.len = @ + n, !.parts = @ + 1]
        /\ reply' = [reply EXCEPT !.body = b]
    BY DEF httpctx_body_append, e
  <2> HIDE DEF v, b
  <2>3. res' = [res EXCEPT !.body = v, !.parts = res.parts + 1]
    BY <1>2, <2>1, <2>2 DEF ResSet
  <2> QED
    BY <1>2, <2>2, <2>3 DEF ResSet, ReplySet
<1>6. b \in Seq(Byte) /\ Len(b) = Len(reply.body) + n
  BY <1>2, <1>3
<1>7. /\ res.body.pos \in Nat /\ res.body.len \in Nat /\ Len(reply.body) = res.body.len
      /\ res.body.pos + res.body.len = Len(data)
      /\ \A k \in 1 .. res.body.len : data[res.body.pos + k] = reply.body[k]
  BY <1>1, <1>2 DEF Value, Placed, Holds, BodyAtEnd
<1>8. \A k \in 1 .. res.body.len + n : (data \o e)[res.body.pos + k] = b[k]
  <2> DEFINE p == res.body.pos
             m == res.body.len
             f == reply.body
  <2>1. /\ p \in Nat /\ m \in Nat /\ m = Len(f) /\ p + m = Len(data) /\ f \in Seq(Byte)
        /\ \A k \in 1 .. m : data[p + k] = f[k]
    BY <1>2, <1>7
  <2> HIDE DEF p, m, f
  <2>2. \A k \in 1 .. m + Len(e) : (data \o e)[p + k] = (f \o e)[k]
    BY <1>2, <1>3, <2>1, HoldsGrown
  <2> QED
    BY <1>3, <2>2 DEF p, m, f
<1> HIDE DEF v, b
<1>9. Len(data \o e) = Len(data) + n
  BY <1>2, <1>3
<1>10. ReplyTypes'
  <2>1. res' \in ResSet
    BY <1>2, <1>4, <1>5 DEF ResSet
  <2>2. reply' \in ReplySet
    BY <1>2, <1>5, <1>6 DEF ReplySet
  <2>3. data' \in Seq(Byte)
    BY <1>1, <1>2, <1>3
  <2> QED
    BY <1>1, <2>1, <2>2, <2>3 DEF ReplyTypes
<1>11. Holds(data', v, b)
  <2>1. v.len = Len(b)
    BY <1>4, <1>6, <1>7
  <2>2. v.pos + v.len = Len(data \o e)
    <3>1. n \in Nat /\ res.body.pos \in Nat /\ res.body.len \in Nat
      BY <1>2, <1>7
    <3>2. \A x, y, z \in Nat : x + (y + z) = (x + y) + z
      OBVIOUS
    <3>3. v.pos + v.len = res.body.pos + (res.body.len + n)
      BY <1>4
    <3>4. Len(data \o e) = (res.body.pos + res.body.len) + n
      BY <1>7, <1>9
    <3> QED
      BY <3>1, <3>2, <3>3, <3>4
  <2>3. \A k \in 1 .. v.len : (data \o e)[v.pos + k] = b[k]
    BY <1>4, <1>8
  <2>4. v.pos + v.len <= Len(data \o e)
    <3>1. Len(data \o e) \in Nat
      BY <1>2, <1>3
    <3> QED
      BY <2>2, <3>1
  <2>5. data' = data \o e
    BY <1>1
  <2> QED
    BY <2>1, <2>3, <2>4, <2>5 DEF Holds
<1>12. Placed'
  <2>1. /\ \A i \in 1 .. Len(res.headers) :
               /\ Holds(data', res.headers[i].field, reply.headers[i][1])
               /\ Holds(data', res.headers[i].value, reply.headers[i][2])
        /\ Holds(data', res.content_type, reply.type)
    BY <1>1, <1>3, PlacedLater
  <2> QED
    BY <1>5, <1>11, <2>1 DEF Placed
<1>13. BodyAtEnd'
  <2>1. res'.body = v
    BY <1>5
  <2>2. v.pos + v.len = Len(data')
    <3>1. n \in Nat /\ res.body.pos \in Nat /\ res.body.len \in Nat
      BY <1>2, <1>7
    <3>2. v.pos + v.len = (res.body.pos + res.body.len) + n
      BY <1>4, <3>1
    <3>3. Len(data') = (res.body.pos + res.body.len) + n
      BY <1>1, <1>7, <1>9
    <3> QED
      BY <3>2, <3>3
  <2> QED
    BY <1>1, <2>1, <2>2 DEF BodyAtEnd
<1>14. Composed'
  BY <1>1 DEF Composed
<1> QED
  BY <1>10, <1>12, <1>13, <1>14

LEMMA Writed ==
    ASSUME ReplyInv, on_writed
    PROVE  ReplyInv'
<1>1. data' = <<>> /\ res' = EmptyRes /\ out' = NoOut /\ phase' = "header" /\ reply' = NoReply
  BY DEF on_writed
<1>2. ReplyTypes'
  <2>1. /\ <<>> \in Seq(Byte) /\ <<>> \in Seq(HeaderRange)
        /\ <<>> \in Seq(Seq(Byte) \X Seq(Byte)) /\ <<>> \in Seq(Entry)
    OBVIOUS
  <2>2. NoValue \in Value
    BY DEF NoValue, Value
  <2>3. EmptyRes \in ResSet /\ NoReply \in ReplySet /\ NoOut \in OutSet
    BY <2>1, <2>2 DEF EmptyRes, ResSet, NoReply, ReplySet, NoOut, OutSet
  <2> QED
    BY <1>1, <2>1, <2>3 DEF ReplyTypes
<1>3. Placed'
  BY <1>1 DEF Placed, Holds, EmptyRes, NoReply, NoValue
<1>4. BodyAtEnd' /\ Composed'
  BY <1>1 DEF BodyAtEnd, Composed, EmptyRes, NoValue
<1> QED
  BY <1>2, <1>3, <1>4 DEF ReplyInv

\* dynmem_align goes to the next page.
LEMMA AlignType ==
    ASSUME NEW d \in Seq(Byte)
    PROVE  \E gap \in Seq(Byte) :
               dynmem_align(d) = d \o gap /\ Len(dynmem_align(d)) % Page = 0
<1> DEFINE n == PagesFor(Len(d))
           gap == PieceOf("gap", n * Page - Len(d))
<1>1. n \in Nat /\ n * Page \in Nat /\ Len(d) \in Nat /\ Len(d) <= n * Page
  BY Rounding
<1>2. n * Page - Len(d) \in Nat
  BY <1>1
<1>3. gap \in Seq(Byte) /\ Len(gap) = n * Page - Len(d)
  BY <1>2, BytesType DEF Pieces
<1>4. dynmem_align(d) = d \o gap
  BY DEF dynmem_align
<1> HIDE DEF gap
<1>5. Len(d \o gap) = n * Page
  BY <1>1, <1>3
<1>6. (n * Page) % Page = 0
  <2> HIDE DEF n
  <2> QED
    BY <1>1, PageNat, SMTT(30)
<1> QED
  BY <1>3, <1>4, <1>5, <1>6

LEMMA WriteResp ==
    ASSUME ReplyInv, write_http_resp
    PROVE  ReplyInv'
<1> USE DEF ReplyInv
<1>1. res \in ResSet /\ reply \in ReplySet /\ data \in Seq(Byte) /\ res.body \in Value
  BY DEF ReplyTypes, ResSet
<1>2. PICK gap \in Seq(Byte) :
          dynmem_align(data) = data \o gap /\ Len(dynmem_align(data)) % Page = 0
  BY <1>1, AlignType
<1> DEFINE d == data \o gap
           b == res.body
<1>3. write_http_header(d) = WireHeader
  BY HeaderAsAsked
<1>4. WireHeader \in Seq(Byte) /\ Len(WireHeader) > 0
  BY <1>1, WireHeaderType
<1>5. /\ data' = d \o WireHeader /\ phase' = "writing" /\ res' = res /\ reply' = reply
      /\ out' = [start |-> Len(d), head |-> Len(WireHeader),
                 size |-> bufs_size(Len(WireHeader), b.len),
                 bufs |-> fill_uv_buf_ts(Len(d), Len(WireHeader))
                            \o fill_uv_buf_ts(b.pos, b.len)]
  BY <1>2, <1>3 DEF write_http_resp
<1>6. d \in Seq(Byte) /\ Len(d) \in Nat /\ Len(d) % Page = 0
  BY <1>1, <1>2
<1>7. b.pos \in Nat /\ b.len \in Nat /\ Len(WireHeader) \in Nat
  BY <1>1, <1>4 DEF Value
<1> HIDE DEF b
<1>8. data' = data \o (gap \o WireHeader) /\ gap \o WireHeader \in Seq(Byte)
  <2>1. (data \o gap) \o WireHeader = data \o (gap \o WireHeader)
    BY <1>1, <1>4, Associative
  <2> QED
    BY <1>4, <1>5, <2>1
<1> HIDE DEF d
<1>9. out' \in OutSet
  <2>1. fill_uv_buf_ts(Len(d), Len(WireHeader)) \in Seq(Entry)
    BY <1>6, <1>7, EntriesCount
  <2>2. fill_uv_buf_ts(b.pos, b.len) \in Seq(Entry)
    BY <1>7, EntriesCount
  <2>3. fill_uv_buf_ts(Len(d), Len(WireHeader)) \o fill_uv_buf_ts(b.pos, b.len) \in Seq(Entry)
    BY <2>1, <2>2
  <2>4. bufs_size(Len(WireHeader), b.len) \in Nat
    <3>1. PagesFor(Len(WireHeader)) \in Nat /\ PagesFor(b.len) \in Nat
      BY <1>7, Rounding
    <3> QED
      BY <3>1 DEF bufs_size
  <2> HIDE DEF Entry
  <2> QED
    BY <1>5, <1>6, <1>7, <2>3, <2>4 DEF OutSet
<1>10. ReplyTypes'
  <2>1. data' \in Seq(Byte)
    BY <1>1, <1>8
  <2> QED
    BY <1>1, <1>5, <1>9, <2>1 DEF ReplyTypes
<1>11. Placed'
  <2>1. /\ \A i \in 1 .. Len(res.headers) :
               /\ Holds(data', res.headers[i].field, reply.headers[i][1])
               /\ Holds(data', res.headers[i].value, reply.headers[i][2])
        /\ Holds(data', res.content_type, reply.type)
        /\ Holds(data', res.body, reply.body)
    BY <1>8, PlacedLater
  <2> QED
    BY <1>5, <2>1 DEF Placed
<1>12. BodyAtEnd'
  BY <1>5 DEF BodyAtEnd
<1>13. Composed'
  <2> DEFINE v == [pos |-> Len(d), len |-> Len(WireHeader)]
  <2>1. WireHeader' = WireHeader
    BY <1>5 DEF WireHeader
  <2>2. Holds(d \o WireHeader, v, WireHeader)
    <3>1. v \in Value /\ v.pos = Len(d) /\ v.len = Len(WireHeader)
      BY <1>6, <1>7 DEF Value
    <3> HIDE DEF v
    <3> QED
      BY <1>4, <1>6, <3>1, HoldsEnd
  <2>3. out'.start = Len(d) /\ out'.head = Len(WireHeader)
    BY <1>5
  <2>4. Holds(data', [pos |-> out'.start, len |-> out'.head], WireHeader')
    BY <1>5, <2>1, <2>2, <2>3
  <2>5. out'.start % Page = 0 /\ out'.start + out'.head = Len(data')
    BY <1>4, <1>5, <1>6, <2>3
  <2>6. out'.size = bufs_size(out'.head, res'.body.len)
    BY <1>5 DEF b
  <2>7. out'.bufs = fill_uv_buf_ts(out'.start, out'.head)
                        \o fill_uv_buf_ts(res'.body.pos, res'.body.len)
    BY <1>5 DEF b
  <2> QED
    BY <2>4, <2>5, <2>6, <2>7 DEF Composed
<1> QED
  BY <1>10, <1>11, <1>12, <1>13

\* ReplyInv holds in every state.
LEMMA ReplyInvariant == Spec => []ReplyInv
<1>1. Init => ReplyInv
  BY InitReply
<1>2. ReplyInv /\ [Next]_vars => ReplyInv'
  <2> SUFFICES ASSUME ReplyInv, [Next]_vars PROVE ReplyInv'
    OBVIOUS
  <2>0. CASE \E n \in BodyLens : body_type_set(n)
    BY <2>0, BodyTypeSet
  <2>1. CASE keep_alive_set
    BY <2>1, KeepAlive
  <2>2. ASSUME NEW n \in TextLens, httpctx_set_content_type(n) PROVE ReplyInv'
    BY <2>2, SetContentType
  <2>3. ASSUME NEW f \in TextLens \ {0}, NEW v \in TextLens, httpctx_add_header(f, v)
        PROVE  ReplyInv'
    BY <2>3, AddHeader
  <2>4. ASSUME NEW n \in BodyLens, httpctx_set_body(n) PROVE ReplyInv'
    BY <2>4, SetBody
  <2>5. CASE httpctx_body_begin
    BY <2>5, BodyBegin
  <2>6. ASSUME NEW n \in BodyLens, httpctx_body_append(n) PROVE ReplyInv'
    BY <2>6, BodyAppend
  <2>7. CASE write_http_resp
    BY <2>7, WriteResp
  <2>8. CASE on_writed
    BY <2>8, Writed
  <2>9. CASE UNCHANGED vars
    <3>1. /\ data' = data /\ res' = res /\ out' = out /\ phase' = phase /\ reply' = reply
      BY <2>9 DEF vars
    <3>2. ReplyTypes' /\ Placed' /\ BodyAtEnd'
      BY <3>1 DEF ReplyInv, ReplyTypes, Placed, BodyAtEnd
    <3>3. Composed'
      <4>1. WireHeader' = WireHeader
        BY <3>1 DEF WireHeader
      <4> QED
        BY <3>1, <4>1 DEF ReplyInv, Composed
    <3> QED
      BY <3>2, <3>3 DEF ReplyInv
  <2> QED
    BY <2>0, <2>1, <2>2, <2>3, <2>4, <2>5, <2>6, <2>7, <2>8, <2>9 DEF Next
<1> QED
  BY <1>1, <1>2, PTL DEF Spec

\* The ranges, the array and the history are of their kinds.
THEOREM ReplyTypeCorrect == Spec => []TypeOK
<1>1. ReplyInv => TypeOK
  <2> SUFFICES ASSUME ReplyInv PROVE TypeOK
    OBVIOUS
  <2>1. res \in ResSet /\ out \in OutSet /\ phase \in {"header", "body", "done", "writing"}
    BY DEF ReplyInv, ReplyTypes
  <2>2. \A i \in DOMAIN res.headers : res.headers[i] \in [field : Value, value : Value]
    <3>1. res.headers \in Seq(HeaderRange)
      BY <2>1 DEF ResSet
    <3>2. \A i \in DOMAIN res.headers : res.headers[i] \in HeaderRange
      BY <3>1
    <3> QED
      BY <3>2 DEF HeaderRange
  <2>3. \A i \in DOMAIN out.bufs : out.bufs[i] \in BufSet
    <3>1. out.bufs \in Seq(Entry)
      BY <2>1 DEF OutSet
    <3>2. \A i \in DOMAIN out.bufs : out.bufs[i] \in Entry
      BY <3>1
    <3> QED
      BY <3>2 DEF Entry, BufSet
  <2> QED
    BY <2>1, <2>2, <2>3 DEF TypeOK, ResSet, OutSet
<1> QED
  BY <1>1, ReplyInvariant, PTL

\* The array of a composed reply, from the invariant.
LEMMA InvArraySound ==
    ASSUME ReplyInv
    PROVE  ArraySound
<1> SUFFICES ASSUME phase = "writing" PROVE ArrayInBounds /\ BufsInPages
  BY DEF ArraySound, ArrayInBounds, BufsInPages
<1> DEFINE s == fill_uv_buf_ts(out.start, out.head)
           t == fill_uv_buf_ts(res.body.pos, res.body.len)
           b == res.body
<1>1. /\ out.start \in Nat /\ out.head \in Nat /\ b.pos \in Nat /\ b.len \in Nat
      /\ data \in Seq(Byte)
  BY DEF ReplyInv, ReplyTypes, OutSet, ResSet, Value
<1>2. /\ out.start % Page = 0 /\ out.start + out.head = Len(data)
      /\ out.size = bufs_size(out.head, b.len) /\ out.bufs = s \o t
  BY DEF ReplyInv, Composed
<1>3. b.pos + b.len <= Len(data)
  BY DEF ReplyInv, Placed, Holds
<1>4. Len(s \o t) \in {bufs_size(out.head, b.len), bufs_size(out.head, b.len) + 1}
  BY <1>1, <1>2, ArrayFits
<1>5. bufs_size(out.head, b.len) \in Nat
  <2>1. PagesFor(out.head) \in Nat /\ PagesFor(b.len) \in Nat
    BY <1>1, Rounding
  <2> QED
    BY <2>1 DEF bufs_size
<1>6. ArrayInBounds
  <2> HIDE DEF s, t
  <2> QED
    BY <1>2, <1>4, <1>5 DEF ArrayInBounds
<1>7. s \in Seq(Entry) /\ t \in Seq(Entry)
  <2> HIDE DEF b
  <2> QED
    BY <1>1, EntriesCount DEF b
<1>8. ASSUME NEW i \in 1 .. Len(s)
      PROVE  (s[i].base % Page) + s[i].len <= Page /\ s[i].base < Len(data)
  <2>1. s[i].base < out.start + out.head /\ (s[i].base % Page) + s[i].len <= Page
    BY <1>1, EntriesInPages
  <2> QED
    BY <1>2, <2>1
<1>9. ASSUME NEW i \in 1 .. Len(t)
      PROVE  (t[i].base % Page) + t[i].len <= Page /\ t[i].base < Len(data)
  <2>1. t[i].base < b.pos + b.len /\ (t[i].base % Page) + t[i].len <= Page
    BY <1>1, EntriesInPages
  <2> HIDE DEF t, b
  <2>2. t[i] \in Entry
    BY <1>7
  <2>3. t[i].base \in Nat
    BY <2>2 DEF Entry
  <2> QED
    BY <1>1, <1>3, <2>1, <2>3
<1> HIDE DEF s, t
<1>10. ASSUME NEW i \in DOMAIN (s \o t)
       PROVE  ((s \o t)[i].base % Page) + (s \o t)[i].len <= Page
              /\ (s \o t)[i].base < Len(data)
  <2>1. i \in 1 .. Len(s) + Len(t)
    BY <1>7
  <2>2. CASE i <= Len(s)
    <3>1. i \in 1 .. Len(s) /\ (s \o t)[i] = s[i]
      BY <1>7, <2>1, <2>2
    <3> QED
      BY <1>8, <3>1
  <2>3. CASE i > Len(s)
    <3>1. i - Len(s) \in 1 .. Len(t) /\ (s \o t)[i] = t[i - Len(s)]
      BY <1>7, <2>1, <2>3
    <3> QED
      BY <1>9, <3>1
  <2> QED
    BY <1>7, <2>1, <2>2, <2>3
<1>11. BufsInPages
  BY <1>2, <1>10 DEF BufsInPages
<1> QED
  BY <1>6, <1>11

\* What uv_write is given is inside the array that was allocated and inside the
\* pages of the buffer: for every page size, and header and body of any length,
\* no entry crosses a page or starts behind the text, and no entry of those
\* that were announced is left unfilled.
THEOREM WriteArraySound == Spec => []ArraySound
<1>1. ReplyInv => ArraySound
  BY InvArraySound
<1> QED
  BY <1>1, ReplyInvariant, PTL

-----------------------------------------------------------------------------
(***************************************************************************)
(* What libuv sends.                                                       *)
(***************************************************************************)

\* A byte that is sent: of the reply, or what lies behind it.
SentByte == Byte \cup {Junk}

\* The bytes from p on, as a function of the place.
From(p) == [k \in Nat |-> MemoryAt(p + k - 1)]

\* The bytes of an entry are those of its memory.
LEMMA BufBytesType ==
    ASSUME data \in Seq(Byte), NEW b \in Entry
    PROVE  /\ BufBytes(b) \in Seq(SentByte) /\ Len(BufBytes(b)) = b.len
           /\ \A k \in 1 .. b.len : BufBytes(b)[k] = MemoryAt(b.base + k - 1)
<1> DEFINE byte(k) == MemoryAt(b.base + k - 1)
<1>1. b.base \in Nat /\ b.len \in Nat
  BY PageNat DEF Entry
<1>2. ASSUME NEW k \in 1 .. b.len PROVE byte(k) \in SentByte
  <2>1. b.base + k - 1 \in Nat
    BY <1>1
  <2>2. CASE b.base + k - 1 < Len(data)
    <3>1. (b.base + k - 1) + 1 \in 1 .. Len(data)
      BY <2>1, <2>2
    <3>2. data[(b.base + k - 1) + 1] \in Byte
      BY <3>1
    <3> QED
      BY <2>2, <3>2 DEF MemoryAt, SentByte
  <2>3. CASE ~(b.base + k - 1 < Len(data))
    BY <2>3 DEF MemoryAt, SentByte
  <2> QED
    BY <2>2, <2>3
<1>3. BufBytes(b) = [k \in 1 .. b.len |-> byte(k)]
  BY DEF BufBytes
<1> HIDE DEF byte
<1>4. BufBytes(b) \in Seq(SentByte) /\ Len(BufBytes(b)) = b.len
      /\ \A k \in 1 .. b.len : BufBytes(b)[k] = byte(k)
  BY <1>1, <1>2, <1>3
<1> QED
  BY <1>4 DEF byte

\* What is sent is joined from the entries that were announced, in their order.
LEMMA SentSteps ==
    ASSUME ReplyInv, phase = "writing"
    PROVE  \E F \in [0 .. out.size -> Seq(SentByte)] :
               /\ F[0] = <<>> /\ F[out.size] = Sent
               /\ \A i \in 1 .. out.size :
                      /\ i \in 1 .. Len(out.bufs) /\ out.bufs[i] \in Entry
                      /\ BufBytes(out.bufs[i]) \in Seq(SentByte)
                      /\ F[i] = F[i - 1] \o BufBytes(out.bufs[i])
<1>1. data \in Seq(Byte) /\ out.bufs \in Seq(Entry) /\ out.size \in Nat
  BY DEF ReplyInv, ReplyTypes, OutSet
<1>2. out.size <= Len(out.bufs)
  <2>1. ArrayInBounds
    BY InvArraySound DEF ArraySound
  <2> QED
    BY <2>1 DEF ArrayInBounds
<1>3. Lesser(out.size, Len(out.bufs)) = out.size
  BY <1>2 DEF Lesser
<1> DEFINE s == [i \in 1 .. out.size |-> BufBytes(out.bufs[i])]
<1>4. Sent = FlattenSeq(s)
  BY <1>3 DEF Sent
<1>5. ASSUME NEW i \in 1 .. out.size
      PROVE  /\ i \in 1 .. Len(out.bufs) /\ out.bufs[i] \in Entry
             /\ BufBytes(out.bufs[i]) \in Seq(SentByte)
  <2>1. i \in 1 .. Len(out.bufs)
    BY <1>1, <1>2
  <2>2. out.bufs[i] \in Entry
    BY <1>1, <2>1
  <2> QED
    BY <1>1, <2>1, <2>2, BufBytesType
<1>6. s \in Seq(Seq(SentByte)) /\ Len(s) = out.size
  BY <1>1, <1>5
<1>7. \A i \in 1 .. out.size : s[i] = BufBytes(out.bufs[i])
  OBVIOUS
<1> HIDE DEF s
<1>8. PICK F \in [0 .. Len(s) -> Seq(SentByte)] :
          /\ F[0] = <<>> /\ F[Len(s)] = FlattenSeq(s)
          /\ \A i \in 1 .. Len(s) : F[i] = F[i - 1] \o s[i]
  BY <1>6, FlattenSteps
<1>9. F \in [0 .. out.size -> Seq(SentByte)] /\ F[0] = <<>> /\ F[out.size] = Sent
  BY <1>4, <1>6, <1>8
<1>10. \A i \in 1 .. out.size : F[i] = F[i - 1] \o BufBytes(out.bufs[i])
  BY <1>6, <1>7, <1>8
<1> QED
  BY <1>5, <1>9, <1>10

\* The header starts a page, and so does each of its entries; each describes a
\* page, unless the header is less than one.
LEMMA HeaderEntries ==
    ASSUME NEW start \in Nat, NEW head \in Nat, head > 0, start % Page = 0,
           NEW i \in 1 .. PagesFor(head)
    PROVE  /\ i \in 1 .. Len(fill_uv_buf_ts(start, head))
           /\ fill_uv_buf_ts(start, head)[i] =
                  [base |-> start + (i - 1) * Page, len |-> Lesser(head, Page)]
<1> DEFINE q == start \div Page
           count == PagesFor(head)
           st(j) == IF j = 1 THEN start ELSE (q + j - 1) * Page
           f == [j \in 1 .. count |->
                    [base |-> st(j), len |-> Lesser(head, dynmem_surplus(st(j)))]]
<1>1. q \in Nat /\ start = q * Page /\ count \in Nat /\ i \in Nat /\ i - 1 \in Nat
  <2>1. q \in Nat /\ start = q * Page + (start % Page) /\ q * Page \in Nat
    BY DivMod, ProductNat
  <2>2. count \in Nat
    BY Rounding
  <2> HIDE DEF q, count
  <2> QED
    BY <2>1, <2>2 DEF count
<1>2. fill_uv_buf_ts(start, head) = f
  <2>1. (start % Page) + head = head
    OBVIOUS
  <2> QED
    BY <2>1 DEF fill_uv_buf_ts
<1>3. st(i) = start + (i - 1) * Page /\ (q + (i - 1)) * Page = start + (i - 1) * Page
  <2>1. \A a, c \in Nat : (a + c) * Page = a * Page + c * Page
    BY PageNat, SMTT(30)
  <2>2. (q + (i - 1)) * Page = q * Page + (i - 1) * Page
    <3> HIDE DEF q
    <3> QED
      BY <1>1, <2>1
  <2>3. q + i - 1 = q + (i - 1)
    BY <1>1
  <2>4. CASE i = 1
    <3>1. (i - 1) * Page = 0
      BY <2>4, PageNat
    <3> QED
      BY <1>1, <2>2, <2>4, <3>1
  <2>5. CASE i # 1
    BY <1>1, <2>2, <2>3, <2>5
  <2> QED
    BY <2>4, <2>5
<1>4. dynmem_surplus(st(i)) = Page
  <2>1. q + (i - 1) \in Nat
    BY <1>1
  <2>2. \A a \in Nat : (a * Page) % Page = 0
    BY PageNat, SMTT(30)
  <2>3. ((q + (i - 1)) * Page) % Page = 0
    <3> HIDE DEF q
    <3> QED
      BY <2>1, <2>2
  <2>4. st(i) % Page = 0
    BY <1>3, <2>3
  <2> HIDE DEF st
  <2> QED
    BY <2>4, PageNat DEF dynmem_surplus
<1> HIDE DEF count
<1>5. i \in 1 .. count
  BY DEF count
<1>6. f[i] = [base |-> st(i), len |-> Lesser(head, dynmem_surplus(st(i)))] /\ Len(f) = count
  BY <1>1, <1>5
<1> HIDE DEF st, f
<1> QED
  BY <1>2, <1>3, <1>4, <1>5, <1>6

\* What is not longer than a page needs one, unless it is empty.
LEMMA OnePage ==
    ASSUME NEW n \in 1 .. Page
    PROVE  PagesFor(n) = 1
<1> DEFINE a == PagesFor(n)
           x == a * Page
<1>1. a \in Nat /\ x \in Nat /\ n <= x /\ x < n + Page
  BY PageNat, Rounding
<1>2. 0 * Page = 0 /\ 1 * Page = Page /\ 2 * Page = Page + Page
  BY PageNat
<1>3. (0 < a) <=> (0 * Page + Page <= x)
  <2> HIDE DEF a
  <2> QED
    BY <1>1, ProductLess
<1>4. (1 < a) <=> (1 * Page + Page <= x)
  <2> HIDE DEF a
  <2> QED
    BY <1>1, ProductLess
<1>5. a # 0
  <2>1. a = 0 => x = 0
    <3> HIDE DEF a
    <3> QED
      BY <1>2
  <2> QED
    BY <1>1, <2>1, PageNat
<1> HIDE DEF a, x
<1>6. a = 1
  BY <1>1, <1>2, <1>4, <1>5, PageNat
<1> QED
  BY <1>6 DEF a

\* The entries of the header, joined: as many bytes as there are pages of the
\* header, or the header alone when it is less than one, from its start on.
LEMMA HeaderBlocks ==
    ASSUME NEW start \in Nat, NEW head \in Nat, head > 0, start % Page = 0,
           data \in Seq(Byte), NEW i \in 1 .. PagesFor(head),
           NEW b, b = fill_uv_buf_ts(start, head)[i]
    PROVE  LET m == Lesser(head, Page)
           IN  /\ b \in Entry /\ Len(BufBytes(b)) = m
               /\ \A k \in 1 .. m : BufBytes(b)[k] = From(start)[((i - 1) * m) + k]
<1> DEFINE m == Lesser(head, Page)
<1>1. m \in 1 .. Page /\ m \in Nat /\ (head <= Page => m = head) /\ (~(head <= Page) => m = Page)
  BY PageNat DEF Lesser
<1>2. i \in Nat /\ i - 1 \in Nat
  BY Rounding
<1>3. (i - 1) * m = (i - 1) * Page /\ (i - 1) * m \in Nat
  <2>1. CASE head <= Page
    <3>1. PagesFor(head) = 1
      BY <2>1, OnePage
    <3>2. i = 1
      BY <3>1
    <3>3. 0 * m = 0 /\ 0 * Page = 0
      BY <1>1, PageNat
    <3> QED
      BY <3>2, <3>3
  <2>2. CASE ~(head <= Page)
    <3>1. m = Page
      BY <1>1, <2>2
    <3>2. (i - 1) * Page \in Nat
      BY <1>2, ProductNat
    <3> QED
      BY <3>1, <3>2
  <2> QED
    BY <2>1, <2>2
<1>4. b.base = start + (i - 1) * m /\ b.len = m
  <2>1. b = [base |-> start + (i - 1) * Page, len |-> m]
    BY HeaderEntries
  <2> HIDE DEF m
  <2> QED
    BY <1>3, <2>1
<1>5. b \in Entry
  <2>1. fill_uv_buf_ts(start, head) \in Seq(Entry)
    BY EntriesCount
  <2>2. i \in 1 .. Len(fill_uv_buf_ts(start, head))
    BY HeaderEntries
  <2> QED
    BY <2>1, <2>2
<1>6. /\ Len(BufBytes(b)) = b.len
      /\ \A k \in 1 .. b.len : BufBytes(b)[k] = MemoryAt(b.base + k - 1)
  BY <1>5, BufBytesType
<1> HIDE DEF m
<1>7. ASSUME NEW k \in 1 .. m
      PROVE  BufBytes(b)[k] = From(start)[((i - 1) * m) + k]
  <2>1. PICK c \in Nat : c = (i - 1) * m
    BY <1>3
  <2>2. b.base = start + c
    BY <1>4, <2>1
  <2>3. c + k \in Nat /\ (start + c) + k - 1 = start + (c + k) - 1
    BY <1>1, <2>1
  <2>4. From(start)[c + k] = MemoryAt(start + (c + k) - 1)
    BY <2>3 DEF From
  <2>5. BufBytes(b)[k] = MemoryAt((start + c) + k - 1)
    BY <1>4, <1>6, <2>2
  <2> QED
    BY <2>1, <2>3, <2>4, <2>5
<1> QED
  BY <1>4, <1>5, <1>6, <1>7 DEF m

\* The numbers of a composed reply.
LEMMA WrittenFacts ==
    ASSUME ReplyInv, phase = "writing"
    PROVE  /\ data \in Seq(Byte) /\ res.body \in Value
           /\ out.start \in Nat /\ out.head \in Nat /\ out.head > 0 /\ out.start % Page = 0
           /\ out.start + out.head = Len(data)
           /\ WireHeader \in Seq(Byte) /\ Len(WireHeader) = out.head
           /\ \A k \in 1 .. out.head : data[out.start + k] = WireHeader[k]
           /\ PagesFor(out.head) \in Nat /\ PagesFor(res.body.len) \in Nat
           /\ out.size = PagesFor(out.head) + PagesFor(res.body.len)
           /\ fill_uv_buf_ts(out.start, out.head) \in Seq(Entry)
           /\ Len(fill_uv_buf_ts(out.start, out.head)) = PagesFor(out.head)
           /\ fill_uv_buf_ts(res.body.pos, res.body.len) \in Seq(Entry)
           /\ out.bufs = fill_uv_buf_ts(out.start, out.head)
                             \o fill_uv_buf_ts(res.body.pos, res.body.len)
<1>1. /\ data \in Seq(Byte) /\ res.body \in Value /\ out.start \in Nat /\ out.head \in Nat
      /\ reply \in ReplySet
  BY DEF ReplyInv, ReplyTypes, ResSet, OutSet
<1>2. res.body.pos \in Nat /\ res.body.len \in Nat
  BY <1>1 DEF Value
<1>3. /\ out.start % Page = 0 /\ out.start + out.head = Len(data)
      /\ out.size = bufs_size(out.head, res.body.len)
      /\ out.bufs = fill_uv_buf_ts(out.start, out.head)
                        \o fill_uv_buf_ts(res.body.pos, res.body.len)
  BY DEF ReplyInv, Composed
<1>4. /\ Len(WireHeader) = out.head
      /\ \A k \in 1 .. out.head : data[out.start + k] = WireHeader[k]
  <2>1. Holds(data, [pos |-> out.start, len |-> out.head], WireHeader)
    BY DEF ReplyInv, Composed
  <2> QED
    BY <2>1 DEF Holds
<1>5. WireHeader \in Seq(Byte) /\ out.head > 0
  BY <1>1, <1>4, WireHeaderType
<1>6. PagesFor(out.head) \in Nat /\ PagesFor(res.body.len) \in Nat
  BY <1>1, <1>2, Rounding
<1>7. /\ fill_uv_buf_ts(out.start, out.head) \in Seq(Entry)
      /\ Len(fill_uv_buf_ts(out.start, out.head)) = PagesFor(out.head)
  BY <1>1, <1>3, EntriesCount
<1>8. fill_uv_buf_ts(res.body.pos, res.body.len) \in Seq(Entry)
  BY <1>2, EntriesCount
<1> QED
  BY <1>1, <1>3, <1>4, <1>5, <1>6, <1>7, <1>8 DEF bufs_size

\* The header first and complete, from the invariant.
LEMMA InvHeaderFirst ==
    ASSUME ReplyInv
    PROVE  HeaderFirst
<1> SUFFICES ASSUME phase = "writing"
             PROVE  /\ Len(WireHeader) <= Len(Sent)
                    /\ SubSeq(Sent, 1, Len(WireHeader)) = WireHeader
  BY DEF HeaderFirst
<1> DEFINE head == out.head
           n == out.size
           p == PagesFor(head)
           m == Lesser(head, Page)
           g == From(out.start)
           s == fill_uv_buf_ts(out.start, head)
<1>1. /\ data \in Seq(Byte) /\ out.start \in Nat /\ head \in Nat /\ head > 0
      /\ out.start % Page = 0 /\ out.start + head = Len(data)
      /\ WireHeader \in Seq(Byte) /\ Len(WireHeader) = head
      /\ \A k \in 1 .. head : data[out.start + k] = WireHeader[k]
  BY WrittenFacts
<1>2. p \in Nat /\ n \in Nat /\ p \in 0 .. n
  BY WrittenFacts
<1>3. s \in Seq(Entry) /\ Len(s) = p /\ \A i \in 1 .. p : out.bufs[i] = s[i]
  <2>1. s \in Seq(Entry) /\ Len(s) = p
    BY WrittenFacts
  <2>2. /\ fill_uv_buf_ts(res.body.pos, res.body.len) \in Seq(Entry)
        /\ out.bufs = s \o fill_uv_buf_ts(res.body.pos, res.body.len)
    BY WrittenFacts
  <2> DEFINE t == fill_uv_buf_ts(res.body.pos, res.body.len)
  <2> HIDE DEF s, t, p
  <2>3. t \in Seq(Entry) /\ out.bufs = s \o t
    BY <2>2 DEF t
  <2>4. \A i \in 1 .. Len(s) : (s \o t)[i] = s[i]
    BY <2>1, <2>3
  <2> QED
    BY <2>1, <2>3, <2>4
<1>4. PICK F \in [0 .. n -> Seq(SentByte)] :
          /\ F[0] = <<>> /\ F[n] = Sent
          /\ \A i \in 1 .. n :
                 /\ BufBytes(out.bufs[i]) \in Seq(SentByte)
                 /\ F[i] = F[i - 1] \o BufBytes(out.bufs[i])
  BY SentSteps
<1>5. JoinSteps(F, n, SentByte)
  BY <1>2, <1>4 DEF JoinSteps
<1>6. Len(F[p]) <= Len(Sent) /\ \A k \in 1 .. Len(F[p]) : Sent[k] = F[p][k]
  <2>1. Begins(F[p], F[n])
    <3> HIDE DEF p, n
    <3> QED
      BY <1>2, <1>5, FlattenGrows
  <2> QED
    BY <1>4, <2>1 DEF Begins
<1>7. m \in 1 .. Page /\ m \in Nat /\ (head <= Page => m = head) /\ (~(head <= Page) => m = Page)
  BY <1>1, PageNat DEF Lesser
<1>8. Blocks(F, p, m, g, SentByte)
  <2>1. ASSUME NEW i \in 1 .. p
        PROVE  \E e \in Seq(SentByte) :
                   /\ F[i] = F[i - 1] \o e /\ Len(e) = m
                   /\ \A k \in 1 .. m : e[k] = g[((i - 1) * m) + k]
    <3> DEFINE b == out.bufs[i]
    <3>1. i \in 1 .. n
      BY <1>2
    <3>2. BufBytes(b) \in Seq(SentByte) /\ F[i] = F[i - 1] \o BufBytes(b)
      BY <1>4, <3>1
    <3>3. b = s[i]
      BY <1>3
    <3>4. /\ Len(BufBytes(b)) = m
          /\ \A k \in 1 .. m : BufBytes(b)[k] = g[((i - 1) * m) + k]
      <4> HIDE DEF b
      <4> QED
        BY <1>1, <3>3, HeaderBlocks
    <3> HIDE DEF b
    <3> QED
      BY <3>2, <3>4
  <2> QED
    BY <2>1 DEF Blocks
<1>9. Len(F[p]) = p * m /\ \A k \in 1 .. p * m : F[p][k] = g[k]
  <2>1. m \in Nat
    BY <1>7
  <2>2. IsBlock(F[p], p * m, g)
    <3> HIDE DEF p, n, m, g
    <3> QED
      BY <1>2, <1>5, <1>8, <2>1, FlattenBlocks
  <2> QED
    BY <2>2 DEF IsBlock
<1>10. p * m \in Nat /\ head <= p * m
  <2>1. CASE head <= Page
    <3>1. p = 1 /\ m = head
      BY <1>1, <1>7, <2>1, OnePage
    <3> QED
      BY <1>1, <3>1
  <2>2. CASE ~(head <= Page)
    <3>1. m = Page
      BY <1>7, <2>2
    <3>2. p * Page \in Nat /\ head <= p * Page
      BY <1>1, Rounding
    <3> QED
      BY <3>1, <3>2
  <2> QED
    BY <2>1, <2>2
<1>11. ASSUME NEW k \in 1 .. head PROVE Sent[k] = WireHeader[k]
  <2>1. PICK c \in Nat : c = p * m
    BY <1>10
  <2>2. k \in 1 .. c /\ k \in Nat
    BY <1>1, <1>10, <2>1
  <2>3. Sent[k] = g[k]
    BY <1>6, <1>9, <2>1, <2>2
  <2>4. g[k] = MemoryAt(out.start + k - 1)
    BY <2>2 DEF From
  <2>5. out.start + k - 1 < Len(data) /\ (out.start + k - 1) + 1 = out.start + k
    BY <1>1
  <2>6. MemoryAt(out.start + k - 1) = data[out.start + k]
    BY <2>5 DEF MemoryAt
  <2> QED
    BY <1>1, <2>3, <2>4, <2>6
<1>12. Sent \in Seq(SentByte)
  BY <1>2, <1>4
<1>13. head <= Len(Sent)
  <2>1. PICK c \in Nat : c = p * m
    BY <1>10
  <2>2. c <= Len(Sent) /\ head <= c
    BY <1>6, <1>9, <1>10, <2>1
  <2> QED
    BY <1>1, <1>12, <2>2
<1>14. SubSeq(Sent, 1, head) = WireHeader
  <2> HIDE DEF head
  <2>1. PICK w \in Seq(Byte) : w = WireHeader
    BY <1>1
  <2>2. PICK z \in Seq(SentByte) : z = Sent
    BY <1>12
  <2>3. /\ head \in Nat /\ Len(w) = head /\ head <= Len(z)
        /\ \A k \in 1 .. head : z[k] = w[k]
    BY <1>1, <1>11, <1>13, <2>1, <2>2
  <2>4. SubSeq(z, 1, head) = [k \in 1 .. head |-> z[k]]
    BY <2>3
  <2>5. w = [k \in 1 .. head |-> w[k]]
    BY <2>3
  <2>6. [k \in 1 .. head |-> z[k]] = [k \in 1 .. head |-> w[k]]
    BY <2>3
  <2> QED
    BY <2>1, <2>2, <2>4, <2>5, <2>6
<1> QED
  BY <1>1, <1>13, <1>14

\* The header is sent first and completely: for every page size, every number
\* of header fields and every length of them, whatever follows it.
THEOREM HeaderSentFirst == Spec => []HeaderFirst
<1>1. ReplyInv => HeaderFirst
  BY InvHeaderFirst
<1> QED
  BY <1>1, ReplyInvariant, PTL

\* The bytes of an entry that holds a piece are that piece.
LEMMA BytesHeld ==
    ASSUME data \in Seq(Byte), NEW b \in Entry, NEW piece \in Seq(Byte),
           b.len = Len(piece), b.base + b.len <= Len(data),
           \A k \in 1 .. b.len : data[b.base + k] = piece[k]
    PROVE  BufBytes(b) = piece
<1>1. b.base \in Nat /\ b.len \in Nat
  BY PageNat DEF Entry
<1>2. ASSUME NEW k \in 1 .. b.len PROVE MemoryAt(b.base + k - 1) = piece[k]
  <2>1. b.base + k - 1 < Len(data) /\ (b.base + k - 1) + 1 = b.base + k
    BY <1>1
  <2> QED
    BY <2>1 DEF MemoryAt
<1>3. BufBytes(b) = [k \in 1 .. b.len |-> piece[k]]
  BY <1>2 DEF BufBytes
<1>4. piece = [k \in 1 .. b.len |-> piece[k]]
  OBVIOUS
<1> QED
  BY <1>3, <1>4

\* A range that does not cross a page takes one entry.
LEMMA OneEntry ==
    ASSUME NEW off \in Nat, NEW n \in Nat, n > 0, (off % Page) + n <= Page
    PROVE  /\ Len(fill_uv_buf_ts(off, n)) = 1
           /\ fill_uv_buf_ts(off, n)[1] = [base |-> off, len |-> n]
<1> DEFINE r == off % Page
           q == off \div Page
           f == [i \in 1 .. 1 |->
                   [base |-> IF i = 1 THEN off ELSE (q + i - 1) * Page,
                    len |-> Lesser(n, dynmem_surplus(IF i = 1 THEN off ELSE (q + i - 1) * Page))]]
<1>1. r \in 0 .. Page - 1
  BY DivMod
<1>2. PagesFor(r + n) = 1
  <2>1. r + n \in 1 .. Page
    BY <1>1, PageNat
  <2> HIDE DEF r
  <2> QED
    BY <2>1, OnePage
<1>3. fill_uv_buf_ts(off, n) = f
  BY <1>2 DEF fill_uv_buf_ts
<1>4. Lesser(n, dynmem_surplus(off)) = n
  BY <1>1, PageNat DEF Lesser, dynmem_surplus
<1>5. Len(f) = 1 /\ f[1] = [base |-> off, len |-> Lesser(n, dynmem_surplus(off))]
  OBVIOUS
<1> QED
  BY <1>3, <1>4, <1>5

\* The entries of the second range follow those of the first.
LEMMA EntriesBehind ==
    ASSUME NEW x \in Seq(Entry), NEW y \in Seq(Entry)
    PROVE  \A k \in 1 .. Len(y) : (x \o y)[Len(x) + k] = y[k]
  OBVIOUS

\* The entries of two ranges of one entry each.
LEMMA TwoEntries ==
    ASSUME NEW x \in Seq(Entry), NEW y \in Seq(Entry), Len(x) = 1
    PROVE  /\ x[1] \in Entry /\ (x \o y)[1] = x[1]
           /\ Len(y) = 1 => y[1] \in Entry /\ (x \o y)[2] = y[1]
<1>1. x[1] \in Entry /\ (x \o y)[1] = x[1]
  OBVIOUS
<1>2. ASSUME Len(y) = 1 PROVE y[1] \in Entry /\ (x \o y)[2] = y[1]
  <2>1. y[1] \in Entry
    BY <1>2
  <2>2. \A k \in 1 .. Len(y) : (x \o y)[Len(x) + k] = y[k]
    BY EntriesBehind
  <2>3. 1 \in 1 .. Len(y) /\ Len(x) + 1 = 2
    BY <1>2
  <2> QED
    BY <2>1, <2>2, <2>3
<1> QED
  BY <1>1, <1>2

\* A short reply, from the invariant: one entry for the header, and one for the
\* body if there is one.
LEMMA InvShortExact ==
    ASSUME ReplyInv
    PROVE  ShortReplyExact
<1> SUFFICES ASSUME phase = "writing", Short PROVE Sent = Wire
  BY DEF ShortReplyExact
<1> DEFINE head == out.head
           pos == res.body.pos
           len == res.body.len
           s == fill_uv_buf_ts(out.start, head)
           t == fill_uv_buf_ts(pos, len)
<1>1. /\ data \in Seq(Byte) /\ out.start \in Nat /\ head \in 1 .. Page
      /\ out.start % Page = 0 /\ out.start + head = Len(data)
      /\ WireHeader \in Seq(Byte) /\ Len(WireHeader) = head
      /\ \A k \in 1 .. head : data[out.start + k] = WireHeader[k]
  BY WrittenFacts, PageNat DEF Short
<1>2. PagesFor(head) = 1
  BY <1>1, OnePage
<1>3. s \in Seq(Entry) /\ Len(s) = 1 /\ t \in Seq(Entry) /\ out.bufs = s \o t
  BY <1>2, WrittenFacts
<1>4. /\ pos \in Nat /\ len \in Nat /\ reply.body \in Seq(Byte) /\ Len(reply.body) = len
      /\ pos + len <= Len(data) /\ (pos % Page) + len <= Page
      /\ \A k \in 1 .. len : data[pos + k] = reply.body[k]
  <2>1. res.body \in Value /\ reply.body \in Seq(Byte)
    BY DEF ReplyInv, ReplyTypes, ResSet, ReplySet
  <2>2. Holds(data, res.body, reply.body)
    BY DEF ReplyInv, Placed
  <2> QED
    BY <2>1, <2>2 DEF Value, Holds, Short
<1>5. BufBytes(s[1]) = WireHeader /\ s[1] \in Entry
  <2>1. 1 \in 1 .. PagesFor(head) /\ head \in Nat /\ head > 0
    BY <1>1, <1>2, PageNat
  <2>2. s[1] = [base |-> out.start + (1 - 1) * Page, len |-> Lesser(head, Page)]
    BY <1>1, <2>1, HeaderEntries
  <2>3. out.start + (1 - 1) * Page = out.start /\ Lesser(head, Page) = head
    <3>1. (1 - 1) * Page = 0
      BY PageNat
    <3>2. out.start + 0 = out.start
      BY <1>1
    <3>3. Lesser(head, Page) = head
      BY <1>1, PageNat DEF Lesser
    <3> QED
      BY <3>1, <3>2, <3>3
  <2>4. s[1].base = out.start /\ s[1].len = head
    BY <2>2, <2>3
  <2>5. s[1] \in Entry
    BY <1>3
  <2>6. PICK b \in Entry : b = s[1]
    BY <2>5
  <2>7. b.base = out.start /\ b.len = head
    BY <2>4, <2>6
  <2> HIDE DEF s, head
  <2>8. BufBytes(b) = WireHeader
    BY <1>1, <2>7, BytesHeld
  <2> QED
    BY <2>6, <2>8
<1>6. out.size = 1 + PagesFor(len)
  BY <1>2, WrittenFacts
<1>7. PICK F \in [0 .. out.size -> Seq(SentByte)] :
          /\ F[0] = <<>> /\ F[out.size] = Sent
          /\ \A i \in 1 .. out.size : F[i] = F[i - 1] \o BufBytes(out.bufs[i])
  BY SentSteps
<1>8. PagesFor(len) \in Nat
  BY <1>4, Rounding
<1>9. F[1] = WireHeader
  <2>1. out.bufs[1] = s[1]
    <3> HIDE DEF s, t
    <3> QED
      BY <1>3, TwoEntries
  <2>2. 1 \in 1 .. out.size /\ 1 - 1 = 0
    BY <1>6, <1>8
  <2>3. F[1] = <<>> \o WireHeader
    BY <1>5, <1>7, <2>1, <2>2
  <2> QED
    BY <1>1, <2>3
<1>10. CASE len = 0
  <2>1. PagesFor(0) = 0
    BY PageNat, SMTT(30) DEF PagesFor
  <2>2. out.size = 1
    BY <1>6, <1>10, <2>1
  <2>3. Sent = WireHeader
    BY <1>7, <1>9, <2>2
  <2>4. reply.body = <<>>
    BY <1>4, <1>10
  <2>5. WireHeader \o reply.body = WireHeader
    BY <1>1, <2>4
  <2> QED
    BY <2>3, <2>5 DEF Wire
<1>11. CASE len # 0
  <2>1. len \in 1 .. Page
    BY <1>4, <1>11, DivMod, PageNat
  <2>2. PagesFor(len) = 1 /\ out.size = 2
    BY <1>6, <2>1, OnePage
  <2>3. Len(t) = 1 /\ t[1] = [base |-> pos, len |-> len]
    <3> HIDE DEF pos, len
    <3> QED
      BY <1>4, <2>1, OneEntry DEF pos, len
  <2>4. out.bufs[2] = t[1] /\ t[1] \in Entry
    <3>1. Len(t) = 1
      BY <2>3
    <3> HIDE DEF s, t
    <3> QED
      BY <1>3, <3>1, TwoEntries
  <2>5. BufBytes(t[1]) = reply.body
    <3>1. t[1].base = pos /\ t[1].len = len
      BY <2>3
    <3> HIDE DEF t, pos, len
    <3> QED
      BY <1>1, <1>4, <2>4, <3>1, BytesHeld
  <2>6. 2 \in 1 .. out.size /\ 2 - 1 = 1
    BY <2>2
  <2>7. F[2] = WireHeader \o reply.body
    BY <1>7, <1>9, <2>4, <2>5, <2>6
  <2> QED
    BY <1>7, <2>2, <2>7 DEF Wire
<1> QED
  BY <1>10, <1>11

\* A reply whose header fits in a page and whose body does not cross one is sent
\* byte for byte as the callback composed it, with the length it declares: for
\* every page size, wherever the body lies in its page, in however many parts it
\* was appended and whatever gap the alignment of the header leaves.
THEOREM ShortReplySentExactly == Spec => []ShortReplyExact
<1>1. ReplyInv => ShortReplyExact
  BY InvShortExact
<1> QED
  BY <1>1, ReplyInvariant, PTL
=============================================================================
