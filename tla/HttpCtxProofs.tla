---------------------------- MODULE HttpCtxProofs ----------------------------
(***************************************************************************)
(* httpctx.c for every request, page size and cut.  The request is a       *)
(* sequence of parts, the calls of http_parser a sequence of pieces of     *)
(* these; the invariant says, for each part, how much of it the callbacks  *)
(* have found after so many calls.                                         *)
(***************************************************************************)
EXTENDS HttpCtx, DataInduction

(***************************************************************************)
(* The parts of a request.                                                 *)
(***************************************************************************)
Kinds == {"gap", "url", "field", "value", "body"}

Part == [kind : Kinds, text : Seq(Char)]

UrlPart(r) == [kind |-> "url", text |-> r.url]
FieldPart(r, h) == [kind |-> "field", text |-> r.headers[h][1]]
ValuePart(r, h) == [kind |-> "value", text |-> r.headers[h][2]]
BodyPart(r) == [kind |-> "body", text |-> r.body]

\* The number of parts.
Total(r) == 4 * Len(r.headers) + 5

LEMMA RequestType ==
    ASSUME NEW r \in Requests
    PROVE  /\ r.url \in Seq(Char) /\ Len(r.url) > 0 /\ r.body \in Seq(Char)
           /\ Len(r.headers) \in Nat /\ DOMAIN r.headers = 1 .. Len(r.headers)
           /\ \A h \in 1 .. Len(r.headers) :
                  /\ r.headers[h][1] \in Seq(Char) /\ Len(r.headers[h][1]) > 0
                  /\ r.headers[h][2] \in Seq(Char)
<1>1. /\ r.url \in Seq(Char) \ {<<>>} /\ r.body \in Seq(Char)
      /\ r.headers \in Seq((Seq(Char) \ {<<>>}) \X Seq(Char))
  BY RequestsAssumption
<1>2. \A s \in Seq(Char) \ {<<>>} : Len(s) > 0
  OBVIOUS
<1>3. \A h \in 1 .. Len(r.headers) : r.headers[h] \in (Seq(Char) \ {<<>>}) \X Seq(Char)
  BY <1>1
<1>4. Len(r.headers) \in Nat /\ DOMAIN r.headers = 1 .. Len(r.headers)
  BY <1>1
<1>5. ASSUME NEW h \in 1 .. Len(r.headers)
      PROVE  /\ r.headers[h][1] \in Seq(Char) /\ Len(r.headers[h][1]) > 0
             /\ r.headers[h][2] \in Seq(Char)
  <2>1. r.headers[h][1] \in Seq(Char) \ {<<>>} /\ r.headers[h][2] \in Seq(Char)
    BY <1>3
  <2> QED
    BY <1>2, <2>1
<1> QED
  BY <1>1, <1>2, <1>4, <1>5

LEMMA PartTypes ==
    ASSUME NEW r \in Requests
    PROVE  /\ Gap \in Part /\ UrlPart(r) \in Part /\ BodyPart(r) \in Part
           /\ \A h \in 1 .. Len(r.headers) : FieldPart(r, h) \in Part /\ ValuePart(r, h) \in Part
<1>1. <<"_">> \in Seq(Char)
  <2>1. "_" \in Char
    BY RequestsAssumption
  <2>2. \A c \in Char : <<c>> \in Seq(Char)
    OBVIOUS
  <2> QED
    BY <2>1, <2>2
<1> QED
  BY <1>1, RequestType DEF Part, Kinds, Gap, UrlPart, BodyPart, FieldPart, ValuePart

\* Two sequences of parts, one behind the other.
LEMMA PartsJoin ==
    ASSUME NEW x \in Seq(Part), NEW y \in Seq(Part)
    PROVE  /\ x \o y \in Seq(Part) /\ Len(x \o y) = Len(x) + Len(y)
           /\ \A k \in 1 .. Len(x) : (x \o y)[k] = x[k]
           /\ \A k \in 1 .. Len(y) : (x \o y)[Len(x) + k] = y[k]
<1>1. ASSUME NEW k \in 1 .. Len(y) PROVE (x \o y)[Len(x) + k] = y[k]
  <2>1. Len(x) \in Nat /\ Len(y) \in Nat /\ Len(x) + k \in 1 .. Len(x) + Len(y)
    OBVIOUS
  <2>2. ~(Len(x) + k <= Len(x)) /\ (Len(x) + k) - Len(x) = k
    BY <2>1
  <2> QED
    BY <2>1, <2>2
<1> QED
  BY <1>1

\* The parts of header field h.
HeaderParts(r, h) == <<FieldPart(r, h), Gap, ValuePart(r, h), Gap>>

\* The part numbered k of all header fields.
HeaderPart(r, k) ==
    LET h == ((k - 1) \div 4) + 1
    IN  IF (k - 1) % 4 = 0 THEN FieldPart(r, h)
        ELSE IF (k - 1) % 4 = 2 THEN ValuePart(r, h) ELSE Gap

\* The parts of the header fields, one after another.
LEMMA HeaderShape ==
    ASSUME NEW r \in Requests
    PROVE  LET s == FlattenSeq([h \in DOMAIN r.headers |-> HeaderParts(r, h)])
               n == Len(r.headers)
           IN  /\ s \in Seq(Part) /\ Len(s) = n * 4
               /\ \A k \in 1 .. n * 4 : s[k] = HeaderPart(r, k)
<1> DEFINE n == Len(r.headers)
           s == [h \in DOMAIN r.headers |-> HeaderParts(r, h)]
           g == [k \in 1 .. n * 4 |-> HeaderPart(r, k)]
<1>1. n \in Nat /\ DOMAIN r.headers = 1 .. n
  BY RequestType
<1>2. \A h \in 1 .. n : HeaderParts(r, h) \in Seq(Part) /\ Len(HeaderParts(r, h)) = 4
  BY PartTypes DEF HeaderParts
<1>3. s \in Seq(Seq(Part)) /\ Len(s) = n
  <2>1. s \in [1 .. n -> Seq(Part)]
    BY <1>1, <1>2
  <2> QED
    BY <1>1, <2>1
<1>4. \A h \in 1 .. n : s[h] = HeaderParts(r, h)
  BY <1>1
<1> HIDE DEF s
<1>5. PICK F \in [0 .. Len(s) -> Seq(Part)] :
               /\ F[0] = <<>> /\ F[Len(s)] = FlattenSeq(s)
               /\ \A i \in 1 .. Len(s) : F[i] = F[i - 1] \o s[i]
  BY <1>3, FlattenSteps
<1> HIDE DEF n
<1>6. JoinSteps(F, n, Part)
  BY <1>1, <1>2, <1>3, <1>4, <1>5 DEF JoinSteps
<1>7. Blocks(F, n, 4, g, Part)
  <2> SUFFICES ASSUME NEW i \in 1 .. n
               PROVE  \E e \in Seq(Part) :
                          /\ F[i] = F[i - 1] \o e /\ Len(e) = 4
                          /\ \A k \in 1 .. 4 : e[k] = g[((i - 1) * 4) + k]
    BY DEF Blocks
  <2>1. F[i] = F[i - 1] \o HeaderParts(r, i)
    BY <1>3, <1>4, <1>5
  <2>2. ASSUME NEW k \in 1 .. 4 PROVE HeaderParts(r, i)[k] = g[((i - 1) * 4) + k]
    <3> DEFINE p == ((i - 1) * 4) + k
    <3>1. /\ p \in 1 .. n * 4 /\ (p - 1) \div 4 = i - 1 /\ (p - 1) % 4 = k - 1
          /\ ((p - 1) \div 4) + 1 = i
      BY <1>1
    <3> HIDE DEF p
    <3>2. g[p] = HeaderPart(r, p)
      BY <3>1
    <3>3. HeaderPart(r, p) = IF k - 1 = 0 THEN FieldPart(r, i)
                             ELSE IF k - 1 = 2 THEN ValuePart(r, i) ELSE Gap
      BY <3>1 DEF HeaderPart
    <3>4. HeaderParts(r, i)[k] = HeaderPart(r, p)
      BY <3>3 DEF HeaderParts
    <3> QED
      BY <3>2, <3>4 DEF p
  <2> QED
    BY <1>2, <2>1, <2>2
<1> HIDE DEF g
<1>8. IsBlock(F[n], n * 4, g)
  <2>1. n \in 0 .. n /\ 4 \in Nat
    BY <1>1
  <2> QED
    BY <1>6, <1>7, <2>1, FlattenBlocks
<1>9. F[n] = FlattenSeq(s) /\ F[n] \in Seq(Part)
  BY <1>1, <1>3, <1>5
<1> QED
  BY <1>8, <1>9 DEF IsBlock, g, n, s

\* The first three parts, those of the header fields, the last two.
LEMMA PartsShape ==
    ASSUME NEW r \in Requests
    PROVE  /\ Parts(r) \in Seq(Part) /\ Len(Parts(r)) = Total(r)
           /\ Parts(r)[1] = Gap /\ Parts(r)[2] = UrlPart(r) /\ Parts(r)[3] = Gap
           /\ \A h \in 1 .. Len(r.headers) :
                  /\ Parts(r)[4 * h] = FieldPart(r, h) /\ Parts(r)[4 * h + 1] = Gap
                  /\ Parts(r)[4 * h + 2] = ValuePart(r, h) /\ Parts(r)[4 * h + 3] = Gap
           /\ Parts(r)[Total(r) - 1] = Gap /\ Parts(r)[Total(r)] = BodyPart(r)
<1> DEFINE n == Len(r.headers)
           a == <<Gap, UrlPart(r), Gap>>
           s == FlattenSeq([h \in DOMAIN r.headers |-> HeaderParts(r, h)])
           b == <<Gap, BodyPart(r)>>
<1>1. n \in Nat
  BY RequestType
<1>2. s \in Seq(Part) /\ Len(s) = n * 4 /\ \A k \in 1 .. n * 4 : s[k] = HeaderPart(r, k)
  BY HeaderShape
<1>3. a \in Seq(Part) /\ Len(a) = 3 /\ b \in Seq(Part) /\ Len(b) = 2
  BY PartTypes
<1>4. a[1] = Gap /\ a[2] = UrlPart(r) /\ a[3] = Gap /\ b[1] = Gap /\ b[2] = BodyPart(r)
  OBVIOUS
<1>5. Parts(r) = (a \o s) \o b
  BY DEF Parts, UrlPart, BodyPart, HeaderParts, FieldPart, ValuePart
<1> HIDE DEF a, s, b, n
<1>6. /\ Parts(r) \in Seq(Part) /\ Len(Parts(r)) = 4 * n + 5
      /\ \A k \in 1 .. 3 : Parts(r)[k] = a[k]
      /\ \A k \in 1 .. n * 4 : Parts(r)[3 + k] = s[k]
      /\ \A k \in 1 .. 2 : Parts(r)[4 * n + 3 + k] = b[k]
  <2> DEFINE x == a \o s
  <2>1. /\ x \in Seq(Part) /\ Len(x) = Len(a) + Len(s)
        /\ \A k \in 1 .. Len(a) : x[k] = a[k]
        /\ \A k \in 1 .. Len(s) : x[Len(a) + k] = s[k]
    BY <1>2, <1>3, PartsJoin
  <2>2. Len(x) = 4 * n + 3
    BY <1>1, <1>2, <1>3, <2>1
  <2>3. \A k \in 1 .. n * 4 : x[3 + k] = s[k]
    BY <1>2, <1>3, <2>1
  <2>4. Parts(r) = x \o b
    BY <1>5
  <2> HIDE DEF x
  <2>5. /\ x \o b \in Seq(Part) /\ Len(x \o b) = Len(x) + Len(b)
        /\ \A k \in 1 .. Len(x) : (x \o b)[k] = x[k]
        /\ \A k \in 1 .. Len(b) : (x \o b)[Len(x) + k] = b[k]
    BY <1>3, <2>1, PartsJoin
  <2>6. /\ \A k \in 1 .. 4 * n + 3 : Parts(r)[k] = x[k]
        /\ \A k \in 1 .. 2 : Parts(r)[4 * n + 3 + k] = b[k]
    BY <1>3, <2>2, <2>4, <2>5
  <2>7. Parts(r) \in Seq(Part) /\ Len(Parts(r)) = 4 * n + 5
    BY <1>1, <1>3, <2>2, <2>4, <2>5
  <2>8. \A k \in 1 .. 3 : Parts(r)[k] = a[k]
    BY <1>1, <1>3, <2>1, <2>6
  <2>9. ASSUME NEW k \in 1 .. n * 4 PROVE Parts(r)[3 + k] = s[k]
    <3>1. 3 + k \in 1 .. 4 * n + 3
      BY <1>1
    <3> QED
      BY <2>3, <2>6, <3>1
  <2> QED
    BY <2>6, <2>7, <2>8, <2>9
<1>7. ASSUME NEW h \in 1 .. n
      PROVE  /\ Parts(r)[4 * h] = FieldPart(r, h) /\ Parts(r)[4 * h + 1] = Gap
             /\ Parts(r)[4 * h + 2] = ValuePart(r, h) /\ Parts(r)[4 * h + 3] = Gap
  <2>1. ASSUME NEW j \in 1 .. 4
        PROVE  Parts(r)[4 * h + (j - 1)] = IF j = 1 THEN FieldPart(r, h)
                                           ELSE IF j = 3 THEN ValuePart(r, h) ELSE Gap
    <3> DEFINE k == 4 * (h - 1) + j
    <3>1. /\ k \in 1 .. n * 4 /\ 3 + k = 4 * h + (j - 1) /\ (k - 1) % 4 = j - 1
          /\ ((k - 1) \div 4) + 1 = h
      BY <1>1
    <3> HIDE DEF k
    <3>2. Parts(r)[3 + k] = HeaderPart(r, k)
      BY <1>2, <1>6, <3>1
    <3>3. HeaderPart(r, k) = IF j - 1 = 0 THEN FieldPart(r, h)
                             ELSE IF j - 1 = 2 THEN ValuePart(r, h) ELSE Gap
      BY <3>1 DEF HeaderPart
    <3> QED
      BY <3>1, <3>2, <3>3
  <2>2. h \in Nat
    BY <1>1
  <2>3. 4 * h + (1 - 1) = 4 * h /\ 4 * h + (2 - 1) = 4 * h + 1 /\ 4 * h + (3 - 1) = 4 * h + 2
        /\ 4 * h + (4 - 1) = 4 * h + 3
    BY <2>2
  <2> QED
    BY <2>1, <2>3
<1>8. Total(r) = 4 * n + 5 /\ Total(r) - 1 = 4 * n + 3 + 1 /\ Total(r) = 4 * n + 3 + 2
  BY <1>1 DEF Total, n
<1>9. /\ Parts(r)[1] = Gap /\ Parts(r)[2] = UrlPart(r) /\ Parts(r)[3] = Gap
      /\ Parts(r)[Total(r) - 1] = Gap /\ Parts(r)[Total(r)] = BodyPart(r)
  BY <1>4, <1>6, <1>8
<1> QED
  BY <1>6, <1>7, <1>8, <1>9 DEF n
(***************************************************************************)
(* The stream, and the place of each part in it.                           *)
(***************************************************************************)
LEMMA TextTypes ==
    ASSUME NEW r \in Requests, NEW i \in 1 .. Total(r)
    PROVE  /\ Parts(r)[i] \in Part /\ Parts(r)[i].kind \in Kinds
           /\ Parts(r)[i].text \in Seq(Char) /\ Len(Parts(r)[i].text) \in Nat
<1>1. Parts(r)[i] \in Part
  BY PartsShape
<1> QED
  BY <1>1 DEF Part

\* A function of partial sums is defined, and is the length of what is joined.
LEMMA AtIs ==
    ASSUME NEW r \in Requests, NEW F \in [0 .. Total(r) -> Seq(Char)], F[0] = <<>>,
           \A i \in 1 .. Total(r) : F[i] = F[i - 1] \o Parts(r)[i].text,
           NEW i \in 1 .. Total(r)
    PROVE  At(r, i) = Len(F[i - 1])
<1> DEFINE Sums(f) == [k \in 0 .. i - 1 |-> IF k = 0 THEN 0 ELSE f[k - 1] + Len(Parts(r)[k].text)]
           e == CHOOSE f : f = Sums(f)
           g == [k \in 0 .. i - 1 |-> Len(F[k])]
<1>0. Total(r) \in Nat
  BY RequestType DEF Total
<1>1. At(r, i) = e[i - 1]
  BY DEF At
<1>2. ASSUME NEW k \in 0 .. i - 1 PROVE g[k] = IF k = 0 THEN 0 ELSE g[k - 1] + Len(Parts(r)[k].text)
  <2>1. CASE k = 0
    BY <2>1
  <2>2. CASE k # 0
    <3>1. k \in 1 .. Total(r) /\ k - 1 \in 0 .. i - 1 /\ k - 1 \in 0 .. Total(r)
      BY <1>0, <2>2
    <3>2. F[k] = F[k - 1] \o Parts(r)[k].text /\ F[k - 1] \in Seq(Char)
      BY <3>1
    <3>3. Parts(r)[k].text \in Seq(Char)
      BY <3>1, TextTypes
    <3>4. Len(F[k]) = Len(F[k - 1]) + Len(Parts(r)[k].text)
      BY <3>2, <3>3
    <3> QED
      BY <2>2, <3>1, <3>4
  <2> QED
    BY <2>1, <2>2
<1>3. g = Sums(g)
  <2>1. g = [k \in 0 .. i - 1 |-> g[k]]
    OBVIOUS
  <2> HIDE DEF g
  <2> QED
    BY <1>2, <2>1
<1>4. e = Sums(e)
  <2> HIDE DEF g, Sums
  <2> QED
    BY <1>3
<1>5. \A k \in 0 .. i - 1 : e[k] = IF k = 0 THEN 0 ELSE e[k - 1] + Len(Parts(r)[k].text)
  <2> HIDE DEF e
  <2>1. e = [k \in 0 .. i - 1 |-> IF k = 0 THEN 0 ELSE e[k - 1] + Len(Parts(r)[k].text)]
    BY <1>4
  <2> QED
    BY <2>1
<1> HIDE DEF e, Sums
<1> DEFINE S == {k \in Nat : k <= i - 1 => e[k] = g[k]}
<1>6. 0 \in S
  <2>1. 0 \in 0 .. i - 1
    BY <1>0
  <2> QED
    BY <1>2, <1>5, <2>1
<1>7. ASSUME NEW k \in Nat, k \in S PROVE k + 1 \in S
  <2> HIDE DEF g
  <2> SUFFICES ASSUME k + 1 <= i - 1 PROVE e[k + 1] = g[k + 1]
    OBVIOUS
  <2>1. k + 1 \in 0 .. i - 1 /\ k + 1 # 0 /\ (k + 1) - 1 = k /\ k <= i - 1
    BY <1>0
  <2>2. e[k] = g[k]
    BY <1>7, <2>1
  <2> QED
    BY <1>2, <1>5, <2>1, <2>2
<1>8. i - 1 \in S
  <2> HIDE DEF S
  <2>1. \A k \in Nat : k \in S
    BY <1>6, <1>7, NatSetInduction
  <2> QED
    BY <1>0, <2>1
<1> QED
  BY <1>0, <1>1, <1>8

\* The stream is joined from the texts of the parts.
LEMMA StreamSteps ==
    ASSUME NEW r \in Requests
    PROVE  \E F \in [0 .. Total(r) -> Seq(Char)] :
               /\ F[0] = <<>> /\ F[Total(r)] = Stream(r)
               /\ \A i \in 1 .. Total(r) : F[i] = F[i - 1] \o Parts(r)[i].text
<1> DEFINE s == [i \in DOMAIN Parts(r) |-> Parts(r)[i].text]
           n == Total(r)
<1>1. n \in Nat /\ DOMAIN Parts(r) = 1 .. n
  <2>1. n \in Nat
    BY RequestType DEF Total
  <2> QED
    BY <2>1, PartsShape
<1>2. s \in Seq(Seq(Char)) /\ Len(s) = n /\ \A i \in 1 .. n : s[i] = Parts(r)[i].text
  <2>1. \A i \in 1 .. n : Parts(r)[i].text \in Seq(Char)
    BY TextTypes
  <2>2. s \in [1 .. n -> Seq(Char)]
    BY <1>1, <2>1
  <2> QED
    BY <1>1, <2>2
<1>3. Stream(r) = FlattenSeq(s)
  BY DEF Stream
<1> HIDE DEF s, n
<1>4. PICK F \in [0 .. Len(s) -> Seq(Char)] :
               /\ F[0] = <<>> /\ F[Len(s)] = FlattenSeq(s)
               /\ \A i \in 1 .. Len(s) : F[i] = F[i - 1] \o s[i]
  BY <1>2, FlattenSteps
<1> QED
  BY <1>2, <1>3, <1>4 DEF n

\* Each part of the request is in the stream, whole, at its place.
LEMMA PlaceOf ==
    ASSUME NEW r \in Requests, NEW i \in 1 .. Total(r)
    PROVE  /\ Stream(r) \in Seq(Char) /\ At(r, i) \in Nat
           /\ At(r, i) + Len(Parts(r)[i].text) <= Len(Stream(r))
           /\ \A k \in 1 .. Len(Parts(r)[i].text) :
                  Stream(r)[At(r, i) + k] = Parts(r)[i].text[k]
<1> DEFINE n == Total(r)
<1>0. n \in Nat
  BY RequestType DEF Total
<1>1. PICK F \in [0 .. n -> Seq(Char)] :
               /\ F[0] = <<>> /\ F[n] = Stream(r)
               /\ \A j \in 1 .. n : F[j] = F[j - 1] \o Parts(r)[j].text
  BY StreamSteps
<1>2. At(r, i) = Len(F[i - 1])
  BY <1>1, AtIs
<1>3. JoinSteps(F, n, Char)
  BY <1>0, <1>1, TextTypes DEF JoinSteps
<1>4. Begins(F[i], F[n])
  <2>1. i \in 0 .. n
    BY <1>0
  <2> HIDE DEF n
  <2> QED
    BY <1>3, <2>1, FlattenGrows
<1>5. PICK x \in Seq(Char) : x = F[i - 1]
  BY <1>0, <1>1
<1>6. PICK t \in Seq(Char) : t = Parts(r)[i].text
  BY TextTypes
<1>7. PICK y \in Seq(Char) : y = F[i]
  BY <1>0, <1>1
<1>8. PICK z \in Seq(Char) : z = Stream(r)
  BY <1>0, <1>1
<1>9. y = x \o t /\ Begins(y, z) /\ At(r, i) = Len(x)
  BY <1>1, <1>2, <1>4, <1>5, <1>6, <1>7, <1>8
<1>10. /\ Len(x) + Len(t) <= Len(z)
       /\ \A k \in 1 .. Len(t) : z[Len(x) + k] = t[k]
  <2>1. Len(y) = Len(x) + Len(t) /\ Len(x) \in Nat /\ Len(t) \in Nat
    BY <1>9
  <2>2. ASSUME NEW k \in 1 .. Len(t) PROVE z[Len(x) + k] = t[k]
    <3>1. Len(x) + k \in 1 .. Len(y) /\ ~(Len(x) + k <= Len(x)) /\ (Len(x) + k) - Len(x) = k
      BY <2>1
    <3>2. y[Len(x) + k] = t[k]
      BY <1>9, <2>1, <3>1
    <3>3. z[Len(x) + k] = y[Len(x) + k]
      BY <1>9, <3>1 DEF Begins
    <3> QED
      BY <3>2, <3>3
  <2>3. Len(y) <= Len(z)
    BY <1>9 DEF Begins
  <2> QED
    BY <2>1, <2>2, <2>3
<1>11. Len(x) \in Nat
  OBVIOUS
<1> QED
  BY <1>6, <1>8, <1>9, <1>10, <1>11

\* The url is the second part, behind one byte for the method.
LEMMA UrlAt == ASSUME NEW r \in Requests PROVE At(r, 2) = 1 /\ 2 \in 1 .. Total(r)
<1>1. 2 \in 1 .. Total(r) /\ 1 \in 1 .. Total(r) /\ Total(r) \in Nat
  BY RequestType DEF Total
<1>2. PICK F \in [0 .. Total(r) -> Seq(Char)] :
               /\ F[0] = <<>> /\ F[Total(r)] = Stream(r)
               /\ \A j \in 1 .. Total(r) : F[j] = F[j - 1] \o Parts(r)[j].text
  BY StreamSteps
<1>3. At(r, 2) = Len(F[1])
  <2>1. At(r, 2) = Len(F[2 - 1])
    BY <1>1, <1>2, AtIs
  <2> QED
    BY <2>1
<1>4. F[1] = <<>> \o Gap.text
  <2>1. F[1] = F[1 - 1] \o Parts(r)[1].text
    BY <1>1, <1>2
  <2>2. Parts(r)[1] = Gap
    BY PartsShape
  <2>3. 1 - 1 = 0 /\ F[0] = <<>>
    BY <1>2
  <2> QED
    BY <2>1, <2>2, <2>3
<1>5. Gap.text = <<"_">>
  BY DEF Gap
<1>6. Len(<<>> \o <<"_">>) = 1
  <2>1. \A s \in Seq(Char) : Len(<<>> \o s) = Len(s)
    OBVIOUS
  <2>2. Gap.text \in Seq(Char)
    BY PartTypes DEF Part
  <2> QED
    BY <1>5, <2>1, <2>2
<1> QED
  BY <1>1, <1>3, <1>4, <1>5, <1>6
(***************************************************************************)
(* The calls for one part.                                                 *)
(***************************************************************************)
LEMMA PageNat == Page \in Nat /\ Page > 0
  BY PageAssumption

LEMMA DivMod ==
    ASSUME NEW p \in Nat
    PROVE  /\ p \div Page \in Nat /\ p % Page \in 0 .. Page - 1
           /\ (p \div Page) * Page \in Nat
           /\ p = (p \div Page) * Page + (p % Page)
  BY PageNat, SMTT(30)

LEMMA Products ==
    /\ \A k \in Nat : k * Page \in Nat /\ (k + 1) * Page = k * Page + Page
    /\ \A k, m \in Nat : k <= m => k * Page <= m * Page
  BY PageNat, SMTT(30)

CallSet == [kind : Kinds, at : Nat, length : Nat]

\* The calls c tell the n characters from a on, one after another.
IsCut(c, kind, a, n) ==
    /\ c \in Seq(CallSet) /\ \A j \in 1 .. Len(c) : c[j].kind = kind
    /\ n = 0 /\ kind # "value" => c = <<>>
    /\ n > 0 \/ kind = "value" =>
           /\ Len(c) > 0 /\ c[1].at = a
           /\ c[Len(c)].at + c[Len(c)].length = a + n
    /\ \A j \in 1 .. Len(c) - 1 : c[j].at + c[j].length = c[j + 1].at

\* Where call j of a range begins and ends, when the range begins in page k.
From(a, k, j) == Larger(a, (k + j - 1) * Page)
To(a, n, k, j) == Lesser(a + n, (k + j) * Page)

\* A range of n > 0 from a on touches m pages, of which k is the first.
Touches(a, n, k, m) == n > 0 /\ k = a \div Page /\ m = ((a + n - 1) \div Page) - k + 1

LEMMA EdgeFacts ==
    ASSUME NEW a \in Nat, NEW n \in Nat, NEW k, NEW m, Touches(a, n, k, m)
    PROVE  /\ m \in Nat /\ m > 0 /\ k \in Nat
           /\ From(a, k, 1) = a /\ To(a, n, k, m) = a + n
           /\ \A j \in 1 .. m : /\ From(a, k, j) \in Nat /\ To(a, n, k, j) \in Nat
                                /\ From(a, k, j) <= To(a, n, k, j)
           /\ \A j \in 1 .. m - 1 : To(a, n, k, j) = From(a, k, j + 1)
<1> DEFINE q == (a + n - 1) \div Page
           E(i) == i * Page
<1>0. n > 0 /\ k = a \div Page /\ m = q - k + 1
  BY DEF Touches
<1>1. a + n - 1 \in Nat
  BY <1>0
<1>2. k \in Nat /\ E(k) \in Nat /\ E(k) <= a /\ a < E(k) + Page
  BY <1>0, DivMod, PageNat
<1>3. q \in Nat /\ E(q) \in Nat /\ E(q) <= a + n - 1 /\ a + n - 1 < E(q) + Page
  BY <1>1, DivMod, PageNat
<1>4. \A i \in Nat : E(i) \in Nat /\ E(i + 1) = E(i) + Page
  BY Products
<1>5. \A i, j \in Nat : i <= j => E(i) <= E(j)
  BY Products
<1>6. \A j : From(a, k, j) = Larger(a, E(k + j - 1)) /\ To(a, n, k, j) = Lesser(a + n, E(k + j))
  BY DEF From, To
<1> HIDE DEF E, q
<1>7. k <= q
  <2> SUFFICES ASSUME q + 1 <= k PROVE FALSE
    BY <1>2, <1>3
  <2>1. E(q + 1) <= E(k) /\ E(q + 1) = E(q) + Page
    BY <1>2, <1>3, <1>4, <1>5
  <2> QED
    BY <1>0, <1>2, <1>3, <2>1, PageNat
<1>8. m \in Nat /\ m > 0 /\ m = q - k + 1
  BY <1>0, <1>2, <1>3, <1>7
<1>9. ASSUME NEW j \in 1 .. m
      PROVE  /\ E(k + j - 1) \in Nat /\ E(k + j) = E(k + j - 1) + Page
             /\ E(k + j - 1) < a + n /\ a < E(k + j)
  <2>1. k + j - 1 \in Nat /\ (k + j - 1) + 1 = k + j /\ k + j - 1 <= q /\ k + 1 <= k + j
        /\ k + 1 \in Nat /\ k + j \in Nat
    BY <1>2, <1>3, <1>8
  <2>2. E(k + j - 1) \in Nat /\ E(k + j) = E(k + j - 1) + Page /\ E(k + j) \in Nat
    BY <1>4, <2>1
  <2>3. E(k + j - 1) <= E(q)
    BY <1>3, <1>5, <2>1
  <2>4. E(k + 1) <= E(k + j) /\ E(k + 1) = E(k) + Page
    BY <1>2, <1>4, <1>5, <2>1
  <2>5. E(k + j - 1) < a + n
    BY <1>3, <2>2, <2>3
  <2>6. a < E(k + j)
    BY <1>2, <2>2, <2>4, PageNat
  <2> QED
    BY <2>2, <2>5, <2>6
<1>10. From(a, k, 1) = a
  <2>1. k + 1 - 1 = k
    BY <1>2
  <2> QED
    BY <1>2, <1>6, <2>1 DEF Larger
<1>11. To(a, n, k, m) = a + n
  <2>1. k + m = q + 1
    BY <1>2, <1>3, <1>8
  <2>2. E(k + m) = E(q) + Page
    BY <1>3, <1>4, <2>1
  <2>3. a + n <= E(k + m)
    BY <1>3, <2>2, PageNat
  <2> QED
    BY <1>6, <2>3 DEF Lesser
<1>12. \A j \in 1 .. m : /\ From(a, k, j) \in Nat /\ To(a, n, k, j) \in Nat
                         /\ From(a, k, j) <= To(a, n, k, j)
  <2> SUFFICES ASSUME NEW j \in 1 .. m
               PROVE  /\ From(a, k, j) \in Nat /\ To(a, n, k, j) \in Nat
                      /\ From(a, k, j) <= To(a, n, k, j)
    OBVIOUS
  <2> QED
    BY <1>6, <1>9, PageNat DEF Larger, Lesser
<1>13. \A j \in 1 .. m - 1 : To(a, n, k, j) = From(a, k, j + 1)
  <2> SUFFICES ASSUME NEW j \in 1 .. m - 1 PROVE To(a, n, k, j) = From(a, k, j + 1)
    OBVIOUS
  <2>1. j \in 1 .. m /\ j + 1 \in 1 .. m /\ k + (j + 1) - 1 = k + j
    BY <1>2, <1>8
  <2>2. a < E(k + j) /\ E(k + j) < a + n /\ E(k + j) \in Nat
    <3>1. E(k + (j + 1) - 1) < a + n /\ E(k + (j + 1) - 1) \in Nat
      BY <1>9, <2>1
    <3> QED
      BY <1>9, <2>1, <3>1
  <2>3. To(a, n, k, j) = E(k + j)
    BY <1>6, <2>2 DEF Lesser
  <2>4. From(a, k, j + 1) = E(k + j)
    <3>1. From(a, k, j + 1) = Larger(a, E(k + j))
      BY <1>6, <2>1
    <3> QED
      BY <2>2, <3>1 DEF Larger
  <2> QED
    BY <2>3, <2>4
<1> QED
  BY <1>2, <1>8, <1>10, <1>11, <1>12, <1>13

LEMMA Cut ==
    ASSUME NEW kind \in Kinds, NEW a \in Nat, NEW n \in Nat
    PROVE  IsCut(Calls(kind, a, n), kind, a, n)
<1>1. CASE n = 0 /\ kind # "value"
  <2>1. Calls(kind, a, n) = <<>>
    BY <1>1 DEF Calls
  <2>2. \A c : c = <<>> => IsCut(c, kind, a, n)
    BY <1>1 DEF IsCut
  <2> QED
    BY <2>1, <2>2
<1>2. CASE n = 0 /\ kind = "value"
  <2> DEFINE e == [kind |-> kind, at |-> a, length |-> 0]
  <2>1. Calls(kind, a, n) = <<e>>
    BY <1>2 DEF Calls
  <2>2. e \in CallSet /\ e.kind = kind /\ e.at = a /\ e.length = 0
    BY DEF CallSet
  <2> HIDE DEF e
  <2>3. <<e>> \in Seq(CallSet) /\ Len(<<e>>) = 1 /\ <<e>>[1] = e
    BY <2>2
  <2>4. \A c : (c \in Seq(CallSet) /\ Len(c) = 1 /\ c[1] = e) => IsCut(c, kind, a, n)
    BY <1>2, <2>2 DEF IsCut
  <2> QED
    BY <2>1, <2>3, <2>4
<1>3. CASE n > 0
  <2>1. PICK k : k = a \div Page
    OBVIOUS
  <2>2. PICK m : m = ((a + n - 1) \div Page) - k + 1
    OBVIOUS
  <2> DEFINE c == [j \in 1 .. m |-> [kind |-> kind, at |-> From(a, k, j),
                                     length |-> To(a, n, k, j) - From(a, k, j)]]
  <2>3. Calls(kind, a, n) = c
    BY <1>3, <2>1, <2>2 DEF Calls, From, To
  <2>4. /\ m \in Nat /\ m > 0
        /\ From(a, k, 1) = a /\ To(a, n, k, m) = a + n
        /\ \A j \in 1 .. m : /\ From(a, k, j) \in Nat /\ To(a, n, k, j) \in Nat
                             /\ From(a, k, j) <= To(a, n, k, j)
        /\ \A j \in 1 .. m - 1 : To(a, n, k, j) = From(a, k, j + 1)
    <3>1. Touches(a, n, k, m)
      BY <1>3, <2>1, <2>2 DEF Touches
    <3> QED
      BY <3>1, EdgeFacts
  <2>5. \A j \in 1 .. m : /\ c[j].kind = kind /\ c[j].at = From(a, k, j) /\ c[j] \in CallSet
                          /\ c[j].at + c[j].length = To(a, n, k, j)
    <3> SUFFICES ASSUME NEW j \in 1 .. m
                 PROVE  /\ c[j].kind = kind /\ c[j].at = From(a, k, j) /\ c[j] \in CallSet
                        /\ c[j].at + c[j].length = To(a, n, k, j)
      OBVIOUS
    <3>1. c[j] = [kind |-> kind, at |-> From(a, k, j), length |-> To(a, n, k, j) - From(a, k, j)]
      OBVIOUS
    <3>2. To(a, n, k, j) - From(a, k, j) \in Nat /\ From(a, k, j) \in Nat /\ To(a, n, k, j) \in Nat
      BY <2>4
    <3> HIDE DEF c
    <3> QED
      BY <3>1, <3>2 DEF CallSet
  <2>6. c \in Seq(CallSet) /\ Len(c) = m
    <3>1. c = [j \in 1 .. m |-> c[j]]
      OBVIOUS
    <3> HIDE DEF c
    <3>2. c \in [1 .. m -> CallSet]
      BY <2>5, <3>1
    <3> QED
      BY <2>4, <3>2
  <2> HIDE DEF c
  <2>7. c[1].at = a /\ c[m].at + c[m].length = a + n
    <3>1. 1 \in 1 .. m /\ m \in 1 .. m
      BY <2>4
    <3> QED
      BY <2>4, <2>5, <3>1
  <2>8. \A j \in 1 .. m - 1 : c[j].at + c[j].length = c[j + 1].at
    <3> SUFFICES ASSUME NEW j \in 1 .. m - 1 PROVE c[j].at + c[j].length = c[j + 1].at
      OBVIOUS
    <3>1. j \in 1 .. m /\ j + 1 \in 1 .. m
      BY <2>4
    <3> QED
      BY <2>4, <2>5, <3>1
  <2>9. IsCut(c, kind, a, n)
    BY <1>3, <2>4, <2>5, <2>6, <2>7, <2>8 DEF IsCut
  <2> QED
    BY <2>3, <2>9
<1> QED
  BY <1>1, <1>2, <1>3
(***************************************************************************)
(* All calls of a request, and how many there are for the first parts.     *)
(***************************************************************************)
PartCalls(r, i) ==
    IF Parts(r)[i].kind = "gap" THEN <<>>
    ELSE Calls(Parts(r)[i].kind, At(r, i), Len(Parts(r)[i].text))

LEMMA PartCut ==
    ASSUME NEW r \in Requests, NEW i \in 1 .. Total(r)
    PROVE  /\ PartCalls(r, i) \in Seq(CallSet) /\ Len(PartCalls(r, i)) \in Nat
           /\ Parts(r)[i].kind = "gap" => Len(PartCalls(r, i)) = 0
           /\ Parts(r)[i].kind # "gap" =>
                  IsCut(PartCalls(r, i), Parts(r)[i].kind, At(r, i), Len(Parts(r)[i].text))
<1>1. /\ Parts(r)[i].kind \in Kinds /\ At(r, i) \in Nat /\ Len(Parts(r)[i].text) \in Nat
  BY TextTypes, PlaceOf
<1>2. CASE Parts(r)[i].kind = "gap"
  <2>1. PartCalls(r, i) = <<>>
    BY <1>2 DEF PartCalls
  <2> QED
    BY <1>2, <2>1
<1>3. CASE Parts(r)[i].kind # "gap"
  <2>1. PartCalls(r, i) = Calls(Parts(r)[i].kind, At(r, i), Len(Parts(r)[i].text))
    BY <1>3 DEF PartCalls
  <2>2. IsCut(PartCalls(r, i), Parts(r)[i].kind, At(r, i), Len(Parts(r)[i].text))
    BY <1>1, <2>1, Cut
  <2>3. PartCalls(r, i) \in Seq(CallSet)
    BY <2>2 DEF IsCut
  <2> QED
    BY <1>3, <2>2, <2>3
<1> QED
  BY <1>2, <1>3

\* K[i] is the number of calls for the parts 1 to i.
Counts(r, K) ==
    /\ K \in [0 .. Total(r) -> Nat] /\ K[0] = 0 /\ K[Total(r)] = Len(AllCalls(r))
    /\ \A i \in 1 .. Total(r) :
           /\ K[i] = K[i - 1] + Len(PartCalls(r, i))
           /\ \A j \in 1 .. Len(PartCalls(r, i)) : AllCalls(r)[K[i - 1] + j] = PartCalls(r, i)[j]

LEMMA CountsExist ==
    ASSUME NEW r \in Requests
    PROVE  AllCalls(r) \in Seq(CallSet) /\ \E K : Counts(r, K)
<1> DEFINE n == Total(r)
           s == [i \in DOMAIN Parts(r) |->
                    IF Parts(r)[i].kind = "gap" THEN <<>>
                    ELSE Calls(Parts(r)[i].kind, At(r, i), Len(Parts(r)[i].text))]
<1>1. n \in Nat /\ DOMAIN Parts(r) = 1 .. n
  <2>1. n \in Nat
    BY RequestType DEF Total
  <2> QED
    BY <2>1, PartsShape
<1>2. s \in Seq(Seq(CallSet)) /\ Len(s) = n /\ \A i \in 1 .. n : s[i] = PartCalls(r, i)
  <2>1. \A i \in 1 .. n : s[i] = PartCalls(r, i) /\ s[i] \in Seq(CallSet)
    BY <1>1, PartCut DEF PartCalls
  <2>2. s = [i \in 1 .. n |-> s[i]]
    BY <1>1
  <2> HIDE DEF s
  <2>3. s \in [1 .. n -> Seq(CallSet)]
    BY <2>1, <2>2
  <2> QED
    BY <1>1, <2>1, <2>3
<1>3. AllCalls(r) = FlattenSeq(s)
  BY DEF AllCalls
<1> HIDE DEF s
<1>4. PICK F \in [0 .. Len(s) -> Seq(CallSet)] :
               /\ F[0] = <<>> /\ F[Len(s)] = FlattenSeq(s)
               /\ \A i \in 1 .. Len(s) : F[i] = F[i - 1] \o s[i]
  BY <1>2, FlattenSteps
<1> HIDE DEF n
<1>5. /\ F \in [0 .. n -> Seq(CallSet)] /\ F[0] = <<>> /\ F[n] = AllCalls(r)
      /\ \A i \in 1 .. n : F[i] = F[i - 1] \o PartCalls(r, i) /\ PartCalls(r, i) \in Seq(CallSet)
  BY <1>2, <1>3, <1>4, PartCut DEF n
<1>6. JoinSteps(F, n, CallSet)
  BY <1>1, <1>5 DEF JoinSteps
<1> DEFINE K == [i \in 0 .. n |-> Len(F[i])]
<1>7. K \in [0 .. n -> Nat] /\ K[0] = 0 /\ K[n] = Len(AllCalls(r))
  BY <1>1, <1>5
<1>8. ASSUME NEW i \in 1 .. n
      PROVE  /\ K[i] = K[i - 1] + Len(PartCalls(r, i))
             /\ \A j \in 1 .. Len(PartCalls(r, i)) : AllCalls(r)[K[i - 1] + j] = PartCalls(r, i)[j]
  <2>1. i \in 0 .. n /\ i - 1 \in 0 .. n
    BY <1>1
  <2>2. Begins(F[i], F[n])
    BY <1>6, <2>1, FlattenGrows
  <2>3. PICK x \in Seq(CallSet) : x = F[i - 1]
    BY <1>5, <2>1
  <2>4. PICK y \in Seq(CallSet) : y = F[i]
    BY <1>5, <2>1
  <2>5. PICK c \in Seq(CallSet) : c = PartCalls(r, i)
    BY <1>5
  <2>6. PICK z \in Seq(CallSet) : z = AllCalls(r)
    BY <1>1, <1>5
  <2>7. y = x \o c /\ Begins(y, z) /\ K[i - 1] = Len(x) /\ K[i] = Len(y)
    BY <1>5, <2>1, <2>2, <2>3, <2>4, <2>5, <2>6
  <2> HIDE DEF K
  <2>8. Len(y) = Len(x) + Len(c)
    BY <2>7
  <2>9. ASSUME NEW j \in 1 .. Len(c) PROVE z[Len(x) + j] = c[j]
    <3>1. Len(x) + j \in 1 .. Len(y) /\ ~(Len(x) + j <= Len(x)) /\ (Len(x) + j) - Len(x) = j
      BY <2>8
    <3>2. y[Len(x) + j] = c[j]
      BY <2>7, <2>8, <3>1
    <3>3. z[Len(x) + j] = y[Len(x) + j]
      BY <2>7, <3>1 DEF Begins
    <3> QED
      BY <3>2, <3>3
  <2> QED
    BY <2>5, <2>6, <2>7, <2>8, <2>9
<1> HIDE DEF K
<1>9. Counts(r, K)
  BY <1>7, <1>8 DEF Counts, n
<1>10. AllCalls(r) \in Seq(CallSet)
  BY <1>1, <1>5
<1> QED
  BY <1>9, <1>10

\* The calls for the parts 1 to i.
CallsTo(r) == CHOOSE K : Counts(r, K)

LEMMA CallsToCounts ==
    ASSUME NEW r \in Requests
    PROVE  /\ AllCalls(r) \in Seq(CallSet) /\ Len(AllCalls(r)) \in Nat /\ Total(r) \in Nat
           /\ CallsTo(r) \in [0 .. Total(r) -> Nat]
           /\ CallsTo(r)[0] = 0 /\ CallsTo(r)[Total(r)] = Len(AllCalls(r))
           /\ \A i \in 1 .. Total(r) :
                  /\ CallsTo(r)[i] = CallsTo(r)[i - 1] + Len(PartCalls(r, i))
                  /\ \A j \in 1 .. Len(PartCalls(r, i)) :
                         AllCalls(r)[CallsTo(r)[i - 1] + j] = PartCalls(r, i)[j]
<1>1. Counts(r, CallsTo(r))
  BY CountsExist DEF CallsTo
<1>2. AllCalls(r) \in Seq(CallSet)
  BY CountsExist
<1>3. Total(r) \in Nat
  BY RequestType DEF Total
<1> QED
  BY <1>1, <1>2, <1>3 DEF Counts

\* Later parts have their calls later.
LEMMA CallsGrow ==
    ASSUME NEW r \in Requests, NEW i \in 0 .. Total(r), NEW j \in 0 .. Total(r), i <= j
    PROVE  CallsTo(r)[i] <= CallsTo(r)[j]
<1> DEFINE n == Total(r)
           K == CallsTo(r)
           S == {m \in Nat : i + m <= n => K[i] <= K[i + m]}
<1>1. n \in Nat /\ K \in [0 .. n -> Nat]
      /\ \A m \in 1 .. n : K[m] = K[m - 1] + Len(PartCalls(r, m)) /\ Len(PartCalls(r, m)) \in Nat
  BY CallsToCounts, PartCut
<1> HIDE DEF n, K
<1>2. 0 \in S
  <2>1. i \in 0 .. n /\ i \in Nat
    BY <1>1 DEF n
  <2>2. i + 0 = i /\ K[i] \in Nat /\ K[i] <= K[i]
    BY <1>1, <2>1
  <2> QED
    BY <2>2
<1>3. ASSUME NEW m \in Nat, m \in S PROVE m + 1 \in S
  <2> SUFFICES ASSUME i + (m + 1) <= n PROVE K[i] <= K[i + (m + 1)]
    OBVIOUS
  <2>0. i \in Nat
    BY <1>1 DEF n
  <2>1. i + (m + 1) \in 1 .. n /\ (i + (m + 1)) - 1 = i + m /\ i + m \in 0 .. n /\ i + m <= n
    BY <1>1, <2>0
  <2>2. K[i + (m + 1)] = K[i + m] + Len(PartCalls(r, i + (m + 1)))
        /\ Len(PartCalls(r, i + (m + 1))) \in Nat
    BY <1>1, <2>1
  <2>3. K[i] <= K[i + m]
    BY <1>3, <2>1
  <2>4. K[i] \in Nat /\ K[i + m] \in Nat
    BY <1>1, <2>1 DEF n
  <2> QED
    BY <2>2, <2>3, <2>4
<1>4. j - i \in S
  <2> HIDE DEF S
  <2>1. \A m \in Nat : m \in S
    BY <1>2, <1>3, NatSetInduction
  <2>2. j - i \in Nat
    BY <1>1 DEF n
  <2> QED
    BY <2>1, <2>2
<1>5. i + (j - i) = j /\ j <= n
  BY <1>1 DEF n
<1> QED
  BY <1>4, <1>5 DEF K

\* Call d is one of those for part i.
CallOf(r, d, i) == i \in 1 .. Total(r) /\ CallsTo(r)[i - 1] < d /\ d <= CallsTo(r)[i]

LEMMA PartOfCall ==
    ASSUME NEW r \in Requests, NEW d \in 1 .. Len(AllCalls(r))
    PROVE  \E i \in 1 .. Total(r) : CallOf(r, d, i)
<1> DEFINE n == Total(r)
           K == CallsTo(r)
           T == {i \in 0 .. n : d <= K[i]}
<1>1. n \in Nat /\ K \in [0 .. n -> Nat] /\ K[0] = 0 /\ K[n] = Len(AllCalls(r))
      /\ Len(AllCalls(r)) \in Nat
  BY CallsToCounts
<1> HIDE DEF n, K
<1>2. T \subseteq Nat /\ n \in T
  BY <1>1
<1>3. PICK i \in T : \A k \in T : i <= k
  <2> HIDE DEF T
  <2> QED
    BY <1>2, LeastNat
<1>4. i # 0 /\ i \in 0 .. n
  BY <1>1, <1>3
<1>5. i \in 1 .. n /\ i - 1 \in 0 .. n /\ ~(i <= i - 1)
  BY <1>1, <1>4
<1>6. ~(d <= K[i - 1])
  BY <1>3, <1>5
<1>7. K[i - 1] < d /\ d <= K[i]
  BY <1>1, <1>3, <1>5, <1>6
<1> QED
  BY <1>5, <1>7 DEF CallOf, n, K

\* What is known of a call from the part it belongs to.
LEMMA CallFacts ==
    ASSUME NEW r \in Requests, NEW d, NEW i, CallOf(r, d, i), d \in Nat
    PROVE  /\ i \in 1 .. Total(r) /\ d \in 1 .. Len(AllCalls(r))
           /\ AllCalls(r)[d] \in CallSet
           /\ AllCalls(r)[d].kind = Parts(r)[i].kind /\ Parts(r)[i].kind # "gap"
           /\ d = CallsTo(r)[i - 1] + 1 => AllCalls(r)[d].at = At(r, i)
           /\ d = CallsTo(r)[i] => AllCalls(r)[d].at + AllCalls(r)[d].length
                                       = At(r, i) + Len(Parts(r)[i].text)
           /\ d < CallsTo(r)[i] => AllCalls(r)[d].at + AllCalls(r)[d].length = AllCalls(r)[d + 1].at
<1> DEFINE n == Total(r)
           K == CallsTo(r)
           c == PartCalls(r, i)
           j == d - K[i - 1]
<1>1. i \in 1 .. n /\ K[i - 1] < d /\ d <= K[i]
  BY DEF CallOf
<1>2. /\ n \in Nat /\ K \in [0 .. n -> Nat] /\ K[n] = Len(AllCalls(r))
      /\ K[i] = K[i - 1] + Len(c) /\ \A m \in 1 .. Len(c) : AllCalls(r)[K[i - 1] + m] = c[m]
  BY <1>1, CallsToCounts
<1>3. c \in Seq(CallSet) /\ Len(c) \in Nat
      /\ (Parts(r)[i].kind = "gap" => Len(c) = 0)
      /\ (Parts(r)[i].kind # "gap" => IsCut(c, Parts(r)[i].kind, At(r, i), Len(Parts(r)[i].text)))
  BY <1>1, PartCut
<1>4. i \in 0 .. n /\ i - 1 \in 0 .. n /\ n \in 0 .. n /\ i <= n
  BY <1>1, <1>2
<1>5. K[i] <= K[n]
  BY <1>4, CallsGrow
<1> HIDE DEF n, K, c
<1>6. K[i - 1] \in Nat /\ K[i] \in Nat /\ K[n] \in Nat
  BY <1>2, <1>4
<1>7. j \in 1 .. Len(c) /\ d = K[i - 1] + j
  BY <1>1, <1>2, <1>3, <1>6
<1>8. AllCalls(r)[d] = c[j] /\ c[j] \in CallSet
  BY <1>2, <1>3, <1>7
<1>9. Parts(r)[i].kind # "gap"
  BY <1>3, <1>7
<1>10. d \in 1 .. Len(AllCalls(r))
  BY <1>1, <1>2, <1>5, <1>6
<1>11. /\ c[j].kind = Parts(r)[i].kind
       /\ c[1].at = At(r, i)
       /\ c[Len(c)].at + c[Len(c)].length = At(r, i) + Len(Parts(r)[i].text)
       /\ \A m \in 1 .. Len(c) - 1 : c[m].at + c[m].length = c[m + 1].at
  <2>1. IsCut(c, Parts(r)[i].kind, At(r, i), Len(Parts(r)[i].text))
    BY <1>3, <1>9
  <2>2. Len(Parts(r)[i].text) \in Nat
    BY <1>1, TextTypes DEF n
  <2>3. Len(Parts(r)[i].text) > 0 \/ Parts(r)[i].kind = "value"
    <3>1. c # <<>>
      BY <1>3, <1>7
    <3> QED
      BY <2>1, <2>2, <3>1 DEF IsCut
  <2> QED
    BY <1>7, <2>1, <2>3 DEF IsCut
<1>12. d = K[i - 1] + 1 => AllCalls(r)[d].at = At(r, i)
  <2>1. d = K[i - 1] + 1 => j = 1
    BY <1>6, <1>7
  <2> QED
    BY <1>8, <1>11, <2>1
<1>13. d = K[i] => AllCalls(r)[d].at + AllCalls(r)[d].length = At(r, i) + Len(Parts(r)[i].text)
  <2>1. d = K[i] => j = Len(c)
    BY <1>2, <1>3, <1>6, <1>7
  <2> QED
    BY <1>8, <1>11, <2>1
<1>14. d < K[i] => AllCalls(r)[d].at + AllCalls(r)[d].length = AllCalls(r)[d + 1].at
  <2> SUFFICES ASSUME d < K[i]
               PROVE  AllCalls(r)[d].at + AllCalls(r)[d].length = AllCalls(r)[d + 1].at
    OBVIOUS
  <2> HIDE DEF j
  <2>0. j < Len(c)
    BY <1>2, <1>3, <1>6, <1>7
  <2>1. j \in 1 .. Len(c) - 1 /\ j + 1 \in 1 .. Len(c) /\ d + 1 = K[i - 1] + (j + 1)
    BY <1>3, <1>6, <1>7, <2>0
  <2>2. AllCalls(r)[d + 1] = c[j + 1]
    BY <1>2, <2>1
  <2> QED
    BY <1>8, <1>11, <2>1, <2>2
<1> HIDE DEF j
<1> QED
  BY <1>1, <1>8, <1>9, <1>10, <1>11, <1>12, <1>13, <1>14 DEF n, K

\* A url, a name and a value are told in one call at least.
LEMMA Told ==
    ASSUME NEW r \in Requests, NEW i \in 1 .. Total(r)
    PROVE  /\ Parts(r)[i].kind = "value" => CallsTo(r)[i - 1] < CallsTo(r)[i]
           /\ Parts(r)[i].kind # "gap" /\ Len(Parts(r)[i].text) > 0
                  => CallsTo(r)[i - 1] < CallsTo(r)[i]
           /\ Parts(r)[i].kind = "gap" => CallsTo(r)[i - 1] = CallsTo(r)[i]
           /\ CallsTo(r)[i - 1] \in Nat /\ CallsTo(r)[i] \in Nat
           /\ CallsTo(r)[i - 1] <= CallsTo(r)[i] /\ CallsTo(r)[i] <= Len(AllCalls(r))
<1> DEFINE K == CallsTo(r)
           c == PartCalls(r, i)
<1>1. /\ K \in [0 .. Total(r) -> Nat] /\ Total(r) \in Nat /\ K[i] = K[i - 1] + Len(c)
      /\ K[Total(r)] = Len(AllCalls(r))
  BY CallsToCounts
<1>2. c \in Seq(CallSet) /\ Len(c) \in Nat
      /\ (Parts(r)[i].kind = "gap" => Len(c) = 0)
      /\ (Parts(r)[i].kind # "gap" => IsCut(c, Parts(r)[i].kind, At(r, i), Len(Parts(r)[i].text)))
  BY PartCut
<1>3. i \in 0 .. Total(r) /\ i - 1 \in 0 .. Total(r) /\ Total(r) \in 0 .. Total(r) /\ i <= Total(r)
  BY <1>1
<1>4. K[i] <= K[Total(r)]
  BY <1>3, CallsGrow
<1> HIDE DEF K, c
<1>5. K[i - 1] \in Nat /\ K[i] \in Nat
  BY <1>1, <1>3
<1>6. /\ Parts(r)[i].kind = "value" => Len(c) > 0
      /\ Parts(r)[i].kind # "gap" /\ Len(Parts(r)[i].text) > 0 => Len(c) > 0
  <2>1. ASSUME Parts(r)[i].kind = "value" PROVE Len(c) > 0
    <3>1. IsCut(c, Parts(r)[i].kind, At(r, i), Len(Parts(r)[i].text))
      BY <1>2, <2>1
    <3> QED
      BY <2>1, <3>1 DEF IsCut
  <2>2. ASSUME Parts(r)[i].kind # "gap" /\ Len(Parts(r)[i].text) > 0 PROVE Len(c) > 0
    <3>1. IsCut(c, Parts(r)[i].kind, At(r, i), Len(Parts(r)[i].text))
      BY <1>2, <2>2
    <3> QED
      BY <2>2, <3>1 DEF IsCut
  <2> QED
    BY <2>1, <2>2
<1>7. /\ Parts(r)[i].kind = "value" => K[i - 1] < K[i]
      /\ Parts(r)[i].kind # "gap" /\ Len(Parts(r)[i].text) > 0 => K[i - 1] < K[i]
      /\ Parts(r)[i].kind = "gap" => K[i - 1] = K[i]
      /\ K[i - 1] <= K[i]
  BY <1>1, <1>2, <1>5, <1>6
<1> QED
  BY <1>1, <1>4, <1>5, <1>7 DEF K
\* A call belongs to one part.
LEMMA OnePart ==
    ASSUME NEW r \in Requests, NEW d \in Nat, NEW i, NEW m, CallOf(r, d, i), CallOf(r, d, m)
    PROVE  i = m
<1> DEFINE n == Total(r)
           K == CallsTo(r)
<1>1. n \in Nat /\ K \in [0 .. n -> Nat]
  BY CallsToCounts
<1>2. i \in 1 .. n /\ K[i - 1] < d /\ d <= K[i] /\ m \in 1 .. n /\ K[m - 1] < d /\ d <= K[m]
  BY DEF CallOf
<1>3. i \in 0 .. n /\ m \in 0 .. n /\ i - 1 \in 0 .. n /\ m - 1 \in 0 .. n
  BY <1>1, <1>2
<1>4. ~(i <= m - 1)
  <2> SUFFICES ASSUME i <= m - 1 PROVE FALSE
    OBVIOUS
  <2>1. K[i] <= K[m - 1]
    BY <1>3, CallsGrow
  <2> HIDE DEF K
  <2>2. K[i] \in Nat /\ K[m - 1] \in Nat
    BY <1>1, <1>3
  <2> QED
    BY <1>2, <2>1, <2>2
<1>5. ~(m <= i - 1)
  <2> SUFFICES ASSUME m <= i - 1 PROVE FALSE
    OBVIOUS
  <2>1. K[m] <= K[i - 1]
    BY <1>3, CallsGrow
  <2> HIDE DEF K
  <2>2. K[m] \in Nat /\ K[i - 1] \in Nat
    BY <1>1, <1>3
  <2> QED
    BY <1>2, <2>1, <2>2
<1> QED
  BY <1>1, <1>2, <1>4, <1>5

\* Where the first d calls for part i end.
EndOf(r, d) == AllCalls(r)[d].at + AllCalls(r)[d].length

\* What the first d calls, e of them for the parts up to i, tell of part i.
SpanAt(r, i, e) ==
    IF e <= CallsTo(r)[i - 1] THEN Nothing
    ELSE [pos |-> At(r, i) % Page, len |-> EndOf(r, e) - At(r, i)]

Span(r, i, d) == SpanAt(r, i, Lesser(d, CallsTo(r)[i]))

\* A call tells of its own part only.
LEMMA SpanOther ==
    ASSUME NEW r \in Requests, NEW d \in Nat, NEW i, CallOf(r, d + 1, i),
           NEW m \in 1 .. Total(r), m # i
    PROVE  Span(r, m, d + 1) = Span(r, m, d)
<1> DEFINE n == Total(r)
           K == CallsTo(r)
<1>1. n \in Nat /\ K \in [0 .. n -> Nat]
  BY CallsToCounts
<1>2. i \in 1 .. n /\ K[i - 1] < d + 1 /\ d + 1 <= K[i]
  BY DEF CallOf
<1>3. i \in 0 .. n /\ m \in 0 .. n /\ i - 1 \in 0 .. n /\ m - 1 \in 0 .. n
  BY <1>1, <1>2
<1>4. K[i] \in Nat /\ K[i - 1] \in Nat /\ K[m] \in Nat /\ K[m - 1] \in Nat
  BY <1>1, <1>3
<1>5. CASE m <= i - 1
  <2>1. K[m] <= K[i - 1]
    BY <1>3, <1>5, CallsGrow
  <2> HIDE DEF K
  <2>2. Lesser(d + 1, K[m]) = Lesser(d, K[m])
    BY <1>2, <1>4, <2>1 DEF Lesser
  <2> QED
    BY <2>2 DEF Span, K
<1>6. CASE i <= m - 1
  <2>1. K[i] <= K[m - 1]
    BY <1>3, <1>6, CallsGrow
  <2>4. Span(r, m, d + 1) = SpanAt(r, m, Lesser(d + 1, K[m])) /\ Span(r, m, d) = SpanAt(r, m, Lesser(d, K[m]))
    BY DEF Span
  <2>5. \A e : e <= K[m - 1] => SpanAt(r, m, e) = Nothing
    BY DEF SpanAt
  <2> HIDE DEF K
  <2>2. Lesser(d + 1, K[m]) <= K[m - 1]
    BY <1>2, <1>4, <2>1 DEF Lesser
  <2>3. Lesser(d, K[m]) <= K[m - 1]
    BY <1>2, <1>4, <2>1 DEF Lesser
  <2> QED
    BY <2>2, <2>3, <2>4, <2>5
<1> QED
  BY <1>1, <1>2, <1>5, <1>6

\* The first call of a part tells where it begins.
LEMMA SpanFirst ==
    ASSUME NEW r \in Requests, NEW d \in Nat, NEW i, CallOf(r, d + 1, i), d = CallsTo(r)[i - 1]
    PROVE  Span(r, i, d + 1) = [pos |-> AllCalls(r)[d + 1].at % Page,
                                len |-> AllCalls(r)[d + 1].length]
<1> DEFINE c == AllCalls(r)[d + 1]
<1>1. d + 1 \in Nat
  OBVIOUS
<1>2. c \in CallSet /\ c.at = At(r, i) /\ i \in 1 .. Total(r)
  BY <1>1, CallFacts
<1>3. d + 1 <= CallsTo(r)[i] /\ CallsTo(r)[i] \in Nat
  BY <1>2, Told DEF CallOf
<1>4. Span(r, i, d + 1) = SpanAt(r, i, d + 1)
  BY <1>3 DEF Span, Lesser
<1>5. ~(d + 1 <= CallsTo(r)[i - 1])
  OBVIOUS
<1>6. Span(r, i, d + 1) = [pos |-> At(r, i) % Page, len |-> EndOf(r, d + 1) - At(r, i)]
  BY <1>4, <1>5 DEF SpanAt
<1>7. EndOf(r, d + 1) = c.at + c.length
  BY DEF EndOf
<1> HIDE DEF c
<1>8. (c.at + c.length) - At(r, i) = c.length
  BY <1>2 DEF CallSet
<1> QED
  BY <1>2, <1>6, <1>7, <1>8 DEF c

\* A later one makes it longer.
LEMMA SpanMore ==
    ASSUME NEW r \in Requests, NEW d \in Nat, NEW i, CallOf(r, d + 1, i), CallsTo(r)[i - 1] < d
    PROVE  /\ CallOf(r, d, i)
           /\ Span(r, i, d + 1) = [Span(r, i, d) EXCEPT !.len = @ + AllCalls(r)[d + 1].length]
<1> DEFINE c == AllCalls(r)[d + 1]
           b == AllCalls(r)[d]
<1>1. d + 1 \in Nat /\ i \in 1 .. Total(r) /\ d + 1 <= CallsTo(r)[i]
  BY DEF CallOf
<1>2. CallsTo(r)[i] \in Nat /\ CallsTo(r)[i - 1] \in Nat
  BY <1>1, Told
<1>3. d <= CallsTo(r)[i] /\ d < CallsTo(r)[i] /\ ~(d + 1 <= CallsTo(r)[i - 1])
      /\ ~(d <= CallsTo(r)[i - 1])
  BY <1>1, <1>2
<1>4. CallOf(r, d, i)
  BY <1>1, <1>3 DEF CallOf
<1>5. c \in CallSet
  BY <1>1, CallFacts
<1>6. b \in CallSet /\ b.at + b.length = c.at
  BY <1>3, <1>4, CallFacts
<1>7. Span(r, i, d + 1) = SpanAt(r, i, d + 1) /\ Span(r, i, d) = SpanAt(r, i, d)
  BY <1>1, <1>3 DEF Span, Lesser
<1>8. Span(r, i, d + 1) = [pos |-> At(r, i) % Page, len |-> (c.at + c.length) - At(r, i)]
  BY <1>3, <1>7 DEF SpanAt, EndOf
<1>9. Span(r, i, d) = [pos |-> At(r, i) % Page, len |-> (b.at + b.length) - At(r, i)]
  BY <1>3, <1>7 DEF SpanAt, EndOf
<1>10. At(r, i) \in Nat
  BY <1>1, PlaceOf
<1> HIDE DEF c, b
<1>11. (c.at + c.length) - At(r, i) = ((b.at + b.length) - At(r, i)) + c.length
  BY <1>5, <1>6, <1>10 DEF CallSet
<1>12. [Span(r, i, d) EXCEPT !.len = @ + c.length]
       = [pos |-> At(r, i) % Page, len |-> ((b.at + b.length) - At(r, i)) + c.length]
  BY <1>9
<1> QED
  BY <1>4, <1>8, <1>11, <1>12 DEF c

\* All calls together tell of the whole part.
LEMMA SpanWhole ==
    ASSUME NEW r \in Requests, NEW i \in 1 .. Total(r), Parts(r)[i].kind # "gap"
    PROVE  /\ Span(r, i, Len(AllCalls(r))).len = Len(Parts(r)[i].text)
           /\ Len(Parts(r)[i].text) > 0 => Span(r, i, Len(AllCalls(r))).pos = At(r, i) % Page
<1> DEFINE k == CallsTo(r)[i]
           d == Len(AllCalls(r))
           t == Len(Parts(r)[i].text)
<1>1. /\ CallsTo(r)[i - 1] \in Nat /\ k \in Nat /\ CallsTo(r)[i - 1] <= k /\ k <= d
      /\ t > 0 => CallsTo(r)[i - 1] < k
  BY Told
<1>2. d \in Nat /\ t \in Nat /\ At(r, i) \in Nat
  BY CallsToCounts, TextTypes, PlaceOf
<1>3. Span(r, i, d) = SpanAt(r, i, k)
  <2>1. Span(r, i, d) = SpanAt(r, i, Lesser(d, k))
    BY DEF Span
  <2> HIDE DEF k, d
  <2>2. Lesser(d, k) = k
    BY <1>1, <1>2 DEF Lesser
  <2> QED
    BY <2>1, <2>2
<1>4. CASE CallsTo(r)[i - 1] < k
  <2>1. CallOf(r, k, i)
    BY <1>1, <1>4 DEF CallOf
  <2>2. EndOf(r, k) = At(r, i) + t
    BY <1>1, <2>1, CallFacts DEF EndOf
  <2>3. SpanAt(r, i, k) = [pos |-> At(r, i) % Page, len |-> EndOf(r, k) - At(r, i)]
    <3>1. ~(k <= CallsTo(r)[i - 1])
      BY <1>1, <1>4
    <3> QED
      BY <3>1 DEF SpanAt
  <2> HIDE DEF t, k, d
  <2>4. EndOf(r, k) - At(r, i) = t
    BY <1>2, <2>2
  <2> QED
    BY <1>3, <2>3, <2>4 DEF t, d
<1>5. CASE CallsTo(r)[i - 1] = k
  <2>1. t = 0
    BY <1>1, <1>2, <1>5
  <2>2. SpanAt(r, i, k) = Nothing
    BY <1>1, <1>5 DEF SpanAt
  <2> QED
    BY <1>3, <2>1, <2>2 DEF Nothing
<1> QED
  BY <1>1, <1>4, <1>5
(***************************************************************************)
(* What the callbacks know after d calls.                                  *)
(***************************************************************************)
LEMMA GapKind == Gap.kind = "gap"
  BY DEF Gap

\* The parts that are told, in the order they arrive.
LEMMA PartKinds ==
    ASSUME NEW r \in Requests
    PROVE  /\ Parts(r)[2].kind = "url" /\ Parts(r)[Total(r)].kind = "body"
           /\ 2 \in 1 .. Total(r) /\ Total(r) \in 1 .. Total(r)
           /\ \A h \in 1 .. Len(r.headers) :
                  /\ Parts(r)[4 * h].kind = "field" /\ Parts(r)[4 * h + 1].kind = "gap"
                  /\ Parts(r)[4 * h + 2].kind = "value" /\ Parts(r)[4 * h + 3].kind = "gap"
                  /\ 4 * h \in 1 .. Total(r) /\ 4 * h + 1 \in 1 .. Total(r)
                  /\ 4 * h + 2 \in 1 .. Total(r) /\ 4 * h + 3 \in 1 .. Total(r)
<1>1. Len(r.headers) \in Nat
  BY RequestType
<1>2. Total(r) = 4 * Len(r.headers) + 5
  BY DEF Total
<1>3. /\ 2 \in 1 .. Total(r) /\ Total(r) \in 1 .. Total(r)
      /\ \A h \in 1 .. Len(r.headers) :
             /\ 4 * h \in 1 .. Total(r) /\ 4 * h + 1 \in 1 .. Total(r)
             /\ 4 * h + 2 \in 1 .. Total(r) /\ 4 * h + 3 \in 1 .. Total(r)
  BY <1>1, <1>2
<1>4. /\ UrlPart(r).kind = "url" /\ BodyPart(r).kind = "body"
      /\ \A h : FieldPart(r, h).kind = "field" /\ ValuePart(r, h).kind = "value"
  BY DEF UrlPart, BodyPart, FieldPart, ValuePart
<1>5. Parts(r)[2].kind = "url" /\ Parts(r)[Total(r)].kind = "body"
  <2>1. Parts(r)[2] = UrlPart(r) /\ Parts(r)[Total(r)] = BodyPart(r)
    BY PartsShape
  <2> QED
    BY <1>4, <2>1
<1>6. ASSUME NEW h \in 1 .. Len(r.headers)
      PROVE  /\ Parts(r)[4 * h].kind = "field" /\ Parts(r)[4 * h + 1].kind = "gap"
             /\ Parts(r)[4 * h + 2].kind = "value" /\ Parts(r)[4 * h + 3].kind = "gap"
  <2>1. /\ Parts(r)[4 * h] = FieldPart(r, h) /\ Parts(r)[4 * h + 1] = Gap
        /\ Parts(r)[4 * h + 2] = ValuePart(r, h) /\ Parts(r)[4 * h + 3] = Gap
    BY PartsShape
  <2> QED
    BY <1>4, <2>1, GapKind
<1> QED
  BY <1>3, <1>5, <1>6

LEMMA WhichPart ==
    ASSUME NEW r \in Requests, NEW i \in 1 .. Total(r), Parts(r)[i].kind # "gap"
    PROVE  \/ i = 2 \/ i = Total(r)
           \/ \E h \in 1 .. Len(r.headers) : i = 4 * h \/ i = 4 * h + 2
<1> DEFINE n == Len(r.headers)
           h == i \div 4
<1>1. n \in Nat /\ Total(r) = 4 * n + 5
  BY RequestType DEF Total
<1>2. /\ Parts(r)[1].kind = "gap" /\ Parts(r)[3].kind = "gap" /\ Parts(r)[Total(r) - 1].kind = "gap"
      /\ \A g \in 1 .. n : Parts(r)[4 * g + 1].kind = "gap" /\ Parts(r)[4 * g + 3].kind = "gap"
  <2>1. Parts(r)[1] = Gap /\ Parts(r)[3] = Gap /\ Parts(r)[Total(r) - 1] = Gap
    BY PartsShape
  <2>2. \A g \in 1 .. n : Parts(r)[4 * g + 1].kind = "gap" /\ Parts(r)[4 * g + 3].kind = "gap"
    BY PartKinds
  <2> QED
    BY <2>1, <2>2, GapKind
<1> HIDE DEF n
<1>3. h \in Nat /\ i = 4 * h + (i % 4) /\ i % 4 \in 0 .. 3
  BY <1>1
<1> HIDE DEF h
<1>4. CASE h = 0
  BY <1>1, <1>2, <1>3, <1>4
<1>5. CASE h \in 1 .. n
  BY <1>2, <1>3, <1>5 DEF n
<1>6. CASE h > n /\ h > 0
  <2>1. h = n + 1 /\ i % 4 \in 0 .. 1
    BY <1>1, <1>3, <1>6
  <2>2. i = Total(r) - 1 \/ i = Total(r)
    BY <1>1, <1>3, <2>1
  <2> QED
    BY <1>2, <2>2
<1> QED
  BY <1>1, <1>3, <1>4, <1>5, <1>6

\* The parser state that a call leaves.
StateOf(kind) ==
    CASE kind = "url" -> P_URL
      [] kind = "field" -> P_HEAD_FIELD
      [] kind = "value" -> P_HEAD_VALUE
      [] kind = "body" -> P_BODY

StateAfter(r, d) == IF d = 0 THEN P_BEGIN ELSE StateOf(AllCalls(r)[d].kind)

LEMMA StateOfs ==
    /\ StateOf("url") = P_URL /\ StateOf("field") = P_HEAD_FIELD
    /\ StateOf("value") = P_HEAD_VALUE /\ StateOf("body") = P_BODY
    /\ P_BEGIN = 0 /\ P_URL = 1 /\ P_HEAD_FIELD = 2 /\ P_HEAD_VALUE = 3 /\ P_BODY = 4
    /\ HTTP_PARSER_COMPLETE = 100
  BY DEF StateOf, P_BEGIN, P_URL, P_HEAD_FIELD, P_HEAD_VALUE, P_BODY, HTTP_PARSER_COMPLETE

LEMMA StateRange ==
    ASSUME NEW r \in Requests, NEW d \in 0 .. Len(AllCalls(r))
    PROVE  StateAfter(r, d) \in 0 .. 4
<1>1. Len(AllCalls(r)) \in Nat
  BY CallsToCounts
<1>2. CASE d = 0
  BY <1>2, StateOfs DEF StateAfter
<1>3. CASE d # 0
  <2>1. d \in 1 .. Len(AllCalls(r)) /\ d \in Nat
    BY <1>1, <1>3
  <2>2. PICK i \in 1 .. Total(r) : CallOf(r, d, i)
    BY <2>1, PartOfCall
  <2>3. AllCalls(r)[d].kind \in Kinds \ {"gap"}
    BY <2>1, <2>2, CallFacts DEF CallSet
  <2> QED
    BY <1>3, <2>3, StateOfs DEF StateAfter, Kinds
<1> QED
  BY <1>2, <1>3

\* The first call of a url, a name or a body does not find the state that it
\* leaves; that of a value finds the state of the name before it.
LEMMA StateFirst ==
    ASSUME NEW r \in Requests, NEW d \in Nat, NEW i, CallOf(r, d + 1, i), d = CallsTo(r)[i - 1]
    PROVE  IF Parts(r)[i].kind = "value" THEN StateAfter(r, d) = P_HEAD_FIELD
           ELSE StateAfter(r, d) # StateOf(Parts(r)[i].kind)
<1>1. d + 1 \in Nat /\ i \in 1 .. Total(r) /\ d + 1 <= CallsTo(r)[i]
  BY DEF CallOf
<1>2. Parts(r)[i].kind # "gap" /\ Parts(r)[i].kind \in Kinds
  <2>1. Parts(r)[i].kind # "gap"
    BY <1>1, CallFacts
  <2> QED
    BY <1>1, <2>1, TextTypes
<1>3. Total(r) \in Nat /\ CallsTo(r) \in [0 .. Total(r) -> Nat] /\ Len(r.headers) \in Nat
      /\ Total(r) = 4 * Len(r.headers) + 5
  BY CallsToCounts, RequestType DEF Total
<1>4. ASSUME NEW m \in 1 .. Total(r), d > 0, CallOf(r, d, m)
      PROVE  /\ StateAfter(r, d) = StateOf(Parts(r)[m].kind) /\ Parts(r)[m].kind \in Kinds \ {"gap"}
             /\ m < i
  <2>0. AllCalls(r)[d].kind = Parts(r)[m].kind /\ Parts(r)[m].kind # "gap"
    BY <1>4, CallFacts
  <2>1. AllCalls(r)[d].kind = Parts(r)[m].kind /\ Parts(r)[m].kind \in Kinds \ {"gap"}
    BY <2>0, TextTypes
  <2>2. StateAfter(r, d) = StateOf(Parts(r)[m].kind)
    BY <1>4, <2>1 DEF StateAfter
  <2>3. m < i
    <3> SUFFICES ASSUME i - 1 <= m - 1 PROVE FALSE
      BY <1>1, <1>3
    <3>1. i - 1 \in 0 .. Total(r) /\ m - 1 \in 0 .. Total(r)
      BY <1>1, <1>3
    <3>2. CallsTo(r)[i - 1] <= CallsTo(r)[m - 1]
      BY <3>1, CallsGrow
    <3>3. CallsTo(r)[m - 1] < d /\ CallsTo(r)[m - 1] \in Nat
      BY <1>3, <1>4, <3>1 DEF CallOf
    <3> QED
      BY <3>2, <3>3
  <2> QED
    BY <2>1, <2>2, <2>3
<1>5. CASE \E h \in 1 .. Len(r.headers) : i = 4 * h + 2
  <2>1. PICK h \in 1 .. Len(r.headers) : i = 4 * h + 2
    BY <1>5
  <2>2. /\ 4 * h \in 1 .. Total(r) /\ 4 * h + 1 \in 1 .. Total(r)
        /\ Parts(r)[4 * h].kind = "field" /\ Parts(r)[4 * h + 1].kind = "gap"
        /\ Parts(r)[i].kind = "value"
    BY <2>1, PartKinds
  <2>3. Len(Parts(r)[4 * h].text) > 0
    <3>1. Parts(r)[4 * h] = FieldPart(r, h)
      BY PartsShape
    <3>2. Len(r.headers[h][1]) > 0
      BY RequestType
    <3> QED
      BY <3>1, <3>2 DEF FieldPart
  <2>4. CallsTo(r)[4 * h - 1] < CallsTo(r)[4 * h] /\ CallsTo(r)[4 * h - 1] \in Nat
        /\ CallsTo(r)[4 * h] \in Nat
    BY <2>2, <2>3, Told
  <2>5. CallsTo(r)[4 * h] = CallsTo(r)[4 * h + 1]
    <3>1. CallsTo(r)[(4 * h + 1) - 1] = CallsTo(r)[4 * h + 1]
      BY <2>2, Told
    <3>2. (4 * h + 1) - 1 = 4 * h
      BY <2>2
    <3> QED
      BY <3>1, <3>2
  <2>6. d = CallsTo(r)[4 * h]
    <3>1. i - 1 = 4 * h + 1
      BY <2>1, <2>2
    <3> QED
      BY <2>5, <3>1
  <2>7. CallOf(r, d, 4 * h) /\ d > 0
    BY <2>2, <2>4, <2>6 DEF CallOf
  <2>8. StateAfter(r, d) = StateOf("field")
    BY <1>4, <2>2, <2>7
  <2> QED
    BY <2>2, <2>8, StateOfs
<1>6. CASE \E h \in 1 .. Len(r.headers) : i = 4 * h
  <2>1. PICK h \in 1 .. Len(r.headers) : i = 4 * h
    BY <1>6
  <2>2. Parts(r)[i].kind = "field"
    BY <2>1, PartKinds
  <2> SUFFICES ASSUME StateAfter(r, d) = P_HEAD_FIELD PROVE FALSE
    BY <2>2, StateOfs
  <2>3. d > 0
    BY StateOfs DEF StateAfter
  <2>4. d \in 1 .. Len(AllCalls(r))
    <3>1. d + 1 \in 1 .. Len(AllCalls(r)) /\ Len(AllCalls(r)) \in Nat
      BY <1>1, CallFacts, CallsToCounts
    <3> QED
      BY <2>3, <3>1
  <2>5. PICK m \in 1 .. Total(r) : CallOf(r, d, m)
    BY <2>4, PartOfCall
  <2>6. StateOf(Parts(r)[m].kind) = P_HEAD_FIELD /\ Parts(r)[m].kind \in Kinds \ {"gap"} /\ m < i
    BY <1>4, <2>3, <2>5
  <2>7. Parts(r)[m].kind = "field"
    BY <2>6, StateOfs DEF Kinds
  <2>8. PICK g \in 1 .. Len(r.headers) : m = 4 * g
    <3>1. Parts(r)[2].kind = "url" /\ Parts(r)[Total(r)].kind = "body"
          /\ \A g \in 1 .. Len(r.headers) : Parts(r)[4 * g + 2].kind = "value"
      BY PartKinds
    <3> QED
      BY <2>7, <3>1, WhichPart
  <2>9. /\ 4 * g + 2 \in 1 .. Total(r) /\ 4 * g + 1 \in 1 .. Total(r)
        /\ Parts(r)[4 * g + 2].kind = "value"
    BY PartKinds
  <2>10. CallsTo(r)[(4 * g + 2) - 1] < CallsTo(r)[4 * g + 2]
         /\ CallsTo(r)[4 * g + 2] \in Nat /\ CallsTo(r)[(4 * g + 2) - 1] \in Nat
    BY <2>9, Told
  <2>11. CallsTo(r)[(4 * g + 1) - 1] <= CallsTo(r)[4 * g + 1]
         /\ CallsTo(r)[(4 * g + 1) - 1] \in Nat
    BY <2>9, Told
  <2>12. (4 * g + 2) - 1 = 4 * g + 1 /\ (4 * g + 1) - 1 = 4 * g
    BY <2>9
  <2>13. 4 * g + 2 <= i - 1 /\ 4 * g + 2 \in 0 .. Total(r) /\ i - 1 \in 0 .. Total(r)
    BY <1>1, <1>3, <2>1, <2>6, <2>8
  <2>14. CallsTo(r)[4 * g + 2] <= CallsTo(r)[i - 1]
    BY <2>13, CallsGrow
  <2>15. d <= CallsTo(r)[4 * g]
    BY <2>5, <2>8 DEF CallOf
  <2> QED
    BY <2>10, <2>11, <2>12, <2>14, <2>15
<1>7. CASE i = 2
  <2>1. Parts(r)[i].kind = "url"
    BY <1>7, PartKinds
  <2> SUFFICES ASSUME StateAfter(r, d) = P_URL PROVE FALSE
    BY <2>1, StateOfs
  <2>2. CallsTo(r)[1] = CallsTo(r)[0] /\ CallsTo(r)[0] = 0
    <3>1. 1 \in 1 .. Total(r) /\ 1 - 1 = 0
      BY <1>3
    <3>2. Parts(r)[1].kind = "gap"
      <4>1. Parts(r)[1] = Gap
        BY PartsShape
      <4> QED
        BY <4>1, GapKind
    <3> QED
      BY <3>1, <3>2, Told, CallsToCounts
  <2>3. d = 0
    <3>1. i - 1 = 1
      BY <1>7
    <3> QED
      BY <2>2, <3>1
  <2> QED
    BY <2>3, StateOfs DEF StateAfter
<1>8. CASE i = Total(r)
  <2>1. Parts(r)[i].kind = "body"
    BY <1>8, PartKinds
  <2> SUFFICES ASSUME StateAfter(r, d) = P_BODY PROVE FALSE
    BY <2>1, StateOfs
  <2>2. d > 0
    BY StateOfs DEF StateAfter
  <2>3. d \in 1 .. Len(AllCalls(r))
    <3>1. d + 1 \in 1 .. Len(AllCalls(r)) /\ Len(AllCalls(r)) \in Nat
      BY <1>1, CallFacts, CallsToCounts
    <3> QED
      BY <2>2, <3>1
  <2>4. PICK m \in 1 .. Total(r) : CallOf(r, d, m)
    BY <2>3, PartOfCall
  <2>5. StateOf(Parts(r)[m].kind) = P_BODY /\ Parts(r)[m].kind \in Kinds \ {"gap"} /\ m < i
    BY <1>4, <2>2, <2>4
  <2>6. Parts(r)[m].kind = "body"
    BY <2>5, StateOfs DEF Kinds
  <2>7. m = 2 \/ \E h \in 1 .. Len(r.headers) : m = 4 * h \/ m = 4 * h + 2
    BY <1>8, <2>5, <2>6, WhichPart
  <2>8. Parts(r)[2].kind = "url" /\ \A h \in 1 .. Len(r.headers) :
            Parts(r)[4 * h].kind = "field" /\ Parts(r)[4 * h + 2].kind = "value"
    BY PartKinds
  <2> QED
    BY <2>6, <2>7, <2>8
<1> QED
  BY <1>1, <1>2, <1>5, <1>6, <1>7, <1>8, WhichPart

\* A later call finds the state of its own part.
LEMMA StateMore ==
    ASSUME NEW r \in Requests, NEW d \in Nat, NEW i, CallOf(r, d + 1, i), CallsTo(r)[i - 1] < d
    PROVE  StateAfter(r, d) = StateOf(Parts(r)[i].kind)
<1>1. CallOf(r, d, i)
  BY SpanMore
<1>2. i \in 1 .. Total(r) /\ CallsTo(r)[i - 1] \in Nat
  BY <1>1, Told DEF CallOf
<1>3. d # 0
  BY <1>2
<1>4. AllCalls(r)[d].kind = Parts(r)[i].kind
  BY <1>1, CallFacts
<1> QED
  BY <1>3, <1>4 DEF StateAfter
LEMMA KindPart ==
    ASSUME NEW r \in Requests, NEW i \in 1 .. Total(r)
    PROVE  /\ Parts(r)[i].kind = "url" => i = 2
           /\ Parts(r)[i].kind = "body" => i = Total(r)
           /\ Parts(r)[i].kind = "field" => \E h \in 1 .. Len(r.headers) : i = 4 * h
           /\ Parts(r)[i].kind = "value" => \E h \in 1 .. Len(r.headers) : i = 4 * h + 2
<1>1. /\ Parts(r)[2].kind = "url" /\ Parts(r)[Total(r)].kind = "body"
      /\ \A h \in 1 .. Len(r.headers) :
             Parts(r)[4 * h].kind = "field" /\ Parts(r)[4 * h + 2].kind = "value"
  BY PartKinds
<1>2. CASE Parts(r)[i].kind = "gap"
  BY <1>2
<1>3. CASE Parts(r)[i].kind # "gap"
  BY <1>1, <1>3, WhichPart
<1> QED
  BY <1>2, <1>3

\* What the next call tells of its part, by the state it finds.
LEMMA SpanNext ==
    ASSUME NEW r \in Requests, NEW d \in Nat, NEW i, CallOf(r, d + 1, i)
    PROVE  LET first == [pos |-> AllCalls(r)[d + 1].at % Page, len |-> AllCalls(r)[d + 1].length]
               more == [Span(r, i, d) EXCEPT !.len = @ + AllCalls(r)[d + 1].length]
           IN  /\ CallsTo(r)[i - 1] = d \/ CallsTo(r)[i - 1] < d
               /\ Parts(r)[i].kind # "value" =>
                      /\ Span(r, i, d + 1) = IF StateAfter(r, d) # StateOf(Parts(r)[i].kind)
                                             THEN first ELSE more
                      /\ StateAfter(r, d) # StateOf(Parts(r)[i].kind) <=> CallsTo(r)[i - 1] = d
               /\ Parts(r)[i].kind = "value" =>
                      Span(r, i, d + 1) = IF StateAfter(r, d) = P_HEAD_FIELD THEN first ELSE more
<1>1. i \in 1 .. Total(r) /\ CallsTo(r)[i - 1] < d + 1
  BY DEF CallOf
<1>2. CallsTo(r)[i - 1] \in Nat
  BY <1>1, Told
<1>3. P_HEAD_FIELD # StateOf("value")
  BY StateOfs
<1>4. CASE CallsTo(r)[i - 1] = d
  BY <1>4, SpanFirst, StateFirst
<1>5. CASE CallsTo(r)[i - 1] < d
  BY <1>2, <1>3, <1>5, SpanMore, StateMore
<1> QED
  BY <1>1, <1>2, <1>4, <1>5

\* Nothing is told of a part before its first call.
LEMMA SpanBefore ==
    ASSUME NEW r \in Requests, NEW i \in 1 .. Total(r), NEW d \in Nat, d <= CallsTo(r)[i - 1]
    PROVE  Span(r, i, d) = Nothing
<1>1. CallsTo(r)[i] \in Nat /\ CallsTo(r)[i - 1] \in Nat
  BY Told
<1>2. Lesser(d, CallsTo(r)[i]) <= CallsTo(r)[i - 1]
  BY <1>1 DEF Lesser
<1> QED
  BY <1>2 DEF Span, SpanAt

\* What is told of a part is a range.
Ranges == [pos : Int, len : Int]

LEMMA SpanType ==
    ASSUME NEW r \in Requests, NEW i \in 1 .. Total(r), NEW d \in 0 .. Len(AllCalls(r))
    PROVE  Span(r, i, d) \in Ranges
<1> DEFINE e == Lesser(d, CallsTo(r)[i])
<1>1. /\ CallsTo(r)[i] \in Nat /\ CallsTo(r)[i - 1] \in Nat /\ At(r, i) \in Nat
      /\ CallsTo(r)[i] <= Len(AllCalls(r)) /\ Len(AllCalls(r)) \in Nat
  BY Told, PlaceOf, CallsToCounts
<1>2. e \in 0 .. Len(AllCalls(r))
  BY <1>1 DEF Lesser
<1>3. Span(r, i, d) = SpanAt(r, i, e)
  BY DEF Span
<1> HIDE DEF e
<1>4. Nothing \in Ranges
  BY DEF Nothing, Ranges
<1>5. CASE e <= CallsTo(r)[i - 1]
  BY <1>3, <1>4, <1>5 DEF SpanAt
<1>6. CASE ~(e <= CallsTo(r)[i - 1])
  <2>1. e \in 1 .. Len(AllCalls(r))
    BY <1>1, <1>2, <1>6
  <2>2. AllCalls(r)[e] \in CallSet
    BY <2>1, CallsToCounts
  <2>3. EndOf(r, e) - At(r, i) \in Int
    BY <1>1, <2>2 DEF CallSet, EndOf
  <2>4. At(r, i) % Page \in Int
    BY <1>1, DivMod
  <2> QED
    BY <1>3, <1>6, <2>3, <2>4 DEF SpanAt, Ranges
<1> QED
  BY <1>5, <1>6

\* The number of header fields whose name has been told of, in whole or in part.
Begun(r, d, m) ==
    /\ m \in 0 .. Len(r.headers)
    /\ \A h \in 1 .. Len(r.headers) : h <= m <=> CallsTo(r)[4 * h - 1] < d

\* The calls for a header field come after those for the one before.
LEMMA HeaderCalls ==
    ASSUME NEW r \in Requests, NEW h \in 1 .. Len(r.headers)
    PROVE  /\ CallsTo(r)[4 * h - 1] \in Nat /\ CallsTo(r)[4 * h] \in Nat
           /\ CallsTo(r)[4 * h + 1] \in Nat /\ CallsTo(r)[4 * h + 2] \in Nat
           /\ CallsTo(r)[4 * h - 1] < CallsTo(r)[4 * h]
           /\ CallsTo(r)[4 * h] = CallsTo(r)[4 * h + 1]
           /\ CallsTo(r)[4 * h + 1] < CallsTo(r)[4 * h + 2]
           /\ CallsTo(r)[4 * h + 2] <= Len(AllCalls(r))
           /\ \A g \in 1 .. Len(r.headers) :
                  h < g => CallsTo(r)[4 * h + 2] <= CallsTo(r)[4 * g - 1]
<1>1. /\ 4 * h \in 1 .. Total(r) /\ 4 * h + 1 \in 1 .. Total(r) /\ 4 * h + 2 \in 1 .. Total(r)
      /\ Parts(r)[4 * h].kind = "field" /\ Parts(r)[4 * h + 1].kind = "gap"
      /\ Parts(r)[4 * h + 2].kind = "value"
  BY PartKinds
<1>2. Len(Parts(r)[4 * h].text) > 0
  <2>1. Parts(r)[4 * h] = FieldPart(r, h)
    BY PartsShape
  <2>2. Len(r.headers[h][1]) > 0
    BY RequestType
  <2> QED
    BY <2>1, <2>2 DEF FieldPart
<1>3. /\ CallsTo(r)[4 * h - 1] < CallsTo(r)[4 * h]
      /\ CallsTo(r)[4 * h - 1] \in Nat /\ CallsTo(r)[4 * h] \in Nat
  BY <1>1, <1>2, Told
<1>4. CallsTo(r)[(4 * h + 1) - 1] = CallsTo(r)[4 * h + 1] /\ CallsTo(r)[4 * h + 1] \in Nat
  BY <1>1, Told
<1>5. CallsTo(r)[(4 * h + 2) - 1] < CallsTo(r)[4 * h + 2] /\ CallsTo(r)[4 * h + 2] \in Nat
      /\ CallsTo(r)[4 * h + 2] <= Len(AllCalls(r))
  BY <1>1, Told
<1>6. (4 * h + 1) - 1 = 4 * h /\ (4 * h + 2) - 1 = 4 * h + 1
  BY <1>1
<1>7. ASSUME NEW g \in 1 .. Len(r.headers), h < g
      PROVE  CallsTo(r)[4 * h + 2] <= CallsTo(r)[4 * g - 1]
  <2>1. Len(r.headers) \in Nat /\ Total(r) = 4 * Len(r.headers) + 5
    BY RequestType DEF Total
  <2>2. 4 * h + 2 \in 0 .. Total(r) /\ 4 * g - 1 \in 0 .. Total(r) /\ 4 * h + 2 <= 4 * g - 1
    BY <1>7, <2>1
  <2> QED
    BY <2>2, CallsGrow
<1> QED
  BY <1>3, <1>4, <1>5, <1>6, <1>7

\* Call d + 1 is the first for part i.
FirstOf(r, d, i) == CallsTo(r)[i - 1] = d

LEMMA BegunStep ==
    ASSUME NEW r \in Requests, NEW d \in Nat, NEW i, CallOf(r, d + 1, i), NEW m, Begun(r, d, m)
    PROVE  /\ \A h \in 1 .. Len(r.headers) :
                  i = 4 * h /\ FirstOf(r, d, i) => m = h - 1 /\ Begun(r, d + 1, h)
           /\ CallsTo(r)[i - 1] < d \/ Parts(r)[i].kind # "field" => Begun(r, d + 1, m)
           /\ \A h \in 1 .. Len(r.headers) :
                  (i = 4 * h /\ CallsTo(r)[i - 1] < d) \/ i = 4 * h + 2 => m = h
<1> DEFINE n == Len(r.headers)
<1>1. n \in Nat /\ m \in 0 .. n /\ m \in Nat /\ \A h \in 1 .. n : h <= m <=> CallsTo(r)[4 * h - 1] < d
  BY RequestType DEF Begun
<1>2. /\ i \in 1 .. Total(r) /\ CallsTo(r)[i - 1] < d + 1 /\ d + 1 <= CallsTo(r)[i]
      /\ CallsTo(r)[i - 1] \in Nat /\ CallsTo(r)[i] \in Nat
  BY Told DEF CallOf
<1> HIDE DEF n
<1>3. ASSUME NEW h \in 1 .. n, CallsTo(r)[4 * h - 1] = d PROVE i = 4 * h
  <2>1. 4 * h \in 1 .. Total(r) /\ CallsTo(r)[4 * h - 1] < CallsTo(r)[4 * h]
        /\ CallsTo(r)[4 * h] \in Nat
    BY PartKinds, HeaderCalls DEF n
  <2>2. CallOf(r, d + 1, 4 * h)
    BY <1>3, <2>1 DEF CallOf
  <2>3. d + 1 \in Nat
    OBVIOUS
  <2> QED
    BY <2>2, <2>3, OnePart
<1>4. ASSUME NEW h \in 1 .. n, i = 4 * h, CallsTo(r)[i - 1] = d
      PROVE  m = h - 1 /\ Begun(r, d + 1, h)
  <2>1. ASSUME NEW g \in 1 .. n
        PROVE  /\ g < h => CallsTo(r)[4 * g - 1] < d
               /\ g = h => CallsTo(r)[4 * g - 1] = d
               /\ h < g => CallsTo(r)[4 * g - 1] > d
               /\ CallsTo(r)[4 * g - 1] \in Nat
    <3>1. g < h => CallsTo(r)[4 * g - 1] < d
      <4>1. /\ CallsTo(r)[4 * g - 1] < CallsTo(r)[4 * g] /\ CallsTo(r)[4 * g] = CallsTo(r)[4 * g + 1]
            /\ CallsTo(r)[4 * g + 1] < CallsTo(r)[4 * g + 2]
            /\ CallsTo(r)[4 * g - 1] \in Nat /\ CallsTo(r)[4 * g] \in Nat
            /\ CallsTo(r)[4 * g + 2] \in Nat
            /\ g < h => CallsTo(r)[4 * g + 2] <= CallsTo(r)[4 * h - 1]
        BY HeaderCalls DEF n
      <4> QED
        BY <1>4, <4>1
    <3>2. h < g => CallsTo(r)[4 * g - 1] > d
      <4>1. /\ CallsTo(r)[4 * h - 1] < CallsTo(r)[4 * h] /\ CallsTo(r)[4 * h] = CallsTo(r)[4 * h + 1]
            /\ CallsTo(r)[4 * h + 1] < CallsTo(r)[4 * h + 2]
            /\ CallsTo(r)[4 * h] \in Nat /\ CallsTo(r)[4 * h + 2] \in Nat
            /\ h < g => CallsTo(r)[4 * h + 2] <= CallsTo(r)[4 * g - 1]
            /\ CallsTo(r)[4 * g - 1] \in Nat
        BY HeaderCalls DEF n
      <4> QED
        BY <1>4, <4>1
    <3> QED
      BY <1>4, <3>1, <3>2, HeaderCalls DEF n
  <2>2. h \in Nat /\ h <= n /\ 1 <= h
    BY <1>1
  <2>3. m = h - 1
    <3>1. ~(h <= m)
      BY <1>1, <1>4
    <3>2. h - 1 <= m
      <4>1. CASE h = 1
        BY <1>1, <4>1
      <4>2. CASE h # 1
        <5>1. h - 1 \in 1 .. n /\ h - 1 < h
          BY <1>1, <2>2, <4>2
        <5>2. CallsTo(r)[4 * (h - 1) - 1] < d
          BY <2>1, <5>1
        <5> QED
          BY <1>1, <5>1, <5>2
      <4> QED
        BY <4>1, <4>2
    <3> QED
      BY <1>1, <2>2, <3>1, <3>2
  <2>4. ASSUME NEW g \in 1 .. n PROVE g <= h <=> CallsTo(r)[4 * g - 1] < d + 1
    BY <2>1, <2>2
  <2>5. h \in 0 .. n
    BY <1>1
  <2> QED
    BY <2>3, <2>4, <2>5 DEF Begun, n
<1>5. ASSUME CallsTo(r)[i - 1] < d \/ Parts(r)[i].kind # "field" PROVE Begun(r, d + 1, m)
  <2>1. ASSUME NEW h \in 1 .. n PROVE CallsTo(r)[4 * h - 1] # d /\ CallsTo(r)[4 * h - 1] \in Nat
    <3>1. CallsTo(r)[4 * h - 1] \in Nat /\ Parts(r)[4 * h].kind = "field"
      BY HeaderCalls, PartKinds DEF n
    <3>2. ASSUME CallsTo(r)[4 * h - 1] = d PROVE FALSE
      <4>1. i = 4 * h
        BY <1>3, <3>2
      <4> QED
        BY <1>5, <3>1, <3>2, <4>1
    <3> QED
      BY <3>1, <3>2
  <2>2. ASSUME NEW h \in 1 .. n PROVE h <= m <=> CallsTo(r)[4 * h - 1] < d + 1
    BY <1>1, <2>1
  <2> QED
    BY <1>1, <2>2 DEF Begun, n
<1>6. ASSUME NEW h \in 1 .. n, (i = 4 * h /\ CallsTo(r)[i - 1] < d) \/ i = 4 * h + 2 PROVE m = h
  <2>1. /\ CallsTo(r)[4 * h - 1] < CallsTo(r)[4 * h] /\ CallsTo(r)[4 * h] = CallsTo(r)[4 * h + 1]
        /\ CallsTo(r)[4 * h + 1] < CallsTo(r)[4 * h + 2]
        /\ CallsTo(r)[4 * h - 1] \in Nat /\ CallsTo(r)[4 * h] \in Nat
        /\ CallsTo(r)[4 * h + 1] \in Nat /\ CallsTo(r)[4 * h + 2] \in Nat
        /\ \A g \in 1 .. n : h < g => CallsTo(r)[4 * h + 2] <= CallsTo(r)[4 * g - 1]
    BY HeaderCalls DEF n
  <2>2. h \in Nat /\ h <= n /\ 1 <= h
    BY <1>1
  <2>3. CallsTo(r)[4 * h - 1] < d /\ d < CallsTo(r)[4 * h + 2]
    <3>1. CASE i = 4 * h
      BY <1>2, <1>6, <2>1, <2>2, <3>1
    <3>2. CASE i = 4 * h + 2
      <4>1. i - 1 = 4 * h + 1
        BY <2>2, <3>2
      <4> QED
        BY <1>2, <2>1, <3>2, <4>1
    <3> QED
      BY <1>6, <3>1, <3>2
  <2>4. h <= m
    BY <1>1, <2>3
  <2>5. ~(h + 1 <= m)
    <3> SUFFICES ASSUME h + 1 <= m PROVE FALSE
      OBVIOUS
    <3>1. h + 1 \in 1 .. n /\ h < h + 1
      BY <1>1, <2>2
    <3>2. CallsTo(r)[4 * h + 2] <= CallsTo(r)[4 * (h + 1) - 1] /\ CallsTo(r)[4 * (h + 1) - 1] \in Nat
      BY <2>1, <3>1, HeaderCalls DEF n
    <3>3. CallsTo(r)[4 * (h + 1) - 1] < d
      BY <1>1, <3>1
    <3> QED
      BY <2>1, <2>3, <3>2, <3>3
  <2> QED
    BY <1>1, <2>2, <2>4, <2>5
<1> QED
  BY <1>4, <1>5, <1>6 DEF n, FirstOf

LEMMA BegunEnds ==
    ASSUME NEW r \in Requests
    PROVE  /\ Begun(r, 0, 0)
           /\ \A m : Begun(r, Len(AllCalls(r)), m) => m = Len(r.headers)
<1>1. Len(r.headers) \in Nat
  BY RequestType
<1>2. Begun(r, 0, 0)
  <2>1. \A h \in 1 .. Len(r.headers) : CallsTo(r)[4 * h - 1] \in Nat
    BY HeaderCalls
  <2> QED
    BY <1>1, <2>1 DEF Begun
<1>3. ASSUME NEW m, Begun(r, Len(AllCalls(r)), m) PROVE m = Len(r.headers)
  <2>1. m \in 0 .. Len(r.headers)
        /\ \A h \in 1 .. Len(r.headers) : h <= m <=> CallsTo(r)[4 * h - 1] < Len(AllCalls(r))
    BY <1>3 DEF Begun
  <2>2. CASE Len(r.headers) = 0
    BY <2>1, <2>2
  <2>3. CASE Len(r.headers) # 0
    <3>1. Len(r.headers) \in 1 .. Len(r.headers)
      BY <1>1, <2>3
    <3>2. PICK h \in 1 .. Len(r.headers) : h = Len(r.headers)
      BY <3>1
    <3>3. /\ CallsTo(r)[4 * h - 1] < CallsTo(r)[4 * h] /\ CallsTo(r)[4 * h] = CallsTo(r)[4 * h + 1]
          /\ CallsTo(r)[4 * h + 1] < CallsTo(r)[4 * h + 2]
          /\ CallsTo(r)[4 * h + 2] <= Len(AllCalls(r))
          /\ CallsTo(r)[4 * h - 1] \in Nat /\ CallsTo(r)[4 * h] \in Nat
          /\ CallsTo(r)[4 * h + 2] \in Nat /\ Len(AllCalls(r)) \in Nat
      BY HeaderCalls, CallsToCounts
    <3>4. CallsTo(r)[4 * h - 1] < Len(AllCalls(r))
      BY <3>3
    <3> QED
      BY <1>1, <2>1, <3>2, <3>4
  <2> QED
    BY <2>2, <2>3
<1> QED
  BY <1>2, <1>3
(***************************************************************************)
(* The invariant.                                                          *)
(***************************************************************************)
\* q has the fields of a request.
Shape(q) ==
    DOMAIN q = {"url", "host", "content_type", "path", "url_param", "content_length",
                "headers", "body", "parser_state"}

Typed ==
    /\ request \in Requests /\ reading \in BOOLEAN /\ reads \in Nat
    /\ reading => reads > 0
    /\ len = (IF reading THEN reads - 1 ELSE reads) * Page
    /\ done \in 0 .. Len(AllCalls(request))
    /\ Shape(req)

Fields == [field : Ranges, value : Ranges]

FieldOf(r, h, d) == [field |-> Span(r, 4 * h, d), value |-> Span(r, 4 * h + 2, d)]

\* The elements are what the first d calls told of them.
Known(r, d, q) ==
    /\ q.url = Span(r, 2, d) /\ q.body = Span(r, Total(r), d)
    /\ q.headers \in Seq(Fields) /\ Begun(r, d, Len(q.headers))
    /\ \A h \in 1 .. Len(q.headers) : q.headers[h] = FieldOf(r, h, d)

StateRight == req.parser_state # HTTP_PARSER_COMPLETE => req.parser_state = StateAfter(request, done)

FirstMark(url) == CHOOSE k \in Marks(url) : \A j \in Marks(url) : k <= j

\* The end of the path in the url, with the slash behind it and without.
UrlEnd(url, cut) == IF cut /\ Marks(url) # {} THEN FirstMark(url) - 1 ELSE Len(url)

PathLen(url, cut) ==
    IF url[UrlEnd(url, cut)] = "/" THEN UrlEnd(url, cut) - 1 ELSE UrlEnd(url, cut)

\* What on_message_complete leaves.
Completed ==
    req.parser_state = HTTP_PARSER_COMPLETE =>
        /\ done = Len(AllCalls(request)) /\ reads > 0 /\ Len(Stream(request)) <= reads * Page
        /\ req.path = [pos |-> 1, len |-> PathLen(request.url, reads > 1)]
        /\ Divided => Text(req.url_param) = ParamsSent(request.url)
        /\ FoundByName

CtxInv == Typed /\ Known(request, done, req) /\ StateRight /\ Completed
(***************************************************************************)
(* One call more.                                                          *)
(***************************************************************************)
\* The header fields that a call is not for keep what was told of them.
LEMMA FieldsKept ==
    ASSUME NEW r \in Requests, NEW d \in Nat, NEW i, CallOf(r, d + 1, i),
           NEW h \in 1 .. Len(r.headers)
    PROVE  /\ i # 4 * h => Span(r, 4 * h, d + 1) = Span(r, 4 * h, d)
           /\ i # 4 * h + 2 => Span(r, 4 * h + 2, d + 1) = Span(r, 4 * h + 2, d)
<1>1. 4 * h \in 1 .. Total(r) /\ 4 * h + 2 \in 1 .. Total(r)
  BY PartKinds
<1> QED
  BY <1>1, SpanOther

LEMMA FieldType ==
    ASSUME NEW r \in Requests, NEW d \in 0 .. Len(AllCalls(r)), NEW h \in 1 .. Len(r.headers)
    PROVE  FieldOf(r, h, d) \in Fields
<1>1. 4 * h \in 1 .. Total(r) /\ 4 * h + 2 \in 1 .. Total(r)
  BY PartKinds
<1>2. Span(r, 4 * h, d) \in Ranges /\ Span(r, 4 * h + 2, d) \in Ranges
  BY <1>1, SpanType
<1> QED
  BY <1>2 DEF FieldOf, Fields

\* A call for the url or the body leaves the header fields alone.
LEMMA ElementStep ==
    ASSUME NEW r \in Requests, NEW d \in Nat, NEW i, CallOf(r, d + 1, i), NEW q, NEW p,
           Known(r, d, q), p.headers = q.headers,
           \/ i = 2 /\ p.url = Span(r, i, d + 1) /\ p.body = q.body
           \/ i = Total(r) /\ p.body = Span(r, i, d + 1) /\ p.url = q.url
    PROVE  Known(r, d + 1, p)
<1>1. Total(r) \in Nat /\ Total(r) = 4 * Len(r.headers) + 5 /\ Len(r.headers) \in Nat
  BY RequestType DEF Total
<1>2. Parts(r)[i].kind # "field" /\ 2 \in 1 .. Total(r) /\ Total(r) \in 1 .. Total(r)
  BY PartKinds
<1>3. /\ Begun(r, d, Len(q.headers)) /\ q.headers \in Seq(Fields)
      /\ \A h \in 1 .. Len(q.headers) : q.headers[h] = FieldOf(r, h, d)
      /\ q.url = Span(r, 2, d) /\ q.body = Span(r, Total(r), d)
  BY DEF Known
<1>4. Begun(r, d + 1, Len(q.headers))
  BY <1>2, <1>3, BegunStep
<1>5. ASSUME NEW h \in 1 .. Len(q.headers) PROVE p.headers[h] = FieldOf(r, h, d + 1)
  <2>1. h \in 1 .. Len(r.headers)
    BY <1>1, <1>3 DEF Begun
  <2>2. i # 4 * h /\ i # 4 * h + 2
    BY <1>1, <2>1
  <2>3. FieldOf(r, h, d + 1) = FieldOf(r, h, d)
    BY <2>1, <2>2, FieldsKept DEF FieldOf
  <2> QED
    BY <1>3, <2>3
<1>6. p.url = Span(r, 2, d + 1) /\ p.body = Span(r, Total(r), d + 1)
  <2>1. 2 # Total(r)
    BY <1>1
  <2>2. i = 2 => Span(r, Total(r), d + 1) = Span(r, Total(r), d)
    BY <1>2, <2>1, SpanOther
  <2>3. i = Total(r) => Span(r, 2, d + 1) = Span(r, 2, d)
    BY <1>2, <2>1, SpanOther
  <2>4. CASE i = 2
    <3>1. p.url = Span(r, i, d + 1) /\ p.body = q.body
      BY <2>1, <2>4
    <3> QED
      BY <1>3, <2>2, <2>4, <3>1
  <2>5. CASE i = Total(r)
    <3>1. p.body = Span(r, i, d + 1) /\ p.url = q.url
      BY <2>1, <2>5
    <3> QED
      BY <1>3, <2>3, <2>5, <3>1
  <2> QED
    BY <2>4, <2>5
<1> QED
  BY <1>3, <1>4, <1>5, <1>6 DEF Known

\* A call for a header field leaves the url and the body alone.
LEMMA OthersKept ==
    ASSUME NEW r \in Requests, NEW d \in Nat, NEW i, CallOf(r, d + 1, i),
           NEW h \in 1 .. Len(r.headers), i = 4 * h \/ i = 4 * h + 2
    PROVE  /\ Span(r, 2, d + 1) = Span(r, 2, d)
           /\ Span(r, Total(r), d + 1) = Span(r, Total(r), d)
<1>1. Total(r) \in Nat /\ Total(r) = 4 * Len(r.headers) + 5 /\ Len(r.headers) \in Nat
  BY RequestType DEF Total
<1>2. 2 \in 1 .. Total(r) /\ Total(r) \in 1 .. Total(r)
  BY PartKinds
<1>3. 2 # i /\ Total(r) # i
  BY <1>1
<1> QED
  BY <1>2, <1>3, SpanOther

\* The first call for a name begins a header field.
LEMMA NameStep ==
    ASSUME NEW r \in Requests, NEW d \in Nat, NEW i, CallOf(r, d + 1, i), NEW q, NEW p,
           Known(r, d, q), NEW h \in 1 .. Len(r.headers), i = 4 * h, FirstOf(r, d, i),
           p.url = q.url, p.body = q.body, d + 1 <= Len(AllCalls(r)),
           p.headers = Append(q.headers, [field |-> Span(r, i, d + 1), value |-> Nothing])
    PROVE  Known(r, d + 1, p)
<1> DEFINE m == Len(q.headers)
           x == [field |-> Span(r, i, d + 1), value |-> Nothing]
<1>1. /\ Begun(r, d, m) /\ q.headers \in Seq(Fields)
      /\ \A g \in 1 .. m : q.headers[g] = FieldOf(r, g, d)
      /\ q.url = Span(r, 2, d) /\ q.body = Span(r, Total(r), d)
  BY DEF Known
<1>2. m = h - 1 /\ Begun(r, d + 1, h) /\ m \in Nat /\ h \in Nat
  <2> HIDE DEF m
  <2>1. m = h - 1 /\ Begun(r, d + 1, h)
    BY <1>1, BegunStep
  <2>2. h \in Nat /\ h > 0
    BY RequestType
  <2> QED
    BY <2>1, <2>2
<1>3. Span(r, 4 * h + 2, d + 1) = Nothing
  <2>1. 4 * h + 2 \in 1 .. Total(r) /\ (4 * h + 2) - 1 = 4 * h + 1 /\ d + 1 \in Nat
    BY <1>2, PartKinds
  <2>2. d + 1 <= CallsTo(r)[4 * h]
    BY DEF CallOf
  <2>3. CallsTo(r)[4 * h] = CallsTo(r)[4 * h + 1]
    BY HeaderCalls
  <2> QED
    BY <2>1, <2>2, <2>3, SpanBefore
<1>4. x = FieldOf(r, h, d + 1)
  BY <1>3 DEF FieldOf
<1>5. x \in Fields
  <2>1. d + 1 \in 0 .. Len(AllCalls(r))
    BY CallsToCounts
  <2> QED
    BY <1>4, <2>1, FieldType
<1> HIDE DEF x
<1>6. /\ p.headers \in Seq(Fields) /\ Len(p.headers) = m + 1
      /\ \A g \in 1 .. m : p.headers[g] = q.headers[g]
      /\ p.headers[m + 1] = x
  <2>1. p.headers = Append(q.headers, x)
    BY DEF x
  <2> QED
    BY <1>1, <1>5, <2>1
<1> HIDE DEF m
<1>7. ASSUME NEW g \in 1 .. h PROVE p.headers[g] = FieldOf(r, g, d + 1)
  <2>1. CASE g = h
    BY <1>2, <1>4, <1>6, <2>1
  <2>2. CASE g # h
    <3>1. g \in 1 .. m /\ g \in 1 .. Len(r.headers) /\ i # 4 * g /\ i # 4 * g + 2
      BY <1>2, <2>2, RequestType
    <3>2. FieldOf(r, g, d + 1) = FieldOf(r, g, d)
      BY <3>1, FieldsKept DEF FieldOf
    <3> QED
      BY <1>1, <1>6, <3>1, <3>2
  <2> QED
    BY <2>1, <2>2
<1>8. Len(p.headers) = h
  BY <1>2, <1>6
<1>9. p.url = Span(r, 2, d + 1) /\ p.body = Span(r, Total(r), d + 1)
  <2>1. /\ Span(r, 2, d + 1) = Span(r, 2, d)
        /\ Span(r, Total(r), d + 1) = Span(r, Total(r), d)
    BY OthersKept
  <2> QED
    BY <1>1, <2>1
<1> QED
  BY <1>2, <1>6, <1>7, <1>8, <1>9 DEF Known

LEMMA FieldSeqs == \A n \in Nat : \A f \in [1 .. n -> Fields] : f \in Seq(Fields) /\ Len(f) = n
  OBVIOUS

\* A later call for a name, and each for a value, is about the last header field.
LEMMA FieldStep ==
    ASSUME NEW r \in Requests, NEW d \in Nat, NEW i, CallOf(r, d + 1, i), NEW q, NEW p,
           Known(r, d, q), NEW h \in 1 .. Len(r.headers),
           p.url = q.url, p.body = q.body, d + 1 <= Len(AllCalls(r)),
           \/ /\ i = 4 * h /\ CallsTo(r)[i - 1] < d
              /\ p.headers = [q.headers EXCEPT ![h] = [@ EXCEPT !.field = Span(r, i, d + 1)]]
           \/ /\ i = 4 * h + 2
              /\ p.headers = [q.headers EXCEPT ![h] = [@ EXCEPT !.value = Span(r, i, d + 1)]]
    PROVE  Known(r, d + 1, p)
<1> DEFINE m == Len(q.headers)
<1>1. /\ Begun(r, d, m) /\ q.headers \in Seq(Fields)
      /\ \A g \in 1 .. m : q.headers[g] = FieldOf(r, g, d)
      /\ q.url = Span(r, 2, d) /\ q.body = Span(r, Total(r), d)
  BY DEF Known
<1>2. m = h /\ m \in Nat
  BY <1>1, BegunStep
<1>3. Begun(r, d + 1, m)
  <2>1. Parts(r)[4 * h + 2].kind # "field"
    BY PartKinds
  <2> QED
    BY <1>1, <2>1, BegunStep
<1>4. /\ \A g \in 1 .. m : g # h => p.headers[g] = q.headers[g]
      /\ DOMAIN p.headers = 1 .. m
      /\ \/ i = 4 * h /\ p.headers[h] = [q.headers[h] EXCEPT !.field = Span(r, i, d + 1)]
         \/ i = 4 * h + 2 /\ p.headers[h] = [q.headers[h] EXCEPT !.value = Span(r, i, d + 1)]
      /\ p.headers = [g \in 1 .. m |-> p.headers[g]]
  <2>1. DOMAIN q.headers = 1 .. m /\ h \in 1 .. m
    BY <1>1, <1>2
  <2> QED
    BY <2>1
<1> HIDE DEF m
<1>5. p.headers[h] = FieldOf(r, h, d + 1)
  <2>1. q.headers[h] = FieldOf(r, h, d)
    BY <1>1, <1>2
  <2>2. i = 4 * h => p.headers[h] = [field |-> Span(r, i, d + 1), value |-> Span(r, 4 * h + 2, d)]
    BY <1>4, <2>1 DEF FieldOf
  <2>3. i = 4 * h + 2 => p.headers[h] = [field |-> Span(r, 4 * h, d), value |-> Span(r, i, d + 1)]
    BY <1>4, <2>1 DEF FieldOf
  <2>4. 4 * h # 4 * h + 2
    BY <1>2
  <2> QED
    BY <2>2, <2>3, <2>4, FieldsKept DEF FieldOf
<1>6. ASSUME NEW g \in 1 .. m PROVE p.headers[g] = FieldOf(r, g, d + 1) /\ p.headers[g] \in Fields
  <2>1. g \in 1 .. Len(r.headers)
    BY <1>2, RequestType
  <2>2. p.headers[g] = FieldOf(r, g, d + 1)
    <3>1. CASE g = h
      BY <1>5, <3>1
    <3>2. CASE g # h
      <4>1. i # 4 * g /\ i # 4 * g + 2
        BY <1>2, <3>2, RequestType
      <4>2. FieldOf(r, g, d + 1) = FieldOf(r, g, d)
        BY <2>1, <4>1, FieldsKept DEF FieldOf
      <4> QED
        BY <1>1, <1>4, <3>2, <4>2
    <3> QED
      BY <3>1, <3>2
  <2>3. d + 1 \in 0 .. Len(AllCalls(r))
    BY CallsToCounts
  <2> QED
    BY <2>1, <2>2, <2>3, FieldType
<1>7. p.headers \in Seq(Fields) /\ Len(p.headers) = m
  <2>1. p.headers \in [1 .. m -> Fields]
    <3>1. PICK f : f = p.headers
      OBVIOUS
    <3>2. f = [g \in 1 .. m |-> f[g]] /\ \A g \in 1 .. m : f[g] \in Fields
      BY <1>4, <1>6, <3>1
    <3>3. f \in [1 .. m -> Fields]
      BY <3>2
    <3> QED
      BY <3>1, <3>3
  <2> QED
    BY <1>2, <2>1, FieldSeqs
<1>8. p.url = Span(r, 2, d + 1) /\ p.body = Span(r, Total(r), d + 1)
  <2>1. /\ Span(r, 2, d + 1) = Span(r, 2, d)
        /\ Span(r, Total(r), d + 1) = Span(r, Total(r), d)
    BY OthersKept
  <2> QED
    BY <1>1, <2>1
<1> QED
  BY <1>3, <1>6, <1>7, <1>8 DEF Known
(***************************************************************************)
(* The invariant holds.                                                    *)
(***************************************************************************)
LEMMA BeginsRight == ASSUME NEW r \in Requests PROVE Known(r, 0, EmptyReq)
<1>1. 2 \in 1 .. Total(r) /\ Total(r) \in 1 .. Total(r)
  BY PartKinds
<1>2. CallsTo(r)[2 - 1] \in Nat /\ CallsTo(r)[Total(r) - 1] \in Nat
  BY <1>1, Told
<1>3. 0 <= CallsTo(r)[2 - 1] /\ 0 <= CallsTo(r)[Total(r) - 1] /\ 0 \in Nat
  BY <1>2
<1>4. Span(r, 2, 0) = Nothing /\ Span(r, Total(r), 0) = Nothing
  BY <1>1, <1>3, SpanBefore
<1>5. EmptyReq.url = Nothing /\ EmptyReq.body = Nothing /\ EmptyReq.headers = <<>>
  BY DEF EmptyReq
<1>6. <<>> \in Seq(Fields) /\ Len(<<>>) = 0
  OBVIOUS
<1>7. Begun(r, 0, 0)
  BY BegunEnds
<1>8. Begun(r, 0, Len(EmptyReq.headers)) /\ EmptyReq.headers \in Seq(Fields)
      /\ Len(EmptyReq.headers) = 0
  BY <1>5, <1>6, <1>7
<1> QED
  BY <1>4, <1>5, <1>8 DEF Known

LEMMA EmptyRight ==
    ASSUME NEW r \in Requests
    PROVE  /\ Shape(EmptyReq) /\ EmptyReq.parser_state = StateAfter(r, 0)
           /\ EmptyReq.parser_state # HTTP_PARSER_COMPLETE /\ 0 \in 0 .. Len(AllCalls(r))
<1>1. Shape(EmptyReq) /\ EmptyReq.parser_state = P_BEGIN
  BY DEF Shape, EmptyReq
<1>2. StateAfter(r, 0) = P_BEGIN
  BY DEF StateAfter
<1>3. P_BEGIN # HTTP_PARSER_COMPLETE
  BY StateOfs
<1>4. 0 \in 0 .. Len(AllCalls(r))
  BY CallsToCounts
<1> QED
  BY <1>1, <1>2, <1>3, <1>4

LEMMA InitRight == Init => CtxInv
<1> SUFFICES ASSUME Init PROVE CtxInv
  OBVIOUS
<1>1. /\ request \in Requests /\ reads = 0 /\ reading = FALSE /\ done = 0 /\ len = 0
      /\ req = EmptyReq
  BY DEF Init
<1>2. Typed
  <2>1. 0 * Page = 0
    BY PageNat
  <2> QED
    BY <1>1, <2>1, EmptyRight DEF Typed
<1>3. Known(request, done, req)
  BY <1>1, BeginsRight
<1>4. StateRight /\ Completed
  BY <1>1, EmptyRight DEF StateRight, Completed
<1> QED
  BY <1>2, <1>3, <1>4 DEF CtxInv

\* The part that the next call is for.
LEMMA NextOf ==
    ASSUME Typed, NEW kind \in Kinds \ {"gap"}, NextCall(kind)
    PROVE  /\ done \in Nat /\ done + 1 \in 0 .. Len(AllCalls(request))
           /\ done + 1 <= Len(AllCalls(request)) /\ done # Len(AllCalls(request))
           /\ StateAfter(request, done + 1) = StateOf(kind)
           /\ \E i \in 1 .. Total(request) :
                  CallOf(request, done + 1, i) /\ Parts(request)[i].kind = kind
<1>1. /\ request \in Requests /\ done \in 0 .. Len(AllCalls(request))
      /\ done < Len(AllCalls(request)) /\ AllCalls(request)[done + 1].kind = kind
  BY DEF Typed, NextCall
<1>2. Len(AllCalls(request)) \in Nat
  BY <1>1, CallsToCounts
<1>3. done \in Nat /\ done + 1 \in 1 .. Len(AllCalls(request)) /\ done + 1 # 0 /\ done + 1 \in Nat
  BY <1>1, <1>2
<1>4. PICK i \in 1 .. Total(request) : CallOf(request, done + 1, i)
  BY <1>1, <1>3, PartOfCall
<1>5. Parts(request)[i].kind = kind
  BY <1>1, <1>3, <1>4, CallFacts
<1>6. StateAfter(request, done + 1) = StateOf(kind)
  BY <1>1, <1>3 DEF StateAfter
<1> QED
  BY <1>1, <1>2, <1>3, <1>4, <1>5, <1>6

\* What remains to be shown of a callback.
LEMMA CallKeeps ==
    ASSUME Typed, StateRight, Completed, NEW kind \in Kinds \ {"gap"}, NextCall(kind),
           done' = done + 1, UNCHANGED <<request, reads, reading, len>>,
           Shape(req'), req'.parser_state = StateOf(kind), Known(request, done + 1, req')
    PROVE  CtxInv'
<1>1. /\ done \in Nat /\ done + 1 \in 0 .. Len(AllCalls(request))
      /\ StateAfter(request, done + 1) = StateOf(kind)
  BY NextOf
<1>2. Typed'
  BY <1>1 DEF Typed
<1>3. StateRight'
  BY <1>1 DEF StateRight
<1>4. req'.parser_state # HTTP_PARSER_COMPLETE
  BY StateOfs DEF Kinds
<1>5. Completed'
  BY <1>4 DEF Completed
<1> QED
  BY <1>2, <1>3, <1>5 DEF CtxInv

\* The request is not complete while calls are due.
LEMMA NotComplete ==
    ASSUME Typed, StateRight, Completed, NEW kind \in Kinds \ {"gap"}, NextCall(kind)
    PROVE  req.parser_state = StateAfter(request, done)
<1>1. done # Len(AllCalls(request))
  BY NextOf
<1>2. req.parser_state # HTTP_PARSER_COMPLETE
  BY <1>1 DEF Completed
<1> QED
  BY <1>2 DEF StateRight

LEMMA UrlStep == CtxInv /\ on_url => CtxInv'
<1> SUFFICES ASSUME CtxInv, on_url PROVE CtxInv'
  OBVIOUS
<1>1. Typed /\ Known(request, done, req) /\ StateRight /\ Completed
  BY DEF CtxInv
<1>2. "url" \in Kinds \ {"gap"} /\ NextCall("url")
  BY DEF Kinds, on_url
<1> DEFINE d == done + 1
           v == IF req.parser_state # P_URL THEN Begin ELSE More(req.url)
<1>3. /\ req' = [req EXCEPT !.parser_state = P_URL, !.url = v]
      /\ done' = done + 1 /\ UNCHANGED <<request, reads, reading, len>>
  BY DEF on_url
<1>4. Shape(req) /\ request \in Requests
  BY <1>1 DEF Typed
<1>5. req.parser_state = StateAfter(request, done)
  BY <1>1, <1>2, NotComplete
<1>6. /\ done \in Nat
      /\ \E i \in 1 .. Total(request) : CallOf(request, d, i) /\ Parts(request)[i].kind = "url"
  BY <1>1, <1>2, NextOf
<1>7. PICK i \in 1 .. Total(request) : CallOf(request, d, i) /\ Parts(request)[i].kind = "url"
  BY <1>6
<1>8. i = 2
  BY <1>4, <1>7, KindPart
<1>9. v = Span(request, i, d)
  <2>1. req.url = Span(request, i, done)
    BY <1>1, <1>8 DEF Known
  <2>2. Span(request, i, d) =
            IF StateAfter(request, done) # StateOf("url")
            THEN [pos |-> AllCalls(request)[d].at % Page, len |-> AllCalls(request)[d].length]
            ELSE [Span(request, i, done) EXCEPT !.len = @ + AllCalls(request)[d].length]
    BY <1>4, <1>6, <1>7, SpanNext
  <2>3. StateOf("url") = P_URL
    BY StateOfs
  <2> QED
    BY <1>5, <2>1, <2>2, <2>3 DEF Begin, More, Call, dynmem_offset
<1> HIDE DEF v
<1>10. /\ Shape(req') /\ req'.parser_state = P_URL /\ req'.url = v
       /\ req'.headers = req.headers /\ req'.body = req.body
  BY <1>3, <1>4 DEF Shape
<1>11. Known(request, d, req')
  BY <1>1, <1>4, <1>6, <1>7, <1>8, <1>9, <1>10, ElementStep
<1>12. req'.parser_state = StateOf("url")
  BY <1>10, StateOfs
<1> QED
  BY <1>1, <1>2, <1>3, <1>10, <1>11, <1>12, CallKeeps

LEMMA BodyStep == CtxInv /\ on_body => CtxInv'
<1> SUFFICES ASSUME CtxInv, on_body PROVE CtxInv'
  OBVIOUS
<1>1. Typed /\ Known(request, done, req) /\ StateRight /\ Completed
  BY DEF CtxInv
<1>2. "body" \in Kinds \ {"gap"} /\ NextCall("body")
  BY DEF Kinds, on_body
<1> DEFINE d == done + 1
           v == IF req.parser_state # P_BODY THEN Begin ELSE More(req.body)
<1>3. /\ req' = [req EXCEPT !.parser_state = P_BODY, !.body = v]
      /\ done' = done + 1 /\ UNCHANGED <<request, reads, reading, len>>
  BY DEF on_body
<1>4. Shape(req) /\ request \in Requests
  BY <1>1 DEF Typed
<1>5. req.parser_state = StateAfter(request, done)
  BY <1>1, <1>2, NotComplete
<1>6. /\ done \in Nat
      /\ \E i \in 1 .. Total(request) : CallOf(request, d, i) /\ Parts(request)[i].kind = "body"
  BY <1>1, <1>2, NextOf
<1>7. PICK i \in 1 .. Total(request) : CallOf(request, d, i) /\ Parts(request)[i].kind = "body"
  BY <1>6
<1>8. i = Total(request)
  BY <1>4, <1>7, KindPart
<1>9. v = Span(request, i, d)
  <2>1. req.body = Span(request, i, done)
    BY <1>1, <1>8 DEF Known
  <2>2. Span(request, i, d) =
            IF StateAfter(request, done) # StateOf("body")
            THEN [pos |-> AllCalls(request)[d].at % Page, len |-> AllCalls(request)[d].length]
            ELSE [Span(request, i, done) EXCEPT !.len = @ + AllCalls(request)[d].length]
    BY <1>4, <1>6, <1>7, SpanNext
  <2>3. StateOf("body") = P_BODY
    BY StateOfs
  <2> QED
    BY <1>5, <2>1, <2>2, <2>3 DEF Begin, More, Call, dynmem_offset
<1> HIDE DEF v
<1>10. /\ Shape(req') /\ req'.parser_state = P_BODY /\ req'.body = v
       /\ req'.headers = req.headers /\ req'.url = req.url
  BY <1>3, <1>4 DEF Shape
<1>11. Known(request, d, req')
  BY <1>1, <1>4, <1>6, <1>7, <1>8, <1>9, <1>10, ElementStep
<1>12. req'.parser_state = StateOf("body")
  BY <1>10, StateOfs
<1> QED
  BY <1>1, <1>2, <1>3, <1>10, <1>11, <1>12, CallKeeps
LEMMA HeaderNameStep == CtxInv /\ on_header_field => CtxInv'
<1> SUFFICES ASSUME CtxInv, on_header_field PROVE CtxInv'
  OBVIOUS
<1>1. Typed /\ Known(request, done, req) /\ StateRight /\ Completed
  BY DEF CtxInv
<1>2. "field" \in Kinds \ {"gap"} /\ NextCall("field")
  BY DEF Kinds, on_header_field
<1>4. Shape(req) /\ request \in Requests
  BY <1>1 DEF Typed
<1> DEFINE d == done + 1
           v == IF req.parser_state # P_HEAD_FIELD
                THEN Append(req.headers, [field |-> Begin, value |-> Nothing])
                ELSE [req.headers EXCEPT ![Len(req.headers)] =
                         [req.headers[Len(req.headers)] EXCEPT
                             !.field = More(req.headers[Len(req.headers)].field)]]
<1>3. /\ req' = [req EXCEPT !.parser_state = P_HEAD_FIELD, !.headers = v]
      /\ done' = done + 1 /\ UNCHANGED <<request, reads, reading, len>>
  BY DEF on_header_field
<1>5. req.parser_state = StateAfter(request, done)
  BY <1>1, <1>2, NotComplete
<1>6. /\ done \in Nat /\ d <= Len(AllCalls(request))
      /\ \E i \in 1 .. Total(request) : CallOf(request, d, i) /\ Parts(request)[i].kind = "field"
  BY <1>1, <1>2, NextOf
<1>7. PICK i \in 1 .. Total(request) : CallOf(request, d, i) /\ Parts(request)[i].kind = "field"
  BY <1>6
<1>8. PICK h \in 1 .. Len(request.headers) : i = 4 * h
  BY <1>4, <1>7, KindPart
<1> DEFINE first == [pos |-> AllCalls(request)[d].at % Page, len |-> AllCalls(request)[d].length]
           more == [Span(request, i, done) EXCEPT !.len = @ + AllCalls(request)[d].length]
<1>9. /\ CallsTo(request)[i - 1] = done \/ CallsTo(request)[i - 1] < done
      /\ Span(request, i, d) = IF req.parser_state # P_HEAD_FIELD THEN first ELSE more
      /\ req.parser_state # P_HEAD_FIELD <=> CallsTo(request)[i - 1] = done
      /\ CallsTo(request)[i - 1] \in Nat
  <2>1. StateOf("field") = P_HEAD_FIELD
    BY StateOfs
  <2> HIDE DEF first, more
  <2>2. /\ CallsTo(request)[i - 1] = done \/ CallsTo(request)[i - 1] < done
        /\ Span(request, i, d) =
               IF StateAfter(request, done) # StateOf("field") THEN first ELSE more
        /\ StateAfter(request, done) # StateOf("field") <=> CallsTo(request)[i - 1] = done
    BY <1>4, <1>6, <1>7, SpanNext DEF first, more
  <2>3. CallsTo(request)[i - 1] \in Nat
    BY <1>4, <1>7, Told
  <2> QED
    BY <1>5, <2>1, <2>2, <2>3
<1>10. first = Begin /\ \A x : More(x) = [x EXCEPT !.len = @ + AllCalls(request)[d].length]
  BY DEF Begin, More, Call, dynmem_offset
<1> HIDE DEF v
<1>11. /\ Shape(req') /\ req'.parser_state = P_HEAD_FIELD /\ req'.headers = v
       /\ req'.url = req.url /\ req'.body = req.body
  BY <1>3, <1>4 DEF Shape
<1>12. CASE req.parser_state # P_HEAD_FIELD
  <2>1. FirstOf(request, done, i)
    BY <1>9, <1>12 DEF FirstOf
  <2>2. Span(request, i, d) = Begin
    BY <1>9, <1>10, <1>12
  <2>3. v = Append(req.headers, [field |-> Span(request, i, d), value |-> Nothing])
    BY <1>12, <2>2 DEF v
  <2>4. Known(request, d, req')
    BY <1>1, <1>4, <1>6, <1>7, <1>8, <1>11, <2>1, <2>3, NameStep
  <2>5. req'.parser_state = StateOf("field")
    BY <1>11, StateOfs
  <2> QED
    BY <1>1, <1>2, <1>3, <1>11, <2>4, <2>5, CallKeeps
<1>13. CASE req.parser_state = P_HEAD_FIELD
  <2>1. CallsTo(request)[i - 1] < done
    BY <1>9, <1>13
  <2>2. Len(req.headers) = h /\ req.headers \in Seq(Fields) /\ h \in Nat /\ h > 0
        /\ req.headers[h] = FieldOf(request, h, done)
    <3>1. Begun(request, done, Len(req.headers)) /\ req.headers \in Seq(Fields)
          /\ \A g \in 1 .. Len(req.headers) : req.headers[g] = FieldOf(request, g, done)
      BY <1>1 DEF Known
    <3>2. Len(req.headers) = h
      BY <1>4, <1>6, <1>7, <1>8, <2>1, <3>1, BegunStep
    <3>3. h \in Nat /\ h > 0
      BY <1>4, RequestType
    <3> QED
      BY <3>1, <3>2, <3>3
  <2>3. More(req.headers[h].field) = Span(request, i, d)
    <3>1. req.headers[h].field = Span(request, i, done)
      BY <1>8, <2>2 DEF FieldOf
    <3>2. Span(request, i, d) = more
      BY <1>9, <1>13
    <3> QED
      BY <1>10, <3>1, <3>2
  <2>4. v = [req.headers EXCEPT ![h] =
                [req.headers[h] EXCEPT !.field = More(req.headers[h].field)]]
    BY <1>13, <2>2 DEF v
  <2>5. v = [req.headers EXCEPT ![h] = [@ EXCEPT !.field = Span(request, i, d)]]
    BY <2>3, <2>4
  <2>6. Known(request, d, req')
    BY <1>1, <1>4, <1>6, <1>7, <1>8, <1>11, <2>1, <2>5, FieldStep
  <2>7. req'.parser_state = StateOf("field")
    BY <1>11, StateOfs
  <2> QED
    BY <1>1, <1>2, <1>3, <1>11, <2>6, <2>7, CallKeeps
<1> QED
  BY <1>12, <1>13

LEMMA HeaderValueStep == CtxInv /\ on_header_value => CtxInv'
<1> SUFFICES ASSUME CtxInv, on_header_value PROVE CtxInv'
  OBVIOUS
<1>1. Typed /\ Known(request, done, req) /\ StateRight /\ Completed
  BY DEF CtxInv
<1>2. "value" \in Kinds \ {"gap"} /\ NextCall("value")
  BY DEF Kinds, on_header_value
<1>4. Shape(req) /\ request \in Requests
  BY <1>1 DEF Typed
<1> DEFINE d == done + 1
           m == Len(req.headers)
           v == [req.headers EXCEPT ![m] =
                    [req.headers[m] EXCEPT
                        !.value = IF req.parser_state = P_HEAD_FIELD THEN Begin
                                  ELSE More(req.headers[m].value)]]
<1>3. /\ req' = [req EXCEPT !.parser_state = P_HEAD_VALUE, !.headers = v]
      /\ done' = done + 1 /\ UNCHANGED <<request, reads, reading, len>>
  <2> DEFINE e == [req EXCEPT !.parser_state = P_HEAD_VALUE]
  <2>1. e.headers = req.headers
    BY <1>4 DEF Shape
  <2>2. /\ req' = [e EXCEPT !.headers =
                      [e.headers EXCEPT ![m] =
                          [e.headers[m] EXCEPT
                              !.value = IF req.parser_state = P_HEAD_FIELD THEN Begin
                                        ELSE More(e.headers[m].value)]]]
        /\ done' = done + 1 /\ UNCHANGED <<request, reads, reading, len>>
    BY DEF on_header_value
  <2>3. req' = [e EXCEPT !.headers = v]
    <3> HIDE DEF e
    <3> QED
      BY <2>1, <2>2
  <2> QED
    BY <2>2, <2>3
<1>5. req.parser_state = StateAfter(request, done)
  BY <1>1, <1>2, NotComplete
<1>6. /\ done \in Nat /\ d <= Len(AllCalls(request))
      /\ \E i \in 1 .. Total(request) : CallOf(request, d, i) /\ Parts(request)[i].kind = "value"
  BY <1>1, <1>2, NextOf
<1>7. PICK i \in 1 .. Total(request) : CallOf(request, d, i) /\ Parts(request)[i].kind = "value"
  BY <1>6
<1>8. PICK h \in 1 .. Len(request.headers) : i = 4 * h + 2
  BY <1>4, <1>7, KindPart
<1>9. /\ m = h /\ req.headers \in Seq(Fields) /\ h \in Nat /\ h > 0
      /\ req.headers[h] = FieldOf(request, h, done)
  <2>1. Begun(request, done, m) /\ req.headers \in Seq(Fields)
        /\ \A g \in 1 .. m : req.headers[g] = FieldOf(request, g, done)
    BY <1>1 DEF Known
  <2>2. m = h
    BY <1>4, <1>6, <1>7, <1>8, <2>1, BegunStep
  <2>3. h \in Nat /\ h > 0
    BY <1>4, RequestType
  <2> QED
    BY <2>1, <2>2, <2>3
<1>10. Span(request, i, d) = IF req.parser_state = P_HEAD_FIELD THEN Begin
                             ELSE More(req.headers[h].value)
  <2>1. Span(request, i, d) =
            IF StateAfter(request, done) = P_HEAD_FIELD
            THEN [pos |-> AllCalls(request)[d].at % Page, len |-> AllCalls(request)[d].length]
            ELSE [Span(request, i, done) EXCEPT !.len = @ + AllCalls(request)[d].length]
    BY <1>4, <1>6, <1>7, SpanNext
  <2>2. req.headers[h].value = Span(request, i, done)
    BY <1>8, <1>9 DEF FieldOf
  <2> QED
    BY <1>5, <2>1, <2>2 DEF Begin, More, Call, dynmem_offset
<1>11. v = [req.headers EXCEPT ![h] = [@ EXCEPT !.value = Span(request, i, d)]]
  BY <1>9, <1>10
<1> HIDE DEF v
<1>12. /\ Shape(req') /\ req'.parser_state = P_HEAD_VALUE /\ req'.headers = v
       /\ req'.url = req.url /\ req'.body = req.body
  BY <1>3, <1>4 DEF Shape
<1>13. Known(request, d, req')
  BY <1>1, <1>4, <1>6, <1>7, <1>8, <1>11, <1>12, FieldStep
<1>14. req'.parser_state = StateOf("value")
  BY <1>12, StateOfs
<1> QED
  BY <1>1, <1>2, <1>3, <1>12, <1>13, <1>14, CallKeeps
(***************************************************************************)
(* The request when all calls are made.                                    *)
(***************************************************************************)
\* The memory holds each part at its place.
LEMMA MemOf ==
    ASSUME request \in Requests, NEW i \in 1 .. Total(request),
           NEW k \in 1 .. Len(Parts(request)[i].text)
    PROVE  mem(At(request, i) + k - 1) = Parts(request)[i].text[k]
<1> DEFINE a == At(request, i)
           t == Parts(request)[i].text
           s == Stream(request)
<1>1. /\ a \in Nat /\ a + Len(t) <= Len(s) /\ s \in Seq(Char) /\ s[a + k] = t[k]
  BY PlaceOf
<1>2. mem(a + k - 1) = IF a + k - 1 < Len(s) THEN s[(a + k - 1) + 1] ELSE "0"
  BY DEF mem
<1>3. Len(t) \in Nat
  BY TextTypes
<1> HIDE DEF a, t, s
<1>4. a + k - 1 < Len(s) /\ (a + k - 1) + 1 = a + k
  BY <1>1, <1>3 DEF t
<1> QED
  BY <1>1, <1>2, <1>4 DEF a, t, s

\* The range v is the whole text of part i.
Whole(r, i, v) ==
    /\ v.len = Len(Parts(r)[i].text)
    /\ Len(Parts(r)[i].text) > 0 => v.pos = At(r, i) % Page

LEMMA WholeSpan ==
    ASSUME NEW r \in Requests, NEW i \in 1 .. Total(r), Parts(r)[i].kind # "gap"
    PROVE  Whole(r, i, Span(r, i, Len(AllCalls(r))))
  BY SpanWhole DEF Whole

\* All is found when all is told.
LEMMA AllKnown ==
    ASSUME NEW r \in Requests, NEW q, Known(r, Len(AllCalls(r)), q)
    PROVE  /\ Len(q.headers) = Len(r.headers) /\ DOMAIN q.headers = 1 .. Len(r.headers)
           /\ Whole(r, 2, q.url) /\ Whole(r, Total(r), q.body)
           /\ \A h \in 1 .. Len(r.headers) :
                  Whole(r, 4 * h, q.headers[h].field) /\ Whole(r, 4 * h + 2, q.headers[h].value)
<1> DEFINE d == Len(AllCalls(r))
<1>1. /\ q.url = Span(r, 2, d) /\ q.body = Span(r, Total(r), d)
      /\ q.headers \in Seq(Fields) /\ Begun(r, d, Len(q.headers))
      /\ \A h \in 1 .. Len(q.headers) : q.headers[h] = FieldOf(r, h, d)
  BY DEF Known
<1>2. Len(q.headers) = Len(r.headers)
  BY <1>1, BegunEnds
<1>3. DOMAIN q.headers = 1 .. Len(r.headers)
  BY <1>1, <1>2
<1>4. Whole(r, 2, q.url) /\ Whole(r, Total(r), q.body)
  <2>1. /\ Parts(r)[2].kind = "url" /\ Parts(r)[Total(r)].kind = "body"
        /\ 2 \in 1 .. Total(r) /\ Total(r) \in 1 .. Total(r)
    BY PartKinds
  <2>2. Whole(r, 2, Span(r, 2, d)) /\ Whole(r, Total(r), Span(r, Total(r), d))
    BY <2>1, WholeSpan
  <2> QED
    BY <1>1, <2>2
<1>5. ASSUME NEW h \in 1 .. Len(r.headers)
      PROVE  Whole(r, 4 * h, q.headers[h].field) /\ Whole(r, 4 * h + 2, q.headers[h].value)
  <2>1. /\ Parts(r)[4 * h].kind = "field" /\ Parts(r)[4 * h + 2].kind = "value"
        /\ 4 * h \in 1 .. Total(r) /\ 4 * h + 2 \in 1 .. Total(r)
    BY PartKinds
  <2>2. Whole(r, 4 * h, Span(r, 4 * h, d)) /\ Whole(r, 4 * h + 2, Span(r, 4 * h + 2, d))
    BY <2>1, WholeSpan
  <2>3. q.headers[h].field = Span(r, 4 * h, d) /\ q.headers[h].value = Span(r, 4 * h + 2, d)
    <3>1. h \in 1 .. Len(q.headers)
      BY <1>2
    <3>2. q.headers[h] = FieldOf(r, h, d)
      BY <1>1, <3>1
    <3> QED
      BY <3>2 DEF FieldOf
  <2> QED
    BY <2>2, <2>3
<1> QED
  BY <1>2, <1>3, <1>4, <1>5

\* A part that starts in the first page reads back as it was sent.
LEMMA ReadsBack ==
    ASSUME request \in Requests, NEW i \in 1 .. Total(request), NEW v, Whole(request, i, v),
           At(request, i) < Page
    PROVE  Text(v) = Parts(request)[i].text
<1> DEFINE a == At(request, i)
           t == Parts(request)[i].text
<1>1. a \in Nat /\ t \in Seq(Char) /\ Len(t) \in Nat
  BY PlaceOf, TextTypes
<1>2. a % Page = a
  BY <1>1, PageNat
<1>3. v.len = Len(t) /\ (Len(t) > 0 => v.pos = a)
  BY <1>2 DEF Whole
<1>4. \A k \in 1 .. Len(t) : mem(a + k - 1) = t[k]
  BY MemOf
<1>5. Text(v) = [k \in 1 .. v.len |-> mem(v.pos + k - 1)]
  BY DEF Text
<1> HIDE DEF a, t
<1>6. \A k \in 1 .. Len(t) : v.pos = a
  BY <1>1, <1>3
<1>7. [k \in 1 .. v.len |-> mem(v.pos + k - 1)] = [k \in 1 .. Len(t) |-> t[k]]
  BY <1>3, <1>4, <1>6
<1>8. t = [k \in 1 .. Len(t) |-> t[k]]
  BY <1>1
<1> QED
  BY <1>5, <1>7, <1>8 DEF t

\* The url, behind the method, lies at place 1 of the buffer.
LEMMA UrlPlace ==
    ASSUME request \in Requests
    PROVE  /\ \A v : Whole(request, 2, v) => v.pos = 1 /\ v.len = Len(request.url)
           /\ Len(request.url) \in Nat /\ Len(request.url) > 0
           /\ request.url \in Seq(Char) /\ request.url[1] # "?"
           /\ 1 + Len(request.url) <= Len(Stream(request)) /\ Len(Stream(request)) \in Nat
           /\ \A k \in 1 .. Len(request.url) : mem(k) = request.url[k]
<1>1. Parts(request)[2] = UrlPart(request) /\ UrlPart(request).text = request.url
  BY PartsShape DEF UrlPart
<1>2. At(request, 2) = 1 /\ 2 \in 1 .. Total(request)
  BY UrlAt
<1>3. request.url \in Seq(Char) /\ Len(request.url) > 0 /\ Len(request.url) \in Nat
  BY RequestType
<1>4. request.url[1] # "?"
  BY RequestsAssumption
<1>5. 1 % Page = 1
  BY PageAssumption
<1>6. /\ 1 + Len(request.url) <= Len(Stream(request)) /\ Len(Stream(request)) \in Nat
      /\ \A k \in 1 .. Len(request.url) : mem(1 + k - 1) = request.url[k]
  <2>1. Stream(request) \in Seq(Char)
        /\ At(request, 2) + Len(Parts(request)[2].text) <= Len(Stream(request))
    BY <1>2, PlaceOf
  <2>2. \A k \in 1 .. Len(Parts(request)[2].text) :
            mem(At(request, 2) + k - 1) = Parts(request)[2].text[k]
    BY <1>2, MemOf
  <2>3. Len(Stream(request)) \in Nat
    BY <2>1
  <2> QED
    BY <1>1, <1>2, <2>1, <2>2, <2>3
<1>7. ASSUME NEW k \in 1 .. Len(request.url) PROVE mem(k) = request.url[k]
  <2>1. 1 + k - 1 = k
    OBVIOUS
  <2> QED
    BY <1>6, <2>1
<1>8. ASSUME NEW v, Whole(request, 2, v) PROVE v.pos = 1 /\ v.len = Len(request.url)
  BY <1>1, <1>2, <1>3, <1>5, <1>8 DEF Whole
<1> QED
  BY <1>3, <1>4, <1>6, <1>7, <1>8
(***************************************************************************)
(* The path and the parameters.                                            *)
(***************************************************************************)
\* The first question mark of the url.
LEMMA FirstMarkIs ==
    ASSUME request \in Requests, Marks(request.url) # {}
    PROVE  /\ FirstMark(request.url) \in 2 .. Len(request.url)
           /\ request.url[FirstMark(request.url)] = "?"
           /\ \A k \in 1 .. FirstMark(request.url) - 1 : request.url[k] # "?"
<1> DEFINE u == request.url
           f == FirstMark(u)
<1>1. Len(u) \in Nat /\ u \in Seq(Char) /\ u[1] # "?"
  BY UrlPlace
<1>2. Marks(u) = {k \in 1 .. Len(u) : u[k] = "?"} /\ Marks(u) \subseteq Nat
  BY <1>1 DEF Marks
<1>3. \E k \in Marks(u) : \A j \in Marks(u) : k <= j
  <2>1. PICK M : M = Marks(u)
    OBVIOUS
  <2>2. M \subseteq Nat /\ M # {}
    BY <1>2, <2>1
  <2>3. \E k \in M : \A j \in M : k <= j
    BY <2>2, LeastNat
  <2> QED
    BY <2>1, <2>3
<1>4. f \in Marks(u) /\ \A j \in Marks(u) : f <= j
  BY <1>3 DEF FirstMark
<1> HIDE DEF f, u
<1>5. f \in 1 .. Len(u) /\ u[f] = "?" /\ f # 1
  BY <1>1, <1>2, <1>4
<1>6. ASSUME NEW k \in 1 .. f - 1 PROVE u[k] # "?"
  <2>1. k \in 1 .. Len(u) /\ ~(f <= k)
    BY <1>1, <1>5
  <2> QED
    BY <1>2, <1>4, <2>1
<1>7. f \in 2 .. Len(u)
  BY <1>1, <1>5
<1> QED
  BY <1>5, <1>6, <1>7 DEF f, u

\* The path ends in the url, and is not empty before its slash is dropped.
LEMMA UrlEndIs ==
    ASSUME request \in Requests, NEW cut \in BOOLEAN
    PROVE  /\ UrlEnd(request.url, cut) \in 1 .. Len(request.url)
           /\ PathLen(request.url, cut) \in 0 .. Len(request.url)
           /\ \/ UrlEnd(request.url, cut) = Len(request.url)
              \/ cut /\ request.url[UrlEnd(request.url, cut) + 1] = "?"
           /\ cut => \A k \in 1 .. UrlEnd(request.url, cut) : request.url[k] # "?"
<1> DEFINE u == request.url
           e == UrlEnd(u, cut)
           n == Len(u)
<1>1. n \in Nat /\ n > 0 /\ u \in Seq(Char)
  BY UrlPlace
<1>2. /\ e \in 1 .. n /\ (e = n \/ (cut /\ u[e + 1] = "?"))
      /\ cut => \A k \in 1 .. e : u[k] # "?"
  <2>1. CASE cut /\ Marks(u) # {}
    <3>1. e = FirstMark(u) - 1
      BY <2>1 DEF UrlEnd
    <3>2. FirstMark(u) \in 2 .. n /\ u[FirstMark(u)] = "?" /\ \A k \in 1 .. FirstMark(u) - 1 : u[k] # "?"
      BY <2>1, FirstMarkIs
    <3>3. PICK f \in 2 .. n : f = FirstMark(u)
      BY <3>2
    <3> HIDE DEF e, n, u
    <3>4. e = f - 1 /\ u[f] = "?" /\ \A k \in 1 .. f - 1 : u[k] # "?"
      BY <3>1, <3>2, <3>3
    <3>5. e \in 1 .. n /\ e + 1 = f
      BY <1>1, <3>4
    <3> QED
      BY <2>1, <3>4, <3>5
  <2>2. CASE ~(cut /\ Marks(u) # {})
    <3>1. e = n
      BY <2>2 DEF UrlEnd
    <3>2. ASSUME cut, NEW k \in 1 .. n PROVE u[k] # "?"
      <4>1. k \in DOMAIN u
        BY <1>1
      <4> QED
        BY <2>2, <3>2, <4>1 DEF Marks
    <3> HIDE DEF e, n, u
    <3> QED
      BY <1>1, <3>1, <3>2
  <2> QED
    BY <2>1, <2>2
<1>3. PathLen(u, cut) = IF u[e] = "/" THEN e - 1 ELSE e
  BY DEF PathLen
<1> HIDE DEF e, n, u
<1>4. PathLen(u, cut) \in 0 .. n
  BY <1>1, <1>2, <1>3
<1> QED
  BY <1>2, <1>4 DEF e, n, u

\* The search for the parameters, in a page that is not counted yet unless the
\* request took more than one read.
LEMMA ChrIs ==
    ASSUME request \in Requests, NEW cut \in BOOLEAN, cut <=> 1 < len,
           len \in Nat
    PROVE  dynmem_chr(1, Len(request.url), "?") =
               IF cut /\ Marks(request.url) # {} THEN FirstMark(request.url) ELSE -1
<1> DEFINE u == request.url
           n == Len(u)
           S == {p \in 1 .. 1 + n - 1 : mem(p) = "?"}
<1>1. n \in Nat /\ u \in Seq(Char) /\ \A k \in 1 .. n : mem(k) = u[k]
  BY UrlPlace
<1>2. S = Marks(u)
  <2>1. 1 + n - 1 = n /\ DOMAIN u = 1 .. n
    BY <1>1
  <2> QED
    BY <1>1, <2>1 DEF Marks
<1>3. dynmem_chr(1, n, "?") = IF 1 >= len \/ S = {} THEN -1 ELSE CHOOSE p \in S : \A q \in S : p <= q
  BY DEF dynmem_chr
<1> HIDE DEF S, n
<1>4. (1 >= len) <=> ~cut
  OBVIOUS
<1> QED
  BY <1>2, <1>3, <1>4 DEF FirstMark, n

\* The path of the request.
LEMMA PathIs ==
    ASSUME request \in Requests, NEW cut \in BOOLEAN, cut <=> 1 < len, len \in Nat,
           NEW v, v = [pos |-> 1, len |-> Len(request.url)]
    PROVE  /\ PathOf(v) = [pos |-> 1, len |-> PathLen(request.url, cut)]
           /\ cut \/ Marks(request.url) = {} =>
                  ParamOf(v) = IF Marks(request.url) = {} THEN Nothing
                                  ELSE [pos |-> FirstMark(request.url) + 1,
                                        len |-> Len(request.url) - FirstMark(request.url)]
<1> DEFINE u == request.url
           n == Len(u)
           e == UrlEnd(u, cut)
           f == FirstMark(u)
           q == get_param(v)
<1>1. n \in Nat /\ u \in Seq(Char) /\ \A k \in 1 .. n : mem(k) = u[k]
  BY UrlPlace
<1>2. e \in 1 .. n
  BY UrlEndIs
<1>3. dynmem_chr(1, n, "?") = IF cut /\ Marks(u) # {} THEN f ELSE -1
  BY ChrIs
<1>4. Marks(u) # {} => f \in 2 .. n
  BY FirstMarkIs
<1>5. e = IF cut /\ Marks(u) # {} THEN f - 1 ELSE n
  BY DEF UrlEnd
<1>6. PathLen(u, cut) = IF u[e] = "/" THEN e - 1 ELSE e
  BY DEF PathLen
<1>7. v.pos = 1 /\ v.len = n
  OBVIOUS
<1>8. q = IF dynmem_chr(1, n, "?") = -1 THEN -1 ELSE dynmem_chr(1, n, "?") + 1
  BY <1>7 DEF get_param
<1>9. PathOf(v) = WithoutSlash([pos |-> 1, len |-> IF q # -1 THEN (q - 1) - 1 ELSE n])
  BY <1>7 DEF PathOf
<1>10. ParamOf(v) = IF q = -1 THEN Nothing ELSE [pos |-> q, len |-> (1 + n) - q]
  BY <1>7 DEF ParamOf
<1> HIDE DEF e, f, q, n
<1>11. q = IF cut /\ Marks(u) # {} THEN f + 1 ELSE -1
  BY <1>1, <1>3, <1>4, <1>8
<1>12. PathOf(v) = WithoutSlash([pos |-> 1, len |-> e])
  <2>1. (IF q # -1 THEN (q - 1) - 1 ELSE n) = e
    BY <1>1, <1>4, <1>5, <1>11
  <2> QED
    BY <1>9, <2>1
<1>13. PathOf(v) = [pos |-> 1, len |-> PathLen(u, cut)]
  <2> DEFINE w == [pos |-> 1, len |-> e]
  <2>1. w.pos + w.len - 1 = e
    BY <1>1, <1>2
  <2>2. WithoutSlash(w) = IF mem(e) = "/" THEN [w EXCEPT !.len = w.len - 1] ELSE w
    BY <2>1 DEF WithoutSlash
  <2>3. mem(e) = u[e]
    BY <1>1, <1>2
  <2>4. [w EXCEPT !.len = w.len - 1] = [pos |-> 1, len |-> e - 1]
    OBVIOUS
  <2> QED
    BY <1>6, <1>12, <2>2, <2>3, <2>4
<1>14. cut \/ Marks(u) = {} =>
          ParamOf(v) = IF Marks(u) = {} THEN Nothing ELSE [pos |-> f + 1, len |-> n - f]
  <2>1. CASE cut /\ Marks(u) # {}
    <3>1. q = f + 1 /\ q # -1 /\ (1 + n) - q = n - f
      BY <1>1, <1>4, <1>11, <2>1
    <3> QED
      BY <1>10, <2>1, <3>1
  <2>2. CASE Marks(u) = {}
    BY <1>10, <1>11, <2>2
  <2> QED
    BY <2>1, <2>2
<1> QED
  BY <1>13, <1>14 DEF f, n
(***************************************************************************)
(* The header fields looked up.                                            *)
(***************************************************************************)
\* The header fields hold the names and the values.
FieldsWhole ==
    /\ DOMAIN req.headers = 1 .. Len(request.headers)
    /\ \A h \in 1 .. Len(request.headers) :
           /\ Whole(request, 4 * h, req.headers[h].field)
           /\ Whole(request, 4 * h + 2, req.headers[h].value)

LEMMA NameMatches ==
    ASSUME request \in Requests, FieldsWhole,
           NEW name \in Seq(Char), NEW h \in 1 .. Len(request.headers),
           At(request, 4 * h) + Len(request.headers[h][1]) <= Page
    PROVE  (/\ req.headers[h].field.len = Len(name)
            /\ equal_ignore_case(req.headers[h].field.pos, name))
               <=> SameName(request.headers[h][1], name)
<1> DEFINE t == request.headers[h][1]
           a == At(request, 4 * h)
           v == req.headers[h].field
           n == Len(t)
<1>1. t \in Seq(Char) /\ n > 0 /\ n \in Nat
  <2>1. t \in Seq(Char) /\ n > 0
    BY RequestType
  <2>2. \A s \in Seq(Char) : Len(s) \in Nat
    OBVIOUS
  <2> QED
    BY <2>1, <2>2
<1>2. 4 * h \in 1 .. Total(request) /\ Parts(request)[4 * h] = FieldPart(request, h)
  BY PartKinds, PartsShape
<1>3. Parts(request)[4 * h].text = t
  BY <1>2 DEF FieldPart
<1>4. a \in Nat
  BY <1>2, PlaceOf
<1>5. a + n <= Page
  OBVIOUS
<1>6. v.len = n /\ v.pos = a % Page
  <2>1. Whole(request, 4 * h, v)
    BY DEF FieldsWhole
  <2> QED
    BY <1>1, <1>3, <2>1 DEF Whole
<1>7. \A k \in 1 .. n : mem(a + k - 1) = t[k]
  BY <1>2, <1>3, MemOf
<1>8. equal_ignore_case(v.pos, name) <=>
          \A k \in 1 .. FirstChunk(v.pos, Len(name)) : Lower(mem(v.pos + k - 1)) = name[k]
  BY DEF equal_ignore_case
<1>9. SameName(t, name) <=> [k \in DOMAIN t |-> Lower(t[k])] = name
  BY DEF SameName
<1>10. DOMAIN t = 1 .. n /\ DOMAIN name = 1 .. Len(name) /\ Len(name) \in Nat
       /\ name = [k \in 1 .. Len(name) |-> name[k]]
  BY <1>1
<1> HIDE DEF t, a, v, n
<1>11. v.pos = a
  <2>1. a < Page
    BY <1>1, <1>4, <1>5, PageNat
  <2>2. a % Page = a
    BY <1>4, <2>1, PageNat
  <2> QED
    BY <1>6, <2>2
<1>12. CASE n = Len(name)
  <2>1. FirstChunk(v.pos, Len(name)) = n
    <3>1. a % Page = a
      BY <1>6, <1>11
    <3>2. n <= Page - a
      BY <1>1, <1>4, <1>5, PageNat
    <3> QED
      BY <1>11, <1>12, <3>1, <3>2 DEF FirstChunk, Lesser
  <2>2. equal_ignore_case(v.pos, name) <=> \A k \in 1 .. n : Lower(t[k]) = name[k]
    BY <1>7, <1>8, <1>11, <2>1
  <2>3. SameName(t, name) <=> \A k \in 1 .. n : Lower(t[k]) = name[k]
    <3>1. ASSUME SameName(t, name), NEW k \in 1 .. n PROVE Lower(t[k]) = name[k]
      BY <1>9, <1>10, <3>1
    <3>2. ASSUME \A k \in 1 .. n : Lower(t[k]) = name[k] PROVE SameName(t, name)
      <4>1. [k \in 1 .. n |-> Lower(t[k])] = [k \in 1 .. n |-> name[k]]
        BY <3>2
      <4> QED
        BY <1>9, <1>10, <1>12, <4>1
    <3> QED
      BY <3>1, <3>2
  <2> QED
    BY <1>6, <1>12, <2>2, <2>3 DEF t, v
<1>13. CASE n # Len(name)
  <2>1. ~SameName(t, name)
    <3> SUFFICES ASSUME SameName(t, name) PROVE FALSE
      OBVIOUS
    <3>1. DOMAIN name = DOMAIN t
      BY <1>9
    <3>2. 1 .. n = 1 .. Len(name)
      BY <1>10, <3>1
    <3> QED
      BY <1>1, <1>10, <1>13, <3>2
  <2> QED
    BY <1>6, <1>13, <2>1 DEF t, v
<1> QED
  BY <1>12, <1>13

LEMMA NamedIs ==
    ASSUME request \in Requests, NEW name, Named(name) # 0
    PROVE  Named(name) \in 1 .. Len(request.headers)
<1> DEFINE T == {i \in DOMAIN request.headers : SameName(request.headers[i][1], name)}
<1>1. DOMAIN request.headers = 1 .. Len(request.headers)
  BY RequestType
<1>2. T \subseteq 1 .. Len(request.headers) /\ T \subseteq Nat
  BY <1>1
<1>3. Named(name) = IF T = {} THEN 0 ELSE CHOOSE i \in T : \A j \in T : i <= j
  BY DEF Named
<1> HIDE DEF T
<1>4. T # {}
  BY <1>3
<1>5. \E i \in T : \A j \in T : i <= j
  BY <1>2, <1>4, LeastNat
<1> QED
  BY <1>2, <1>3, <1>4, <1>5

LEMMA LookupIs ==
    ASSUME request \in Requests, FieldsWhole, NEW name \in Seq(Char), SearchedInFirstPage(name)
    PROVE  get_http_header(name) = Named(name)
<1> DEFINE S == {i \in DOMAIN req.headers :
                    /\ req.headers[i].field.len = Len(name)
                    /\ equal_ignore_case(req.headers[i].field.pos, name)}
           T == {i \in DOMAIN request.headers : SameName(request.headers[i][1], name)}
           m == Named(name)
           n == Len(request.headers)
<1>1. DOMAIN req.headers = 1 .. n /\ DOMAIN request.headers = 1 .. n
  BY RequestType DEF FieldsWhole
<1>2. \A i \in 1 .. n : m = 0 \/ i <= m => (i \in S <=> i \in T)
  BY <1>1, NameMatches DEF SearchedInFirstPage
<1>3. get_http_header(name) = IF S = {} THEN 0 ELSE CHOOSE i \in S : \A j \in S : i <= j
  BY DEF get_http_header
<1>4. m = IF T = {} THEN 0 ELSE CHOOSE i \in T : \A j \in T : i <= j
  BY DEF Named
<1>5. S \subseteq 1 .. n /\ T \subseteq 1 .. n
  BY <1>1
<1>6. m # 0 => m \in 1 .. n
  BY NamedIs
<1> HIDE DEF S, T, m, n
<1>7. CASE T = {}
  BY <1>2, <1>3, <1>4, <1>5, <1>7 DEF m
<1>8. CASE T # {}
  <2>1. T \subseteq Nat /\ S \subseteq Nat
    BY <1>5
  <2>2. \E i \in T : \A j \in T : i <= j
    BY <1>8, <2>1, LeastNat
  <2>3. m \in T /\ \A j \in T : m <= j
    BY <1>4, <1>8, <2>2
  <2>4. m \in 1 .. n /\ m # 0 /\ m \in Nat
    BY <1>5, <2>3
  <2>5. m \in S
    BY <1>2, <2>3, <2>4
  <2>6. \A j \in S : m <= j
    <3> SUFFICES ASSUME NEW j \in S, j < m PROVE FALSE
      BY <2>1, <2>4
    <3>1. j \in 1 .. n /\ j <= m
      BY <1>5, <2>4
    <3> QED
      BY <1>2, <2>1, <2>3, <2>4, <3>1
  <2>7. \A i \in S : (\A j \in S : i <= j) => i = m
    BY <2>1, <2>4, <2>5, <2>6
  <2> QED
    BY <1>3, <2>5, <2>6, <2>7 DEF m
<1> QED
  BY <1>7, <1>8

\* The number that the completion reads.
LEMMA NumberIs ==
    ASSUME request \in Requests, FieldsWhole, SearchedInFirstPage(ContentLength), len \in Nat,
           NEW n \in get_http_header_uint(ContentLength), NEW i, i = Named(ContentLength)
    PROVE  /\ i = 0 => n = 0
           /\ i # 0 /\ Page <= len /\ At(request, 4 * i + 2) + Len(request.headers[i][2]) <= Page
                  => n = atoi(request.headers[i][2])
<1>1. get_http_header(ContentLength) = i
  BY NamesAssumption, LookupIs
<1> DEFINE v == req.headers[i].value
           Chars(j) == [k \in 1 .. v.len |-> IF v.pos + k <= len THEN mem(v.pos + k - 1) ELSE j[k]]
<1>2. n \in IF i = 0 THEN {0} ELSE {atoi(Chars(j)) : j \in [1 .. v.len -> Junk]}
  BY <1>1 DEF get_http_header_uint
<1> HIDE DEF v
<1>3. ASSUME i # 0, Page <= len, At(request, 4 * i + 2) + Len(request.headers[i][2]) <= Page
      PROVE  n = atoi(request.headers[i][2])
  <2> DEFINE t == request.headers[i][2]
             a == At(request, 4 * i + 2)
  <2>1. i \in 1 .. Len(request.headers)
    BY <1>3, NamedIs
  <2>2. t \in Seq(Char) /\ Len(t) \in Nat
    <3>1. t \in Seq(Char)
      BY <2>1, RequestType
    <3> HIDE DEF t
    <3> QED
      BY <3>1
  <2>3. 4 * i + 2 \in 1 .. Total(request) /\ Parts(request)[4 * i + 2] = ValuePart(request, i)
    BY <2>1, PartKinds, PartsShape
  <2>4. Parts(request)[4 * i + 2].text = t
    BY <2>3 DEF ValuePart
  <2>5. a \in Nat
    BY <2>3, PlaceOf
  <2>6. v.len = Len(t) /\ (Len(t) > 0 => v.pos = a % Page)
    <3>1. Whole(request, 4 * i + 2, v)
      BY <2>1 DEF FieldsWhole, v
    <3> QED
      BY <2>4, <3>1 DEF Whole
  <2>7. \A k \in 1 .. Len(t) : mem(a + k - 1) = t[k]
    BY <2>3, <2>4, MemOf
  <2>8. a + Len(t) <= Page
    BY <1>3
  <2> HIDE DEF a, t
  <2>9. ASSUME NEW k \in 1 .. Len(t) PROVE v.pos = a /\ v.pos + k <= len
    <3>1. a < Page /\ Len(t) > 0
      BY <2>2, <2>5, <2>8, PageNat
    <3>2. a % Page = a
      BY <2>5, <3>1, PageNat
    <3> QED
      BY <1>3, <2>2, <2>5, <2>6, <2>8, <3>1, <3>2, PageNat
  <2>10. ASSUME NEW j PROVE Chars(j) = t
    <3>1. Chars(j) = [k \in 1 .. Len(t) |-> t[k]]
      BY <2>6, <2>7, <2>9
    <3>2. t = [k \in 1 .. Len(t) |-> t[k]]
      BY <2>2
    <3> QED
      BY <3>1, <3>2
  <2> HIDE DEF Chars
  <2>11. n = atoi(t)
    BY <1>2, <1>3, <2>10
  <2> QED
    BY <2>11 DEF t
<1> QED
  BY <1>2, <1>3
(***************************************************************************)
(* The steps of the reads.                                                 *)
(***************************************************************************)
\* The length of the buffer while a page is parsed, and between pages.
LEMMA LenIs ==
    ASSUME Typed
    PROVE  /\ len \in Nat
           /\ reading => /\ reads > 1 <=> 1 < len
                         /\ reads > 1 => Page <= len
           /\ ~reading => len = reads * Page
<1>1. reads \in Nat /\ reading \in BOOLEAN /\ (reading => reads > 0)
      /\ len = (IF reading THEN reads - 1 ELSE reads) * Page
  BY DEF Typed
<1>2. CASE reading
  <2>1. PICK k \in Nat : k = reads - 1
    BY <1>1, <1>2
  <2>2. len = k * Page /\ reads = k + 1
    BY <1>1, <1>2, <2>1
  <2>3. CASE k = 0
    <3>1. len = 0
      BY <2>2, <2>3, PageNat
    <3> QED
      BY <1>2, <2>2, <2>3, <3>1
  <2>4. CASE k # 0
    <3>1. PICK j \in Nat : k = j + 1
      <4>1. k - 1 \in Nat /\ k = (k - 1) + 1
        BY <2>4
      <4> QED
        BY <4>1
    <3>2. k * Page = j * Page + Page /\ j * Page \in Nat
      BY <3>1, Products
    <3>3. len \in Nat /\ Page <= len
      BY <2>2, <3>2, PageNat
    <3>4. 1 < len
      BY <3>3, PageAssumption
    <3> QED
      BY <1>2, <2>2, <2>4, <3>3, <3>4
  <2> QED
    BY <2>3, <2>4
<1>3. CASE ~reading
  BY <1>1, <1>3, Products
<1> QED
  BY <1>1, <1>2, <1>3

LEMMA AllocStep == CtxInv /\ on_allocing => CtxInv'
<1> SUFFICES ASSUME CtxInv, on_allocing PROVE CtxInv'
  OBVIOUS
<1>1. Typed /\ Known(request, done, req) /\ StateRight /\ Completed
  BY DEF CtxInv
<1>2. /\ ~reading /\ req.parser_state # HTTP_PARSER_COMPLETE
      /\ reads' = reads + 1 /\ reading' = TRUE
      /\ UNCHANGED <<request, done, len, req>>
  BY DEF on_allocing
<1>3. Typed'
  <2>1. reads \in Nat /\ len = reads * Page
    BY <1>1, <1>2, LenIs DEF Typed
  <2>2. reads' \in Nat /\ reads' > 0 /\ reads' - 1 = reads
    BY <1>2, <2>1
  <2>3. len' = (reads' - 1) * Page
    BY <1>2, <2>1, <2>2
  <2> QED
    BY <1>1, <1>2, <2>2, <2>3 DEF Typed
<1>4. Known(request, done, req)'
  BY <1>1, <1>2
<1>5. StateRight' /\ Completed'
  BY <1>1, <1>2 DEF StateRight, Completed
<1> QED
  BY <1>3, <1>4, <1>5 DEF CtxInv

\* What Completed says depends on the request, the reads and the fields only.
LEMMA StaysComplete ==
    ASSUME Completed, UNCHANGED <<request, reads, done, req>>
    PROVE  Completed'
<1>1. Text(req.url_param)' = Text(req.url_param) /\ Divided' = Divided
  BY DEF Text, mem, Divided
<1>2. FoundByName' = FoundByName
  BY DEF FoundByName, SearchedInFirstPage, Named
<1> QED
  BY <1>1, <1>2 DEF Completed

LEMMA ReadStep == CtxInv /\ on_readed => CtxInv'
<1> SUFFICES ASSUME CtxInv, on_readed PROVE CtxInv'
  OBVIOUS
<1>1. Typed /\ Known(request, done, req) /\ StateRight /\ Completed
  BY DEF CtxInv
<1>2. /\ reading /\ len' = len + Page /\ reading' = FALSE
      /\ UNCHANGED <<request, reads, done, req>>
  BY DEF on_readed
<1>3. Typed'
  <2>1. reads \in Nat /\ reads > 0 /\ len = (reads - 1) * Page
    BY <1>1, <1>2 DEF Typed
  <2>2. PICK k \in Nat : k = reads - 1
    BY <2>1
  <2>3. len = k * Page /\ reads = k + 1
    BY <2>1, <2>2
  <2>4. (k + 1) * Page = k * Page + Page
    BY Products
  <2>5. len' = reads' * Page
    BY <1>2, <2>3, <2>4
  <2> QED
    BY <1>1, <1>2, <2>1, <2>5 DEF Typed
<1>4. Known(request, done, req)'
  BY <1>1, <1>2
<1>5. StateRight'
  BY <1>1, <1>2 DEF StateRight
<1>6. Completed'
  BY <1>1, <1>2, StaysComplete
<1> QED
  BY <1>3, <1>4, <1>5, <1>6 DEF CtxInv

LEMMA WrittenStep == CtxInv /\ on_writed => CtxInv'
<1> SUFFICES ASSUME CtxInv, on_writed PROVE CtxInv'
  OBVIOUS
<1>1. /\ ~reading /\ request' \in Requests
      /\ reads' = 0 /\ done' = 0 /\ len' = 0 /\ req' = EmptyReq /\ UNCHANGED reading
  BY DEF on_writed, Served
<1>2. Typed'
  <2>1. 0 * Page = 0 /\ reading \in BOOLEAN
    BY PageNat DEF CtxInv, Typed
  <2> QED
    BY <1>1, <2>1, EmptyRight DEF Typed
<1>3. Known(request, done, req)'
  BY <1>1, BeginsRight
<1>4. StateRight' /\ Completed'
  BY <1>1, EmptyRight DEF StateRight, Completed
<1> QED
  BY <1>2, <1>3, <1>4 DEF CtxInv
(***************************************************************************)
(* Pieces of texts.                                                        *)
(***************************************************************************)
LEMMA PieceIs ==
    ASSUME NEW s \in Seq(Char), NEW a \in Nat, NEW b \in Nat, 1 <= a, b <= Len(s), a <= b + 1
    PROVE  /\ SubSeq(s, a, b) = [k \in 1 .. (b - a) + 1 |-> s[(a - 1) + k]]
           /\ SubSeq(s, a, b) \in Seq(Char) /\ Len(SubSeq(s, a, b)) = (b - a) + 1
<1> DEFINE n == (b - a) + 1
<1>1. n \in Nat /\ Len(s) \in Nat
  OBVIOUS
<1>2. SubSeq(s, a, b) \in Seq(Char) /\ Len(SubSeq(s, a, b)) = n
  OBVIOUS
<1>3. ASSUME NEW k \in 1 .. n PROVE SubSeq(s, a, b)[k] = s[(a - 1) + k]
  OBVIOUS
<1>4. PICK t \in Seq(Char) : t = SubSeq(s, a, b)
  BY <1>2
<1>5. t = [k \in 1 .. Len(t) |-> t[k]]
  OBVIOUS
<1> HIDE DEF n
<1>6. t = [k \in 1 .. n |-> s[(a - 1) + k]]
  BY <1>2, <1>3, <1>4, <1>5
<1> QED
  BY <1>2, <1>4, <1>6 DEF n

\* A path without the slash at its end.
LEMMA AskedIs ==
    ASSUME NEW p \in Seq(Char), Len(p) > 0, NEW m,
           m = IF p[Len(p)] = "/" THEN Len(p) - 1 ELSE Len(p)
    PROVE  /\ m \in Nat /\ m <= Len(p) /\ Asked(p) \in Seq(Char) /\ Len(Asked(p)) = m
           /\ \A k \in 1 .. m : Asked(p)[k] = p[k]
           /\ Asked(p) = [k \in 1 .. m |-> p[k]]
<1>1. Len(p) \in Nat
  OBVIOUS
<1>2. CASE p[Len(p)] = "/"
  <2>1. Asked(p) = SubSeq(p, 1, Len(p) - 1)
    BY <1>2 DEF Asked, Front
  <2>2. PICK b \in Nat : b = Len(p) - 1
    BY <1>1
  <2>3. /\ SubSeq(p, 1, b) = [k \in 1 .. (b - 1) + 1 |-> p[(1 - 1) + k]]
        /\ SubSeq(p, 1, b) \in Seq(Char) /\ Len(SubSeq(p, 1, b)) = (b - 1) + 1
    BY <1>1, <2>2, PieceIs
  <2>4. (b - 1) + 1 = b /\ \A k \in 1 .. b : (1 - 1) + k = k
    OBVIOUS
  <2>5. [k \in 1 .. (b - 1) + 1 |-> p[(1 - 1) + k]] = [k \in 1 .. b |-> p[k]]
    BY <2>4
  <2>6. m = b
    BY <1>2, <2>2
  <2> QED
    BY <1>1, <2>1, <2>2, <2>3, <2>4, <2>5, <2>6
<1>3. CASE p[Len(p)] # "/"
  <2>1. Asked(p) = p /\ m = Len(p)
    BY <1>3 DEF Asked
  <2>2. p = [k \in 1 .. Len(p) |-> p[k]]
    OBVIOUS
  <2> QED
    BY <1>1, <2>1, <2>2
<1> QED
  BY <1>2, <1>3

LEMMA ParamsAre ==
    ASSUME request \in Requests, NEW v,
           v = IF Marks(request.url) = {} THEN Nothing
               ELSE [pos |-> FirstMark(request.url) + 1,
                     len |-> Len(request.url) - FirstMark(request.url)]
    PROVE  Text(v) = ParamsSent(request.url)
<1> DEFINE u == request.url
           n == Len(u)
           f == FirstMark(u)
<1>1. n \in Nat /\ u \in Seq(Char) /\ \A k \in 1 .. n : mem(k) = u[k]
  BY UrlPlace
<1>2. Text(v) = [k \in 1 .. v.len |-> mem(v.pos + k - 1)]
  BY DEF Text
<1>3. CASE Marks(u) = {}
  <2>1. v.len = 0 /\ ParamsSent(u) = <<>>
    BY <1>3 DEF Nothing, ParamsSent
  <2>2. [k \in 1 .. 0 |-> mem(v.pos + k - 1)] = <<>>
    OBVIOUS
  <2> QED
    BY <1>2, <2>1, <2>2
<1>4. CASE Marks(u) # {}
  <2>1. f \in 2 .. n
    BY <1>4, FirstMarkIs
  <2>2. v.len = n - f /\ v.pos = f + 1
    BY <1>4
  <2>3. ParamsSent(u) = SubSeq(u, f + 1, n)
    BY <1>4 DEF ParamsSent, FirstMark
  <2> HIDE DEF f, u, n
  <2>4. f + 1 \in Nat /\ 1 <= f + 1 /\ f + 1 <= n + 1 /\ n <= Len(u)
    BY <1>1, <2>1 DEF n
  <2>5. SubSeq(u, f + 1, n) = [k \in 1 .. (n - (f + 1)) + 1 |-> u[((f + 1) - 1) + k]]
    BY <1>1, <2>4, PieceIs
  <2>6. (n - (f + 1)) + 1 = n - f
    BY <1>1, <2>1
  <2>7. ASSUME NEW k \in 1 .. n - f PROVE mem(v.pos + k - 1) = u[((f + 1) - 1) + k]
    <3>1. v.pos + k - 1 = f + k /\ ((f + 1) - 1) + k = f + k /\ f + k \in 1 .. n
      BY <1>1, <2>1, <2>2
    <3> QED
      BY <1>1, <3>1
  <2>8. Text(v) = [k \in 1 .. n - f |-> u[((f + 1) - 1) + k]]
    BY <1>2, <2>2, <2>7
  <2> QED
    BY <2>3, <2>5, <2>6, <2>8 DEF u
<1> QED
  BY <1>3, <1>4

\* The text of the path, cut at the question mark.
LEMMA PathTextIs ==
    ASSUME request \in Requests
    PROVE  Text([pos |-> 1, len |-> PathLen(request.url, TRUE)]) = PathSent(request.url)
<1> DEFINE u == request.url
           n == Len(u)
           e == UrlEnd(u, TRUE)
           l == PathLen(u, TRUE)
           p == IF Marks(u) = {} THEN u ELSE SubSeq(u, 1, FirstMark(u) - 1)
           v == [pos |-> 1, len |-> l]
<1>1. n \in Nat /\ u \in Seq(Char) /\ \A k \in 1 .. n : mem(k) = u[k]
  BY UrlPlace
<1>2. e \in 1 .. n /\ l \in 0 .. n
  BY UrlEndIs
<1>3. l = IF u[e] = "/" THEN e - 1 ELSE e
  BY DEF PathLen
<1>4. PathSent(u) = Asked(p)
  BY DEF PathSent, FirstMark
<1>5. p \in Seq(Char) /\ Len(p) = e /\ \A k \in 1 .. e : p[k] = u[k]
  <2>1. CASE Marks(u) = {}
    BY <1>1, <2>1 DEF UrlEnd
  <2>2. CASE Marks(u) # {}
    <3>1. p = SubSeq(u, 1, e)
      BY <2>2 DEF UrlEnd
    <3> HIDE DEF p, u, e, n
    <3>2. e \in Nat /\ 1 <= e /\ e <= Len(u) /\ 1 <= e + 1
      BY <1>2 DEF n
    <3>3. /\ SubSeq(u, 1, e) = [k \in 1 .. (e - 1) + 1 |-> u[(1 - 1) + k]]
          /\ SubSeq(u, 1, e) \in Seq(Char) /\ Len(SubSeq(u, 1, e)) = (e - 1) + 1
      BY <1>1, <3>2, PieceIs
    <3>4. (e - 1) + 1 = e /\ \A k \in 1 .. e : (1 - 1) + k = k
      BY <3>2
    <3> QED
      BY <3>1, <3>3, <3>4
  <2> QED
    BY <2>1, <2>2
<1> HIDE DEF p, e, l, n
<1>6. l = IF p[Len(p)] = "/" THEN Len(p) - 1 ELSE Len(p)
  BY <1>2, <1>3, <1>5
<1>7. Asked(p) = [k \in 1 .. l |-> p[k]]
  BY <1>1, <1>2, <1>5, <1>6, AskedIs
<1>8. Text(v) = [k \in 1 .. l |-> mem(1 + k - 1)]
  BY DEF Text
<1>9. ASSUME NEW k \in 1 .. l PROVE mem(1 + k - 1) = p[k]
  <2>1. k \in 1 .. e /\ k \in 1 .. n /\ 1 + k - 1 = k
    BY <1>1, <1>2, <1>3
  <2> QED
    BY <1>1, <1>5, <2>1
<1>10. [k \in 1 .. l |-> mem(1 + k - 1)] = [k \in 1 .. l |-> p[k]]
  BY <1>9
<1> QED
  BY <1>4, <1>7, <1>8, <1>10 DEF l
(***************************************************************************)
(* The completion.                                                         *)
(***************************************************************************)
LEMMA CompleteStep == CtxInv /\ on_message_complete => CtxInv'
<1> SUFFICES ASSUME CtxInv, on_message_complete PROVE CtxInv'
  OBVIOUS
<1>1. Typed /\ Known(request, done, req)
  BY DEF CtxInv
<1>2. /\ reading /\ done = Len(AllCalls(request)) /\ Len(Stream(request)) <= reads * Page
      /\ UNCHANGED <<request, reads, reading, done, len>>
  BY DEF on_message_complete
<1>3. PICK n \in get_http_header_uint(ContentLength) :
               req' = [req EXCEPT !.host = get_http_header(Host),
                                  !.content_type = get_http_header(ContentType),
                                  !.content_length = n,
                                  !.path = PathOf(req.url),
                                  !.url_param = ParamOf(req.url),
                                  !.parser_state = HTTP_PARSER_COMPLETE]
  BY DEF on_message_complete
<1>4. /\ request \in Requests /\ Shape(req) /\ reads \in Nat /\ reads > 0
      /\ len \in Nat /\ (reads > 1 <=> 1 < len) /\ (reads > 1 => Page <= len)
  BY <1>1, <1>2, LenIs DEF Typed
<1>5. /\ Shape(req') /\ req'.parser_state = HTTP_PARSER_COMPLETE
      /\ req'.url = req.url /\ req'.headers = req.headers /\ req'.body = req.body
      /\ req'.host = get_http_header(Host) /\ req'.content_type = get_http_header(ContentType)
      /\ req'.content_length = n
      /\ req'.path = PathOf(req.url) /\ req'.url_param = ParamOf(req.url)
  BY <1>3, <1>4 DEF Shape
<1>6. Typed'
  BY <1>1, <1>2, <1>5 DEF Typed
<1>7. Known(request, done, req)'
  BY <1>1, <1>2, <1>5 DEF Known
<1>8. StateRight'
  BY <1>5 DEF StateRight
<1>9. FieldsWhole /\ Whole(request, 2, req.url)
  BY <1>1, <1>2, <1>4, AllKnown DEF FieldsWhole
<1>10. req.url = [pos |-> 1, len |-> Len(request.url)]
  <2>1. req.url.pos = 1 /\ req.url.len = Len(request.url)
    BY <1>4, <1>9, UrlPlace
  <2>2. req.url \in Ranges
    <3>1. 2 \in 1 .. Total(request) /\ done \in 0 .. Len(AllCalls(request))
      BY <1>1, <1>4, PartKinds DEF Typed
    <3>2. req.url = Span(request, 2, done)
      BY <1>1 DEF Known
    <3> QED
      BY <1>4, <3>1, <3>2, SpanType
  <2>3. req.url = [pos |-> req.url.pos, len |-> req.url.len]
    BY <2>2 DEF Ranges
  <2> QED
    BY <2>1, <2>3
<1>11. /\ PathOf(req.url) = [pos |-> 1, len |-> PathLen(request.url, reads > 1)]
       /\ Divided => ParamOf(req.url) = IF Marks(request.url) = {} THEN Nothing
                                        ELSE [pos |-> FirstMark(request.url) + 1,
                                              len |-> Len(request.url) - FirstMark(request.url)]
  <2>1. PICK cut \in BOOLEAN : cut = (reads > 1)
    <3>1. (reads > 1) \in BOOLEAN
      OBVIOUS
    <3> QED
      BY <3>1, Zenon
  <2>2. cut <=> 1 < len
    BY <1>4, <2>1
  <2>3. /\ PathOf(req.url) = [pos |-> 1, len |-> PathLen(request.url, cut)]
        /\ cut \/ Marks(request.url) = {} =>
               ParamOf(req.url) = IF Marks(request.url) = {} THEN Nothing
                                  ELSE [pos |-> FirstMark(request.url) + 1,
                                        len |-> Len(request.url) - FirstMark(request.url)]
    BY <1>4, <1>10, <2>2, PathIs
  <2>4. Divided => cut \/ Marks(request.url) = {}
    BY <2>1 DEF Divided
  <2> QED
    BY <2>1, <2>3, <2>4
<1>12. /\ Text(req.url_param)' = Text(req'.url_param) /\ Divided' = Divided
       /\ \A x : Named(x)' = Named(x)
       /\ \A x : SearchedInFirstPage(x)' = SearchedInFirstPage(x)
  BY <1>2 DEF Text, mem, Named, SearchedInFirstPage, Divided
<1>13. Divided => Text(req'.url_param) = ParamsSent(request.url)
  BY <1>4, <1>5, <1>11, ParamsAre
<1>14. FoundByName'
  <2>1. SearchedInFirstPage(Host) => req'.host = Named(Host)
    BY <1>4, <1>5, <1>9, LookupIs, NamesAssumption
  <2>2. SearchedInFirstPage(ContentType) => req'.content_type = Named(ContentType)
    BY <1>4, <1>5, <1>9, LookupIs, NamesAssumption
  <2>3. PICK i : i = Named(ContentLength)
    OBVIOUS
  <2>4. SearchedInFirstPage(ContentLength) =>
        /\ i = 0 => n = 0
        /\ i # 0 /\ Page <= len /\ At(request, 4 * i + 2) + Len(request.headers[i][2]) <= Page
               => n = atoi(request.headers[i][2])
    BY <1>4, <1>9, <2>3, NumberIs
  <2> QED
    BY <1>2, <1>4, <1>5, <1>12, <2>1, <2>2, <2>3, <2>4 DEF FoundByName
<1>15. Completed'
  BY <1>2, <1>4, <1>5, <1>11, <1>12, <1>13, <1>14 DEF Completed
<1> QED
  BY <1>6, <1>7, <1>8, <1>15 DEF CtxInv

\* After any calls of http_parser the fields of the request hold what these
\* calls told, and after the completion what the url and the names come to.
THEOREM CtxInvariant == Spec => []CtxInv
<1>1. Init => CtxInv
  BY InitRight
<1>2. CtxInv /\ [Next]_vars => CtxInv'
  <2> SUFFICES ASSUME CtxInv, [Next]_vars PROVE CtxInv'
    OBVIOUS
  <2>1. CASE on_allocing
    BY <2>1, AllocStep
  <2>2. CASE on_url
    BY <2>2, UrlStep
  <2>3. CASE on_header_field
    BY <2>3, HeaderNameStep
  <2>4. CASE on_header_value
    BY <2>4, HeaderValueStep
  <2>5. CASE on_body
    BY <2>5, BodyStep
  <2>6. CASE on_message_complete
    BY <2>6, CompleteStep
  <2>7. CASE on_readed
    BY <2>7, ReadStep
  <2>8. CASE on_writed
    BY <2>8, WrittenStep
  <2>9. CASE UNCHANGED vars
    <3>1. UNCHANGED <<request, reads, reading, done, len, req>>
      BY <2>9 DEF vars
    <3>2. Typed' /\ Known(request, done, req)' /\ StateRight'
      BY <3>1 DEF CtxInv, Typed, StateRight
    <3>3. Completed'
      BY <3>1, StaysComplete DEF CtxInv
    <3> QED
      BY <3>2, <3>3 DEF CtxInv
  <2> QED
    BY <2>1, <2>2, <2>3, <2>4, <2>5, <2>6, <2>7, <2>8, <2>9 DEF Next
<1> QED
  BY <1>1, <1>2, PTL DEF Spec
(***************************************************************************)
(* What the service finds.                                                 *)
(***************************************************************************)
LEMMA ElementIs ==
    ASSUME request \in Requests, FieldsWhole, Whole(request, 2, req.url),
           Whole(request, Total(request), req.body),
           NEW i \in 1 .. Total(request), Parts(request)[i].kind # "gap"
    PROVE  Whole(request, i, Element(i))
<1> DEFINE n == Len(request.headers)
<1>1. /\ n \in Nat /\ Total(request) = 4 * n + 5 /\ Len(Parts(request)) = Total(request)
  BY RequestType, PartsShape DEF Total
<1>2. Element(i) =
          CASE i = 2 -> req.url
            [] i = Total(request) -> req.body
            [] i \in 4 .. Total(request) - 2 /\ i % 4 = 0 -> req.headers[i \div 4].field
            [] i \in 4 .. Total(request) - 2 /\ i % 4 = 2 -> req.headers[i \div 4].value
  BY <1>1 DEF Element
<1>3. CASE i = 2
  <2>1. Element(i) = req.url
    BY <1>1, <1>2, <1>3
  <2> QED
    BY <1>3, <2>1
<1>4. CASE i = Total(request)
  <2>1. Element(i) = req.body
    BY <1>1, <1>2, <1>4
  <2> QED
    BY <1>4, <2>1
<1>5. ASSUME NEW h \in 1 .. n, i = 4 * h PROVE Whole(request, i, Element(i))
  <2>1. i # 2 /\ i # Total(request) /\ i \in 4 .. Total(request) - 2 /\ i % 4 = 0 /\ i \div 4 = h
    BY <1>1, <1>5
  <2>2. Element(i) = req.headers[h].field
    BY <1>2, <2>1
  <2> QED
    BY <1>5, <2>2 DEF FieldsWhole
<1>6. ASSUME NEW h \in 1 .. n, i = 4 * h + 2 PROVE Whole(request, i, Element(i))
  <2>1. i # 2 /\ i # Total(request) /\ i \in 4 .. Total(request) - 2 /\ i % 4 = 2 /\ i \div 4 = h
    BY <1>1, <1>6
  <2>2. Element(i) = req.headers[h].value
    BY <1>2, <2>1
  <2> QED
    BY <1>6, <2>2 DEF FieldsWhole
<1> QED
  BY <1>3, <1>4, <1>5, <1>6, WhichPart

\* What is known of a served request.
LEMMA ServedIs ==
    ASSUME CtxInv, Served
    PROVE  /\ request \in Requests /\ FieldsWhole /\ Whole(request, 2, req.url)
           /\ Whole(request, Total(request), req.body)
           /\ reads \in Nat /\ len = reads * Page /\ len \in Nat /\ Len(Stream(request)) <= len
           /\ req.path = [pos |-> 1, len |-> PathLen(request.url, reads > 1)]
           /\ Divided => Text(req.url_param) = ParamsSent(request.url)
           /\ FoundByName
<1>1. Typed /\ Known(request, done, req) /\ Completed
  BY DEF CtxInv
<1>2. ~reading /\ req.parser_state = HTTP_PARSER_COMPLETE
  BY DEF Served
<1>3. /\ done = Len(AllCalls(request)) /\ reads > 0 /\ Len(Stream(request)) <= reads * Page
      /\ req.path = [pos |-> 1, len |-> PathLen(request.url, reads > 1)]
      /\ Divided => Text(req.url_param) = ParamsSent(request.url)
      /\ FoundByName
  BY <1>1, <1>2 DEF Completed
<1>4. request \in Requests /\ reads \in Nat /\ len = reads * Page /\ len \in Nat
  BY <1>1, <1>2, LenIs DEF Typed
<1>5. /\ FieldsWhole /\ Whole(request, 2, req.url) /\ Whole(request, Total(request), req.body)
  BY <1>1, <1>3, <1>4, AllKnown DEF FieldsWhole
<1> QED
  BY <1>3, <1>4, <1>5

LEMMA RequestIsExact == CtxInv => RequestExact
<1> SUFFICES ASSUME CtxInv PROVE RequestExact
  OBVIOUS
<1>1. Served => Len(req.headers) = Len(request.headers)
  BY AllKnown DEF CtxInv, Served, Completed, Typed
<1>2. ASSUME Served, NEW i \in Elements
      PROVE  /\ Element(i).len = Len(Parts(request)[i].text)
             /\ At(request, i) < Page => Text(Element(i)) = Parts(request)[i].text
  <2>1. /\ request \in Requests /\ FieldsWhole /\ Whole(request, 2, req.url)
        /\ Whole(request, Total(request), req.body)
    BY <1>2, ServedIs
  <2>2. i \in 1 .. Total(request) /\ Parts(request)[i].kind # "gap"
    <3>1. DOMAIN Parts(request) = 1 .. Total(request)
      BY <2>1, PartsShape
    <3> QED
      BY <3>1 DEF Elements
  <2>3. Whole(request, i, Element(i))
    BY <2>1, <2>2, ElementIs
  <2>4. Element(i).len = Len(Parts(request)[i].text)
    BY <2>3 DEF Whole
  <2>5. At(request, i) < Page => Text(Element(i)) = Parts(request)[i].text
    BY <2>1, <2>2, <2>3, ReadsBack
  <2> QED
    BY <2>4, <2>5
<1>3. ElementsFound
  BY <1>1, <1>2 DEF ElementsFound, LengthsExact, FirstPageExact
<1>4. ASSUME Served, NEW name \in {Host, ContentType, ContentLength}, SearchedInFirstPage(name)
      PROVE  httpctx_get_header(name) = Named(name)
  BY <1>4, ServedIs, LookupIs, NamesAssumption DEF httpctx_get_header
<1>5. LookupExact
  BY <1>4, ServedIs DEF LookupExact
<1> QED
  BY <1>3, <1>5 DEF RequestExact

\* The callbacks find each element of every request with its whole length, and
\* its bytes when it starts in the first page, for every page size and cut.  A
\* lookup is right when the names that it has to compare lie in the first page,
\* and the content length, besides, when a read was counted before.
THEOREM FoundAsSent == Spec => []RequestExact
  BY CtxInvariant, RequestIsExact, PTL

\* A path asked for has no question mark and no slash at its end.
LEMMA PathAsked ==
    ASSUME NEW p \in Paths
    PROVE  /\ Asked(p) \in Seq(Char) /\ Len(Asked(p)) \in Nat
           /\ \A k \in 1 .. Len(Asked(p)) : Asked(p)[k] # "?"
           /\ Len(Asked(p)) > 0 => Asked(p)[Len(Asked(p))] # "/"
<1>1. /\ p \in Seq(Char) \ {<<>>} /\ \A k \in 1 .. Len(p) : p[k] # "?"
      /\ Len(p) > 1 => p[Len(p) - 1] # "/" \/ p[Len(p)] # "/"
  BY PathsAssumption
<1>2. p \in Seq(Char) /\ Len(p) \in Nat /\ Len(p) > 0
  BY <1>1
<1>3. PICK m : m = IF p[Len(p)] = "/" THEN Len(p) - 1 ELSE Len(p)
  OBVIOUS
<1>4. /\ m \in Nat /\ m <= Len(p) /\ Asked(p) \in Seq(Char) /\ Len(Asked(p)) = m
      /\ \A k \in 1 .. m : Asked(p)[k] = p[k]
  BY <1>2, <1>3, AskedIs
<1>5. \A k \in 1 .. m : Asked(p)[k] # "?"
  BY <1>1, <1>2, <1>4
<1>6. m > 0 => Asked(p)[m] # "/"
  BY <1>1, <1>2, <1>3, <1>4
<1> QED
  BY <1>4, <1>5, <1>6
\* The comparison of the buffer behind the method with a text, below the url's end.
LEMMA EqualIs ==
    ASSUME CtxInv, Served, NEW s \in Seq(Char), Len(s) <= Len(request.url)
    PROVE  dynmem_equal(1, s) <=> \A k \in 1 .. Len(s) : request.url[k] = s[k]
<1> DEFINE u == request.url
           n == Len(s)
<1>1. request \in Requests /\ len \in Nat /\ Len(Stream(request)) <= len
  BY ServedIs
<1>2. /\ Len(u) \in Nat /\ Len(u) > 0 /\ \A k \in 1 .. Len(u) : mem(k) = u[k]
      /\ 1 + Len(u) <= Len(Stream(request)) /\ Len(Stream(request)) \in Nat
  BY <1>1, UrlPlace
<1>3. n \in Nat /\ DOMAIN s = 1 .. n
  OBVIOUS
<1>4. dynmem_equal(1, s) <=> /\ 1 < len /\ 1 + n <= len
                             /\ \A k \in 1 .. n : mem(1 + k - 1) = s[k]
  BY <1>3 DEF dynmem_equal
<1> HIDE DEF n, u
<1>5. 1 < len /\ 1 + n <= len
  BY <1>1, <1>2, <1>3 DEF n, u
<1>6. ASSUME NEW k \in 1 .. n PROVE mem(1 + k - 1) = u[k]
  <2>1. 1 + k - 1 = k /\ k \in 1 .. Len(u)
    BY <1>2, <1>3 DEF n, u
  <2> QED
    BY <1>2, <2>1
<1> QED
  BY <1>4, <1>5, <1>6 DEF n, u

LEMMA PrefixRight ==
    ASSUME CtxInv, Served, NEW p \in Paths
    PROVE  httpctx_path_prefix(p) <=>
               LET n == Len(Asked(p))
               IN  /\ n <= Len(request.url) /\ SubSeq(request.url, 1, n) = Asked(p)
                   /\ n = Len(request.url) \/ request.url[n + 1] \in {"/", "?"}
<1> DEFINE u == request.url
           s == Asked(p)
           n == Len(s)
           cut == reads > 1
           e == UrlEnd(u, cut)
           l == PathLen(u, cut)
<1>1. /\ request \in Requests /\ reads \in Nat /\ len \in Nat
      /\ req.path = [pos |-> 1, len |-> l] /\ cut \in BOOLEAN
  BY ServedIs
<1>2. /\ Len(u) \in Nat /\ Len(u) > 0 /\ u \in Seq(Char) /\ \A k \in 1 .. Len(u) : mem(k) = u[k]
  BY <1>1, UrlPlace
<1>3. /\ s \in Seq(Char) /\ n \in Nat /\ \A k \in 1 .. n : s[k] # "?"
      /\ n > 0 => s[n] # "/"
  BY PathAsked
<1> HIDE DEF s, cut
<1>4. /\ e \in 1 .. Len(u) /\ (e = Len(u) \/ (cut /\ u[e + 1] = "?")) /\ l \in 0 .. Len(u)
  BY <1>1, UrlEndIs
<1>5. l = IF u[e] = "/" THEN e - 1 ELSE e
  BY DEF PathLen
<1>6. httpctx_path_prefix(p) <=>
          /\ n <= l /\ dynmem_equal(1, s) /\ (n = l \/ mem(1 + n) \in {"/", "?"})
  BY <1>1 DEF httpctx_path_prefix, s
<1> HIDE DEF e, l, u, n
<1>7. n <= Len(u) => (dynmem_equal(1, s) <=> \A k \in 1 .. n : u[k] = s[k])
  BY <1>3, EqualIs DEF u, n
<1>8. n <= Len(u) => (SubSeq(u, 1, n) = s <=> \A k \in 1 .. n : u[k] = s[k])
  <2> SUFFICES ASSUME n <= Len(u) PROVE SubSeq(u, 1, n) = s <=> \A k \in 1 .. n : u[k] = s[k]
    OBVIOUS
  <2>1. SubSeq(u, 1, n) = [k \in 1 .. (n - 1) + 1 |-> u[(1 - 1) + k]]
    BY <1>2, <1>3, PieceIs
  <2>2. (n - 1) + 1 = n /\ \A k \in 1 .. n : (1 - 1) + k = k
    BY <1>3
  <2>3. SubSeq(u, 1, n) = [k \in 1 .. n |-> u[k]]
    BY <2>1, <2>2
  <2>4. s = [k \in 1 .. n |-> s[k]]
    BY <1>3 DEF n
  <2>5. ASSUME SubSeq(u, 1, n) = s, NEW k \in 1 .. n PROVE u[k] = s[k]
    BY <2>3, <2>5
  <2>6. ASSUME \A k \in 1 .. n : u[k] = s[k] PROVE SubSeq(u, 1, n) = s
    <3>1. [k \in 1 .. n |-> u[k]] = [k \in 1 .. n |-> s[k]]
      BY <2>6
    <3> QED
      BY <2>3, <2>4, <3>1
  <2> QED
    BY <2>5, <2>6
<1>9. l <= e /\ e - 1 <= l /\ l <= Len(u) /\ e \in Nat /\ l \in Nat
  BY <1>2, <1>4, <1>5
<1> DEFINE Same == \A k \in 1 .. n : u[k] = s[k]
<1>10. ASSUME n <= l, Same, n = l \/ mem(1 + n) \in {"/", "?"}
       PROVE  n <= Len(u) /\ (n = Len(u) \/ u[n + 1] \in {"/", "?"})
  <2>1. CASE n = l
    <3>1. CASE l = e
      BY <1>2, <1>4, <1>9, <2>1, <3>1
    <3>2. CASE l # e
      <4>1. u[e] = "/" /\ n + 1 = e
        BY <1>5, <1>9, <2>1, <3>2
      <4> QED
        BY <1>4, <1>9, <2>1, <4>1
    <3> QED
      BY <3>1, <3>2
  <2>2. CASE n # l
    <3>1. n + 1 \in 1 .. Len(u) /\ 1 + n = n + 1
      BY <1>2, <1>3, <1>9, <1>10, <2>2
    <3>2. u[n + 1] \in {"/", "?"}
      BY <1>2, <1>10, <2>2, <3>1
    <3> QED
      BY <1>3, <3>1, <3>2
  <2> QED
    BY <2>1, <2>2
<1>11. ASSUME n <= Len(u), Same, n = Len(u) \/ u[n + 1] \in {"/", "?"}
       PROVE  n <= l /\ (n = l \/ mem(1 + n) \in {"/", "?"})
  <2>1. n <= e
    <3> SUFFICES ASSUME e + 1 <= n PROVE FALSE
      BY <1>3, <1>9
    <3>1. e # Len(u)
      BY <1>2, <1>3, <1>9, <1>11
    <3>2. u[e + 1] = "?" /\ e + 1 \in 1 .. n
      BY <1>3, <1>4, <1>9, <3>1
    <3>3. s[e + 1] = "?"
      BY <1>11, <3>2
    <3> QED
      BY <1>3, <3>2, <3>3
  <2>2. n <= l
    <3> SUFFICES ASSUME l + 1 <= n PROVE FALSE
      BY <1>3, <1>9
    <3>1. n = e /\ l = e - 1 /\ u[e] = "/"
      BY <1>3, <1>5, <1>9, <2>1
    <3>2. n \in 1 .. n /\ n > 0
      BY <1>4, <3>1
    <3>3. s[n] = "/"
      BY <1>11, <3>1, <3>2
    <3> QED
      BY <1>3, <3>2, <3>3
  <2>3. CASE n = l
    BY <2>2, <2>3
  <2>4. CASE n # l
    <3>1. n + 1 \in 1 .. Len(u) /\ 1 + n = n + 1 /\ n # Len(u)
      BY <1>2, <1>3, <1>9, <2>2, <2>4
    <3>2. mem(1 + n) = u[n + 1]
      BY <1>2, <3>1
    <3> QED
      BY <1>11, <2>2, <3>1, <3>2
  <2> QED
    BY <2>3, <2>4
<1>12. n <= l => n <= Len(u)
  BY <1>2, <1>3, <1>9
<1>13. httpctx_path_prefix(p) <=>
           /\ n <= Len(u) /\ SubSeq(u, 1, n) = s
           /\ n = Len(u) \/ u[n + 1] \in {"/", "?"}
  <2> HIDE DEF Same
  <2>1. httpctx_path_prefix(p) <=> n <= l /\ Same /\ (n = l \/ mem(1 + n) \in {"/", "?"})
    BY <1>6, <1>7, <1>12 DEF Same
  <2>2. n <= Len(u) => (SubSeq(u, 1, n) = s <=> Same)
    BY <1>8 DEF Same
  <2> QED
    BY <1>10, <1>11, <1>12, <2>1, <2>2
<1> QED
  BY <1>13 DEF n, s, u

LEMMA EqualRight ==
    ASSUME CtxInv, Served, Divided, NEW p \in Paths
    PROVE  httpctx_path_equal(p) <=> Asked(p) = PathSent(request.url)
<1> DEFINE u == request.url
           s == Asked(p)
           t == PathSent(u)
           n == Len(s)
           l == PathLen(u, TRUE)
<1>1. /\ request \in Requests /\ req.path = [pos |-> 1, len |-> PathLen(u, reads > 1)]
  BY ServedIs
<1>2. /\ Len(u) \in Nat /\ u \in Seq(Char) /\ \A k \in 1 .. Len(u) : mem(k) = u[k]
  BY <1>1, UrlPlace
<1>3. s \in Seq(Char) /\ n \in Nat
  BY PathAsked
<1>4. PathLen(u, reads > 1) = l
  BY DEF Divided, PathLen, UrlEnd
<1>5. l \in 0 .. Len(u)
  BY <1>1, UrlEndIs
<1>6. httpctx_path_equal(p) <=> n = l /\ dynmem_equal(1, s)
  <2>1. req.path = [pos |-> 1, len |-> l]
    BY <1>1, <1>4, Zenon
  <2>2. req.path.len = l /\ req.path.pos = 1
    <3> HIDE DEF l
    <3> QED
      BY <2>1
  <2> QED
    BY <2>2 DEF httpctx_path_equal
<1>7. t = [k \in 1 .. l |-> mem(1 + k - 1)]
  BY <1>1, PathTextIs DEF Text
<1> HIDE DEF s, n, l, t, u
<1>8. t = [k \in 1 .. l |-> u[k]] /\ Len(t) = l
  <2>1. \A k \in 1 .. l : mem(1 + k - 1) = u[k]
    BY <1>2, <1>5
  <2>2. t = [k \in 1 .. l |-> u[k]]
    BY <1>7, <2>1
  <2> QED
    BY <1>5, <2>2
<1>9. n <= Len(u) => (dynmem_equal(1, s) <=> \A k \in 1 .. n : u[k] = s[k])
  BY <1>3, EqualIs DEF u, n
<1>10. s = [k \in 1 .. n |-> s[k]]
  BY <1>3 DEF n
<1>11. ASSUME n = l, \A k \in 1 .. n : u[k] = s[k] PROVE s = t
  <2>1. [k \in 1 .. n |-> s[k]] = [k \in 1 .. l |-> u[k]]
    BY <1>11
  <2> QED
    BY <1>8, <1>10, <2>1
<1>12. ASSUME s = t PROVE n = l /\ \A k \in 1 .. n : u[k] = s[k]
  <2>1. n = l
    BY <1>8, <1>12 DEF n
  <2>2. ASSUME NEW k \in 1 .. n PROVE u[k] = s[k]
    BY <1>8, <1>12, <2>1
  <2> QED
    BY <2>1, <2>2
<1>13. n = l => n <= Len(u)
  BY <1>2, <1>5
<1> QED
  BY <1>6, <1>9, <1>11, <1>12, <1>13 DEF u, s, t

LEMMA PathsAreMatched == CtxInv => PathsMatch
<1> SUFFICES ASSUME CtxInv PROVE PathsMatch
  OBVIOUS
<1>1. UrlSplit
  <2> SUFFICES ASSUME Served, Divided
               PROVE  Text(req.path) = PathSent(request.url)
                      /\ Text(req.url_param) = ParamsSent(request.url)
    BY DEF UrlSplit
  <2>1. /\ request \in Requests
        /\ req.path = [pos |-> 1, len |-> PathLen(request.url, reads > 1)]
        /\ Text(req.url_param) = ParamsSent(request.url)
    BY ServedIs
  <2>2. PathLen(request.url, reads > 1) = PathLen(request.url, TRUE)
    BY DEF Divided, PathLen, UrlEnd
  <2> QED
    BY <2>1, <2>2, PathTextIs
<1>2. PrefixMatches
  BY PrefixRight DEF PrefixMatches
<1>3. EqualMatches
  BY EqualRight DEF EqualMatches
<1> QED
  BY <1>1, <1>2, <1>3 DEF PathsMatch

\* The prefixes of every request and every path are those of httpctx.h.  The
\* path ends where the parameters begin, and the comparison for equality
\* answers as httpctx.h says, unless a request of one read has parameters:
\* that one is not cut, and PathWithoutParams fails for it.
THEOREM PathsMatched == Spec => []PathsMatch
  BY CtxInvariant, PathsAreMatched, PTL
=============================================================================
