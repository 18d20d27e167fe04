---------------------------- MODULE DynMemProofs ----------------------------
(***************************************************************************)
(* dynmem.c for every page size, capacity and data.  The chunks that       *)
(* dynmem_foreach hands to its callback are shown to be the range it was   *)
(* asked for, in order; reads, writes and the flat buffer follow.          *)
(***************************************************************************)
EXTENDS DynMem, DataInduction, SequenceTheorems, TLAPS

(***************************************************************************)
(* Positions and places.                                                   *)
(***************************************************************************)
LEMMA PageNat == Page \in Nat /\ Page > 0
  BY DynMemAssumption

\* Quotient and remainder by the page size.
LEMMA DivMod ==
    ASSUME NEW p \in Nat
    PROVE  /\ p \div Page \in Nat /\ p % Page \in 0 .. Page - 1
           /\ p = (p \div Page) * Page + (p % Page)
  BY PageNat, SMTT(30)

\* A number of pages, in bytes.
LEMMA ProductNat ==
    ASSUME NEW k \in Nat
    PROVE  k * Page \in Nat /\ (k + 1) * Page = k * Page + Page
  BY PageNat, SMTT(30)

\* Fewer pages are at least a page of bytes fewer.
LEMMA ProductLess ==
    ASSUME NEW k \in Nat, NEW m \in Nat
    PROVE  (k < m) <=> (k * Page + Page <= m * Page)
  BY PageNat, SMTT(30)

\* The place of a position is unique.
LEMMA Place ==
    ASSUME NEW k \in Nat, NEW j \in 0 .. Page - 1
    PROVE  (k * Page + j) \div Page = k /\ (k * Page + j) % Page = j
<1> DEFINE p == k * Page + j
           q == p \div Page
           r == p % Page
<1>1. p \in Nat /\ k * Page \in Nat
  BY ProductNat, PageNat
<1>2. q \in Nat /\ r \in 0 .. Page - 1 /\ p = q * Page + r /\ q * Page \in Nat
  BY <1>1, DivMod, ProductNat
<1>3. p = k * Page + j
  OBVIOUS
<1> HIDE DEF p, q, r
<1>4. ~(q < k) /\ ~(k < q)
  BY <1>1, <1>2, <1>3, ProductLess, PageNat
<1>5. q = k
  BY <1>2, <1>4
<1>6. r = j
  BY <1>2, <1>3, <1>5, <1>1, PageNat
<1> QED
  BY <1>5, <1>6 DEF p, q, r

\* The pages for n bytes are enough, and less than a page too many.
LEMMA Rounding ==
    ASSUME NEW n \in Nat
    PROVE  /\ PagesFor(n) \in Nat
           /\ PagesFor(n) * Page \in Nat
           /\ n <= PagesFor(n) * Page
           /\ PagesFor(n) * Page < n + Page
<1> DEFINE m == n + Page - 1
<1>1. m \in Nat
  BY PageNat
<1>2. m \div Page \in Nat /\ m % Page \in 0 .. Page - 1 /\ m = (m \div Page) * Page + (m % Page)
  BY <1>1, DivMod
<1>3. (m \div Page) * Page \in Nat
  BY <1>2, ProductNat
<1>4. PagesFor(n) = m \div Page
  BY DEF PagesFor
<1> QED
  BY <1>2, <1>3, <1>4, PageNat

(***************************************************************************)
(* The chunks of a range inside the capacity.                              *)
(***************************************************************************)
LEMMA CheckLenInside ==
    ASSUME NEW c \in Nat, NEW off \in Nat, NEW n \in Nat, off + n <= c
    PROVE  check_len(c, off, n) = n
  BY DEF check_len

\* The first chunk is inside the range and ends at the end of its page, unless the range ends before.
LEMMA HeadType ==
    ASSUME NEW off \in Nat, NEW n \in Nat
    PROVE  /\ HeadSize(off, n) \in 0 .. n
           /\ off % Page = 0 => HeadSize(off, n) = 0
           /\ (off % Page) + HeadSize(off, n) <= Page
           /\ HeadSize(off, n) < n /\ off % Page # 0 => HeadSize(off, n) = Page - (off % Page)
           /\ off % Page # 0 /\ n > 0 => HeadSize(off, n) > 0
  BY DivMod, PageNat DEF HeadSize, Lesser

\* Each chunk is a part of the range, in its place and inside one page.
LEMMA ChunkInside ==
    ASSUME NEW c \in Nat, NEW off \in Nat, NEW n \in Nat, off + n <= c,
           NEW v \in Chunks(c, off, n)
    PROVE  /\ v.page \in Nat /\ v.from \in Nat /\ v.size \in Nat /\ v.at \in Nat
           /\ v.size > 0
           /\ v.from + v.size <= Page
           /\ v.at + v.size <= n
           /\ v.page * Page + v.from = off + v.at
<1> DEFINE h == HeadSize(off, n)
           q == off \div Page
           r == off % Page
           next == q + (IF r = 0 THEN 0 ELSE 1)
<1>1. check_len(c, off, n) = n
  BY CheckLenInside
<1>2. /\ q \in Nat /\ r \in 0 .. Page - 1 /\ off = q * Page + r
      /\ q * Page \in Nat /\ (q + 1) * Page = q * Page + Page
  BY DivMod, ProductNat
<1>3. /\ h \in 0 .. n /\ (r = 0 => h = 0) /\ r + h <= Page
      /\ (h < n /\ r # 0 => h = Page - r)
  BY HeadType
<1>4. \/ h > 0 /\ v = [page |-> q, from |-> r, size |-> h, at |-> 0]
      \/ \E i \in {j \in 0 .. n : j * Page < n - h} :
            v = [page |-> next + i, from |-> 0,
                 size |-> Lesser(Page, n - h - i * Page), at |-> h + i * Page]
  BY <1>1 DEF Chunks
<1> HIDE DEF h, q, r
<1>5. CASE h > 0 /\ v = [page |-> q, from |-> r, size |-> h, at |-> 0]
  BY <1>2, <1>3, <1>5
<1>6. ASSUME NEW i \in 0 .. n, i * Page < n - h,
             v = [page |-> next + i, from |-> 0,
                  size |-> Lesser(Page, n - h - i * Page), at |-> h + i * Page]
      PROVE  /\ v.page \in Nat /\ v.from \in Nat /\ v.size \in Nat /\ v.at \in Nat
             /\ v.size > 0
             /\ v.from + v.size <= Page
             /\ v.at + v.size <= n
             /\ v.page * Page + v.from = off + v.at
  <2>1. i * Page \in Nat /\ next \in Nat /\ Page \in Nat
    BY <1>2, ProductNat, PageNat
  <2>2. h < n
    BY <1>3, <1>6, <2>1
  <2>3. (next + i) * Page = next * Page + i * Page
    BY <2>1, SMTT(30)
  <2>4. next * Page = off + h
    <3>1. CASE r = 0
      BY <1>2, <1>3, <3>1
    <3>2. CASE r # 0
      BY <1>2, <1>3, <2>2, <3>2, PageNat
    <3> QED
      BY <3>1, <3>2
  <2>5. /\ Lesser(Page, n - h - i * Page) \in Nat
        /\ Lesser(Page, n - h - i * Page) > 0
        /\ Lesser(Page, n - h - i * Page) <= Page
        /\ Lesser(Page, n - h - i * Page) <= n - h - i * Page
    BY <1>3, <1>6, <2>1, PageNat DEF Lesser
  <2>6. v.page = next + i /\ v.from = 0 /\ v.at = h + i * Page
        /\ v.size = Lesser(Page, n - h - i * Page)
    BY <1>6
  <2>7. v.page * Page = off + h + i * Page
    BY <2>1, <2>3, <2>4, <2>6, <1>3
  <2> HIDE DEF next
  <2> QED
    BY <1>3, <1>6, <2>1, <2>5, <2>6, <2>7
<1> QED
  BY <1>4, <1>5, <1>6

\* Every byte of the range is in some chunk.
LEMMA ChunkOf ==
    ASSUME NEW c \in Nat, NEW off \in Nat, NEW n \in Nat, off + n <= c, NEW i \in 0 .. n - 1
    PROVE  \E v \in Chunks(c, off, n) : v.at <= i /\ i < v.at + v.size
<1> DEFINE h == HeadSize(off, n)
           next == (off \div Page) + (IF off % Page = 0 THEN 0 ELSE 1)
           chunk(m) == [page |-> next + m, from |-> 0,
                        size |-> Lesser(Page, n - h - m * Page), at |-> h + m * Page]
           head == [page |-> off \div Page, from |-> off % Page, size |-> h, at |-> 0]
<1>1. check_len(c, off, n) = n
  BY CheckLenInside
<1>2. h \in 0 .. n
  BY HeadType
<1>3. Chunks(c, off, n) = (IF h > 0 THEN {head} ELSE {})
          \cup {chunk(m) : m \in {j \in 0 .. n : j * Page < n - h}}
  BY <1>1 DEF Chunks
<1>4. CASE i < h
  <2>1. h > 0
    BY <1>2, <1>4
  <2>2. head \in Chunks(c, off, n)
    BY <1>3, <2>1
  <2>3. head.at = 0 /\ head.size = h
    OBVIOUS
  <2> HIDE DEF head, h
  <2> QED
    BY <1>2, <1>4, <2>2, <2>3
<1>5. CASE i >= h
  <2> DEFINE m == (i - h) \div Page
  <2>1. i - h \in Nat
    BY <1>2, <1>5
  <2>2. m \in Nat /\ m * Page \in Nat /\ m * Page <= i - h /\ i - h < m * Page + Page
    BY <2>1, DivMod, ProductNat, PageNat
  <2>3. m <= m * Page
    <3>1. \A k \in Nat : k <= k * Page
      BY PageNat, SMTT(30)
    <3> QED
      BY <2>2, <3>1
  <2> HIDE DEF m
  <2>4. m \in {j \in 0 .. n : j * Page < n - h}
    BY <1>2, <2>1, <2>2, <2>3
  <2>5. chunk(m) \in Chunks(c, off, n)
    BY <1>3, <2>4
  <2>6. chunk(m).at = h + m * Page /\ chunk(m).size = Lesser(Page, n - h - m * Page)
    OBVIOUS
  <2>7. h + m * Page <= i /\ i < h + m * Page + Lesser(Page, n - h - m * Page)
    BY <1>2, <2>1, <2>2, PageNat DEF Lesser
  <2> HIDE DEF chunk, h
  <2> QED
    BY <2>5, <2>6, <2>7
<1> QED
  BY <1>2, <1>4, <1>5

\* The byte numbered i of a range is the one at position off + i.
LEMMA ByteAtIs ==
    ASSUME NEW c \in Nat, NEW off \in Nat, NEW n \in Nat, off + n <= c, NEW i \in 0 .. n - 1
    PROVE  ByteAt(Chunks(c, off, n), i) = pages[((off + i) \div Page) + 1][(off + i) % Page]
<1> DEFINE V == Chunks(c, off, n)
           v == CHOOSE w \in V : w.at <= i /\ i < w.at + w.size
<1>1. v \in V /\ v.at <= i /\ i < v.at + v.size
  BY ChunkOf
<1>2. /\ v.page \in Nat /\ v.from \in Nat /\ v.size \in Nat /\ v.at \in Nat
      /\ v.from + v.size <= Page /\ v.page * Page + v.from = off + v.at
  BY <1>1, ChunkInside
<1>3. ByteAt(V, i) = pages[v.page + 1][v.from + i - v.at]
  BY DEF ByteAt
<1> HIDE DEF v, V
<1>4. v.page * Page \in Nat
  BY <1>2, ProductNat
<1>5. v.from + i - v.at \in 0 .. Page - 1 /\ off + i = v.page * Page + (v.from + i - v.at)
  <2> DEFINE x == v.page * Page
  <2>1. x \in Nat /\ x + v.from = off + v.at
    BY <1>2, <1>4
  <2> HIDE DEF x
  <2>2. v.from + i - v.at \in 0 .. Page - 1
    BY <1>1, <1>2, PageNat
  <2>3. off + i = x + (v.from + i - v.at)
    BY <1>1, <1>2, <2>1
  <2> QED
    BY <2>2, <2>3 DEF x
<1>6. (off + i) \div Page = v.page /\ (off + i) % Page = v.from + i - v.at
  BY <1>2, <1>5, Place
<1> QED
  BY <1>3, <1>6 DEF V

(***************************************************************************)
(* Growing and storing.                                                    *)
(***************************************************************************)
BufInv == TypeOK

\* A place below the capacity has its page.
LEMMA PlaceInside ==
    ASSUME NEW m \in Nat, NEW p \in 0 .. m * Page - 1
    PROVE  /\ (p \div Page) + 1 \in 1 .. m /\ p % Page \in 0 .. Page - 1
           /\ p = (p \div Page) * Page + (p % Page)
<1>1. p \in Nat /\ m * Page \in Nat
  BY ProductNat
<1>2. /\ p \div Page \in Nat /\ p % Page \in 0 .. Page - 1
      /\ p = (p \div Page) * Page + (p % Page) /\ (p \div Page) * Page \in Nat
  BY <1>1, DivMod, ProductNat
<1> DEFINE q == p \div Page
<1>3. ~(m <= q)
  <2> SUFFICES ASSUME m <= q PROVE FALSE
    OBVIOUS
  <2>1. m * Page <= q * Page
    <3>1. \A a, b \in Nat : a <= b => a * Page <= b * Page
      BY PageNat, SMTT(30)
    <3> QED
      BY <1>2, <3>1
  <2> QED
    BY <1>1, <1>2, <2>1, PageNat
<1> QED
  BY <1>2, <1>3

\* The pages malloc'd are as many as are missing, none if none is.
LEMMA NewPages ==
    ASSUME NEW m \in Int, NEW new \in [1 .. m -> PageBytes]
    PROVE  new \in Seq(PageBytes) /\ Len(new) = IF m > 0 THEN m ELSE 0
<1> DEFINE k == IF m > 0 THEN m ELSE 0
<1>1. k \in Nat /\ 1 .. m = 1 .. k
  OBVIOUS
<1>2. new \in [1 .. k -> PageBytes]
  BY <1>1
<1> HIDE DEF k
<1>3. new \in Seq(PageBytes) /\ Len(new) = k
  BY <1>1, <1>2
<1> QED
  BY <1>3 DEF k

\* Growing keeps the pages there are and reaches the capacity.
LEMMA GrownPages ==
    ASSUME BufInv, NEW n \in Nat, NEW P \in Grown(n)
    PROVE  /\ P \in Seq(PageBytes)
           /\ Len(P) * Page = Capacity(n)
           /\ Len(pages) <= Len(P)
           /\ \A k \in 1 .. Len(pages) : P[k] = pages[k]
           /\ Capacity(n) \in Nat /\ n <= Capacity(n) /\ cap <= Capacity(n)
<1> DEFINE m == PagesFor(n) - Len(pages)
<1>1. pages \in Seq(PageBytes) /\ Len(pages) \in Nat /\ cap = Len(pages) * Page /\ cap \in Nat
  BY DEF BufInv, TypeOK, CapIsPages
<1>2. /\ PagesFor(n) \in Nat /\ PagesFor(n) * Page \in Nat
      /\ n <= PagesFor(n) * Page /\ PagesFor(n) * Page < n + Page
  BY Rounding
<1>3. PICK new \in [1 .. m -> PageBytes] : P = pages \o new
  BY DEF Grown
<1>4. new \in Seq(PageBytes) /\ Len(new) = IF m > 0 THEN m ELSE 0
  BY <1>1, <1>2, NewPages
<1>5. /\ P \in Seq(PageBytes) /\ Len(P) = Len(pages) + Len(new)
      /\ \A k \in 1 .. Len(pages) : P[k] = pages[k]
  BY <1>1, <1>3, <1>4
<1>6. (cap < n) <=> (Len(pages) < PagesFor(n))
  <2>1. ASSUME Len(pages) < PagesFor(n) PROVE cap < n
    <3>1. Len(pages) * Page + Page <= PagesFor(n) * Page
      BY <1>1, <1>2, <2>1, ProductLess
    <3> QED
      BY <1>1, <1>2, <3>1, PageNat
  <2>2. ASSUME ~(Len(pages) < PagesFor(n)) PROVE ~(cap < n)
    <3>1. \A a, b \in Nat : a <= b => a * Page <= b * Page
      BY PageNat, SMTT(30)
    <3>2. PagesFor(n) * Page <= Len(pages) * Page
      BY <1>1, <1>2, <2>2, <3>1
    <3> QED
      BY <1>1, <1>2, <3>2
  <2> QED
    BY <2>1, <2>2
<1>7. Len(P) = IF cap < n THEN PagesFor(n) ELSE Len(pages)
  BY <1>1, <1>2, <1>4, <1>5, <1>6
<1>8. Len(P) * Page = Capacity(n)
  BY <1>1, <1>7 DEF Capacity
<1>9. Capacity(n) \in Nat /\ n <= Capacity(n) /\ cap <= Capacity(n)
  BY <1>1, <1>2 DEF Capacity
<1> QED
  BY <1>1, <1>4, <1>5, <1>8, <1>9

\* The bytes before page k.
LEMMA PrevProduct ==
    ASSUME NEW k \in Nat \ {0}
    PROVE  (k - 1) * Page \in Nat
<1>1. k - 1 \in Nat
  OBVIOUS
<1> QED
  BY <1>1, ProductNat

\* A place j of a page at x, in a chunk that starts at place f with byte a.
LEMMA InChunk ==
    ASSUME NEW x \in Nat, NEW f \in Nat, NEW a \in Nat, NEW z \in Nat,
           NEW off \in Nat, NEW n \in Nat, NEW j \in Nat,
           x + f = off + a, a + z <= n, f <= j, j < f + z
    PROVE  off <= x + j /\ x + j < off + n /\ a + j - f + 1 = (x + j) - off + 1
  OBVIOUS

\* A position whose number is in a chunk is at that place of the page of the chunk.
LEMMA ToChunk ==
    ASSUME NEW y \in Nat, NEW f \in Nat, NEW a \in Nat, NEW z \in Nat,
           NEW off \in Nat, NEW p \in Nat,
           y + f = off + a, f + z <= Page, a <= p - off, p - off < a + z
    PROVE  /\ f + (p - off) - a \in 0 .. Page - 1
           /\ p = y + (f + (p - off) - a)
           /\ f <= f + (p - off) - a /\ f + (p - off) - a < f + z
  BY PageNat

\* on_write stores the source where the range is, and nothing elsewhere.
LEMMA StoredPlace ==
    ASSUME NEW P \in Seq(PageBytes), NEW off \in Nat, NEW s \in Seq(Byte),
           off + Len(s) <= Len(P) * Page
    PROVE  LET Q == Stored(P, Chunks(Len(P) * Page, off, Len(s)), s)
           IN  /\ Q \in Seq(PageBytes) /\ Len(Q) = Len(P)
               /\ \A p \in 0 .. Len(P) * Page - 1 :
                     Q[(p \div Page) + 1][p % Page] =
                        IF off <= p /\ p < off + Len(s) THEN s[p - off + 1]
                        ELSE P[(p \div Page) + 1][p % Page]
<1> DEFINE c == Len(P) * Page
           n == Len(s)
           V == Chunks(c, off, n)
           Q == Stored(P, V, s)
<1>1. c \in Nat /\ n \in Nat /\ off + n <= c
  BY ProductNat
<1>2. \A v \in V : /\ v.page \in Nat /\ v.from \in Nat /\ v.size \in Nat /\ v.at \in Nat
                   /\ v.from + v.size <= Page /\ v.at + v.size <= n
                   /\ v.page * Page + v.from = off + v.at
  BY <1>1, ChunkInside
<1>3. \A i \in 0 .. n - 1 : \E v \in V : v.at <= i /\ i < v.at + v.size
  BY <1>1, ChunkOf
<1> HIDE DEF V, c, n
\* What a chunk that covers a place stores there.
<1>4. ASSUME NEW k \in 1 .. Len(P), NEW j \in 0 .. Page - 1, NEW v \in V, Covers(v, k, j)
      PROVE  /\ off <= (k - 1) * Page + j /\ (k - 1) * Page + j < off + n
             /\ v.at + j - v.from + 1 = ((k - 1) * Page + j) - off + 1
  <2>1. v.page = k - 1 /\ v.from <= j /\ j < v.from + v.size
    <3>1. v.page + 1 = k /\ v.from <= j /\ j < v.from + v.size
      BY <1>4 DEF Covers
    <3>2. v.page \in Nat
      BY <1>2, <1>4
    <3>3. Len(P) \in Nat
      OBVIOUS
    <3>4. k \in Nat
      BY <3>3
    <3>5. v.page = k - 1
      BY <3>1, <3>2, <3>4
    <3> QED
      BY <3>1, <3>5
  <2>2. (k - 1) * Page \in Nat /\ j \in Nat
    BY PrevProduct, PageNat
  <2>3. /\ (k - 1) * Page + v.from = off + v.at /\ v.at + v.size <= n
        /\ v.from \in Nat /\ v.at \in Nat /\ v.size \in Nat
    BY <1>2, <2>1
  <2> DEFINE x == (k - 1) * Page
             f == v.from
             a == v.at
             z == v.size
  <2>4. /\ x \in Nat /\ f \in Nat /\ a \in Nat /\ z \in Nat
        /\ x + f = off + a /\ a + z <= n /\ f <= j /\ j < f + z
    BY <2>1, <2>2, <2>3
  <2> HIDE DEF x, f, a, z
  <2>5. off <= x + j /\ x + j < off + n /\ a + j - f + 1 = (x + j) - off + 1
    BY <1>1, <2>2, <2>4, InChunk
  <2> QED
    BY <2>5 DEF x, f, a, z
\* Some chunk covers each place of the range.
<1>5. ASSUME NEW k \in 1 .. Len(P), NEW j \in 0 .. Page - 1,
             off <= (k - 1) * Page + j, (k - 1) * Page + j < off + n
      PROVE  \E v \in V : Covers(v, k, j)
  <2> DEFINE p == (k - 1) * Page + j
  <2>0. (k - 1) * Page \in Nat /\ k - 1 \in Nat
    BY PrevProduct
  <2>1. p \in Nat /\ p - off \in 0 .. n - 1
    BY <1>1, <1>5, <2>0, PageNat
  <2>2. PICK v \in V : v.at <= p - off /\ p - off < v.at + v.size
    BY <1>3, <2>1
  <2>3. /\ v.page \in Nat /\ v.from \in Nat /\ v.size \in Nat /\ v.at \in Nat
        /\ v.from + v.size <= Page /\ v.page * Page + v.from = off + v.at
        /\ v.page * Page \in Nat
    BY <1>2, ProductNat
  <2> DEFINE d == v.from + (p - off) - v.at
  <2>4. p \div Page = k - 1 /\ p % Page = j
    BY <2>0, Place
  <2> HIDE DEF p
  <2>5. /\ d \in 0 .. Page - 1 /\ p = v.page * Page + d
        /\ v.from <= d /\ d < v.from + v.size
    <3> DEFINE y == v.page * Page
               f == v.from
               a == v.at
               z == v.size
    <3>1. /\ y \in Nat /\ f \in Nat /\ a \in Nat /\ z \in Nat
          /\ y + f = off + a /\ f + z <= Page /\ a <= p - off /\ p - off < a + z
      BY <2>2, <2>3
    <3>2. d = f + (p - off) - a
      OBVIOUS
    <3> HIDE DEF y, f, a, z, d
    <3>3. /\ f + (p - off) - a \in 0 .. Page - 1
          /\ p = y + (f + (p - off) - a)
          /\ f <= f + (p - off) - a /\ f + (p - off) - a < f + z
      BY <2>1, <3>1, ToChunk
    <3> QED
      BY <3>2, <3>3 DEF y, f, z
  <2> HIDE DEF d
  <2>6. p \div Page = v.page /\ p % Page = d
    BY <2>3, <2>5, Place
  <2>7. v.page + 1 = k /\ v.from <= j /\ j < v.from + v.size
    BY <2>3, <2>4, <2>5, <2>6
  <2> QED
    BY <2>7 DEF Covers
<1>6. ASSUME NEW k \in 1 .. Len(P), NEW j \in 0 .. Page - 1
      PROVE  Q[k][j] = IF off <= (k - 1) * Page + j /\ (k - 1) * Page + j < off + n
                       THEN s[((k - 1) * Page + j) - off + 1] ELSE P[k][j]
  <2> DEFINE v == CHOOSE w \in V : Covers(w, k, j)
  <2>0. k \in DOMAIN P /\ j \in 0 .. Page - 1
    OBVIOUS
  <2>1. Q[k][j] = IF \E w \in V : Covers(w, k, j) THEN s[v.at + j - v.from + 1] ELSE P[k][j]
    BY <2>0 DEF Stored
  <2>2. CASE \E w \in V : Covers(w, k, j)
    <3>1. v \in V /\ Covers(v, k, j)
      BY <2>2
    <3> HIDE DEF v, Q
    <3>2. /\ off <= (k - 1) * Page + j /\ (k - 1) * Page + j < off + n
          /\ v.at + j - v.from + 1 = ((k - 1) * Page + j) - off + 1
      BY <1>4, <3>1
    <3> QED
      BY <2>1, <2>2, <3>2
  <2>3. CASE ~\E w \in V : Covers(w, k, j)
    <3>1. ~(off <= (k - 1) * Page + j /\ (k - 1) * Page + j < off + n)
      BY <1>5, <2>3
    <3> HIDE DEF Q, v
    <3> QED
      BY <2>1, <2>3, <3>1
  <2> QED
    BY <2>2, <2>3
<1>7. ASSUME NEW k \in 1 .. Len(P), NEW j \in 0 .. Page - 1 PROVE Q[k][j] \in Byte
  <2>1. P[k] \in PageBytes
    OBVIOUS
  <2>2. P[k][j] \in Byte
    BY <2>1 DEF PageBytes
  <2>3. (k - 1) * Page \in Nat
    BY PrevProduct
  <2>4. ASSUME off <= (k - 1) * Page + j, (k - 1) * Page + j < off + n
        PROVE  s[((k - 1) * Page + j) - off + 1] \in Byte
    <3> DEFINE i == ((k - 1) * Page + j) - off + 1
    <3>1. i \in 1 .. Len(s)
      BY <1>1, <2>3, <2>4, PageNat DEF n
    <3> QED
      BY <3>1
  <2> QED
    BY <1>6, <2>2, <2>4
<1>8. Q = [k \in 1 .. Len(P) |-> [j \in 0 .. Page - 1 |-> Q[k][j]]]
  BY DEF Stored
<1>9. Q \in [1 .. Len(P) -> PageBytes]
  <2> HIDE DEF Q
  <2> QED
    BY <1>7, <1>8 DEF PageBytes
<1>10. Q \in Seq(PageBytes) /\ Len(Q) = Len(P)
  <2> HIDE DEF Q
  <2>1. Len(P) \in Nat
    OBVIOUS
  <2> QED
    BY <1>9, <2>1
<1>11. \A p \in 0 .. c - 1 :
          Q[(p \div Page) + 1][p % Page] =
             IF off <= p /\ p < off + n THEN s[p - off + 1] ELSE P[(p \div Page) + 1][p % Page]
  <2> SUFFICES ASSUME NEW p \in 0 .. c - 1
               PROVE  Q[(p \div Page) + 1][p % Page] =
                         IF off <= p /\ p < off + n THEN s[p - off + 1]
                         ELSE P[(p \div Page) + 1][p % Page]
    OBVIOUS
  <2> DEFINE k == (p \div Page) + 1
             j == p % Page
  <2>1. k \in 1 .. Len(P) /\ j \in 0 .. Page - 1 /\ p = (k - 1) * Page + j
    <3>1. Len(P) \in Nat /\ p \in 0 .. Len(P) * Page - 1
      BY DEF c
    <3>2. p \div Page \in Nat
      BY <3>1, ProductNat, DivMod
    <3> QED
      BY <3>1, <3>2, PlaceInside
  <2> HIDE DEF k, j, Q
  <2>2. Q[k][j] = IF off <= (k - 1) * Page + j /\ (k - 1) * Page + j < off + n
                  THEN s[((k - 1) * Page + j) - off + 1] ELSE P[k][j]
    BY <1>6, <2>1
  <2> DEFINE x == (k - 1) * Page + j
  <2>3. x = p
    BY <2>1
  <2>4. Q[k][j] = IF off <= x /\ x < off + n THEN s[x - off + 1] ELSE P[k][j]
    BY <2>2, Zenon
  <2> HIDE DEF x
  <2>5. Q[k][j] = IF off <= p /\ p < off + n THEN s[p - off + 1] ELSE P[k][j]
    BY <2>3, <2>4
  <2> QED
    BY <2>5 DEF k, j
<1> QED
  BY <1>10, <1>11 DEF V, c, n

(***************************************************************************)
(* Each operation keeps the invariant and does what the flat buffer does.  *)
(***************************************************************************)
\* Arithmetic of intervals, stated once so that primed terms are its instances.
LEMMA Below ==
    ASSUME NEW a \in Nat, NEW b \in Nat, a < b
    PROVE  a \in 0 .. b - 1
  OBVIOUS

\* The positions below a are among those below b.
LEMMA Initial ==
    ASSUME NEW a \in Int, NEW b \in Int, a <= b
    PROVE  0 .. a - 1 \subseteq 0 .. b - 1
  OBVIOUS

\* What the invariant says of the content: every position has its page.
LEMMA InvFacts ==
    ASSUME BufInv
    PROVE  /\ pages \in Seq(PageBytes) /\ Len(pages) \in Nat
           /\ len \in Nat /\ cap \in Nat /\ cap = Len(pages) * Page /\ len <= cap
           /\ DOMAIN Flat = 0 .. cap - 1
           /\ \A p \in 0 .. cap - 1 :
                 /\ Flat[p] = pages[(p \div Page) + 1][p % Page]
                 /\ (p \div Page) + 1 \in 1 .. Len(pages) /\ p % Page \in 0 .. Page - 1
<1>1. /\ pages \in Seq(PageBytes) /\ Len(pages) \in Nat
      /\ len \in Nat /\ cap \in Nat /\ cap = Len(pages) * Page /\ len <= cap
  BY DEF BufInv, TypeOK, CapIsPages
<1>2. \A p \in 0 .. cap - 1 : (p \div Page) + 1 \in 1 .. Len(pages) /\ p % Page \in 0 .. Page - 1
  BY <1>1, PlaceInside
<1> QED
  BY <1>1, <1>2 DEF Flat

\* The buffer after growing to n, seen as bytes.
LEMMA GrownFlat ==
    ASSUME BufInv, NEW n \in Nat, pages' \in Grown(n), cap' = Capacity(n),
           len' \in Nat, len' <= cap'
    PROVE  BufInv' /\ FlatBufOf!Grown /\ n <= cap' /\ cap <= cap'
<1>1. /\ pages' \in Seq(PageBytes) /\ Len(pages') * Page = Capacity(n)
      /\ \A k \in 1 .. Len(pages) : pages'[k] = pages[k]
      /\ Capacity(n) \in Nat /\ n <= Capacity(n) /\ cap <= Capacity(n)
  BY GrownPages
<1>2. BufInv'
  BY <1>1 DEF BufInv, TypeOK, CapIsPages
<1>3. /\ cap \in Nat /\ DOMAIN Flat = 0 .. cap - 1
      /\ \A p \in 0 .. cap - 1 : /\ Flat[p] = pages[(p \div Page) + 1][p % Page]
                                 /\ (p \div Page) + 1 \in 1 .. Len(pages)
  BY InvFacts
<1>4. DOMAIN Flat' = 0 .. cap' - 1
      /\ \A p \in 0 .. cap' - 1 : Flat'[p] = pages'[(p \div Page) + 1][p % Page]
  BY DEF Flat
<1>5. \A p \in 0 .. cap - 1 : p \in 0 .. cap' - 1 /\ Flat'[p] = Flat[p]
  <2>1. cap' \in Nat /\ cap <= cap'
    BY <1>1
  <2>2. 0 .. cap - 1 \subseteq 0 .. cap' - 1
    BY <1>3, <2>1, Initial
  <2> SUFFICES ASSUME NEW p \in 0 .. cap - 1
               PROVE  p \in 0 .. cap' - 1 /\ Flat'[p] = Flat[p]
    OBVIOUS
  <2>3. p \in 0 .. cap' - 1
    BY <2>2
  <2>4. Flat[p] = pages[(p \div Page) + 1][p % Page] /\ (p \div Page) + 1 \in 1 .. Len(pages)
    BY <1>3
  <2>5. Flat'[p] = pages'[(p \div Page) + 1][p % Page]
    BY <1>4, <2>3
  <2>6. pages'[(p \div Page) + 1] = pages[(p \div Page) + 1]
    BY <1>1, <2>4
  <2> QED
    BY <2>3, <2>4, <2>5, <2>6
<1>6. FlatBufOf!Grown
  BY <1>3, <1>4, <1>5 DEF FlatBufOf!Grown, FlatBufOf!Cap, FlatBufOf!KeptExcept
<1> QED
  BY <1>1, <1>2, <1>6

\* dynmem_write changes the range it is given and nothing else.
LEMMA WriteStep ==
    ASSUME BufInv, NEW off \in Nat, NEW s \in Seq(Byte), dynmem_write(off, s)
    PROVE  BufInv' /\ FlatBufOf!Write
<1> DEFINE end == off + Len(s)
<1>1. end \in Nat /\ Len(s) \in Nat
  OBVIOUS
<1>2. PICK P \in Grown(end) : pages' = Stored(P, Chunks(cap', off, Len(s)), s)
  BY DEF dynmem_write
<1>3. /\ P \in Seq(PageBytes) /\ Len(P) * Page = Capacity(end) /\ Len(pages) <= Len(P)
      /\ \A k \in 1 .. Len(pages) : P[k] = pages[k]
      /\ Capacity(end) \in Nat /\ end <= Capacity(end) /\ cap <= Capacity(end)
  BY <1>1, GrownPages
<1>4. /\ cap' = Capacity(end) /\ len' = (IF len < end THEN end ELSE len)
      /\ call' = [op |-> "write", off |-> off, data |-> s]
  BY DEF dynmem_write
<1> HIDE DEF end
<1>5. cap' = Len(P) * Page /\ off + Len(s) <= Len(P) * Page
  BY <1>3, <1>4 DEF end
<1>6. /\ pages' \in Seq(PageBytes) /\ Len(pages') = Len(P)
      /\ \A p \in 0 .. cap' - 1 :
            pages'[(p \div Page) + 1][p % Page] =
               IF off <= p /\ p < off + Len(s) THEN s[p - off + 1]
               ELSE P[(p \div Page) + 1][p % Page]
  <2> DEFINE Q == Stored(P, Chunks(Len(P) * Page, off, Len(s)), s)
  <2>1. /\ Q \in Seq(PageBytes) /\ Len(Q) = Len(P)
        /\ \A p \in 0 .. Len(P) * Page - 1 :
              Q[(p \div Page) + 1][p % Page] =
                 IF off <= p /\ p < off + Len(s) THEN s[p - off + 1]
                 ELSE P[(p \div Page) + 1][p % Page]
    BY <1>3, <1>5, StoredPlace
  <2>2. pages' = Q
    BY <1>2, <1>5
  <2> HIDE DEF Q
  <2> QED
    BY <1>5, <2>1, <2>2
<1>7. /\ cap \in Nat /\ len \in Nat /\ len <= cap /\ DOMAIN Flat = 0 .. cap - 1
      /\ \A p \in 0 .. cap - 1 : /\ Flat[p] = pages[(p \div Page) + 1][p % Page]
                                 /\ (p \div Page) + 1 \in 1 .. Len(pages)
  BY InvFacts
<1>8. BufInv'
  BY <1>1, <1>3, <1>4, <1>5, <1>6, <1>7 DEF BufInv, TypeOK, CapIsPages
<1>9. DOMAIN Flat' = 0 .. cap' - 1
      /\ \A p \in 0 .. cap' - 1 : Flat'[p] = pages'[(p \div Page) + 1][p % Page]
  BY DEF Flat
<1>10. ASSUME NEW i \in 1 .. Len(s)
       PROVE  off + i - 1 \in 0 .. cap' - 1 /\ Flat'[off + i - 1] = s[i]
  <2> DEFINE p == off + i - 1
  <2>1. /\ p \in 0 .. cap' - 1 /\ off <= p /\ p < off + Len(s) /\ p - off + 1 = i
    BY <1>1, <1>3, <1>4 DEF end
  <2> HIDE DEF p
  <2>2. Flat'[p] = s[i]
    BY <1>6, <1>9, <2>1
  <2> QED
    BY <2>1, <2>2 DEF p
<1>11. ASSUME NEW p \in 0 .. cap - 1, p \notin {off + i - 1 : i \in 1 .. Len(s)}
       PROVE  Flat'[p] = Flat[p]
  <2>1. ~(off <= p /\ p < off + Len(s))
    <3> SUFFICES ASSUME off <= p, p < off + Len(s) PROVE FALSE
      OBVIOUS
    <3>1. p - off + 1 \in 1 .. Len(s) /\ p = off + (p - off + 1) - 1
      BY <1>1, <1>7
    <3> QED
      BY <1>11, <3>1
  <2>2. p \in 0 .. cap' - 1
    BY <1>3, <1>4, <1>7
  <2> QED
    BY <1>3, <1>6, <1>7, <1>9, <2>1, <2>2
<1>12. 0 .. cap - 1 \subseteq 0 .. cap' - 1
  BY <1>3, <1>4, <1>7
<1> DEFINE S == {off + i - 1 : i \in 1 .. Len(s)}
<1>13. S \subseteq 0 .. cap' - 1
  BY <1>10
<1>14. /\ call'.op = "write" /\ call'.off = off /\ call'.data = s
  BY <1>4
<1>15. FlatBufOf!KeptExcept(S)
  BY <1>7, <1>9, <1>11 DEF FlatBufOf!KeptExcept, FlatBufOf!Cap
<1>16. FlatBufOf!Write
  BY <1>4, <1>7, <1>9, <1>10, <1>12, <1>13, <1>14, <1>15
  DEF FlatBufOf!Write, FlatBufOf!Cap, end
<1> QED
  BY <1>8, <1>16

\* dynmem_set_len grows the buffer to the new length.
LEMMA SetLenStep ==
    ASSUME BufInv, NEW n \in Nat, dynmem_set_len(n)
    PROVE  BufInv' /\ FlatBufOf!SetLen
<1>1. /\ pages' \in Grown(n) /\ cap' = Capacity(n) /\ len' = n
      /\ call' = [op |-> "set_len", n |-> n]
  BY DEF dynmem_set_len
<1>2. n <= Capacity(n) /\ Capacity(n) \in Nat
  BY <1>1, GrownPages
<1>3. BufInv' /\ FlatBufOf!Grown
  BY <1>1, <1>2, GrownFlat
<1>4. DOMAIN Flat' = 0 .. cap' - 1
  BY DEF Flat
<1>5. 0 .. len' - 1 \subseteq 0 .. cap' - 1
  BY <1>1, <1>2
<1> QED
  BY <1>1, <1>3, <1>4, <1>5 DEF FlatBufOf!SetLen, FlatBufOf!Cap

\* After dynmem_align a whole page follows the length.
LEMMA AlignStep ==
    ASSUME BufInv, dynmem_align
    PROVE  BufInv' /\ FlatBufOf!Align /\ (len' % Page) = 0 /\ len' + Page <= cap'
<1> DEFINE n == PagesFor(len) * Page
<1>1. /\ pages' \in Grown(n + 1) /\ cap' = Capacity(n + 1) /\ len' = n
      /\ call' = [op |-> "align"]
  BY DEF dynmem_align
<1>2. len \in Nat /\ PagesFor(len) \in Nat /\ n \in Nat /\ len <= n
  BY InvFacts, Rounding
<1>3. n % Page = 0
  <2>1. 0 \in 0 .. Page - 1
    BY PageNat
  <2>2. n = PagesFor(len) * Page + 0
    BY <1>2
  <2> HIDE DEF n
  <2> QED
    BY <1>2, <2>1, <2>2, Place
<1>4. PagesFor(len) * Page + Page <= cap'
  <2>1. PICK m \in Nat : cap' = m * Page
    <3>1. Len(pages') * Page = Capacity(n + 1) /\ pages' \in Seq(PageBytes)
      BY <1>1, <1>2, GrownPages
    <3> QED
      BY <1>1, <3>1
  <2>2. n + 1 <= cap'
    BY <1>1, <1>2, GrownPages
  <2>3. ~(m <= PagesFor(len))
    <3>1. \A a, b \in Nat : a <= b => a * Page <= b * Page
      BY PageNat, SMTT(30)
    <3>2. m * Page \in Nat
      BY ProductNat
    <3> QED
      BY <1>2, <2>1, <2>2, <3>1, <3>2
  <2> QED
    BY <1>2, <2>1, <2>3, ProductLess
<1> HIDE DEF n
<1>5. len' + Page <= cap' /\ len' < cap' /\ len' \in Nat
  <2>1. cap' \in Nat
    BY <1>1, <1>2, GrownPages
  <2> QED
    BY <1>1, <1>2, <1>4, <2>1, PageNat DEF n
<1>6. BufInv' /\ FlatBufOf!Grown
  <2>1. len' <= cap' /\ n + 1 \in Nat
    <3>1. cap' \in Nat
      BY <1>1, <1>2, GrownPages
    <3> QED
      BY <1>2, <1>5, <3>1
  <2> QED
    BY <1>1, <1>5, <2>1, GrownFlat
<1>7. DOMAIN Flat' = 0 .. cap' - 1
  BY DEF Flat
<1>8. len' \in 0 .. cap' - 1
  <2>1. cap' \in Nat
    BY <1>6 DEF BufInv, TypeOK
  <2>2. len' \in Nat /\ len' < cap'
    BY <1>5
  <2> QED
    BY <2>1, <2>2, Below
<1> QED
  BY <1>1, <1>2, <1>3, <1>5, <1>6, <1>7, <1>8 DEF FlatBufOf!Align, FlatBufOf!Cap

\* dynmem_lastpage adds at most a page, and only behind a full one.
LEMMA LastPageStep ==
    ASSUME BufInv, dynmem_lastpage
    PROVE  BufInv' /\ FlatBufOf!LastPage
<1>1. len \in Nat /\ cap \in Nat /\ len <= cap /\ cap = Len(pages) * Page /\ Len(pages) \in Nat
  BY InvFacts
<1>2. len' = len /\ call'.op = "lastpage"
  BY DEF dynmem_lastpage
<1>3. CASE len = cap
  <2>1. pages' \in Grown(len + 1) /\ cap' = cap + Page
    BY <1>3 DEF dynmem_lastpage
  <2>2. Capacity(len + 1) = cap + Page
    <3>1. PagesFor(len + 1) = Len(pages) + 1
      <4>1. /\ PagesFor(len + 1) \in Nat /\ PagesFor(len + 1) * Page \in Nat
            /\ len + 1 <= PagesFor(len + 1) * Page
            /\ PagesFor(len + 1) * Page < (len + 1) + Page
        <5>1. len + 1 \in Nat
          BY <1>1
        <5> QED
          BY <5>1, Rounding
      <4>2. (Len(pages) + 1) * Page = cap + Page
        BY <1>1, ProductNat
      <4>3. \A a, b \in Nat : a <= b => a * Page <= b * Page
        BY PageNat, SMTT(30)
      <4>4. ~(PagesFor(len + 1) <= Len(pages))
        BY <1>1, <1>3, <4>1, <4>3
      <4>5. ~(Len(pages) + 2 <= PagesFor(len + 1))
        <5>1. (Len(pages) + 2) * Page = cap + Page + Page
          <6>1. (Len(pages) + 2) * Page = (Len(pages) + 1) * Page + Page
            BY <1>1, PageNat, SMTT(30)
          <6> QED
            BY <4>2, <6>1
        <5>2. ASSUME Len(pages) + 2 <= PagesFor(len + 1) PROVE FALSE
          <6>1. (Len(pages) + 2) * Page <= PagesFor(len + 1) * Page
            BY <1>1, <4>1, <4>3, <5>2
          <6> QED
            BY <1>1, <1>3, <4>1, <5>1, <6>1, PageNat
        <5> QED
          BY <5>2
      <4> QED
        BY <1>1, <4>1, <4>4, <4>5
    <3>2. (Len(pages) + 1) * Page = cap + Page
      BY <1>1, ProductNat
    <3> QED
      BY <1>1, <1>3, <3>1, <3>2 DEF Capacity
  <2>3. BufInv' /\ FlatBufOf!Grown
    BY <1>1, <1>2, <1>3, <2>1, <2>2, GrownFlat, PageNat
  <2>4. len \in 0 .. cap' - 1
    BY <1>1, <1>3, <2>1, PageNat
  <2>5. DOMAIN Flat' = 0 .. cap' - 1
    BY DEF Flat
  <2> QED
    BY <1>2, <2>3, <2>4, <2>5 DEF FlatBufOf!LastPage, FlatBufOf!Cap
<1>4. CASE len # cap
  <2>1. pages' = pages /\ cap' = cap
    BY <1>4 DEF dynmem_lastpage
  <2>2. BufInv' /\ Flat' = Flat
    BY <1>2, <2>1 DEF BufInv, TypeOK, CapIsPages, Flat
  <2>3. DOMAIN Flat = 0 .. cap - 1 /\ len \in 0 .. cap - 1
    BY <1>1, <1>4, InvFacts
  <2> QED
    BY <1>2, <2>2, <2>3
    DEF FlatBufOf!LastPage, FlatBufOf!Cap, FlatBufOf!Grown, FlatBufOf!KeptExcept
<1> QED
  BY <1>3, <1>4

\* The pages that stay after a cut hold n bytes, and not a page more.
LEMMA KeptPages ==
    ASSUME BufInv, NEW n \in Nat, n <= cap
    PROVE  /\ Kept(n) \in 0 .. Len(pages) /\ Kept(n) * Page \in Nat
           /\ n <= Kept(n) * Page /\ Kept(n) * Page < n + Page
           /\ Kept(n) * Page <= cap
<1>1. cap \in Nat /\ cap = Len(pages) * Page /\ Len(pages) \in Nat
  BY InvFacts
<1> DEFINE OK(k) == k * Page < n + Page /\ (k = Len(pages) \/ (k + 1) * Page >= n + Page)
<1>2. \E k \in 0 .. Len(pages) : OK(k)
  <2>1. /\ PagesFor(n) \in Nat /\ PagesFor(n) * Page \in Nat
        /\ n <= PagesFor(n) * Page /\ PagesFor(n) * Page < n + Page
    BY Rounding
  <2>2. (PagesFor(n) + 1) * Page = PagesFor(n) * Page + Page
    BY <2>1, ProductNat
  <2>3. ~(Len(pages) < PagesFor(n))
    <3>1. ASSUME Len(pages) < PagesFor(n) PROVE FALSE
      <4>1. Len(pages) * Page + Page <= PagesFor(n) * Page
        BY <1>1, <2>1, <3>1, ProductLess
      <4> QED
        BY <1>1, <2>1, <4>1, PageNat
    <3> QED
      BY <3>1
  <2>4. PagesFor(n) \in 0 .. Len(pages)
    BY <1>1, <2>1, <2>3
  <2>5. OK(PagesFor(n))
    BY <2>1, <2>2, PageNat
  <2> QED
    BY <2>4, <2>5
<1>3. Kept(n) \in 0 .. Len(pages) /\ OK(Kept(n))
  <2>1. Kept(n) = CHOOSE k \in 0 .. Len(pages) : OK(k)
    BY DEF Kept
  <2> HIDE DEF OK
  <2> QED
    BY <1>2, <2>1
<1>4. Kept(n) \in Nat /\ Kept(n) * Page \in Nat /\ (Kept(n) + 1) * Page = Kept(n) * Page + Page
  BY <1>1, <1>3, ProductNat
<1>5. n <= Kept(n) * Page
  <2>1. CASE Kept(n) = Len(pages)
    BY <1>1, <2>1
  <2>2. CASE (Kept(n) + 1) * Page >= n + Page
    BY <1>4, <2>2, PageNat
  <2> QED
    BY <1>3, <2>1, <2>2
<1>6. Kept(n) * Page <= cap
  <2>1. \A a, b \in Nat : a <= b => a * Page <= b * Page
    BY PageNat, SMTT(30)
  <2> QED
    BY <1>1, <1>3, <1>4, <2>1
<1> QED
  BY <1>3, <1>4, <1>5, <1>6

\* dynmem_set_cap leaves a capacity within a page of what is asked.
LEMMA SetCapStep ==
    ASSUME BufInv, NEW n \in Nat, dynmem_set_cap(n)
    PROVE  BufInv' /\ FlatBufOf!SetCap /\ n <= cap' /\ cap' < n + Page /\ call'.n = n
<1>1. len' = Clipped(cap') /\ call' = [op |-> "set_cap", n |-> n]
  BY DEF dynmem_set_cap
<1>2. /\ cap \in Nat /\ len \in Nat /\ len <= cap /\ cap = Len(pages) * Page
      /\ pages \in Seq(PageBytes) /\ Len(pages) \in Nat /\ DOMAIN Flat = 0 .. cap - 1
      /\ \A p \in 0 .. cap - 1 : Flat[p] = pages[(p \div Page) + 1][p % Page]
  BY InvFacts
<1>3. DOMAIN Flat' = 0 .. cap' - 1
      /\ \A p \in 0 .. cap' - 1 : Flat'[p] = pages'[(p \div Page) + 1][p % Page]
  BY DEF Flat
<1>4. CASE cap < n
  <2>1. pages' \in Grown(n) /\ cap' = Capacity(n)
    BY <1>4 DEF dynmem_set_cap
  <2>2. Capacity(n) = PagesFor(n) * Page
    BY <1>4 DEF Capacity
  <2>3. /\ n <= cap' /\ cap' < n + Page /\ cap' \in Nat
    BY <2>1, <2>2, Rounding
  <2>4. len' = len
    BY <1>1, <1>2, <1>4, <2>3 DEF Clipped
  <2>5. BufInv' /\ FlatBufOf!Grown
    BY <1>2, <1>4, <2>1, <2>3, <2>4, GrownFlat
  <2>6. 0 .. n - 1 \subseteq 0 .. cap' - 1 /\ 0 .. len - 1 \subseteq 0 .. cap' - 1
    <3>1. len \in Int /\ n \in Int /\ cap' \in Int
      BY <1>2, <2>3
    <3>2. len <= cap' /\ n <= cap'
      BY <1>2, <1>4, <2>3
    <3>3. 0 .. n - 1 \subseteq 0 .. cap' - 1
      BY <3>1, <3>2, Initial
    <3>4. 0 .. len - 1 \subseteq 0 .. cap' - 1
      BY <3>1, <3>2, Initial
    <3> QED
      BY <3>3, <3>4
  <2>7. call'.op = "set_cap" /\ call'.n = n
    BY <1>1
  <2>8. len' <= len /\ ~(len' < len)
    BY <1>2, <2>4
  <2>9. 0 .. len' - 1 \subseteq 0 .. cap' - 1
    BY <2>4, <2>6
  <2>10. FlatBufOf!SetCap
    <3>1. 0 .. call'.n - 1 \subseteq DOMAIN Flat'
      BY <1>3, <2>6, <2>7
    <3> QED
      BY <1>3, <2>5, <2>7, <2>8, <2>9, <3>1
      DEF FlatBufOf!SetCap, FlatBufOf!Grown, FlatBufOf!Cap
  <2> QED
    BY <2>3, <2>5, <2>7, <2>10
<1>5. CASE ~(cap < n)
  <2>1. pages' = SubSeq(pages, 1, Kept(n)) /\ cap' = Kept(n) * Page
    BY <1>5 DEF dynmem_set_cap
  <2>2. /\ Kept(n) \in 0 .. Len(pages) /\ Kept(n) * Page \in Nat
        /\ n <= Kept(n) * Page /\ Kept(n) * Page < n + Page /\ Kept(n) * Page <= cap
    <3>1. n <= cap
      BY <1>2, <1>5
    <3> QED
      BY <3>1, KeptPages
  <2>3. /\ pages' \in Seq(PageBytes) /\ Len(pages') = Kept(n)
        /\ \A k \in 1 .. Kept(n) : pages'[k] = pages[k]
    BY <1>2, <2>1, <2>2
  <2>4. len' \in Nat /\ len' <= cap' /\ len' <= len /\ (len' < len => len' = cap')
    BY <1>1, <1>2, <2>1, <2>2 DEF Clipped
  <2>5. BufInv'
    BY <2>1, <2>2, <2>3, <2>4 DEF BufInv, TypeOK, CapIsPages
  <2>6. \A p \in 0 .. cap' - 1 : p \in 0 .. cap - 1 /\ Flat'[p] = Flat[p]
    <3> SUFFICES ASSUME NEW p \in 0 .. cap' - 1
                 PROVE  p \in 0 .. cap - 1 /\ Flat'[p] = Flat[p]
      OBVIOUS
    <3>1. Kept(n) \in Nat /\ p \in 0 .. Kept(n) * Page - 1
      BY <2>1, <2>2
    <3>2. (p \div Page) + 1 \in 1 .. Kept(n)
      BY <3>1, PlaceInside
    <3>3. p \in 0 .. cap - 1
      BY <1>2, <2>1, <2>2
    <3> QED
      BY <1>2, <1>3, <2>3, <3>2, <3>3
  <2>7. /\ 0 .. n - 1 \subseteq 0 .. cap' - 1 /\ 0 .. len' - 1 \subseteq 0 .. cap' - 1
        /\ 0 .. cap' - 1 \subseteq 0 .. cap - 1
    <3>1. n \in Int /\ cap' \in Int /\ cap \in Int /\ len' \in Int
      BY <1>2, <2>1, <2>2, <2>4
    <3>2. n <= cap' /\ len' <= cap' /\ cap' <= cap
      BY <2>1, <2>2, <2>4
    <3> QED
      BY <3>1, <3>2, Initial
  <2>8. FlatBufOf!SetCap
    BY <1>1, <1>2, <1>3, <2>4, <2>6, <2>7
    DEF FlatBufOf!SetCap, FlatBufOf!Cap, FlatBufOf!KeptExcept
  <2> QED
    BY <1>1, <2>1, <2>2, <2>5, <2>8
<1> QED
  BY <1>4, <1>5

\* dynmem_clear empties the buffer.
LEMMA ClearStep ==
    ASSUME BufInv, dynmem_clear
    PROVE  BufInv' /\ FlatBufOf!Clear
<1>1. pages' = <<>> /\ len' = 0 /\ cap' = 0 /\ call'.op = "clear"
  BY DEF dynmem_clear
<1>2. BufInv'
  BY <1>1, PageNat DEF BufInv, TypeOK, CapIsPages
<1>3. DOMAIN Flat' = 0 .. cap' - 1
  BY DEF Flat
<1> QED
  BY <1>1, <1>2, <1>3 DEF FlatBufOf!Clear, FlatBufOf!Cap

\* dynmem_copy leaves the content as it was.
LEMMA CopyStep ==
    ASSUME BufInv, dynmem_copy
    PROVE  BufInv' /\ FlatBufOf!Copy
<1> DEFINE m == PagesFor(len)
<1>1. /\ cap \in Nat /\ len \in Nat /\ len <= cap /\ cap = Len(pages) * Page
      /\ pages \in Seq(PageBytes) /\ Len(pages) \in Nat /\ DOMAIN Flat = 0 .. cap - 1
      /\ \A p \in 0 .. cap - 1 : /\ Flat[p] = pages[(p \div Page) + 1][p % Page]
                                 /\ (p \div Page) + 1 \in 1 .. Len(pages)
  BY InvFacts
<1>2. m \in Nat /\ m * Page \in Nat /\ len <= m * Page
  BY <1>1, Rounding
<1>3. PICK new \in [1 .. m -> PageBytes] :
         pages' = [k \in DOMAIN new |-> [j \in 0 .. Page - 1 |->
                     IF (k - 1) * Page + j < len THEN pages[k][j] ELSE new[k][j]]]
  BY DEF dynmem_copy
<1>4. cap' = m * Page /\ len' = len /\ call'.op = "copy"
  BY DEF dynmem_copy
<1> HIDE DEF m
<1>5. \A k \in 1 .. m : \A j \in 0 .. Page - 1 :
         pages'[k][j] = IF (k - 1) * Page + j < len THEN pages[k][j] ELSE new[k][j]
  BY <1>3
<1>6. ASSUME NEW k \in 1 .. m, NEW j \in 0 .. Page - 1 PROVE pages'[k][j] \in Byte
  <2>1. new[k][j] \in Byte
    <3>1. new[k] \in PageBytes
      OBVIOUS
    <3> QED
      BY <3>1 DEF PageBytes
  <2>2. ASSUME (k - 1) * Page + j < len PROVE pages[k][j] \in Byte
    <3> DEFINE p == (k - 1) * Page + j
    <3>1. k \in Nat \ {0} /\ k - 1 \in Nat
      BY <1>2
    <3>2. p \div Page = k - 1
      BY <3>1, Place
    <3>3. p \in 0 .. cap - 1
      <4> DEFINE x == (k - 1) * Page
      <4>1. x \in Nat
        BY <3>1, PrevProduct
      <4>2. p = x + j /\ x + j < len /\ j \in Nat
        BY <2>2, PageNat
      <4> HIDE DEF x, p
      <4> QED
        BY <1>1, <4>1, <4>2
    <3> HIDE DEF p
    <3>4. (k - 1) + 1 \in 1 .. Len(pages)
      BY <1>1, <3>2, <3>3
    <3>5. k \in 1 .. Len(pages)
      BY <3>1, <3>4
    <3>6. pages[k] \in PageBytes
      BY <1>1, <3>5
    <3> QED
      BY <3>6 DEF PageBytes
  <2> QED
    BY <1>5, <2>1, <2>2
<1>7. pages' \in Seq(PageBytes) /\ Len(pages') = m
  <2>1. pages' = [k \in 1 .. m |-> [j \in 0 .. Page - 1 |-> pages'[k][j]]]
    BY <1>3
  <2>2. pages' \in [1 .. m -> PageBytes]
    BY <1>6, <2>1 DEF PageBytes
  <2> QED
    BY <1>2, <2>2
<1>8. BufInv'
  BY <1>1, <1>2, <1>4, <1>7 DEF BufInv, TypeOK, CapIsPages
<1>9. DOMAIN Flat' = 0 .. cap' - 1
      /\ \A p \in 0 .. cap' - 1 : Flat'[p] = pages'[(p \div Page) + 1][p % Page]
  BY DEF Flat
<1>10. ASSUME NEW p \in 0 .. len - 1 PROVE p \in 0 .. cap' - 1 /\ Flat'[p] = Flat[p]
  <2>1. p \in 0 .. m * Page - 1 /\ p \in 0 .. cap - 1
    BY <1>1, <1>2
  <2> DEFINE k == (p \div Page) + 1
             j == p % Page
  <2>2. k \in 1 .. m /\ j \in 0 .. Page - 1 /\ p = (p \div Page) * Page + j
    BY <1>2, <2>1, PlaceInside
  <2>3. (k - 1) * Page + j < len
    <3>1. p \in Nat
      BY <1>1
    <3>2. k - 1 = p \div Page
      BY <3>1, DivMod
    <3>3. (k - 1) * Page + j = p
      BY <2>2, <3>2
    <3> HIDE DEF k, j
    <3> QED
      BY <1>1, <3>3
  <2> HIDE DEF k, j
  <2>4. pages'[k][j] = pages[k][j]
    BY <1>5, <2>2, <2>3
  <2>5. Flat'[p] = pages'[k][j] /\ Flat[p] = pages[k][j]
    BY <1>1, <1>4, <1>9, <2>1 DEF k, j
  <2> QED
    BY <1>4, <2>1, <2>4, <2>5
<1> QED
  BY <1>1, <1>4, <1>8, <1>9, <1>10 DEF FlatBufOf!Copy, FlatBufOf!Cap

(***************************************************************************)
(* The theorems.                                                           *)
(***************************************************************************)
LEMMA StringsType == Strings \subseteq UNION {[1 .. n -> Byte] : n \in Nat}
  BY DynMemAssumption DEF Strings

\* Every operation keeps the invariant and is an operation of the flat buffer.
LEMMA BufStep == BufInv /\ Next => BufInv' /\ FlatBufOf!FlatNext
<1> SUFFICES ASSUME BufInv, Next PROVE BufInv' /\ FlatBufOf!FlatNext
  OBVIOUS
<1>0. 0 .. MaxCap \subseteq Nat /\ Strings \subseteq Seq(Byte)
  BY StringsType, SeqDef
<1>1. ASSUME NEW off \in 0 .. MaxCap, NEW s \in Strings, dynmem_write(off, s)
      PROVE  BufInv' /\ FlatBufOf!Write
  BY <1>0, <1>1, WriteStep
<1>2. ASSUME NEW n \in 0 .. MaxCap, dynmem_set_len(n) PROVE BufInv' /\ FlatBufOf!SetLen
  BY <1>0, <1>2, SetLenStep
<1>3. ASSUME NEW n \in 0 .. MaxCap, dynmem_set_cap(n) PROVE BufInv' /\ FlatBufOf!SetCap
  BY <1>0, <1>3, SetCapStep
<1> QED
  BY <1>1, <1>2, <1>3, AlignStep, LastPageStep, ClearStep, CopyStep
  DEF Next, FlatBufOf!FlatNext

\* An empty buffer is an empty flat buffer.
LEMMA BufInit == Init => BufInv /\ FlatBufOf!FlatInit
<1> SUFFICES ASSUME Init PROVE BufInv /\ FlatBufOf!FlatInit
  OBVIOUS
<1>1. BufInv
  BY PageNat DEF Init, BufInv, TypeOK, CapIsPages
<1>2. DOMAIN Flat = {}
  BY DEF Init, Flat
<1> QED
  BY <1>1, <1>2 DEF Init, FlatBufOf!FlatInit, FlatBufOf!Cap

\* The invariant is inductive.
LEMMA BufNext == BufInv /\ [Next]_vars => BufInv'
<1> SUFFICES ASSUME BufInv, [Next]_vars PROVE BufInv'
  OBVIOUS
<1>1. CASE Next
  BY <1>1, BufStep
<1>2. CASE UNCHANGED vars
  BY <1>2 DEF vars, BufInv, TypeOK, CapIsPages
<1> QED
  BY <1>1, <1>2

\* The invariant holds in every reachable state.
LEMMA BufAlways == Spec => []BufInv
<1>1. Init => BufInv
  BY BufInit
<1> QED
  BY <1>1, BufNext, PTL DEF Spec

\* The list, the length and the capacity keep their types.
THEOREM BufferTypeCorrect == Spec => []TypeOK
<1>1. BufInv => TypeOK
  BY DEF BufInv
<1> QED
  BY <1>1, BufAlways, PTL

\* A read returns the content of its range, clipped to the length.
THEOREM ReadsExactly == Spec => []ReadExact
<1>1. BufInv => ReadExact
  <2> SUFFICES ASSUME BufInv, NEW off \in 0 .. MaxCap, NEW n \in 0 .. MaxCap
               PROVE  LET l == IF off >= len THEN 0 ELSE Lesser(n, len - off)
                      IN  dynmem_read(off, n) = [i \in 1 .. l |-> Flat[off + i - 1]]
    BY DEF ReadExact
  <2>1. /\ cap \in Nat /\ len \in Nat /\ len <= cap /\ off \in Nat /\ n \in Nat
        /\ \A p \in 0 .. cap - 1 : Flat[p] = pages[(p \div Page) + 1][p % Page]
    BY InvFacts
  <2>2. CASE off >= len
    BY <2>2 DEF dynmem_read
  <2>3. CASE ~(off >= len)
    <3> DEFINE l == IF off + n > len THEN len - off ELSE n
    <3>1. l \in Nat /\ off + l <= cap /\ l = Lesser(n, len - off)
      BY <2>1, <2>3 DEF Lesser
    <3>2. dynmem_read(off, n) = [i \in 1 .. l |-> ByteAt(Chunks(cap, off, l), i - 1)]
      BY <2>3 DEF dynmem_read
    <3> HIDE DEF l
    <3>3. ASSUME NEW i \in 1 .. l
          PROVE  ByteAt(Chunks(cap, off, l), i - 1) = Flat[off + i - 1]
      <4>1. i - 1 \in 0 .. l - 1 /\ off + i - 1 \in 0 .. cap - 1 /\ off + i - 1 = off + (i - 1)
        BY <2>1, <3>1
      <4>2. ByteAt(Chunks(cap, off, l), i - 1)
              = pages[((off + (i - 1)) \div Page) + 1][(off + (i - 1)) % Page]
        BY <2>1, <3>1, <4>1, ByteAtIs
      <4> QED
        BY <2>1, <4>1, <4>2
    <3>4. [i \in 1 .. l |-> ByteAt(Chunks(cap, off, l), i - 1)]
             = [i \in 1 .. l |-> Flat[off + i - 1]]
      BY <3>3
    <3> QED
      BY <2>3, <3>1, <3>2, <3>4
  <2> QED
    BY <2>2, <2>3
<1> QED
  BY <1>1, BufAlways, PTL

\* dynmem_set_cap leaves the least number of pages.
THEOREM CapacityTight == Spec => SetCapTight
<1> DEFINE A == call'.op = "set_cap" => (call'.n <= cap' /\ cap' < call'.n + Page)
<1>1. BufInv /\ [Next]_vars => [A]_vars
  <2> SUFFICES ASSUME BufInv, Next, call'.op = "set_cap"
               PROVE  call'.n <= cap' /\ cap' < call'.n + Page
    OBVIOUS
  <2>1. PICK n \in 0 .. MaxCap : dynmem_set_cap(n)
    BY DEF Next, dynmem_write, dynmem_set_len, dynmem_align, dynmem_lastpage,
           dynmem_clear, dynmem_copy
  <2> QED
    BY <2>1, SetCapStep
<1> QED
  BY <1>1, BufAlways, PTL DEF Spec, SetCapTight

\* dynmem_align leaves a whole page at the length.
THEOREM AlignLeavesPage == Spec => AlignedPageIsWhole
<1>1. BufInv /\ [Next]_vars
         => [call'.op = "align" => (len' % Page) = 0 /\ len' + Page <= cap']_vars
  <2> SUFFICES ASSUME BufInv, Next, call'.op = "align"
               PROVE  (len' % Page) = 0 /\ len' + Page <= cap'
    OBVIOUS
  <2>1. dynmem_align
    BY DEF Next, dynmem_write, dynmem_set_len, dynmem_set_cap, dynmem_lastpage,
           dynmem_clear, dynmem_copy
  <2> QED
    BY <2>1, AlignStep
<1> QED
  BY <1>1, BufAlways, PTL DEF Spec, AlignedPageIsWhole

\* From a length that ends a page dynmem_lastpage gives the place of the next
\* byte and a whole page.
LEMMA LastPagePlace ==
    ASSUME BufInv, dynmem_lastpage, (len % Page) = 0
    PROVE  call'.ptr = Address(len) /\ call'.size = Page
<1> DEFINE q == len \div Page
           m == Len(pages)
<1>1. /\ len \in Nat /\ cap \in Nat /\ len <= cap /\ m \in Nat /\ cap = m * Page
      /\ q \in Nat /\ len = q * Page
  <2>1. /\ len \in Nat /\ cap \in Nat /\ len <= cap /\ m \in Nat /\ cap = m * Page
    BY DEF BufInv, TypeOK, CapIsPages
  <2>2. q \in Nat /\ len = q * Page + (len % Page)
    BY <2>1, DivMod
  <2>3. q * Page \in Nat
    BY <2>2, ProductNat
  <2> QED
    BY <2>1, <2>2, <2>3
<1>2. Address(len) = [page |-> q, at |-> 0]
  BY DEF Address
<1>3. call'.size = Page
  BY PageNat DEF dynmem_lastpage
<1>4. call'.ptr = IF len = cap THEN [page |-> m, at |-> 0]
                  ELSE IF len + Page >= cap THEN [page |-> m - 1, at |-> 0]
                  ELSE Address(len)
  BY DEF dynmem_lastpage
<1>5. len = cap => q = m
  <2>1. (m * Page + 0) \div Page = m
    BY <1>1, PageNat, Place
  <2> QED
    BY <1>1, <2>1, ProductNat
<1>6. (len # cap /\ len + Page >= cap) => q = m - 1
  <2> SUFFICES ASSUME len # cap, len + Page >= cap PROVE q = m - 1
    OBVIOUS
  <2>1. q * Page \in Nat /\ m * Page \in Nat /\ (q + 1) * Page = q * Page + Page
    BY <1>1, ProductNat
  <2>2. q < m
    <3>1. m < q => m * Page + Page <= q * Page
      BY <1>1, ProductLess
    <3>2. q # m
      BY <1>1
    <3> QED
      BY <1>1, <2>1, <3>1, <3>2, PageNat
  <2>3. ~(q + 1 < m)
    <3>1. q + 1 < m => (q + 1) * Page + Page <= m * Page
      BY <1>1, ProductLess
    <3> QED
      BY <1>1, <2>1, <3>1, PageNat
  <2> QED
    BY <1>1, <2>2, <2>3
<1> QED
  BY <1>2, <1>3, <1>4, <1>5, <1>6

\* dynmem_lastpage continues an aligned buffer.
LEMMA LastPageContinues == Spec => LastPageAppendsAligned
<1>1. BufInv /\ [Next]_vars
         => [call'.op = "lastpage" /\ (len % Page) = 0 =>
                call'.ptr = Address(len) /\ call'.size = Page]_vars
  <2> SUFFICES ASSUME BufInv, Next, call'.op = "lastpage", (len % Page) = 0
               PROVE  call'.ptr = Address(len) /\ call'.size = Page
    OBVIOUS
  <2>1. dynmem_lastpage
    BY DEF Next, dynmem_write, dynmem_set_len, dynmem_set_cap, dynmem_align,
           dynmem_clear, dynmem_copy
  <2> QED
    BY <2>1, LastPagePlace
<1> QED
  BY <1>1, BufAlways, PTL DEF Spec, LastPageAppendsAligned

\* The pages are those that the callers of the three operations rely on.
THEOREM PagesForCallers == Spec => PagesAsAsked
  BY CapacityTight, AlignLeavesPage, LastPageContinues DEF PagesAsAsked

\* The paged buffer implements the flat one.
THEOREM PagesImplementFlat == Spec => ImplementsFlat
<1>1. BufInv /\ [Next]_vars => [FlatBufOf!FlatNext]_(FlatBufOf!flatVars)
  <2> SUFFICES ASSUME BufInv, [Next]_vars
               PROVE  FlatBufOf!FlatNext \/ UNCHANGED FlatBufOf!flatVars
    OBVIOUS
  <2>1. CASE Next
    BY <2>1, BufStep
  <2>2. CASE UNCHANGED vars
    BY <2>2 DEF vars, FlatBufOf!flatVars, Flat
  <2> QED
    BY <2>1, <2>2
<1>2. Init => FlatBufOf!FlatInit
  BY BufInit
<1> QED
  BY <1>1, <1>2, BufAlways, PTL DEF Spec, ImplementsFlat, FlatBufOf!FlatSpec

(***************************************************************************)
(* The searches.  Each cuts its range at the pages in a way of its own; in *)
(* every case the parts are shown to be the range.                         *)
(***************************************************************************)

\* The byte at a place of a page, as an element of the flat array.
LEMMA FlatAt ==
    ASSUME BufInv, NEW k \in Nat, NEW j \in 0 .. Page - 1, NEW p \in 0 .. cap - 1,
           k * Page + j = p
    PROVE  Flat[p] = pages[k + 1][j]
<1>1. p \div Page = k /\ p % Page = j
  BY Place
<1> QED
  BY <1>1, InvFacts

\* The byte numbered i of a range, as an element of the flat array.
LEMMA ByteFlat ==
    ASSUME BufInv, NEW off \in Nat, NEW n \in Nat, off + n <= cap, NEW i \in 0 .. n - 1
    PROVE  ByteAt(Chunks(cap, off, n), i) = Flat[off + i]
<1>1. cap \in Nat
  BY InvFacts
<1>2. off + i \in 0 .. cap - 1
  BY <1>1
<1>3. ByteAt(Chunks(cap, off, n), i) = pages[((off + i) \div Page) + 1][(off + i) % Page]
  BY <1>1, ByteAtIs
<1> QED
  BY <1>2, <1>3, InvFacts

\* The callback of dynmem_chr counts the bytes before the first match, or all.
LEMMA ChrExact ==
    ASSUME BufInv, NEW off \in Nat, NEW n \in Nat, NEW ch,
           off < len, off + n <= cap,
           NEW S, S = {p \in off .. off + n - 1 : Flat[p] = ch}
    PROVE  IF S = {} THEN dynmem_chr(off, n, ch) = -1
           ELSE dynmem_chr(off, n, ch) \in S /\ \A p \in S : dynmem_chr(off, n, ch) <= p
<1> DEFINE Hit(i) == ByteAt(Chunks(cap, off, n), i) = ch
           Stop(i) == (i = n \/ Hit(i)) /\ \A j \in 0 .. i - 1 : ~Hit(j)
           c == CHOOSE i \in 0 .. n : Stop(i)
           r == dynmem_chr(off, n, ch)
<1>1. cap \in Nat /\ len \in Nat /\ ~(off >= len)
  BY InvFacts
<1>2. check_len(cap, off, n) = n
  BY <1>1, CheckLenInside
<1>3. r = IF off + c < off + n THEN off + c ELSE -1
  BY <1>1, <1>2 DEF dynmem_chr
<1>4. \A i \in 0 .. n - 1 : Hit(i) <=> Flat[off + i] = ch
  BY ByteFlat
<1> HIDE DEF Hit, r
<1>5. c \in 0 .. n /\ Stop(c)
  <2> DEFINE T == {i \in 0 .. n : i = n \/ Hit(i)}
  <2>1. T \subseteq Nat /\ n \in T
    OBVIOUS
  <2>2. PICK m \in T : \A k \in T : m <= k
    <3> HIDE DEF T
    <3> QED
      BY <2>1, LeastNat
  <2>3. m \in 0 .. n /\ (m = n \/ Hit(m))
    BY <2>2
  <2>4. ASSUME NEW j \in 0 .. m - 1 PROVE ~Hit(j)
    <3>1. j \in 0 .. n /\ ~(m <= j)
      BY <2>3
    <3> QED
      BY <2>2, <3>1
  <2>5. Stop(m)
    BY <2>3, <2>4
  <2> HIDE DEF Stop
  <2> QED
    BY <2>3, <2>5
<1> HIDE DEF c
<1>6. CASE c = n
  <2>1. r = -1
    BY <1>3, <1>6
  <2>2. \A p \in off .. off + n - 1 : Flat[p] # ch
    <3> SUFFICES ASSUME NEW p \in off .. off + n - 1 PROVE Flat[p] # ch
      OBVIOUS
    <3>1. p - off \in 0 .. n - 1 /\ off + (p - off) = p
      OBVIOUS
    <3>2. ~Hit(p - off)
      BY <1>5, <1>6, <3>1
    <3> QED
      BY <1>4, <3>1, <3>2
  <2> QED
    BY <2>1, <2>2 DEF r
<1>7. CASE c # n
  <2>1. c \in 0 .. n - 1 /\ r = off + c
    BY <1>3, <1>5, <1>7
  <2>2. r \in off .. off + n - 1 /\ Flat[r] = ch
    BY <1>4, <1>5, <1>7, <2>1
  <2>3. ASSUME NEW p \in S PROVE r <= p
    <3>1. p \in off .. off + n - 1 /\ Flat[p] = ch
      OBVIOUS
    <3>2. p - off \in 0 .. n - 1 /\ off + (p - off) = p
      BY <3>1
    <3>3. Hit(p - off)
      BY <1>4, <3>1, <3>2
    <3>4. ~(p - off \in 0 .. c - 1)
      BY <1>5, <3>3
    <3> QED
      BY <2>1, <3>2, <3>4
  <2> QED
    BY <2>2, <2>3 DEF r
<1> QED
  BY <1>6, <1>7

\* The first match in any range inside the capacity.
LEMMA ChrFirst == BufInv => ChrFindsFirst
<1> SUFFICES ASSUME BufInv, NEW off \in 0 .. MaxCap, NEW n \in 0 .. MaxCap, NEW ch \in Byte,
                    off < len, off + n <= cap
             PROVE  LET S == {p \in off .. off + n - 1 : Flat[p] = ch}
                        r == dynmem_chr(off, n, ch)
                    IN  IF S = {} THEN r = -1 ELSE r \in S /\ \A p \in S : r <= p
  BY DEF ChrFindsFirst
<1>1. off \in Nat /\ n \in Nat
  OBVIOUS
<1>2. PICK S : S = {p \in off .. off + n - 1 : Flat[p] = ch}
  OBVIOUS
<1> QED
  BY <1>1, <1>2, ChrExact
\* Less, as numbers of pages.
LEMMA PagesApart ==
    ASSUME NEW a \in Nat, NEW b \in Nat, NEW x \in 0 .. Page - 1, NEW y \in 0 .. Page - 1,
           a * Page + x <= b * Page + y
    PROVE  a < b \/ (a = b /\ x <= y)
<1>1. a * Page \in Nat /\ b * Page \in Nat
  BY ProductNat
<1>2. ~(b < a)
  <2>1. (b < a) <=> (b * Page + Page <= a * Page)
    BY ProductLess
  <2> DEFINE u == a * Page
             w == b * Page
  <2>2. u \in Nat /\ w \in Nat /\ u + x <= w + y /\ ((b < a) <=> w + Page <= u)
    BY <1>1, <2>1
  <2> HIDE DEF u, w
  <2> QED
    BY <2>2, PageNat
<1>3. a = b => x <= y
  BY <1>1
<1> QED
  BY <1>2, <1>3

\* And the other way round.
LEMMA PagesOrdered ==
    ASSUME NEW a \in Nat, NEW b \in Nat, NEW x \in 0 .. Page - 1, NEW y \in 0 .. Page - 1,
           a < b \/ (a = b /\ x <= y)
    PROVE  a * Page + x <= b * Page + y
<1>1. a * Page \in Nat /\ b * Page \in Nat
  BY ProductNat
<1>2. CASE a < b
  <2>1. a * Page + Page <= b * Page
    BY <1>2, ProductLess
  <2> DEFINE u == a * Page
             w == b * Page
  <2>2. u \in Nat /\ w \in Nat /\ u + Page <= w
    BY <1>1, <2>1
  <2> HIDE DEF u, w
  <2> QED
    BY <2>2, PageNat
<1>3. CASE a = b /\ x <= y
  BY <1>1, <1>3
<1> QED
  BY <1>2, <1>3

\* The last position of a range is at e, in page k.
EndsAt(off, l, k, e) == k = (off + l - 1) \div Page /\ e = (off + l - 1) % Page

\* What the scans of dynmem_rchr are, with the names of the code: e is `end'
\* in its page k, tail the bytes of a last page that does not end the range.
TailSize(l, e) == IF e = Page - 1 THEN 0 ELSE Lesser(e + 1, l)
ScanLeft(l, e, i) == l - TailSize(l, e) - i * Page
ScanFrom(l, e, i) == IF ScanLeft(l, e, i) > Page THEN 0 ELSE Page - ScanLeft(l, e, i)
TailScan(off, l, k, e) ==
    [page |-> k, lo |-> IF e + 1 <= l THEN 0 ELSE e + 1 - l, hi |-> e, base |-> off + l - 1 - e]
PageScan(off, l, k, e, i) ==
    [page |-> k - (IF TailSize(l, e) = 0 THEN 0 ELSE 1) - i, lo |-> ScanFrom(l, e, i),
     hi |-> Page - 1,
     base |-> off + ScanLeft(l, e, i) - (Page - ScanFrom(l, e, i)) - ScanFrom(l, e, i)]

LEMMA ScansAre ==
    ASSUME NEW off, NEW l, NEW k, NEW e, EndsAt(off, l, k, e)
    PROVE  Scans(off, l) = (IF TailSize(l, e) > 0 THEN {TailScan(off, l, k, e)} ELSE {})
               \cup {PageScan(off, l, k, e, i) : i \in {j \in 0 .. l : j * Page < l - TailSize(l, e)}}
  BY DEF EndsAt, Scans, TailSize, ScanLeft, ScanFrom, TailScan, PageScan

\* The last position of a range, and the part of its page.
LEMMA TailFacts ==
    ASSUME NEW off \in Nat, NEW l \in Nat, l > 0, NEW k, NEW e,
           EndsAt(off, l, k, e)
    PROVE  /\ k \in Nat /\ e \in 0 .. Page - 1 /\ k * Page \in Nat
           /\ off + l - 1 = k * Page + e
           /\ TailSize(l, e) \in 0 .. l
           /\ TailSize(l, e) = 0 => e = Page - 1
           /\ TailSize(l, e) > 0 => e < Page - 1 /\ TailSize(l, e) <= e + 1
           /\ TailSize(l, e) > 0 /\ TailSize(l, e) < l => TailSize(l, e) = e + 1
<1>1. off + l - 1 \in Nat
  OBVIOUS
<1>2. k \in Nat /\ e \in 0 .. Page - 1 /\ off + l - 1 = k * Page + e /\ k * Page \in Nat
  BY <1>1, DivMod, ProductNat DEF EndsAt
<1> QED
  BY <1>2, PageNat DEF TailSize, Lesser

\* A scan is of a part of one page, inside the range, and its base is the
\* position of the page.
IsScan(v, off, l) ==
    /\ v.page \in Nat /\ v.lo \in Nat /\ v.hi \in 0 .. Page - 1
    /\ v.base = v.page * Page /\ off <= v.base + v.lo /\ v.base + v.hi <= off + l - 1

\* The scan of the last page.
LEMMA TailInside ==
    ASSUME NEW off \in Nat, NEW l \in Nat, l > 0, NEW k, NEW e,
           EndsAt(off, l, k, e)
    PROVE  IsScan(TailScan(off, l, k, e), off, l)
<1> DEFINE v == TailScan(off, l, k, e)
           x == k * Page
<1>1. k \in Nat /\ e \in 0 .. Page - 1 /\ x \in Nat /\ off + l - 1 = x + e
  BY TailFacts
<1>2. /\ v.page = k /\ v.hi = e /\ v.base = off + l - 1 - e
      /\ v.lo = IF e + 1 <= l THEN 0 ELSE e + 1 - l
  BY DEF TailScan
<1>3. x = v.page * Page
  BY <1>2
<1> HIDE DEF v, x
<1>4. e \in Nat /\ e <= Page - 1
  BY <1>1, PageNat
<1>5. v.base = x /\ v.lo \in Nat
  BY <1>1, <1>2, <1>4
<1>6. off <= v.base + v.lo /\ v.base + v.hi <= off + l - 1
  BY <1>1, <1>2, <1>4
<1>7. IsScan(v, off, l)
  BY <1>1, <1>2, <1>3, <1>5, <1>6 DEF IsScan
<1> QED
  BY <1>7 DEF v

\* The scan of a whole page, or of the end of one.
LEMMA PageInside ==
    ASSUME NEW off \in Nat, NEW l \in Nat, l > 0, NEW k, NEW e,
           EndsAt(off, l, k, e),
           NEW i \in Nat, i * Page < l - TailSize(l, e)
    PROVE  IsScan(PageScan(off, l, k, e, i), off, l)
<1> DEFINE v == PageScan(off, l, k, e, i)
           x == k * Page
           y == i * Page
           t == TailSize(l, e)
           z == ScanLeft(l, e, i)
           c == ScanFrom(l, e, i)
           q == IF t = 0 THEN 0 ELSE 1
           u == k - q - i
<1>1. /\ k \in Nat /\ e \in 0 .. Page - 1 /\ x \in Nat /\ off + l - 1 = x + e /\ t \in 0 .. l
      /\ (t = 0 => e = Page - 1) /\ (t > 0 => e < Page - 1) /\ (t > 0 /\ t < l => t = e + 1)
  BY TailFacts
<1>2. y \in Nat /\ y < l - t
  BY ProductNat
<1>3. z = l - t - y /\ c = IF z > Page THEN 0 ELSE Page - z
  BY DEF ScanLeft, ScanFrom
<1>4. /\ v.page = u /\ v.lo = c /\ v.hi = Page - 1
      /\ v.base = off + z - (Page - c) - c
  BY DEF PageScan
<1>5. u * Page = x - (IF t = 0 THEN 0 ELSE Page) - y /\ u \in Int
  <2>1. \A a, b \in Int : (a - 1 - b) * Page = a * Page - Page - b * Page
                          /\ (a - 0 - b) * Page = a * Page - b * Page
    BY PageNat, SMTT(30)
  <2>2. k \in Int /\ i \in Int
    BY <1>1
  <2> HIDE DEF t
  <2> QED
    BY <1>1, <1>2, <2>1, <2>2, PageNat
<1> HIDE DEF v, x, y, t, z, c, q, u
<1>6. t < l /\ z \in Nat /\ z > 0 /\ z <= l /\ c \in Nat /\ c <= Page
  BY <1>1, <1>2, <1>3, PageNat
<1>7. u * Page = off + z - Page
  <2>1. CASE t = 0
    BY <1>1, <1>2, <1>3, <1>5, <2>1, PageNat
  <2>2. CASE t # 0
    BY <1>1, <1>2, <1>3, <1>5, <1>6, <2>2, PageNat
  <2> QED
    BY <2>1, <2>2
<1>8. v.base = off + z - Page
  BY <1>4, <1>6, PageNat
<1>9. u \in Nat
  <2>1. \A a \in Int : 0 < a * Page + Page => a >= 0
    BY PageNat, SMTT(30)
  <2>2. 0 < (off + z - Page) + Page
    BY <1>6, PageNat
  <2> QED
    BY <1>5, <1>7, <2>1, <2>2
<1>10. off <= v.base + c /\ v.base + (Page - 1) <= off + l - 1
  BY <1>3, <1>6, <1>8, PageNat
<1>11. Page - 1 \in 0 .. Page - 1
  BY PageNat
<1>12. IsScan(v, off, l)
  BY <1>4, <1>6, <1>7, <1>8, <1>9, <1>10, <1>11 DEF IsScan
<1> QED
  BY <1>12 DEF v

LEMMA ScanInside ==
    ASSUME NEW off \in Nat, NEW l \in Nat, l > 0, NEW v \in Scans(off, l)
    PROVE  IsScan(v, off, l)
<1>1. PICK k, e : EndsAt(off, l, k, e)
  BY DEF EndsAt
<1>2. \/ v = TailScan(off, l, k, e)
      \/ \E i \in Nat : i * Page < l - TailSize(l, e) /\ v = PageScan(off, l, k, e, i)
  BY <1>1, ScansAre
<1> QED
  BY <1>1, <1>2, TailInside, PageInside

\* Every position of the range is in a scan.
LEMMA ScanOf ==
    ASSUME NEW off \in Nat, NEW l \in Nat, l > 0, NEW p \in off .. off + l - 1
    PROVE  \E v \in Scans(off, l) : \E b \in 0 .. Page - 1 :
               v.lo <= b /\ b <= v.hi /\ v.base + b = p
<1>1. PICK k, e : EndsAt(off, l, k, e)
  BY DEF EndsAt
<1> DEFINE t == TailSize(l, e)
           d == off + l - 1 - p
<1>2. /\ e \in 0 .. Page - 1 /\ t \in 0 .. l
      /\ (t > 0 => t <= e + 1)
  BY <1>1, TailFacts
<1>3. d \in 0 .. l - 1 /\ p = off + l - 1 - d
  OBVIOUS
<1> HIDE DEF d
<1>4. CASE d < t
  <2> DEFINE v == TailScan(off, l, k, e)
  <2>1. v \in Scans(off, l)
    BY <1>1, <1>2, <1>3, <1>4, ScansAre
  <2>2. /\ v.hi = e /\ v.base = off + l - 1 - e
        /\ v.lo = IF e + 1 <= l THEN 0 ELSE e + 1 - l
    BY DEF TailScan
  <2> HIDE DEF v, t
  <2>3. e - d \in 0 .. Page - 1
    BY <1>2, <1>3, <1>4, PageNat
  <2>4. v.lo <= e - d /\ e - d <= v.hi /\ v.base + (e - d) = p
    BY <1>2, <1>3, <1>4, <2>2, PageNat
  <2> QED
    BY <2>1, <2>3, <2>4
<1>5. CASE ~(d < t)
  <2> DEFINE i == (d - t) \div Page
             m == (d - t) % Page
             y == i * Page
             v == PageScan(off, l, k, e, i)
             z == ScanLeft(l, e, i)
             c == ScanFrom(l, e, i)
             b == Page - 1 - m
  <2>1. d - t \in Nat
    BY <1>2, <1>3, <1>5
  <2>2. i \in Nat /\ y \in Nat /\ m \in 0 .. Page - 1 /\ d - t = y + m
    BY <2>1, DivMod, ProductNat
  <2>3. z = l - t - y /\ c = IF z > Page THEN 0 ELSE Page - z
    BY DEF ScanLeft, ScanFrom
  <2>4. v.lo = c /\ v.hi = Page - 1 /\ v.base = off + z - (Page - c) - c
    BY DEF PageScan
  <2>5. i <= y
    <3>1. \A a \in Nat : a <= a * Page
      BY PageNat, SMTT(30)
    <3> QED
      BY <2>2, <3>1
  <2> HIDE DEF t, i, m, z, c, v
  <2>6. y < l - t /\ i \in 0 .. l
    <3> HIDE DEF y
    <3>1. y < l - t
      BY <1>2, <1>3, <2>1, <2>2, PageNat
    <3> QED
      BY <1>2, <2>2, <2>5, <3>1
  <2>7. v \in Scans(off, l)
    BY <1>1, <2>6, ScansAre DEF v, t
  <2> HIDE DEF y
  <2>8. z \in Nat /\ z > 0 /\ c \in Nat /\ v.base = off + z - Page
    BY <1>2, <2>2, <2>3, <2>4, <2>6, PageNat
  <2>9. b \in 0 .. Page - 1 /\ b <= v.hi
    BY <2>2, <2>4, PageNat
  <2>10. v.base + b = p
    BY <1>2, <1>3, <2>2, <2>3, <2>8, PageNat
  <2>11. v.lo <= b
    BY <1>2, <1>3, <2>2, <2>3, <2>4, PageNat
  <2> QED
    BY <2>7, <2>9, <2>10, <2>11
<1> QED
  BY <1>4, <1>5
\* The last match in a range of l bytes inside the capacity.
LEMMA RchrExact ==
    ASSUME BufInv, NEW off \in Nat, NEW n, NEW ch, NEW l \in Nat,
           l = check_len(cap, off, n), l > 0, off + l <= cap,
           NEW S, S = {p \in off .. off + l - 1 : Flat[p] = ch}
    PROVE  IF S = {} THEN dynmem_rchr(off, n, ch) = -1
           ELSE dynmem_rchr(off, n, ch) \in S /\ \A p \in S : p <= dynmem_rchr(off, n, ch)
<1> DEFINE Hits == {h \in Scans(off, l) \X (0 .. Page - 1) :
                      h[1].lo <= h[2] /\ h[2] <= h[1].hi /\ pages[h[1].page + 1][h[2]] = ch}
           Lower(g, h) == g[1].page < h[1].page \/ (g[1].page = h[1].page /\ g[2] <= h[2])
           Place2(h) == h[1].base + h[2]
           c == CHOOSE h \in Hits : \A g \in Hits : Lower(g, h)
           r == dynmem_rchr(off, n, ch)
<1>1. cap \in Nat
  BY InvFacts
<1>2. r = IF Hits = {} THEN -1 ELSE c[1].base + c[2]
  BY DEF dynmem_rchr
<1>3. ASSUME NEW v \in Scans(off, l), NEW b \in 0 .. Page - 1, v.lo <= b, b <= v.hi
      PROVE  v.base + b \in off .. off + l - 1 /\ Flat[v.base + b] = pages[v.page + 1][b]
  <2>1. /\ v.page \in Nat /\ v.lo \in Nat /\ v.hi \in 0 .. Page - 1
        /\ v.base = v.page * Page /\ off <= v.base + v.lo /\ v.base + v.hi <= off + l - 1
    BY ScanInside DEF IsScan
  <2>2. v.base \in Nat
    BY <2>1, ProductNat
  <2>3. v.base + b \in off .. off + l - 1
    <3>1. /\ v.lo \in Nat /\ v.hi \in Nat /\ b \in Nat /\ v.lo <= b /\ b <= v.hi
          /\ off <= v.base + v.lo /\ v.base + v.hi <= off + l - 1
      BY <1>3, <2>1, PageNat
    <3> QED
      BY <2>2, <3>1
  <2>4. v.base + b \in 0 .. cap - 1 /\ v.page * Page + b = v.base + b
    BY <1>1, <2>1, <2>3
  <2>5. Flat[v.base + b] = pages[v.page + 1][b]
    <3> DEFINE p == v.base + b
    <3>1. p \in 0 .. cap - 1 /\ v.page * Page + b = p
      BY <2>4
    <3> HIDE DEF p
    <3>2. Flat[p] = pages[v.page + 1][b]
      BY <2>1, <3>1, FlatAt
    <3> QED
      BY <3>2 DEF p
  <2> QED
    BY <2>3, <2>5
<1>4. ASSUME NEW h \in Hits
      PROVE  /\ h[1] \in Scans(off, l) /\ h[2] \in 0 .. Page - 1
             /\ Place2(h) \in S
  <2>1. /\ h[1] \in Scans(off, l) /\ h[2] \in 0 .. Page - 1
        /\ h[1].lo <= h[2] /\ h[2] <= h[1].hi /\ pages[h[1].page + 1][h[2]] = ch
    OBVIOUS
  <2>2. Place2(h) \in off .. off + l - 1 /\ Flat[Place2(h)] = ch
    BY <1>3, <2>1
  <2> QED
    BY <2>1, <2>2
<1>5. ASSUME NEW p \in S
      PROVE  \E h \in Hits : Place2(h) = p
  <2>1. p \in off .. off + l - 1 /\ Flat[p] = ch
    OBVIOUS
  <2>2. PICK v \in Scans(off, l) : \E b \in 0 .. Page - 1 :
               v.lo <= b /\ b <= v.hi /\ v.base + b = p
    BY <2>1, ScanOf
  <2>3. PICK b \in 0 .. Page - 1 : v.lo <= b /\ b <= v.hi /\ v.base + b = p
    BY <2>2
  <2>4. pages[v.page + 1][b] = ch
    BY <1>3, <2>1, <2>3
  <2>5. <<v, b>> \in Hits /\ Place2(<<v, b>>) = p
    BY <2>3, <2>4
  <2> QED
    BY <2>5
<1>6. ASSUME NEW g \in Hits, NEW h \in Hits
      PROVE  Lower(g, h) <=> Place2(g) <= Place2(h)
  <2> HIDE DEF Hits
  <2>1. g[1] \in Scans(off, l) /\ h[1] \in Scans(off, l)
    BY <1>4
  <2>2. /\ g[1].page \in Nat /\ h[1].page \in Nat
        /\ g[1].base = g[1].page * Page /\ h[1].base = h[1].page * Page
    BY <2>1, ScanInside DEF IsScan
  <2> DEFINE a == g[1].page
             b == h[1].page
             x == g[2]
             y == h[2]
  <2>3. a \in Nat /\ b \in Nat /\ x \in 0 .. Page - 1 /\ y \in 0 .. Page - 1
    BY <1>4, <2>2
  <2>4. Place2(g) = a * Page + x /\ Place2(h) = b * Page + y
    BY <2>2
  <2> HIDE DEF a, b, x, y
  <2>5. (a < b \/ (a = b /\ x <= y)) <=> a * Page + x <= b * Page + y
    BY <2>3, PagesApart, PagesOrdered
  <2> HIDE DEF Place2
  <2> QED
    BY <2>4, <2>5 DEF a, b, x, y
<1> HIDE DEF Hits
<1>7. CASE S = {}
  <2>1. Hits = {}
    BY <1>4, <1>7
  <2> QED
    BY <1>2, <1>7, <2>1
<1>8. CASE S # {}
  <2>1. S \subseteq Nat /\ off + l \in Nat /\ \A p \in S : p <= off + l
    OBVIOUS
  <2>2. PICK q \in S : \A p \in S : p <= q
    BY <1>8, <2>1, GreatestNat
  <2>3. PICK h \in Hits : Place2(h) = q
    BY <1>5
  <2>4. \A g \in Hits : Lower(g, h)
    <3> SUFFICES ASSUME NEW g \in Hits PROVE Lower(g, h)
      OBVIOUS
    <3>1. Place2(g) \in S
      BY <1>4
    <3>2. Place2(g) <= Place2(h)
      BY <2>2, <2>3, <3>1
    <3> HIDE DEF Lower, Place2
    <3> QED
      BY <1>6, <3>2
  <2> HIDE DEF Lower, Place2
  <2>5. c \in Hits /\ \A g \in Hits : Lower(g, c)
    BY <2>4
  <2> HIDE DEF c
  <2>6. Hits # {} /\ r = Place2(c)
    BY <1>2, <2>3 DEF Place2
  <2>7. r \in S
    BY <1>4, <2>5, <2>6
  <2>8. ASSUME NEW p \in S PROVE p <= r
    <3>1. PICK g \in Hits : Place2(g) = p
      BY <1>5
    <3> QED
      BY <1>6, <2>5, <2>6, <3>1
  <2> QED
    BY <1>8, <2>7, <2>8
<1> QED
  BY <1>7, <1>8

\* The last match in any range that is not empty.
LEMMA RchrLast == BufInv => RchrFindsLast
<1> SUFFICES ASSUME BufInv, NEW off \in 0 .. MaxCap, NEW n \in 0 .. MaxCap, NEW ch \in Byte,
                    check_len(cap, off, n) > 0
             PROVE  LET S == {p \in off .. Lesser(off + n, cap) - 1 : Flat[p] = ch}
                        r == dynmem_rchr(off, n, ch)
                    IN  IF S = {} THEN r = -1 ELSE r \in S /\ \A p \in S : p <= r
  BY DEF RchrFindsLast
<1>1. off \in Nat /\ n \in Nat /\ cap \in Nat
  BY InvFacts
<1>2. PICK l : l = check_len(cap, off, n)
  OBVIOUS
<1>3. l \in Nat /\ l > 0 /\ off + l <= cap /\ off + l = Lesser(off + n, cap)
  BY <1>1, <1>2 DEF check_len, Lesser
<1>4. PICK S : S = {p \in off .. off + l - 1 : Flat[p] = ch}
  OBVIOUS
<1>5. IF S = {} THEN dynmem_rchr(off, n, ch) = -1
      ELSE dynmem_rchr(off, n, ch) \in S /\ \A p \in S : p <= dynmem_rchr(off, n, ch)
  BY <1>1, <1>2, <1>3, <1>4, RchrExact
<1> QED
  BY <1>3, <1>4, <1>5

\* dynmem_equal compares the bytes of its range, each once.
LEMMA EqualIs == BufInv => EqualExact
<1> SUFFICES ASSUME BufInv, NEW off \in 0 .. MaxCap, NEW s \in Strings,
                    off < len, off + Len(s) <= len
             PROVE  (\A v \in Chunks(cap, off, Len(s)) : \A j \in 0 .. v.size - 1 :
                        pages[v.page + 1][v.from + j] = s[v.at + j + 1])
                    <=> \A i \in 1 .. Len(s) : Flat[off + i - 1] = s[i]
  BY DEF EqualExact, dynmem_equal
<1> DEFINE n == Len(s)
           V == Chunks(cap, off, n)
<1>1. cap \in Nat /\ len \in Nat /\ len <= cap /\ off \in Nat
  BY InvFacts
<1>2. s \in Seq(Byte) /\ n \in Nat
  BY StringsType, SeqDef
<1>3. off + n <= cap
  BY <1>1, <1>2
<1> HIDE DEF n
<1>4. ASSUME NEW v \in V, NEW j \in 0 .. v.size - 1
      PROVE  /\ v.at + j + 1 \in 1 .. n
             /\ Flat[off + (v.at + j + 1) - 1] = pages[v.page + 1][v.from + j]
  <2>1. /\ v.page \in Nat /\ v.from \in Nat /\ v.size \in Nat /\ v.at \in Nat
        /\ v.from + v.size <= Page /\ v.at + v.size <= n
        /\ v.page * Page + v.from = off + v.at
    BY <1>1, <1>2, <1>3, ChunkInside
  <2>2. v.page * Page \in Nat
    BY <2>1, ProductNat
  <2> DEFINE y == v.page * Page
             f == v.from
             a == v.at
             z == v.size
             p == off + a + j
  <2>3. /\ y \in Nat /\ f \in Nat /\ a \in Nat /\ z \in Nat /\ j \in Nat /\ j < z
        /\ f + z <= Page /\ a + z <= n /\ y + f = off + a
    BY <2>1, <2>2
  <2> HIDE DEF y, f, a, z, V
  <2>4. f + j \in 0 .. Page - 1
    BY <2>3, PageNat
  <2>5. p \in 0 .. cap - 1 /\ y + (f + j) = p
    BY <1>1, <1>2, <1>3, <2>3
  <2>6. a + j + 1 \in 1 .. n /\ off + (a + j + 1) - 1 = p
    BY <1>1, <1>2, <2>3
  <2> HIDE DEF p
  <2>7. Flat[p] = pages[v.page + 1][f + j]
    BY <2>1, <2>4, <2>5, FlatAt DEF y
  <2> QED
    BY <2>6, <2>7 DEF f, a
<1>5. ASSUME NEW i \in 1 .. n
      PROVE  \E v \in V : \E j \in 0 .. v.size - 1 : v.at + j + 1 = i
  <2>1. i - 1 \in 0 .. n - 1
    BY <1>2
  <2>2. PICK v \in V : v.at <= i - 1 /\ i - 1 < v.at + v.size
    BY <1>1, <1>2, <1>3, <2>1, ChunkOf
  <2>3. v.at \in Nat /\ v.size \in Nat
    BY <1>1, <1>2, <1>3, <2>2, ChunkInside
  <2> DEFINE a == v.at
             z == v.size
             j == (i - 1) - a
  <2>4. a \in Nat /\ z \in Nat /\ a <= i - 1 /\ i - 1 < a + z /\ i \in Nat
    BY <1>2, <2>2, <2>3
  <2> HIDE DEF a, z
  <2>5. j \in 0 .. z - 1 /\ a + j + 1 = i
    BY <2>4
  <2> HIDE DEF j
  <2> QED
    BY <2>2, <2>5 DEF a, z
<1> HIDE DEF V
<1>6. (\A v \in V : \A j \in 0 .. v.size - 1 : pages[v.page + 1][v.from + j] = s[v.at + j + 1])
      => \A i \in 1 .. n : Flat[off + i - 1] = s[i]
  <2> SUFFICES ASSUME \A v \in V : \A j \in 0 .. v.size - 1 :
                          pages[v.page + 1][v.from + j] = s[v.at + j + 1],
                      NEW i \in 1 .. n
               PROVE  Flat[off + i - 1] = s[i]
    OBVIOUS
  <2>1. PICK v \in V : \E j \in 0 .. v.size - 1 : v.at + j + 1 = i
    BY <1>5
  <2>2. PICK j \in 0 .. v.size - 1 : v.at + j + 1 = i
    BY <2>1
  <2>3. Flat[off + i - 1] = pages[v.page + 1][v.from + j]
    BY <1>4, <2>2
  <2> QED
    BY <2>2, <2>3
<1>7. (\A i \in 1 .. n : Flat[off + i - 1] = s[i])
      => \A v \in V : \A j \in 0 .. v.size - 1 : pages[v.page + 1][v.from + j] = s[v.at + j + 1]
  BY <1>4
<1> QED
  BY <1>6, <1>7 DEF n, V

\* An address of the first page is its own offset.
LEMMA OffsetIs == BufInv => OffsetInFirstPage
<1> SUFFICES ASSUME BufInv, NEW off \in 0 .. cap - 1, off < Page
             PROVE  dynmem_offset(dynmem_get(off)) = off
  BY DEF OffsetInFirstPage
<1>1. cap \in Nat /\ Len(pages) \in Nat /\ cap = Len(pages) * Page
  BY InvFacts
<1>2. off \in 0 .. Page - 1 /\ 0 * Page + off = off /\ 0 \in Nat
  BY <1>1, PageNat
<1>3. off \div Page = 0 /\ off % Page = off
  <2>1. (0 * Page + off) \div Page = 0 /\ (0 * Page + off) % Page = off
    BY <1>2, Place
  <2> QED
    BY <1>2, <2>1
<1>4. Len(pages) # 0
  <2>1. 0 * Page = 0
    BY PageNat
  <2> QED
    BY <1>1, <2>1
<1>5. dynmem_get(off) = [page |-> 0, at |-> off]
  BY <1>1, <1>3 DEF dynmem_get, Address
<1> QED
  BY <1>1, <1>4, <1>5 DEF dynmem_offset

\* The searches, the comparison and the offsets are those of the flat array,
\* for every page size and content: chr finds the first match, rchr the last.
THEOREM SearchesAreExact == Spec => []SearchesExact
<1>1. BufInv => SearchesExact
  BY ChrFirst, RchrLast, EqualIs, OffsetIs DEF SearchesExact
<1> QED
  BY <1>1, BufAlways, PTL
=============================================================================
