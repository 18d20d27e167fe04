------------------------------- MODULE DynMem -------------------------------
(***************************************************************************)
(* dynmem.c: the paged buffer that holds a request as it is read and a     *)
(* reply as it is composed.  The pages are a linked list of malloc'd       *)
(* blocks of one size, a power of two, so that `off & (page - 1)' is the   *)
(* place in a page.  What malloc returns may hold anything.                *)
(*                                                                         *)
(* Positions stay far below 2^32: the sums of the code do not wrap.        *)
(***************************************************************************)
EXTENDS Integers, Sequences

CONSTANTS MinPage,   \* the page size asked of dynmem_init
          Page,      \* the one it chooses: self->page
          Byte,      \* the values of a byte
          MaxPages,  \* bound: pages of a buffer
          MaxWrite   \* bound: bytes written by one call

\* dynmem_init doubles 1 until it is not below MinPage.
PageFor(min) == CHOOSE p \in {2^k : k \in 0 .. 30} :
                    min <= p /\ (p = 1 \/ p \div 2 < min)

ASSUME PageRounded == Page = PageFor(MinPage)

ASSUME DynMemAssumption ==
    Page \in Nat \ {0} /\ MaxPages \in Nat /\ MaxWrite \in Nat

VARIABLES pages,   \* the list: for each page its bytes
          len,     \* self->len
          cap,     \* self->cap
          call     \* the last call and its arguments

vars == <<pages, len, cap, call>>

PageBytes == [0 .. Page - 1 -> Byte]
MaxCap == MaxPages * Page

Lesser(a, b) == IF a <= b THEN a ELSE b

Init == pages = <<>> /\ len = 0 /\ cap = 0 /\ call = [op |-> "init"]

(***************************************************************************)
(* Walking the list.                                                       *)
(***************************************************************************)

\* The part of off .. off + n - 1 below capacity c.
check_len(c, off, n) == IF off > c THEN 0 ELSE IF off + n > c THEN c - off ELSE n

\* The bytes of the first chunk, when off is inside a page.
HeadSize(off, n) == IF (off % Page) = 0 THEN 0 ELSE Lesser(Page - (off % Page), n)

\* Mutant: a range that starts inside a page never leaves that page.
ChunksStay(c, off, n) ==
    LET l == check_len(c, off, n)
        h == HeadSize(off, l)
        head == [page |-> off \div Page, from |-> off % Page, size |-> h, at |-> 0]
        aligned == {[page |-> (off \div Page) + i, from |-> 0,
                     size |-> Lesser(Page, l - h - i * Page), at |-> h + i * Page] :
                       i \in {j \in 0 .. l : j * Page < l - h}}
    IN  (IF h > 0 THEN {head} ELSE {}) \cup aligned

\* The calls dynmem_foreach makes of its callback: size bytes, from position
\* from of a page, of which the first is the one numbered at.
Chunks(c, off, n) ==
    LET l == check_len(c, off, n)
        h == HeadSize(off, l)
        next == (off \div Page) + (IF (off % Page) = 0 THEN 0 ELSE 1)
        head == [page |-> off \div Page, from |-> off % Page, size |-> h, at |-> 0]
        aligned == {[page |-> next + i, from |-> 0,
                     size |-> Lesser(Page, l - h - i * Page), at |-> h + i * Page] :
                       i \in {j \in 0 .. l : j * Page < l - h}}
    IN  (IF h > 0 THEN {head} ELSE {}) \cup aligned

\* The byte numbered i, of those the chunks bring to the callback.
ByteAt(V, i) == LET v == CHOOSE w \in V : w.at <= i /\ i < w.at + w.size
                IN  pages[v.page + 1][v.from + i - v.at]

Covers(v, k, j) == v.page + 1 = k /\ v.from <= j /\ j < v.from + v.size

\* on_write copies into each chunk the next bytes of the source.
Stored(P, V, s) ==
    [k \in DOMAIN P |-> [j \in 0 .. Page - 1 |->
        IF \E v \in V : Covers(v, k, j)
        THEN LET v == CHOOSE w \in V : Covers(w, k, j)
             IN  s[v.at + j - v.from + 1]
        ELSE P[k][j]]]

(***************************************************************************)
(* Operations that change the buffer.                                      *)
(***************************************************************************)

PagesFor(n) == (n + Page - 1) \div Page

\* dynmem_grow, until the capacity reaches n: the lists it may lead to.
Grown(n) == {pages \o new : new \in [1 .. PagesFor(n) - Len(pages) -> PageBytes]}

Capacity(n) == IF cap < n THEN PagesFor(n) * Page ELSE cap

dynmem_align ==
    LET n == PagesFor(len) * Page
    IN  /\ n < MaxCap
        /\ pages' \in Grown(n + 1)
        /\ cap' = Capacity(n + 1)
        /\ len' = n
        /\ call' = [op |-> "align"]

dynmem_write(off, s) ==
    LET end == off + Len(s)
    IN  /\ end <= MaxCap
        /\ cap' = Capacity(end)
        /\ \E P \in Grown(end) : pages' = Stored(P, Chunks(cap', off, Len(s)), s)
        /\ len' = IF len < end THEN end ELSE len
        /\ call' = [op |-> "write", off |-> off, data |-> s]

dynmem_set_len(n) ==
    /\ n <= MaxCap
    /\ pages' \in Grown(n)
    /\ cap' = Capacity(n)
    /\ len' = n
    /\ call' = [op |-> "set_len", n |-> n]

\* Pages are freed while the capacity is at least n + page.
Kept(n) == CHOOSE k \in 0 .. Len(pages) :
               k * Page < n + Page /\ (k = Len(pages) \/ (k + 1) * Page >= n + Page)

\* Mutant: the length becomes the last position.
ClippedToLast(c) == IF len > c THEN c - 1 ELSE len

Clipped(c) == IF len > c THEN c ELSE len

dynmem_set_cap(n) ==
    /\ n <= MaxCap
    /\ IF cap < n
       THEN pages' \in Grown(n) /\ cap' = Capacity(n)
       ELSE pages' = SubSeq(pages, 1, Kept(n)) /\ cap' = Kept(n) * Page
    /\ len' = Clipped(cap')
    /\ call' = [op |-> "set_cap", n |-> n]

dynmem_clear ==
    /\ pages' = <<>> /\ len' = 0 /\ cap' = 0
    /\ call' = [op |-> "clear"]

\* The buffer is replaced by its copy: new pages, with the content.
dynmem_copy ==
    /\ \E new \in [1 .. PagesFor(len) -> PageBytes] :
          pages' = [k \in DOMAIN new |-> [j \in 0 .. Page - 1 |->
                       IF (k - 1) * Page + j < len THEN pages[k][j] ELSE new[k][j]]]
    /\ cap' = PagesFor(len) * Page
    /\ call' = [op |-> "copy"]
    /\ UNCHANGED len

\* An address: a place of a page.
Address(off) == [page |-> off \div Page, at |-> off % Page]

\* Mutant: the last page is offered again when it is full.
LastPageAgain ==
    /\ len < MaxCap
    /\ LET ptr == IF len + Page >= cap THEN [page |-> Len(pages) - 1, at |-> 0]
                  ELSE Address(len)
       IN  call' = [op |-> "lastpage", ptr |-> ptr, size |-> Page - (len % Page)]
    /\ UNCHANGED <<pages, len, cap>>

dynmem_lastpage ==
    /\ len < MaxCap
    /\ pages' \in (IF len = cap THEN Grown(len + 1) ELSE {pages})
    /\ cap' = IF len = cap THEN cap + Page ELSE cap
    /\ LET ptr == IF len = cap THEN [page |-> Len(pages), at |-> 0]
                  ELSE IF len + Page >= cap THEN [page |-> Len(pages) - 1, at |-> 0]
                  ELSE Address(len)
       IN  call' = [op |-> "lastpage", ptr |-> ptr, size |-> Page - (len % Page)]
    /\ UNCHANGED len

Strings == UNION {[1 .. n -> Byte] : n \in 0 .. MaxWrite}

Next == \/ \E off \in 0 .. MaxCap, s \in Strings : dynmem_write(off, s)
        \/ \E n \in 0 .. MaxCap : dynmem_set_len(n)
        \/ \E n \in 0 .. MaxCap : dynmem_set_cap(n)
        \/ dynmem_align
        \/ dynmem_lastpage
        \/ dynmem_clear
        \/ dynmem_copy

Spec == Init /\ [][Next]_vars

(***************************************************************************)
(* Operations that only look.                                              *)
(***************************************************************************)
NULL == [page |-> -1, at |-> 0]

dynmem_get(off) == IF off >= cap THEN NULL ELSE Address(off)

\* The address minus that of its page: the number of the page is not used.
\* 0xFFFFFFFF, for an address outside, is -1.
dynmem_offset(ptr) == IF ptr.page \in 0 .. Len(pages) - 1 THEN ptr.at ELSE -1

dynmem_read(off, n) ==
    IF off >= len THEN <<>>
    ELSE LET l == IF off + n > len THEN len - off ELSE n
         IN  [i \in 1 .. l |-> ByteAt(Chunks(cap, off, l), i - 1)]

\* The callback stops at the first match, or has counted every byte.
dynmem_chr(off, n, ch) ==
    IF off >= len THEN -1
    ELSE LET l == check_len(cap, off, n)
             Hit(i) == ByteAt(Chunks(cap, off, n), i) = ch
             i == CHOOSE i \in 0 .. l : (i = l \/ Hit(i)) /\ \A j \in 0 .. i - 1 : ~Hit(j)
         IN  IF off + i < off + n THEN off + i ELSE -1

\* Mutant: every page is scanned down to its start.
ScansWhole(off, l) ==
    LET last == off + l - 1
        k == last \div Page
    IN  {[page |-> k - i, lo |-> 0, hi |-> IF i = 0 THEN last % Page ELSE Page - 1,
          base |-> (k - i) * Page] : i \in {j \in 0 .. k : (k - j + 1) * Page > off}}

\* Backwards: first the part of the last page, if it does not end the page,
\* then whole pages, the last of which from place c on.  A scan is of bytes lo
\* to hi of a page, and byte b is returned as position base + b.
Scans(off, l) ==
    LET last == off + l - 1
        k == last \div Page
        e == last % Page
        tail == IF e = Page - 1 THEN 0 ELSE Lesser(e + 1, l)
        partly == [page |-> k, lo |-> IF e + 1 <= l THEN 0 ELSE e + 1 - l,
                   hi |-> e, base |-> off + l - 1 - e]
        left(i) == l - tail - i * Page
        c(i) == IF left(i) > Page THEN 0 ELSE Page - left(i)
        whole == {[page |-> k - (IF tail = 0 THEN 0 ELSE 1) - i, lo |-> c(i),
                   hi |-> Page - 1, base |-> off + left(i) - (Page - c(i)) - c(i)] :
                     i \in {j \in 0 .. l : j * Page < l - tail}}
    IN  (IF tail > 0 THEN {partly} ELSE {}) \cup whole

dynmem_rchr(off, n, ch) ==
    LET l == check_len(cap, off, n)
        Hits == {h \in Scans(off, l) \X (0 .. Page - 1) :
                    h[1].lo <= h[2] /\ h[2] <= h[1].hi /\ pages[h[1].page + 1][h[2]] = ch}
    IN  IF l = 0 THEN 0
        ELSE IF Hits = {} THEN -1
        ELSE LET h == CHOOSE h \in Hits : \A g \in Hits :
                         g[1].page < h[1].page \/ (g[1].page = h[1].page /\ g[2] <= h[2])
             IN  h[1].base + h[2]

dynmem_equal(off, n, s) ==
    /\ off < len /\ off + n <= len
    /\ \A v \in Chunks(cap, off, n) : \A j \in 0 .. v.size - 1 :
          pages[v.page + 1][v.from + j] = s[v.at + j + 1]

(***************************************************************************)
(* Properties.                                                             *)
(***************************************************************************)
\* cap counts the pages of the list, and the content is inside it: every walk
\* of the list by a position below cap, which checks nothing, finds its page.
CapIsPages == cap = Len(pages) * Page /\ len <= cap

TypeOK == /\ pages \in Seq(PageBytes)
          /\ len \in Nat
          /\ cap \in Nat
          /\ CapIsPages

\* The bytes in the order of their positions.
Flat == [p \in 0 .. cap - 1 |-> pages[(p \div Page) + 1][p % Page]]

\* dynmem_read returns the content in the range it is asked for, clipped to
\* the length, whatever pages the range crosses.
ReadExact ==
    \A off, n \in 0 .. MaxCap :
        LET l == IF off >= len THEN 0 ELSE Lesser(n, len - off)
        IN  dynmem_read(off, n) = [i \in 1 .. l |-> Flat[off + i - 1]]

\* dynmem_chr finds the first match in a range inside the capacity.
ChrFindsFirst ==
    \A off, n \in 0 .. MaxCap : \A ch \in Byte : (off < len /\ off + n <= cap) =>
        LET S == {p \in off .. off + n - 1 : Flat[p] = ch}
            r == dynmem_chr(off, n, ch)
        IN  IF S = {} THEN r = -1 ELSE r \in S /\ \A p \in S : r <= p

\* dynmem_rchr finds the last match in a range that is not empty.
RchrFindsLast ==
    \A off, n \in 0 .. MaxCap : \A ch \in Byte : check_len(cap, off, n) > 0 =>
        LET S == {p \in off .. Lesser(off + n, cap) - 1 : Flat[p] = ch}
            r == dynmem_rchr(off, n, ch)
        IN  IF S = {} THEN r = -1 ELSE r \in S /\ \A p \in S : p <= r

\* dynmem_equal compares exactly the bytes of the range.
EqualExact ==
    \A off \in 0 .. MaxCap : \A s \in Strings :
        dynmem_equal(off, Len(s), s) <=>
            /\ off < len /\ off + Len(s) <= len
            /\ \A i \in 1 .. Len(s) : Flat[off + i - 1] = s[i]

\* The offset of an address is its position, in the first page: behind it the
\* pages before are forgotten.
OffsetInFirstPage == \A off \in 0 .. cap - 1 :
    off < Page => dynmem_offset(dynmem_get(off)) = off

\* The searches and the comparison of dynmem.c cut their ranges at the pages in
\* three ways of their own, and all agree with the flat array; what is found
\* by its address has its place in the array, as far as dynmem_offset can tell.
SearchesExact == ChrFindsFirst /\ RchrFindsLast /\ EqualExact /\ OffsetInFirstPage

\* After dynmem_set_cap the capacity is the least number of pages that holds
\* what was asked for (the comment of the test: 7 bytes in pages of 4 are 8).
SetCapTight ==
    [][call'.op = "set_cap" => /\ call'.n <= cap' /\ cap' < call'.n + Page]_vars

\* dynmem_align leaves a whole page at the length: write_http_header prints
\* the first line of a reply to it without a further check.
AlignedPageIsWhole ==
    [][call'.op = "align" => (len' % Page) = 0 /\ len' + Page <= cap']_vars

\* The reads of a request, each of which fills the buffer it is given, follow
\* one another: from a length that ends a page dynmem_lastpage returns the
\* place of the next byte, and a whole page to fill.
LastPageAppendsAligned ==
    [][call'.op = "lastpage" /\ (len % Page) = 0 =>
          call'.ptr = Address(len) /\ call'.size = Page]_vars

\* The pages the callers of dynmem_set_cap, dynmem_align and dynmem_lastpage
\* rely on, after any operations before them: none too many, a whole one behind
\* an aligned length, and the one that holds the next byte.
PagesAsAsked == SetCapTight /\ AlignedPageIsWhole /\ LastPageAppendsAligned

FlatBufOf == INSTANCE FlatBuf WITH bytes <- Flat, used <- len

\* The pages implement the flat buffer of dynmem.h.
ImplementsFlat == FlatBufOf!FlatSpec
=============================================================================
