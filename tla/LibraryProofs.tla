---------------------------- MODULE LibraryProofs ----------------------------
(* What the library modules promise, for every value of their constants:    *)
(* the linked lists, the counted strings and blocks, the buffer of blocks,  *)
(* and the log.                                                             *)
EXTENDS ListHead, CountedStr, OldBuffer, LogFile, DataInduction

(***************************************************************************)
(*                              list.h                                     *)
(***************************************************************************)
Links == [next : [Cells -> Cells], prev : [Cells -> Cells]]

(* The i-th cell of the ring of s: the head before and behind its entries.  *)
Cell(s, i) == IF i \in 1 .. Len(s) THEN s[i] ELSE ListHeadNode

Distinct(s) == \A i, j \in 1 .. Len(s) : s[i] = s[j] => i = j

(* The links of the cells of the ring lead to their neighbours.             *)
Chain(l, s) ==
    /\ l \in Links /\ s \in Seq(Entries) /\ Distinct(s)
    /\ \A i \in 0 .. Len(s) :
           l.next[Cell(s, i)] = Cell(s, i + 1) /\ l.prev[Cell(s, i + 1)] = Cell(s, i)

ListInv == Chain(links, order)

LEMMA CellTypes ==
    /\ ListHeadNode \in Cells /\ Entries \subseteq Cells
    /\ \A e \in Entries : e # ListHeadNode
BY EntriesAssumption DEF Cells

LEMMA CellIn ==
    ASSUME NEW s \in Seq(Entries), NEW i \in Int
    PROVE  /\ Cell(s, i) \in Cells
           /\ i \in 1 .. Len(s) => Cell(s, i) = s[i] /\ Cell(s, i) \in Entries /\ Cell(s, i) # ListHeadNode
           /\ i \notin 1 .. Len(s) => Cell(s, i) = ListHeadNode
<1>1. i \in 1 .. Len(s) => s[i] \in Entries
  OBVIOUS
<1> QED
  BY <1>1, CellTypes DEF Cell

LEMMA CellDistinct ==
    ASSUME NEW s \in Seq(Entries), Distinct(s), NEW i \in 1 .. Len(s), NEW j \in Int,
           Cell(s, i) = Cell(s, j)
    PROVE  i = j
<1>1. i \in Int /\ Len(s) \in Nat
  OBVIOUS
<1>2. j \in 1 .. Len(s)
  BY <1>1, CellIn
<1> QED
  BY <1>1, <1>2, CellIn DEF Distinct

(***************************************************************************)
(* What the operations do to the links.                                    *)
(***************************************************************************)
\* The links m after one of them in l is set, and after each operation.
NextIs(l, c, d, m) ==
    /\ m \in Links /\ m.prev = l.prev
    /\ \A x \in Cells : m.next[x] = IF x = c THEN d ELSE l.next[x]

PrevIs(l, c, d, m) ==
    /\ m \in Links /\ m.next = l.next
    /\ \A x \in Cells : m.prev[x] = IF x = c THEN d ELSE l.prev[x]

AddIs(l, e, p, n, m) ==
    /\ m \in Links
    /\ \A x \in Cells :
           /\ m.next[x] = IF x = p THEN e ELSE IF x = e THEN n ELSE l.next[x]
           /\ m.prev[x] = IF x = n THEN e ELSE IF x = e THEN p ELSE l.prev[x]

DelIs(l, e, m) ==
    /\ m \in Links
    /\ \A x \in Cells : x # e =>
           /\ m.next[x] = IF x = l.prev[e] THEN l.next[e] ELSE l.next[x]
           /\ m.prev[x] = IF x = l.next[e] THEN l.prev[e] ELSE l.prev[x]

ReplaceIs(l, old, e, m) ==
    /\ m \in Links
    /\ \A x \in Cells :
           /\ m.next[x] = IF x = l.prev[old] THEN e ELSE IF x = e THEN l.next[old] ELSE l.next[x]
           /\ m.prev[x] = IF x = e THEN l.prev[old] ELSE IF x = l.next[old] THEN e ELSE l.prev[x]

LEMMA NextSet ==
    ASSUME NEW l \in Links, NEW c \in Cells, NEW d \in Cells
    PROVE  NextIs(l, c, d, SetNext(l, c, d))
<1>1. PICK f \in [Cells -> Cells] : f = [l.next EXCEPT ![c] = d]
  BY DEF Links
<1>2. SetNext(l, c, d) = [l EXCEPT !.next = f]
  BY <1>1 DEF SetNext
<1>3. \A x \in Cells : f[x] = IF x = c THEN d ELSE l.next[x]
  BY <1>1 DEF Links
<1> QED
  BY <1>2, <1>3 DEF Links, NextIs

LEMMA PrevSet ==
    ASSUME NEW l \in Links, NEW c \in Cells, NEW d \in Cells
    PROVE  PrevIs(l, c, d, SetPrev(l, c, d))
<1>1. PICK f \in [Cells -> Cells] : f = [l.prev EXCEPT ![c] = d]
  BY DEF Links
<1>2. SetPrev(l, c, d) = [l EXCEPT !.prev = f]
  BY <1>1 DEF SetPrev
<1>3. \A x \in Cells : f[x] = IF x = c THEN d ELSE l.prev[x]
  BY <1>1 DEF Links
<1> QED
  BY <1>2, <1>3 DEF Links, PrevIs

LEMMA LinksAfterAdd ==
    ASSUME NEW l \in Links, NEW e \in Cells, NEW p \in Cells, NEW n \in Cells, e # p, e # n
    PROVE  AddIs(l, e, p, n, __list_add(l, e, p, n))
<1>1. PICK l1 : l1 = SetPrev(l, n, e)
  OBVIOUS
<1>2. PICK l2 : l2 = SetNext(l1, e, n)
  OBVIOUS
<1>3. PICK l3 : l3 = SetPrev(l2, e, p)
  OBVIOUS
<1>4. PICK l4 : l4 = SetNext(l3, p, e)
  OBVIOUS
<1>5. PrevIs(l, n, e, l1)
  BY <1>1, PrevSet
<1>6. NextIs(l1, e, n, l2)
  BY <1>2, <1>5, NextSet DEF PrevIs
<1>7. PrevIs(l2, e, p, l3)
  BY <1>3, <1>6, PrevSet DEF NextIs
<1>8. NextIs(l3, p, e, l4)
  BY <1>4, <1>7, NextSet DEF PrevIs
<1>9. l4 = __list_add(l, e, p, n)
  BY <1>1, <1>2, <1>3, <1>4 DEF __list_add
<1>10. AddIs(l, e, p, n, l4)
  BY <1>5, <1>6, <1>7, <1>8 DEF AddIs, NextIs, PrevIs
<1> QED
  BY <1>9, <1>10

\* list_del leaves the links of the entry, list_del_init leads them to itself.
LEMMA LinksAfterDel ==
    ASSUME NEW l \in Links, NEW e \in Cells
    PROVE  DelIs(l, e, list_del(l, e)) /\ DelIs(l, e, list_del_init(l, e))
<1>1. PICK n \in Cells : n = l.next[e]
  BY DEF Links
<1>2. PICK p \in Cells : p = l.prev[e]
  BY DEF Links
<1>3. PICK l1 : l1 = SetPrev(l, n, p)
  OBVIOUS
<1>4. PICK l2 : l2 = SetNext(l1, p, n)
  OBVIOUS
<1>5. PrevIs(l, n, p, l1)
  BY <1>3, PrevSet
<1>6. NextIs(l1, p, n, l2)
  BY <1>4, <1>5, NextSet DEF PrevIs
<1>7. l2 = list_del(l, e)
  BY <1>1, <1>2, <1>3, <1>4 DEF list_del, __list_del
<1>8. DelIs(l, e, l2)
  BY <1>1, <1>2, <1>5, <1>6 DEF DelIs, NextIs, PrevIs
<1>9. PICK l3 : l3 = SetNext(l2, e, e)
  OBVIOUS
<1>10. PICK l4 : l4 = SetPrev(l3, e, e)
  OBVIOUS
<1>11. NextIs(l2, e, e, l3)
  <2>1. l2 \in Links
    BY <1>6 DEF NextIs
  <2> QED
    BY <1>9, <2>1, NextSet
<1>12. PrevIs(l3, e, e, l4)
  BY <1>10, <1>11, PrevSet DEF NextIs
<1>13. l4 = list_del_init(l, e)
  BY <1>7, <1>9, <1>10 DEF list_del_init, list_head_init
<1>14. DelIs(l, e, l4)
  BY <1>8, <1>11, <1>12 DEF DelIs, NextIs, PrevIs
<1> QED
  BY <1>7, <1>8, <1>13, <1>14

LEMMA LinksAfterReplace ==
    ASSUME NEW l \in Links, NEW old \in Cells, NEW e \in Cells,
           e # old, l.next[old] # e, l.prev[old] # e, l.next[old] # old, l.prev[old] # old
    PROVE  ReplaceIs(l, old, e, list_replace(l, old, e))
<1>1. PICK n \in Cells : n = l.next[old]
  BY DEF Links
<1>2. PICK p \in Cells : p = l.prev[old]
  BY DEF Links
<1>3. PICK l1 : l1 = SetNext(l, e, n)
  OBVIOUS
<1>4. NextIs(l, e, n, l1)
  BY <1>3, NextSet
<1>5. PICK l2 : l2 = SetPrev(l1, n, e)
  OBVIOUS
<1>6. PrevIs(l1, n, e, l2)
  BY <1>4, <1>5, PrevSet DEF NextIs
<1>7. PICK l3 : l3 = SetPrev(l2, e, p)
  OBVIOUS
<1>8. PrevIs(l2, e, p, l3)
  <2>1. l2 \in Links
    BY <1>6 DEF PrevIs
  <2> QED
    BY <1>7, <2>1, PrevSet
<1>9. PICK l4 : l4 = SetNext(l3, p, e)
  OBVIOUS
<1>10. NextIs(l3, p, e, l4)
  BY <1>8, <1>9, NextSet DEF PrevIs
<1>11. l1.next[e] = n /\ l3.prev[e] = p
  BY <1>4, <1>8 DEF NextIs, PrevIs
<1>12. l4 = list_replace(l, old, e)
  BY <1>1, <1>2, <1>3, <1>5, <1>7, <1>9, <1>11 DEF list_replace
<1>13. ReplaceIs(l, old, e, l4)
  BY <1>1, <1>2, <1>4, <1>6, <1>8, <1>10 DEF ReplaceIs, NextIs, PrevIs
<1> QED
  BY <1>12, <1>13

(***************************************************************************)
(* What they do to the ring.                                               *)
(***************************************************************************)
\* t is s with e behind its first k entries.
Inserted(s, k, e, t) ==
    /\ Len(t) = Len(s) + 1
    /\ \A i \in 1 .. Len(t) : t[i] = IF i <= k THEN s[i] ELSE IF i = k + 1 THEN e ELSE s[i - 1]

LEMMA ChainInsert ==
    ASSUME NEW l, NEW s, Chain(l, s), NEW e \in Entries, \A i \in 1 .. Len(s) : s[i] # e,
           NEW k \in 0 .. Len(s), NEW t \in Seq(Entries), Inserted(s, k, e, t)
    PROVE  Chain(__list_add(l, e, Cell(s, k), Cell(s, k + 1)), t)
<1>1. /\ l \in Links /\ s \in Seq(Entries) /\ Distinct(s) /\ Len(s) \in Nat /\ k \in Int /\ k + 1 \in Int
      /\ \A i \in 0 .. Len(s) :
           l.next[Cell(s, i)] = Cell(s, i + 1) /\ l.prev[Cell(s, i + 1)] = Cell(s, i)
  BY DEF Chain
<1>2. \A i \in Int : Cell(s, i) \in Cells /\ Cell(s, i) # e
  <2> TAKE i \in Int
  <2>1. CASE i \in 1 .. Len(s)
    BY <1>1, <2>1, CellIn
  <2>2. CASE i \notin 1 .. Len(s)
    BY <1>1, <2>2, CellIn, CellTypes
  <2> QED
    BY <2>1, <2>2
<1>3. PICK p \in Cells : p = Cell(s, k)
  BY <1>1, <1>2
<1>4. PICK n \in Cells : n = Cell(s, k + 1)
  BY <1>1, <1>2
<1>5. e \in Cells /\ e # p /\ e # n
  BY <1>1, <1>2, <1>3, <1>4, CellTypes
<1>6. PICK m : m = __list_add(l, e, p, n)
  OBVIOUS
<1>7. /\ m \in Links
      /\ \A x \in Cells : /\ m.next[x] = IF x = p THEN e ELSE IF x = e THEN n ELSE l.next[x]
                          /\ m.prev[x] = IF x = n THEN e ELSE IF x = e THEN p ELSE l.prev[x]
  <2>1. AddIs(l, e, p, n, m)
    BY <1>1, <1>5, <1>6, LinksAfterAdd
  <2> QED
    BY <2>1 DEF AddIs
<1>8. \A i \in 0 .. Len(t) + 1 :
          Cell(t, i) = IF i <= k THEN Cell(s, i) ELSE IF i = k + 1 THEN e ELSE Cell(s, i - 1)
  BY <1>1 DEF Cell, Inserted
<1>9. Distinct(t)
  <2> SUFFICES ASSUME NEW i \in 1 .. Len(t), NEW j \in 1 .. Len(t), t[i] = t[j] PROVE i = j
    BY DEF Distinct
  <2> DEFINE was(x) == IF x <= k THEN x ELSE x - 1
  <2>1. \A x \in 1 .. Len(t) : x # k + 1 => was(x) \in 1 .. Len(s) /\ t[x] = s[was(x)]
    BY <1>1 DEF Inserted
  <2>2. \A x \in 1 .. Len(t) : t[x] = e <=> x = k + 1
    BY <2>1 DEF Inserted
  <2>3. CASE i = k + 1 \/ j = k + 1
    BY <2>2, <2>3
  <2>4. CASE i # k + 1 /\ j # k + 1
    <3>1. was(i) \in 1 .. Len(s) /\ was(j) \in 1 .. Len(s) /\ s[was(i)] = s[was(j)]
      <4> HIDE DEF was
      <4> QED
        BY <2>1, <2>4
    <3>2. was(i) = was(j)
      <4> HIDE DEF was
      <4> QED
        BY <1>1, <3>1 DEF Distinct
    <3> QED
      BY <1>1, <2>4, <3>2
  <2> QED
    BY <2>3, <2>4
\* Only the cell before and the cell behind are changed.
<1>10. \A i \in 0 .. Len(s) : i # k => Cell(s, i) # p
  <2> TAKE i \in 0 .. Len(s)
  <2>1. CASE i # 0
    BY <1>1, <1>3, <2>1, CellDistinct
  <2>2. CASE i = 0 /\ k # 0
    BY <1>1, <1>3, <2>2, CellDistinct
  <2> QED
    BY <2>1, <2>2
<1>11. \A i \in 1 .. Len(s) + 1 : i # k + 1 => Cell(s, i) # n
  <2> TAKE i \in 1 .. Len(s) + 1
  <2>1. CASE i # Len(s) + 1
    BY <1>1, <1>4, <2>1, CellDistinct
  <2>2. CASE i = Len(s) + 1 /\ k + 1 # Len(s) + 1
    <3>1. k + 1 \in 1 .. Len(s)
      BY <1>1, <2>2
    <3> QED
      BY <1>1, <1>4, <2>2, <3>1, CellDistinct
  <2> QED
    BY <2>1, <2>2
<1>12. ASSUME NEW i \in 0 .. Len(t)
       PROVE  m.next[Cell(t, i)] = Cell(t, i + 1) /\ m.prev[Cell(t, i + 1)] = Cell(t, i)
  <2>0. Len(t) = Len(s) + 1 /\ i \in 0 .. Len(t) + 1 /\ i + 1 \in 0 .. Len(t) + 1
    BY <1>1 DEF Inserted
  <2>1. CASE i < k
    <3>1. i \in 0 .. Len(s) /\ i # k /\ i + 1 \in 1 .. Len(s) + 1 /\ i + 1 # k + 1 /\ i <= k /\ i + 1 <= k
      BY <1>1, <2>1
    <3>2. Cell(t, i) = Cell(s, i) /\ Cell(t, i + 1) = Cell(s, i + 1)
      BY <1>8, <2>0, <3>1
    <3> QED
      BY <1>1, <1>2, <1>7, <1>10, <1>11, <3>1, <3>2
  <2>2. CASE i = k
    <3>1. Cell(t, i) = p /\ Cell(t, i + 1) = e
      BY <1>1, <1>3, <1>8, <2>0, <2>2
    <3> QED
      BY <1>5, <1>7, <3>1
  <2>3. CASE i = k + 1
    <3>1. Cell(t, i) = e /\ Cell(t, i + 1) = n
      <4>1. (i + 1) - 1 = k + 1 /\ ~(i + 1 <= k) /\ i + 1 # k + 1 /\ ~(i <= k)
        BY <1>1, <2>3
      <4> QED
        BY <1>4, <1>8, <2>0, <2>3, <4>1
    <3> QED
      BY <1>5, <1>7, <3>1
  <2>4. CASE i > k + 1
    <3>1. PICK j \in 0 .. Len(s) : j = i - 1
      BY <1>1, <2>0, <2>4
    <3>2. Cell(t, i) = Cell(s, j) /\ Cell(t, i + 1) = Cell(s, j + 1)
      <4>1. (i + 1) - 1 = j + 1 /\ ~(i + 1 <= k) /\ i + 1 # k + 1 /\ ~(i <= k) /\ i # k + 1
        BY <1>1, <2>4, <3>1
      <4> QED
        BY <1>8, <2>0, <3>1, <4>1
    <3>3. j # k /\ j + 1 # k + 1 /\ j + 1 \in 1 .. Len(s) + 1
      BY <1>1, <2>4, <3>1
    <3> QED
      BY <1>1, <1>2, <1>7, <1>10, <1>11, <3>1, <3>2, <3>3
  <2> QED
    BY <1>1, <2>1, <2>2, <2>3, <2>4
<1>13. Chain(m, t)
  BY <1>7, <1>9, <1>12 DEF Chain
<1> QED
  BY <1>3, <1>4, <1>6, <1>13

\* t is s without its k-th entry.
Shortened(s, k, t) ==
    /\ Len(t) = Len(s) - 1
    /\ \A i \in 1 .. Len(t) : t[i] = IF i < k THEN s[i] ELSE s[i + 1]

LEMMA ChainDelete ==
    ASSUME NEW l, NEW s, Chain(l, s), NEW k \in 1 .. Len(s), NEW t \in Seq(Entries),
           Shortened(s, k, t), NEW m, DelIs(l, s[k], m)
    PROVE  Chain(m, t)
<1>1. /\ l \in Links /\ s \in Seq(Entries) /\ Distinct(s) /\ Len(s) \in Nat /\ k \in Int
      /\ \A i \in 0 .. Len(s) :
           l.next[Cell(s, i)] = Cell(s, i + 1) /\ l.prev[Cell(s, i + 1)] = Cell(s, i)
  BY DEF Chain
<1>2. PICK e \in Entries : e = s[k]
  BY <1>1
<1>3. PICK p : p = Cell(s, k - 1)
  OBVIOUS
<1>4. PICK n : n = Cell(s, k + 1)
  OBVIOUS
<1>5. \A i \in Int : Cell(s, i) \in Cells
  BY <1>1, CellIn
<1>6. l.next[e] = n /\ l.prev[e] = p /\ Cell(s, k) = e
  <2>1. Cell(s, k) = e /\ k \in 0 .. Len(s) /\ k - 1 \in 0 .. Len(s) /\ (k - 1) + 1 = k
    BY <1>1, <1>2, CellIn
  <2> QED
    BY <1>1, <1>3, <1>4, <2>1
<1>7. /\ m \in Links
      /\ \A x \in Cells : x # e => /\ m.next[x] = IF x = p THEN n ELSE l.next[x]
                                   /\ m.prev[x] = IF x = n THEN p ELSE l.prev[x]
  BY <1>2, <1>6 DEF DelIs
<1>8. \A i \in 0 .. Len(t) + 1 : Cell(t, i) = IF i < k THEN Cell(s, i) ELSE Cell(s, i + 1)
  BY <1>1 DEF Cell, Shortened
<1>9. \A i \in 0 .. Len(s) + 1 : i # k => Cell(s, i) # e
  BY <1>1, <1>6, CellDistinct
<1>10. \A i \in 0 .. Len(s) : i # k - 1 => Cell(s, i) # p
  <2> TAKE i \in 0 .. Len(s)
  <2>1. CASE i # 0
    BY <1>1, <1>3, <2>1, CellDistinct
  <2>2. CASE i = 0 /\ k - 1 # 0
    <3>1. k - 1 \in 1 .. Len(s)
      BY <1>1, <2>2
    <3> QED
      BY <1>1, <1>3, <2>2, <3>1, CellDistinct
  <2> QED
    BY <2>1, <2>2
<1>11. \A i \in 1 .. Len(s) + 1 : i # k + 1 => Cell(s, i) # n
  <2> TAKE i \in 1 .. Len(s) + 1
  <2>1. CASE i # Len(s) + 1
    BY <1>1, <1>4, <2>1, CellDistinct
  <2>2. CASE i = Len(s) + 1 /\ k + 1 # Len(s) + 1
    <3>1. k + 1 \in 1 .. Len(s)
      BY <1>1, <2>2
    <3> QED
      BY <1>1, <1>4, <2>2, <3>1, CellDistinct
  <2> QED
    BY <2>1, <2>2
<1>12. Distinct(t)
  <2> SUFFICES ASSUME NEW i \in 1 .. Len(t), NEW j \in 1 .. Len(t), t[i] = t[j] PROVE i = j
    BY DEF Distinct
  <2> DEFINE was(x) == IF x < k THEN x ELSE x + 1
  <2>1. \A x \in 1 .. Len(t) : was(x) \in 1 .. Len(s) /\ t[x] = s[was(x)]
    <3> TAKE x \in 1 .. Len(t)
    <3>1. Len(t) = Len(s) - 1 /\ t[x] = IF x < k THEN s[x] ELSE s[x + 1]
      BY DEF Shortened
    <3>2. CASE x < k
      BY <1>1, <3>1, <3>2
    <3>3. CASE ~(x < k)
      BY <1>1, <3>1, <3>3
    <3> QED
      BY <3>2, <3>3
  <2>2. was(i) = was(j)
    <3>1. was(i) \in 1 .. Len(s) /\ was(j) \in 1 .. Len(s) /\ s[was(i)] = s[was(j)]
      <4> HIDE DEF was
      <4> QED
        BY <2>1
    <3> HIDE DEF was
    <3> QED
      BY <1>1, <3>1 DEF Distinct
  <2> QED
    BY <1>1, <2>2
<1>13. ASSUME NEW i \in 0 .. Len(t)
       PROVE  m.next[Cell(t, i)] = Cell(t, i + 1) /\ m.prev[Cell(t, i + 1)] = Cell(t, i)
  <2>0. Len(t) = Len(s) - 1 /\ i \in 0 .. Len(t) + 1 /\ i + 1 \in 0 .. Len(t) + 1
    BY <1>1 DEF Shortened
  <2>1. CASE i < k - 1
    <3>1. i \in 0 .. Len(s) /\ i + 1 \in 1 .. Len(s) + 1 /\ i < k /\ i + 1 < k
          /\ i # k /\ i + 1 # k /\ i + 1 # k + 1 /\ i # k - 1 /\ i + 1 \in 0 .. Len(s) + 1
          /\ i \in 0 .. Len(s) + 1
      BY <1>1, <2>0, <2>1
    <3>2. Cell(t, i) = Cell(s, i) /\ Cell(t, i + 1) = Cell(s, i + 1)
      BY <1>8, <2>0, <3>1
    <3> QED
      BY <1>1, <1>5, <1>7, <1>9, <1>10, <1>11, <3>1, <3>2
  <2>2. CASE i = k - 1
    <3>1. Cell(t, i) = p /\ Cell(t, i + 1) = n /\ p # e /\ n # e /\ p \in Cells /\ n \in Cells
      <4>1. i < k /\ ~(i + 1 < k) /\ (i + 1) + 1 = k + 1 /\ k - 1 \in 0 .. Len(s) + 1
            /\ k + 1 \in 0 .. Len(s) + 1 /\ k - 1 # k /\ k + 1 # k /\ k + 1 \in Int /\ k - 1 \in Int
        BY <1>1, <2>2
      <4>2. Cell(t, i) = p /\ Cell(t, i + 1) = n
        BY <1>3, <1>4, <1>8, <2>0, <2>2, <4>1
      <4> QED
        BY <1>3, <1>4, <1>5, <1>9, <4>1, <4>2
    <3> QED
      BY <1>7, <3>1
  <2>3. CASE i > k - 1
    <3>1. PICK j \in 0 .. Len(s) : j = i + 1
      BY <1>1, <2>0, <2>3
    <3>2. Cell(t, i) = Cell(s, j) /\ Cell(t, i + 1) = Cell(s, j + 1)
      <4>1. (i + 1) + 1 = j + 1 /\ ~(i + 1 < k) /\ ~(i < k)
        BY <1>1, <2>3, <3>1
      <4> QED
        BY <1>8, <2>0, <3>1, <4>1
    <3>3. j # k /\ j # k - 1 /\ j + 1 # k /\ j + 1 # k + 1 /\ j + 1 \in 1 .. Len(s) + 1
          /\ j \in 0 .. Len(s) + 1 /\ j + 1 \in 0 .. Len(s) + 1 /\ j \in Int /\ j + 1 \in Int
      BY <1>1, <2>3, <3>1
    <3> QED
      BY <1>1, <1>5, <1>7, <1>9, <1>10, <1>11, <3>1, <3>2, <3>3
  <2> QED
    BY <1>1, <2>1, <2>2, <2>3
<1> QED
  BY <1>7, <1>12, <1>13 DEF Chain

LEMMA ChainReplace ==
    ASSUME NEW l, NEW s, Chain(l, s), NEW k \in 1 .. Len(s), NEW e \in Entries,
           \A i \in 1 .. Len(s) : s[i] # e,
           NEW t \in Seq(Entries), Len(t) = Len(s),
           \A i \in 1 .. Len(s) : t[i] = IF i = k THEN e ELSE s[i]
    PROVE  Chain(list_replace(l, s[k], e), t)
<1>1. /\ l \in Links /\ s \in Seq(Entries) /\ Distinct(s) /\ Len(s) \in Nat /\ k \in Int
      /\ \A i \in 0 .. Len(s) :
           l.next[Cell(s, i)] = Cell(s, i + 1) /\ l.prev[Cell(s, i + 1)] = Cell(s, i)
  BY DEF Chain
<1>2. PICK old \in Entries : old = s[k]
  BY <1>1
<1>3. PICK p : p = Cell(s, k - 1)
  OBVIOUS
<1>4. PICK n : n = Cell(s, k + 1)
  OBVIOUS
<1>5. \A i \in Int : Cell(s, i) \in Cells /\ Cell(s, i) # e
  <2> TAKE i \in Int
  <2>1. CASE i \in 1 .. Len(s)
    BY <1>1, <2>1, CellIn
  <2>2. CASE i \notin 1 .. Len(s)
    BY <1>1, <2>2, CellIn, CellTypes
  <2> QED
    BY <2>1, <2>2
<1>6. l.next[old] = n /\ l.prev[old] = p /\ Cell(s, k) = old
  <2>1. Cell(s, k) = old /\ k \in 0 .. Len(s) /\ k - 1 \in 0 .. Len(s) /\ (k - 1) + 1 = k
    BY <1>1, <1>2, CellIn
  <2> QED
    BY <1>1, <1>3, <1>4, <2>1
<1>7. \A i \in 0 .. Len(s) + 1 : i # k => Cell(s, i) # old
  BY <1>1, <1>6, CellDistinct
<1>8. /\ old \in Cells /\ e \in Cells /\ e # old /\ n # e /\ p # e /\ n # old /\ p # old
      /\ p \in Cells /\ n \in Cells
  <2>1. k - 1 \in 0 .. Len(s) + 1 /\ k + 1 \in 0 .. Len(s) + 1 /\ k - 1 # k /\ k + 1 # k
        /\ k - 1 \in Int /\ k + 1 \in Int
    BY <1>1
  <2>2. e # old
    BY <1>2
  <2> QED
    BY <1>3, <1>4, <1>5, <1>7, <2>1, <2>2, CellTypes
<1>9. PICK m : m = list_replace(l, old, e)
  OBVIOUS
<1>10. ReplaceIs(l, old, e, m)
  BY <1>1, <1>6, <1>8, <1>9, LinksAfterReplace
<1>11. /\ m \in Links
       /\ \A x \in Cells :
              /\ m.next[x] = IF x = p THEN e ELSE IF x = e THEN n ELSE l.next[x]
              /\ m.prev[x] = IF x = e THEN p ELSE IF x = n THEN e ELSE l.prev[x]
  BY <1>6, <1>10 DEF ReplaceIs
<1>12. \A i \in 0 .. Len(s) + 1 : Cell(t, i) = IF i = k THEN e ELSE Cell(s, i)
  BY <1>1 DEF Cell
<1>13. \A i \in 0 .. Len(s) : i # k - 1 => Cell(s, i) # p
  <2> TAKE i \in 0 .. Len(s)
  <2>1. CASE i # 0
    BY <1>1, <1>3, <2>1, CellDistinct
  <2>2. CASE i = 0 /\ k - 1 # 0
    <3>1. k - 1 \in 1 .. Len(s)
      BY <1>1, <2>2
    <3> QED
      BY <1>1, <1>3, <2>2, <3>1, CellDistinct
  <2> QED
    BY <2>1, <2>2
<1>14. \A i \in 1 .. Len(s) + 1 : i # k + 1 => Cell(s, i) # n
  <2> TAKE i \in 1 .. Len(s) + 1
  <2>1. CASE i # Len(s) + 1
    BY <1>1, <1>4, <2>1, CellDistinct
  <2>2. CASE i = Len(s) + 1 /\ k + 1 # Len(s) + 1
    <3>1. k + 1 \in 1 .. Len(s)
      BY <1>1, <2>2
    <3> QED
      BY <1>1, <1>4, <2>2, <3>1, CellDistinct
  <2> QED
    BY <2>1, <2>2
<1>15. Distinct(t)
  BY <1>1 DEF Distinct
<1>16. ASSUME NEW i \in 0 .. Len(t)
       PROVE  m.next[Cell(t, i)] = Cell(t, i + 1) /\ m.prev[Cell(t, i + 1)] = Cell(t, i)
  <2>0. i \in 0 .. Len(s) + 1 /\ i + 1 \in 0 .. Len(s) + 1 /\ i + 1 \in 1 .. Len(s) + 1
        /\ i \in Int /\ i + 1 \in Int /\ i \in 0 .. Len(s)
    BY <1>1
  <2>1. CASE i = k
    <3>1. Cell(t, i) = e /\ Cell(t, i + 1) = n
      BY <1>1, <1>4, <1>12, <2>0, <2>1
    <3> QED
      BY <1>8, <1>11, <3>1
  <2>2. CASE i = k - 1
    <3>1. Cell(t, i) = p /\ Cell(t, i + 1) = e
      BY <1>1, <1>3, <1>12, <2>0, <2>2
    <3> QED
      BY <1>8, <1>11, <3>1
  <2>3. CASE i # k /\ i # k - 1
    <3>1. Cell(t, i) = Cell(s, i) /\ Cell(t, i + 1) = Cell(s, i + 1) /\ i + 1 # k + 1
      BY <1>1, <1>12, <2>0, <2>3
    <3> QED
      BY <1>1, <1>5, <1>11, <1>13, <1>14, <2>0, <2>3, <3>1
  <2> QED
    BY <2>1, <2>2, <2>3
<1>17. Chain(m, t)
  BY <1>11, <1>15, <1>16 DEF Chain
<1> QED
  BY <1>2, <1>9, <1>17

(***************************************************************************)
(* What the loops visit.                                                   *)
(***************************************************************************)
LEMMA VisitedSteps ==
    ASSUME NEW l \in Links, NEW c \in Cells, NEW way \in {"next", "prev"}
    PROVE  /\ Visited(l, c, way, 0) = c
           /\ \A n \in Nat : /\ Visited(l, c, way, n) \in Cells
                             /\ Visited(l, c, way, n + 1) = Follow(l, Visited(l, c, way, n), way)
<1> DEFINE G(g) == g = [k \in Nat |-> IF k = 0 THEN c ELSE Follow(l, g[k - 1], way)]
           pos == CHOOSE g : G(g)
           s == [x \in Nat \X Cells |-> Follow(l, x[2], way)]
<1>1. \A x \in Cells : Follow(l, x, way) \in Cells
  BY DEF Links, Follow
<1>2. s \in [Nat \X Cells -> Cells]
  BY <1>1
<1>3. PICK g \in [Nat -> Cells] : g = Repeated(s, c, g)
  <2> HIDE DEF s
  <2> QED
    BY <1>2, RepeatedExists
<1>4. \A k \in Nat : g[k] = IF k = 0 THEN c ELSE s[<<k, g[k - 1]>>]
  <2> HIDE DEF s
  <2> QED
    BY <1>3 DEF Repeated
<1>5. \A k \in Nat : g[k] = IF k = 0 THEN c ELSE Follow(l, g[k - 1], way)
  <2> TAKE k \in Nat
  <2>1. CASE k = 0
    BY <1>4, <2>1
  <2>2. CASE k # 0
    <3>1. k - 1 \in Nat /\ g[k - 1] \in Cells
      BY <1>3, <2>2
    <3>2. s[<<k, g[k - 1]>>] = Follow(l, g[k - 1], way)
      BY <3>1
    <3> QED
      BY <1>4, <2>2, <3>2
  <2> QED
    BY <2>1, <2>2
<1>6. G(g)
  <2>1. g = [k \in Nat |-> g[k]]
    BY <1>3
  <2> QED
    BY <1>5, <2>1
<1>7. G(pos)
  <2> HIDE DEF G
  <2> QED
    BY <1>6
<1>8. \A n : Visited(l, c, way, n) = pos[n]
  BY DEF Visited
<1> HIDE DEF pos
<1>9. pos[0] = c /\ \A n \in Nat : pos[n + 1] = Follow(l, pos[n], way)
  BY <1>7
<1> DEFINE A == {n \in Nat : pos[n] \in Cells}
<1>10. 0 \in A /\ \A n \in Nat : n \in A => n + 1 \in A
  BY <1>1, <1>9
<1>11. \A n \in Nat : n \in A
  <2> HIDE DEF A
  <2> QED
    BY <1>10, NatSetInduction
<1> QED
  BY <1>8, <1>9, <1>11

\* A loop along the links visits the ring.
LEMMA ChainVisited ==
    ASSUME NEW l, NEW s, Chain(l, s)
    PROVE  Visits(l, list_first(l), "next", s) /\ Visits(l, list_last(l), "prev", Reverse(s))
<1>1. /\ l \in Links /\ s \in Seq(Entries) /\ Len(s) \in Nat
      /\ \A i \in 0 .. Len(s) :
           l.next[Cell(s, i)] = Cell(s, i + 1) /\ l.prev[Cell(s, i + 1)] = Cell(s, i)
  BY DEF Chain
<1>2. /\ list_first(l) = Cell(s, 1) /\ list_last(l) = Cell(s, Len(s))
      /\ list_first(l) \in Cells /\ list_last(l) \in Cells
  <2>1. Cell(s, 0) = ListHeadNode /\ Cell(s, Len(s) + 1) = ListHeadNode /\ 0 + 1 = 1
    BY <1>1 DEF Cell
  <2>2. 0 \in 0 .. Len(s) /\ Len(s) \in 0 .. Len(s) /\ 1 \in Int /\ Len(s) \in Int
    BY <1>1
  <2>3. l.next[Cell(s, 0)] = Cell(s, 1) /\ l.prev[Cell(s, Len(s) + 1)] = Cell(s, Len(s))
    BY <1>1, <2>1, <2>2
  <2> QED
    BY <1>1, <2>1, <2>2, <2>3, CellIn DEF list_first, list_last
<1>3. PICK f : f = list_first(l)
  OBVIOUS
<1>4. PICK b : b = list_last(l)
  OBVIOUS
<1>5. \A x \in Cells : Follow(l, x, "next") = l.next[x] /\ Follow(l, x, "prev") = l.prev[x]
  BY DEF Follow
<1> DEFINE F == {n \in Nat : n <= Len(s) => Visited(l, f, "next", n) = Cell(s, n + 1)}
           B == {n \in Nat : n <= Len(s) => Visited(l, b, "prev", n) = Cell(s, Len(s) - n)}
<1>6. Visited(l, f, "next", 0) = Cell(s, 1) /\ Visited(l, b, "prev", 0) = Cell(s, Len(s))
  BY <1>1, <1>2, <1>3, <1>4, VisitedSteps
<1>7. 0 \in F /\ 0 \in B
  <2>1. 0 + 1 = 1 /\ Len(s) - 0 = Len(s)
    BY <1>1
  <2> QED
    BY <1>6, <2>1
<1>8. \A n \in Nat : n \in F => n + 1 \in F
  <2> SUFFICES ASSUME NEW n \in Nat, n \in F, n + 1 <= Len(s)
               PROVE  Visited(l, f, "next", n + 1) = Cell(s, (n + 1) + 1)
    OBVIOUS
  <2>1. Visited(l, f, "next", n + 1) = Follow(l, Visited(l, f, "next", n), "next")
        /\ Visited(l, f, "next", n) \in Cells
    BY <1>1, <1>2, <1>3, VisitedSteps
  <2>2. n <= Len(s) /\ n + 1 \in 0 .. Len(s)
    BY <1>1
  <2>3. Visited(l, f, "next", n) = Cell(s, n + 1)
    BY <2>2
  <2> QED
    BY <1>1, <1>5, <2>1, <2>2, <2>3
<1>9. \A n \in Nat : n \in B => n + 1 \in B
  <2> SUFFICES ASSUME NEW n \in Nat, n \in B, n + 1 <= Len(s)
               PROVE  Visited(l, b, "prev", n + 1) = Cell(s, Len(s) - (n + 1))
    OBVIOUS
  <2>1. Visited(l, b, "prev", n + 1) = Follow(l, Visited(l, b, "prev", n), "prev")
        /\ Visited(l, b, "prev", n) \in Cells
    BY <1>1, <1>2, <1>4, VisitedSteps
  <2>2. n <= Len(s) /\ Len(s) - (n + 1) \in 0 .. Len(s) /\ (Len(s) - (n + 1)) + 1 = Len(s) - n
    BY <1>1
  <2>3. Visited(l, b, "prev", n) = Cell(s, Len(s) - n)
    BY <2>2
  <2> QED
    BY <1>1, <1>5, <2>1, <2>2, <2>3
<1>10. \A n \in Nat : n \in F /\ n \in B
  <2> HIDE DEF F, B
  <2> QED
    BY <1>7, <1>8, <1>9, NatSetInduction
<1>11. ASSUME NEW n \in 0 .. Len(s)
       PROVE  Visited(l, f, "next", n) = IF n < Len(s) THEN s[n + 1] ELSE ListHeadNode
  <2>1. Visited(l, f, "next", n) = Cell(s, n + 1) /\ n + 1 \in Int
    BY <1>1, <1>10
  <2>2. n < Len(s) <=> n + 1 \in 1 .. Len(s)
    BY <1>1
  <2> QED
    BY <2>1, <2>2 DEF Cell
<1>12. Len(Reverse(s)) = Len(s) /\ \A i \in 1 .. Len(s) : Reverse(s)[i] = s[(Len(s) - i) + 1]
  BY <1>1 DEF Reverse
<1>13. ASSUME NEW n \in 0 .. Len(s)
       PROVE  Visited(l, b, "prev", n) = IF n < Len(s) THEN Reverse(s)[n + 1] ELSE ListHeadNode
  <2>1. Visited(l, b, "prev", n) = Cell(s, Len(s) - n) /\ Len(s) - n \in Int
    BY <1>1, <1>10
  <2>2. n < Len(s) <=> Len(s) - n \in 1 .. Len(s)
    BY <1>1
  <2>3. n < Len(s) => Reverse(s)[n + 1] = s[Len(s) - n]
    <3>1. n < Len(s) => n + 1 \in 1 .. Len(s) /\ (Len(s) - (n + 1)) + 1 = Len(s) - n
      BY <1>1
    <3> QED
      BY <1>12, <3>1
  <2> QED
    BY <2>1, <2>2, <2>3 DEF Cell
<1> QED
  BY <1>3, <1>4, <1>11, <1>12, <1>13 DEF Visits

\* The sequence without the entries that are gone, entry by entry.
KeptSteps(s, gone, kept) ==
    /\ kept[0] = <<>> /\ \A i \in 0 .. Len(s) : kept[i] \in Seq(Entries)
    /\ \A i \in 1 .. Len(s) :
           kept[i] = IF s[i] \in gone THEN kept[i - 1] ELSE Append(kept[i - 1], s[i])
    /\ Without(s, gone) = kept[Len(s)]

LEMMA WithoutSteps ==
    ASSUME NEW s \in Seq(Entries), NEW gone
    PROVE  \E kept : KeptSteps(s, gone, kept)
<1> DEFINE T == {s[i] : i \in Nat}
           G(g) == g = [i \in Nat |-> IF i = 0 THEN <<>>
                                      ELSE IF s[i] \in gone THEN g[i - 1] ELSE Append(g[i - 1], s[i])]
           kept == CHOOSE g : G(g)
           f == [x \in Nat \X Seq(T) |-> IF s[x[1]] \in gone THEN x[2] ELSE Append(x[2], s[x[1]])]
<1>1. f \in [Nat \X Seq(T) -> Seq(T)]
  <2>1. \A i \in Nat : s[i] \in T
    OBVIOUS
  <2> HIDE DEF T
  <2>2. \A i \in Nat, q \in Seq(T) : (IF s[i] \in gone THEN q ELSE Append(q, s[i])) \in Seq(T)
    BY <2>1
  <2> QED
    BY <2>2
<1>2. PICK g \in [Nat -> Seq(T)] : g = Repeated(f, <<>>, g)
  <2>1. <<>> \in Seq(T)
    OBVIOUS
  <2> HIDE DEF f, T
  <2> QED
    BY <1>1, <2>1, RepeatedExists
<1>3. \A i \in Nat : g[i] = IF i = 0 THEN <<>> ELSE f[<<i, g[i - 1]>>]
  <2> HIDE DEF f
  <2> QED
    BY <1>2 DEF Repeated
<1>4. \A i \in Nat : g[i] = IF i = 0 THEN <<>>
                            ELSE IF s[i] \in gone THEN g[i - 1] ELSE Append(g[i - 1], s[i])
  <2> TAKE i \in Nat
  <2>1. CASE i = 0
    BY <1>3, <2>1
  <2>2. CASE i # 0
    <3>1. i - 1 \in Nat /\ g[i - 1] \in Seq(T)
      BY <1>2, <2>2
    <3>2. f[<<i, g[i - 1]>>] = IF s[i] \in gone THEN g[i - 1] ELSE Append(g[i - 1], s[i])
      <4> HIDE DEF T
      <4> QED
        BY <3>1
    <3> QED
      BY <1>3, <2>2, <3>2
  <2> QED
    BY <2>1, <2>2
<1>5. G(g)
  <2>1. g = [k \in Nat |-> g[k]]
    BY <1>2
  <2> QED
    BY <1>4, <2>1
<1>6. G(kept)
  <2> HIDE DEF G
  <2> QED
    BY <1>5
<1>7. Without(s, gone) = kept[Len(s)]
  BY DEF Without
<1> HIDE DEF kept
<1>8. kept[0] = <<>> /\ \A i \in Nat : i # 0 =>
          kept[i] = IF s[i] \in gone THEN kept[i - 1] ELSE Append(kept[i - 1], s[i])
  BY <1>6
<1> DEFINE A == {i \in Nat : i <= Len(s) => kept[i] \in Seq(Entries)}
<1>9. 0 \in A
  <2>1. <<>> \in Seq(Entries) /\ kept[0] = <<>>
    BY <1>8
  <2> QED
    BY <2>1
<1>10. \A i \in Nat : i \in A => i + 1 \in A
  <2> SUFFICES ASSUME NEW i \in Nat, i \in A, i + 1 <= Len(s) PROVE kept[i + 1] \in Seq(Entries)
    OBVIOUS
  <2>1. kept[i] \in Seq(Entries) /\ s[i + 1] \in Entries /\ i + 1 # 0 /\ (i + 1) - 1 = i /\ i + 1 \in Nat
    OBVIOUS
  <2>2. kept[i + 1] = IF s[i + 1] \in gone THEN kept[i] ELSE Append(kept[i], s[i + 1])
    BY <1>8, <2>1
  <2> QED
    BY <2>1, <2>2
<1>11. \A i \in Nat : i \in A
  <2> HIDE DEF A
  <2> QED
    BY <1>9, <1>10, NatSetInduction
<1>12. \A i \in 0 .. Len(s) : i \in Nat /\ kept[i] \in Seq(Entries)
  BY <1>11
<1>13. \A i \in 1 .. Len(s) : i \in Nat /\ i # 0
  OBVIOUS
<1> HIDE DEF A
<1>14. KeptSteps(s, gone, kept)
  BY <1>7, <1>8, <1>12, <1>13 DEF KeptSteps
<1> QED
  BY <1>14

LEMMA WithoutOne ==
    ASSUME NEW s \in Seq(Entries), Distinct(s), NEW k \in 1 .. Len(s)
    PROVE  Without(s, {s[k]}) \in Seq(Entries) /\ Shortened(s, k, Without(s, {s[k]}))
<1>1. PICK kept : KeptSteps(s, {s[k]}, kept)
  BY WithoutSteps
<1>2. /\ kept[0] = <<>> /\ \A i \in 0 .. Len(s) : kept[i] \in Seq(Entries)
      /\ \A i \in 1 .. Len(s) :
           kept[i] = IF i = k THEN kept[i - 1] ELSE Append(kept[i - 1], s[i])
      /\ Without(s, {s[k]}) = kept[Len(s)]
  BY <1>1 DEF KeptSteps, Distinct
<1> DEFINE so(i, q) == /\ Len(q) = IF i < k THEN i ELSE i - 1
                       /\ \A j \in 1 .. Len(q) : q[j] = IF j < k THEN s[j] ELSE s[j + 1]
           A == {i \in Nat : i <= Len(s) => so(i, kept[i])}
<1>3. 0 \in A
  BY <1>2
<1>4. \A i \in Nat : i \in A => i + 1 \in A
  <2> SUFFICES ASSUME NEW i \in Nat, i \in A, i + 1 <= Len(s) PROVE so(i + 1, kept[i + 1])
    <3> HIDE DEF so
    <3> QED
      OBVIOUS
  <2>1. PICK q \in Seq(Entries) : q = kept[i]
    BY <1>2
  <2>5. i <= Len(s) /\ i + 1 \in 1 .. Len(s) /\ (i + 1) - 1 = i
    OBVIOUS
  <2>6. so(i, kept[i])
    <3> HIDE DEF so
    <3> QED
      BY <2>5
  <2>2. so(i, q) /\ i + 1 \in 1 .. Len(s) /\ (i + 1) - 1 = i
    <3> HIDE DEF so
    <3> QED
      BY <2>1, <2>5, <2>6
  <2>3. CASE i + 1 = k
    <3>1. kept[i + 1] = q
      BY <1>2, <2>1, <2>2, <2>3
    <3> QED
      BY <2>2, <2>3, <3>1
  <2>4. CASE i + 1 # k
    <3>1. PICK e \in Entries : e = s[i + 1]
      OBVIOUS
    <3>2. PICK a : a = Append(q, e)
      OBVIOUS
    <3>3. kept[i + 1] = a
      BY <1>2, <2>1, <2>2, <2>4, <3>1, <3>2
    <3>4. Len(a) = Len(q) + 1 /\ a[Len(q) + 1] = e /\ \A j \in 1 .. Len(q) : a[j] = q[j]
      BY <3>2
    <3>5. so(i + 1, a)
      BY <2>2, <2>4, <3>1, <3>4
    <3> QED
      BY <3>3, <3>5
  <2> QED
    BY <2>3, <2>4
<1>5. Len(s) \in A
  <2> HIDE DEF A
  <2> QED
    BY <1>3, <1>4, NatSetInduction
<1>6. Len(s) \in Nat /\ Len(s) \in 0 .. Len(s) /\ ~(Len(s) < k)
  OBVIOUS
<1>7. PICK q \in Seq(Entries) : q = kept[Len(s)]
  BY <1>2, <1>6
<1>8. so(Len(s), q)
  <2> HIDE DEF so
  <2> QED
    BY <1>5, <1>6, <1>7
<1>9. Shortened(s, k, q)
  BY <1>6, <1>8 DEF Shortened
<1> QED
  BY <1>2, <1>7, <1>9

(***************************************************************************)
(* Adding at either end, and the loop that may remove the entry it is at.  *)
(***************************************************************************)
LEMMA ChainAdd ==
    ASSUME NEW l, NEW s, Chain(l, s), NEW e \in Entries, \A i \in 1 .. Len(s) : s[i] # e
    PROVE  Chain(list_add(l, e), <<e>> \o s) /\ Chain(list_add_tail(l, e), Append(s, e))
<1>1. /\ s \in Seq(Entries) /\ Len(s) \in Nat
      /\ \A i \in 0 .. Len(s) :
           l.next[Cell(s, i)] = Cell(s, i + 1) /\ l.prev[Cell(s, i + 1)] = Cell(s, i)
  BY DEF Chain
<1>2. Cell(s, 0) = ListHeadNode /\ Cell(s, Len(s) + 1) = ListHeadNode
  BY <1>1 DEF Cell
<1>3. l.next[ListHeadNode] = Cell(s, 0 + 1) /\ l.prev[ListHeadNode] = Cell(s, Len(s))
  BY <1>1, <1>2
<1>0. s \in Seq(Entries)
  BY <1>1
<1>12. (<<e>> \o s) \in Seq(Entries) /\ Append(s, e) \in Seq(Entries)
  <2>1. <<e>> \in Seq(Entries)
    OBVIOUS
  <2> QED
    BY <1>0, <2>1
<1>4. PICK a \in Seq(Entries) : a = <<e>> \o s
  BY <1>12
<1>5. PICK b \in Seq(Entries) : b = Append(s, e)
  BY <1>12
<1>6. Inserted(s, 0, e, a)
  BY <1>1, <1>4 DEF Inserted
<1>7. Inserted(s, Len(s), e, b)
  BY <1>1, <1>5 DEF Inserted
<1>8. Chain(__list_add(l, e, Cell(s, 0), Cell(s, 0 + 1)), a)
  <2>1. 0 \in 0 .. Len(s)
    BY <1>1
  <2> QED
    BY <1>6, <2>1, ChainInsert
<1>9. Chain(__list_add(l, e, Cell(s, Len(s)), Cell(s, Len(s) + 1)), b)
  <2>1. Len(s) \in 0 .. Len(s)
    BY <1>1
  <2> QED
    BY <1>7, <2>1, ChainInsert
<1>10. list_add(l, e) = __list_add(l, e, Cell(s, 0), Cell(s, 0 + 1))
  BY <1>2, <1>3 DEF list_add
<1>11. list_add_tail(l, e) = __list_add(l, e, Cell(s, Len(s)), Cell(s, Len(s) + 1))
  BY <1>2, <1>3 DEF list_add_tail
<1> QED
  BY <1>4, <1>5, <1>8, <1>9, <1>10, <1>11

LEMMA ShortenedExists ==
    ASSUME NEW u \in Seq(Entries), NEW i \in 1 .. Len(u)
    PROVE  \E t \in Seq(Entries) : Shortened(u, i, t)
<1> DEFINE t == [j \in 1 .. Len(u) - 1 |-> IF j < i THEN u[j] ELSE u[j + 1]]
<1>1. Len(u) \in Nat /\ Len(u) - 1 \in Nat /\ i \in Int
  OBVIOUS
<1>2. \A j \in 1 .. Len(u) - 1 : (IF j < i THEN u[j] ELSE u[j + 1]) \in Entries
  BY <1>1
<1>3. t \in Seq(Entries) /\ Len(t) = Len(u) - 1
  BY <1>1, <1>2
<1> QED
  BY <1>1, <1>3 DEF Shortened

\* Where a round of the loop that is at the i-th entry leads, and what it leaves.
LEMMA RoundAt ==
    ASSUME NEW l, NEW u, Chain(l, u), NEW i \in 1 .. Len(u), NEW gone
    PROVE  /\ Follow(l, u[i], "next") = Cell(u, i + 1) /\ Follow(l, u[i], "prev") = Cell(u, i - 1)
           /\ u[i] \notin gone => Chain(Removed(l, u[i], gone), u)
           /\ u[i] \in gone => \A t \in Seq(Entries) :
                  Shortened(u, i, t) => Chain(Removed(l, u[i], gone), t)
<1>1. /\ l \in Links /\ u \in Seq(Entries) /\ Len(u) \in Nat
      /\ \A j \in 0 .. Len(u) :
           l.next[Cell(u, j)] = Cell(u, j + 1) /\ l.prev[Cell(u, j + 1)] = Cell(u, j)
  BY DEF Chain
<1>2. /\ Cell(u, i) = u[i] /\ u[i] \in Cells /\ i \in 0 .. Len(u) /\ i - 1 \in 0 .. Len(u)
      /\ (i - 1) + 1 = i
  BY <1>1, CellIn, CellTypes
<1>3. l.next[u[i]] = Cell(u, i + 1) /\ l.prev[u[i]] = Cell(u, i - 1)
  BY <1>1, <1>2
<1>4. ASSUME NEW t \in Seq(Entries), Shortened(u, i, t) PROVE Chain(list_del_init(l, u[i]), t)
  <2>1. DelIs(l, u[i], list_del_init(l, u[i]))
    BY <1>1, <1>2, LinksAfterDel
  <2> QED
    BY <1>4, <2>1, ChainDelete
<1> QED
  BY <1>3, <1>4 DEF Follow, Removed

\* u is p and then the entries of s behind the n-th.
Ahead(u, p, s, n) ==
    /\ u \in Seq(Entries) /\ p \in Seq(Entries) /\ s \in Seq(Entries) /\ n \in 0 .. Len(s)
    /\ Len(u) = Len(p) + (Len(s) - n)
    /\ \A i \in 1 .. Len(u) : u[i] = IF i <= Len(p) THEN p[i] ELSE s[(i - Len(p)) + n]

LEMMA AheadKeeps ==
    ASSUME NEW u, NEW p, NEW s, NEW n, Ahead(u, p, s, n), n < Len(s)
    PROVE  u[Len(p) + 1] = s[n + 1] /\ Ahead(u, Append(p, s[n + 1]), s, n + 1)
<1>1. /\ u \in Seq(Entries) /\ p \in Seq(Entries) /\ s \in Seq(Entries) /\ n \in 0 .. Len(s)
      /\ Len(p) \in Nat /\ Len(s) \in Nat /\ Len(u) = Len(p) + (Len(s) - n)
      /\ \A i \in 1 .. Len(u) : u[i] = IF i <= Len(p) THEN p[i] ELSE s[(i - Len(p)) + n]
  <2>1. u \in Seq(Entries) /\ p \in Seq(Entries) /\ s \in Seq(Entries) /\ n \in 0 .. Len(s)
    BY DEF Ahead
  <2>2. Len(p) \in Nat /\ Len(s) \in Nat
    BY <2>1
  <2>3. /\ Len(u) = Len(p) + (Len(s) - n)
        /\ \A i \in 1 .. Len(u) : u[i] = IF i <= Len(p) THEN p[i] ELSE s[(i - Len(p)) + n]
    BY Zenon DEF Ahead
  <2> QED
    BY <2>1, <2>2, <2>3
<1>2. PICK e \in Entries : e = s[n + 1]
  BY <1>1
<1>3. PICK q \in Seq(Entries) : q = Append(p, e)
  <2>1. p \in Seq(Entries)
    BY <1>1
  <2>2. Append(p, e) \in Seq(Entries)
    BY <2>1
  <2> QED
    BY <2>2
<1>4. Len(q) = Len(p) + 1 /\ q[Len(p) + 1] = e /\ \A i \in 1 .. Len(p) : q[i] = p[i]
  BY <1>1, <1>3
<1>5. Len(p) + 1 \in 1 .. Len(u) /\ u[Len(p) + 1] = e
  <2>1. Len(p) + 1 \in 1 .. Len(u) /\ ((Len(p) + 1) - Len(p)) + n = n + 1 /\ ~(Len(p) + 1 <= Len(p))
    BY <1>1
  <2> QED
    BY <1>1, <1>2, <2>1
<1>6. ASSUME NEW i \in 1 .. Len(u)
      PROVE  u[i] = IF i <= Len(q) THEN q[i] ELSE s[(i - Len(q)) + (n + 1)]
  <2>1. CASE i <= Len(p)
    <3>1. i <= Len(q) /\ i \in 1 .. Len(p) /\ u[i] = p[i]
      BY <1>1, <1>4, <2>1
    <3> QED
      BY <1>4, <3>1
  <2>2. CASE i = Len(p) + 1
    <3>1. i <= Len(q) /\ u[i] = e /\ q[i] = e
      BY <1>1, <1>4, <1>5, <2>2
    <3> QED
      BY <3>1
  <2>3. CASE i > Len(p) + 1
    <3>1. ~(i <= Len(q)) /\ ~(i <= Len(p)) /\ (i - Len(q)) + (n + 1) = (i - Len(p)) + n
      BY <1>1, <1>4, <2>3
    <3> QED
      BY <1>1, <3>1
  <2>4. i \in Nat /\ Len(p) \in Nat
    BY <1>1
  <2> QED
    BY <2>1, <2>2, <2>3, <2>4
<1>7. Ahead(u, q, s, n + 1)
  <2>1. n + 1 \in 0 .. Len(s) /\ Len(u) = Len(q) + (Len(s) - (n + 1))
    BY <1>1, <1>4
  <2> QED
    BY <1>1, <1>6, <2>1 DEF Ahead
<1> QED
  BY <1>2, <1>3, <1>5, <1>7

LEMMA AheadDrops ==
    ASSUME NEW u, NEW p, NEW s, NEW n, Ahead(u, p, s, n), n < Len(s),
           NEW t \in Seq(Entries), Shortened(u, Len(p) + 1, t)
    PROVE  Ahead(t, p, s, n + 1)
<1>1. /\ u \in Seq(Entries) /\ p \in Seq(Entries) /\ s \in Seq(Entries) /\ n \in 0 .. Len(s)
      /\ Len(p) \in Nat /\ Len(s) \in Nat /\ Len(u) = Len(p) + (Len(s) - n)
      /\ \A i \in 1 .. Len(u) : u[i] = IF i <= Len(p) THEN p[i] ELSE s[(i - Len(p)) + n]
  BY DEF Ahead
<1>2. /\ Len(t) = Len(u) - 1
      /\ \A i \in 1 .. Len(t) : t[i] = IF i < Len(p) + 1 THEN u[i] ELSE u[i + 1]
  BY DEF Shortened
<1>3. ASSUME NEW i \in 1 .. Len(t)
      PROVE  t[i] = IF i <= Len(p) THEN p[i] ELSE s[(i - Len(p)) + (n + 1)]
  <2>1. CASE i <= Len(p)
    <3>1. i < Len(p) + 1 /\ i \in 1 .. Len(u)
      BY <1>1, <1>2, <2>1
    <3> QED
      BY <1>1, <1>2, <2>1, <3>1
  <2>2. CASE ~(i <= Len(p))
    <3>1. /\ ~(i < Len(p) + 1) /\ i + 1 \in 1 .. Len(u) /\ ~(i + 1 <= Len(p))
          /\ ((i + 1) - Len(p)) + n = (i - Len(p)) + (n + 1)
      BY <1>1, <1>2, <2>2
    <3>2. t[i] = u[i + 1]
      BY <1>2, <3>1
    <3>3. u[i + 1] = s[((i + 1) - Len(p)) + n]
      BY <1>1, <3>1
    <3> QED
      BY <2>2, <3>1, <3>2, <3>3
  <2> QED
    BY <2>1, <2>2
<1>4. n + 1 \in 0 .. Len(s) /\ Len(t) = Len(p) + (Len(s) - (n + 1))
  BY <1>1, <1>2
<1> QED
  BY <1>1, <1>3, <1>4 DEF Ahead

\* u is the first m entries of s and then the entries of w, which begins with
\* p, that are behind p.
Behind(u, p, s, m, w) ==
    /\ u \in Seq(Entries) /\ p \in Seq(Entries) /\ s \in Seq(Entries) /\ w \in Seq(Entries)
    /\ m \in 0 .. Len(s) /\ Begins(p, w)
    /\ Len(u) = m + (Len(w) - Len(p))
    /\ \A i \in 1 .. Len(u) : u[i] = IF i <= m THEN s[i] ELSE w[(i - m) + Len(p)]

LEMMA BehindKeeps ==
    ASSUME NEW u, NEW p \in Seq(Entries), NEW s, NEW m, NEW w, m > 0,
           Behind(u, Append(p, s[m]), s, m, w)
    PROVE  Behind(u, p, s, m - 1, w)
<1>1. PICK q : q = Append(p, s[m])
  OBVIOUS
<1>2. Behind(u, q, s, m, w)
  BY <1>1
<1>9. m \in 0 .. Len(s) /\ s \in Seq(Entries)
  BY <1>2 DEF Behind
<1>10. m \in 1 .. Len(s)
  BY <1>9
<1>3. /\ u \in Seq(Entries) /\ q \in Seq(Entries) /\ s \in Seq(Entries) /\ w \in Seq(Entries)
      /\ m \in 1 .. Len(s) /\ Len(s) \in Nat /\ Len(w) \in Nat /\ Len(p) \in Nat
      /\ Len(u) = m + (Len(w) - Len(q)) /\ Len(q) <= Len(w)
      /\ \A k \in 1 .. Len(q) : w[k] = q[k]
      /\ \A i \in 1 .. Len(u) : u[i] = IF i <= m THEN s[i] ELSE w[(i - m) + Len(q)]
  <2>1. /\ u \in Seq(Entries) /\ q \in Seq(Entries) /\ s \in Seq(Entries) /\ w \in Seq(Entries)
        /\ Begins(q, w) /\ Len(u) = m + (Len(w) - Len(q))
        /\ \A i \in 1 .. Len(u) : u[i] = IF i <= m THEN s[i] ELSE w[(i - m) + Len(q)]
    BY <1>2 DEF Behind
  <2>2. Len(q) <= Len(w) /\ \A k \in 1 .. Len(q) : w[k] = q[k]
    BY <2>1 DEF Begins
  <2>3. Len(s) \in Nat /\ Len(w) \in Nat /\ Len(p) \in Nat
    BY <2>1
  <2> QED
    BY <1>10, <2>1, <2>2, <2>3
<1>4. PICK e \in Entries : e = s[m]
  BY <1>3
<1>5. Len(q) = Len(p) + 1 /\ q[Len(p) + 1] = e /\ \A i \in 1 .. Len(p) : q[i] = p[i]
  BY <1>1, <1>4
<1>6. Begins(p, w) /\ w[Len(p) + 1] = s[m]
  <2>1. Len(p) <= Len(w) /\ Len(p) + 1 \in 1 .. Len(q) /\ \A k \in 1 .. Len(p) : k \in 1 .. Len(q)
    BY <1>3, <1>5
  <2>2. \A k \in 1 .. Len(p) : w[k] = p[k]
    BY <1>3, <1>5, <2>1
  <2>3. w[Len(p) + 1] = s[m]
    BY <1>3, <1>4, <1>5, <2>1
  <2> QED
    BY <2>1, <2>2, <2>3 DEF Begins
<1>7. ASSUME NEW i \in 1 .. Len(u)
      PROVE  u[i] = IF i <= m - 1 THEN s[i] ELSE w[(i - (m - 1)) + Len(p)]
  <2>1. CASE i <= m - 1
    BY <1>3, <2>1
  <2>2. CASE i = m
    <3>1. (i - (m - 1)) + Len(p) = Len(p) + 1 /\ ~(i <= m - 1) /\ i <= m
      BY <1>3, <2>2
    <3>2. u[i] = s[m]
      BY <1>3, <2>2, <3>1
    <3> QED
      BY <1>6, <3>1, <3>2
  <2>3. CASE i > m
    <3>1. ~(i <= m - 1) /\ ~(i <= m) /\ (i - (m - 1)) + Len(p) = (i - m) + Len(q)
      BY <1>3, <1>5, <2>3
    <3> QED
      BY <1>3, <3>1
  <2> QED
    BY <1>3, <2>1, <2>2, <2>3
<1>8. m - 1 \in 0 .. Len(s) /\ Len(u) = (m - 1) + (Len(w) - Len(p))
  BY <1>3, <1>5
<1> QED
  BY <1>3, <1>6, <1>7, <1>8 DEF Behind

LEMMA BehindDrops ==
    ASSUME NEW u, NEW p, NEW s, NEW m, NEW w, m > 0, Behind(u, p, s, m, w),
           NEW t \in Seq(Entries), Shortened(u, m, t)
    PROVE  Behind(t, p, s, m - 1, w)
<1>1. /\ u \in Seq(Entries) /\ p \in Seq(Entries) /\ s \in Seq(Entries) /\ w \in Seq(Entries)
      /\ m \in 1 .. Len(s) /\ Len(s) \in Nat /\ Len(w) \in Nat /\ Len(p) \in Nat
      /\ Begins(p, w) /\ Len(p) <= Len(w)
      /\ Len(u) = m + (Len(w) - Len(p))
      /\ \A i \in 1 .. Len(u) : u[i] = IF i <= m THEN s[i] ELSE w[(i - m) + Len(p)]
  <2>1. /\ u \in Seq(Entries) /\ p \in Seq(Entries) /\ s \in Seq(Entries) /\ w \in Seq(Entries)
        /\ m \in 0 .. Len(s) /\ Begins(p, w) /\ Len(u) = m + (Len(w) - Len(p))
        /\ \A i \in 1 .. Len(u) : u[i] = IF i <= m THEN s[i] ELSE w[(i - m) + Len(p)]
    BY DEF Behind
  <2>2. m \in 1 .. Len(s) /\ Len(s) \in Nat /\ Len(w) \in Nat /\ Len(p) \in Nat
    BY <2>1
  <2>3. Len(p) <= Len(w)
    BY <2>1 DEF Begins
  <2> QED
    BY <2>1, <2>2, <2>3
<1>2. Len(t) = Len(u) - 1 /\ \A i \in 1 .. Len(t) : t[i] = IF i < m THEN u[i] ELSE u[i + 1]
  BY DEF Shortened
<1>3. ASSUME NEW i \in 1 .. Len(t)
      PROVE  t[i] = IF i <= m - 1 THEN s[i] ELSE w[(i - (m - 1)) + Len(p)]
  <2>1. CASE i < m
    <3>1. i <= m - 1 /\ i <= m /\ i \in 1 .. Len(u)
      BY <1>1, <1>2, <2>1
    <3> QED
      BY <1>1, <1>2, <2>1, <3>1
  <2>2. CASE ~(i < m)
    <3>1. /\ ~(i <= m - 1) /\ i + 1 \in 1 .. Len(u) /\ ~(i + 1 <= m)
          /\ ((i + 1) - m) + Len(p) = (i - (m - 1)) + Len(p)
      BY <1>1, <1>2, <2>2
    <3>2. t[i] = u[i + 1]
      BY <1>2, <2>2
    <3>3. u[i + 1] = w[((i + 1) - m) + Len(p)]
      BY <1>1, <3>1
    <3> QED
      BY <3>1, <3>2, <3>3
  <2> QED
    BY <2>1, <2>2
<1>4. m - 1 \in 0 .. Len(s) /\ Len(t) = (m - 1) + (Len(w) - Len(p))
  BY <1>1, <1>2
<1> QED
  BY <1>1, <1>3, <1>4 DEF Behind

\* The entry the loop is at, and its neighbour in the way the loop goes.
LEMMA AheadCells ==
    ASSUME NEW u, NEW p, NEW s, NEW n, Ahead(u, p, s, n), n < Len(s)
    PROVE  Len(p) + 1 \in 1 .. Len(u) /\ Cell(u, (Len(p) + 1) + 1) = Cell(s, (n + 1) + 1)
<1>1. /\ Len(u) \in Nat /\ n \in 0 .. Len(s)
      /\ Len(p) \in Nat /\ Len(s) \in Nat /\ Len(u) = Len(p) + (Len(s) - n)
      /\ \A i \in 1 .. Len(u) : u[i] = IF i <= Len(p) THEN p[i] ELSE s[(i - Len(p)) + n]
  BY DEF Ahead
<1>2. (Len(p) + 1) + 1 \in 1 .. Len(u) <=> (n + 1) + 1 \in 1 .. Len(s)
  BY <1>1
<1>3. ASSUME (Len(p) + 1) + 1 \in 1 .. Len(u) PROVE u[(Len(p) + 1) + 1] = s[(n + 1) + 1]
  <2>1. ~((Len(p) + 1) + 1 <= Len(p)) /\ (((Len(p) + 1) + 1) - Len(p)) + n = (n + 1) + 1
    BY <1>1
  <2> QED
    BY <1>1, <1>3, <2>1
<1>4. Len(p) + 1 \in 1 .. Len(u)
  BY <1>1
<1> QED
  BY <1>2, <1>3, <1>4 DEF Cell

LEMMA BehindCells ==
    ASSUME NEW u, NEW p, NEW s, NEW m, NEW w, m > 0, Behind(u, p, s, m, w)
    PROVE  m \in 1 .. Len(u) /\ u[m] = s[m] /\ Cell(u, m - 1) = Cell(s, m - 1)
<1>1. /\ Len(u) \in Nat /\ m \in 1 .. Len(s)
      /\ Len(p) \in Nat /\ Len(s) \in Nat /\ Len(w) \in Nat /\ Len(u) = m + (Len(w) - Len(p))
      /\ \A i \in 1 .. Len(u) : u[i] = IF i <= m THEN s[i] ELSE w[(i - m) + Len(p)]
      /\ Begins(p, w)
  <2>1. /\ u \in Seq(Entries) /\ p \in Seq(Entries) /\ s \in Seq(Entries) /\ w \in Seq(Entries)
        /\ m \in 0 .. Len(s) /\ Begins(p, w) /\ Len(u) = m + (Len(w) - Len(p))
        /\ \A i \in 1 .. Len(u) : u[i] = IF i <= m THEN s[i] ELSE w[(i - m) + Len(p)]
    BY DEF Behind
  <2>2. m \in 1 .. Len(s) /\ Len(s) \in Nat /\ Len(w) \in Nat /\ Len(p) \in Nat /\ Len(u) \in Nat
    BY <2>1
  <2> QED
    BY <2>1, <2>2
<1>2. m \in 1 .. Len(u)
  BY <1>1 DEF Begins
<1>3. m - 1 \in 1 .. Len(u) <=> m - 1 \in 1 .. Len(s)
  BY <1>1, <1>2
<1>4. m - 1 \in 1 .. Len(u) => u[m - 1] = s[m - 1]
  BY <1>1
<1>5. u[m] = s[m]
  BY <1>1, <1>2
<1> QED
  BY <1>2, <1>3, <1>4, <1>5 DEF Cell

LoopRuns(l, gone, way, x) ==
    /\ \A n \in Nat : x[n].links \in Links /\ x[n].pos \in Cells
    /\ x[0].links = l /\ x[0].pos = Follow(l, ListHeadNode, way)
    /\ \A n \in Nat :
           /\ x[n].pos = ListHeadNode => x[n + 1] = x[n]
           /\ x[n].pos # ListHeadNode =>
                  /\ x[n + 1].links = Removed(x[n].links, x[n].pos, gone)
                  /\ x[n + 1].pos = Follow(x[n].links, x[n].pos, way)
    /\ SafeLoop(l, gone, way) = x[Cardinality(Entries)].links

LEMMA LoopSteps ==
    ASSUME NEW l \in Links, NEW gone, NEW way \in {"next", "prev"}
    PROVE  \E x : LoopRuns(l, gone, way, x)
<1> DEFINE D == [links : Links, pos : Cells]
           start == [links |-> l, pos |-> Follow(l, ListHeadNode, way)]
           G(g) == g = [k \in Nat |-> IF k = 0 THEN start ELSE SafeRound(g[k - 1], gone, way)]
           loop == CHOOSE g : G(g)
           f == [z \in Nat \X D |-> SafeRound(z[2], gone, way)]
<1>1. \A m \in Links, c \in Cells : Follow(m, c, way) \in Cells /\ Removed(m, c, gone) \in Links
  <2> TAKE m \in Links, c \in Cells
  <2>1. list_del_init(m, c) \in Links
    BY LinksAfterDel DEF DelIs
  <2>2. Follow(m, c, way) \in Cells
    BY DEF Links, Follow
  <2> QED
    BY <2>1, <2>2 DEF Removed
<1>2. start \in D /\ start.links = l /\ start.pos = Follow(l, ListHeadNode, way)
  BY <1>1, CellTypes
<1>3. \A z \in D :
        /\ SafeRound(z, gone, way) \in D
        /\ z.pos = ListHeadNode => SafeRound(z, gone, way) = z
        /\ z.pos # ListHeadNode =>
               /\ SafeRound(z, gone, way).links = Removed(z.links, z.pos, gone)
               /\ SafeRound(z, gone, way).pos = Follow(z.links, z.pos, way)
  <2> TAKE z \in D
  <2>1. z.links \in Links /\ z.pos \in Cells
    OBVIOUS
  <2>2. Follow(z.links, z.pos, way) \in Cells /\ Removed(z.links, z.pos, gone) \in Links
    BY <1>1, <2>1
  <2> QED
    BY <2>2 DEF SafeRound
<1> HIDE DEF D, start
<1>4. f \in [Nat \X D -> D]
  BY <1>3
<1>5. PICK g \in [Nat -> D] : g = Repeated(f, start, g)
  <2> HIDE DEF f
  <2> QED
    BY <1>2, <1>4, RepeatedExists
<1>6. \A k \in Nat : g[k] = IF k = 0 THEN start ELSE f[<<k, g[k - 1]>>]
  <2> HIDE DEF f
  <2> QED
    BY <1>5 DEF Repeated
<1>7. \A k \in Nat : g[k] = IF k = 0 THEN start ELSE SafeRound(g[k - 1], gone, way)
  <2> TAKE k \in Nat
  <2>1. CASE k = 0
    BY <1>6, <2>1
  <2>2. CASE k # 0
    <3>1. k - 1 \in Nat /\ g[k - 1] \in D
      BY <1>5, <2>2
    <3>2. f[<<k, g[k - 1]>>] = SafeRound(g[k - 1], gone, way)
      BY <3>1
    <3> QED
      BY <1>6, <2>2, <3>2
  <2> QED
    BY <2>1, <2>2
<1>8. G(g)
  <2>1. g = [k \in Nat |-> g[k]]
    BY <1>5
  <2> QED
    BY <1>7, <2>1
<1>9. G(loop)
  <2> HIDE DEF G
  <2> QED
    BY <1>8
<1>10. SafeLoop(l, gone, way) = loop[Cardinality(Entries)].links
  BY DEF SafeLoop, start
<1> HIDE DEF loop
<1>11. loop[0] = start /\ \A n \in Nat : loop[n + 1] = SafeRound(loop[n], gone, way)
  BY <1>9
<1> DEFINE A == {n \in Nat : loop[n] \in D}
<1>12. 0 \in A /\ \A n \in Nat : n \in A => n + 1 \in A
  BY <1>2, <1>3, <1>11
<1>13. \A n \in Nat : n \in A
  <2> HIDE DEF A
  <2> QED
    BY <1>12, NatSetInduction
<1>14. \A n \in Nat : loop[n] \in D
  BY <1>13
<1>15. \A n \in Nat : loop[n].links \in Links /\ loop[n].pos \in Cells
  BY <1>14 DEF D
<1>16. LoopRuns(l, gone, way, loop)
  BY <1>2, <1>3, <1>10, <1>11, <1>14, <1>15 DEF LoopRuns
<1> QED
  BY <1>16

\* A list holds no more entries than there are.
LEMMA LengthBound ==
    ASSUME NEW s \in Seq(Entries), Distinct(s)
    PROVE  Cardinality(Entries) \in Nat /\ Len(s) <= Cardinality(Entries)
<1>1. Len(s) \in Nat /\ s \in [1 .. Len(s) -> Entries]
  OBVIOUS
<1>2. s \in Injection(1 .. Len(s), Entries)
  BY <1>1 DEF Distinct, Injection, IsInjective
<1>3. Cardinality(1 .. Len(s)) <= Cardinality(Entries)
  BY <1>2, FS_Injection, EntriesAssumption
<1>4. Cardinality(1 .. Len(s)) = Len(s)
  BY <1>1, FS_Interval
<1> QED
  BY <1>3, <1>4, FS_CardinalityType, EntriesAssumption

\* A loop that is back at the head after some rounds has ended.
LEMMA LoopEnds ==
    ASSUME NEW l, NEW gone, NEW way, NEW x, LoopRuns(l, gone, way, x),
           NEW n \in Nat, x[n].pos = ListHeadNode, n <= Cardinality(Entries),
           Cardinality(Entries) \in Nat
    PROVE  SafeLoop(l, gone, way) = x[n].links
<1> DEFINE A == {j \in Nat : x[n + j] = x[n]}
<1>1. 0 \in A
  BY n + 0 = n
<1>2. ASSUME NEW j \in Nat, j \in A PROVE j + 1 \in A
  <2>1. n + j \in Nat /\ (n + j) + 1 = n + (j + 1) /\ x[n + j] = x[n]
    BY <1>2
  <2>2. x[(n + j) + 1] = x[n + j]
    BY <2>1 DEF LoopRuns
  <2> QED
    BY <2>1, <2>2
<1>3. \A j \in Nat : j \in A
  <2> HIDE DEF A
  <2> QED
    BY <1>1, <1>2, NatSetInduction
<1>4. PICK j \in Nat : n + j = Cardinality(Entries)
  <2>1. Cardinality(Entries) - n \in Nat /\ n + (Cardinality(Entries) - n) = Cardinality(Entries)
    OBVIOUS
  <2> QED
    BY <2>1
<1>5. x[Cardinality(Entries)] = x[n]
  BY <1>3, <1>4
<1> QED
  BY <1>5 DEF LoopRuns

\* The loop leaves the list of what its body kept.
LEMMA ChainLoopForward ==
    ASSUME NEW l, NEW s, Chain(l, s), NEW gone
    PROVE  Chain(SafeLoop(l, gone, "next"), Without(s, gone))
<1>1. /\ l \in Links /\ s \in Seq(Entries) /\ Distinct(s) /\ Len(s) \in Nat
      /\ \A i \in 0 .. Len(s) :
           l.next[Cell(s, i)] = Cell(s, i + 1) /\ l.prev[Cell(s, i + 1)] = Cell(s, i)
  BY DEF Chain
<1>2. PICK x : LoopRuns(l, gone, "next", x)
  BY <1>1, LoopSteps
<1>3. PICK kept : KeptSteps(s, gone, kept)
  BY <1>1, WithoutSteps
<1> DEFINE Here(n) == \E u : /\ Ahead(u, kept[n], s, n) /\ Chain(x[n].links, u)
                             /\ x[n].pos = Cell(s, n + 1)
           A == {n \in Nat : n <= Len(s) => Here(n)}
<1>4. Here(0)
  <2>1. x[0].links = l /\ x[0].pos = l.next[ListHeadNode]
    BY <1>2 DEF LoopRuns, Follow
  <2>2. l.next[ListHeadNode] = Cell(s, 0 + 1)
    <3>1. Cell(s, 0) = ListHeadNode /\ 0 \in 0 .. Len(s)
      BY <1>1 DEF Cell
    <3> QED
      BY <1>1, <3>1
  <2>3. PICK p \in Seq(Entries) : p = kept[0] /\ Len(p) = 0
    <3>1. kept[0] = <<>> /\ <<>> \in Seq(Entries) /\ Len(<<>>) = 0
      BY <1>3 DEF KeptSteps
    <3> QED
      BY <3>1
  <2>4. Ahead(s, p, s, 0)
    BY <1>1, <2>3 DEF Ahead
  <2> QED
    BY <2>1, <2>2, <2>3, <2>4
<1>5. ASSUME NEW n \in Nat, n + 1 <= Len(s), Here(n) PROVE Here(n + 1)
  <2>1. PICK u : Ahead(u, kept[n], s, n) /\ Chain(x[n].links, u) /\ x[n].pos = Cell(s, n + 1)
    BY <1>5
  <2>2. PICK p \in Seq(Entries) : p = kept[n]
    BY <2>1 DEF Ahead
  <2>3. n < Len(s) /\ n + 1 \in 1 .. Len(s) /\ (n + 1) - 1 = n /\ n + 1 \in Int /\ Ahead(u, p, s, n)
    BY <1>1, <1>5, <2>1, <2>2
  <2>4. PICK i \in 1 .. Len(u) : i = Len(p) + 1 /\ Cell(u, i + 1) = Cell(s, (n + 1) + 1)
    BY <2>3, AheadCells
  <2>5. u[i] = s[n + 1] /\ Ahead(u, Append(p, s[n + 1]), s, n + 1)
    BY <2>3, <2>4, AheadKeeps
  <2>6. x[n].pos = u[i] /\ x[n].pos # ListHeadNode
    BY <1>1, <2>1, <2>3, <2>5, CellIn
  <2>7. PICK m : m = x[n].links
    OBVIOUS
  <2>8. x[n + 1].links = Removed(m, u[i], gone) /\ x[n + 1].pos = Follow(m, u[i], "next")
    BY <1>2, <2>6, <2>7 DEF LoopRuns
  <2>9. Chain(m, u)
    BY <2>1, <2>7
  <2>10. x[n + 1].pos = Cell(s, (n + 1) + 1)
    BY <2>4, <2>8, <2>9, RoundAt
  <2>11. kept[n + 1] = IF u[i] \in gone THEN p ELSE Append(p, s[n + 1])
    BY <1>3, <2>2, <2>3, <2>5 DEF KeptSteps
  <2>12. CASE u[i] \notin gone
    <3>1. Chain(x[n + 1].links, u)
      BY <2>8, <2>9, <2>12, RoundAt
    <3>2. Ahead(u, kept[n + 1], s, n + 1)
      BY <2>5, <2>11, <2>12
    <3> QED
      BY <2>10, <3>1, <3>2
  <2>13. CASE u[i] \in gone
    <3>1. PICK t \in Seq(Entries) : Shortened(u, i, t)
      BY <2>1, ShortenedExists DEF Ahead
    <3>2. Chain(x[n + 1].links, t)
      BY <2>8, <2>9, <2>13, <3>1, RoundAt
    <3>3. Shortened(u, Len(p) + 1, t)
      BY <2>4, <3>1
    <3>4. Ahead(t, p, s, n + 1)
      BY <2>3, <3>3, AheadDrops
    <3>5. Ahead(t, kept[n + 1], s, n + 1)
      BY <2>11, <2>13, <3>4
    <3> QED
      BY <2>10, <3>2, <3>5
  <2> QED
    BY <2>12, <2>13
<1>6. Here(Len(s))
  <2> HIDE DEF Here
  <2>1. 0 \in A
    BY <1>4
  <2>2. ASSUME NEW n \in Nat, n \in A PROVE n + 1 \in A
    BY <1>1, <1>5, <2>2
  <2>3. Len(s) \in A
    <3> HIDE DEF A
    <3> QED
      BY <1>1, <2>1, <2>2, NatSetInduction
  <2> QED
    BY <1>1, <2>3
<1>7. PICK u : Ahead(u, kept[Len(s)], s, Len(s)) /\ Chain(x[Len(s)].links, u)
               /\ x[Len(s)].pos = Cell(s, Len(s) + 1)
  BY <1>6
<1>8. u = Without(s, gone)
  <2>1. PICK w \in Seq(Entries) : w = kept[Len(s)]
    BY <1>7 DEF Ahead
  <2>2. u \in Seq(Entries) /\ Len(u) = Len(w) /\ \A i \in 1 .. Len(u) : u[i] = w[i]
    <3>1. Ahead(u, w, s, Len(s))
      BY <1>7, <2>1
    <3>2. /\ u \in Seq(Entries) /\ Len(u) = Len(w) + (Len(s) - Len(s))
          /\ \A i \in 1 .. Len(u) : u[i] = IF i <= Len(w) THEN w[i] ELSE s[(i - Len(w)) + Len(s)]
      BY <3>1 DEF Ahead
    <3>3. Len(u) = Len(w)
      BY <1>1, <3>2
    <3> QED
      BY <3>2, <3>3
  <2>3. u = w
    BY <2>2
  <2> QED
    BY <1>3, <2>1, <2>3 DEF KeptSteps
<1>9. x[Len(s)].pos = ListHeadNode
  BY <1>1, <1>7 DEF Cell
<1>10. SafeLoop(l, gone, "next") = x[Len(s)].links
  BY <1>1, <1>2, <1>9, LengthBound, LoopEnds
<1> QED
  BY <1>7, <1>8, <1>10

LEMMA ChainLoopBackward ==
    ASSUME NEW l, NEW s, Chain(l, s), NEW gone
    PROVE  Chain(SafeLoop(l, gone, "prev"), Without(s, gone))
<1>1. /\ l \in Links /\ s \in Seq(Entries) /\ Distinct(s) /\ Len(s) \in Nat
      /\ \A i \in 0 .. Len(s) :
           l.next[Cell(s, i)] = Cell(s, i + 1) /\ l.prev[Cell(s, i + 1)] = Cell(s, i)
  BY DEF Chain
<1>2. PICK x : LoopRuns(l, gone, "prev", x)
  BY <1>1, LoopSteps
<1>3. PICK kept : KeptSteps(s, gone, kept)
  BY <1>1, WithoutSteps
<1>4. PICK w \in Seq(Entries) : w = kept[Len(s)] /\ w = Without(s, gone)
  BY <1>1, <1>3 DEF KeptSteps
<1> DEFINE Here(n, m) == \E u : /\ Behind(u, kept[m], s, m, w) /\ Chain(x[n].links, u)
                                /\ x[n].pos = Cell(s, m)
           A == {n \in Nat : n <= Len(s) => Here(n, Len(s) - n)}
<1>5. Here(0, Len(s))
  <2>1. x[0].links = l /\ x[0].pos = l.prev[ListHeadNode]
    BY <1>2 DEF LoopRuns, Follow
  <2>2. l.prev[ListHeadNode] = Cell(s, Len(s))
    <3>1. Cell(s, Len(s) + 1) = ListHeadNode /\ Len(s) \in 0 .. Len(s)
      BY <1>1 DEF Cell
    <3> QED
      BY <1>1, <3>1
  <2>3. Behind(s, w, s, Len(s), w)
    <3>1. Begins(w, w) /\ Len(s) = Len(s) + (Len(w) - Len(w)) /\ Len(s) \in 0 .. Len(s)
      BY <1>1 DEF Begins
    <3> QED
      BY <1>1, <3>1 DEF Behind
  <2> QED
    BY <1>4, <2>1, <2>2, <2>3
<1>6. ASSUME NEW n \in Nat, NEW m \in 1 .. Len(s), Here(n, m) PROVE Here(n + 1, m - 1)
  <2>1. PICK u : Behind(u, kept[m], s, m, w) /\ Chain(x[n].links, u) /\ x[n].pos = Cell(s, m)
    BY <1>6
  <2>2. PICK p \in Seq(Entries) : p = kept[m - 1]
    <3>1. m - 1 \in 0 .. Len(s)
      BY <1>1
    <3> QED
      BY <1>3, <3>1 DEF KeptSteps
  <2>3. m > 0 /\ m \in Int
    OBVIOUS
  <2>4. m \in 1 .. Len(u) /\ u[m] = s[m] /\ Cell(u, m - 1) = Cell(s, m - 1)
    BY <2>1, <2>3, BehindCells
  <2>5. x[n].pos = u[m] /\ x[n].pos # ListHeadNode
    BY <1>1, <2>1, <2>3, <2>4, CellIn
  <2>6. PICK k : k = x[n].links
    OBVIOUS
  <2>7. x[n + 1].links = Removed(k, u[m], gone) /\ x[n + 1].pos = Follow(k, u[m], "prev")
    BY <1>2, <2>5, <2>6 DEF LoopRuns
  <2>8. Chain(k, u)
    BY <2>1, <2>6
  <2>9. x[n + 1].pos = Cell(s, m - 1)
    BY <2>4, <2>7, <2>8, RoundAt
  <2>10. kept[m] = IF u[m] \in gone THEN p ELSE Append(p, s[m])
    BY <1>3, <2>2, <2>4 DEF KeptSteps
  <2>11. CASE u[m] \notin gone
    <3>1. Chain(x[n + 1].links, u)
      BY <2>4, <2>7, <2>8, <2>11, RoundAt
    <3>2. Behind(u, Append(p, s[m]), s, m, w)
      BY <2>1, <2>10, <2>11
    <3>3. Behind(u, p, s, m - 1, w)
      BY <2>3, <3>2, BehindKeeps
    <3> QED
      BY <2>2, <2>9, <3>1, <3>3
  <2>12. CASE u[m] \in gone
    <3>1. PICK t \in Seq(Entries) : Shortened(u, m, t)
      BY <2>1, <2>4, ShortenedExists DEF Behind
    <3>2. Chain(x[n + 1].links, t)
      BY <2>4, <2>7, <2>8, <2>12, <3>1, RoundAt
    <3>3. Behind(u, p, s, m, w)
      BY <2>1, <2>10, <2>12
    <3>4. Behind(t, p, s, m - 1, w)
      BY <2>3, <3>1, <3>3, BehindDrops
    <3> QED
      BY <2>2, <2>9, <3>2, <3>4
  <2> QED
    BY <2>11, <2>12
<1>7. Here(Len(s), 0)
  <2> HIDE DEF Here
  <2>1. 0 \in A
    <3>1. Len(s) - 0 = Len(s)
      BY <1>1
    <3> QED
      BY <1>5, <3>1
  <2>2. ASSUME NEW n \in Nat, n \in A PROVE n + 1 \in A
    <3> SUFFICES ASSUME n + 1 <= Len(s) PROVE Here(n + 1, Len(s) - (n + 1))
      OBVIOUS
    <3>1. PICK m \in 1 .. Len(s) : m = Len(s) - n
      <4>1. Len(s) - n \in 1 .. Len(s)
        BY <1>1
      <4> QED
        BY <4>1
    <3>2. n <= Len(s) /\ m - 1 = Len(s) - (n + 1)
      BY <1>1, <3>1
    <3>3. Here(n, m)
      BY <2>2, <3>1, <3>2
    <3> QED
      BY <1>6, <3>2, <3>3
  <2>3. Len(s) \in A
    <3> HIDE DEF A
    <3> QED
      BY <1>1, <2>1, <2>2, NatSetInduction
  <2>4. Len(s) - Len(s) = 0 /\ Len(s) <= Len(s)
    BY <1>1
  <2> QED
    BY <2>3, <2>4
<1>8. PICK u : Behind(u, kept[0], s, 0, w) /\ Chain(x[Len(s)].links, u) /\ x[Len(s)].pos = Cell(s, 0)
  BY <1>7
<1>9. u = w
  <2>1. PICK p \in Seq(Entries) : p = kept[0] /\ Len(p) = 0
    <3>1. kept[0] = <<>> /\ <<>> \in Seq(Entries) /\ Len(<<>>) = 0
      BY <1>3 DEF KeptSteps
    <3> QED
      BY <3>1
  <2>2. Behind(u, p, s, 0, w)
    BY <1>8, <2>1
  <2>3. u \in Seq(Entries) /\ Len(u) = Len(w) /\ \A i \in 1 .. Len(u) : u[i] = w[i]
    <3>1. /\ u \in Seq(Entries) /\ Len(u) = 0 + (Len(w) - Len(p))
          /\ \A i \in 1 .. Len(u) : u[i] = IF i <= 0 THEN s[i] ELSE w[(i - 0) + Len(p)]
      BY <2>2 DEF Behind
    <3> QED
      BY <2>1, <3>1
  <2> QED
    BY <2>3
<1>10. x[Len(s)].pos = ListHeadNode
  BY <1>8 DEF Cell
<1>11. SafeLoop(l, gone, "prev") = x[Len(s)].links
  BY <1>1, <1>2, <1>10, LengthBound, LoopEnds
<1> QED
  BY <1>4, <1>8, <1>9, <1>11

(***************************************************************************)
(* The list is the sequence.                                               *)
(***************************************************************************)
LEMMA ListInitInv == ListInit => ListInv
<1> SUFFICES ASSUME ListInit PROVE Chain(links, order)
  BY DEF ListInv
<1>1. links \in Links /\ \A c \in Cells : links.next[c] = c /\ links.prev[c] = c
  BY DEF ListInit, Links
<1>2. order \in Seq(Entries) /\ Len(order) = 0
  BY DEF ListInit
<1>3. Distinct(order) /\ \A i \in 0 .. Len(order) + 1 : Cell(order, i) = ListHeadNode
  BY <1>2 DEF Distinct, Cell
<1>4. \A i \in 0 .. Len(order) : i \in 0 .. Len(order) + 1 /\ i + 1 \in 0 .. Len(order) + 1
  BY <1>2
<1> QED
  BY <1>1, <1>2, <1>3, <1>4, CellTypes DEF Chain

LEMMA ListNextInv == ListInv /\ [ListNext]_listVars => ListInv'
<1> SUFFICES ASSUME ListInv, [ListNext]_listVars PROVE Chain(links', order')
  BY DEF ListInv
<1>1. Chain(links, order)
  BY DEF ListInv
<1>2. order \in Seq(Entries) /\ Distinct(order) /\ Len(order) \in Nat
  BY <1>1 DEF Chain
<1>3. \A e : e \in Linked <=> \E i \in 1 .. Len(order) : order[i] = e
  BY <1>2 DEF Linked, ToSet
<1>4. ASSUME NEW e \in Entries, AddEntry(e) PROVE Chain(links', order')
  <2>1. \A i \in 1 .. Len(order) : order[i] # e
    BY <1>3, <1>4 DEF AddEntry
  <2> QED
    BY <1>1, <1>4, <2>1, ChainAdd DEF AddEntry
<1>5. ASSUME NEW e \in Entries, RemoveEntry(e) PROVE Chain(links', order')
  <2>1. PICK k \in 1 .. Len(order) : order[k] = e
    BY <1>3, <1>5 DEF RemoveEntry
  <2>2. PICK t \in Seq(Entries) : t = Without(order, {order[k]}) /\ Shortened(order, k, t)
    BY <1>2, WithoutOne
  <2>3. DelIs(links, order[k], list_del(links, e))
    BY <1>1, <1>5, <2>1, LinksAfterDel, CellTypes DEF Chain
  <2>4. Chain(list_del(links, e), t)
    BY <1>1, <2>2, <2>3, ChainDelete
  <2> QED
    BY <1>5, <2>1, <2>2, <2>4 DEF RemoveEntry
<1>6. ASSUME NEW old \in Entries, NEW e \in Entries, ReplaceEntry(old, e) PROVE Chain(links', order')
  <2>1. PICK k \in 1 .. Len(order) : order[k] = old
    BY <1>3, <1>6 DEF ReplaceEntry
  <2>2. \A i \in 1 .. Len(order) : order[i] # e
    BY <1>3, <1>6 DEF ReplaceEntry
  <2>3. PICK t : t = [i \in DOMAIN order |-> IF order[i] = old THEN e ELSE order[i]]
    OBVIOUS
  <2>4. t \in Seq(Entries) /\ Len(t) = Len(order)
    BY <1>2, <2>3
  <2>5. \A i \in 1 .. Len(order) : t[i] = IF i = k THEN e ELSE order[i]
    BY <1>2, <2>1, <2>3 DEF Distinct
  <2>6. Chain(list_replace(links, order[k], e), t)
    BY <1>1, <2>2, <2>4, <2>5, ChainReplace
  <2> QED
    BY <1>6, <2>1, <2>3, <2>6 DEF ReplaceEntry
<1>7. ASSUME NEW gone, NEW way \in {"next", "prev"}, RemoveSome(gone, way) PROVE Chain(links', order')
  BY <1>1, <1>7, ChainLoopForward, ChainLoopBackward DEF RemoveSome
<1>8. CASE UNCHANGED listVars
  BY <1>1, <1>8 DEF listVars
<1> QED
  BY <1>4, <1>5, <1>6, <1>7, <1>8 DEF ListNext

\* list.h: whatever is linked, taken out, replaced and linked again, by loops
\* that remove the entry they are at too, the list is one sequence, the same
\* forward and backward.
THEOREM ListIsOneSequence == ListSpec => []ListIsSequence
<1>1. ListInv => ListIsSequence
  <2> SUFFICES ASSUME Chain(links, order) PROVE ListIsSequence
    BY DEF ListInv
  <2>1. list_empty(links) <=> order = <<>>
    <3>1. order \in Seq(Entries) /\ Len(order) \in Nat /\ 0 + 1 = 1 /\ 0 \in 0 .. Len(order)
      BY DEF Chain
    <3>2. links.next[Cell(order, 0)] = Cell(order, 1) /\ Cell(order, 0) = ListHeadNode
      BY <3>1 DEF Chain, Cell
    <3>3. Cell(order, 1) = ListHeadNode <=> Len(order) = 0
      BY <3>1, CellIn
    <3>4. Len(order) = 0 <=> order = <<>>
      BY <3>1
    <3> QED
      BY <3>2, <3>3, <3>4 DEF list_empty
  <2> QED
    BY <2>1, ChainVisited DEF ListIsSequence
<1> QED
  BY <1>1, ListInitInv, ListNextInv, PTL DEF ListSpec

(***************************************************************************)
(*                       str.c, str.h and ptr.h                            *)
(***************************************************************************)
StrByte == {Unset, "NUL"} \cup STRING

(* A header and its block: as many bytes as the capacity and a terminator.  *)
Str(s) ==
    /\ s \in [len : Nat, cap : Nat, data : Seq(StrByte)]
    /\ Len(s.data) = s.cap + 1 /\ s.len <= s.cap

Reads(s, t) == s.len = Len(t) /\ \A i \in 1 .. Len(t) : s.data[i] = t[i]

Terminated(s) == s.data[s.len + 1] = "NUL"

(* A string counts characters of its block: those asked for, with their     *)
(* terminator, unless string_cats was asked for some.                       *)
StrInv ==
    /\ Str(str) /\ counted \in [text : Seq(STRING), crossed : BOOLEAN]
    /\ \E t \in Seq(STRING) : Reads(str, t) /\ (~counted.crossed => t = counted.text)
    /\ ~counted.crossed => Terminated(str)

CountedBlock == [ref : Nat \ {0}, data : Seq(StrByte), freed : BOOLEAN]

(* What a holder wrote is in its block, which is there; a block that two    *)
(* hold counts more than one, as ptr_free counts a copy down.               *)
PtrInv ==
    /\ ptr \in Seq(CountedBlock) /\ held \in Seq([block : Nat, wrote : Seq(STRING)])
    /\ \A h \in 1 .. Len(held) :
           /\ held[h].block \in 1 .. Len(ptr)
           /\ ~ptr[held[h].block].freed
           /\ Len(held[h].wrote) <= Len(ptr[held[h].block].data)
           /\ \A i \in 1 .. Len(held[h].wrote) : ptr[held[h].block].data[i] = held[h].wrote[i]
    /\ \A h, k \in 1 .. Len(held) :
           h # k /\ held[h].block = held[k].block => ptr[held[h].block].ref # 1

CountedInv == StrInv /\ PtrInv

LEMMA BytesAreCopied ==
    ASSUME NEW B, NEW d \in Seq(B), NEW at \in Nat, NEW w \in Seq(B)
    PROVE  /\ BytesCopied(d, at, w) \in Seq(B) /\ Len(BytesCopied(d, at, w)) = Len(d)
           /\ \A i \in 1 .. Len(d) : i <= at => BytesCopied(d, at, w)[i] = d[i]
           /\ \A i \in 1 .. Len(w) : at + i <= Len(d) => BytesCopied(d, at, w)[at + i] = w[i]
<1> DEFINE c == BytesCopied(d, at, w)
<1>1. c = [i \in 1 .. Len(d) |-> IF i \in (at + 1) .. (at + Len(w)) THEN w[i - at] ELSE d[i]]
  BY DEF BytesCopied
<1>2. \A i \in 1 .. Len(d) : i \in (at + 1) .. (at + Len(w)) => i - at \in 1 .. Len(w)
  OBVIOUS
<1>3. \A i \in 1 .. Len(d) : c[i] \in B
  <2>1. \A i \in 1 .. Len(w) : w[i] \in B
    OBVIOUS
  <2>2. \A i \in 1 .. Len(d) : d[i] \in B
    OBVIOUS
  <2> QED
    BY <1>1, <1>2, <2>1, <2>2
<1>4. c \in Seq(B) /\ Len(c) = Len(d)
  <2> HIDE DEF c
  <2>1. Len(d) \in Nat /\ c = [i \in 1 .. Len(d) |-> c[i]]
    BY <1>1
  <2> QED
    BY <1>3, <2>1
<1>5. ASSUME NEW i \in 1 .. Len(w), at + i <= Len(d) PROVE c[at + i] = w[i]
  <2>1. at + i \in 1 .. Len(d) /\ at + i \in (at + 1) .. (at + Len(w)) /\ (at + i) - at = i
    BY <1>5
  <2> QED
    BY <1>1, <2>1
<1>6. ASSUME NEW i \in 1 .. Len(d), i <= at PROVE c[i] = d[i]
  <2>1. i \notin (at + 1) .. (at + Len(w))
    BY <1>6
  <2> QED
    BY <1>1, <2>1
<1> QED
  BY <1>4, <1>5, <1>6

(* The capacity found is what was asked for at least.                       *)
LEMMA CapacityEnough ==
    ASSUME NEW m \in Nat
    PROVE  GrownCap(MinCap, m) \in Nat \ {0} /\ GrownCap(MinCap, m) >= m
<1> DEFINE s == [c \in Nat \ {0} |-> IF m <= LargeCap THEN 2 * c ELSE c + LargeCap]
           G(g) == g = [c \in Nat \ {0} |->
                           IF c >= m THEN c
                           ELSE g[IF m <= LargeCap THEN 2 * c ELSE c + LargeCap]]
           grown == CHOOSE g : G(g)
<1>1. s \in [Nat \ {0} -> Nat \ {0}] /\ \A c \in Nat \ {0} : s[c] > c
  BY StrAssumption
<1>2. \A g : g = Climbed(s, m, g) <=> G(g)
  BY DEF Climbed
<1>3. \E g : G(g)
  <2>1. \E g : g = Climbed(s, m, g)
    <3> HIDE DEF s, G
    <3> QED
      BY <1>1, ClimbExists
  <2> QED
    BY <1>2, <2>1
<1>4. G(grown)
  <2> HIDE DEF G
  <2> QED
    BY <1>3
<1>5. grown = Climbed(s, m, grown)
  <2> HIDE DEF G, grown, s
  <2> QED
    BY <1>2, <1>4
<1>6. PICK g : g = grown
  OBVIOUS
<1>7. \A c \in Nat \ {0} : g[c] \in Nat \ {0} /\ g[c] >= m /\ g[c] >= c
  <2> HIDE DEF grown, s, G
  <2>1. g = Climbed(s, m, g)
    BY <1>5, <1>6
  <2> QED
    BY <1>1, <2>1, ClimbReaches
<1>8. GrownCap(MinCap, m) = g[MinCap]
  BY <1>6 DEF GrownCap
<1> QED
  BY <1>7, <1>8, StrAssumption

(* The text of a string is what SubSeq counts off its bytes.                *)
LEMMA ReadsCounts ==
    ASSUME NEW s, Str(s), NEW t \in Seq(STRING), Reads(s, t)
    PROVE  Counts(s) = t /\ s.len = Len(t)
<1>1. /\ s.data \in Seq(StrByte) /\ Len(s.data) = s.cap + 1 /\ s.len \in Nat /\ s.cap \in Nat
      /\ s.len <= s.cap /\ s.len = Len(t)
      /\ \A i \in 1 .. Len(t) : s.data[i] = t[i]
  BY DEF Str, Reads
<1>2. t \in Seq(StrByte)
  BY DEF StrByte
<1>3. SubSeq(s.data, 1, s.len) \in Seq(StrByte) /\ Len(SubSeq(s.data, 1, s.len)) = s.len
      /\ \A i \in 1 .. s.len : SubSeq(s.data, 1, s.len)[i] = s.data[i]
  BY <1>1
<1> QED
  BY <1>1, <1>2, <1>3 DEF Counts

LEMMA MallocString ==
    ASSUME NEW n \in Nat
    PROVE  /\ Str(str_malloc(n)) /\ str_malloc(n).cap >= n /\ str_malloc(n).len = 0
           /\ Terminated(str_malloc(n))
<1>1. PICK c : c = GrownCap(MinCap, n + HeadSize + 1)
  OBVIOUS
<1>2. c \in Nat /\ c >= n + HeadSize + 1 /\ HeadSize \in Nat
  BY <1>1, CapacityEnough, StrAssumption
<1>3. str_malloc(n) = [len |-> 0, cap |-> (c - HeadSize) - 1,
                       data |-> Ended(Unwritten(c - HeadSize), 0, <<>>)]
  BY <1>1 DEF str_malloc
<1>4. PICK d : d = Unwritten(c - HeadSize)
  OBVIOUS
<1>5. d \in Seq(StrByte) /\ Len(d) = c - HeadSize
  BY <1>2, <1>4 DEF Unwritten, StrByte
<1>6. PICK w : w = Append(<<>>, "NUL")
  OBVIOUS
<1>7. w \in Seq(StrByte) /\ Len(w) = 1 /\ w[1] = "NUL"
  BY <1>6 DEF StrByte
<1>8. PICK e : e = BytesCopied(d, 0, w)
  OBVIOUS
<1>9. e \in Seq(StrByte) /\ Len(e) = c - HeadSize /\ e[1] = "NUL"
  <2>1. /\ e \in Seq(StrByte) /\ Len(e) = Len(d)
        /\ \A i \in 1 .. Len(w) : 0 + i <= Len(d) => e[0 + i] = w[i]
    BY <1>5, <1>7, <1>8, BytesAreCopied
  <2>2. 1 \in 1 .. Len(w) /\ 0 + 1 <= Len(d) /\ 0 + 1 = 1
    BY <1>2, <1>5, <1>7
  <2>3. e[0 + 1] = w[1]
    BY <2>1, <2>2
  <2> QED
    BY <1>5, <1>7, <2>1, <2>2, <2>3
<1>10. str_malloc(n) = [len |-> 0, cap |-> (c - HeadSize) - 1, data |-> e]
  BY <1>3, <1>4, <1>6, <1>8 DEF Ended
<1> QED
  BY <1>2, <1>9, <1>10 DEF Str, Terminated

(* memcpy of w behind the first at bytes of a string, and a terminator.     *)
LEMMA EndedText ==
    ASSUME NEW s, Str(s), NEW at \in Nat, NEW w \in Seq(STRING), at + Len(w) <= s.cap
    PROVE  /\ Ended(s.data, at, w) \in Seq(StrByte) /\ Len(Ended(s.data, at, w)) = Len(s.data)
           /\ \A i \in 1 .. at : Ended(s.data, at, w)[i] = s.data[i]
           /\ \A i \in 1 .. Len(w) : Ended(s.data, at, w)[at + i] = w[i]
           /\ Ended(s.data, at, w)[(at + Len(w)) + 1] = "NUL"
<1>1. s.data \in Seq(StrByte) /\ Len(s.data) = s.cap + 1 /\ s.cap \in Nat
  BY DEF Str
<1>2. PICK v : v = Append(w, "NUL")
  OBVIOUS
<1>3. /\ v \in Seq(StrByte) /\ Len(v) = Len(w) + 1 /\ v[Len(w) + 1] = "NUL"
      /\ \A i \in 1 .. Len(w) : v[i] = w[i]
  <2>1. w \in Seq(StrByte) /\ "NUL" \in StrByte
    BY DEF StrByte
  <2> QED
    BY <1>2, <2>1
<1>4. PICK e : e = BytesCopied(s.data, at, v)
  OBVIOUS
<1>5. PICK d : d = s.data
  OBVIOUS
<1>6. /\ e \in Seq(StrByte) /\ Len(e) = Len(d)
      /\ \A i \in 1 .. Len(d) : i <= at => e[i] = d[i]
      /\ \A i \in 1 .. Len(v) : at + i <= Len(d) => e[at + i] = v[i]
  BY <1>1, <1>3, <1>4, <1>5, BytesAreCopied
<1>7. Len(d) = s.cap + 1 /\ d \in Seq(StrByte)
  BY <1>1, <1>5
<1>8. \A i \in 1 .. at : e[i] = d[i]
  <2>1. Len(w) \in Nat
    OBVIOUS
  <2>2. \A i \in 1 .. at : i \in 1 .. Len(d) /\ i <= at
    BY <1>1, <1>7, <2>1
  <2> QED
    BY <1>6, <2>2
<1>9. \A i \in 1 .. Len(w) : e[at + i] = w[i]
  BY <1>1, <1>3, <1>6, <1>7
<1>10. e[(at + Len(w)) + 1] = "NUL"
  <2>1. Len(w) + 1 \in 1 .. Len(v) /\ at + (Len(w) + 1) <= Len(d)
    BY <1>1, <1>3, <1>7
  <2>2. e[at + (Len(w) + 1)] = "NUL"
    BY <1>3, <1>6, <2>1
  <2>3. at + (Len(w) + 1) = (at + Len(w)) + 1
    OBVIOUS
  <2> QED
    BY <2>2, <2>3
<1>11. e = Ended(s.data, at, w)
  BY <1>2, <1>4 DEF Ended
<1> QED
  BY <1>5, <1>6, <1>8, <1>9, <1>10, <1>11

LEMMA FillString ==
    ASSUME NEW s, Str(s), NEW w \in Seq(STRING), Len(w) <= s.cap
    PROVE  Str(FilledWith(s, w)) /\ Reads(FilledWith(s, w), w) /\ Terminated(FilledWith(s, w))
<1>1. PICK e : e = Ended(s.data, 0, w)
  OBVIOUS
<1>2. /\ e \in Seq(StrByte) /\ Len(e) = Len(s.data)
      /\ \A i \in 1 .. Len(w) : e[0 + i] = w[i]
      /\ e[(0 + Len(w)) + 1] = "NUL"
  <2>1. 0 + Len(w) <= s.cap
    BY DEF Str
  <2> QED
    BY <1>1, <2>1, EndedText
<1>3. PICK f : f = FilledWith(s, w)
  OBVIOUS
<1>4. f.len = Len(w) /\ f.cap = s.cap /\ f.data = e /\ f \in [len : Nat, cap : Nat, data : Seq(StrByte)]
  <2>1. f = [s EXCEPT !.len = Len(w), !.data = e]
    BY <1>1, <1>3 DEF FilledWith
  <2>2. s \in [len : Nat, cap : Nat, data : Seq(StrByte)] /\ Len(w) \in Nat /\ e \in Seq(StrByte)
    BY <1>2 DEF Str
  <2> QED
    BY <2>1, <2>2
<1>5. 0 + Len(w) = Len(w) /\ \A i \in 1 .. Len(w) : 0 + i = i
  OBVIOUS
<1>6. Str(f)
  BY <1>2, <1>4 DEF Str
<1>7. Reads(f, w)
  BY <1>2, <1>4, <1>5 DEF Reads
<1>8. Terminated(f)
  BY <1>2, <1>4, <1>5 DEF Terminated
<1> QED
  BY <1>3, <1>6, <1>7, <1>8

LEMMA FromWord ==
    ASSUME NEW w \in Seq(STRING)
    PROVE  Str(str_from_cstr(w)) /\ Reads(str_from_cstr(w), w) /\ Terminated(str_from_cstr(w))
<1>1. PICK s : s = str_malloc(Len(w))
  OBVIOUS
<1>2. Str(s) /\ Len(w) <= s.cap
  <2>1. Len(w) \in Nat
    OBVIOUS
  <2>2. Str(str_malloc(Len(w))) /\ str_malloc(Len(w)).cap >= Len(w)
    BY <2>1, MallocString
  <2>3. Str(s) /\ s.cap >= Len(w)
    BY <1>1, <2>2
  <2>4. s.cap \in Nat
    BY <2>3 DEF Str
  <2> QED
    BY <2>1, <2>3, <2>4
<1> QED
  BY <1>1, <1>2, FillString DEF str_from_cstr

(* What a copy has of the string: its length and the bytes up to one behind. *)
SameBytes(s, c) == c.len = s.len /\ \A i \in 1 .. s.len + 1 : c.data[i] = s.data[i]

LEMMA CopyString ==
    ASSUME NEW s, Str(s), NEW into, Str(into), s.len <= into.cap
    PROVE  /\ Str(CopyOf(s, into)) /\ CopyOf(s, into).cap = into.cap
           /\ SameBytes(s, CopyOf(s, into))
<1>1. /\ s.data \in Seq(StrByte) /\ Len(s.data) = s.cap + 1 /\ s.len \in Nat /\ s.cap \in Nat
      /\ s.len <= s.cap
      /\ into.data \in Seq(StrByte) /\ Len(into.data) = into.cap + 1 /\ into.cap \in Nat
  BY DEF Str
<1>2. PICK v : v = SubSeq(s.data, 1, s.len + 1)
  OBVIOUS
<1>3. v \in Seq(StrByte) /\ Len(v) = s.len + 1 /\ \A i \in 1 .. s.len + 1 : v[i] = s.data[i]
  BY <1>1, <1>2
<1>4. PICK d : d = into.data
  OBVIOUS
<1>5. PICK e : e = BytesCopied(d, 0, v)
  OBVIOUS
<1>6. /\ e \in Seq(StrByte) /\ Len(e) = Len(d)
      /\ \A i \in 1 .. Len(v) : 0 + i <= Len(d) => e[0 + i] = v[i]
  BY <1>1, <1>3, <1>4, <1>5, BytesAreCopied
<1>7. \A i \in 1 .. s.len + 1 : e[i] = s.data[i]
  <2> TAKE i \in 1 .. s.len + 1
  <2>1. i \in 1 .. Len(v) /\ 0 + i <= Len(d) /\ 0 + i = i
    BY <1>1, <1>3, <1>4
  <2> QED
    BY <1>3, <1>6, <2>1
<1>8. PICK c : c = CopyOf(s, into)
  OBVIOUS
<1>9. c.len = s.len /\ c.cap = into.cap /\ c.data = e /\ c \in [len : Nat, cap : Nat, data : Seq(StrByte)]
  BY <1>1, <1>2, <1>4, <1>5, <1>6, <1>8 DEF CopyOf, Str
<1> QED
  BY <1>1, <1>4, <1>6, <1>7, <1>8, <1>9 DEF Str, SameBytes

LEMMA GrowString ==
    ASSUME NEW s, Str(s), NEW n \in Nat
    PROVE  Str(str_grow(s, n)) /\ str_grow(s, n).cap >= n /\ SameBytes(s, str_grow(s, n))
<1>1. CASE n <= s.cap
  BY <1>1 DEF str_grow, SameBytes
<1>2. CASE ~(n <= s.cap)
  <2>1. PICK m : m = str_malloc(n)
    OBVIOUS
  <2>2. Str(m) /\ m.cap >= n
    BY <2>1, MallocString
  <2>3. s.len <= m.cap
    BY <1>2, <2>2 DEF Str
  <2>4. str_grow(s, n) = CopyOf(s, m)
    BY <1>2, <2>1 DEF str_grow
  <2> QED
    BY <2>2, <2>3, <2>4, CopyString
<1> QED
  BY <1>1, <1>2

LEMMA CopyReads ==
    ASSUME NEW s, Str(s), NEW t \in Seq(STRING), Reads(s, t), NEW c, SameBytes(s, c)
    PROVE  Reads(c, t) /\ (Terminated(s) => Terminated(c))
<1>1. s.len \in Nat /\ s.len = Len(t)
  BY DEF Str, Reads
<1> QED
  BY <1>1 DEF Reads, SameBytes, Terminated

LEMMA GrownForRoom ==
    ASSUME NEW s, Str(s), NEW w \in Seq(STRING)
    PROVE  /\ Str(GrownFor(s, w)) /\ s.len + Len(w) <= GrownFor(s, w).cap
           /\ SameBytes(s, GrownFor(s, w))
<1>1. s.len + Len(w) \in Nat /\ s.cap \in Nat
  BY DEF Str
<1>2. CASE s.len + Len(w) > s.cap
  <2>1. GrownFor(s, w) = str_grow(s, s.len + Len(w))
    BY <1>2 DEF GrownFor
  <2>2. Str(str_grow(s, s.len + Len(w))) /\ str_grow(s, s.len + Len(w)).cap >= s.len + Len(w)
        /\ SameBytes(s, str_grow(s, s.len + Len(w)))
    BY <1>1, GrowString
  <2> QED
    BY <1>1, <2>1, <2>2 DEF Str
<1>3. CASE ~(s.len + Len(w) > s.cap)
  BY <1>1, <1>3 DEF GrownFor, SameBytes
<1> QED
  BY <1>2, <1>3

RoomMade(s, w, g) == g = GrownFor(s, w)
TextBehind(s, w, g, e) == e = Ended(g.data, s.len, w)

(* What the bytes of a string are after w is copied behind its text.        *)
LEMMA BehindText ==
    ASSUME NEW s, Str(s), NEW t \in Seq(STRING), Reads(s, t), NEW w \in Seq(STRING),
           NEW g, RoomMade(s, w, g), NEW e, TextBehind(s, w, g, e)
    PROVE  /\ g \in [len : Nat, cap : Nat, data : Seq(StrByte)] /\ g.len = Len(t)
           /\ s.len + Len(w) <= g.cap /\ e \in Seq(StrByte) /\ Len(e) = g.cap + 1
           /\ \A i \in 1 .. Len(t \o w) : e[i] = (t \o w)[i]
           /\ e[Len(t \o w) + 1] = "NUL"
<1>1. /\ Str(g) /\ s.len + Len(w) <= g.cap /\ SameBytes(s, g) /\ s.len \in Nat /\ s.len = Len(t)
  <2>1. Str(g) /\ s.len + Len(w) <= g.cap /\ SameBytes(s, g)
    BY GrownForRoom DEF RoomMade
  <2> QED
    BY <2>1 DEF Str, Reads
<1>2. /\ e \in Seq(StrByte) /\ Len(e) = Len(g.data)
      /\ \A i \in 1 .. s.len : e[i] = g.data[i]
      /\ \A i \in 1 .. Len(w) : e[s.len + i] = w[i]
      /\ e[(s.len + Len(w)) + 1] = "NUL"
  BY <1>1, EndedText DEF TextBehind
<1>3. Len(t \o w) = Len(t) + Len(w)
  OBVIOUS
<1>4. ASSUME NEW i \in 1 .. Len(t \o w) PROVE e[i] = (t \o w)[i]
  <2>1. CASE i <= Len(t)
    <3>1. i \in 1 .. s.len /\ i \in 1 .. s.len + 1 /\ i \in 1 .. Len(t) /\ (t \o w)[i] = t[i]
      BY <1>1, <2>1
    <3>2. g.data[i] = s.data[i] /\ s.data[i] = t[i]
      BY <1>1, <3>1 DEF SameBytes, Reads
    <3> QED
      BY <1>2, <3>1, <3>2
  <2>2. CASE ~(i <= Len(t))
    <3>1. i - Len(t) \in 1 .. Len(w) /\ Len(t) + (i - Len(t)) = i
          /\ (t \o w)[i] = w[i - Len(t)]
      BY <1>3, <2>2
    <3> QED
      BY <1>1, <1>2, <3>1
  <2> QED
    BY <2>1, <2>2
<1> QED
  BY <1>1, <1>2, <1>3, <1>4 DEF Str, SameBytes

LEMMA AppendString ==
    ASSUME NEW s, Str(s), NEW t \in Seq(STRING), Reads(s, t), NEW w \in Seq(STRING)
    PROVE  /\ Str(str_append(s, w)) /\ Reads(str_append(s, w), t \o w)
           /\ Terminated(str_append(s, w))
<1>1. PICK g : g = GrownFor(s, w)
  OBVIOUS
<1>2. PICK e : e = Ended(g.data, s.len, w)
  OBVIOUS
<1>3. /\ g \in [len : Nat, cap : Nat, data : Seq(StrByte)] /\ g.len = Len(t)
      /\ s.len + Len(w) <= g.cap /\ e \in Seq(StrByte) /\ Len(e) = g.cap + 1
      /\ \A i \in 1 .. Len(t \o w) : e[i] = (t \o w)[i]
      /\ e[Len(t \o w) + 1] = "NUL"
  <2>1. RoomMade(s, w, g) /\ TextBehind(s, w, g, e)
    BY <1>1, <1>2 DEF RoomMade, TextBehind
  <2> QED
    BY <2>1, BehindText
<1>4. PICK a : a = str_append(s, w)
  OBVIOUS
<1>5. s.len = Len(t) /\ Len(t \o w) = Len(t) + Len(w) /\ Len(t) \in Nat /\ Len(w) \in Nat
  BY DEF Reads
<1>6. a = [g EXCEPT !.data = e, !.len = s.len + Len(w)]
  BY <1>1, <1>2, <1>4 DEF str_append
<1>7. a \in [len : Nat, cap : Nat, data : Seq(StrByte)] /\ a.len = Len(t \o w) /\ a.cap = g.cap /\ a.data = e
  <2>1. s.len + Len(w) = Len(t \o w) /\ s.len + Len(w) \in Nat /\ e \in Seq(StrByte)
    BY <1>3, <1>5
  <2>2. g \in [len : Nat, cap : Nat, data : Seq(StrByte)]
    BY <1>3
  <2> QED
    BY <1>6, <2>1, <2>2
<1> QED
  BY <1>3, <1>4, <1>5, <1>7 DEF Str, Reads, Terminated

LEMMA CatsString ==
    ASSUME NEW s, Str(s), NEW t \in Seq(STRING), Reads(s, t), NEW w \in Seq(STRING)
    PROVE  Str(string_cats(s, w)) /\ Reads(string_cats(s, w), t)
<1>1. PICK g : g = GrownFor(s, w)
  OBVIOUS
<1>2. PICK e : e = Ended(g.data, s.len, w)
  OBVIOUS
<1>3. /\ g \in [len : Nat, cap : Nat, data : Seq(StrByte)] /\ g.len = Len(t)
      /\ s.len + Len(w) <= g.cap /\ e \in Seq(StrByte) /\ Len(e) = g.cap + 1
      /\ \A i \in 1 .. Len(t \o w) : e[i] = (t \o w)[i]
  <2>1. RoomMade(s, w, g) /\ TextBehind(s, w, g, e)
    BY <1>1, <1>2 DEF RoomMade, TextBehind
  <2> QED
    BY <2>1, BehindText
<1>4. \A i \in 1 .. Len(t) : e[i] = t[i]
  <2> TAKE i \in 1 .. Len(t)
  <2>1. i \in 1 .. Len(t \o w) /\ (t \o w)[i] = t[i]
    OBVIOUS
  <2> QED
    BY <1>3, <2>1
<1>5. PICK a : a = string_cats(s, w)
  OBVIOUS
<1>6. a = [g EXCEPT !.data = e]
  BY <1>1, <1>2, <1>5 DEF string_cats
<1>7. a \in [len : Nat, cap : Nat, data : Seq(StrByte)] /\ a.len = Len(t) /\ a.cap = g.cap /\ a.data = e
  BY <1>3, <1>6
<1>8. s.len = Len(t) /\ s.len \in Nat
  BY DEF Reads, Str
<1> QED
  BY <1>3, <1>4, <1>5, <1>7, <1>8 DEF Str, Reads

LEMMA TrimString ==
    ASSUME NEW s, Str(s), NEW t \in Seq(STRING), Reads(s, t), NEW n \in Nat, n < Len(t)
    PROVE  /\ Str(str_trim(s, n)) /\ Reads(str_trim(s, n), SubSeq(t, 1, n))
           /\ Terminated(str_trim(s, n))
<1>1. PICK e : e = Ended(s.data, n, <<>>)
  OBVIOUS
<1>2. s.len = Len(t) /\ s.len <= s.cap /\ s.cap \in Nat /\ n + 0 <= s.cap
  BY DEF Reads, Str
<1>3. <<>> \in Seq(STRING) /\ Len(<<>>) = 0 /\ (n + 0) + 1 = n + 1
  OBVIOUS
<1>4. /\ e \in Seq(StrByte) /\ Len(e) = Len(s.data)
      /\ \A i \in 1 .. n : e[i] = s.data[i]
      /\ e[n + 1] = "NUL"
  <2>1. PICK v \in Seq(STRING) : v = <<>>
    BY <1>3
  <2>2. Len(v) = 0 /\ n + Len(v) <= s.cap
    BY <1>2, <2>1
  <2>3. /\ e \in Seq(StrByte) /\ Len(e) = Len(s.data)
        /\ \A i \in 1 .. n : e[i] = s.data[i]
        /\ e[(n + Len(v)) + 1] = "NUL"
    <3>1. e = Ended(s.data, n, v)
      BY <1>1, <2>1
    <3>2. /\ Ended(s.data, n, v) \in Seq(StrByte) /\ Len(Ended(s.data, n, v)) = Len(s.data)
          /\ \A i \in 1 .. n : Ended(s.data, n, v)[i] = s.data[i]
          /\ Ended(s.data, n, v)[(n + Len(v)) + 1] = "NUL"
      <4>1. n + Len(v) <= s.cap
        BY <2>2
      <4> QED
        BY <4>1, EndedText
    <3> QED
      BY <3>1, <3>2
  <2> QED
    BY <1>3, <2>2, <2>3
<1>5. PICK a : a = str_trim(s, n)
  OBVIOUS
<1>6. a = [s EXCEPT !.len = n, !.data = e]
  BY <1>1, <1>2, <1>5 DEF str_trim
<1>7. a \in [len : Nat, cap : Nat, data : Seq(StrByte)] /\ a.len = n /\ a.cap = s.cap /\ a.data = e
  BY <1>4, <1>6 DEF Str
<1>8. Len(SubSeq(t, 1, n)) = n /\ \A i \in 1 .. n : SubSeq(t, 1, n)[i] = t[i]
  OBVIOUS
<1>9. \A i \in 1 .. n : s.data[i] = t[i]
  BY DEF Reads
<1> QED
  BY <1>2, <1>4, <1>5, <1>7, <1>8, <1>9 DEF Str, Reads, Terminated

-----------------------------------------------------------------------------
LEMMA StringsStart == StrInit => StrInv
<1> SUFFICES ASSUME StrInit PROVE StrInv
  OBVIOUS
<1>1. PICK w \in Words : str = str_from_cstr(w) /\ counted = Counting(w, FALSE)
  BY DEF StrInit
<1>2. w \in Seq(STRING)
  BY StrAssumption
<1>3. Str(str) /\ Reads(str, w) /\ Terminated(str)
  BY <1>1, <1>2, FromWord
<1> QED
  BY <1>1, <1>2, <1>3 DEF StrInv, Counting

LEMMA StringsKeep == ASSUME StrInv, StrNext PROVE StrInv'
<1>1. /\ Str(str) /\ (~counted.crossed => Terminated(str))
      /\ counted.text \in Seq(STRING) /\ counted.crossed \in BOOLEAN
      /\ counted = [text |-> counted.text, crossed |-> counted.crossed]
  BY DEF StrInv
<1>2. PICK t \in Seq(STRING) : Reads(str, t) /\ (~counted.crossed => t = counted.text)
  BY DEF StrInv
<1>3. ASSUME NEW u \in Seq(STRING), NEW v \in Seq(STRING), NEW c \in BOOLEAN, counted' = Counting(v, c),
             Str(str'), Reads(str', u), ~c => u = v /\ Terminated(str')
      PROVE  StrInv'
  <2>1. counted'.text = v /\ counted'.crossed = c /\ counted' \in [text : Seq(STRING), crossed : BOOLEAN]
    BY <1>3 DEF Counting
  <2> QED
    BY <1>3, <2>1 DEF StrInv, Str, Reads, Terminated
<1>4. CASE AppendWord
  <2>1. PICK w \in Words : str' = str_append(str, w)
                           /\ counted' = Counting(counted.text \o w, counted.crossed)
    BY <1>4 DEF AppendWord
  <2>2. w \in Seq(STRING) /\ counted.text \o w \in Seq(STRING) /\ t \o w \in Seq(STRING)
    BY <1>1, <2>1, StrAssumption
  <2>3. Str(str') /\ Reads(str', t \o w) /\ Terminated(str')
    BY <1>1, <1>2, <2>1, <2>2, AppendString
  <2> QED
    BY <1>1, <1>2, <1>3, <2>1, <2>2, <2>3
<1>5. CASE CatSelf
  <2>1. str' = str_append(str, Counts(str_copy(str)))
        /\ counted' = Counting(counted.text \o counted.text, counted.crossed)
    BY <1>5 DEF CatSelf
  <2>2. PICK m : m = str_malloc(str.len)
    OBVIOUS
  <2>3. str.len \in Nat /\ Str(m) /\ m.cap >= str.len
    BY <1>1, <2>2, MallocString DEF Str
  <2>4. Str(str_copy(str)) /\ SameBytes(str, str_copy(str))
    BY <1>1, <2>2, <2>3, CopyString DEF str_copy, Str
  <2>5. Counts(str_copy(str)) = t
    BY <1>1, <1>2, <2>4, CopyReads, ReadsCounts
  <2>6. counted.text \o counted.text \in Seq(STRING) /\ t \o t \in Seq(STRING)
    BY <1>1
  <2>7. Str(str') /\ Reads(str', t \o t) /\ Terminated(str')
    BY <1>1, <1>2, <2>1, <2>5, AppendString
  <2> QED
    BY <1>1, <1>2, <1>3, <2>1, <2>6, <2>7
<1>6. CASE CatMany
  <2>1. PICK w1 \in Words, w2 \in Words : str' = string_cats(str, w1 \o w2)
                                          /\ counted' = Counting(counted.text \o (w1 \o w2), TRUE)
    BY <1>6 DEF CatMany
  <2>2. w1 \o w2 \in Seq(STRING) /\ counted.text \o (w1 \o w2) \in Seq(STRING)
    BY <1>1, <2>1, StrAssumption
  <2>3. Str(str') /\ Reads(str', t)
    BY <1>1, <1>2, <2>1, <2>2, CatsString
  <2> QED
    BY <1>3, <2>1, <2>2, <2>3
<1>7. CASE Trim
  <2>1. PICK n \in 0 .. MaxStr :
           /\ str' = str_trim(str, n)
           /\ counted' = IF n < Len(counted.text)
                         THEN Counting(SubSeq(counted.text, 1, n), counted.crossed) ELSE counted
    BY <1>7 DEF Trim
  <2>2. n \in Nat /\ Len(t) \in Nat /\ Len(counted.text) \in Nat /\ str.len = Len(t)
    BY <1>1, <1>2 DEF Reads
  <2>3. PICK v \in Seq(STRING) :
           /\ counted' = Counting(v, counted.crossed)
           /\ v = IF n < Len(counted.text) THEN SubSeq(counted.text, 1, n) ELSE counted.text
    <3>1. CASE n < Len(counted.text)
      <4>1. SubSeq(counted.text, 1, n) \in Seq(STRING)
        BY <1>1, <2>2, <3>1
      <4> QED
        BY <2>1, <3>1, <4>1
    <3>2. CASE ~(n < Len(counted.text))
      <4>1. counted' = Counting(counted.text, counted.crossed)
        BY <1>1, <2>1, <3>2 DEF Counting
      <4> QED
        BY <1>1, <3>2, <4>1
    <3> QED
      BY <3>1, <3>2
  <2>4. CASE n < Len(t)
    <3>1. SubSeq(t, 1, n) \in Seq(STRING)
      BY <2>2, <2>4
    <3>2. Str(str') /\ Reads(str', SubSeq(t, 1, n)) /\ Terminated(str')
      BY <1>1, <1>2, <2>1, <2>2, <2>4, TrimString
    <3>3. ~counted.crossed => SubSeq(t, 1, n) = v
      BY <1>2, <2>3, <2>4
    <3> QED
      BY <1>1, <1>3, <2>3, <3>1, <3>2, <3>3
  <2>5. CASE ~(n < Len(t))
    <3>1. str' = str
      BY <2>1, <2>2, <2>5 DEF str_trim
    <3>2. Str(str') /\ Reads(str', t)
      BY <1>1, <1>2, <3>1 DEF Str, Reads
    <3>3. ~counted.crossed => t = v /\ Terminated(str')
      BY <1>1, <1>2, <2>3, <2>5, <3>1 DEF Terminated
    <3> QED
      BY <1>1, <1>3, <2>3, <3>2, <3>3
  <2> QED
    BY <2>4, <2>5
<1>8. CASE Grow
  <2>1. PICK n \in StrCapacities : str' = str_grow(str, n) /\ counted' = counted
    BY <1>8 DEF Grow
  <2>2. n \in Nat
    BY StrAssumption
  <2>3. Str(str') /\ SameBytes(str, str')
    BY <1>1, <2>1, <2>2, GrowString
  <2>4. Reads(str', t) /\ (~counted.crossed => Terminated(str'))
    BY <1>1, <1>2, <2>3, CopyReads
  <2>5. counted' = Counting(counted.text, counted.crossed)
    BY <1>1, <2>1 DEF Counting
  <2> QED
    BY <1>1, <1>2, <1>3, <2>3, <2>4, <2>5
<1>9. CASE Replace
  <2>1. PICK w \in Words : str' = str_from_cstr(w) /\ counted' = Counting(w, FALSE)
    BY <1>9 DEF Replace
  <2>2. w \in Seq(STRING)
    BY StrAssumption
  <2>3. Str(str') /\ Reads(str', w) /\ Terminated(str')
    BY <2>1, <2>2, FromWord
  <2> QED
    BY <1>3, <2>1, <2>2, <2>3
<1> QED
  BY <1>4, <1>5, <1>6, <1>7, <1>8, <1>9 DEF StrNext

-----------------------------------------------------------------------------
Holder == [block : Nat, wrote : Seq(STRING)]

(* What holder g has in the blocks p.                                       *)
Intact(p, g) ==
    /\ g.block \in 1 .. Len(p) /\ ~p[g.block].freed
    /\ Len(g.wrote) <= Len(p[g.block].data)
    /\ \A i \in 1 .. Len(g.wrote) : p[g.block].data[i] = g.wrote[i]

Shared(p, hs) ==
    \A h, k \in 1 .. Len(hs) : h # k /\ hs[h].block = hs[k].block => p[hs[h].block].ref # 1

LEMMA PtrInvIs ==
    PtrInv <=> /\ ptr \in Seq(CountedBlock) /\ held \in Seq(Holder)
               /\ \A h \in 1 .. Len(held) : Intact(ptr, held[h])
               /\ Shared(ptr, held)
BY DEF PtrInv, Holder, Intact, Shared

LEMMA UnwrittenBytes ==
    ASSUME NEW n \in Nat PROVE Unwritten(n) \in Seq(StrByte) /\ Len(Unwritten(n)) = n
<1>1. Unset \in StrByte
  BY DEF StrByte
<1> QED
  BY <1>1 DEF Unwritten

LEMMA BlockStarts == PtrInit => PtrInv
<1> SUFFICES ASSUME PtrInit PROVE PtrInv
  OBVIOUS
<1>1. PICK u : u = Unwritten(1)
  OBVIOUS
<1>2. u \in Seq(StrByte) /\ Len(u) = 1
  BY <1>1, UnwrittenBytes
<1>3. PICK b : b = [ref |-> 1, data |-> u, freed |-> FALSE]
  OBVIOUS
<1>4. b \in CountedBlock /\ ~b.freed /\ b.data = u
  BY <1>2, <1>3 DEF CountedBlock
<1>5. ptr = <<b>>
  BY <1>1, <1>3 DEF PtrInit, ptr_malloc
<1>6. ptr \in Seq(CountedBlock) /\ Len(ptr) = 1 /\ ptr[1] = b
  BY <1>4, <1>5
<1>7. PICK g : g = [block |-> 1, wrote |-> <<>>]
  OBVIOUS
<1>8. g \in Holder /\ g.block = 1 /\ g.wrote = <<>>
  BY <1>7 DEF Holder
<1>9. held = <<g>>
  BY <1>7 DEF PtrInit
<1>10. held \in Seq(Holder) /\ Len(held) = 1 /\ held[1] = g
  BY <1>8, <1>9
<1>11. Intact(ptr, g)
  BY <1>2, <1>4, <1>6, <1>8 DEF Intact
<1> QED
  BY <1>6, <1>10, <1>11, PtrInvIs DEF Shared

LEMMA PutAt ==
    ASSUME NEW T, NEW p \in Seq(T), NEW b \in 1 .. Len(p), NEW x \in T
    PROVE  /\ [p EXCEPT ![b] = x] \in Seq(T) /\ Len([p EXCEPT ![b] = x]) = Len(p)
           /\ \A i \in 1 .. Len(p) : [p EXCEPT ![b] = x][i] = IF i = b THEN x ELSE p[i]
OBVIOUS

(* PtrInv of the next state, part by part.                                  *)
LEMMA PtrInvNext ==
    ASSUME ptr' \in Seq(CountedBlock), held' \in Seq(Holder),
           \A h \in 1 .. Len(held') : Intact(ptr', held'[h]), Shared(ptr', held')
    PROVE  PtrInv'
BY DEF PtrInv, Holder, Intact, Shared

(* The blocks after ptr_free: one that counts one is freed.                 *)
LEMMA FreedBlocks ==
    ASSUME NEW p \in Seq(CountedBlock), NEW b \in 1 .. Len(p)
    PROVE  /\ ptr_free(p, b) \in Seq(CountedBlock) /\ Len(ptr_free(p, b)) = Len(p)
           /\ \A i \in 1 .. Len(p) :
                  /\ ptr_free(p, b)[i].ref = p[i].ref /\ ptr_free(p, b)[i].data = p[i].data
                  /\ i # b \/ p[b].ref # 1 => ptr_free(p, b)[i] = p[i]
<1>1. CASE p[b].ref = 1
  <2>1. PICK x : x = [p[b] EXCEPT !.freed = TRUE]
    OBVIOUS
  <2>2. PICK q : q = [p EXCEPT ![b] = x]
    OBVIOUS
  <2>3. x \in CountedBlock /\ x.ref = p[b].ref /\ x.data = p[b].data
    <3>1. p[b] \in CountedBlock
      OBVIOUS
    <3> QED
      BY <2>1, <3>1 DEF CountedBlock
  <2>4. \A i \in 1 .. Len(p) : q[i] = IF i = b THEN x ELSE p[i]
    BY <2>2, <2>3, PutAt
  <2>5. q \in Seq(CountedBlock) /\ Len(q) = Len(p)
    BY <2>2, <2>3, PutAt
  <2>6. ptr_free(p, b) = q
    BY <1>1, <2>1, <2>2 DEF ptr_free
  <2> QED
    BY <1>1, <2>3, <2>4, <2>5, <2>6
<1>2. CASE p[b].ref # 1
  BY <1>2 DEF ptr_free
<1> QED
  BY <1>1, <1>2

LEMMA AddRefKeeps == ASSUME PtrInv, AddRef PROVE PtrInv'
<1>1. PICK h \in DOMAIN held :
         /\ ptr' = [ptr EXCEPT ![held[h].block].ref = @ + 1] /\ held' = Append(held, held[h])
  BY DEF AddRef
<1>2. /\ ptr \in Seq(CountedBlock) /\ held \in Seq(Holder) /\ h \in 1 .. Len(held)
      /\ \A k \in 1 .. Len(held) : Intact(ptr, held[k])
      /\ Shared(ptr, held)
  BY PtrInvIs
<1>3. PICK b : b = held[h].block
  OBVIOUS
<1>4. b \in 1 .. Len(ptr) /\ Intact(ptr, held[h])
  BY <1>2, <1>3 DEF Intact
<1>5. \A i \in 1 .. Len(ptr) : ptr[i] \in CountedBlock
  BY <1>2
<1>6. PICK q : q = ptr'
  OBVIOUS
<1>7. PICK x : x = [ptr[b] EXCEPT !.ref = @ + 1]
  OBVIOUS
<1>8. x \in CountedBlock /\ x.data = ptr[b].data /\ x.freed = ptr[b].freed /\ x.ref = ptr[b].ref + 1
  <2>1. PICK y \in CountedBlock : y = ptr[b]
    BY <1>4, <1>5
  <2>2. y.ref + 1 \in Nat \ {0}
    BY <2>1 DEF CountedBlock
  <2>3. x = [y EXCEPT !.ref = y.ref + 1]
    BY <1>7, <2>1
  <2> QED
    BY <2>1, <2>2, <2>3 DEF CountedBlock
<1>9. /\ q \in Seq(CountedBlock) /\ Len(q) = Len(ptr)
      /\ \A i \in 1 .. Len(ptr) : q[i] = IF i = b THEN x ELSE ptr[i]
  <2>1. q = [ptr EXCEPT ![b] = x]
    BY <1>1, <1>3, <1>6, <1>7
  <2> QED
    BY <1>2, <1>4, <1>8, <2>1, PutAt
<1>10. PICK g : g = held'
  OBVIOUS
<1>11. /\ g \in Seq(Holder) /\ Len(g) = Len(held) + 1 /\ g[Len(held) + 1] = held[h]
       /\ \A k \in 1 .. Len(held) : g[k] = held[k]
  <2>1. held[h] \in Holder
    BY <1>2
  <2> QED
    BY <1>1, <1>2, <1>10, <2>1
<1>12. ASSUME NEW k \in 1 .. Len(held) PROVE Intact(q, held[k])
  <2>1. PICK y \in 1 .. Len(ptr) : y = held[k].block /\ Intact(ptr, held[k])
    BY <1>2 DEF Intact
  <2>2. y \in 1 .. Len(q) /\ q[y].freed = ptr[y].freed /\ q[y].data = ptr[y].data
    BY <1>8, <1>9
  <2> QED
    BY <2>1, <2>2 DEF Intact
<1>13. \A k \in 1 .. Len(g) : Intact(q, g[k])
  BY <1>2, <1>11, <1>12
<1>14. Shared(q, g)
  <2> SUFFICES ASSUME NEW k \in 1 .. Len(g), NEW m \in 1 .. Len(g), k # m, g[k].block = g[m].block
               PROVE  q[g[k].block].ref # 1
    BY DEF Shared
  <2>1. \A i \in 1 .. Len(ptr) : ptr[i].ref \in Nat \ {0}
    BY <1>5 DEF CountedBlock
  <2>2. CASE g[k].block = b
    BY <1>4, <1>8, <1>9, <2>1, <2>2
  <2>3. CASE g[k].block # b
    <3>1. k \in 1 .. Len(held) /\ m \in 1 .. Len(held)
      BY <1>2, <1>3, <1>11, <2>3
    <3>2. g[k] = held[k] /\ g[m] = held[m] /\ held[k].block \in 1 .. Len(ptr)
      BY <1>2, <1>11, <3>1 DEF Intact
    <3> QED
      BY <1>2, <1>9, <2>3, <3>1, <3>2 DEF Shared
  <2> QED
    BY <2>2, <2>3
<1> QED
  BY <1>6, <1>9, <1>10, <1>11, <1>13, <1>14, PtrInvNext

LEMMA ReleaseKeeps == ASSUME PtrInv, Release PROVE PtrInv'
<1>1. PICK h \in DOMAIN held :
         /\ ptr' = ptr_free(ptr, held[h].block)
         /\ held' = [i \in 1 .. (Len(held) - 1) |-> IF i < h THEN held[i] ELSE held[i + 1]]
  BY DEF Release
<1>2. /\ ptr \in Seq(CountedBlock) /\ held \in Seq(Holder) /\ h \in 1 .. Len(held)
      /\ \A k \in 1 .. Len(held) : Intact(ptr, held[k])
      /\ Shared(ptr, held)
  BY <1>1, PtrInvIs
<1>3. PICK b : b = held[h].block
  OBVIOUS
<1>4. b \in 1 .. Len(ptr)
  BY <1>2, <1>3 DEF Intact
<1>5. PICK q : q = ptr'
  OBVIOUS
<1>6. /\ q \in Seq(CountedBlock) /\ Len(q) = Len(ptr)
      /\ \A i \in 1 .. Len(ptr) :
             /\ q[i].ref = ptr[i].ref /\ q[i].data = ptr[i].data
             /\ i # b \/ ptr[b].ref # 1 => q[i] = ptr[i]
  BY <1>1, <1>2, <1>3, <1>4, <1>5, FreedBlocks
<1>7. PICK g : g = held'
  OBVIOUS
<1>8. PICK n \in Nat : n = Len(held) - 1
  BY <1>2
\* Which of the holders before each is.
<1> DEFINE was(k) == IF k < h THEN k ELSE k + 1
<1>9. \A k \in 1 .. n : was(k) \in 1 .. Len(held) /\ was(k) # h
  BY <1>2, <1>8
<1>10. \A k, m \in 1 .. n : k # m => was(k) # was(m)
  BY <1>2, <1>8
<1>11. g = [k \in 1 .. n |-> held[was(k)]]
  BY <1>1, <1>7, <1>8
<1> HIDE DEF was
<1>12. g \in Seq(Holder) /\ Len(g) = n /\ \A k \in 1 .. n : g[k] = held[was(k)]
  <2>1. \A k \in 1 .. n : held[was(k)] \in Holder
    BY <1>2, <1>9
  <2> QED
    BY <1>11, <2>1
<1>13. ASSUME NEW k \in 1 .. n PROVE Intact(q, g[k])
  <2>1. PICK w \in 1 .. Len(held) : w = was(k) /\ w # h /\ g[k] = held[w]
    BY <1>9, <1>12
  <2>2. Intact(ptr, held[w])
    BY <1>2
  <2>3. held[w].block = b => ptr[b].ref # 1
    BY <1>2, <1>3, <2>1 DEF Shared
  <2>4. PICK y \in 1 .. Len(ptr) : y = held[w].block
    BY <2>2 DEF Intact
  <2>5. q[y] = ptr[y]
    BY <1>6, <2>3, <2>4
  <2>6. Intact(q, held[w])
    BY <1>6, <2>2, <2>4, <2>5 DEF Intact
  <2> QED
    BY <2>1, <2>6
<1>14. Shared(q, g)
  <2> SUFFICES ASSUME NEW k \in 1 .. n, NEW m \in 1 .. n, k # m, g[k].block = g[m].block
               PROVE  q[g[k].block].ref # 1
    BY <1>12 DEF Shared
  <2>1. was(k) \in 1 .. Len(held) /\ was(m) \in 1 .. Len(held) /\ was(k) # was(m)
        /\ g[k] = held[was(k)] /\ g[m] = held[was(m)]
    BY <1>9, <1>10, <1>12
  <2>2. ptr[held[was(k)].block].ref # 1 /\ held[was(k)].block \in 1 .. Len(ptr)
    BY <1>2, <2>1 DEF Shared, Intact
  <2> QED
    BY <1>6, <2>1, <2>2
<1> QED
  BY <1>5, <1>6, <1>7, <1>12, <1>13, <1>14, PtrInvNext

(* The blocks p after room is made for the holder of b: the others are as   *)
(* they were, and the holder's is b still, or a new one with its bytes.     *)
Roomy(p, b, end, q, c) ==
    /\ q \in Seq(CountedBlock) /\ Len(q) >= Len(p) /\ c \in 1 .. Len(q)
    /\ c = b \/ c = Len(p) + 1
    /\ ~q[c].freed \/ c = b
    /\ end <= Len(q[c].data) /\ Len(p[b].data) <= Len(q[c].data)
    /\ \A i \in 1 .. Len(p[b].data) : q[c].data[i] = p[b].data[i]
    /\ \A i \in 1 .. Len(p) : /\ q[i].ref = p[i].ref /\ q[i].data = p[i].data
                              /\ i # b \/ c = b \/ p[b].ref # 1 => q[i] = p[i]

MadeRoom(p, b, end, q, c) == q = RoomFor(p, b, end) /\ c = Moved(p, q, b)

LEMMA RoomIsMade ==
    ASSUME NEW p \in Seq(CountedBlock), NEW b \in 1 .. Len(p), NEW end \in Nat,
           NEW q, NEW c, MadeRoom(p, b, end, q, c)
    PROVE  Roomy(p, b, end, q, c)
<1>1. q = RoomFor(p, b, end) /\ c = Moved(p, q, b)
  BY DEF MadeRoom
<1>2. PICK old \in CountedBlock : old = p[b]
  OBVIOUS
<1>3. old.data \in Seq(StrByte) /\ Len(old.data) \in Nat
  BY DEF CountedBlock
<1>4. CASE ~(Len(old.data) < end)
  <2>1. q = p /\ c = b
    BY <1>1, <1>2, <1>4 DEF RoomFor, Moved
  <2> QED
    BY <1>2, <1>3, <1>4, <2>1 DEF Roomy
<1>5. CASE Len(old.data) < end
  <2>1. PICK u : u = Unwritten(Len(old.data) + end)
    OBVIOUS
  <2>2. u \in Seq(StrByte) /\ Len(u) = Len(old.data) + end
    BY <1>3, <2>1, UnwrittenBytes
  <2>3. PICK d : d = BytesCopied(u, 0, old.data)
    OBVIOUS
  <2>4. /\ d \in Seq(StrByte) /\ Len(d) = Len(u)
        /\ \A i \in 1 .. Len(old.data) : 0 + i <= Len(u) => d[0 + i] = old.data[i]
    <3>1. u \in Seq(StrByte) /\ 0 \in Nat /\ old.data \in Seq(StrByte)
      BY <1>3, <2>2
    <3>2. /\ BytesCopied(u, 0, old.data) \in Seq(StrByte)
          /\ Len(BytesCopied(u, 0, old.data)) = Len(u)
          /\ \A i \in 1 .. Len(old.data) :
                 0 + i <= Len(u) => BytesCopied(u, 0, old.data)[0 + i] = old.data[i]
      BY <3>1, BytesAreCopied
    <3> QED
      BY <2>3, <3>2
  <2>5. \A i \in 1 .. Len(old.data) : d[i] = old.data[i]
    <3> TAKE i \in 1 .. Len(old.data)
    <3>1. 0 + i = i /\ 0 + i <= Len(u)
      BY <1>3, <2>2
    <3> QED
      BY <2>4, <3>1
  <2>6. PICK x : x = [ref |-> 1, data |-> d, freed |-> FALSE]
    OBVIOUS
  <2>7. x \in CountedBlock /\ x.data = d /\ ~x.freed
    BY <2>4, <2>6 DEF CountedBlock
  <2>8. PICK a : a = Append(p, x)
    OBVIOUS
  <2>9. /\ a \in Seq(CountedBlock) /\ Len(a) = Len(p) + 1 /\ a[Len(p) + 1] = x
        /\ \A i \in 1 .. Len(p) : a[i] = p[i]
    BY <2>7, <2>8
  <2>10. q = ptr_free(a, b)
    BY <1>1, <1>2, <1>5, <2>1, <2>3, <2>6, <2>8 DEF RoomFor, ptr_expand, ptr_malloc
  <2>11. b \in 1 .. Len(a)
    BY <2>9
  <2>12. /\ q \in Seq(CountedBlock) /\ Len(q) = Len(a)
         /\ \A i \in 1 .. Len(a) :
                /\ q[i].ref = a[i].ref /\ q[i].data = a[i].data
                /\ i # b \/ a[b].ref # 1 => q[i] = a[i]
    BY <2>9, <2>10, <2>11, FreedBlocks
  <2>13. c = Len(p) + 1
    BY <1>1, <2>9, <2>12 DEF Moved
  <2>14. q[c] = x /\ c \in 1 .. Len(q) /\ c # b
    BY <2>9, <2>12, <2>13
  <2>15. /\ end <= Len(q[c].data) /\ Len(p[b].data) <= Len(q[c].data) /\ ~q[c].freed
         /\ \A i \in 1 .. Len(p[b].data) : q[c].data[i] = p[b].data[i]
    <3>1. q[c].data = d /\ p[b].data = old.data /\ ~q[c].freed
      BY <1>2, <2>7, <2>14
    <3>2. end <= Len(d) /\ Len(old.data) <= Len(d)
      BY <1>3, <2>2, <2>4
    <3> QED
      BY <2>5, <3>1, <3>2
  <2>16. ASSUME NEW i \in 1 .. Len(p)
         PROVE  /\ q[i].ref = p[i].ref /\ q[i].data = p[i].data
                /\ i # b \/ c = b \/ p[b].ref # 1 => q[i] = p[i]
    <3>1. i \in 1 .. Len(a) /\ a[i] = p[i] /\ a[b] = p[b]
      BY <2>9
    <3> QED
      BY <2>12, <2>14, <3>1
  <2>17. q \in Seq(CountedBlock) /\ Len(q) >= Len(p)
    BY <2>9, <2>12
  <2> QED
    BY <2>13, <2>14, <2>15, <2>16, <2>17 DEF Roomy
<1> QED
  BY <1>4, <1>5

LEMMA AppendKeeps == ASSUME PtrInv, AppendToBlock PROVE PtrInv'
<1>1. PICK h \in DOMAIN held, w \in Words :
         /\ \A i \in DOMAIN held : i # h => held[i].block # held[h].block \/ held[i].wrote = <<>>
         /\ WriteOn(h, w, RoomFor(ptr, held[h].block, Len(held[h].wrote) + Len(w)))
  BY DEF AppendToBlock
<1>2. /\ ptr \in Seq(CountedBlock) /\ held \in Seq(Holder) /\ h \in 1 .. Len(held)
      /\ \A k \in 1 .. Len(held) : Intact(ptr, held[k])
      /\ Shared(ptr, held)
  BY <1>1, PtrInvIs
<1>3. PICK me \in Holder : me = held[h]
  BY <1>2
<1>4. PICK b : b = me.block
  OBVIOUS
<1>5. PICK t : t = me.wrote
  OBVIOUS
<1>6. /\ b \in 1 .. Len(ptr) /\ ~ptr[b].freed /\ Len(t) <= Len(ptr[b].data)
      /\ \A i \in 1 .. Len(t) : ptr[b].data[i] = t[i]
  BY <1>2, <1>3, <1>4, <1>5 DEF Intact
<1>7. t \in Seq(STRING) /\ w \in Seq(STRING) /\ Len(t) + Len(w) \in Nat
  BY <1>1, <1>3, <1>5, StrAssumption DEF Holder
<1>8. PICK q : q = RoomFor(ptr, b, Len(t) + Len(w))
  OBVIOUS
<1>9. PICK c : c = Moved(ptr, q, b)
  OBVIOUS
<1>10. Roomy(ptr, b, Len(t) + Len(w), q, c)
  BY <1>2, <1>6, <1>7, <1>8, <1>9, RoomIsMade DEF MadeRoom
<1>11. PICK old \in CountedBlock : old = q[c]
  BY <1>10 DEF Roomy
<1>12. PICK d : d = BytesCopied(old.data, Len(t), w)
  OBVIOUS
<1>13. PICK x : x = [old EXCEPT !.data = d]
  OBVIOUS
<1>14. PICK r : r = [q EXCEPT ![c] = x]
  OBVIOUS
<1>15. ptr' = r
  BY <1>1, <1>3, <1>4, <1>5, <1>8, <1>9, <1>11, <1>12, <1>13, <1>14 DEF WriteOn, BlockWritten
<1>16. PICK now : now = [block |-> c, wrote |-> t \o w]
  OBVIOUS
<1>17. held' = [held EXCEPT ![h] = now]
  BY <1>1, <1>3, <1>4, <1>5, <1>8, <1>9, <1>16 DEF WriteOn
<1>18. now \in Holder /\ now.block = c /\ now.wrote = t \o w
  BY <1>7, <1>10, <1>16 DEF Holder, Roomy
<1>19. PICK g : g = held'
  OBVIOUS
<1>20. g \in Seq(Holder) /\ Len(g) = Len(held) /\ \A k \in 1 .. Len(held) : g[k] = IF k = h THEN now ELSE held[k]
  BY <1>2, <1>17, <1>18, <1>19, PutAt
<1>21. old.data \in Seq(StrByte) /\ w \in Seq(StrByte) /\ Len(t) \in Nat
  BY <1>7 DEF CountedBlock, StrByte
<1>22. /\ d \in Seq(StrByte) /\ Len(d) = Len(old.data)
       /\ \A i \in 1 .. Len(old.data) : i <= Len(t) => d[i] = old.data[i]
       /\ \A i \in 1 .. Len(w) : Len(t) + i <= Len(old.data) => d[Len(t) + i] = w[i]
  BY <1>12, <1>21, BytesAreCopied
<1>23. x \in CountedBlock /\ x.data = d /\ x.ref = old.ref /\ x.freed = old.freed
  BY <1>13, <1>22 DEF CountedBlock
<1>24. r \in Seq(CountedBlock) /\ Len(r) = Len(q) /\ \A i \in 1 .. Len(q) : r[i] = IF i = c THEN x ELSE q[i]
  BY <1>10, <1>14, <1>23, PutAt DEF Roomy
<1>25. /\ Len(q) >= Len(ptr) /\ c \in 1 .. Len(q) /\ (c = b \/ c = Len(ptr) + 1)
       /\ ~old.freed
       /\ Len(t) + Len(w) <= Len(old.data) /\ Len(ptr[b].data) <= Len(old.data)
       /\ \A i \in 1 .. Len(ptr[b].data) : old.data[i] = ptr[b].data[i]
       /\ \A i \in 1 .. Len(ptr) : /\ q[i].ref = ptr[i].ref /\ q[i].data = ptr[i].data
                                   /\ i # b \/ c = b \/ ptr[b].ref # 1 => q[i] = ptr[i]
  BY <1>6, <1>10, <1>11 DEF Roomy
<1>26. Intact(r, now)
  <2>1. Len(t \o w) = Len(t) + Len(w) /\ Len(t \o w) <= Len(d)
    BY <1>7, <1>22, <1>25
  <2>2. ASSUME NEW i \in 1 .. Len(t \o w) PROVE d[i] = (t \o w)[i]
    <3>0. Len(t) \in Nat /\ Len(w) \in Nat /\ Len(old.data) \in Nat /\ Len(ptr[b].data) \in Nat
      <4>1. ptr[b] \in CountedBlock
        BY <1>2, <1>6
      <4> QED
        BY <1>7, <1>21, <4>1 DEF CountedBlock
    <3>1. CASE i <= Len(t)
      <4>1. i \in 1 .. Len(t) /\ i \in 1 .. Len(ptr[b].data) /\ i \in 1 .. Len(old.data)
        BY <1>6, <1>25, <3>0, <3>1
      <4>2. (t \o w)[i] = t[i]
        BY <1>7, <4>1
      <4> QED
        BY <1>6, <1>22, <1>25, <3>1, <4>1, <4>2
    <3>2. CASE ~(i <= Len(t))
      <4>1. i - Len(t) \in 1 .. Len(w) /\ Len(t) + (i - Len(t)) = i /\ i <= Len(old.data)
        BY <1>25, <2>1, <3>0, <3>2
      <4>2. (t \o w)[i] = w[i - Len(t)]
        BY <1>7, <2>1, <3>2
      <4> QED
        BY <1>22, <4>1, <4>2
    <3> QED
      BY <3>1, <3>2
  <2> QED
    BY <1>18, <1>23, <1>24, <1>25, <2>1, <2>2 DEF Intact
<1>27. ASSUME NEW k \in 1 .. Len(held), k # h PROVE Intact(r, held[k])
  <2>1. PICK o \in Holder : o = held[k]
    BY <1>2
  <2>2. Intact(ptr, o) /\ o.block \in 1 .. Len(ptr)
    BY <1>2, <2>1 DEF Intact
  <2>3. CASE o.block = b
    <3>1. o.wrote = <<>> /\ ptr[b].ref # 1
      BY <1>1, <1>2, <1>3, <1>4, <1>27, <2>1, <2>3 DEF Shared
    <3>2. q[b] = ptr[b] /\ ~r[b].freed /\ b \in 1 .. Len(r)
      BY <1>6, <1>11, <1>23, <1>24, <1>25, <3>1
    <3>3. Len(o.wrote) = 0 /\ Len(r[b].data) \in Nat
      <4>1. PICK y \in CountedBlock : y = r[b]
        BY <1>24, <3>2
      <4>2. Len(<<>>) = 0
        OBVIOUS
      <4> QED
        BY <3>1, <4>1, <4>2 DEF CountedBlock
    <3> QED
      BY <2>1, <2>3, <3>2, <3>3 DEF Intact
  <2>4. CASE o.block # b
    <3>1. o.block # c /\ o.block \in 1 .. Len(q) /\ r[o.block] = ptr[o.block]
      BY <1>2, <1>24, <1>25, <2>2, <2>4
    <3> QED
      BY <1>24, <2>1, <2>2, <3>1 DEF Intact
  <2> QED
    BY <2>3, <2>4
<1>28. \A k \in 1 .. Len(g) : Intact(r, g[k])
  BY <1>20, <1>26, <1>27
<1>29. \A i \in 1 .. Len(ptr) : r[i].ref = ptr[i].ref
  BY <1>2, <1>11, <1>23, <1>24, <1>25
<1>30. \A k \in 1 .. Len(held) : held[k].block \in 1 .. Len(ptr)
  BY <1>2 DEF Intact
<1>31. ASSUME NEW k \in 1 .. Len(g), NEW m \in 1 .. Len(g), k # m, g[k].block = g[m].block
       PROVE  r[g[k].block].ref # 1
  <2>1. CASE c = b
    <3>1. g[k].block = held[k].block /\ g[m].block = held[m].block
      BY <1>3, <1>4, <1>18, <1>20, <2>1
    <3> QED
      BY <1>2, <1>20, <1>29, <1>30, <1>31, <3>1 DEF Shared
  <2>2. CASE c = Len(ptr) + 1
    <3>1. k # h /\ m # h
      BY <1>2, <1>18, <1>20, <1>30, <1>31, <2>2
    <3> QED
      BY <1>2, <1>20, <1>29, <1>30, <1>31, <3>1 DEF Shared
  <2> QED
    BY <1>25, <2>1, <2>2
<1>32. Shared(r, g)
  BY <1>31 DEF Shared
<1> QED
  BY <1>15, <1>19, <1>20, <1>24, <1>28, <1>32, PtrInvNext

-----------------------------------------------------------------------------
LEMMA CountedInvariant == CountedSpec => []CountedInv
<1>1. CountedInit => CountedInv
  BY StringsStart, BlockStarts DEF CountedInit, CountedInv
<1>2. ASSUME CountedInv, [CountedNext]_<<str, counted, ptr, held>> PROVE CountedInv'
  <2>1. ASSUME UNCHANGED <<str, counted>> PROVE StrInv'
    BY <1>2, <2>1 DEF CountedInv, StrInv, Str, Reads, Terminated
  <2>2. ASSUME UNCHANGED <<ptr, held>> PROVE PtrInv'
    BY <1>2, <2>2 DEF CountedInv, PtrInv
  <2>3. CASE UNCHANGED <<str, counted, ptr, held>>
    BY <2>1, <2>2, <2>3 DEF CountedInv
  <2>4. CASE StrNext /\ UNCHANGED <<ptr, held>>
    BY <1>2, <2>2, <2>4, StringsKeep DEF CountedInv
  <2>5. CASE PtrNext /\ UNCHANGED <<str, counted>>
    BY <1>2, <2>1, <2>5, AddRefKeeps, ReleaseKeeps, AppendKeeps DEF CountedInv, PtrNext
  <2> QED
    BY <1>2, <2>3, <2>4, <2>5 DEF CountedNext
<1> QED
  BY <1>1, <1>2, PTL DEF CountedSpec

LEMMA InvCounts == CountedInv => StringsCounted
<1> SUFFICES ASSUME CountedInv PROVE StringsCounted
  OBVIOUS
<1>1. /\ Str(str) /\ (~counted.crossed => Reads(str, counted.text) /\ Terminated(str))
      /\ counted.text \in Seq(STRING)
  BY DEF CountedInv, StrInv
<1>2. ~counted.crossed => Counts(str) = counted.text /\ str.len = Len(counted.text)
  BY <1>1, ReadsCounts
<1>3. str.len <= str.cap /\ DOMAIN str.data = 1 .. (str.cap + 1)
  BY <1>1 DEF Str
<1>4. /\ ptr \in Seq(CountedBlock) /\ held \in Seq(Holder)
      /\ \A h \in 1 .. Len(held) : Intact(ptr, held[h])
  BY PtrInvIs DEF CountedInv
<1>5. ASSUME NEW h \in DOMAIN held
      PROVE  /\ ~ptr[held[h].block].freed
             /\ SubSeq(ptr[held[h].block].data, 1, Len(held[h].wrote)) = held[h].wrote
  <2>1. PICK o \in Holder : o = held[h] /\ Intact(ptr, o)
    BY <1>4
  <2>2. PICK p \in CountedBlock : p = ptr[o.block]
    BY <1>4, <2>1 DEF Intact
  <2>3. /\ p.data \in Seq(StrByte) /\ o.wrote \in Seq(StrByte) /\ Len(o.wrote) <= Len(p.data)
        /\ \A i \in 1 .. Len(o.wrote) : p.data[i] = o.wrote[i]
    BY <2>1, <2>2 DEF Intact, Holder, CountedBlock, StrByte
  <2>4. SubSeq(p.data, 1, Len(o.wrote)) = o.wrote
    <3>1. PICK w \in Seq(StrByte) : w = o.wrote
      BY <2>3
    <3>2. PICK d \in Seq(StrByte) : d = p.data
      BY <2>3
    <3>3. /\ SubSeq(d, 1, Len(w)) \in Seq(StrByte) /\ Len(SubSeq(d, 1, Len(w))) = Len(w)
          /\ \A i \in 1 .. Len(w) : SubSeq(d, 1, Len(w))[i] = w[i]
      BY <2>3, <3>1, <3>2
    <3> QED
      BY <3>1, <3>2, <3>3
  <2> QED
    BY <2>1, <2>2, <2>4 DEF Intact
<1> QED
  BY <1>1, <1>2, <1>3, <1>4, <1>5 DEF StringsCounted, Terminated

(* str.c and ptr.h for every word, every growth and any number of holders:  *)
(* a string is inside its block and counts the characters asked for as long *)
(* as string_cats is not called, and a block that is held is there, with    *)
(* what its holder wrote.                                                   *)
THEOREM StringsAreCounted == CountedSpec => []StringsCounted
  BY CountedInvariant, InvCounts, PTL

(***************************************************************************)
(* buffer.c: the buffer of blocks.  A byte is looked up by the block of its *)
(* position and the place in it.                                           *)
(***************************************************************************)
OldBufType ==
    [ref : Nat, len : Nat, cap : Nat, array_cap : Nat, leaked : BOOLEAN, array : Seq(Seq(Int))]

IsOldBuf(b) == b \in OldBufType /\ Len(b.array) = b.array_cap /\ (b.cap # 0 => b.array_cap # 0)

(* The blocks a capacity needs: one below C1, whose multiples follow.       *)
BlocksOf(cap) == IF cap < C1 THEN 1 ELSE cap \div C1

CapacityFits(cap) ==
    IF cap < C1 THEN cap # 0 /\ Doubled(cap, C1) = C1 ELSE \E k \in Nat \ {0} : cap = k * C1

Blocks_(b) == /\ \A pos \in 0 .. b.cap - 1 : Reaches(b, pos)
              /\ \A i \in 1 .. b.array_cap : i > BlocksOf(b.cap) => b.array[i] = NoBlock

(* All of the capacity lies in blocks, and no other block is held.          *)
Shape(b) == IsOldBuf(b) /\ b.len <= b.cap /\ CapacityFits(b.cap) /\ Blocks_(b)

(* The bytes t are those of the buffer, where they were written.            *)
Carries(b, t) == \A pos \in 0 .. b.len - 1 : t[pos + 1] # Junk => ByteAt(b, pos) = t[pos + 1]

BufferInv ==
    /\ IsOldBuf(buf) /\ text \in Seq(Int) /\ Len(text) = buf.len
    /\ Alive /\ ~buf.leaked => Shape(buf) /\ Carries(buf, text)

\* Quotient and remainder by the length of a block.
LEMMA BlockDivMod ==
    ASSUME NEW p \in Nat
    PROVE  /\ p \div C1 \in Nat /\ p % C1 \in 0 .. C1 - 1
           /\ p = (p \div C1) * C1 + (p % C1)
  BY BufferAssumption, SMTT(30)

LEMMA BlockProduct ==
    ASSUME NEW k \in Nat
    PROVE  k * C1 \in Nat /\ (k + 1) * C1 = k * C1 + C1 /\ (k # 0 => k * C1 >= C1)
  BY BufferAssumption, SMTT(30)

LEMMA BlockOrder ==
    ASSUME NEW k \in Nat, NEW m \in Nat
    PROVE  /\ (k < m) <=> (k * C1 + C1 <= m * C1)
           /\ (k <= m) <=> (k * C1 <= m * C1)
  BY BufferAssumption, SMTT(30)

\* The block of a position and the place in it.
LEMMA BlockPlace ==
    ASSUME NEW p \in Nat
    PROVE  /\ BlockOf(p) \in Nat \ {0} /\ PlaceAt(p) \in 1 .. C1
           /\ BlockOf(p) - 1 \in Nat /\ (BlockOf(p) - 1) * C1 + PlaceAt(p) = p + 1
<1> DEFINE q == p \div C1
           r == p % C1
<1>1. q \in Nat /\ r \in 0 .. C1 - 1 /\ p = q * C1 + r
  BY BlockDivMod
<1>2. BlockOf(p) = q + 1 /\ PlaceAt(p) = r + 1
  BY DEF BlockOf, PlaceAt
<1>3. q * C1 \in Nat
  BY <1>1, BlockProduct
<1> HIDE DEF q, r
<1>4. BlockOf(p) - 1 = q /\ BlockOf(p) \in Nat \ {0} /\ PlaceAt(p) \in 1 .. C1
  BY <1>1, <1>2, BufferAssumption
<1>5. q * C1 + (r + 1) = p + 1
  BY <1>1, <1>3, BufferAssumption
<1> QED
  BY <1>1, <1>2, <1>4, <1>5

\* The positions of the first k blocks.
LEMMA BlockBelow ==
    ASSUME NEW p \in Nat, NEW k \in Nat
    PROVE  (p < k * C1) <=> (BlockOf(p) <= k)
<1> DEFINE q == BlockOf(p) - 1
           r == PlaceAt(p)
           m == q * C1
           n == k * C1
<1>1. q \in Nat /\ r \in 1 .. C1 /\ m + r = p + 1 /\ BlockOf(p) = q + 1
  BY BlockPlace
<1>2. m \in Nat /\ n \in Nat
  BY <1>1, BlockProduct
<1>3. (q < k) <=> (m + C1 <= n)
  BY <1>1, BlockOrder
<1>4. (k <= q) <=> (n <= m)
  BY <1>1, BlockOrder
<1> HIDE DEF q, r, m, n
<1>5. (p < n) <=> (q < k)
  BY <1>1, <1>2, <1>3, <1>4, BufferAssumption
<1>6. (q < k) <=> (BlockOf(p) <= k)
  BY <1>1
<1> QED
  BY <1>5, <1>6 DEF n

LEMMA FirstBlock ==
    ASSUME NEW p \in Nat, p < C1
    PROVE  BlockOf(p) = 1 /\ PlaceAt(p) = p + 1
<1>1. BlockOf(p) \in Nat \ {0} /\ PlaceAt(p) \in 1 .. C1
      /\ (BlockOf(p) - 1) * C1 + PlaceAt(p) = p + 1
  BY BlockPlace
<1>2. 1 * C1 = C1
  BY BufferAssumption
<1>3. BlockOf(p) = 1
  BY <1>1, <1>2, BlockBelow
<1>4. (1 - 1) * C1 = 0
  BY BufferAssumption
<1> QED
  BY <1>1, <1>3, <1>4, BufferAssumption

\* A number of blocks, counted from their length.
LEMMA BlockCount ==
    ASSUME NEW k \in Nat
    PROVE  (k * C1) \div C1 = k
<1> DEFINE p == k * C1
           q == p \div C1
<1>1. p \in Nat
  BY BlockProduct
<1>2. q \in Nat /\ p % C1 \in 0 .. C1 - 1 /\ p = q * C1 + (p % C1) /\ q * C1 \in Nat
  BY <1>1, BlockDivMod, BlockProduct
<1>3. p = k * C1
  OBVIOUS
<1> HIDE DEF p, q
<1>4. ~(q < k) /\ ~(k < q)
  BY <1>1, <1>2, <1>3, BlockOrder, BufferAssumption
<1>5. q = k
  BY <1>2, <1>4
<1> QED
  BY <1>5 DEF p, q

(***************************************************************************)
(* The capacities.                                                         *)
(***************************************************************************)
\* The loops that look for a capacity are climbs.
LEMMA DoublingClimbs ==
    ASSUME NEW n \in Nat
    PROVE  \E g : /\ g = Climbed([c \in Nat \ {0} |-> 2 * c], n, g)
                  /\ \A c : Doubled(c, n) = g[c]
<1> DEFINE s == [c \in Nat \ {0} |-> 2 * c]
           G(g) == g = [c \in Nat \ {0} |-> IF c >= n THEN c ELSE g[2 * c]]
           found == CHOOSE g : G(g)
<1>1. s \in [Nat \ {0} -> Nat \ {0}] /\ \A c \in Nat \ {0} : s[c] > c
  OBVIOUS
<1>2. \A g : g = Climbed(s, n, g) <=> G(g)
  BY DEF Climbed
<1>3. \E g : g = Climbed(s, n, g)
  <2> HIDE DEF s
  <2> QED
    BY <1>1, ClimbExists
<1>4. G(found)
  <2> HIDE DEF G
  <2> QED
    BY <1>2, <1>3
<1>5. found = Climbed(s, n, found)
  <2> HIDE DEF G, found, s
  <2> QED
    BY <1>2, <1>4
<1>6. \A c : Doubled(c, n) = found[c]
  BY DEF Doubled
<1> HIDE DEF found
<1> QED
  BY <1>5, <1>6

LEMMA SteppingClimbs ==
    ASSUME NEW n \in Nat
    PROVE  \E g : /\ g = Climbed([c \in Nat \ {0} |-> c + C1], n, g)
                  /\ \A c : Stepped(c, n) = g[c]
<1> DEFINE s == [c \in Nat \ {0} |-> c + C1]
           G(g) == g = [c \in Nat \ {0} |-> IF c >= n THEN c ELSE g[c + C1]]
           found == CHOOSE g : G(g)
<1>1. s \in [Nat \ {0} -> Nat \ {0}] /\ \A c \in Nat \ {0} : s[c] > c
  BY BufferAssumption
<1>2. \A g : g = Climbed(s, n, g) <=> G(g)
  BY DEF Climbed
<1>3. \E g : g = Climbed(s, n, g)
  <2> HIDE DEF s
  <2> QED
    BY <1>1, ClimbExists
<1>4. G(found)
  <2> HIDE DEF G
  <2> QED
    BY <1>2, <1>3
<1>5. found = Climbed(s, n, found)
  <2> HIDE DEF G, found, s
  <2> QED
    BY <1>2, <1>4
<1>6. \A c : Stepped(c, n) = found[c]
  BY DEF Stepped
<1> HIDE DEF found
<1> QED
  BY <1>5, <1>6

\* One turn of each loop, and its end.
LEMMA DoubledIs ==
    ASSUME NEW n \in Nat, NEW c \in Nat \ {0}
    PROVE  /\ Doubled(c, n) = IF c >= n THEN c ELSE Doubled(2 * c, n)
           /\ Doubled(c, n) \in Nat \ {0} /\ Doubled(c, n) >= n /\ Doubled(c, n) >= c
<1> DEFINE s == [x \in Nat \ {0} |-> 2 * x]
<1>1. s \in [Nat \ {0} -> Nat \ {0}] /\ (\A x \in Nat \ {0} : s[x] > x) /\ s[c] = 2 * c
  OBVIOUS
<1>2. PICK g : g = Climbed(s, n, g) /\ \A x : Doubled(x, n) = g[x]
  BY DoublingClimbs
<1> HIDE DEF s
<1>3. g[c] \in Nat \ {0} /\ g[c] >= n /\ g[c] >= c
  BY <1>1, <1>2, ClimbReaches
<1>4. g[c] = IF c >= n THEN c ELSE g[2 * c]
  BY <1>1, <1>2 DEF Climbed
<1> QED
  BY <1>2, <1>3, <1>4

LEMMA SteppedIs ==
    ASSUME NEW n \in Nat, NEW c \in Nat \ {0}
    PROVE  /\ Stepped(c, n) = IF c >= n THEN c ELSE Stepped(c + C1, n)
           /\ Stepped(c, n) \in Nat \ {0} /\ Stepped(c, n) >= n /\ Stepped(c, n) >= c
<1> DEFINE s == [x \in Nat \ {0} |-> x + C1]
<1>1. s \in [Nat \ {0} -> Nat \ {0}] /\ (\A x \in Nat \ {0} : s[x] > x) /\ s[c] = c + C1
  BY BufferAssumption
<1>2. PICK g : g = Climbed(s, n, g) /\ \A x : Stepped(x, n) = g[x]
  BY SteppingClimbs
<1> HIDE DEF s
<1>3. g[c] \in Nat \ {0} /\ g[c] >= n /\ g[c] >= c
  BY <1>1, <1>2, ClimbReaches
<1>4. g[c] = IF c >= n THEN c ELSE g[c + C1]
  BY <1>1, <1>2 DEF Climbed
<1> QED
  BY <1>2, <1>3, <1>4

\* Doubling a capacity that meets C1, as far as C1, gives one that meets it.
LEMMA DoubledMeets ==
    ASSUME NEW n \in Nat, n <= C1, NEW c \in Nat \ {0}, Doubled(c, C1) = C1
    PROVE  Doubled(c, n) <= C1 /\ Doubled(Doubled(c, n), C1) = C1
<1> DEFINE Meets(x) == Doubled(x, C1) = C1
           Good(x) == Doubled(x, n) <= C1 /\ Meets(Doubled(x, n))
           T == {x \in Nat \ {0} : Meets(x) /\ ~Good(x)}
<1>1. C1 \in Nat \ {0}
  BY BufferAssumption
<1>2. \A x \in Nat \ {0} : Meets(x) => x <= C1
  BY <1>1, DoubledIs
<1> SUFFICES ASSUME T # {} PROVE FALSE
  OBVIOUS
<1>3. PICK x \in T : \A k \in T : k <= x
  <2>1. T \subseteq Nat /\ \A k \in T : k <= C1
    BY <1>2
  <2> HIDE DEF T
  <2> QED
    BY <1>1, <2>1, GreatestNat
<1>4. x \in Nat \ {0} /\ Meets(x) /\ ~Good(x) /\ x <= C1 /\ 2 * x \in Nat \ {0} /\ 2 * x > x
  BY <1>2, <1>3
<1>5. CASE x >= n
  <2>1. Doubled(x, n) = x
    BY <1>4, <1>5, DoubledIs
  <2> QED
    BY <1>4, <2>1
<1>6. CASE x < n
  <2>1. Doubled(x, n) = Doubled(2 * x, n) /\ Doubled(x, C1) = Doubled(2 * x, C1)
    BY <1>1, <1>4, <1>6, DoubledIs
  <2>2. Meets(2 * x) /\ ~Good(2 * x)
    BY <1>4, <2>1
  <2>3. 2 * x \in T
    BY <1>4, <2>2
  <2> QED
    BY <1>3, <1>4, <2>3
<1> QED
  BY <1>4, <1>5, <1>6

\* Steps of C1 from a multiple of C1 lead to multiples.
LEMMA SteppedMultiple ==
    ASSUME NEW n \in Nat, NEW j \in Nat \ {0}
    PROVE  \E k \in Nat \ {0} : Stepped(j * C1, n) = k * C1
<1> DEFINE Good(x) == \E k \in Nat \ {0} : Stepped(x * C1, n) = k * C1
           T == {x \in Nat \ {0} : ~Good(x)}
<1>1. \A x \in Nat \ {0} : x * C1 \in Nat \ {0} /\ x * C1 >= x /\ (x + 1) * C1 = x * C1 + C1
  <2> TAKE x \in Nat \ {0}
  <2>1. x * C1 \in Nat /\ (x + 1) * C1 = x * C1 + C1 /\ x * C1 >= C1
    BY BlockProduct
  <2>2. x * C1 >= x
    BY BufferAssumption, SMTT(30)
  <2> QED
    BY <2>1, <2>2, BufferAssumption
<1>2. \A x \in Nat \ {0} : x * C1 >= n => Good(x)
  <2> SUFFICES ASSUME NEW x \in Nat \ {0}, x * C1 >= n PROVE Good(x)
    OBVIOUS
  <2>1. Stepped(x * C1, n) = x * C1
    BY <1>1, SteppedIs
  <2> QED
    BY <2>1
<1>3. \A x \in Nat \ {0} : x * C1 < n => Stepped(x * C1, n) = Stepped((x + 1) * C1, n)
  BY <1>1, SteppedIs
<1> SUFFICES ASSUME T # {} PROVE FALSE
  OBVIOUS
<1>4. \A x \in T : x <= n /\ x * C1 < n
  BY <1>1, <1>2
<1>5. PICK x \in T : \A k \in T : k <= x
  <2>1. T \subseteq Nat
    OBVIOUS
  <2> HIDE DEF T
  <2> QED
    BY <1>4, <2>1, GreatestNat
<1>6. x \in Nat \ {0} /\ ~Good(x) /\ x + 1 \in Nat \ {0}
  OBVIOUS
<1>7. Stepped(x * C1, n) = Stepped((x + 1) * C1, n)
  BY <1>3, <1>4, <1>6
<1>8. ~Good(x + 1)
  BY <1>6, <1>7
<1>9. x + 1 \in T
  BY <1>6, <1>8
<1> QED
  BY <1>5, <1>6, <1>9

\* What a capacity of the buffer is, and how many blocks it has.
LEMMA FitsIs ==
    ASSUME NEW cap \in Nat, CapacityFits(cap)
    PROVE  /\ cap # 0 /\ BlocksOf(cap) \in Nat \ {0}
           /\ cap >= C1 => cap \div C1 = BlocksOf(cap) /\ cap = BlocksOf(cap) * C1
           /\ cap < C1 => BlocksOf(cap) = 1
           /\ \A p \in Nat : p < cap => BlockOf(p) <= BlocksOf(cap)
<1>1. CASE cap < C1
  <2>1. cap # 0 /\ BlocksOf(cap) = 1
    BY <1>1 DEF CapacityFits, BlocksOf
  <2>2. \A p \in Nat : p < cap => BlockOf(p) = 1
    BY <1>1, FirstBlock, BufferAssumption
  <2> QED
    BY <1>1, <2>1, <2>2, BufferAssumption
<1>2. CASE ~(cap < C1)
  <2>1. PICK k \in Nat \ {0} : cap = k * C1
    BY <1>2 DEF CapacityFits
  <2>2. BlocksOf(cap) = k /\ cap \div C1 = k
    BY <1>2, <2>1, BlockCount DEF BlocksOf
  <2>3. \A p \in Nat : p < cap => BlockOf(p) <= k
    BY <2>1, BlockBelow
  <2>4. cap # 0
    BY <1>2, BufferAssumption
  <2> QED
    BY <1>2, <2>1, <2>2, <2>3, <2>4
<1> QED
  BY <1>1, <1>2

(***************************************************************************)
(* Growth.                                                                 *)
(***************************************************************************)
LEMMA MallocIs ==
    ASSUME NEW n \in Nat
    PROVE  Malloc(n) \in Seq(Int) /\ Len(Malloc(n)) = n
  BY DEF Malloc, Junk

\* The first block is another one, with the bytes that fit.
SmallGives(b, n, c) ==
    /\ IsOldBuf(c) /\ c.ref = b.ref /\ c.len = b.len /\ c.cap = b.cap
    /\ c.array_cap = b.array_cap /\ (c.leaked <=> b.leaked)
    /\ Len(c.array[1]) = n
    /\ \A i \in 1 .. n : i <= b.len /\ i <= Len(b.array[1]) => c.array[1][i] = b.array[1][i]
    /\ \A i \in 2 .. b.array_cap : c.array[i] = b.array[i]

LEMMA SmallIs ==
    ASSUME NEW b, IsOldBuf(b), b.array_cap # 0, NEW n \in Nat, NEW c, c = realloc_small(b, n)
    PROVE  SmallGives(b, n, c)
<1> DEFINE block == [i \in 1..n |-> IF i <= b.len /\ i <= Len(b.array[1]) THEN b.array[1][i] ELSE Junk]
<1>1. b \in OldBufType /\ Len(b.array) = b.array_cap /\ (b.cap # 0 => b.array_cap # 0)
  BY DEF IsOldBuf
<1>2. /\ b.array \in Seq(Seq(Int)) /\ b.array_cap \in Nat /\ b.len \in Nat /\ b.leaked \in BOOLEAN
      /\ b.ref \in Nat /\ b.cap \in Nat
  BY <1>1 DEF OldBufType
<1>3. 1 \in 1 .. Len(b.array) /\ b.array[1] \in Seq(Int)
  BY <1>1, <1>2
<1>4. block \in Seq(Int) /\ Len(block) = n
  <2>1. \A i \in 1 .. n : i <= Len(b.array[1]) => b.array[1][i] \in Int
    BY <1>3
  <2> QED
    BY <2>1, <1>2 DEF Junk
<1>5. PICK array : array = [b.array EXCEPT ![1] = block]
  OBVIOUS
<1>6. /\ array \in Seq(Seq(Int)) /\ Len(array) = Len(b.array) /\ array[1] = block
      /\ \A i \in 2 .. Len(b.array) : array[i] = b.array[i]
  <2> HIDE DEF block
  <2> QED
    BY <1>2, <1>3, <1>4, <1>5
<1>7. c = [b EXCEPT !.array = array]
  BY <1>5 DEF realloc_small
<1>8. /\ c \in OldBufType /\ c.array = array /\ c.ref = b.ref /\ c.len = b.len /\ c.cap = b.cap
      /\ c.array_cap = b.array_cap /\ c.leaked = b.leaked
  <2> HIDE DEF block
  <2> QED
    BY <1>1, <1>6, <1>7 DEF OldBufType
<1>9. IsOldBuf(c)
  BY <1>1, <1>6, <1>8 DEF IsOldBuf
<1>10. \A i \in 1 .. n : i <= b.len /\ i <= Len(b.array[1]) => block[i] = b.array[1][i]
  OBVIOUS
<1> HIDE DEF block
<1> QED
  BY <1>1, <1>4, <1>6, <1>8, <1>9, <1>10 DEF SmallGives

\* The array, made long enough.
Lengthened(b, c) ==
    /\ IsOldBuf(c) /\ c.ref = b.ref /\ c.len = b.len /\ c.cap = b.cap /\ (c.leaked <=> b.leaked)
    /\ c.array_cap >= b.array_cap
    /\ \A i \in 1 .. c.array_cap :
          c.array[i] = IF i <= b.array_cap THEN b.array[i] ELSE NoBlock

LEMMA ArrayLengthened ==
    ASSUME NEW b, IsOldBuf(b), b.array_cap # 0, NEW alen \in Nat
    PROVE  Lengthened(b, WithArray(b, alen)) /\ WithArray(b, alen).array_cap >= alen
<1>1. b \in OldBufType /\ Len(b.array) = b.array_cap /\ (b.cap # 0 => b.array_cap # 0)
  BY DEF IsOldBuf
<1>2. b.array \in Seq(Seq(Int)) /\ b.array_cap \in Nat
  BY <1>1 DEF OldBufType
<1>3. CASE ~(alen > b.array_cap)
  <2>1. WithArray(b, alen) = b
    BY <1>3 DEF WithArray
  <2> QED
    BY <1>2, <1>3, <2>1 DEF Lengthened
<1>4. CASE alen > b.array_cap
  <2>1. PICK n : n = Doubled(b.array_cap, alen)
    OBVIOUS
  <2>2. n \in Nat \ {0} /\ n >= alen /\ n >= b.array_cap
    BY <1>2, <2>1, DoubledIs
  <2>3. PICK array : array = [i \in 1..n |-> IF i <= b.array_cap THEN b.array[i] ELSE NoBlock]
    OBVIOUS
  <2>4. array \in Seq(Seq(Int)) /\ Len(array) = n
    <3>1. \A i \in 1 .. n : i <= b.array_cap => b.array[i] \in Seq(Int)
      BY <1>1, <1>2, <2>2
    <3>2. NoBlock \in Seq(Int)
      BY DEF NoBlock
    <3>3. \A i \in 1 .. n : array[i] \in Seq(Int)
      BY <2>3, <3>1, <3>2
    <3> QED
      BY <2>2, <2>3, <3>3
  <2>5. PICK c : c = WithArray(b, alen)
    OBVIOUS
  <2>6. c = [b EXCEPT !.array_cap = n, !.array = array]
    BY <1>4, <2>1, <2>3, <2>5 DEF WithArray, realloc_array
  <2>7. /\ c \in OldBufType /\ c.array_cap = n /\ c.array = array
        /\ c.ref = b.ref /\ c.len = b.len /\ c.cap = b.cap /\ c.leaked = b.leaked
    BY <1>1, <2>2, <2>4, <2>6 DEF OldBufType
  <2>8. IsOldBuf(c)
    BY <2>2, <2>4, <2>7 DEF IsOldBuf
  <2> QED
    BY <2>2, <2>3, <2>5, <2>7, <2>8 DEF Lengthened
<1> QED
  BY <1>3, <1>4, <1>2

\* Entries from used on are given blocks; one of them held a block before.
Loses(b, used, alen) ==
    used < alen /\ used + 1 <= b.array_cap /\ b.array[used + 1] # NoBlock

GrownIs(b, used, cap, c) ==
    /\ IsOldBuf(c) /\ c.ref = b.ref /\ c.len = b.len /\ c.cap = cap
    /\ (c.leaked <=> b.leaked \/ Loses(b, used, cap \div C1))
    /\ c.array_cap >= b.array_cap /\ c.array_cap >= cap \div C1
    /\ \A i \in 1 .. c.array_cap :
          c.array[i] = IF i \in (used + 1) .. (cap \div C1) THEN Malloc(C1)
                       ELSE IF i <= b.array_cap THEN b.array[i] ELSE NoBlock

LEMMA BlocksAdded ==
    ASSUME NEW b, IsOldBuf(b), b.array_cap # 0, NEW used \in Nat, NEW cap \in Nat
    PROVE  GrownIs(b, used, cap, Grown(b, used, cap))
<1>1. PICK alen : alen = cap \div C1
  OBVIOUS
<1>2. alen \in Nat
  BY <1>1, BlockDivMod
<1>3. PICK d : d = WithArray(b, alen)
  OBVIOUS
<1>4. Lengthened(b, d) /\ d.array_cap >= alen
  BY <1>2, <1>3, ArrayLengthened
<1>5. /\ d \in OldBufType /\ Len(d.array) = d.array_cap
      /\ d.ref = b.ref /\ d.len = b.len /\ d.cap = b.cap /\ (d.leaked <=> b.leaked)
      /\ d.array_cap >= b.array_cap
  BY <1>4 DEF Lengthened, IsOldBuf
<1>6. d.array \in Seq(Seq(Int)) /\ d.array_cap \in Nat /\ d.leaked \in BOOLEAN /\ b.array_cap \in Nat
  BY <1>5 DEF OldBufType, IsOldBuf
<1>7. PICK array : array = [i \in DOMAIN d.array |-> IF i \in (used + 1)..alen THEN Malloc(C1)
                                                     ELSE d.array[i]]
  OBVIOUS
<1>8. array \in Seq(Seq(Int)) /\ Len(array) = d.array_cap /\ DOMAIN d.array = 1 .. d.array_cap
  <2>1. DOMAIN d.array = 1 .. d.array_cap
    BY <1>5, <1>6
  <2>2. \A i \in 1 .. d.array_cap : d.array[i] \in Seq(Int)
    BY <1>5, <1>6
  <2>3. Malloc(C1) \in Seq(Int)
    BY MallocIs, BufferAssumption
  <2>4. \A i \in 1 .. d.array_cap : array[i] \in Seq(Int)
    BY <1>7, <2>1, <2>2, <2>3
  <2>5. PICK m \in Nat : m = d.array_cap
    BY <1>6
  <2>6. array = [i \in 1 .. m |-> array[i]]
    BY <1>7, <2>1, <2>5
  <2>7. array \in Seq(Seq(Int)) /\ Len(array) = m
    <3> DEFINE T == Seq(Int)
    <3>1. \A i \in 1 .. m : array[i] \in T
      BY <2>4, <2>5
    <3> HIDE DEF T
    <3>2. array \in Seq(T) /\ Len(array) = m
      BY <2>6, <3>1
    <3> QED
      BY <3>2 DEF T
  <2> QED
    BY <2>1, <2>5, <2>7
<1>9. PICK lost \in BOOLEAN : lost <=> (used < alen /\ d.array[used + 1] # NoBlock)
  OBVIOUS
<1>10. PICK leaked \in BOOLEAN : leaked = (d.leaked \/ (used < alen /\ d.array[used + 1] # NoBlock))
  OBVIOUS
<1>11. leaked <=> b.leaked \/ lost
  BY <1>5, <1>9, <1>10
<1>12. PICK c : c = Grown(b, used, cap)
  OBVIOUS
<1>13. c = [[d EXCEPT !.leaked = leaked, !.array = array] EXCEPT !.cap = cap]
  BY <1>1, <1>3, <1>7, <1>10, <1>12 DEF Grown, Filled
<1>14. /\ c \in OldBufType /\ c.array = array /\ c.leaked = leaked /\ c.cap = cap
       /\ c.ref = d.ref /\ c.len = d.len /\ c.array_cap = d.array_cap
  BY <1>5, <1>8, <1>13 DEF OldBufType
<1>15. IsOldBuf(c)
  <2>1. c.array_cap # 0
    BY <1>5, <1>6, <1>14
  <2> QED
    BY <1>8, <1>14, <2>1 DEF IsOldBuf
<1>16. lost <=> Loses(b, used, alen)
  <2>1. CASE used < alen
    <3>1. used + 1 \in 1 .. d.array_cap
      BY <1>2, <1>4, <1>6, <2>1
    <3>2. d.array[used + 1] = IF used + 1 <= b.array_cap THEN b.array[used + 1] ELSE NoBlock
      BY <1>4, <3>1 DEF Lengthened
    <3> QED
      BY <1>9, <2>1, <3>2 DEF Loses
  <2> QED
    BY <1>9, <2>1 DEF Loses
<1>17. \A i \in 1 .. c.array_cap :
          c.array[i] = IF i \in (used + 1) .. alen THEN Malloc(C1)
                       ELSE IF i <= b.array_cap THEN b.array[i] ELSE NoBlock
  BY <1>4, <1>7, <1>8, <1>14 DEF Lengthened
<1> QED
  BY <1>1, <1>4, <1>5, <1>11, <1>12, <1>14, <1>15, <1>16, <1>17 DEF GrownIs

\* Blocks behind those of the capacity keep what lies in them.
LEMMA MoreBlocks ==
    ASSUME NEW b, Shape(b), b.cap >= C1, NEW cap \in Nat, CapacityFits(cap), b.cap <= cap,
           NEW c, GrownIs(b, b.cap \div C1, cap, c)
    PROVE  /\ Shape(c) /\ (c.leaked <=> b.leaked) /\ c.ref = b.ref /\ c.len = b.len /\ c.cap = cap
           /\ \A p \in 0 .. b.len - 1 : ByteAt(c, p) = ByteAt(b, p)
<1>1. /\ b.array \in Seq(Seq(Int)) /\ b.array_cap \in Nat /\ b.cap \in Nat /\ b.len \in Nat
      /\ CapacityFits(b.cap) /\ b.len <= b.cap
  BY DEF Shape, IsOldBuf, OldBufType
<1>2. PICK j \in Nat : j = b.cap \div C1 /\ j = BlocksOf(b.cap) /\ b.cap = j * C1 /\ j # 0
  BY <1>1, FitsIs
<1>3. PICK k \in Nat : k = cap \div C1 /\ k = BlocksOf(cap) /\ cap = k * C1 /\ k # 0
  <2>1. cap >= C1
    BY <1>1, BufferAssumption
  <2> QED
    BY <2>1, FitsIs
<1>4. j <= k
  BY <1>2, <1>3, BlockOrder
<1>5. /\ IsOldBuf(c) /\ c.ref = b.ref /\ c.len = b.len /\ c.cap = cap
      /\ (c.leaked <=> b.leaked \/ Loses(b, j, k))
      /\ c.array_cap >= b.array_cap /\ c.array_cap >= k
      /\ \A i \in 1 .. c.array_cap :
            c.array[i] = IF i \in (j + 1) .. k THEN Malloc(C1)
                         ELSE IF i <= b.array_cap THEN b.array[i] ELSE NoBlock
  BY <1>2, <1>3 DEF GrownIs
<1>6. \A i \in 1 .. b.array_cap : i > j => b.array[i] = NoBlock
  BY <1>2 DEF Shape, Blocks_
<1>7. ~Loses(b, j, k)
  BY <1>1, <1>6 DEF Loses
<1>8. c.array_cap \in Nat
  BY <1>5 DEF IsOldBuf, OldBufType
<1>9. \A i \in 1 .. c.array_cap : i > BlocksOf(c.cap) => c.array[i] = NoBlock
  BY <1>1, <1>3, <1>4, <1>5, <1>6, <1>8
<1>10. ASSUME NEW p \in Nat, p < b.cap
       PROVE  Reaches(c, p) /\ ByteAt(c, p) = ByteAt(b, p)
  <2>1. Reaches(b, p)
    BY <1>1, <1>10 DEF Shape, Blocks_
  <2>2. BlockOf(p) <= j /\ BlockOf(p) \in Nat \ {0} /\ BlockOf(p) <= b.array_cap
    BY <1>2, <1>10, <2>1, BlockBelow, BlockPlace DEF Reaches
  <2>3. c.array[BlockOf(p)] = b.array[BlockOf(p)]
    <3>1. PICK i \in Nat \ {0} : i = BlockOf(p)
      BY <2>2
    <3>2. i \in 1 .. c.array_cap /\ i \notin (j + 1) .. k /\ i <= b.array_cap
      BY <1>1, <1>5, <1>8, <2>2, <3>1
    <3> QED
      BY <1>5, <3>1, <3>2
  <2> QED
    BY <1>1, <1>5, <1>8, <2>1, <2>2, <2>3 DEF Reaches, ByteAt
<1>11. ASSUME NEW p \in Nat, p < cap PROVE Reaches(c, p)
  <2>1. CASE p < b.cap
    BY <1>10, <2>1
  <2>2. CASE ~(p < b.cap)
    <3>1. BlockOf(p) \in Nat \ {0} /\ PlaceAt(p) \in 1 .. C1 /\ ~(BlockOf(p) <= j) /\ BlockOf(p) <= k
      BY <1>2, <1>3, <1>11, <2>2, BlockBelow, BlockPlace
    <3>2. c.array[BlockOf(p)] = Malloc(C1)
      BY <1>5, <1>8, <3>1
    <3>3. Len(Malloc(C1)) = C1
      BY MallocIs, BufferAssumption
    <3> QED
      BY <1>5, <1>8, <3>1, <3>2, <3>3, BufferAssumption DEF Reaches
  <2> QED
    BY <2>1, <2>2
<1>12. Shape(c)
  <2>1. \A p \in 0 .. c.cap - 1 : Reaches(c, p)
    BY <1>5, <1>11
  <2>2. c.len <= c.cap
    BY <1>1, <1>5
  <2> QED
    BY <1>5, <1>9, <2>1, <2>2 DEF Shape, Blocks_
<1>13. \A p \in 0 .. b.len - 1 : ByteAt(c, p) = ByteAt(b, p)
  BY <1>1, <1>10
<1> QED
  BY <1>5, <1>7, <1>12, <1>13

SmallTo(b, n) == [realloc_small(b, n) EXCEPT !.cap = n]

\* The only block is another one.
LEMMA SmallGrows ==
    ASSUME NEW b, Shape(b), b.cap <= C1, NEW n \in Nat, n <= C1, CapacityFits(n), b.cap <= n,
           NEW c, c = SmallTo(b, n)
    PROVE  /\ Shape(c) /\ (c.leaked <=> b.leaked) /\ c.ref = b.ref /\ c.len = b.len /\ c.cap = n
           /\ \A p \in 0 .. b.len - 1 : ByteAt(c, p) = ByteAt(b, p)
<1>1. /\ b.array \in Seq(Seq(Int)) /\ b.array_cap \in Nat /\ b.cap \in Nat /\ b.len \in Nat
      /\ CapacityFits(b.cap) /\ b.len <= b.cap /\ IsOldBuf(b)
  BY DEF Shape, IsOldBuf, OldBufType
<1>2. b.cap # 0 /\ b.array_cap # 0
  BY <1>1, FitsIs DEF IsOldBuf
<1>3. PICK d : d = realloc_small(b, n)
  OBVIOUS
<1>4. /\ IsOldBuf(d) /\ d.ref = b.ref /\ d.len = b.len /\ d.cap = b.cap
      /\ d.array_cap = b.array_cap /\ (d.leaked <=> b.leaked)
      /\ Len(d.array[1]) = n
      /\ \A i \in 1 .. n : i <= b.len /\ i <= Len(b.array[1]) => d.array[1][i] = b.array[1][i]
      /\ \A i \in 2 .. b.array_cap : d.array[i] = b.array[i]
  <2>1. SmallGives(b, n, d)
    BY <1>1, <1>2, <1>3, SmallIs
  <2> QED
    BY <2>1 DEF SmallGives
<1>5. c = [d EXCEPT !.cap = n] /\ d \in OldBufType
  BY <1>3, <1>4 DEF IsOldBuf, SmallTo
<1>6. /\ c \in OldBufType /\ c.array = d.array /\ c.cap = n /\ c.ref = d.ref /\ c.len = d.len
      /\ c.array_cap = d.array_cap /\ c.leaked = d.leaked
  BY <1>5 DEF OldBufType
<1>7. IsOldBuf(c)
  BY <1>2, <1>4, <1>6 DEF IsOldBuf
<1>8. BlocksOf(n) = 1 /\ BlocksOf(b.cap) = 1
  <2>1. C1 \div C1 = 1
    BY BlockCount, BufferAssumption
  <2> QED
    <3>1. (n < C1 \/ n = C1) /\ (b.cap < C1 \/ b.cap = C1)
      BY <1>1, BufferAssumption
    <3> QED
      BY <2>1, <3>1 DEF BlocksOf
<1>9. \A i \in 1 .. c.array_cap : i > BlocksOf(c.cap) => c.array[i] = NoBlock
  <2>1. \A i \in 1 .. b.array_cap : i > 1 => b.array[i] = NoBlock
    BY <1>8 DEF Shape, Blocks_
  <2> QED
    BY <1>1, <1>4, <1>6, <1>8, <2>1
<1>10. \A p \in 0 .. c.cap - 1 : Reaches(c, p)
  <2> SUFFICES ASSUME NEW p \in Nat, p < n PROVE Reaches(c, p)
    BY <1>6
  <2>1. BlockOf(p) = 1 /\ PlaceAt(p) = p + 1
    BY FirstBlock, BufferAssumption
  <2> QED
    BY <1>1, <1>2, <1>4, <1>6, <2>1 DEF Reaches
<1>11. ASSUME NEW p \in 0 .. b.len - 1 PROVE ByteAt(c, p) = ByteAt(b, p)
  <2>1. p \in Nat /\ p < b.cap /\ p < n /\ p < C1 /\ p + 1 <= b.len /\ p + 1 \in 1 .. n
    BY <1>1, BufferAssumption
  <2>2. BlockOf(p) = 1 /\ PlaceAt(p) = p + 1
    BY <2>1, FirstBlock
  <2>3. Reaches(b, p)
    BY <1>1, <2>1 DEF Shape, Blocks_
  <2>4. p + 1 <= Len(b.array[1])
    BY <2>2, <2>3 DEF Reaches
  <2> QED
    BY <1>4, <1>6, <2>1, <2>2, <2>4 DEF ByteAt
<1>12. Shape(c)
  <2>1. CapacityFits(c.cap) /\ c.len <= c.cap
    BY <1>1, <1>4, <1>6
  <2> QED
    BY <1>7, <1>9, <1>10, <2>1 DEF Shape, Blocks_
<1> QED
  BY <1>4, <1>6, <1>11, <1>12

\* The first of several blocks is another one: less than its length is in use.
LEMMA FirstReplaced ==
    ASSUME NEW b, Shape(b), b.cap >= C1, b.len < C1, NEW c, c = realloc_small(b, C1)
    PROVE  /\ Shape(c) /\ (c.leaked <=> b.leaked) /\ c.ref = b.ref /\ c.len = b.len /\ c.cap = b.cap
           /\ \A p \in 0 .. b.len - 1 : ByteAt(c, p) = ByteAt(b, p)
<1>1. /\ b.array \in Seq(Seq(Int)) /\ b.array_cap \in Nat /\ b.cap \in Nat /\ b.len \in Nat
      /\ CapacityFits(b.cap) /\ b.len <= b.cap /\ IsOldBuf(b)
  BY DEF Shape, IsOldBuf, OldBufType
<1>2. b.cap # 0 /\ b.array_cap # 0 /\ BlocksOf(b.cap) \in Nat \ {0}
  BY <1>1, FitsIs DEF IsOldBuf
<1>4. /\ IsOldBuf(c) /\ c.ref = b.ref /\ c.len = b.len /\ c.cap = b.cap
      /\ c.array_cap = b.array_cap /\ (c.leaked <=> b.leaked)
      /\ Len(c.array[1]) = C1
      /\ \A i \in 1 .. C1 : i <= b.len /\ i <= Len(b.array[1]) => c.array[1][i] = b.array[1][i]
      /\ \A i \in 2 .. b.array_cap : c.array[i] = b.array[i]
  <2>1. C1 \in Nat
    BY BufferAssumption
  <2>2. SmallGives(b, C1, c)
    BY <1>1, <1>2, <2>1, SmallIs
  <2> QED
    BY <2>2 DEF SmallGives
<1>5. \A i \in 1 .. c.array_cap : i > BlocksOf(c.cap) => c.array[i] = NoBlock
  <2>1. \A i \in 1 .. b.array_cap : i > BlocksOf(b.cap) => b.array[i] = NoBlock
    BY DEF Shape, Blocks_
  <2>2. PICK k \in Nat \ {0} : k = BlocksOf(b.cap) /\ k = BlocksOf(c.cap)
    BY <1>2, <1>4
  <2>3. \A i \in 1 .. c.array_cap : i > k => i \in 2 .. b.array_cap /\ i \in 1 .. b.array_cap
    BY <1>1, <1>4, <2>2
  <2> QED
    BY <1>4, <2>1, <2>2, <2>3
<1>6. \A p \in 0 .. c.cap - 1 : Reaches(c, p)
  <2> SUFFICES ASSUME NEW p \in Nat, p < b.cap PROVE Reaches(c, p)
    BY <1>1, <1>4
  <2>0. p \in 0 .. b.cap - 1
    BY <1>1
  <2>1. Reaches(b, p) /\ BlockOf(p) \in Nat \ {0} /\ PlaceAt(p) \in 1 .. C1
    BY <2>0, BlockPlace DEF Shape, Blocks_
  <2>2. CASE BlockOf(p) = 1
    BY <1>4, <2>1, <2>2, BufferAssumption DEF Reaches
  <2>3. CASE BlockOf(p) # 1
    <3>1. BlockOf(p) \in 2 .. b.array_cap
      BY <1>1, <2>1, <2>3 DEF Reaches
    <3>2. c.array[BlockOf(p)] = b.array[BlockOf(p)]
      BY <1>4, <3>1
    <3> QED
      BY <1>4, <2>1, <3>2 DEF Reaches
  <2> QED
    BY <2>2, <2>3
<1>7. ASSUME NEW p \in 0 .. b.len - 1 PROVE ByteAt(c, p) = ByteAt(b, p)
  <2>1. p \in Nat /\ p < b.cap /\ p < C1 /\ p + 1 <= b.len /\ p + 1 \in 1 .. C1
    BY <1>1, BufferAssumption
  <2>2. BlockOf(p) = 1 /\ PlaceAt(p) = p + 1
    BY <2>1, FirstBlock
  <2>3. Reaches(b, p)
    BY <1>1, <2>1 DEF Shape, Blocks_
  <2>4. p + 1 <= Len(b.array[1])
    BY <2>2, <2>3 DEF Reaches
  <2> QED
    BY <1>4, <2>1, <2>2, <2>4 DEF ByteAt
<1> QED
  BY <1>1, <1>4, <1>5, <1>6, <1>7 DEF Shape, Blocks_

(* Growth keeps what was written, and all that was not lost.                *)
Expanded(b, n, c) ==
    /\ Shape(c) /\ (c.leaked <=> b.leaked)
    /\ c.ref = b.ref /\ c.len = b.len /\ c.cap >= n /\ c.cap >= b.cap
    /\ \A p \in 0 .. b.len - 1 : ByteAt(c, p) = ByteAt(b, p)

\* Once growth went in one step from less than a block to several, a block is lost.
LostOne(b, c) == c.leaked /\ b.cap < C1 /\ c.cap > C1

LEMMA ExpandsKnown ==
    ASSUME NEW b, Shape(b), NEW n \in Nat, NEW c, c = buffer_expand_capacity(b, n)
    PROVE  Expanded(b, n, c) \/ LostOne(b, c)
<1>1. /\ b.array \in Seq(Seq(Int)) /\ b.array_cap \in Nat /\ b.cap \in Nat /\ b.len \in Nat
      /\ CapacityFits(b.cap) /\ b.len <= b.cap /\ IsOldBuf(b)
  BY DEF Shape, IsOldBuf, OldBufType
<1>2. b.cap # 0 /\ b.array_cap # 0 /\ b.cap \in Nat \ {0}
  BY <1>1, FitsIs DEF IsOldBuf
<1>3. CASE n < b.cap
  <2>1. c = b
    BY <1>3 DEF buffer_expand_capacity
  <2> QED
    BY <1>1, <1>3, <2>1 DEF Expanded
<1>4. CASE ~(n < b.cap) /\ n <= C1
  <2>1. PICK m : m = Doubled(b.cap, n)
    OBVIOUS
  <2>2. m \in Nat \ {0} /\ m >= n /\ m >= b.cap
    BY <1>2, <2>1, DoubledIs
  <2>3. Doubled(b.cap, C1) = C1
    <3>1. b.cap >= C1 => Doubled(b.cap, C1) = b.cap
      BY <1>2, DoubledIs, BufferAssumption
    <3> QED
      BY <1>1, <1>4, <3>1, BufferAssumption DEF CapacityFits
  <2>4. m <= C1 /\ Doubled(m, C1) = C1
    BY <1>2, <1>4, <2>1, <2>3, DoubledMeets
  <2>5. CapacityFits(m)
    <3>1. CASE m < C1
      BY <2>2, <2>4, <3>1 DEF CapacityFits
    <3>2. CASE ~(m < C1)
      <4>1. m = 1 * C1
        BY <2>2, <2>4, <3>2, BufferAssumption
      <4> QED
        BY <3>2, <4>1 DEF CapacityFits
    <3> QED
      BY <3>1, <3>2
  <2>6. c = SmallTo(b, m)
    BY <1>4, <2>1 DEF buffer_expand_capacity, SmallTo
  <2>7. b.cap <= C1
    BY <1>1, <1>4, BufferAssumption
  <2>8. /\ Shape(c) /\ (c.leaked <=> b.leaked) /\ c.ref = b.ref /\ c.len = b.len /\ c.cap = m
        /\ \A p \in 0 .. b.len - 1 : ByteAt(c, p) = ByteAt(b, p)
    <3>1. m \in Nat /\ m <= C1 /\ b.cap <= m
      BY <1>1, <2>2, <2>4
    <3> QED
      BY <2>5, <2>6, <2>7, <3>1, SmallGrows
  <2> QED
    BY <2>2, <2>8 DEF Expanded
<1>5. CASE ~(n < b.cap) /\ ~(n <= C1) /\ b.len < C1
  <2>1. PICK m : m = Stepped(C1, n)
    OBVIOUS
  <2>2. m \in Nat \ {0} /\ m >= n
    BY <2>1, SteppedIs, BufferAssumption
  <2>3. PICK k \in Nat \ {0} : m = k * C1
    <3>1. C1 = 1 * C1
      BY BufferAssumption
    <3> QED
      BY <2>1, <3>1, SteppedMultiple
  <2>4. CapacityFits(m)
    BY <1>5, <2>2, <2>3, BufferAssumption DEF CapacityFits
  <2>5. PICK d : d = realloc_small(b, C1)
    OBVIOUS
  <2>6. c = Grown(d, b.cap \div C1, m)
    BY <1>5, <2>1, <2>5 DEF buffer_expand_capacity
  <2>7. /\ IsOldBuf(d) /\ d.array_cap = b.array_cap /\ Len(d.array[1]) = C1 /\ d.cap = b.cap
    <3>1. SmallGives(b, C1, d)
      BY <1>1, <1>2, <2>5, SmallIs, BufferAssumption
    <3> QED
      BY <3>1 DEF SmallGives
  <2>8. GrownIs(d, b.cap \div C1, m, c)
    <3>1. b.cap \div C1 \in Nat /\ d.array_cap # 0 /\ m \in Nat
      BY <1>1, <1>2, <2>2, <2>7, BlockDivMod
    <3> QED
      BY <2>6, <2>7, <3>1, BlocksAdded
  <2>9. CASE b.cap >= C1
    <3>1. /\ Shape(d) /\ (d.leaked <=> b.leaked) /\ d.ref = b.ref /\ d.len = b.len /\ d.cap = b.cap
          /\ \A p \in 0 .. b.len - 1 : ByteAt(d, p) = ByteAt(b, p)
      BY <1>5, <2>5, <2>9, FirstReplaced
    <3>2. d.cap <= m
      BY <1>1, <1>5, <2>2, <3>1
    <3>3. /\ Shape(c) /\ (c.leaked <=> d.leaked) /\ c.ref = d.ref /\ c.len = d.len /\ c.cap = m
          /\ \A p \in 0 .. d.len - 1 : ByteAt(c, p) = ByteAt(d, p)
      BY <2>2, <2>4, <2>8, <2>9, <3>1, <3>2, MoreBlocks
    <3> QED
      BY <1>1, <2>2, <3>1, <3>2, <3>3 DEF Expanded
  <2>10. CASE b.cap < C1
    <3>1. b.cap \div C1 = 0
      <4>1. BlockOf(b.cap) = 1 /\ b.cap \div C1 \in Nat
        BY <1>1, <2>10, FirstBlock, BlockDivMod
      <4> QED
        BY <4>1 DEF BlockOf
    <3>2. m \div C1 = k
      BY <2>3, BlockCount
    <3>3. d.array[1] # NoBlock
      BY <2>7, BufferAssumption DEF NoBlock
    <3>4. Loses(d, 0, k)
      BY <1>1, <1>2, <2>7, <3>3 DEF Loses
    <3>5. c.leaked /\ c.cap = m
      BY <2>8, <3>1, <3>2, <3>4 DEF GrownIs
    <3> QED
      BY <1>5, <2>2, <2>10, <3>5, BufferAssumption DEF LostOne
  <2> QED
    BY <1>1, <2>9, <2>10, BufferAssumption
<1>6. CASE ~(n < b.cap) /\ ~(n <= C1) /\ ~(b.len < C1)
  <2>1. PICK m : m = Stepped(b.cap, n)
    OBVIOUS
  <2>2. m \in Nat \ {0} /\ m >= n /\ m >= b.cap
    BY <1>2, <2>1, SteppedIs
  <2>3. b.cap >= C1
    BY <1>1, <1>6, BufferAssumption
  <2>4. PICK j \in Nat \ {0} : b.cap = j * C1
    <3>1. ~(b.cap < C1)
      BY <1>1, <2>3, BufferAssumption
    <3> QED
      BY <1>1, <3>1 DEF CapacityFits
  <2>5. PICK k \in Nat \ {0} : m = k * C1
    BY <2>1, <2>4, SteppedMultiple
  <2>6. CapacityFits(m)
    BY <1>6, <2>2, <2>5, BufferAssumption DEF CapacityFits
  <2>7. c = Grown(b, b.cap \div C1, m)
    BY <1>6, <2>1 DEF buffer_expand_capacity
  <2>8. GrownIs(b, b.cap \div C1, m, c)
    <3>1. b.cap \div C1 \in Nat /\ m \in Nat
      BY <1>1, <2>2, BlockDivMod
    <3> QED
      BY <1>1, <1>2, <2>7, <3>1, BlocksAdded
  <2>9. /\ Shape(c) /\ (c.leaked <=> b.leaked) /\ c.ref = b.ref /\ c.len = b.len /\ c.cap = m
        /\ \A p \in 0 .. b.len - 1 : ByteAt(c, p) = ByteAt(b, p)
    BY <2>2, <2>3, <2>6, <2>8, MoreBlocks
  <2> QED
    BY <2>2, <2>9 DEF Expanded
<1> QED
  BY <1>3, <1>4, <1>5, <1>6

\* Growth of any buffer, a lost block or not, is a buffer with that block lost.
LEMMA ExpandsTyped ==
    ASSUME NEW b, IsOldBuf(b), b.cap # 0, NEW n \in Nat, NEW c, c = buffer_expand_capacity(b, n)
    PROVE  /\ IsOldBuf(c) /\ c.cap # 0 /\ c.ref = b.ref /\ c.len = b.len
           /\ (b.leaked => c.leaked)
<1>1. /\ b.array \in Seq(Seq(Int)) /\ b.array_cap \in Nat /\ b.cap \in Nat \ {0} /\ b.len \in Nat
      /\ b.array_cap # 0 /\ b.cap \div C1 \in Nat
  <2>1. b.cap \in Nat /\ b.array_cap # 0
    BY DEF IsOldBuf, OldBufType
  <2> QED
    BY <2>1, BlockDivMod DEF IsOldBuf, OldBufType
<1>2. CASE n < b.cap
  <2>1. c = b
    BY <1>2 DEF buffer_expand_capacity
  <2> QED
    BY <2>1
<1>3. CASE ~(n < b.cap) /\ n <= C1
  <2>1. PICK m : m = Doubled(b.cap, n)
    OBVIOUS
  <2>2. m \in Nat /\ m # 0
    BY <1>1, <2>1, DoubledIs
  <2>3. PICK d : d = realloc_small(b, m)
    OBVIOUS
  <2>4. /\ IsOldBuf(d) /\ d.ref = b.ref /\ d.len = b.len /\ d.array_cap = b.array_cap
        /\ (d.leaked <=> b.leaked)
    <3>1. SmallGives(b, m, d)
      BY <1>1, <2>2, <2>3, SmallIs
    <3> QED
      BY <3>1 DEF SmallGives
  <2>5. c = [d EXCEPT !.cap = m] /\ d \in OldBufType
    BY <1>3, <2>1, <2>3, <2>4 DEF buffer_expand_capacity, IsOldBuf
  <2>6. /\ c \in OldBufType /\ c.array = d.array /\ c.cap = m /\ c.ref = d.ref /\ c.len = d.len
        /\ c.array_cap = d.array_cap /\ c.leaked = d.leaked
    BY <2>2, <2>5 DEF OldBufType
  <2> QED
    BY <1>1, <2>2, <2>4, <2>6 DEF IsOldBuf
<1>4. CASE ~(n < b.cap) /\ ~(n <= C1) /\ b.len < C1
  <2>1. PICK m : m = Stepped(C1, n)
    OBVIOUS
  <2>2. m \in Nat /\ m # 0
    BY <2>1, SteppedIs, BufferAssumption
  <2>3. PICK d : d = realloc_small(b, C1)
    OBVIOUS
  <2>4. /\ IsOldBuf(d) /\ d.ref = b.ref /\ d.len = b.len /\ d.array_cap = b.array_cap
        /\ (d.leaked <=> b.leaked)
    <3>1. SmallGives(b, C1, d)
      BY <1>1, <2>3, SmallIs, BufferAssumption
    <3> QED
      BY <3>1 DEF SmallGives
  <2>5. c = Grown(d, b.cap \div C1, m)
    BY <1>4, <2>1, <2>3 DEF buffer_expand_capacity
  <2>6. GrownIs(d, b.cap \div C1, m, c)
    BY <1>1, <2>2, <2>4, <2>5, BlocksAdded
  <2> QED
    BY <2>2, <2>4, <2>6 DEF GrownIs
<1>5. CASE ~(n < b.cap) /\ ~(n <= C1) /\ ~(b.len < C1)
  <2>1. PICK m : m = Stepped(b.cap, n)
    OBVIOUS
  <2>2. m \in Nat /\ m # 0
    BY <1>1, <2>1, SteppedIs
  <2>3. c = Grown(b, b.cap \div C1, m)
    BY <1>5, <2>1 DEF buffer_expand_capacity
  <2>4. GrownIs(b, b.cap \div C1, m, c)
    BY <1>1, <2>2, <2>3, BlocksAdded
  <2> QED
    BY <2>2, <2>4 DEF GrownIs
<1> QED
  BY <1>2, <1>3, <1>4, <1>5

(* A buffer that is not lost carries the bytes t.                           *)
Sound(b, t) == ~b.leaked => Shape(b) /\ Carries(b, t)

LEMMA ExpandKeeps ==
    ASSUME NEW b, IsOldBuf(b), b.cap # 0, NEW t, Sound(b, t), NEW n \in Nat,
           NEW c, c = buffer_expand_capacity(b, n)
    PROVE  /\ IsOldBuf(c) /\ c.cap # 0 /\ c.ref = b.ref /\ c.len = b.len
           /\ Sound(c, t) /\ (~c.leaked => c.cap >= n)
           /\ (c.leaked => b.leaked \/ (b.cap < C1 /\ c.cap > C1))
<1>1. /\ IsOldBuf(c) /\ c.cap # 0 /\ c.ref = b.ref /\ c.len = b.len /\ (b.leaked => c.leaked)
  BY ExpandsTyped
<1>2. CASE b.leaked
  BY <1>1, <1>2 DEF Sound
<1>3. CASE ~b.leaked
  <2>1. Shape(b) /\ Carries(b, t)
    BY <1>3 DEF Sound
  <2>2. CASE Expanded(b, n, c)
    <3>1. /\ Shape(c) /\ ~c.leaked /\ c.len = b.len /\ c.cap >= n
          /\ \A p \in 0 .. b.len - 1 : ByteAt(c, p) = ByteAt(b, p)
      BY <1>3, <2>2 DEF Expanded
    <3>2. Carries(c, t)
      BY <2>1, <3>1 DEF Carries
    <3> QED
      BY <1>1, <3>1, <3>2 DEF Sound
  <2>3. CASE LostOne(b, c)
    BY <1>1, <2>3 DEF Sound, LostOne
  <2> QED
    BY <2>1, <2>2, <2>3, ExpandsKnown
<1> QED
  BY <1>2, <1>3

\* A length that the capacity has room for is set, after growth.
LEMMA LengthSet ==
    ASSUME NEW b, IsOldBuf(b), b.cap # 0, NEW t, Sound(b, t), NEW n \in Nat,
           NEW c, c = buffer_set_length(b, n)
    PROVE  /\ IsOldBuf(c) /\ c.cap # 0 /\ c.ref = b.ref /\ c.len = n
           /\ ~c.leaked => /\ Shape(c) /\ ~b.leaked
                           /\ \A p \in Nat : p < b.len /\ t[p + 1] # Junk => ByteAt(c, p) = t[p + 1]
           /\ (c.leaked => b.leaked \/ (b.cap < C1 /\ c.cap > C1))
<1>1. b.cap \in Nat /\ b.len \in Nat
  BY DEF IsOldBuf, OldBufType
<1>2. PICK d : d = IF n > b.cap THEN buffer_expand_capacity(b, n) ELSE b
  OBVIOUS
<1>3. /\ IsOldBuf(d) /\ d.cap # 0 /\ d.ref = b.ref /\ d.len = b.len /\ Sound(d, t)
      /\ (~d.leaked => d.cap >= n) /\ (d.leaked => b.leaked \/ (b.cap < C1 /\ d.cap > C1))
      /\ (b.leaked => d.leaked)
  <2>1. CASE n > b.cap
    <3>1. d = buffer_expand_capacity(b, n)
      BY <1>2, <2>1
    <3> QED
      BY <3>1, ExpandKeeps, ExpandsTyped
  <2>2. CASE ~(n > b.cap)
    BY <1>1, <1>2, <2>2
  <2> QED
    BY <2>1, <2>2
<1>4. c = [d EXCEPT !.len = n] /\ d \in OldBufType
  BY <1>2, <1>3 DEF buffer_set_length, IsOldBuf
<1>5. /\ c \in OldBufType /\ c.array = d.array /\ c.cap = d.cap /\ c.ref = d.ref /\ c.len = n
      /\ c.array_cap = d.array_cap /\ c.leaked = d.leaked
  BY <1>4 DEF OldBufType
<1>6. IsOldBuf(c)
  BY <1>3, <1>5 DEF IsOldBuf
<1>7. ASSUME ~c.leaked
      PROVE  /\ Shape(c) /\ ~b.leaked
             /\ \A p \in Nat : p < b.len /\ t[p + 1] # Junk => ByteAt(c, p) = t[p + 1]
  <2>1. Shape(d) /\ Carries(d, t) /\ d.cap >= n /\ ~b.leaked
    BY <1>3, <1>5, <1>7 DEF Sound
  <2>2. n <= c.cap
    BY <1>5, <2>1 DEF OldBufType
  <2>3. \A p \in Nat : Reaches(d, p) <=> Reaches(c, p)
    BY <1>5 DEF Reaches
  <2>4. Shape(c)
    BY <1>5, <1>6, <2>1, <2>2, <2>3 DEF Shape, Blocks_, OldBufType
  <2>5. \A p \in Nat : ByteAt(c, p) = ByteAt(d, p)
    BY <1>5 DEF ByteAt
  <2> QED
    BY <1>1, <1>3, <2>1, <2>4, <2>5 DEF Carries
<1> QED
  BY <1>3, <1>5, <1>6, <1>7

PutIs(b, from, to, c) ==
    /\ IsOldBuf(c) /\ c.ref = b.ref /\ c.len = b.len /\ c.cap = b.cap
    /\ (c.leaked <=> b.leaked)
    /\ Shape(b) => Shape(c)
    /\ \A p \in Nat : Reaches(b, p) =>
          ByteAt(c, p) = IF p + 1 \in (from + 1) .. to THEN (p + 1) % 3 ELSE ByteAt(b, p)

\* Bytes are written at their positions, and nowhere else.
LEMMA BytesPut ==
    ASSUME NEW b, IsOldBuf(b), NEW from \in Nat, NEW to \in Nat, NEW c, c = Put(b, from, to)
    PROVE  PutIs(b, from, to, c)
<1> DEFINE New(i, j) == LET pos == (i - 1) * C1 + j
                        IN  IF pos \in (from + 1)..to THEN pos % 3 ELSE b.array[i][j]
<1>1. b \in OldBufType /\ Len(b.array) = b.array_cap /\ (b.cap # 0 => b.array_cap # 0)
  BY DEF IsOldBuf
<1>2. b.array \in Seq(Seq(Int)) /\ b.array_cap \in Nat /\ b.cap \in Nat /\ b.len \in Nat
  BY <1>1 DEF OldBufType
<1>3. PICK array : array = [i \in DOMAIN b.array |-> [j \in DOMAIN b.array[i] |-> New(i, j)]]
  OBVIOUS
<1>4. c = [b EXCEPT !.array = array]
  BY <1>3 DEF Put
<1>5. DOMAIN b.array = 1 .. b.array_cap
  BY <1>1, <1>2
<1>6. ASSUME NEW i \in 1 .. b.array_cap
      PROVE  /\ array[i] \in Seq(Int) /\ Len(array[i]) = Len(b.array[i])
             /\ \A j \in 1 .. Len(b.array[i]) : array[i][j] = New(i, j)
             /\ b.array[i] = NoBlock => array[i] = NoBlock
  <2>1. b.array[i] \in Seq(Int)
    BY <1>1, <1>2
  <2>2. PICK m \in Nat : m = Len(b.array[i]) /\ DOMAIN b.array[i] = 1 .. m
    BY <2>1
  <2>3. array[i] = [j \in 1 .. m |-> New(i, j)]
    BY <1>3, <1>5, <2>2
  <2>4. \A j \in 1 .. m : New(i, j) \in Int
    <3>1. \A j \in 1 .. m : b.array[i][j] \in Int
      BY <2>1, <2>2
    <3>2. \A j \in 1 .. m : (i - 1) * C1 + j \in Int
      <4> TAKE j \in 1 .. m
      <4>1. i - 1 \in Nat
        BY <1>2
      <4>2. (i - 1) * C1 \in Nat
        BY <4>1, BlockProduct
      <4> QED
        BY <4>2
    <3> QED
      BY <3>1, <3>2
  <2> HIDE DEF New
  <2>5. array[i] \in Seq(Int) /\ Len(array[i]) = m /\ \A j \in 1 .. m : array[i][j] = New(i, j)
    BY <2>3, <2>4
  <2>6. ASSUME b.array[i] = NoBlock PROVE array[i] = NoBlock
    <3>1. m = 0
      BY <2>2, <2>6 DEF NoBlock
    <3> QED
      BY <2>5, <3>1 DEF NoBlock
  <2> QED
    BY <2>2, <2>5, <2>6
<1> HIDE DEF New
<1>7. array \in Seq(Seq(Int)) /\ Len(array) = b.array_cap
  <2> DEFINE T == Seq(Int)
  <2>1. \A i \in 1 .. b.array_cap : array[i] \in T
    BY <1>6
  <2>2. array = [i \in 1 .. b.array_cap |-> array[i]]
    BY <1>3, <1>5
  <2> HIDE DEF T
  <2>3. array \in Seq(T) /\ Len(array) = b.array_cap
    <3>1. PICK m \in Nat : m = b.array_cap
      BY <1>2
    <3>2. array = [i \in 1 .. m |-> array[i]] /\ \A i \in 1 .. m : array[i] \in T
      BY <2>1, <2>2, <3>1
    <3>3. array \in Seq(T) /\ Len(array) = m
      BY <3>2
    <3> QED
      BY <3>1, <3>3
  <2> QED
    BY <2>3 DEF T
<1>8. /\ c \in OldBufType /\ c.array = array /\ c.cap = b.cap /\ c.ref = b.ref /\ c.len = b.len
      /\ c.array_cap = b.array_cap /\ c.leaked = b.leaked
  BY <1>1, <1>4, <1>7 DEF OldBufType
<1>9. IsOldBuf(c)
  BY <1>1, <1>7, <1>8 DEF IsOldBuf
<1>10. ASSUME NEW p \in Nat, Reaches(b, p)
       PROVE  /\ Reaches(c, p)
              /\ ByteAt(c, p) = IF p + 1 \in (from + 1) .. to THEN (p + 1) % 3 ELSE ByteAt(b, p)
  <2>1. PICK i \in 1 .. b.array_cap : i = BlockOf(p)
    <3>1. BlockOf(p) \in Nat \ {0} /\ BlockOf(p) <= b.array_cap
      BY <1>10, BlockPlace DEF Reaches
    <3>2. BlockOf(p) \in 1 .. b.array_cap
      BY <1>2, <3>1
    <3> QED
      BY <3>2
  <2>2. b.array[i] \in Seq(Int)
    BY <1>1, <1>2
  <2>3. PICK j \in 1 .. Len(b.array[i]) : j = PlaceAt(p)
    <3>1. PlaceAt(p) \in 1 .. C1 /\ PlaceAt(p) <= Len(b.array[i])
      BY <1>10, <2>1, BlockPlace DEF Reaches
    <3>2. PlaceAt(p) \in 1 .. Len(b.array[i])
      BY <2>2, <3>1, BufferAssumption
    <3> QED
      BY <3>2
  <2>4. (i - 1) * C1 + j = p + 1
    BY <2>1, <2>3, BlockPlace
  <2>5. New(i, j) = IF p + 1 \in (from + 1) .. to THEN (p + 1) % 3 ELSE b.array[i][j]
    BY <2>4 DEF New
  <2>6. c.array[i][j] = New(i, j) /\ Len(c.array[i]) = Len(b.array[i])
    BY <1>6, <1>8
  <2> QED
    BY <1>8, <1>10, <2>1, <2>3, <2>5, <2>6 DEF Reaches, ByteAt
<1>11. ASSUME Shape(b) PROVE Shape(c)
  <2>1. \A p \in 0 .. c.cap - 1 : Reaches(c, p)
    BY <1>2, <1>8, <1>10, <1>11 DEF Shape, Blocks_
  <2>2. \A i \in 1 .. c.array_cap : i > BlocksOf(c.cap) => c.array[i] = NoBlock
    BY <1>6, <1>8, <1>11 DEF Shape, Blocks_
  <2> QED
    BY <1>8, <1>9, <1>11, <2>1, <2>2 DEF Shape, Blocks_
<1> QED
  BY <1>8, <1>9, <1>10, <1>11 DEF PutIs

(***************************************************************************)
(* A new buffer, and a clone.                                              *)
(***************************************************************************)
LEMMA NewBuffer ==
    ASSUME NEW capacity \in Nat, NEW array_cap \in Nat,
           NEW c, c = buffer_init_ex(capacity, array_cap)
    PROVE  Shape(c) /\ c.len = 0 /\ ~c.leaked /\ c.cap >= capacity
<1> DEFINE cap == IF capacity <= C1 THEN Doubled(C0, capacity) ELSE Stepped(C1, capacity)
           alen == IF capacity <= C1 THEN 1 ELSE cap \div C1
           acap == Doubled(IF capacity <= C1 THEN 1 ELSE Doubled(1, alen), array_cap)
           array == [i \in 1..acap |-> IF i <= alen THEN Malloc(C1) ELSE NoBlock]
<1>1. /\ cap \in Nat /\ cap # 0 /\ cap >= capacity /\ CapacityFits(cap)
      /\ alen = BlocksOf(cap) /\ (capacity <= C1 => cap <= C1)
  <2>1. CASE capacity <= C1
    <3>1. PICK m : m = Doubled(C0, capacity)
      OBVIOUS
    <3>2. m \in Nat \ {0} /\ m >= capacity
      BY <3>1, DoubledIs, BufferAssumption
    <3>3. m <= C1 /\ Doubled(m, C1) = C1
      BY <2>1, <3>1, DoubledMeets, BufferAssumption
    <3>4. C1 \div C1 = 1 /\ C1 = 1 * C1
      BY BlockCount, BufferAssumption
    <3>5. CapacityFits(m) /\ BlocksOf(m) = 1
      <4>1. CASE m < C1
        BY <3>2, <3>3, <4>1 DEF CapacityFits, BlocksOf
      <4>2. CASE ~(m < C1)
        <5>1. m = C1
          BY <3>2, <3>3, <4>2, BufferAssumption
        <5> QED
          BY <3>4, <4>2, <5>1 DEF CapacityFits, BlocksOf
      <4> QED
        BY <4>1, <4>2
    <3> QED
      BY <2>1, <3>1, <3>2, <3>3, <3>5
  <2>2. CASE ~(capacity <= C1)
    <3>1. PICK m : m = Stepped(C1, capacity)
      OBVIOUS
    <3>2. m \in Nat \ {0} /\ m >= capacity
      BY <3>1, SteppedIs, BufferAssumption
    <3>3. PICK k \in Nat \ {0} : m = k * C1
      <4>1. C1 = 1 * C1
        BY BufferAssumption
      <4> QED
        BY <3>1, <4>1, SteppedMultiple
    <3>4. ~(m < C1)
      BY <2>2, <3>2, BufferAssumption
    <3>5. CapacityFits(m) /\ BlocksOf(m) = m \div C1
      BY <3>3, <3>4 DEF CapacityFits, BlocksOf
    <3> QED
      BY <2>2, <3>1, <3>2, <3>5
  <2> QED
    BY <2>1, <2>2
<1>2. alen \in Nat \ {0}
  BY <1>1, FitsIs
<1>3. c = [ref |-> 1, len |-> 0, cap |-> cap, array_cap |-> acap, leaked |-> FALSE, array |-> array]
  BY DEF buffer_init_ex
<1>4. acap \in Nat /\ acap # 0 /\ acap >= alen
  <2>1. CASE capacity <= C1
    <3>1. acap = Doubled(1, array_cap) /\ alen = 1
      BY <2>1
    <3> QED
      BY <3>1, DoubledIs
  <2>2. CASE ~(capacity <= C1)
    <3>1. PICK a : a = Doubled(1, alen)
      OBVIOUS
    <3> HIDE DEF alen
    <3>2. a \in Nat \ {0} /\ a >= alen
      BY <1>2, <3>1, DoubledIs
    <3>3. acap = Doubled(a, array_cap)
      BY <2>2, <3>1 DEF alen
    <3>4. acap \in Nat \ {0} /\ acap >= a
      BY <3>2, <3>3, DoubledIs
    <3> QED
      BY <1>2, <3>2, <3>4
  <2> QED
    BY <2>1, <2>2
<1> HIDE DEF cap, alen, acap
<1>5. /\ array \in Seq(Seq(Int)) /\ Len(array) = acap
      /\ \A i \in 1 .. acap : array[i] = IF i <= alen THEN Malloc(C1) ELSE NoBlock
  <2> DEFINE T == Seq(Int)
  <2>1. NoBlock \in T /\ Malloc(C1) \in T
    BY MallocIs, BufferAssumption DEF NoBlock
  <2> HIDE DEF T
  <2>2. array \in Seq(T) /\ Len(array) = acap
    BY <1>4, <2>1
  <2> QED
    BY <2>2 DEF T
<1> HIDE DEF array
<1>6. /\ c.ref = 1 /\ c.len = 0 /\ c.cap = cap /\ c.array_cap = acap /\ c.array = array
      /\ c.leaked = FALSE
  BY <1>3
<1>7. c \in OldBufType
  BY <1>1, <1>3, <1>4, <1>5 DEF OldBufType
<1>8. IsOldBuf(c)
  BY <1>4, <1>5, <1>6, <1>7 DEF IsOldBuf
<1>9. ASSUME NEW p \in Nat, p < cap PROVE Reaches(c, p)
  <2>1. BlockOf(p) \in Nat \ {0} /\ PlaceAt(p) \in 1 .. C1 /\ BlockOf(p) <= alen
    BY <1>1, <1>9, FitsIs, BlockPlace
  <2>2. BlockOf(p) \in 1 .. acap
    BY <1>2, <1>4, <2>1
  <2>3. Len(c.array[BlockOf(p)]) = C1
    BY <1>5, <1>6, <2>1, <2>2, MallocIs, BufferAssumption
  <2> QED
    BY <1>6, <2>1, <2>2, <2>3, BufferAssumption DEF Reaches
<1>10. \A i \in 1 .. c.array_cap : i > BlocksOf(c.cap) => c.array[i] = NoBlock
  BY <1>1, <1>2, <1>4, <1>5, <1>6
<1>11. Shape(c)
  <2>1. \A p \in 0 .. c.cap - 1 : Reaches(c, p)
    BY <1>1, <1>6, <1>9
  <2>2. c.len <= c.cap /\ CapacityFits(c.cap)
    BY <1>1, <1>6
  <2> QED
    BY <1>8, <1>10, <2>1, <2>2 DEF Shape, Blocks_
<1> QED
  BY <1>1, <1>6, <1>11

\* The clone has the bytes of the buffer.
LEMMA ClonedBytes ==
    ASSUME NEW b, Shape(b), NEW c, c = buffer_clone(b)
    PROVE  \A p \in 0 .. b.len - 1 : ByteAt(c, p) = ByteAt(b, p)
<1>1. b.len \in Nat /\ b.cap \in Nat
  BY DEF Shape, IsOldBuf, OldBufType
<1>2. PICK f : f = buffer_init_ex(b.len, 0)
  OBVIOUS
<1>3. Shape(f) /\ f.cap >= b.len
  BY <1>1, <1>2, NewBuffer
<1>4. f \in OldBufType /\ f.array \in Seq(Seq(Int)) /\ f.array_cap = Len(f.array) /\ f.cap \in Nat
  BY <1>3 DEF Shape, IsOldBuf, OldBufType
<1> DEFINE New(i, j) == IF (i - 1) * C1 + j <= b.len THEN b.array[i][j] ELSE f.array[i][j]
           array == [i \in DOMAIN f.array |-> [j \in DOMAIN f.array[i] |-> New(i, j)]]
<1>5. c = [f EXCEPT !.len = b.len, !.array = array]
  BY <1>2 DEF buffer_clone, CloneInto
<1>6. c.array = array
  <2> HIDE DEF array
  <2> QED
    BY <1>4, <1>5 DEF OldBufType
<1>7. ASSUME NEW p \in 0 .. b.len - 1 PROVE ByteAt(c, p) = ByteAt(b, p)
  <2>1. Reaches(f, p) /\ p \in Nat
    BY <1>1, <1>3, <1>4 DEF Shape, Blocks_
  <2>2. PICK i : i = BlockOf(p) /\ i \in DOMAIN f.array
    <3>1. BlockOf(p) \in Nat \ {0} /\ BlockOf(p) <= Len(f.array)
      BY <1>4, <2>1, BlockPlace DEF Reaches
    <3> QED
      BY <1>4, <3>1
  <2>3. PICK j : j = PlaceAt(p) /\ j \in DOMAIN f.array[i]
    <3>1. PlaceAt(p) \in Nat \ {0} /\ PlaceAt(p) <= Len(f.array[i])
      <4>1. PlaceAt(p) \in 1 .. C1
        BY <2>1, BlockPlace
      <4>2. PlaceAt(p) <= Len(f.array[i])
        BY <2>1, <2>2 DEF Reaches
      <4> QED
        BY <4>1, <4>2, BufferAssumption
    <3>2. f.array[i] \in Seq(Int)
      BY <1>4, <2>2
    <3>3. PlaceAt(p) \in 1 .. Len(f.array[i])
      BY <3>1, <3>2
    <3> QED
      BY <3>2, <3>3
  <2>4. (i - 1) * C1 + j = p + 1
    BY <2>1, <2>2, <2>3, BlockPlace
  <2>5. New(i, j) = b.array[i][j]
    BY <1>1, <2>4
  <2>6. array[i][j] = New(i, j)
    BY <2>2, <2>3
  <2> QED
    BY <1>6, <2>2, <2>3, <2>5, <2>6 DEF ByteAt
<1> QED
  BY <1>7

(***************************************************************************)
(* The operations.                                                         *)
(***************************************************************************)
LEMMA BufferStarts == BufferInit => BufferInv
<1> SUFFICES ASSUME BufferInit PROVE BufferInv
  OBVIOUS
<1>1. PICK capacity \in Capacities, array_cap \in ArrayCaps : buf = buffer_init_ex(capacity, array_cap)
  BY DEF BufferInit
<1>2. Shape(buf) /\ buf.len = 0
  BY <1>1, NewBuffer, BufferAssumption
<1>3. text = <<>>
  BY DEF BufferInit
<1>4. Carries(buf, text)
  BY <1>2 DEF Carries
<1> QED
  BY <1>2, <1>3, <1>4 DEF BufferInv, Shape

LEMMA BufferInvIs ==
    ASSUME BufferInv, Alive
    PROVE  /\ IsOldBuf(buf) /\ text \in Seq(Int) /\ Len(text) = buf.len /\ buf.cap # 0
           /\ Sound(buf, text) /\ buf.len \in Nat /\ buf.cap \in Nat /\ buf.array_cap # 0
  BY DEF BufferInv, Alive, Sound, IsOldBuf, OldBufType

LEMMA TextJoined ==
    ASSUME NEW s \in Seq(Int), NEW w \in Seq(Int)
    PROVE  s \o w \in Seq(Int) /\ Len(s \o w) = Len(s) + Len(w)
  OBVIOUS

LEMMA WriteKeeps ==
    ASSUME BufferInv, NEW n \in Nat, buffer_write(n) PROVE BufferInv'
<1>1. /\ Alive /\ buf' = Put(buffer_set_length(buf, buf.len + n), buf.len, buf.len + n)
      /\ text' = text \o [i \in 1..n |-> (buf.len + i) % 3]
  BY DEF buffer_write
<1>2. /\ IsOldBuf(buf) /\ text \in Seq(Int) /\ Len(text) = buf.len /\ buf.cap # 0
      /\ Sound(buf, text) /\ buf.len \in Nat /\ buf.len + n \in Nat
  BY <1>1, BufferInvIs
<1>3. PICK d : d = buffer_set_length(buf, buf.len + n)
  OBVIOUS
<1>4. /\ IsOldBuf(d) /\ d.cap # 0 /\ d.ref = buf.ref /\ d.len = buf.len + n
      /\ ~d.leaked => /\ Shape(d) /\ ~buf.leaked
                      /\ \A p \in Nat : p < buf.len /\ text[p + 1] # Junk => ByteAt(d, p) = text[p + 1]
  BY <1>2, <1>3, LengthSet
<1>5. PICK c : c = Put(d, buf.len, buf.len + n)
  OBVIOUS
<1> DEFINE m == buf.len + n
<1>6. /\ IsOldBuf(c) /\ c.ref = d.ref /\ c.len = d.len /\ c.cap = d.cap
      /\ (c.leaked <=> d.leaked) /\ (Shape(d) => Shape(c))
      /\ \A p \in Nat : Reaches(d, p) =>
             ByteAt(c, p) = IF p + 1 \in (buf.len + 1) .. m THEN (p + 1) % 3 ELSE ByteAt(d, p)
  <2>1. c = Put(d, buf.len, m) /\ m \in Nat
    BY <1>2, <1>5
  <2> HIDE DEF m
  <2>2. PutIs(d, buf.len, m, c)
    BY <1>2, <1>4, <2>1, BytesPut
  <2> QED
    BY <2>2 DEF PutIs
<1>7. PICK t : t = text'
  OBVIOUS
<1>8. /\ t \in Seq(Int) /\ Len(t) = buf.len + n
      /\ \A p \in Nat : p < buf.len => t[p + 1] = text[p + 1]
      /\ \A p \in Nat : buf.len <= p /\ p < buf.len + n => t[p + 1] = (p + 1) % 3
  <2>1. PICK w : w = [i \in 1..n |-> (buf.len + i) % 3]
    OBVIOUS
  <2>2. w \in Seq(Int) /\ Len(w) = n /\ \A i \in 1 .. n : w[i] = (buf.len + i) % 3
    <3>1. \A i \in 1 .. n : (buf.len + i) % 3 \in Int
      BY <1>2
    <3> QED
      BY <2>1, <3>1
  <2>3. t = text \o w
    BY <1>1, <1>7, <2>1
  <2>4. /\ t \in Seq(Int) /\ Len(t) = buf.len + n
        /\ \A i \in 1 .. buf.len + n : t[i] = IF i <= buf.len THEN text[i] ELSE w[i - buf.len]
    <3>1. PICK s \in Seq(Int) : s = text
      BY <1>2
    <3>2. PICK k \in Nat : k = buf.len /\ k = Len(s)
      BY <1>2, <3>1
    <3>3. t = s \o w
      BY <2>3, <3>1
    <3>4. t \in Seq(Int) /\ Len(t) = k + n
      <4>1. t \in Seq(Int) /\ Len(t) = Len(s) + Len(w)
        BY <2>2, <3>3, TextJoined
      <4> QED
        BY <2>2, <3>2, <4>1
    <3>5. \A i \in 1 .. k + n : t[i] = IF i <= k THEN s[i] ELSE w[i - k]
      BY <2>2, <3>2, <3>3
    <3> QED
      BY <3>1, <3>2, <3>4, <3>5
  <2>5. ASSUME NEW p \in Nat, buf.len <= p, p < buf.len + n PROVE t[p + 1] = (p + 1) % 3
    <3>1. p + 1 \in 1 .. buf.len + n /\ ~(p + 1 <= buf.len) /\ (p + 1) - buf.len \in 1 .. n
          /\ buf.len + ((p + 1) - buf.len) = p + 1
      BY <1>2, <2>5
    <3> QED
      BY <2>2, <2>4, <3>1
  <2>6. ASSUME NEW p \in Nat, p < buf.len PROVE t[p + 1] = text[p + 1]
    <3>1. p + 1 \in 1 .. buf.len + n /\ p + 1 <= buf.len
      BY <1>2, <2>6
    <3> QED
      BY <2>4, <3>1
  <2> QED
    BY <2>4, <2>5, <2>6
<1>9. ASSUME ~c.leaked PROVE Shape(c) /\ Carries(c, t)
  <2>1. /\ Shape(d) /\ Shape(c) /\ d.cap \in Nat /\ c.len = buf.len + n /\ d.len = buf.len + n
        /\ \A p \in Nat : p < buf.len /\ text[p + 1] # Junk => ByteAt(d, p) = text[p + 1]
    BY <1>4, <1>6, <1>9 DEF IsOldBuf, OldBufType
  <2>2. ASSUME NEW p \in 0 .. c.len - 1, t[p + 1] # Junk PROVE ByteAt(c, p) = t[p + 1]
    <3>1. p \in Nat /\ p < buf.len + n /\ Reaches(d, p)
      BY <1>2, <2>1 DEF Shape, Blocks_
    <3>2. CASE p < buf.len
      <4>1. p + 1 \notin (buf.len + 1) .. (buf.len + n)
        BY <1>2, <3>1, <3>2
      <4> QED
        BY <1>6, <1>8, <2>1, <2>2, <3>1, <3>2, <4>1
    <3>3. CASE ~(p < buf.len)
      <4>1. p + 1 \in (buf.len + 1) .. (buf.len + n) /\ buf.len <= p
        BY <1>2, <3>1, <3>3
      <4> QED
        BY <1>6, <1>8, <3>1, <4>1
    <3> QED
      BY <3>2, <3>3
  <2> QED
    BY <2>1, <2>2 DEF Carries
<1>10. buf' = c /\ text' = t
  BY <1>1, <1>3, <1>5, <1>7
<1> QED
  BY <1>4, <1>6, <1>8, <1>9, <1>10 DEF BufferInv

LEMMA SetLengthKeeps ==
    ASSUME BufferInv, NEW n \in Nat, SetLength(n) PROVE BufferInv'
<1>1. /\ Alive /\ buf' = buffer_set_length(buf, n)
      /\ text' = [i \in 1..n |-> IF i <= Len(text) THEN text[i] ELSE Junk]
  BY DEF SetLength
<1>2. /\ IsOldBuf(buf) /\ text \in Seq(Int) /\ Len(text) = buf.len /\ buf.cap # 0
      /\ Sound(buf, text) /\ buf.len \in Nat
  BY <1>1, BufferInvIs
<1>3. PICK c : c = buffer_set_length(buf, n)
  OBVIOUS
<1>4. /\ IsOldBuf(c) /\ c.len = n
      /\ ~c.leaked => /\ Shape(c)
                      /\ \A p \in Nat : p < buf.len /\ text[p + 1] # Junk => ByteAt(c, p) = text[p + 1]
  BY <1>2, <1>3, LengthSet
<1>5. PICK t : t = text'
  OBVIOUS
<1>6. /\ t \in Seq(Int) /\ Len(t) = n
      /\ \A i \in 1 .. n : t[i] = IF i <= buf.len THEN text[i] ELSE Junk
  <2>1. \A i \in 1 .. n : i <= buf.len => text[i] \in Int
    BY <1>2
  <2> QED
    BY <1>1, <1>2, <1>5, <2>1 DEF Junk
<1>7. ASSUME ~c.leaked PROVE Shape(c) /\ Carries(c, t)
  <2>1. ASSUME NEW p \in 0 .. c.len - 1, t[p + 1] # Junk PROVE ByteAt(c, p) = t[p + 1]
    <3>1. p \in Nat /\ p + 1 \in 1 .. n
      BY <1>4
    <3>2. p + 1 <= buf.len /\ t[p + 1] = text[p + 1]
      BY <1>6, <2>1, <3>1
    <3>3. p < buf.len /\ text[p + 1] # Junk
      BY <1>2, <2>1, <3>1, <3>2
    <3> QED
      BY <1>4, <1>7, <3>1, <3>2, <3>3
  <2> QED
    BY <1>4, <1>7, <2>1 DEF Carries
<1>8. buf' = c /\ text' = t
  BY <1>1, <1>3, <1>5
<1> QED
  BY <1>4, <1>6, <1>7, <1>8 DEF BufferInv

LEMMA ExpandCapacityKeeps ==
    ASSUME BufferInv, NEW n \in Nat, ExpandCapacity(n) PROVE BufferInv'
<1>1. Alive /\ buf' = buffer_expand_capacity(buf, n) /\ text' = text
  BY DEF ExpandCapacity
<1>2. /\ IsOldBuf(buf) /\ text \in Seq(Int) /\ Len(text) = buf.len /\ buf.cap # 0
      /\ Sound(buf, text)
  BY <1>1, BufferInvIs
<1>3. IsOldBuf(buf') /\ buf'.len = buf.len /\ Sound(buf', text)
  BY <1>1, <1>2, ExpandKeeps
<1> QED
  BY <1>1, <1>2, <1>3 DEF BufferInv, Sound

LEMMA TrimKeeps ==
    ASSUME BufferInv, NEW n \in Nat, buffer_trim(n) PROVE BufferInv'
<1>1. Alive /\ buf' = [buf EXCEPT !.len = IF @ < n THEN 0 ELSE @ - n]
      /\ text' = SubSeq(text, 1, buf'.len)
  BY DEF buffer_trim
<1>2. /\ IsOldBuf(buf) /\ text \in Seq(Int) /\ Len(text) = buf.len /\ buf.cap # 0
      /\ Sound(buf, text) /\ buf.len \in Nat /\ buf \in OldBufType /\ buf.cap \in Nat
  BY <1>1, BufferInvIs DEF IsOldBuf
<1>3. PICK m \in Nat : m = (IF buf.len < n THEN 0 ELSE buf.len - n) /\ m <= buf.len
  BY <1>2
<1>4. PICK c : c = [buf EXCEPT !.len = m]
  OBVIOUS
<1>5. /\ c \in OldBufType /\ c.array = buf.array /\ c.cap = buf.cap /\ c.len = m
      /\ c.array_cap = buf.array_cap /\ c.leaked = buf.leaked
  BY <1>2, <1>4 DEF OldBufType
<1>6. buf' = c
  BY <1>1, <1>3, <1>4
<1>7. PICK t : t = SubSeq(text, 1, m)
  OBVIOUS
<1>8. t \in Seq(Int) /\ Len(t) = m /\ \A i \in 1 .. m : t[i] = text[i]
  BY <1>2, <1>3, <1>7
<1>9. IsOldBuf(c)
  BY <1>2, <1>5 DEF IsOldBuf
<1>10. ASSUME ~c.leaked PROVE Shape(c) /\ Carries(c, t)
  <2>1. Shape(buf) /\ Carries(buf, text)
    BY <1>2, <1>5, <1>10 DEF Sound
  <2>2. \A p \in Nat : (Reaches(c, p) <=> Reaches(buf, p)) /\ ByteAt(c, p) = ByteAt(buf, p)
    BY <1>5 DEF Reaches, ByteAt
  <2>3. m <= buf.cap
    BY <1>2, <1>3, <2>1 DEF Shape
  <2>4. Shape(c)
    BY <1>2, <1>5, <1>9, <2>1, <2>2, <2>3 DEF Shape, Blocks_
  <2>5. ASSUME NEW p \in 0 .. c.len - 1, t[p + 1] # Junk PROVE ByteAt(c, p) = t[p + 1]
    <3>1. p \in 0 .. buf.len - 1 /\ p \in Nat /\ p + 1 \in 1 .. m
      BY <1>2, <1>3, <1>5
    <3> QED
      BY <1>8, <2>1, <2>2, <2>5, <3>1 DEF Carries
  <2> QED
    BY <2>4, <2>5 DEF Carries
<1>11. text' = t
  BY <1>1, <1>5, <1>6, <1>7
<1> QED
  BY <1>5, <1>6, <1>8, <1>9, <1>10, <1>11 DEF BufferInv

LEMMA CopyKeeps == ASSUME BufferInv, buffer_copy PROVE BufferInv'
<1>1. Alive /\ buf' = [buf EXCEPT !.ref = @ + 1] /\ text' = text
  BY DEF buffer_copy
<1>2. PICK r : r = buf.ref + 1
  OBVIOUS
<1>3. /\ IsOldBuf(buf) /\ text \in Seq(Int) /\ Len(text) = buf.len /\ buf.cap # 0
      /\ Sound(buf, text) /\ buf \in OldBufType /\ buf.cap \in Nat /\ r \in Nat
  BY <1>1, <1>2, BufferInvIs DEF IsOldBuf, OldBufType
<1>4. buf' = [buf EXCEPT !.ref = r]
  BY <1>1, <1>2
<1>5. /\ buf' \in OldBufType /\ buf'.array = buf.array /\ buf'.cap = buf.cap /\ buf'.len = buf.len
      /\ buf'.array_cap = buf.array_cap /\ buf'.leaked = buf.leaked
  BY <1>3, <1>4 DEF OldBufType
<1>6. IsOldBuf(buf')
  BY <1>3, <1>5 DEF IsOldBuf
<1>7. \A p \in Nat : (Reaches(buf', p) <=> Reaches(buf, p)) /\ ByteAt(buf', p) = ByteAt(buf, p)
  BY <1>5 DEF Reaches, ByteAt
<1>8. Shape(buf) => Shape(buf')
  BY <1>3, <1>5, <1>6, <1>7 DEF Shape, Blocks_
<1>9. Carries(buf, text) => Carries(buf', text)
  BY <1>3, <1>5, <1>7 DEF Carries
<1> QED
  BY <1>1, <1>3, <1>5, <1>6, <1>8, <1>9 DEF BufferInv, Sound

LEMMA DestroyKeeps == ASSUME BufferInv, buffer_destroy PROVE BufferInv'
<1>1. Alive
  BY DEF buffer_destroy
<1>2. /\ IsOldBuf(buf) /\ text \in Seq(Int) /\ Len(text) = buf.len /\ buf.cap # 0
      /\ Sound(buf, text) /\ buf \in OldBufType /\ buf.cap \in Nat /\ buf.ref \in Nat
  BY <1>1, BufferInvIs DEF IsOldBuf, OldBufType
<1>3. CASE buf.ref > 1
  <2>1. PICK r : r = buf.ref - 1
    OBVIOUS
  <2>2. r \in Nat /\ buf' = [buf EXCEPT !.ref = r] /\ text' = text
    BY <1>2, <1>3, <2>1 DEF buffer_destroy
  <2>3. /\ buf' \in OldBufType /\ buf'.array = buf.array /\ buf'.cap = buf.cap /\ buf'.len = buf.len
        /\ buf'.array_cap = buf.array_cap /\ buf'.leaked = buf.leaked
    BY <1>2, <2>2 DEF OldBufType
  <2>4. IsOldBuf(buf')
    BY <1>2, <2>3 DEF IsOldBuf
  <2>5. \A p \in Nat : (Reaches(buf', p) <=> Reaches(buf, p)) /\ ByteAt(buf', p) = ByteAt(buf, p)
    BY <2>3 DEF Reaches, ByteAt
  <2>6. Shape(buf) => Shape(buf')
    BY <1>2, <2>3, <2>4, <2>5 DEF Shape, Blocks_
  <2>7. Carries(buf, text) => Carries(buf', text)
    BY <1>2, <2>3, <2>5 DEF Carries
  <2> QED
    BY <1>2, <2>2, <2>3, <2>4, <2>6, <2>7 DEF BufferInv, Sound
<1>4. CASE ~(buf.ref > 1)
  <2>1. /\ buf' = [buf EXCEPT !.ref = 0, !.len = 0, !.cap = 0, !.array_cap = 0, !.array = <<>>]
        /\ text' = <<>>
    BY <1>4 DEF buffer_destroy
  <2>2. /\ buf' \in OldBufType /\ buf'.array = <<>> /\ buf'.cap = 0 /\ buf'.len = 0
        /\ buf'.array_cap = 0
    <3>1. PICK none \in Seq(Seq(Int)) : none = <<>>
      <4> DEFINE T == Seq(Int)
      <4>1. <<>> \in Seq(T)
        OBVIOUS
      <4> QED
        BY <4>1
    <3>2. buf' = [buf EXCEPT !.ref = 0, !.len = 0, !.cap = 0, !.array_cap = 0, !.array = none]
      BY <2>1, <3>1
    <3>3. /\ buf' \in OldBufType /\ buf'.array = none /\ buf'.cap = 0 /\ buf'.len = 0
          /\ buf'.array_cap = 0
      BY <1>2, <3>2 DEF OldBufType
    <3> QED
      BY <3>1, <3>3
  <2> QED
    BY <2>1, <2>2 DEF BufferInv, IsOldBuf, Alive
<1> QED
  BY <1>3, <1>4

LEMMA BufferStays == BufferInv /\ [BufferNext]_bufferVars => BufferInv'
<1> SUFFICES ASSUME BufferInv, [BufferNext]_bufferVars PROVE BufferInv'
  OBVIOUS
<1>1. CASE UNCHANGED bufferVars
  <2>1. buf' = buf /\ text' = text
    BY <1>1 DEF bufferVars
  <2> QED
    BY <2>1 DEF BufferInv, Alive
<1>2. ASSUME NEW n \in Lengths, buffer_write(n) \/ SetLength(n) \/ ExpandCapacity(n) \/ buffer_trim(n)
      PROVE  BufferInv'
  <2>1. n \in Nat
    BY BufferAssumption
  <2> QED
    BY <1>2, <2>1, WriteKeeps, SetLengthKeeps, ExpandCapacityKeeps, TrimKeeps
<1> QED
  BY <1>1, <1>2, CopyKeeps, DestroyKeeps DEF BufferNext

LEMMA InvExact == BufferInv => BufferExact
<1> SUFFICES ASSUME BufferInv, Alive, ~buf.leaked
             PROVE  /\ buf.len <= buf.cap
                    /\ \A pos \in 0..(buf.cap - 1) : Reaches(buf, pos)
                    /\ SameText(buffer_read(buf, 0, buf.len))
                    /\ SameText(buffer_read(buffer_clone(buf), 0, buf.len))
  BY DEF BufferExact
<1>1. /\ Shape(buf) /\ Carries(buf, text) /\ text \in Seq(Int) /\ Len(text) = buf.len
      /\ buf.len \in Nat
  BY DEF BufferInv, IsOldBuf, OldBufType
<1>2. ASSUME NEW b, \A p \in 0 .. buf.len - 1 : ByteAt(b, p) = ByteAt(buf, p)
      PROVE  SameText(buffer_read(b, 0, buf.len))
  <2>1. ASSUME NEW i \in DOMAIN text, text[i] # Junk
        PROVE  buffer_read(b, 0, buf.len)[i] = text[i]
    <3>1. i \in 1 .. buf.len /\ i - 1 \in 0 .. buf.len - 1 /\ (i - 1) + 1 = i /\ buf.len - 0 = buf.len
          /\ (0 + i) - 1 = i - 1
      BY <1>1
    <3>2. buffer_read(b, 0, buf.len)[i] = ByteAt(b, i - 1)
      BY <3>1 DEF buffer_read
    <3>3. ByteAt(buf, i - 1) = text[i]
      BY <1>1, <2>1, <3>1 DEF Carries
    <3> QED
      BY <1>2, <3>1, <3>2, <3>3
  <2> QED
    BY <2>1 DEF SameText
<1>3. \A p \in 0 .. buf.len - 1 : ByteAt(buffer_clone(buf), p) = ByteAt(buf, p)
  BY <1>1, ClonedBytes
<1> QED
  BY <1>1, <1>2, <1>3 DEF Shape, Blocks_

\* The bytes written to a buffer are read from it and from its clone, as long as it did
\* not grow in one step from less than a block to several.
THEOREM BufferIsExact == BufferSpec => []BufferExact
  BY BufferStarts, BufferStays, InvExact, PTL DEF BufferSpec

LostAcross == buf'.leaked => buf.leaked \/ (buf.cap < C1 /\ buf'.cap > C1)

LEMMA StepLoses ==
    ASSUME BufferInv, [BufferNext]_bufferVars PROVE [LostAcross]_bufferVars
<1>1. CASE UNCHANGED bufferVars
  BY <1>1
<1>2. CASE BufferNext /\ Alive
  <2>1. /\ IsOldBuf(buf) /\ buf.cap # 0 /\ Sound(buf, text) /\ buf.len \in Nat
        /\ buf \in OldBufType
    BY <1>2, BufferInvIs DEF IsOldBuf
  <2>2. ASSUME NEW n \in Nat, buffer_write(n) PROVE LostAcross
    <3>1. PICK d : d = buffer_set_length(buf, buf.len + n)
      OBVIOUS
    <3>2. buf' = Put(d, buf.len, buf.len + n) /\ buf.len + n \in Nat
      BY <2>1, <2>2, <3>1 DEF buffer_write
    <3>3. IsOldBuf(d) /\ (d.leaked => buf.leaked \/ (buf.cap < C1 /\ d.cap > C1))
      BY <2>1, <3>1, <3>2, LengthSet
    <3>4. (buf'.leaked <=> d.leaked) /\ buf'.cap = d.cap
      <4>1. PICK c : c = buf'
        OBVIOUS
      <4>2. PICK m \in Nat : m = buf.len + n
        BY <3>2
      <4>3. c = Put(d, buf.len, m)
        BY <3>2, <4>1, <4>2
      <4>4. PutIs(d, buf.len, m, c)
        BY <2>1, <3>3, <4>3, BytesPut
      <4> QED
        BY <4>1, <4>4 DEF PutIs
    <3> QED
      BY <3>3, <3>4 DEF LostAcross
  <2>3. ASSUME NEW n \in Nat, SetLength(n) PROVE LostAcross
    <3>1. PICK c : c = buf'
      OBVIOUS
    <3>2. c = buffer_set_length(buf, n)
      BY <2>3, <3>1 DEF SetLength
    <3>3. c.leaked => buf.leaked \/ (buf.cap < C1 /\ c.cap > C1)
      BY <2>1, <3>2, LengthSet
    <3> QED
      BY <3>1, <3>3 DEF LostAcross
  <2>4. ASSUME NEW n \in Nat, ExpandCapacity(n) PROVE LostAcross
    <3>1. PICK c : c = buf'
      OBVIOUS
    <3>2. c = buffer_expand_capacity(buf, n)
      BY <2>4, <3>1 DEF ExpandCapacity
    <3>3. c.leaked => buf.leaked \/ (buf.cap < C1 /\ c.cap > C1)
      BY <2>1, <3>2, ExpandKeeps
    <3> QED
      BY <3>1, <3>3 DEF LostAcross
  <2>5. ASSUME NEW n \in Nat, buffer_trim(n) PROVE LostAcross
    <3>1. PICK m : m = IF buf.len < n THEN 0 ELSE buf.len - n
      OBVIOUS
    <3>2. buf' = [buf EXCEPT !.len = m]
      BY <2>5, <3>1 DEF buffer_trim
    <3>3. buf'.leaked = buf.leaked
      BY <2>1, <3>2 DEF OldBufType
    <3> QED
      BY <3>3 DEF LostAcross
  <2>6. CASE buffer_copy
    BY <2>1, <2>6 DEF buffer_copy, OldBufType, LostAcross
  <2>7. CASE buffer_destroy
    <3>1. buf'.leaked = buf.leaked
      BY <2>1, <2>7 DEF buffer_destroy, OldBufType
    <3> QED
      BY <3>1 DEF LostAcross
  <2> QED
    BY <1>2, <2>2, <2>3, <2>4, <2>5, <2>6, <2>7, BufferAssumption DEF BufferNext
<1>3. CASE BufferNext /\ ~Alive
  BY <1>3 DEF BufferNext, buffer_write, SetLength, ExpandCapacity, buffer_trim, buffer_copy, buffer_destroy
<1> QED
  BY <1>1, <1>2, <1>3

\* A block is lost only when growth goes in one step from less than a block to
\* several.
THEOREM LostOnlyAcross == BufferSpec => [][LostAcross]_bufferVars
  BY BufferStarts, BufferStays, StepLoses, PTL DEF BufferSpec

(***************************************************************************)
(* log.c: the log keeps its last records in order, whatever the lengths of *)
(* records and files, for every limit that is not zero (main.c:188 asks    *)
(* for a megabyte).                                                        *)
(***************************************************************************)
LogFields == [level : LogLevels, console : BOOLEAN, fp : {"none", "open", "closed"},
              cur : Nat, max : Nat, calls : Nat]

LogTypeOK ==
    /\ log \in LogFields
    /\ disk \in [file : Seq(Nat), bak : Seq(Nat)]
    /\ wanted \in Seq(Nat)

(* s is the end of t.                                                       *)
Ends(s, t) == /\ Len(s) <= Len(t)
              /\ \A i \in 1 .. Len(s) : s[i] = t[(Len(t) - Len(s)) + i]

Kept == disk.bak \o disk.file

(* A file that has reached its limit holds a record, if one was wanted: the *)
(* limit is not zero, and a file found at the start is not opened twice.    *)
FullFileHoldsOne ==
    /\ log.fp = "open" => log.max > 0
    /\ log.fp = "open" /\ wanted # <<>> => disk.file # <<>> \/ log.cur < log.max
    /\ log.fp = "none" /\ wanted # <<>> => log.cur > 0

LogInv == /\ LogTypeOK /\ FullFileHoldsOne
          /\ Defined => Ends(Kept, wanted) /\ (wanted # <<>> => Kept # <<>>)

-----------------------------------------------------------------------------
(* Ends by elements is the suffix of the library.                           *)
LEMMA EndsIsSuffix ==
    ASSUME NEW s \in Seq(Nat), NEW t \in Seq(Nat), Ends(s, t)
    PROVE  IsSuffix(s, t)
<1>1. /\ Reverse(s) \in Seq(Nat) /\ Len(Reverse(s)) = Len(s)
      /\ Reverse(t) \in Seq(Nat) /\ Len(Reverse(t)) = Len(t)
  BY DEF Reverse
<1>2. \A i \in 1 .. Len(s) : Reverse(s)[i] = Reverse(t)[i]
  <2> TAKE i \in 1 .. Len(s)
  <2>1. Len(s) \in Nat /\ Len(t) \in Nat /\ Len(s) <= Len(t) /\ i \in 1 .. Len(t)
    BY DEF Ends
  <2>2. Reverse(s)[i] = s[(Len(s) - i) + 1] /\ Reverse(t)[i] = t[(Len(t) - i) + 1]
    BY <2>1 DEF Reverse
  <2>3. (Len(s) - i) + 1 \in 1 .. Len(s)
    BY <2>1
  <2>4. s[(Len(s) - i) + 1] = t[(Len(t) - Len(s)) + ((Len(s) - i) + 1)]
    BY <2>3 DEF Ends
  <2>5. (Len(t) - Len(s)) + ((Len(s) - i) + 1) = (Len(t) - i) + 1
    BY <2>1
  <2> QED
    BY <2>2, <2>4, <2>5
<1>3. Len(s) <= Len(t)
  BY DEF Ends
<1> QED
  BY <1>1, <1>2, <1>3 DEF IsSuffix, IsPrefix

LEMMA EndsAppended ==
    ASSUME NEW s \in Seq(Nat), NEW t \in Seq(Nat), NEW x \in Nat, Ends(s, t)
    PROVE  Ends(Append(s, x), Append(t, x))
<1>1. /\ Len(s) \in Nat /\ Len(t) \in Nat /\ Len(s) <= Len(t)
      /\ Len(Append(s, x)) = Len(s) + 1 /\ Len(Append(t, x)) = Len(t) + 1
  BY DEF Ends
<1>2. ASSUME NEW i \in 1 .. (Len(s) + 1)
      PROVE  Append(s, x)[i] = Append(t, x)[(Len(t) - Len(s)) + i]
  <2>1. CASE i \in 1 .. Len(s)
    <3> DEFINE j == (Len(t) - Len(s)) + i
    <3>1. s[i] = t[j]
      BY <2>1 DEF Ends
    <3>2. j \in 1 .. Len(t)
      BY <1>1, <2>1
    <3> HIDE DEF j
    <3>3. Append(s, x)[i] = Append(t, x)[j]
      BY <1>1, <2>1, <3>1, <3>2
    <3> QED
      BY <3>3 DEF j
  <2>2. CASE i = Len(s) + 1
    <3>1. (Len(t) - Len(s)) + i = Len(t) + 1
      BY <1>1, <2>2
    <3> QED
      BY <1>1, <2>2, <3>1
  <2>3. i \in 1 .. Len(s) \/ i = Len(s) + 1
    BY <1>1
  <2> QED
    BY <2>1, <2>2, <2>3, Zenon
<1>3. Len(Append(t, x)) - Len(Append(s, x)) = Len(t) - Len(s)
  BY <1>1
<1>4. \A i \in 1 .. Len(Append(s, x)) :
          Append(s, x)[i] = Append(t, x)[(Len(Append(t, x)) - Len(Append(s, x))) + i]
  BY <1>1, <1>2, <1>3, Zenon
<1>5. Len(Append(s, x)) <= Len(Append(t, x))
  BY <1>1
<1> QED
  BY <1>4, <1>5, Zenon DEF Ends

LEMMA SecondPartEnds ==
    ASSUME NEW b \in Seq(Nat), NEW f \in Seq(Nat), NEW t \in Seq(Nat), Ends(b \o f, t)
    PROVE  Ends(f, t)
<1>1. /\ Len(b \o f) = Len(b) + Len(f) /\ Len(b) \in Nat /\ Len(f) \in Nat /\ Len(t) \in Nat
      /\ \A i \in 1 .. Len(f) : (b \o f)[Len(b) + i] = f[i]
  OBVIOUS
<1>2. \A i \in 1 .. Len(f) : (b \o f)[Len(b) + i] = t[(Len(t) - Len(b \o f)) + (Len(b) + i)]
  <2>1. \A j \in 1 .. Len(b \o f) : (b \o f)[j] = t[(Len(t) - Len(b \o f)) + j]
    BY DEF Ends
  <2>2. \A i \in 1 .. Len(f) : Len(b) + i \in 1 .. Len(b \o f)
    BY <1>1
  <2> QED
    BY <2>1, <2>2, Zenon
<1>3. \A i \in 1 .. Len(f) : (Len(t) - Len(b \o f)) + (Len(b) + i) = (Len(t) - Len(f)) + i
  BY <1>1
<1> QED
  BY <1>1, <1>2, <1>3 DEF Ends

LEMMA AppendedToJoined ==
    ASSUME NEW b \in Seq(Nat), NEW f \in Seq(Nat), NEW x \in Nat
    PROVE  b \o Append(f, x) = Append(b \o f, x)
  OBVIOUS

(* Nothing before, and one record in the file.                              *)
LEMMA FilesJoined ==
    ASSUME NEW b \in Seq(Nat), NEW f \in Seq(Nat), NEW x \in Nat
    PROVE  /\ b \o <<>> = b /\ Append(<<>>, x) = <<x>>
           /\ b \o f \in Seq(Nat) /\ Append(f, x) \in Seq(Nat) /\ Append(f, x) # <<>>
  OBVIOUS
-----------------------------------------------------------------------------
LEMMA LogStarts == LogInit => LogInv
<1> SUFFICES ASSUME LogInit PROVE LogInv
  OBVIOUS
<1>1. LogTypeOK
  BY DEF LogInit, LogTypeOK, LogFields, LogLevels
<1>2. Kept = <<>> /\ wanted = <<>> /\ log.fp = "none"
  BY DEF LogInit, Kept
<1> QED
  BY <1>1, <1>2 DEF LogInv, FullFileHoldsOne, Ends

(* The level and the console touch neither file nor records.                *)
LEMMA SettingsKeep ==
    ASSUME LogInv, log_disable_console \/ \E l \in {1, 3} : log_set_level(l)
    PROVE  LogInv'
<1>1. /\ log'.fp = log.fp /\ log'.cur = log.cur /\ log'.max = log.max
      /\ disk' = disk /\ wanted' = wanted
  BY DEF log_disable_console, log_set_level, LogInv, LogTypeOK, LogFields
<1>2. log' \in LogFields
  <2>1. log \in LogFields /\ 1 \in LogLevels /\ 3 \in LogLevels
    BY DEF LogInv, LogTypeOK, LogLevels
  <2>2. CASE log_disable_console
    BY <2>1, <2>2, Zenon DEF log_disable_console, LogFields
  <2>3. ASSUME NEW l \in {1, 3}, log_set_level(l) PROVE log' \in LogFields
    BY <2>1, <2>3, Zenon DEF log_set_level, LogFields
  <2> QED
    BY <2>2, <2>3
<1>3. LogTypeOK'
  BY <1>1, <1>2 DEF LogInv, LogTypeOK
<1> QED
  BY <1>1, <1>3 DEF LogInv, FullFileHoldsOne, Kept, Defined

(* A file is opened: an old one, or a new one behind a replacement that     *)
(* failed.                                                                  *)
LEMMA StartKeeps ==
    ASSUME 0 \notin LogLimits, LogInv, NEW old \in OldSizes, NEW max \in LogLimits,
           log_start(old, max)
    PROVE  LogInv'
<1>1. LogTypeOK /\ FullFileHoldsOne /\ old \in Nat /\ max \in Nat /\ max > 0
  BY LogAssumption DEF LogInv
<1>2. /\ log' = [log EXCEPT !.fp = "open", !.cur = old, !.max = max]
      /\ log.fp = "none" /\ (log.cur > 0 => old = 0)
      /\ disk' = disk /\ wanted' = wanted
  BY DEF log_start
<1>3. log'.fp = "open" /\ log'.cur = old /\ log'.max = max
  BY <1>1, <1>2 DEF LogTypeOK, LogFields
<1>4. LogTypeOK'
  <2>1. log' \in LogFields
    BY <1>1, <1>2, Zenon DEF LogTypeOK, LogFields
  <2> QED
    BY <1>1, <1>2, <2>1 DEF LogTypeOK
<1>5. FullFileHoldsOne'
  BY <1>1, <1>2, <1>3 DEF FullFileHoldsOne
<1> QED
  BY <1>2, <1>3, <1>4, <1>5 DEF LogInv, Kept, Defined

-----------------------------------------------------------------------------
(* Calls that write no record to the file: below the level, or with no file.*)
LEMMA UnwrittenKeeps ==
    ASSUME LogInv, NEW l, NEW size \in LogSizes, log_format(l, size),
           _check_disabled(l) \/ log.fp # "open"
    PROVE  LogInv'
<1>1. LogTypeOK /\ log.fp # "closed"
  BY DEF LogInv, log_format, Defined
<1>2. /\ log' = [log EXCEPT !.calls = @ + 1] \/ log' = [log EXCEPT !.calls = @ + 1, !.cur = @ + 0]
      /\ disk' = disk /\ wanted' = wanted
  BY <1>1 DEF log_format, Record, _check_log_size
<1>3. log'.fp = log.fp /\ log'.cur = log.cur /\ log'.max = log.max
  <2>1. log.cur \in Nat /\ log.cur + 0 = log.cur
    BY <1>1 DEF LogTypeOK, LogFields
  <2>2. CASE log' = [log EXCEPT !.calls = @ + 1]
    BY <1>1, <2>2 DEF LogTypeOK, LogFields
  <2>3. CASE log' = [log EXCEPT !.calls = @ + 1, !.cur = @ + 0]
    BY <1>1, <2>1, <2>3 DEF LogTypeOK, LogFields
  <2> QED
    BY <1>2, <2>2, <2>3
<1>4. LogTypeOK'
  <2>1. log.calls + 1 \in Nat /\ log.cur + 0 \in Nat
    BY <1>1 DEF LogTypeOK, LogFields
  <2>2. log' \in LogFields
    BY <1>1, <1>2, <2>1, Zenon DEF LogTypeOK, LogFields
  <2> QED
    BY <1>1, <1>2, <2>2 DEF LogTypeOK
<1> QED
  BY <1>2, <1>3, <1>4 DEF LogInv, FullFileHoldsOne, Kept, Defined

(* A record behind the others, or the first of a new file with the others   *)
(* in the backup.                                                           *)
LEMMA RecordKeeps ==
    ASSUME LogInv, NEW size \in LogSizes, NEW id, id = log.calls + 1,
           log.fp = "open", Record(size), wanted' = Append(wanted, id),
           \/ disk' = Written(disk, id)
           \/ disk' = Written(Renamed, id)
    PROVE  LogInv'
<1>1. /\ LogTypeOK /\ size \in Nat /\ id \in Nat /\ log.max > 0
      /\ wanted \in Seq(Nat) /\ disk.file \in Seq(Nat) /\ disk.bak \in Seq(Nat)
      /\ Ends(Kept, wanted)
  BY LogAssumption DEF LogInv, LogTypeOK, LogFields, Defined, FullFileHoldsOne
<1>2. /\ log'.fp = "open" /\ log'.max = log.max /\ log' \in LogFields
  <2>1. log' = [log EXCEPT !.calls = @ + 1, !.cur = @ + size]
    BY DEF Record
  <2>2. log.calls + 1 \in Nat /\ log.cur + size \in Nat
    BY <1>1 DEF LogTypeOK, LogFields
  <2>3. log' \in LogFields
    BY <1>1, <2>1, <2>2, Zenon DEF LogTypeOK, LogFields
  <2> QED
    BY <1>1, <2>1, <2>3 DEF LogTypeOK, LogFields
<1>3. wanted' \in Seq(Nat) /\ wanted' # <<>>
  BY <1>1, FilesJoined
<1>4. CASE disk' = Written(disk, id)
  <2>1. /\ disk' = [file |-> Append(disk.file, id), bak |-> disk.bak]
    BY <1>1, <1>4 DEF Written, LogTypeOK
  <2>2. Kept' = Append(Kept, id) /\ Kept \in Seq(Nat)
    <3>1. Kept' = disk.bak \o Append(disk.file, id)
      BY <2>1 DEF Kept
    <3>2. disk.bak \o Append(disk.file, id) = Append(disk.bak \o disk.file, id)
      <4>1. disk.bak \in Seq(Nat) /\ disk.file \in Seq(Nat) /\ id \in Nat
        BY <1>1
      <4> QED
        BY <4>1, AppendedToJoined, Zenon
    <3>3. Kept \in Seq(Nat)
      BY <1>1 DEF Kept
    <3> QED
      BY <3>1, <3>2, <3>3 DEF Kept
  <2>3. Ends(Kept', wanted')
    BY <1>1, <2>2, EndsAppended
  <2>4. /\ disk'.file # <<>> /\ Kept' # <<>>
        /\ disk' \in [file : Seq(Nat), bak : Seq(Nat)]
    <3>1. Append(disk.file, id) # <<>> /\ Append(disk.file, id) \in Seq(Nat)
      BY <1>1, FilesJoined, Zenon
    <3>2. Append(Kept, id) # <<>>
      BY <1>1, <2>2, FilesJoined, Zenon
    <3> QED
      BY <1>1, <2>1, <2>2, <3>1, <3>2
  <2> QED
    BY <1>1, <1>2, <1>3, <2>3, <2>4 DEF LogInv, LogTypeOK, FullFileHoldsOne
<1>5. CASE disk' = Written(Renamed, id)
  <2>1. disk' = [file |-> <<id>>, bak |-> disk.file]
    BY <1>1, <1>5, FilesJoined DEF Written, Renamed, LogTypeOK
  <2>2. Kept' = Append(disk.file, id)
    <3>1. Kept' = disk.file \o Append(<<>>, id)
      BY <1>1, <2>1, FilesJoined DEF Kept
    <3>2. disk.file \o Append(<<>>, id) = Append(disk.file \o <<>>, id)
      BY <1>1, AppendedToJoined
    <3> QED
      BY <1>1, <3>1, <3>2, FilesJoined
  <2>3. Ends(disk.file, wanted)
    BY <1>1, SecondPartEnds DEF Kept
  <2>4. Ends(Kept', wanted')
    BY <1>1, <2>2, <2>3, EndsAppended
  <2>5. /\ disk'.file # <<>> /\ Kept' # <<>>
        /\ disk' \in [file : Seq(Nat), bak : Seq(Nat)]
    <3>1. Append(disk.file, id) # <<>>
      BY <1>1, FilesJoined, Zenon
    <3>2. <<id>> # <<>> /\ <<id>> \in Seq(Nat)
      BY <1>1
    <3> QED
      BY <1>1, <2>1, <2>2, <3>1, <3>2
  <2> QED
    BY <1>1, <1>2, <1>3, <2>4, <2>5 DEF LogInv, LogTypeOK, FullFileHoldsOne
<1> QED
  BY <1>4, <1>5

(* The new file cannot be opened: what was in the full file is the backup.  *)
LEMMA NotOpenedKeeps ==
    ASSUME LogInv, _check_log_size, disk' = Renamed, wanted' = wanted,
           log' = [log EXCEPT !.fp = "none", !.calls = @ + 1]
    PROVE  LogInv'
<1>1. /\ LogTypeOK /\ log.fp = "open" /\ log.cur >= log.max /\ log.max > 0
      /\ log.cur \in Nat /\ log.max \in Nat
      /\ wanted \in Seq(Nat) /\ disk.file \in Seq(Nat) /\ disk.bak \in Seq(Nat)
      /\ Ends(Kept, wanted) /\ (wanted # <<>> => disk.file # <<>>)
  BY DEF LogInv, LogTypeOK, LogFields, _check_log_size, FullFileHoldsOne, Defined
<1>2. /\ log'.fp = "none" /\ log'.cur = log.cur
      /\ log' \in LogFields
  <2>1. log.calls + 1 \in Nat
    BY <1>1 DEF LogTypeOK, LogFields
  <2>2. log' \in LogFields
    BY <1>1, <2>1, Zenon DEF LogTypeOK, LogFields
  <2> QED
    BY <1>1, <2>2 DEF LogTypeOK, LogFields
<1>3. disk' = [file |-> <<>>, bak |-> disk.file]
  BY <1>1 DEF Renamed, LogTypeOK
<1>4. Kept' = disk.file
  BY <1>1, <1>3 DEF Kept
<1>5. Ends(disk.file, wanted)
  BY <1>1, SecondPartEnds DEF Kept
<1>6. disk' \in [file : Seq(Nat), bak : Seq(Nat)]
  BY <1>1, <1>3
<1> QED
  BY <1>1, <1>2, <1>4, <1>5, <1>6 DEF LogInv, LogTypeOK, FullFileHoldsOne

(* The rename fails: nothing is promised once the file is closed.           *)
LEMMA NotRenamedKeeps ==
    ASSUME LogInv, disk' = NotRenamed, wanted' = wanted,
           log' = [log EXCEPT !.fp = "closed", !.calls = @ + 1]
    PROVE  LogInv'
<1>1. LogTypeOK' /\ log'.fp = "closed"
  <2>1. LogTypeOK
    BY DEF LogInv
  <2>2. disk' = [file |-> disk.file, bak |-> <<>>] /\ disk.file \in Seq(Nat)
    BY <2>1 DEF NotRenamed, LogTypeOK
  <2>3. disk' \in [file : Seq(Nat), bak : Seq(Nat)]
    BY <2>2
  <2>4. log.calls + 1 \in Nat
    BY <2>1 DEF LogTypeOK, LogFields
  <2>5. log' \in LogFields
    BY <2>1, <2>4, Zenon DEF LogTypeOK, LogFields
  <2> QED
    BY <2>1, <2>3, <2>5 DEF LogTypeOK, LogFields
<1> QED
  BY <1>1 DEF LogInv, FullFileHoldsOne, Defined

LEMMA FormatKeeps ==
    ASSUME LogInv, NEW l, NEW size \in LogSizes, log_format(l, size)
    PROVE  LogInv'
<1>1. CASE _check_disabled(l) \/ log.fp # "open"
  BY <1>1, UnwrittenKeeps
<1>2. CASE ~_check_disabled(l) /\ log.fp = "open"
  <2>1. \/ Record(size) /\ disk' = Written(disk, log.calls + 1)
           /\ wanted' = Append(wanted, log.calls + 1)
        \/ Record(size) /\ disk' = Written(Renamed, log.calls + 1)
           /\ wanted' = Append(wanted, log.calls + 1)
        \/ _check_log_size /\ disk' = Renamed /\ wanted' = wanted
           /\ log' = [log EXCEPT !.fp = "none", !.calls = @ + 1]
        \/ disk' = NotRenamed /\ wanted' = wanted
           /\ log' = [log EXCEPT !.fp = "closed", !.calls = @ + 1]
    BY <1>2 DEF log_format
  <2> QED
    BY <1>2, <2>1, RecordKeeps, NotOpenedKeeps, NotRenamedKeeps
<1> QED
  BY <1>1, <1>2

-----------------------------------------------------------------------------
LEMMA InvKeepsOrder == LogInv => LogKeepsOrder
<1> SUFFICES ASSUME LogInv, Defined
             PROVE  IsSuffix(Kept, wanted) /\ (wanted # <<>> => Kept # <<>>)
  BY DEF LogKeepsOrder, Kept
<1>1. Kept \in Seq(Nat) /\ wanted \in Seq(Nat) /\ Ends(Kept, wanted)
  BY DEF LogInv, LogTypeOK, Kept
<1> QED
  BY <1>1, EndsIsSuffix DEF LogInv

(* Whatever is logged at whatever level, and whichever replacements cannot  *)
(* open a new file, the backup and the file are the last records, in order, *)
(* the latest among them, until a rename fails.                             *)
THEOREM LogInOrder ==
    ASSUME 0 \notin LogLimits PROVE LogSpec => []LogKeepsOrder
<1>1. ASSUME LogInv, [LogNext]_logVars PROVE LogInv'
  <2>1. CASE UNCHANGED logVars
    BY <1>1, <2>1 DEF logVars, LogInv, LogTypeOK, FullFileHoldsOne, Kept, Defined
  <2> QED
    BY <1>1, <2>1, SettingsKeep, StartKeeps, FormatKeeps DEF LogNext
<1> QED
  BY <1>1, LogStarts, InvKeepsOrder, PTL DEF LogSpec
=============================================================================
