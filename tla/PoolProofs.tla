----------------------------- MODULE PoolProofs -----------------------------
(***************************************************************************)
(* What pool.c guarantees for every capacity, object size and word width.  *)
(***************************************************************************)
EXTENDS Pool, TLAPS

(***************************************************************************)
(* Arithmetic.                                                             *)
(***************************************************************************)

\* Dividing a multiple gives the factor back.
LEMMA DivMultiple ==
    ASSUME NEW s \in PosInt, NEW k \in Nat
    PROVE  (k * s) \div s = k
  BY SMTT(30) DEF PosInt

\* Word and bit of a slot number are found again by division.
LEMMA DivMod ==
    ASSUME NEW w \in PosInt, NEW i \in Nat, NEW j \in 0 .. (w - 1)
    PROVE  /\ (i * w + j) \div w = i
           /\ (i * w + j) % w = j
  BY SMTT(30) DEF PosInt

\* A smaller factor leaves room for one more summand.
LEMMA MulRoom ==
    ASSUME NEW s \in PosInt, NEW a \in Nat, NEW b \in Nat, a < b
    PROVE  a * s + s <= b * s
  BY SMTT(30) DEF PosInt

\* Products by a positive number keep the order.
LEMMA MulMonotone ==
    ASSUME NEW s \in PosInt, NEW a \in Nat, NEW b \in Nat, a <= b
    PROVE  a * s <= b * s
  BY SMTT(30) DEF PosInt

\* A product of natural numbers.
LEMMA MulNat ==
    ASSUME NEW a \in Nat, NEW b \in Nat
    PROVE  a * b \in Nat
  BY SMT

\* A product of positive numbers.
LEMMA MulPos ==
    ASSUME NEW a \in PosInt, NEW b \in PosInt
    PROVE  a * b \in PosInt
  BY SMT DEF PosInt

\* A quotient is a natural number.
LEMMA DivNat ==
    ASSUME NEW a \in Nat, NEW b \in PosInt
    PROVE  a \div b \in Nat
  BY SMT DEF PosInt

(***************************************************************************)
(* The layout of the block.                                                *)
(***************************************************************************)
LEMMA SizesType ==
    /\ WordBits \in PosInt
    /\ BitsCap \in Nat
    /\ Cap \in Nat
    /\ DataStart \in Nat
    /\ DataStart = BitsCap * WordBytes
<1>1. WordBits \in PosInt
  BY PoolAssumption, MulPos DEF WordBits
<1>2. BitsCap \in Nat
  BY <1>1, PoolAssumption, DivNat DEF BitsCap, PosInt
<1>3. Cap \in Nat
  BY <1>1, <1>2, MulNat DEF Cap, PosInt
<1>4. BitsCap * WordBytes \in Nat
  BY <1>2, PoolAssumption, MulNat DEF PosInt
<1>5. Cap = (BitsCap * WordBytes) * BitsPerByte
  BY <1>2, PoolAssumption, SMT DEF Cap, WordBits, PosInt
<1>6. DataStart = BitsCap * WordBytes
  BY <1>4, <1>5, DivMultiple, PoolAssumption DEF DataStart
<1> QED
  BY <1>1, <1>2, <1>3, <1>4, <1>6

\* The number of the slot at bit j of word w.
SlotNo(w, j) == (w * WordBits) + j

\* A slot number and its word and bit.
LEMMA SlotNoFacts ==
    ASSUME NEW w \in WordIdx, NEW j \in BitIdx
    PROVE  /\ SlotNo(w, j) \in Nat
           /\ SlotNo(w, j) < Cap
           /\ SlotNo(w, j) \div WordBits = w
           /\ SlotNo(w, j) % WordBits = j
<1>1. w \in Nat /\ j \in 0 .. (WordBits - 1) /\ w < BitsCap
  BY SizesType DEF WordIdx, BitIdx, PosInt
<1>2. w * WordBits \in Nat
  BY <1>1, SizesType, MulNat DEF PosInt
<1>3. (w * WordBits) + WordBits <= Cap
  BY <1>1, SizesType, MulRoom DEF Cap
<1>4. SlotNo(w, j) \in Nat /\ SlotNo(w, j) < Cap
  BY <1>1, <1>2, <1>3, SizesType DEF SlotNo, PosInt
<1>5. SlotNo(w, j) \div WordBits = w /\ SlotNo(w, j) % WordBits = j
  BY <1>1, SizesType, DivMod DEF SlotNo
<1> QED
  BY <1>4, <1>5

\* The address pool_get computes is one pool_put takes for the same slot.
LEMMA SlotRoundTrip ==
    ASSUME NEW w \in WordIdx, NEW j \in BitIdx
    PROVE  /\ SlotAddr(w, j) \in Int
           /\ SlotAddr(w, j) = DataStart + SlotNo(w, j) * Size
           /\ SlotAddr(w, j) + Size <= DataStart + Cap * Size
           /\ InPool(SlotAddr(w, j))
           /\ SlotIndex(SlotAddr(w, j)) = SlotNo(w, j)
<1> DEFINE k == SlotNo(w, j)
<1>1. k \in Nat /\ k < Cap
  BY SlotNoFacts
<1>2. SlotAddr(w, j) = DataStart + k * Size
  BY SizesType DEF SlotAddr, SlotNo
<1> HIDE DEF k
<1>3. k * Size \in Nat /\ k * Size + Size <= Cap * Size /\ Cap * Size \in Nat
  BY <1>1, MulNat, MulRoom, SizesType, PoolAssumption DEF PosInt
<1>4. InPool(SlotAddr(w, j)) /\ SlotAddr(w, j) + Size <= DataStart + Cap * Size
      /\ SlotAddr(w, j) \in Int
  BY <1>2, <1>3, SizesType, PoolAssumption DEF InPool, PosInt
<1>5. SlotIndex(SlotAddr(w, j)) = k
  <2>1. SlotAddr(w, j) - DataStart = k * Size
    BY <1>2, <1>3, SizesType
  <2> QED
    BY <2>1, <1>1, DivMultiple, PoolAssumption DEF SlotIndex
<1> QED
  BY <1>2, <1>4, <1>5 DEF k

\* Two slots have different addresses.
LEMMA SlotAddrInjective ==
    ASSUME NEW w \in WordIdx, NEW j \in BitIdx, NEW v \in WordIdx, NEW i \in BitIdx,
           SlotAddr(w, j) = SlotAddr(v, i)
    PROVE  w = v /\ j = i
<1>1. SlotNo(w, j) = SlotNo(v, i)
  BY SlotRoundTrip
<1> QED
  BY <1>1, SlotNoFacts

\* Slots are laid out in the order of their numbers, without overlap.
LEMMA SlotsApart ==
    ASSUME NEW w \in WordIdx, NEW j \in BitIdx, NEW v \in WordIdx, NEW i \in BitIdx,
           SlotNo(w, j) < SlotNo(v, i)
    PROVE  SlotAddr(w, j) + Size <= SlotAddr(v, i)
<1> DEFINE m == SlotNo(w, j)
           n == SlotNo(v, i)
<1>1. m \in Nat /\ n \in Nat /\ m < n
  BY SlotNoFacts
<1>2. SlotAddr(w, j) = DataStart + m * Size /\ SlotAddr(v, i) = DataStart + n * Size
  BY SlotRoundTrip
<1> HIDE DEF m, n
<1>3. m * Size + Size <= n * Size /\ m * Size \in Nat /\ n * Size \in Nat
  BY <1>1, MulRoom, MulNat, PoolAssumption DEF PosInt
<1> QED
  BY <1>2, <1>3, SizesType, PoolAssumption DEF PosInt

\* malloc never returns an address inside the block.
LEMMA DynOutside ==
    ASSUME NEW a \in DynAddrs
    PROVE  a \in Int /\ ~InPool(a)
  BY PoolAssumption, SizesType DEF InPool, PosInt

(***************************************************************************)
(* The inductive invariant.  Each part needs the others: putting a slot    *)
(* back is right only because what callers hold is what the bitmap says    *)
(* (HeldMatches), and NoLeak because pool_free walks a list that holds     *)
(* every malloc'd block.                                                   *)
(***************************************************************************)
Inv == PoolTypeOK /\ HeldMatches /\ NoLeak /\ LastHint

\* The invariant holds of a new pool.
LEMMA InitInv == PoolInit => Inv
<1> SUFFICES ASSUME PoolInit PROVE Inv
  OBVIOUS
<1>1. PoolTypeOK
  <2>1. alive \in BOOLEAN
    BY Zenon DEF PoolInit
  <2>2. bits \in [WordIdx -> SUBSET BitIdx]
    BY DEF PoolInit, NoBits
  <2> QED
    BY <2>1, <2>2, SizesType DEF PoolInit, PoolTypeOK
<1>2. HeldMatches /\ NoLeak /\ LastHint
  BY DEF PoolInit, HeldMatches, NoLeak, LastHint
<1> QED
  BY <1>1, <1>2 DEF Inv

\* Taking a clear bit adds exactly its slot to the used ones.
LEMMA GetSlotUsed ==
    ASSUME PoolTypeOK, NEW w \in WordIdx, NEW j \in BitIdx,
           bits' = [bits EXCEPT ![w] = @ \cup {j}]
    PROVE  UsedSlots' = UsedSlots \cup {SlotAddr(w, j)}
<1>1. UsedBits' = UsedBits \cup {<<w, j>>}
  BY DEF UsedBits, PoolTypeOK
<1>2. SlotAddr(<<w, j>>[1], <<w, j>>[2]) = SlotAddr(w, j)
  OBVIOUS
<1> QED
  BY <1>1, <1>2, Zenon DEF UsedSlots

\* Clearing a bit removes exactly its slot from the used ones.
LEMMA PutSlotUsed ==
    ASSUME PoolTypeOK, NEW w \in WordIdx, NEW j \in BitIdx,
           bits' = [bits EXCEPT ![w] = @ \ {j}]
    PROVE  UsedSlots' = UsedSlots \ {SlotAddr(w, j)}
<1>1. UsedBits' = UsedBits \ {<<w, j>>}
  BY DEF UsedBits, PoolTypeOK
<1>2. \A s \in UsedBits : SlotAddr(s[1], s[2]) = SlotAddr(w, j) => s = <<w, j>>
  BY SlotAddrInjective DEF UsedBits
<1> QED
  BY <1>1, <1>2 DEF UsedSlots

\* A held object inside the block is a used slot, and pool_put finds it.
LEMMA HeldInPool ==
    ASSUME Inv, alive, NEW a \in held
    PROVE  \/ /\ ~InPool(a)
              /\ a \in nodes
           \/ /\ InPool(a)
              /\ \E w \in WordIdx, j \in BitIdx :
                    /\ j \in bits[w]
                    /\ a = SlotAddr(w, j)
                    /\ SlotIndex(a) \div WordBits = w
                    /\ SlotIndex(a) % WordBits = j
<1>1. CASE a \in nodes
  BY <1>1, DynOutside DEF Inv, PoolTypeOK
<1>2. CASE a \in UsedSlots
  <2>1. PICK s \in UsedBits : a = SlotAddr(s[1], s[2])
    BY <1>2 DEF UsedSlots
  <2>2. s[1] \in WordIdx /\ s[2] \in BitIdx /\ s[2] \in bits[s[1]]
    BY <2>1 DEF UsedBits
  <2>3. InPool(a) /\ SlotIndex(a) = SlotNo(s[1], s[2])
    BY <2>1, <2>2, SlotRoundTrip
  <2>4. SlotIndex(a) \div WordBits = s[1] /\ SlotIndex(a) % WordBits = s[2]
    BY <2>2, <2>3, SlotNoFacts
  <2> QED
    BY <2>1, <2>2, <2>3, <2>4
<1> QED
  BY <1>1, <1>2 DEF Inv, HeldMatches

\* Taking a slot keeps the invariant.
LEMMA GetSlotInv == Inv /\ GetSlot => Inv'
<1> SUFFICES ASSUME Inv, GetSlot PROVE Inv'
  OBVIOUS
<1>1. PICK w \in WordIdx, j \in BitIdx :
        /\ FirstFree(w, j)
        /\ last' = w
        /\ bits' = [bits EXCEPT ![w] = @ \cup {j}]
        /\ held' = held \cup {SlotAddr(w, j)}
  BY DEF GetSlot
<1>2. UNCHANGED <<alive, nodes, heap>> /\ alive
  BY DEF GetSlot
<1>3. PoolTypeOK'
  <2>1. SlotAddr(w, j) \in Int
    BY SlotRoundTrip
  <2>2. last' \in 0 .. BitsCap
    BY <1>1, SizesType DEF WordIdx
  <2>3. bits' \in [WordIdx -> SUBSET BitIdx]
    BY <1>1 DEF Inv, PoolTypeOK
  <2> QED
    BY <1>1, <1>2, <2>1, <2>2, <2>3 DEF Inv, PoolTypeOK
<1>4. HeldMatches'
  BY <1>1, <1>2, GetSlotUsed DEF Inv, HeldMatches
<1>5. NoLeak'
  BY <1>2 DEF NoLeak
<1>6. LastHint'
  <2> SUFFICES ASSUME NEW v \in 0 .. (w - 1) PROVE bits[v] = BitIdx /\ v # w
    BY <1>1, <1>2, <1>3 DEF LastHint, Inv, PoolTypeOK, WordIdx
  <2>1. v \in 0 .. (last - 1) \/ v \in last .. (w - 1)
    BY SizesType DEF Inv, PoolTypeOK, WordIdx
  <2> QED
    BY <2>1, <1>1, <1>2, SizesType DEF Inv, LastHint, FirstFree, WordIdx
<1> QED
  BY <1>3, <1>4, <1>5, <1>6 DEF Inv

\* Taking a listed or a new node keeps the invariant.
LEMMA GetNodeInv == Inv /\ GetNode => Inv'
<1> SUFFICES ASSUME Inv, GetNode PROVE Inv'
  OBVIOUS
<1>1. PICK a \in DynAddrs \ heap : /\ heap' = heap \cup {a}
                                   /\ nodes' = nodes \cup {a}
                                   /\ held' = held \cup {a}
  BY DEF GetNode
<1>2. alive /\ UNCHANGED <<alive, bits>> /\ last' = BitsCap
  BY DEF GetNode
<1>3. PoolTypeOK'
  <2>1. a \in Int
    BY DynOutside
  <2>2. last' \in 0 .. BitsCap
    BY <1>2, SizesType
  <2> QED
    BY <1>1, <1>2, <2>1, <2>2 DEF Inv, PoolTypeOK
<1>4. HeldMatches'
  <2>1. UsedSlots' = UsedSlots
    BY <1>2 DEF UsedSlots, UsedBits
  <2> QED
    BY <1>1, <1>2, <2>1 DEF Inv, HeldMatches
<1>5. NoLeak'
  BY <1>2 DEF NoLeak
<1>6. LastHint'
  <2> SUFFICES ASSUME NEW v \in 0 .. (BitsCap - 1) PROVE bits[v] = BitIdx
    BY <1>2 DEF LastHint
  <2>1. v \in 0 .. (last - 1) \/ v \in last .. (BitsCap - 1)
    BY SizesType DEF Inv, PoolTypeOK
  <2> QED
    BY <2>1, <1>2 DEF Inv, LastHint, GetNode, BlockFull
<1> QED
  BY <1>3, <1>4, <1>5, <1>6 DEF Inv

\* Giving back keeps the invariant.
LEMMA PutInv == Inv /\ pool_put => Inv'
<1> SUFFICES ASSUME Inv, pool_put PROVE Inv'
  OBVIOUS
<1>1. PICK a \in held : held' = held \ {a} /\ (PutSlot(a) \/ PutNode(a))
  BY DEF pool_put
<1>2. alive /\ alive' = alive
  BY DEF pool_put
<1>3. NoLeak'
  BY <1>2 DEF NoLeak
<1>4. CASE PutNode(a)
  <2>1. ~InPool(a) /\ a \in nodes
    BY <1>2, <1>4, HeldInPool DEF PutNode
  <2>2. nodes' = nodes \ {a} /\ heap' = heap \ {a} /\ UNCHANGED <<bits, last>>
    BY <1>4, <2>1 DEF PutNode
  <2>3. UsedSlots' = UsedSlots
    BY <2>2 DEF UsedSlots, UsedBits
  <2>4. a \notin UsedSlots
    BY <2>1, SlotRoundTrip DEF UsedSlots, UsedBits
  <2>5. PoolTypeOK'
    BY <1>1, <1>2, <2>2 DEF Inv, PoolTypeOK
  <2>6. HeldMatches'
    BY <1>1, <1>2, <2>2, <2>3, <2>4 DEF Inv, HeldMatches
  <2>7. LastHint'
    BY <1>2, <2>2 DEF Inv, LastHint
  <2> QED
    BY <1>3, <2>5, <2>6, <2>7 DEF Inv
<1>5. CASE PutSlot(a)
  <2>1. PICK w \in WordIdx, j \in BitIdx :
          /\ j \in bits[w]
          /\ a = SlotAddr(w, j)
          /\ SlotIndex(a) \div WordBits = w
          /\ SlotIndex(a) % WordBits = j
    BY <1>2, <1>5, HeldInPool DEF PutSlot
  <2>2. /\ last' = IF last > w THEN w ELSE last
        /\ bits' = [bits EXCEPT ![w] = @ \ {j}]
        /\ UNCHANGED <<nodes, heap>>
    BY <1>5, <2>1 DEF PutSlot
  <2>3. UsedSlots' = UsedSlots \ {a}
    BY <2>1, <2>2, PutSlotUsed DEF Inv
  <2>4. a \notin nodes
    BY <2>1, SlotRoundTrip, DynOutside DEF Inv, PoolTypeOK
  <2>5. PoolTypeOK'
    BY <1>1, <1>2, <2>2, SizesType DEF Inv, PoolTypeOK, WordIdx
  <2>6. HeldMatches'
    BY <1>1, <1>2, <2>2, <2>3, <2>4 DEF Inv, HeldMatches
  <2>7. LastHint'
    <3> SUFFICES ASSUME NEW v \in 0 .. (last' - 1) PROVE bits[v] = BitIdx /\ v # w /\ v \in WordIdx
      BY <1>2, <2>2 DEF LastHint, Inv, PoolTypeOK
    <3> QED
      BY <1>2, <2>2, SizesType DEF Inv, PoolTypeOK, LastHint, WordIdx
  <2> QED
    BY <1>3, <2>5, <2>6, <2>7 DEF Inv
<1> QED
  BY <1>1, <1>4, <1>5

\* The invariant is inductive.
LEMMA NextInv == Inv /\ [PoolNext]_poolVars => Inv'
<1> SUFFICES ASSUME Inv, [PoolNext]_poolVars PROVE Inv'
  OBVIOUS
<1>1. CASE pool_malloc
  <2>1. UsedSlots' = {}
    BY <1>1 DEF pool_malloc, UsedSlots, UsedBits, NoBits
  <2> QED
    BY <1>1, <2>1, SizesType
    DEF pool_malloc, Inv, PoolTypeOK, HeldMatches, NoLeak, LastHint, NoBits
<1>2. CASE pool_get
  BY <1>2, GetSlotInv, GetNodeInv DEF pool_get
<1>3. CASE pool_put
  BY <1>3, PutInv
<1>4. CASE pool_free
  BY <1>4 DEF pool_free, Inv, PoolTypeOK, HeldMatches, NoLeak, LastHint
<1>5. CASE UNCHANGED poolVars
  BY <1>5 DEF poolVars, Inv, PoolTypeOK, HeldMatches, NoLeak, LastHint, UsedSlots, UsedBits
<1> QED
  BY <1>1, <1>2, <1>3, <1>4, <1>5 DEF PoolNext

\* The invariant holds in every reachable state.
LEMMA SpecInv == PoolSpec => []Inv
  BY InitInv, NextInv, PTL DEF PoolSpec

(***************************************************************************)
(* The theorems.                                                           *)
(***************************************************************************)

\* Every variable of the pool keeps its type: the hint stays within the
\* bitmap and only addresses malloc returned are linked in the list.
THEOREM TypeCorrect == PoolSpec => []PoolTypeOK
  BY SpecInv, PTL DEF Inv

\* The bitmap and the list of pool.c account for exactly the objects in use.
THEOREM Accounting == PoolSpec => []Accounted
<1>1. Inv => Accounted
  BY DEF Inv, Accounted
<1> QED
  BY <1>1, SpecInv, PTL

\* The search hint of pool_get never hides a free slot.
THEOREM HintSound == PoolSpec => []LastHint
  BY SpecInv, PTL DEF Inv

\* Objects in use share no byte, for every layout of the block.
THEOREM ObjectsDisjoint == PoolSpec => []Disjoint
<1>1. Inv => Disjoint
  <2> SUFFICES ASSUME Inv, NEW a \in held, NEW b \in held, a # b
               PROVE  a + Size <= b \/ b + Size <= a
    BY DEF Disjoint
  <2>1. alive
    BY DEF Inv, NoLeak
  <2>2. CASE a \in nodes /\ b \in nodes
    BY <2>2, PoolAssumption DEF Inv, PoolTypeOK
  <2>3. ASSUME NEW x \in nodes, NEW y \in UsedSlots
        PROVE  x + Size <= y \/ y + Size <= x
    <3>1. PICK s \in UsedBits : y = SlotAddr(s[1], s[2])
      BY <2>3 DEF UsedSlots
    <3>2. /\ y \in Int /\ y >= DataStart
          /\ y + Size <= DataStart + Cap * Size
      BY <3>1, SlotRoundTrip DEF UsedBits, InPool
    <3>3. x \in Int /\ (x + Size <= DataStart \/ x >= DataStart + Cap * Size)
      BY PoolAssumption DEF Inv, PoolTypeOK
    <3>4. Cap * Size \in Nat
      BY MulNat, SizesType, PoolAssumption DEF PosInt
    <3> QED
      BY <3>2, <3>3, <3>4, SizesType, PoolAssumption DEF PosInt
  <2>4. CASE a \in UsedSlots /\ b \in UsedSlots
    <3>1. PICK s \in UsedBits : a = SlotAddr(s[1], s[2])
      BY <2>4 DEF UsedSlots
    <3>2. PICK t \in UsedBits : b = SlotAddr(t[1], t[2])
      BY <2>4 DEF UsedSlots
    <3>3. /\ s[1] \in WordIdx /\ s[2] \in BitIdx
          /\ t[1] \in WordIdx /\ t[2] \in BitIdx
      BY DEF UsedBits
    <3>4. SlotNo(s[1], s[2]) # SlotNo(t[1], t[2])
      BY <3>1, <3>2, <3>3, SlotRoundTrip
    <3>5. SlotNo(s[1], s[2]) \in Nat /\ SlotNo(t[1], t[2]) \in Nat
      BY <3>3, SlotNoFacts
    <3>6. \/ SlotNo(s[1], s[2]) < SlotNo(t[1], t[2])
          \/ SlotNo(t[1], t[2]) < SlotNo(s[1], s[2])
      BY <3>4, <3>5
    <3> QED
      BY <3>1, <3>2, <3>3, <3>6, SlotsApart
  <2> QED
    BY <2>1, <2>2, <2>3, <2>4 DEF Inv, HeldMatches
<1> QED
  BY <1>1, SpecInv, PTL

(***************************************************************************)
(* What a step may do.                                                     *)
(***************************************************************************)

\* Words first, bits second: the order of the slots' addresses.
LEMMA SlotOrder ==
    ASSUME NEW w \in WordIdx, NEW j \in BitIdx, NEW v \in WordIdx, NEW i \in BitIdx,
           w < v \/ (w = v /\ j <= i)
    PROVE  SlotAddr(w, j) <= SlotAddr(v, i)
<1>1. SlotNo(w, j) \in Nat /\ SlotNo(v, i) \in Nat
  BY SlotNoFacts
<1>2. SlotNo(w, j) <= SlotNo(v, i)
  <2>1. CASE w = v /\ j <= i
    <3>1. w * WordBits \in Nat
      BY SizesType, MulNat DEF WordIdx, PosInt
    <3> QED
      BY <2>1, <3>1 DEF SlotNo, BitIdx
  <2>2. CASE w < v
    <3>1. w * WordBits + WordBits <= v * WordBits
      BY <2>2, SizesType, MulRoom DEF WordIdx
    <3>2. w * WordBits \in Nat /\ v * WordBits \in Nat
      BY SizesType, MulNat DEF WordIdx, PosInt
    <3> QED
      BY <3>1, <3>2, SizesType DEF SlotNo, BitIdx, PosInt
  <2> QED
    BY <2>1, <2>2
<1>3. SlotNo(w, j) * Size <= SlotNo(v, i) * Size
  BY <1>1, <1>2, MulMonotone, PoolAssumption
<1>4. SlotNo(w, j) * Size \in Nat /\ SlotNo(v, i) * Size \in Nat
  BY <1>1, MulNat, PoolAssumption DEF PosInt
<1>5. SlotAddr(w, j) = DataStart + SlotNo(w, j) * Size
      /\ SlotAddr(v, i) = DataStart + SlotNo(v, i) * Size
  BY SlotRoundTrip
<1> QED
  BY <1>3, <1>4, <1>5, SizesType

\* When pool_get falls back to malloc, every slot is used.
LEMMA NodeOnlyWhenFull ==
    ASSUME Inv, GetNode
    PROVE  UsedBits = WordIdx \X BitIdx
<1> SUFFICES ASSUME NEW w \in WordIdx PROVE bits[w] = BitIdx
  BY DEF UsedBits
<1>1. w \in 0 .. (last - 1) \/ w \in last .. (BitsCap - 1)
  BY SizesType DEF Inv, PoolTypeOK, WordIdx
<1> QED
  BY <1>1 DEF Inv, LastHint, GetNode, BlockFull

\* pool_get takes the lowest free slot, and none from malloc while one is free.
THEOREM TakesLowest == PoolSpec => LowestFirst
<1> DEFINE A == \A a \in held' \ held :
                  \A s \in (WordIdx \X BitIdx) \ UsedBits :
                     a \notin nodes' /\ a <= SlotAddr(s[1], s[2])
<1>1. Inv /\ [PoolNext]_poolVars => [A]_poolVars
  <2> SUFFICES ASSUME Inv, [PoolNext]_poolVars PROVE [A]_poolVars
    OBVIOUS
  <2>1. CASE GetSlot
    <3> SUFFICES ASSUME NEW a \in held' \ held,
                        NEW s \in (WordIdx \X BitIdx) \ UsedBits
                 PROVE  a \notin nodes' /\ a <= SlotAddr(s[1], s[2])
      BY DEF A
    <3>1. PICK w \in WordIdx, j \in BitIdx :
            FirstFree(w, j) /\ held' = held \cup {SlotAddr(w, j)}
      BY <2>1 DEF GetSlot
    <3>2. a = SlotAddr(w, j) /\ nodes' = nodes /\ alive
      BY <2>1, <3>1 DEF GetSlot
    <3>3. a \notin nodes'
      BY <3>2, SlotRoundTrip, DynOutside DEF Inv, PoolTypeOK
    <3>4. s[1] \in WordIdx /\ s[2] \in BitIdx /\ s[2] \notin bits[s[1]]
      BY DEF UsedBits
    <3>5. s[1] >= last
      BY <3>2, <3>4, SizesType DEF Inv, LastHint, PoolTypeOK, WordIdx
    <3>6. s[1] >= w
      BY <3>1, <3>4, <3>5, SizesType DEF FirstFree, Inv, PoolTypeOK, WordIdx
    <3>7. s[1] = w => s[2] >= j
      BY <3>1, <3>4, SizesType DEF FirstFree, BitIdx, PosInt
    <3>8. a <= SlotAddr(s[1], s[2])
      BY <3>2, <3>4, <3>6, <3>7, SlotOrder, SizesType DEF WordIdx, BitIdx, PosInt
    <3> QED
      BY <3>3, <3>8
  <2>2. CASE GetNode
    BY <2>2, NodeOnlyWhenFull DEF A
  <2>3. CASE pool_malloc \/ pool_put \/ pool_free \/ UNCHANGED poolVars
    BY <2>3 DEF pool_malloc, pool_put, pool_free, poolVars, A
  <2> QED
    BY <2>1, <2>2, <2>3 DEF PoolNext, pool_get
<1>2. PoolSpec => [][A]_poolVars
  BY <1>1, SpecInv, PTL DEF PoolSpec
<1> QED
  BY <1>2 DEF LowestFirst

\* The objects the abstract allocator calls live are those the callers hold.
LEMMA LiveIsHeld ==
    Inv => (IF alive THEN UsedSlots \cup nodes ELSE {}) = held
  BY DEF Inv, HeldMatches, NoLeak

\* Every operation of pool.c is a step of the allocator pool.h promises.
THEOREM PoolImplementsAbs == PoolSpec => Implements
<1> DEFINE Slots == {SlotAddr(w, j) : w \in WordIdx, j \in BitIdx}
           live == IF alive THEN UsedSlots \cup nodes ELSE {}
<1>1. PoolInit => Abs!AInit
  BY DEF PoolInit, Abs!AInit
<1>2. Inv /\ Inv' /\ [PoolNext]_poolVars => [Abs!ANext]_(Abs!absVars)
  <2> SUFFICES ASSUME Inv, Inv', [PoolNext]_poolVars PROVE [Abs!ANext]_(Abs!absVars)
    OBVIOUS
  <2>1. live = held
    BY LiveIsHeld
  <2>2. live' = held'
    BY DEF Inv, HeldMatches, NoLeak
  <2> HIDE DEF live
  <2>3. CASE pool_malloc
    BY <2>1, <2>2, <2>3 DEF pool_malloc, Abs!ANext, Abs!ACreate, live
  <2>4. CASE GetSlot
    <3>1. PICK w \in WordIdx, j \in BitIdx :
            FirstFree(w, j) /\ held' = held \cup {SlotAddr(w, j)}
      BY <2>4 DEF GetSlot
    <3>2. alive /\ alive' = alive
      BY <2>4 DEF GetSlot
    <3>3. j \notin bits[w]
      BY <3>1 DEF FirstFree
    <3>4. SlotAddr(w, j) \notin held
      <4>1. SlotAddr(w, j) \notin nodes
        BY SlotRoundTrip, DynOutside DEF Inv, PoolTypeOK
      <4>2. SlotAddr(w, j) \notin UsedSlots
        BY <3>3, SlotAddrInjective DEF UsedSlots, UsedBits
      <4> QED
        BY <3>2, <4>1, <4>2 DEF Inv, HeldMatches
    <3>5. SlotAddr(w, j) \in Slots
      OBVIOUS
    <3>6. SlotAddr(w, j) \in IF Slots \subseteq live THEN DynAddrs \ live ELSE Slots \ live
      BY <2>1, <3>4, <3>5
    <3>7. live' = live \cup {SlotAddr(w, j)}
      BY <2>1, <2>2, <3>1
    <3> QED
      BY <3>2, <3>6, <3>7 DEF Abs!ANext, Abs!AGet, live
  <2>5. CASE GetNode
    <3>1. PICK a \in DynAddrs \ heap : held' = held \cup {a}
      BY <2>5 DEF GetNode
    <3>2. alive /\ alive' = alive
      BY <2>5 DEF GetNode
    <3>3. UsedSlots = Slots
      <4>1. \A w \in WordIdx, j \in BitIdx : <<w, j>> \in UsedBits
        BY <2>5, NodeOnlyWhenFull
      <4>2. \A w \in WordIdx, j \in BitIdx : SlotAddr(w, j) \in UsedSlots
        <5> TAKE w \in WordIdx, j \in BitIdx
        <5>1. SlotAddr(<<w, j>>[1], <<w, j>>[2]) = SlotAddr(w, j)
          OBVIOUS
        <5> QED
          BY <4>1, <5>1, Zenon DEF UsedSlots
      <4>3. UsedSlots \subseteq Slots
        BY DEF UsedSlots, UsedBits
      <4> QED
        BY <4>2, <4>3
    <3>4. held = Slots \cup nodes
      BY <3>2, <3>3 DEF Inv, HeldMatches
    <3>5. a \notin held
      <4>1. a \notin Slots
        BY SlotRoundTrip, DynOutside
      <4> QED
        BY <3>2, <3>4, <4>1 DEF Inv, HeldMatches
    <3>6. a \in IF Slots \subseteq live THEN DynAddrs \ live ELSE Slots \ live
      BY <2>1, <3>4, <3>5
    <3>7. live' = live \cup {a}
      BY <2>1, <2>2, <3>1
    <3> QED
      BY <3>2, <3>6, <3>7 DEF Abs!ANext, Abs!AGet, live
  <2>6. CASE pool_put
    <3>1. PICK a \in held : held' = held \ {a}
      BY <2>6 DEF pool_put
    <3>2. alive /\ alive' = alive
      BY <2>6 DEF pool_put
    <3>3. a \in live /\ live' = live \ {a}
      BY <2>1, <2>2, <3>1
    <3> QED
      BY <3>2, <3>3 DEF Abs!ANext, Abs!APut, live
  <2>7. CASE pool_free
    BY <2>1, <2>2, <2>7 DEF pool_free, Abs!ANext, Abs!ADestroy, live
  <2>8. CASE UNCHANGED poolVars
    BY <2>1, <2>2, <2>8 DEF poolVars, Abs!absVars, live
  <2> QED
    BY <2>3, <2>4, <2>5, <2>6, <2>7, <2>8 DEF PoolNext, pool_get
<1> QED
  BY <1>1, <1>2, SpecInv, PTL DEF PoolSpec, Implements, Abs!ASpec
=============================================================================
