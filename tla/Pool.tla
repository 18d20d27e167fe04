-------------------------------- MODULE Pool --------------------------------
(***************************************************************************)
(* pool.c: a bitmap allocator over one block of PoolCapacity * Size bytes that *)
(* falls back to malloc when the block is full.  Addresses are byte        *)
(* offsets from self->data: the bitmap words come first, the slots follow. *)
(* WordBits is PC (32 in the code), WordBytes is 1 << PBB (4).             *)
(***************************************************************************)
EXTENDS Integers

CONSTANTS PoolCapacity,     \* the number of objects the caller asks for
          Size,         \* the size of an object, in bytes
          WordBytes,    \* bytes of a bitmap word
          BitsPerByte,  \* bits of a byte: 8, and PB - PBB = 3 is its logarithm
          DynAddrs      \* the addresses of objects malloc can return

PosInt == Nat \ {0}

WordBits == WordBytes * BitsPerByte

\* pool_malloc rounds the capacity up to whole bitmap words.
BitsCap   == (PoolCapacity + (WordBits - 1)) \div WordBits
Cap       == BitsCap * WordBits

WordIdx == 0 .. (BitsCap - 1)
BitIdx  == 0 .. (WordBits - 1)

\* Mutant: the multiplication binds to the bit only.
SlotAddrUnparenthesised(w, j) == (BitsCap * WordBytes) + (w * WordBits) + j * Size

\* The address pool_get computes for bit j of word w.
SlotAddr(w, j) == (BitsCap * WordBytes) + ((w * WordBits) + j) * Size

\* pool_put finds the start of the slots from the capacity instead.
DataStart == Cap \div BitsPerByte
InPool(a) == a >= DataStart /\ a < DataStart + Cap * Size

\* Mutant: slots counted from one.
SlotIndexOffByOne(a) == ((a - DataStart) \div Size) - 1

SlotIndex(a) == (a - DataStart) \div Size

\* The code's sizes are positive, nothing wraps at 2^32, and malloc returns
\* objects that overlap neither each other nor the pool's block.
ASSUME PoolAssumption ==
    /\ PoolCapacity \in PosInt
    /\ Size \in PosInt
    /\ WordBytes \in PosInt
    /\ BitsPerByte \in PosInt
    /\ DynAddrs \subseteq Int
    /\ \A a \in DynAddrs : a + Size <= DataStart \/ a >= DataStart + Cap * Size
    /\ \A a, b \in DynAddrs : a = b \/ a + Size <= b \/ b + Size <= a

VARIABLES alive,    \* between pool_malloc and pool_free
          bits,     \* the bitmap: the set of busy bits of each word
          last,     \* self->last, where pool_get starts its search
          nodes,    \* the malloc'd objects linked in the list self->head
          heap,     \* the malloc'd objects that were not freed
          held      \* the objects the callers hold

poolVars == <<alive, bits, last, nodes, heap, held>>

NoBits == [w \in WordIdx |-> {}]

PoolInit == /\ alive = FALSE
        /\ bits = NoBits
        /\ last = 0
        /\ nodes = {}
        /\ heap = {}
        /\ held = {}

(***************************************************************************)
(* The operations.                                                         *)
(***************************************************************************)
pool_malloc == /\ ~alive
               /\ alive' = TRUE
               /\ bits' = NoBits
               /\ last' = 0
               /\ nodes' = {}
               /\ UNCHANGED <<heap, held>>

\* The first word from `last` on that is not full, and its lowest clear bit.
FirstFree(w, j) == /\ w \in last .. (BitsCap - 1)
                   /\ \A v \in last .. (w - 1) : bits[v] = BitIdx
                   /\ j \in BitIdx \ bits[w]
                   /\ \A i \in 0 .. (j - 1) : i \in bits[w]

GetSlot == /\ alive
           /\ \E w \in WordIdx, j \in BitIdx :
                /\ FirstFree(w, j)
                /\ last' = w
                /\ bits' = [bits EXCEPT ![w] = @ \cup {j}]
                /\ held' = held \cup {SlotAddr(w, j)}
           /\ UNCHANGED <<alive, nodes, heap>>

\* Mutant: only the hinted word is looked at before malloc.
HintedWordFull == last = BitsCap \/ bits[last] = BitIdx

BlockFull == \A w \in last .. (BitsCap - 1) : bits[w] = BitIdx

GetNode == /\ alive
           /\ BlockFull
           /\ last' = BitsCap
           /\ \E a \in DynAddrs \ heap :
                /\ heap' = heap \cup {a}
                /\ nodes' = nodes \cup {a}
                /\ held' = held \cup {a}
           /\ UNCHANGED <<alive, bits>>

pool_get == GetSlot \/ GetNode

\* Mutant: the hint stays where it is.
PutSlotKeepsHint(a) ==
    LET k == SlotIndex(a)
    IN  /\ InPool(a)
        /\ bits' = [bits EXCEPT ![k \div WordBits] = @ \ {k % WordBits}]
        /\ UNCHANGED <<last, nodes, heap>>

\* Clears the slot's bit and moves the hint down to its word.
PutSlot(a) ==
    LET k == SlotIndex(a)
        w == k \div WordBits
    IN  /\ InPool(a)
        /\ last' = IF last > w THEN w ELSE last
        /\ bits' = [bits EXCEPT ![w] = @ \ {k % WordBits}]
        /\ UNCHANGED <<nodes, heap>>

\* Mutant: the node is unlinked but not freed.
PutNodeNoFree(a) == /\ ~InPool(a)
                    /\ nodes' = nodes \ {a}
                    /\ UNCHANGED <<heap, bits, last>>

\* Looks the object up in the list; an unknown one is left alone.
PutNode(a) == /\ ~InPool(a)
              /\ nodes' = nodes \ {a}
              /\ heap' = IF a \in nodes THEN heap \ {a} ELSE heap
              /\ UNCHANGED <<bits, last>>

pool_put == /\ alive
            /\ \E a \in held :
                 /\ held' = held \ {a}
                 /\ PutSlot(a) \/ PutNode(a)
            /\ UNCHANGED alive

\* Frees every node of the list, then the block; what callers hold is gone.
pool_free == /\ alive
             /\ alive' = FALSE
             /\ heap' = heap \ nodes
             /\ held' = {}
             /\ UNCHANGED <<bits, last, nodes>>

PoolNext == pool_malloc \/ pool_get \/ pool_put \/ pool_free

PoolSpec == PoolInit /\ [][PoolNext]_poolVars

(***************************************************************************)
(* Properties.                                                             *)
(***************************************************************************)
UsedBits == {s \in WordIdx \X BitIdx : s[2] \in bits[s[1]]}
UsedSlots == {SlotAddr(s[1], s[2]) : s \in UsedBits}

PoolTypeOK == /\ alive \in BOOLEAN
          /\ bits \in [WordIdx -> SUBSET BitIdx]
          /\ last \in 0 .. BitsCap
          /\ nodes \subseteq DynAddrs
          /\ heap \subseteq DynAddrs
          /\ held \subseteq Int

\* The bitmap and the list account for exactly what the callers hold: a bit
\* is set or a node linked for each object in use and for nothing else, and
\* every malloc'd block is linked, so pool_put and pool_free lose none.
HeldMatches == alive => /\ held = UsedSlots \cup nodes
                        /\ heap = nodes

\* pool_free leaves no malloc'd block behind, however many gets fell back
\* to malloc and whichever of them were put back.
NoLeak == ~alive => heap = {} /\ held = {}

\* Bits, nodes and malloc'd blocks are those in use, while the pool lives and
\* after it.
Accounted == HeldMatches /\ NoLeak

\* pool_get never skips a free slot by starting at `last`: every word before
\* the hint is full, whatever order slots are put back in.
LastHint == alive => \A w \in 0 .. (last - 1) : bits[w] = BitIdx

\* Two objects in use never share a byte, although pool_get and pool_put
\* compute the addresses of slots independently of each other.
Disjoint == \A a, b \in held : a = b \/ a + Size <= b \/ b + Size <= a

\* A get takes the lowest free slot of the block (the order TEST_POOL counts
\* on), and system memory only when the block is full.
LowestFirst ==
    [][\A a \in held' \ held :
          \A s \in (WordIdx \X BitIdx) \ UsedBits :
             a \notin nodes' /\ a <= SlotAddr(s[1], s[2])]_poolVars

Abs == INSTANCE PoolAbs WITH Slots  <- {SlotAddr(w, j) : w \in WordIdx, j \in BitIdx},
                             Others <- DynAddrs,
                             open   <- alive,
                             live   <- IF alive THEN UsedSlots \cup nodes ELSE {}

\* The pool implements the allocator pool.h promises.
Implements == Abs!ASpec
=============================================================================
