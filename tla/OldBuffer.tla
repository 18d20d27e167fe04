------------------------------ MODULE OldBuffer ------------------------------
(* buffer.c: the buffer of blocks behind an array of pointers, that the     *)
(* paged buffer of the server replaced.  A block is the sequence of its     *)
(* bytes; a byte written tells its position, and is Junk when nothing was   *)
(* written there since malloc.                                              *)
EXTENDS Integers, Sequences, SequencesExt

CONSTANTS
    C0, C1,          \* least capacity and length of a block, powers of two
    Capacities,      \* capacities asked of buffer_init_ex
    ArrayCaps,       \* lengths asked for the array
    Lengths,         \* lengths of writes, and new lengths
    MaxBufLen        \* bound: no operation makes the buffer longer

VARIABLES
    buf,             \* buffer_t, with the block each pointer of the array points to
    text             \* ghost: the bytes written, and what growth left unwritten

bufferVars == <<buf, text>>

Junk == -1
NoBlock == <<>>                          \* an entry of the array never set
Malloc(n) == [i \in 1..n |-> Junk]

(* The capacity as the code finds it, by doubling and by steps of C1.       *)
Doubled(cap, n) ==
    LET doubled[c \in Nat \ {0}] == IF c >= n THEN c ELSE doubled[2 * c]
    IN  doubled[cap]
Stepped(cap, n) ==
    LET stepped[c \in Nat \ {0}] == IF c >= n THEN c ELSE stepped[c + C1]
    IN  stepped[cap]

(* Doubling C0 meets C1.                                                    *)
ASSUME BufferAssumption ==
    /\ C0 \in Nat \ {0} /\ C1 \in Nat \ {0} /\ Doubled(C0, C1) = C1
    /\ Capacities \subseteq Nat /\ ArrayCaps \subseteq Nat
    /\ Lengths \subseteq Nat /\ MaxBufLen \in Nat

buffer_init_ex(capacity, array_cap) ==
    LET cap == IF capacity <= C1 THEN Doubled(C0, capacity) ELSE Stepped(C1, capacity)
        alen == IF capacity <= C1 THEN 1 ELSE cap \div C1
        acap == Doubled(IF capacity <= C1 THEN 1 ELSE Doubled(1, alen), array_cap)
    IN  [ref |-> 1, len |-> 0, cap |-> cap, array_cap |-> acap, leaked |-> FALSE,
         array |-> [i \in 1..acap |-> IF i <= alen THEN Malloc(C1) ELSE NoBlock]]

(* The first block is replaced; len bytes of it are copied.                 *)
realloc_small(b, capacity) ==
    [b EXCEPT !.array[1] = [i \in 1..capacity |->
                               IF i <= b.len /\ i <= Len(b.array[1]) THEN b.array[1][i] ELSE Junk]]

realloc_array(b, capacity) ==
    [b EXCEPT !.array_cap = capacity,
              !.array = [i \in 1..capacity |->
                            IF i <= b.array_cap THEN b.array[i] ELSE NoBlock]]

\* Mutant: one entry of the array too few is given a block.
FilledShort(b, used, alen) ==
    [b EXCEPT !.array = [i \in DOMAIN @ |-> IF i \in (used + 1)..(alen - 1) THEN Malloc(C1)
                                            ELSE @[i]]]

(* Blocks for the entries from used to alen.  One that was there is lost.   *)
Filled(b, used, alen) ==
    [b EXCEPT !.leaked = @ \/ (used < alen /\ b.array[used + 1] # NoBlock),
              !.array = [i \in DOMAIN @ |-> IF i \in (used + 1)..alen THEN Malloc(C1)
                                            ELSE @[i]]]

WithArray(b, alen) ==
    IF alen > b.array_cap THEN realloc_array(b, Doubled(b.array_cap, alen)) ELSE b

Grown(b, used, cap) == [Filled(WithArray(b, cap \div C1), used, cap \div C1) EXCEPT !.cap = cap]

(* Up to C1 the only block grows by doubling.  Above, blocks are added; the *)
(* first is replaced when the buffer's length, not its capacity, is below   *)
(* C1, and entry 0 counts as used only when the capacity had reached C1.    *)
buffer_expand_capacity(b, capacity) ==
    IF capacity < b.cap THEN b
    ELSE IF capacity <= C1 THEN
        LET cap == Doubled(b.cap, capacity) IN [realloc_small(b, cap) EXCEPT !.cap = cap]
    ELSE IF b.len < C1 THEN Grown(realloc_small(b, C1), b.cap \div C1, Stepped(C1, capacity))
    ELSE Grown(b, b.cap \div C1, Stepped(b.cap, capacity))

buffer_set_length(b, n) ==
    [(IF n > b.cap THEN buffer_expand_capacity(b, n) ELSE b) EXCEPT !.len = n]

(* buffer_get: the block of a position, and the place in it.                *)
BlockOf(pos) == (pos \div C1) + 1
PlaceAt(pos) == (pos % C1) + 1

Reaches(b, pos) == /\ BlockOf(pos) <= b.array_cap
                   /\ PlaceAt(pos) <= Len(b.array[BlockOf(pos)])
ByteAt(b, pos) == b.array[BlockOf(pos)][PlaceAt(pos)]

(* buffer_foreach with on_write, and with on_read.                          *)
Put(b, from, to) ==
    [b EXCEPT !.array = [i \in DOMAIN @ |-> [j \in DOMAIN @[i] |->
        LET pos == (i - 1) * C1 + j
        IN  IF pos \in (from + 1)..to THEN pos % 3 ELSE @[i][j]]]]
buffer_read(b, from, to) == [i \in 1..(to - from) |-> ByteAt(b, (from + i) - 1)]

(* The clone has room for the length only; it is copied block by block.     *)
CloneInto(fresh, b) ==
    [fresh EXCEPT !.len = b.len, !.array = [i \in DOMAIN @ |-> [j \in DOMAIN @[i] |->
        IF (i - 1) * C1 + j <= b.len THEN b.array[i][j] ELSE @[i][j]]]]
buffer_clone(b) == CloneInto(buffer_init_ex(b.len, 0), b)

-----------------------------------------------------------------------------
BufferInit ==
    /\ \E capacity \in Capacities, array_cap \in ArrayCaps :
          buf = buffer_init_ex(capacity, array_cap)
    /\ text = <<>>

Alive == buf.cap # 0

buffer_write(n) ==
    /\ Alive /\ buf.len + n <= MaxBufLen
    /\ buf' = Put(buffer_set_length(buf, buf.len + n), buf.len, buf.len + n)
    /\ text' = text \o [i \in 1..n |-> (buf.len + i) % 3]

SetLength(n) ==
    /\ Alive /\ n <= MaxBufLen
    /\ buf' = buffer_set_length(buf, n)
    /\ text' = [i \in 1..n |-> IF i <= Len(text) THEN text[i] ELSE Junk]

ExpandCapacity(n) ==
    /\ Alive /\ n <= MaxBufLen
    /\ buf' = buffer_expand_capacity(buf, n)
    /\ UNCHANGED text

buffer_trim(n) ==
    /\ Alive
    /\ buf' = [buf EXCEPT !.len = IF @ < n THEN 0 ELSE @ - n]
    /\ text' = SubSeq(text, 1, buf'.len)

(* A second reference; the last one to go frees the blocks.                 *)
buffer_copy ==
    /\ Alive /\ buf.ref < 2
    /\ buf' = [buf EXCEPT !.ref = @ + 1]
    /\ UNCHANGED text

buffer_destroy ==
    /\ Alive
    /\ IF buf.ref > 1 THEN buf' = [buf EXCEPT !.ref = @ - 1] /\ UNCHANGED text
       ELSE /\ buf' = [buf EXCEPT !.ref = 0, !.len = 0, !.cap = 0, !.array_cap = 0, !.array = <<>>]
            /\ text' = <<>>

BufferNext ==
    \/ \E n \in Lengths : buffer_write(n) \/ SetLength(n) \/ ExpandCapacity(n) \/ buffer_trim(n)
    \/ buffer_copy \/ buffer_destroy

BufferSpec == BufferInit /\ [][BufferNext]_bufferVars

-----------------------------------------------------------------------------
SameText(bytes) == \A i \in DOMAIN text : text[i] # Junk => bytes[i] = text[i]

(* Wherever a byte was written it is read back, however the buffer grew and *)
(* shrank, and a clone reads the same; all of the capacity lies in blocks.  *)
(* Not once growth went in one step from a block of less than C1 to several *)
(* blocks: the first is then replaced by a new one.                         *)
BufferExact ==
    Alive /\ ~buf.leaked =>
        /\ buf.len <= buf.cap
        /\ \A pos \in 0..(buf.cap - 1) : Reaches(buf, pos)
        /\ SameText(buffer_read(buf, 0, buf.len))
        /\ SameText(buffer_read(buffer_clone(buf), 0, buf.len))
=============================================================================
