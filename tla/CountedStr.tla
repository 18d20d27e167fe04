----------------------------- MODULE CountedStr -----------------------------
(* str.c, str.h and ptr.h: a string with its length and capacity in front,  *)
(* and a block with a count of references.  The history keeps what the      *)
(* calls asked for.                                                         *)
EXTENDS Integers, Sequences

CONSTANTS MinCap, LargeCap,     \* MIN_CAP and LARGE_CAP
          HeadSize,             \* sizeof(struct _str_head_t)
          Words,                \* what is appended: sequences of characters
          StrCapacities,           \* what str_grow and str_malloc are asked for
          MaxStr, MaxHolders    \* bounds: the length of a string, the holders of a block

ASSUME StrAssumption ==
    /\ MinCap \in Nat \ {0} /\ LargeCap \in Nat \ {0} /\ HeadSize \in Nat
    /\ Words \subseteq Seq(STRING) /\ StrCapacities \subseteq Nat

VARIABLES str,      \* the header of the string, its bytes, and whether it is freed
          counted,  \* the characters the calls asked for, and whether one
                    \* of them was string_cats
          ptr,      \* the blocks: their counts, lengths, bytes
          held      \* who holds which block, and what it wrote

Unset == "unset"
Unwritten(n) == [i \in 1..n |-> Unset]

(* memcpy of bytes to offset at of a block, and the byte zero behind them.  *)
BytesCopied(data, at, bytes) ==
    [i \in DOMAIN data |-> IF i \in (at + 1)..(at + Len(bytes)) THEN bytes[i - at] ELSE data[i]]
Ended(data, at, bytes) == BytesCopied(data, at, Append(bytes, "NUL"))

-----------------------------------------------------------------------------
GrownCap(cap, min_cap) ==
    LET grown[c \in Nat \ {0}] ==
            IF c >= min_cap THEN c
            ELSE grown[IF min_cap <= LargeCap THEN 2 * c ELSE c + LargeCap]
    IN  grown[cap]

str_malloc(capacity) ==
    LET cap == GrownCap(MinCap, capacity + HeadSize + 1)
    IN  [len |-> 0, cap |-> (cap - HeadSize) - 1, data |-> Ended(Unwritten(cap - HeadSize), 0, <<>>)]

FilledWith(s, bytes) == [s EXCEPT !.len = Len(bytes), !.data = Ended(@, 0, bytes)]
str_from_cstr(bytes) == FilledWith(str_malloc(Len(bytes)), bytes)
Counts(s) == SubSeq(s.data, 1, s.len)

(* The copies of str_grow and str_copy end one byte behind the length.      *)
CopyOf(s, into) == [into EXCEPT !.len = s.len, !.data = BytesCopied(@, 0, SubSeq(s.data, 1, s.len + 1))]
str_grow(s, capacity) == IF capacity <= s.cap THEN s ELSE CopyOf(s, str_malloc(capacity))
str_copy(s) == CopyOf(s, str_malloc(s.len))

(* Mutant: the room is tested against the length that is appended.          *)
GrownForSource(s, bytes) ==
    IF Len(bytes) > s.cap THEN str_grow(s, s.len + Len(bytes)) ELSE s
GrownFor(s, bytes) ==
    IF s.len + Len(bytes) > s.cap THEN str_grow(s, s.len + Len(bytes)) ELSE s

str_append(s, bytes) ==
    [GrownFor(s, bytes) EXCEPT !.data = Ended(@, s.len, bytes), !.len = s.len + Len(bytes)]
str_trim(s, len) == IF len < s.len THEN [s EXCEPT !.len = len, !.data = Ended(@, len, <<>>)] ELSE s

(* string_cats copies its arguments behind the text and leaves the length.  *)
string_cats(s, bytes) == [GrownFor(s, bytes) EXCEPT !.data = Ended(@, s.len, bytes)]

-----------------------------------------------------------------------------
Counting(text, crossed) == [text |-> text, crossed |-> crossed]

StrInit == \E word \in Words : str = str_from_cstr(word) /\ counted = Counting(word, FALSE)

AppendWord == \E word \in Words :
    /\ Len(counted.text) + Len(word) <= MaxStr
    /\ str' = str_append(str, word)
    /\ counted' = Counting(counted.text \o word, counted.crossed)
CatSelf ==      \* str_catstr with a copy of the string, which is then freed
    /\ 2 * Len(counted.text) <= MaxStr
    /\ str' = str_append(str, Counts(str_copy(str)))
    /\ counted' = Counting(counted.text \o counted.text, counted.crossed)
CatMany == \E word1, word2 \in Words :
    /\ Len(counted.text) + Len(word1 \o word2) <= MaxStr
    /\ str' = string_cats(str, word1 \o word2)
    /\ counted' = Counting(counted.text \o (word1 \o word2), TRUE)
Trim == \E len \in 0..MaxStr :
    /\ str' = str_trim(str, len)
    /\ counted' = IF len < Len(counted.text) THEN Counting(SubSeq(counted.text, 1, len), counted.crossed) ELSE counted
Grow == \E capacity \in StrCapacities :
    /\ str' = str_grow(str, capacity)
    /\ UNCHANGED counted
Replace == \E word \in Words :
    /\ str' = str_from_cstr(word)
    /\ counted' = Counting(word, FALSE)

StrNext == AppendWord \/ CatSelf \/ CatMany \/ Trim \/ Grow \/ Replace

-----------------------------------------------------------------------------
(* Blocks are numbered as they are allocated.                               *)
ptr_malloc(blocks, bytes) == Append(blocks, [ref |-> 1, data |-> bytes, freed |-> FALSE])

(* ptr_free counts down a copy of the count: a block with one reference is  *)
(* freed, one with more keeps them all.                                     *)
ptr_free(blocks, b) == IF blocks[b].ref = 1 THEN [blocks EXCEPT ![b].freed = TRUE] ELSE blocks

ptr_expand(blocks, b, size) ==
    ptr_free(ptr_malloc(blocks, BytesCopied(Unwritten(Len(blocks[b].data) + size), 0, blocks[b].data)), b)

(* The room to add is the whole length the block is to have.                *)
RoomFor(blocks, b, end) ==
    IF Len(blocks[b].data) < end THEN ptr_expand(blocks, b, end) ELSE blocks
BlockWritten(blocks, b, pos, bytes) == [blocks EXCEPT ![b].data = BytesCopied(@, pos, bytes)]
Moved(before, after, b) == IF Len(after) > Len(before) THEN Len(after) ELSE b

PtrInit ==
    /\ ptr = ptr_malloc(<<>>, Unwritten(1))
    /\ held = <<[block |-> 1, wrote |-> <<>>]>>

AddRef == \E h \in DOMAIN held :
    /\ Len(held) < MaxHolders /\ ptr[held[h].block].ref < MaxHolders
    /\ ptr' = [ptr EXCEPT ![held[h].block].ref = @ + 1]
    /\ held' = Append(held, held[h])

Release == \E h \in DOMAIN held :
    /\ ptr' = ptr_free(ptr, held[h].block)
    /\ held' = [i \in 1..(Len(held) - 1) |-> IF i < h THEN held[i] ELSE held[i + 1]]

(* A holder writes behind what it wrote; the others still hold the block it *)
(* leaves when it expands.                                                  *)
WriteOn(h, word, roomy) ==
    /\ ptr' = BlockWritten(roomy, Moved(ptr, roomy, held[h].block), Len(held[h].wrote), word)
    /\ held' = [held EXCEPT ![h] = [block |-> Moved(ptr, roomy, @.block), wrote |-> @.wrote \o word]]
AppendToBlock == \E h \in DOMAIN held, word \in Words :
    /\ Len(held[h].wrote) + Len(word) <= MaxStr /\ Len(ptr) < MaxHolders
    /\ \A i \in DOMAIN held : i # h => held[i].block # held[h].block \/ held[i].wrote = <<>>
    /\ WriteOn(h, word, RoomFor(ptr, held[h].block, Len(held[h].wrote) + Len(word)))

PtrNext == AddRef \/ Release \/ AppendToBlock

-----------------------------------------------------------------------------
(* A program with one string and one counted block, which share nothing.    *)
CountedInit == StrInit /\ PtrInit
CountedNext == \/ StrNext /\ UNCHANGED <<ptr, held>>
               \/ PtrNext /\ UNCHANGED <<str, counted>>
CountedSpec == CountedInit /\ [][CountedNext]_<<str, counted, ptr, held>>

-----------------------------------------------------------------------------
(* str.c:9-60, str.h:69-123, ptr.h:30-68: after every sequence of calls the  *)
(* text is inside its block; and the length and the characters it counts    *)
(* are those the calls asked for, with a terminator behind them, as long as *)
(* none of the calls was string_cats (which counts nothing of what it       *)
(* appends, str.c:89).  A block is not freed while it is held and keeps     *)
(* what its holder wrote.                                                   *)
StringsCounted ==
    /\ str.len <= str.cap /\ DOMAIN str.data = 1..(str.cap + 1)
    /\ ~counted.crossed => /\ Counts(str) = counted.text /\ str.len = Len(counted.text)
                           /\ str.data[str.len + 1] = "NUL"
    /\ \A h \in DOMAIN held :
           /\ ~ptr[held[h].block].freed
           /\ SubSeq(ptr[held[h].block].data, 1, Len(held[h].wrote)) = held[h].wrote
=============================================================================
