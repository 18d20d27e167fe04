------------------------------ MODULE ListHead ------------------------------
(* list.h: the doubly linked lists of the server (its pools) and of the     *)
(* request fields, with the loops that may remove the entry they are at.    *)
EXTENDS Integers, Sequences, SequencesExt, FiniteSets

CONSTANT Entries     \* entries a caller may link, numbered from 1

VARIABLES
    links,           \* next and prev of the head and of every entry
    order            \* ghost: the entries linked, from the first to the last

listVars == <<links, order>>

ListHeadNode == 0
Cells == {ListHeadNode} \cup Entries

ASSUME EntriesAssumption == IsFiniteSet(Entries) /\ ListHeadNode \notin Entries

Follow(l, c, way) == l[way][c]
SetNext(l, c, d) == [l EXCEPT !.next[c] = d]
SetPrev(l, c, d) == [l EXCEPT !.prev[c] = d]

list_head_init(l, c) == SetPrev(SetNext(l, c, c), c, c)

\* Mutant: the old neighbour is not told of the new entry.
AddOneWay(l, e, prev, next) == SetNext(SetPrev(SetNext(l, e, next), e, prev), prev, e)

__list_add(l, e, prev, next) ==
    SetNext(SetPrev(SetNext(SetPrev(l, next, e), e, next), e, prev), prev, e)

list_add(l, e) == __list_add(l, e, ListHeadNode, l.next[ListHeadNode])
list_add_tail(l, e) == __list_add(l, e, l.prev[ListHeadNode], ListHeadNode)

__list_del(l, prev, next) == SetNext(SetPrev(l, next, prev), prev, next)
list_del(l, e) == __list_del(l, l.prev[e], l.next[e])
list_del_init(l, e) == list_head_init(list_del(l, e), e)

(* The new entry is linked from the old one's neighbours; the old one keeps *)
(* its links.                                                               *)
list_replace(l, old, e) ==
    LET after == SetNext(l, e, l.next[old])
        joined == SetPrev(SetPrev(after, after.next[e], e), e, l.prev[old])
    IN  SetNext(joined, joined.prev[e], e)

list_empty(l) == l.next[ListHeadNode] = ListHeadNode
list_first(l) == l.next[ListHeadNode]
list_last(l) == l.prev[ListHeadNode]

(* list_foreach and list_foreach_reverse: the cell a loop that starts at c  *)
(* is at after n rounds.                                                    *)
Visited(l, c, way, n) ==
    LET pos[k \in Nat] == IF k = 0 THEN c ELSE Follow(l, pos[k - 1], way)
    IN  pos[n]

(* list_foreach_safe, whose body removes the entries of a set: tmp is read  *)
(* before the body runs.                                                    *)
Removed(l, c, gone) == IF c \in gone THEN list_del_init(l, c) ELSE l

SafeRound(x, gone, way) ==
    IF x.pos = ListHeadNode THEN x
    ELSE [links |-> Removed(x.links, x.pos, gone), pos |-> Follow(x.links, x.pos, way)]

(* After as many rounds as there are entries the loop is over.              *)
SafeLoop(l, gone, way) ==
    LET loop[k \in Nat] ==
            IF k = 0 THEN [links |-> l, pos |-> Follow(l, ListHeadNode, way)]
            ELSE SafeRound(loop[k - 1], gone, way)
    IN  loop[Cardinality(Entries)].links

-----------------------------------------------------------------------------
ListInit ==
    /\ links = [next |-> [c \in Cells |-> c], prev |-> [c \in Cells |-> c]]
    /\ order = <<>>

Linked == ToSet(order)

(* The sequence without the entries that are gone.                          *)
Without(s, gone) ==
    LET kept[i \in Nat] == IF i = 0 THEN <<>>
                           ELSE IF s[i] \in gone THEN kept[i - 1] ELSE Append(kept[i - 1], s[i])
    IN  kept[Len(s)]

AddEntry(e) ==
    /\ e \notin Linked
    /\ \/ links' = list_add(links, e) /\ order' = <<e>> \o order
       \/ links' = list_add_tail(links, e) /\ order' = Append(order, e)

RemoveEntry(e) ==
    /\ e \in Linked
    /\ links' = list_del(links, e)
    /\ order' = Without(order, {e})

ReplaceEntry(old, e) ==
    /\ old \in Linked /\ e \notin Linked
    /\ links' = list_replace(links, old, e)
    /\ order' = [i \in DOMAIN order |-> IF order[i] = old THEN e ELSE order[i]]

RemoveSome(gone, way) ==
    /\ gone # {}
    /\ links' = SafeLoop(links, gone, way)
    /\ order' = Without(order, gone)

ListNext ==
    \/ \E e \in Entries : AddEntry(e) \/ RemoveEntry(e)
    \/ \E old, e \in Entries : ReplaceEntry(old, e)
    \/ \E gone \in SUBSET Linked, way \in {"next", "prev"} : RemoveSome(gone, way)

ListSpec == ListInit /\ [][ListNext]_listVars

(* A loop that starts at c visits the entries of s and is back at the head. *)
Visits(l, c, way, s) ==
    \A n \in 0 .. Len(s) : Visited(l, c, way, n) = IF n < Len(s) THEN s[n + 1] ELSE ListHeadNode

(* The list holds the entries linked and no other, in their order, forward  *)
(* and backward, although an entry that was taken out or replaced keeps its *)
(* old links and may be linked again.                                       *)
ListIsSequence ==
    /\ Visits(links, list_first(links), "next", order)
    /\ Visits(links, list_last(links), "prev", Reverse(order))
    /\ list_empty(links) <=> order = <<>>
=============================================================================
