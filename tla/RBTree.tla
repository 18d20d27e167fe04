------------------------------- MODULE RBTree -------------------------------
(* rbtree.c: the red-black tree that the route table keeps its entries in,  *)
(* and the walks that keep an augmented value (here the size of a subtree). *)
(*                                                                          *)
(* Nodes are numbered from 1; NIL is the null pointer.  The tree is a       *)
(* record: root, parent and colour of each node, and child["l"], child["r"],*)
(* so that the mirrored halves of the code are one definition with a side.  *)
EXTENDS Integers, FiniteSets, Sequences

CONSTANTS
    TreeNodes,       \* the nodes a caller may hand over
    KeyOf            \* key of each node; two nodes may have the same key

ASSUME TreeAssumption == TreeNodes \subseteq Nat \ {0} /\ KeyOf \in [TreeNodes -> Nat]

VARIABLES
    tree,            \* the nodes in memory and rb_root_t
    inserted         \* ghost: nodes the caller has put in and not taken out

treeVars == <<tree, inserted>>

NIL == 0
Sides == {"l", "r"}
Other(s) == IF s = "l" THEN "r" ELSE "l"

-----------------------------------------------------------------------------
(* rbtree.h.                                                                *)
IsRed(t, n) == t.red[n]
IsBlack(t, n) == ~t.red[n]
NullOrBlack(t, n) == n = NIL \/ IsBlack(t, n)
SetRed(t, n, red) == [t EXCEPT !.red[n] = red]
SetParent(t, n, p) == IF n = NIL THEN t ELSE [t EXCEPT !.parent[n] = p]
SetChild(t, n, s, c) == [t EXCEPT !.child[s][n] = c]
SideOf(t, p, n) == IF t.child["l"][p] = n THEN "l" ELSE "r"

(* The pointer to n, in its parent p or in the root, becomes m.             *)
Relink(t, p, n, m) ==
    IF p = NIL THEN [t EXCEPT !.root = m] ELSE SetChild(t, p, SideOf(t, p, n), m)

rb_link_node(t, n, p, s) ==
    LET fresh == [t EXCEPT !.parent[n] = p, !.red[n] = TRUE,
                           !.child["l"][n] = NIL, !.child["r"][n] = NIL]
    IN  IF p = NIL THEN [fresh EXCEPT !.root = n] ELSE SetChild(fresh, p, s, n)

-----------------------------------------------------------------------------
(* Rotation to side s: the child on the other side takes the place of n.    *)
Rotate(t, n, s) ==
    LET up == t.child[Other(s)][n]
        inner == t.child[s][up]
        above == t.parent[n]
        lowered == SetChild(SetParent(SetChild(t, n, Other(s), inner), inner, n), up, s, n)
    IN  SetParent(Relink(SetParent(lowered, up, above), above, n, up), n, up)

Recolour(t, p, g) == SetRed(SetRed(t, p, FALSE), g, TRUE)

(* A red uncle passes the conflict up; else one or two rotations end it.    *)
RECURSIVE rb_insert_color(_, _)
InsertUnder(t, n, p, g, s) ==
    LET uncle == t.child[Other(s)][g]
    IN  IF uncle # NIL /\ IsRed(t, uncle)
        THEN rb_insert_color(SetRed(Recolour(t, p, g), uncle, FALSE), g)
        ELSE IF t.child[Other(s)][p] = n
        THEN Rotate(Recolour(Rotate(t, p, s), n, g), g, Other(s))
        ELSE Rotate(Recolour(t, p, g), g, Other(s))

rb_insert_color(t, n) ==
    LET p == t.parent[n]
    IN  IF p = NIL \/ IsBlack(t, p) THEN SetRed(t, t.root, FALSE)
        ELSE InsertUnder(t, n, p, t.parent[p], SideOf(t, t.parent[p], p))

rb_set_black(t, n) == IF n = NIL THEN t ELSE SetRed(t, n, FALSE)

(* The far nephew is red: a rotation at the parent gives the missing black. *)
LastTurn(t, p, s) ==
    LET other == t.child[Other(s)][p]
        colours == SetRed(SetRed(SetRed(t, other, IsRed(t, p)), p, FALSE),
                          t.child[Other(s)][other], FALSE)
        turned == Rotate(colours, p, s)
    IN  rb_set_black(turned, turned.root)

NearNephewUp(t, other, s) ==
    Rotate(SetRed(SetRed(t, t.child[s][other], FALSE), other, TRUE), other, Other(s))

(* The subtree n, on side s of p, lacks one black node.                     *)
RECURSIVE rb_erase_color(_, _, _)
EraseAt(t, p, s) ==
    LET other == t.child[Other(s)][p]
    IN  IF NullOrBlack(t, t.child["l"][other]) /\ NullOrBlack(t, t.child["r"][other])
        THEN rb_erase_color(SetRed(t, other, TRUE), p, t.parent[p])
        ELSE IF NullOrBlack(t, t.child[Other(s)][other])
        THEN LastTurn(NearNephewUp(t, other, s), p, s)
        ELSE LastTurn(t, p, s)

SiblingBlack(t, p, s) ==
    LET other == t.child[Other(s)][p]
    IN  IF IsRed(t, other) THEN Rotate(SetRed(SetRed(t, other, FALSE), p, TRUE), p, s) ELSE t

rb_erase_color(t, n, p) ==
    IF NullOrBlack(t, n) /\ n # t.root
    THEN EraseAt(SiblingBlack(t, p, SideOf(t, p, n)), p, SideOf(t, p, n))
    ELSE rb_set_black(t, n)

-----------------------------------------------------------------------------
(* Walks in the order of the keys.                                          *)
RECURSIVE Deepest(_, _, _)
Deepest(t, n, s) == IF t.child[s][n] = NIL THEN n ELSE Deepest(t, t.child[s][n], s)

rb_end(t, s) == IF t.root = NIL THEN NIL ELSE Deepest(t, t.root, s)
rb_first(t) == rb_end(t, "l")
rb_last(t) == rb_end(t, "r")

RECURSIVE Climb(_, _, _)
Climb(t, n, s) ==
    LET p == t.parent[n]
    IN  IF p # NIL /\ t.child[s][p] = n THEN Climb(t, p, s) ELSE p

rb_step(t, n, s) ==
    CASE t.parent[n] = n -> NIL
      [] t.child[s][n] # NIL -> Deepest(t, t.child[s][n], Other(s))
      [] OTHER -> Climb(t, n, s)
rb_next(t, n) == rb_step(t, n, "r")
rb_prev(t, n) == rb_step(t, n, "l")

-----------------------------------------------------------------------------
(* Erasure: a node with two children is replaced by its successor.          *)
Splice(t, n, child, p) == Relink(SetParent(t, child, p), p, n, child)

Unlinked(t, n, child) ==
    IF IsRed(t, n) THEN Splice(t, n, child, t.parent[n])
    ELSE rb_erase_color(Splice(t, n, child, t.parent[n]), child, t.parent[n])

(* m takes all of the links and the colour of n; those that pointed to n    *)
(* point to m.                                                              *)
Copied(t, n, m) == [t EXCEPT !.parent[m] = t.parent[n], !.red[m] = t.red[n],
                             !.child["l"][m] = t.child["l"][n],
                             !.child["r"][m] = t.child["r"][n]]
rb_replace_node(t, n, m) ==
    Copied(SetParent(SetParent(Relink(t, t.parent[n], n, m), t.child["l"][n], m),
                     t.child["r"][n], m), n, m)

BySuccessor(t, old, n) ==
    LET child == t.child["r"][n]
        p == IF t.parent[n] = old THEN n ELSE t.parent[n]
        freed == IF p = n THEN SetChild(t, old, "r", child)
                 ELSE SetChild(SetParent(t, child, p), p, "l", child)
        placed == SetParent(rb_replace_node(freed, old, n), child, p)
    IN  IF IsRed(t, n) THEN placed ELSE rb_erase_color(placed, child, p)

rb_erase(t, n) ==
    CASE t.child["l"][n] = NIL -> Unlinked(t, n, t.child["r"][n])
      [] t.child["r"][n] = NIL -> Unlinked(t, n, t.child["l"][n])
      [] OTHER -> BySuccessor(t, n, Deepest(t, t.child["r"][n], "l"))

-----------------------------------------------------------------------------
(* rb_search and rb_insert with a comparison of keys.                       *)
Direction(key, n) == IF key < KeyOf[n] THEN "l" ELSE "r"

RECURSIVE Find(_, _, _)
Find(t, n, key) ==
    IF n = NIL \/ key = KeyOf[n] THEN n ELSE Find(t, t.child[Direction(key, n)][n], key)
rb_search(t, key) == Find(t, t.root, key)

RECURSIVE Slot(_, _, _)                     \* the node under which the key belongs
Slot(t, n, key) ==
    LET below == t.child[Direction(key, n)][n]
    IN  IF below = NIL THEN n ELSE Slot(t, below, key)

rb_insert(t, n) ==
    LET p == IF t.root = NIL THEN NIL ELSE Slot(t, t.root, KeyOf[n])
        s == IF p = NIL THEN "l" ELSE Direction(KeyOf[n], p)
    IN  rb_insert_color(rb_link_node(t, n, p, s), n)

-----------------------------------------------------------------------------
(* The augmented value, and the callback that recomputes it for a node.     *)
SizeAt(t, n) == IF n = NIL THEN 0 ELSE t.size[n]
Recount(t, n) ==
    IF n = NIL THEN t
    ELSE [t EXCEPT !.size[n] = 1 + SizeAt(t, t.child["l"][n]) + SizeAt(t, t.child["r"][n])]

(* From n up to the root: each node, then the sibling of each.              *)
RECURSIVE rb_augment_path(_, _)
Sibling(t, p, n) ==
    IF n = t.child["l"][p] /\ t.child["r"][p] # NIL THEN t.child["r"][p] ELSE t.child["l"][p]
AugmentAbove(t, n) ==
    LET p == t.parent[n]
    IN  IF p = NIL THEN t ELSE rb_augment_path(Recount(t, Sibling(t, p, n)), p)
rb_augment_path(t, n) == AugmentAbove(Recount(t, n), n)

AugmentFrom(t, n) ==
    CASE t.child["l"][n] # NIL -> t.child["l"][n]
      [] t.child["r"][n] # NIL -> t.child["r"][n]
      [] OTHER -> n
rb_augment_insert(t, n) == rb_augment_path(t, AugmentFrom(t, n))

\* Mutant: the successor itself, which is about to move up.
FromSuccessor(t, n, next) == next

(* The deepest node of the path that is still there when n has gone.        *)
BesideSuccessor(t, n, next) ==
    CASE t.child["r"][next] # NIL -> t.child["r"][next]
      [] t.parent[next] # n -> t.parent[next]
      [] OTHER -> next
rb_augment_erase_begin(t, n) ==
    CASE t.child["l"][n] = NIL /\ t.child["r"][n] = NIL -> t.parent[n]
      [] t.child["r"][n] = NIL -> t.child["l"][n]
      [] t.child["l"][n] = NIL -> t.child["r"][n]
      [] OTHER -> BesideSuccessor(t, n, rb_next(t, n))
rb_augment_erase_end(t, n) == IF n = NIL THEN t ELSE rb_augment_path(t, n)

-----------------------------------------------------------------------------
(* The callers' steps.  A node outside the tree is cleared (its parent is   *)
(* itself).                                                                 *)
rb_init_node(t, n) == [t EXCEPT !.parent[n] = n, !.red[n] = TRUE, !.size[n] = 0,
                                !.child["l"][n] = NIL, !.child["r"][n] = NIL]

TreeInit ==
    /\ tree = [root |-> NIL, parent |-> [n \in TreeNodes |-> n],
               red |-> [n \in TreeNodes |-> TRUE], size |-> [n \in TreeNodes |-> 0],
               child |-> [s \in Sides |-> [n \in TreeNodes |-> NIL]]]
    /\ inserted = {}

(* An equal key leaves the tree as it was.                                  *)
InsertNode(n) ==
    /\ n \notin inserted
    /\ rb_search(tree, KeyOf[n]) = NIL
    /\ tree' = rb_augment_insert(rb_insert(tree, n), n)
    /\ inserted' = inserted \cup {n}

EraseNode(n) ==
    /\ n # NIL
    /\ LET deepest == rb_augment_erase_begin(tree, n)
       IN  tree' = rb_init_node(rb_augment_erase_end(rb_erase(tree, n), deepest), n)
    /\ inserted' = inserted \ {n}

ReplaceNode(n, m) ==
    /\ n \in inserted /\ m \notin inserted /\ KeyOf[n] = KeyOf[m]
    /\ tree' = rb_init_node([rb_replace_node(tree, n, m) EXCEPT !.size[m] = tree.size[n]], n)
    /\ inserted' = (inserted \ {n}) \cup {m}

TreeNext ==
    \/ \E n \in TreeNodes : InsertNode(n) \/ EraseNode(rb_search(tree, KeyOf[n]))
    \/ \E n, m \in TreeNodes : ReplaceNode(n, m)

-----------------------------------------------------------------------------
RECURSIVE InOrder(_, _, _)
InOrder(t, n, s) == IF n = NIL THEN <<>> ELSE <<n>> \o InOrder(t, rb_step(t, n, s), s)

(* A search finds the node of each key put in and of no other, and the      *)
(* walks forward and backward meet each node once, in the order of the keys.*)
HoldsInserted ==
    LET forward == InOrder(tree, rb_first(tree), "r")
        backward == InOrder(tree, rb_last(tree), "l")
        n == Len(forward)
    IN  /\ {forward[i] : i \in 1..n} = inserted
        /\ \A i \in 1..(n - 1) : KeyOf[forward[i]] < KeyOf[forward[i + 1]]
        /\ Len(backward) = n /\ \A i \in 1..n : backward[i] = forward[n + 1 - i]
        /\ \A k \in {KeyOf[m] : m \in TreeNodes} :
              LET found == rb_search(tree, k)
              IN  IF found = NIL THEN \A m \in inserted : KeyOf[m] # k
                  ELSE found \in inserted /\ KeyOf[found] = k

(* Black nodes on a path down from n, or -1 when two paths differ.          *)
RECURSIVE BlackHeight(_, _)
BothSides(t, n, l, r) == IF l = -1 \/ l # r THEN -1 ELSE l + (IF IsRed(t, n) THEN 0 ELSE 1)
BlackHeight(t, n) ==
    IF n = NIL THEN 0
    ELSE BothSides(t, n, BlackHeight(t, t.child["l"][n]), BlackHeight(t, t.child["r"][n]))

(* No path is twice as long as another: the root is black, a red node has   *)
(* no red child, and every path down has as many black nodes.               *)
RedBlack ==
    /\ tree.root # NIL => IsBlack(tree, tree.root) /\ tree.parent[tree.root] = NIL
    /\ \A n \in inserted, s \in Sides :
          LET c == tree.child[s][n]
          IN  c # NIL => tree.parent[c] = n /\ (IsRed(tree, n) => IsBlack(tree, c))
    /\ BlackHeight(tree, tree.root) # -1

(* The augmented value of a node counts its subtree.                        *)
SizesRight ==
    \A n \in inserted :
        tree.size[n] = 1 + SizeAt(tree, tree.child["l"][n]) + SizeAt(tree, tree.child["r"][n])

(* After any sequence of insertions, erasures and replacements the tree     *)
(* holds what was put in, stays balanced, and has the augmented values right*)
(* at every node, whatever rotations the changes made.                      *)
TreeIsOrderedSet == HoldsInserted /\ RedBlack /\ SizesRight
=============================================================================
