------------------------------- MODULE PoolAbs -------------------------------
(***************************************************************************)
(* What pool.h promises: an allocator that hands out a fixed block's slots *)
(* as long as one is free and system memory only after that, and never the *)
(* same object twice while it is in use.                                   *)
(***************************************************************************)

CONSTANTS Slots,    \* the objects inside the preallocated block
          Others    \* the objects the system allocator may hand out

VARIABLES open,     \* the pool exists
          live      \* the objects in use

absVars == <<open, live>>

AInit == open = FALSE /\ live = {}

ACreate == ~open /\ open' = TRUE /\ UNCHANGED live

AGet == /\ open
        /\ \E a \in IF Slots \subseteq live THEN Others \ live ELSE Slots \ live :
              live' = live \cup {a}
        /\ UNCHANGED open

APut == /\ open
        /\ \E a \in live : live' = live \ {a}
        /\ UNCHANGED open

ADestroy == open /\ open' = FALSE /\ live' = {}

ANext == ACreate \/ AGet \/ APut \/ ADestroy

ASpec == AInit /\ [][ANext]_absVars
=============================================================================
