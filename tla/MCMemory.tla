------------------------------ MODULE MCMemory ------------------------------
(* The two keepers of the server's memory and the memory debugger, each in  *)
(* behaviours of its own.                                                   *)
(*                                                                         *)
(* Pool: five objects asked for and two-bit words: three words, six slots  *)
(* of three bytes behind a three-byte bitmap.  malloc can return two       *)
(* addresses, one of them right behind the block.                          *)
(*                                                                         *)
(* DynMem: pages of two bytes, of which a write of four crosses up to      *)
(* three.                                                                  *)
(*                                                                         *)
(* Memwatch: three places, and one damage or none.                         *)
(*                                                                         *)
(* The last call, and what it said and returned, is never read by the next *)
(* one: states that differ in it alone are one.                            *)
EXTENDS Pool, DynMem, Memwatch

VARIABLE part

MCDynAddrs == {-9, 21}
MCByte == {0, 1}

MCBudgets == {[calls |-> 4, side |-> 0, hits |-> 0], [calls |-> 3, side |-> 1, hits |-> 1],
              [calls |-> 2, side |-> 2, hits |-> 0]}
MemIdle ==
    /\ mw = Started(FALSE) /\ owned = {} /\ lost = 0 /\ hits = {}
    /\ left = [calls |-> 0, side |-> 0, hits |-> 0]
    /\ lastCall = [op |-> "none", p |-> Null, size |-> 0]

MCInit ==
    /\ part \in {"pool", "buffer", "debugger"} /\ PoolInit /\ Init
    /\ IF part = "debugger" THEN MemInit ELSE MemIdle

MCNext ==
    \/ part = "pool" /\ PoolNext /\ UNCHANGED <<part, vars, memvars>>
    \/ part = "buffer" /\ Next /\ UNCHANGED <<part, poolVars, memvars>>
    \/ part = "debugger" /\ MemNext /\ UNCHANGED <<part, poolVars, vars>>

MCSpec == MCInit /\ [][MCNext]_<<part, poolVars, vars, memvars>>

WithoutCall == <<part, poolVars, pages, len, cap,
                 [mw EXCEPT !.said = {}, !.ret = Null], owned, lost, hits, left>>
=============================================================================
