------------------------------ MODULE FlatBuf ------------------------------
(***************************************************************************)
(* What dynmem.h promises: an array of bytes that grows by itself.  bytes, *)
(* a function on 0 .. capacity - 1, is the whole capacity and its first    *)
(* used bytes are the content; call is the last call with its arguments.   *)
(* A call changes only the bytes it names; new capacity holds anything.    *)
(***************************************************************************)
EXTENDS Integers, Sequences

VARIABLES bytes, used, call

flatVars == <<bytes, used, call>>

Cap == DOMAIN bytes

\* Bytes outside of S stay, as far as the new capacity reaches.
KeptExcept(S) == \A i \in (Cap \cap Cap') \ S : bytes'[i] = bytes[i]

Grown == Cap \subseteq Cap' /\ KeptExcept({})

FlatInit == Cap = {} /\ used = 0 /\ call = [op |-> "init"]

\* The data is stored from off on, whatever the page boundaries.
Write == LET off == call'.off
             s == call'.data
             S == {off + i - 1 : i \in 1 .. Len(s)}
         IN  /\ call'.op = "write"
             /\ Cap \subseteq Cap' /\ S \subseteq Cap'
             /\ \A i \in 1 .. Len(s) : bytes'[off + i - 1] = s[i]
             /\ KeptExcept(S)
             /\ used' = IF used < off + Len(s) THEN off + Len(s) ELSE used

\* The length is set; the capacity follows it.
SetLen == /\ call'.op = "set_len"
          /\ Grown
          /\ used' = call'.n /\ 0 .. used' - 1 \subseteq Cap'

\* The capacity is set: upwards, or down to no less than n and the length.
SetCap == /\ call'.op = "set_cap"
          /\ KeptExcept({})
          /\ 0 .. call'.n - 1 \subseteq Cap'
          /\ Cap \subseteq Cap' \/ Cap' \subseteq Cap
          /\ used' <= used /\ 0 .. used' - 1 \subseteq Cap'
          /\ used' < used => Cap' = 0 .. used' - 1

\* The length moves up to a place with room for the next byte.
Align == /\ call'.op = "align"
         /\ Grown
         /\ used <= used' /\ used' \in Cap'

\* Room is made for the next byte.
LastPage == /\ call'.op = "lastpage"
            /\ Grown
            /\ used' = used /\ used \in Cap'

\* Everything is released.
Clear == call'.op = "clear" /\ Cap' = {} /\ used' = 0

\* A copy has the content, whatever its capacity.
Copy == /\ call'.op = "copy"
        /\ used' = used /\ 0 .. used - 1 \subseteq Cap'
        /\ \A i \in 0 .. used - 1 : bytes'[i] = bytes[i]

FlatNext == Write \/ SetLen \/ SetCap \/ Align \/ LastPage \/ Clear \/ Copy

FlatSpec == FlatInit /\ [][FlatNext]_flatVars
=============================================================================
