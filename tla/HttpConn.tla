------------------------------ MODULE HttpConn ------------------------------
(***************************************************************************)
(* What http_server promises on each connection to a peer that waits for a *)
(* reply before it sends its next request: at most one reply is under way, *)
(* a reply is written for a request that was received and only for that    *)
(* one, and a connection is gone only when nothing is under way.           *)
(***************************************************************************)
EXTENDS Naturals

CONSTANT Conns

VARIABLES phase,      \* "free", "open" or "closing"
          busy,       \* a reply is being written
          received,   \* requests received
          replied     \* requests whose reply was written

connVars == <<phase, busy, received, replied>>

CInit == /\ phase = [c \in Conns |-> "free"]
         /\ busy = [c \in Conns |-> FALSE]
         /\ received = [c \in Conns |-> 0]
         /\ replied = [c \in Conns |-> 0]

Connect(c) == /\ phase[c] = "free"
              /\ \E p \in {"open", "closing"} : phase' = [phase EXCEPT ![c] = p]
              /\ received' = [received EXCEPT ![c] = 0]
              /\ replied' = [replied EXCEPT ![c] = 0]
              /\ UNCHANGED busy

Receive(c) == /\ phase[c] = "open" /\ ~busy[c]
              /\ received[c] = replied[c]
              /\ received' = [received EXCEPT ![c] = @ + 1]
              /\ \E b \in BOOLEAN : busy' = [busy EXCEPT ![c] = b]
              /\ UNCHANGED <<phase, replied>>

Written(c) == /\ busy[c]
              /\ busy' = [busy EXCEPT ![c] = FALSE]
              /\ replied' = [replied EXCEPT ![c] = received[c]]
              /\ UNCHANGED <<phase, received>>

Leave(c) == /\ phase[c] = "open"
            /\ phase' = [phase EXCEPT ![c] = "closing"]
            /\ UNCHANGED <<busy, received, replied>>

Close(c) == /\ phase[c] = "closing" /\ ~busy[c]
            /\ phase' = [phase EXCEPT ![c] = "free"]
            /\ UNCHANGED <<busy, received, replied>>

CNext == \E c \in Conns : Connect(c) \/ Receive(c) \/ Written(c) \/ Leave(c) \/ Close(c)

CSpec == CInit /\ [][CNext]_connVars
=============================================================================
