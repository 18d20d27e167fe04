----------------------------- MODULE ServerExit -----------------------------
(* httpserver.c: http_server, and the exit function that gives the pools of *)
(* all servers back.  A server, its pool and its node in the list of pools  *)
(* are the number of the call that made them.                               *)
EXTENDS Integers, FiniteSets, Sequences, SequencesExt, Functions

CONSTANT MaxServers  \* bound: calls of http_server with an address

ASSUME ServersAssumption == MaxServers \in Nat

VARIABLES
    pools,           \* the list of pools, the handlers atexit knows, the blocks in use
    ending           \* the walk of the exit function

exitVars == <<pools, ending>>

ExitInit ==
    /\ pools = [list |-> <<>>, handlers |-> 0, live |-> {}, listening |-> {}]
    /\ ending = [state |-> "no", at |-> 0, freed |-> <<>>]

Calls == Len(pools.list)

\* Mutant: the pool is put at the head of the list.
ListedFirst(i) == <<i>> \o pools.list

ListedLast(i) == Append(pools.list, i)

(* Nothing sets the flag that guards atexit.  The pool is made and listed   *)
(* before libuv is asked to listen, which may fail.                         *)
http_server ==
    /\ ending.state = "no" /\ Calls < MaxServers
    /\ \E listens \in BOOLEAN :
          pools' = [list |-> ListedLast(Calls + 1), handlers |-> pools.handlers + 1,
                    live |-> pools.live \cup {Calls + 1},
                    listening |-> pools.listening \cup (IF listens THEN {Calls + 1} ELSE {})]
    /\ UNCHANGED ending

(* exit calls each handler that was registered; a walk begins at the last   *)
(* node.                                                                    *)
Exit ==
    /\ ending.state \in {"no", "walked"} /\ pools.handlers > 0
    /\ ending' = [ending EXCEPT !.state = "walking", !.at = Calls]
    /\ pools' = [pools EXCEPT !.handlers = @ - 1]

Here == pools.list[ending.at]

(* The pool of the node is freed, then the node, and the link is read from  *)
(* the freed node.  It may have been written over by then.                  *)
FreePool ==
    /\ ending.state = "walking" /\ ending.at # 0 /\ Here \in pools.live
    /\ pools' = [pools EXCEPT !.live = @ \ {Here}]
    /\ \E state \in {"walking", "astray"} :
          ending' = [state |-> state, at |-> ending.at - 1, freed |-> Append(ending.freed, Here)]

(* The node was freed by an earlier walk, and so was its pool.              *)
FreeAgain ==
    /\ ending.state = "walking" /\ ending.at # 0 /\ Here \notin pools.live
    /\ ending' = [ending EXCEPT !.state = "astray", !.freed = Append(@, Here)]
    /\ UNCHANGED pools

WalkEnds ==
    /\ ending.state = "walking" /\ ending.at = 0
    /\ ending' = [ending EXCEPT !.state = "walked"]
    /\ UNCHANGED pools

on_httpctx_pool_destroy == FreePool \/ FreeAgain \/ WalkEnds

ExitNext == http_server \/ Exit \/ on_httpctx_pool_destroy

ExitSpec == ExitInit /\ [][ExitNext]_exitVars

-----------------------------------------------------------------------------
NewestFirst == Reverse([i \in 1 .. Calls |-> i])

(* One handler has been called, and every link it read was whole.           *)
FirstWalkWhole == ending.state \in {"walking", "walked"} /\ pools.handlers = Calls - 1

(* While servers run every pool that was made is in use, that of a server   *)
(* whose port could not be had too.  When the process ends, the first walk  *)
(* of the exit function frees them the newest first, each once, and leaves  *)
(* none, as long as it finds whole what it reads from freed nodes.          *)
PoolsGivenBack ==
    /\ ending.state = "no" => pools.live = ToSet(pools.list)
    /\ FirstWalkWhole => /\ IsPrefix(ending.freed, NewestFirst)
                         /\ pools.live = ToSet(pools.list) \ ToSet(ending.freed)
                         /\ ending.state = "walked" => pools.live = {}

(* httpserver.c:318 has the exit function registered at the first call of   *)
(* http_server, so that no pool is freed twice, however many servers run.   *)
PoolsFreedOnce == IsInjective(ending.freed)
=============================================================================
