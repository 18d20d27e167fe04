----------------------------- MODULE HttpServer -----------------------------
(***************************************************************************)
(* httpserver.c: the life of the connections of one http server.  The code *)
(* is single-threaded; its steps are the callbacks libuv makes, and what   *)
(* interleaves is the callbacks of a connection (a read, the end of a      *)
(* write, the end of a close) and those of the other connections, which    *)
(* share the pools of contexts and of header nodes.                        *)
(*                                                                         *)
(* A read hands the parser buf->len bytes, the whole buffer, whatever      *)
(* nread is: the tail of a buffer that was not filled is parsed as well.   *)
(*                                                                         *)
(* libuv is external and modelled as documented: on_allocing and on_readed *)
(* are called back to back, a write completes once, in order, and pending  *)
(* writes are completed (cancelled) before the close callback.             *)
(***************************************************************************)
EXTENDS Naturals, Sequences, FiniteSets

CONSTANTS Ctx,            \* the contexts of the pool: connections at a time
          Hdr,            \* the header nodes of the pool
          MaxHdr,         \* bound: header nodes a read or a reply adds
          MaxReq,         \* bound: requests a peer sends on a connection
          Overlap,        \* a read may come before the last reply is written
          ShortFragments, \* a read may end inside a request and its buffer
          StaleTail       \* the unfilled tail may hold old bytes, else zeros

ASSUME ServerAssumption ==
    /\ MaxHdr \in Nat /\ MaxReq \in Nat
    /\ Overlap \in BOOLEAN /\ ShortFragments \in BOOLEAN /\ StaleTail \in BOOLEAN

VARIABLES conn,     \* the tcp handle of each context: free, open or closing
          ctx,      \* the httpctx_t of each context
          hdrOut,   \* the header nodes taken from the headers pool
          bufHeap,  \* the malloc'd uv_buf_t arrays, by context and reply
          wq,       \* libuv's write queue: the replies not yet written
          peer,     \* the other end of each connection
          crashed   \* a NULL pointer was dereferenced

vars == <<conn, ctx, hdrOut, bufHeap, wq, peer, crashed>>

\* A zeroed and initialised httpctx_t.  parser is the http_parser's place:
\* between messages ("start"), inside the peer's message ("mid"), inside one
\* that garbage started or entered ("lost"), or stopped by an error ("dead").
\* pstate is parser_state, resData the replies held in res.data, and wbufs
\* the reply whose uv_buf_t array res.write_bufs points to (0: NULL).
Blank == [parser |-> "start", pstate |-> "begin",
          reqHdrs |-> {}, reqBuf |-> FALSE,
          resHdrs |-> {}, resData |-> {}, wbufs |-> 0]

NewPeer == [inside |-> FALSE,  \* the peer has sent the first part of a request
            arrived |-> 0,     \* requests read to their last byte
            served |-> 0,      \* calls of serve_cb
            answered |-> 0,    \* replies written
            misled |-> FALSE,  \* history: since the last reply the parser was given
                               \* old bytes
            gone |-> FALSE]    \* the peer has closed its end

Init == /\ conn = [c \in Ctx |-> "free"]
        /\ ctx = [c \in Ctx |-> Blank]
        /\ hdrOut = {}
        /\ bufHeap = {}
        /\ wq = [c \in Ctx |-> <<>>]
        /\ peer = [c \in Ctx |-> NewPeer]
        /\ crashed = FALSE

(***************************************************************************)
(* Parsing.  Outcomes are pairs <<parser, pstate>>.                        *)
(***************************************************************************)

\* Bytes that are not the rest of the peer's message: they stop the parser,
\* leave it inside some message, or complete one; blank lines between
\* messages are skipped.
Garbage(p, ps) ==
    IF p = "dead" THEN {<<"dead", ps>>}
    ELSE ({"dead", "lost"} \X {ps, "part", "complete"})
         \cup {<<"start", "complete">>}
         \cup (IF p = "start" THEN {<<"start", ps>>} ELSE {})

\* What a read leaves behind its last byte: no tail at all, the zeros of fresh
\* memory, or what the page held before.
Tails == {"none", "zeros"} \cup (IF StaleTail THEN {"old"} ELSE {})

\* Mutant: an error becomes a parser_state of its own.
TailIsAnError(p, ps, tail) == {<<"dead", "error">>}

\* The tail of a buffer: zeros stop a parser that is between messages.
TailBytes(p, ps, tail) == IF p = "start" /\ tail = "zeros" THEN {<<"dead", ps>>}
                          ELSE Garbage(p, ps)

\* The peer's bytes: a whole request, its first part, or its rest.
Parse(p, ps, part) ==
    CASE p = "dead"                    -> {<<"dead", ps>>}
      [] p = "start" /\ part = "whole" -> {<<"start", "complete">>}
      [] p = "start" /\ part = "first" -> {"mid"} \X {ps, "part"}
      [] p = "mid" /\ part = "rest"    -> {<<"start", "complete">>}
      [] OTHER                         -> Garbage(p, ps)

\* A read parses the peer's bytes and, unless they fill the buffer, its tail.
ReadOutcomes(x, part, tail) ==
    LET own == Parse(x.parser, x.pstate, part)
    IN  IF tail = "none" THEN own ELSE UNION {TailBytes(o[1], o[2], tail) : o \in own}

(***************************************************************************)
(* The helpers of httpctx.h.                                               *)
(***************************************************************************)

\* Mutant: the request's header nodes are forgotten.
ReplyNodes(x) == x.resHdrs

\* httpctx_free_data puts the nodes of both lists back into the pool.
NodesOf(x) == x.reqHdrs \cup x.resHdrs

\* Mutant: parser_state survives.
ResetKeepsState(x) == [Blank EXCEPT !.pstate = x.pstate]

\* httpctx_reset: free_data, memset of req and res, init.
Reset(x) == Blank

\* Mutant: the reply's buffer is released as well.
ClearBoth(x) == [x EXCEPT !.reqBuf = FALSE, !.resData = {}]

\* dynmem_clear(&client->req.data)
ClearRequest(x) == [x EXCEPT !.reqBuf = FALSE]

\* Mutant: the array is not recorded in the context.
ReplyUnrecorded(x, k, nodes) ==
    [x EXCEPT !.resHdrs = @ \cup nodes, !.resData = @ \cup {k}, !.wbufs = 0]

\* The reply the callback composes in res, laid out in a new uv_buf_t array.
Reply(x, k, nodes) ==
    [x EXCEPT !.resHdrs = @ \cup nodes, !.resData = @ \cup {k}, !.wbufs = k]

FewNodes(S) == {n \in SUBSET S : Cardinality(n) <= MaxHdr}

(***************************************************************************)
(* The callbacks.                                                          *)
(***************************************************************************)

\* A context from the pool, zeroed; uv_accept succeeds or the handle closes.
on_new_connection(c) ==
    /\ conn[c] = "free"
    /\ \E s \in {"open", "closing"} : conn' = [conn EXCEPT ![c] = s]
    /\ ctx' = [ctx EXCEPT ![c] = Blank]
    /\ peer' = [peer EXCEPT ![c] = NewPeer]
    /\ UNCHANGED <<hdrOut, bufHeap, wq, crashed>>

\* The peer waits for its replies unless Overlap; it stops at MaxReq.
MayStart(c) == /\ ~peer[c].inside
               /\ peer[c].arrived < MaxReq
               /\ Overlap \/ (wq[c] = <<>> /\ peer[c].answered = peer[c].arrived)

CanSend(c, part, tail) ==
    /\ ~peer[c].gone
    /\ IF part = "rest" THEN peer[c].inside ELSE MayStart(c)
    /\ part = "first" => tail = "none" \/ ShortFragments

Sent(q, part, tail) ==
    [q EXCEPT !.inside = (part = "first"),
              !.arrived = IF part = "first" THEN @ ELSE @ + 1,
              !.misled = @ \/ tail = "old"]

\* serve_cb, write_http_resp and the release of the request: x is the context
\* after parsing, k the number of the reply.
Serve(c, x, nodes) ==
    LET k == peer[c].served + 1
    IN  /\ ctx' = [ctx EXCEPT ![c] = ClearRequest(Reply(x, k, nodes))]
        /\ bufHeap' = bufHeap \cup {<<c, k>>}
        /\ wq' = [wq EXCEPT ![c] = Append(@, k)]

on_readed(c, part, tail) ==
    /\ conn[c] = "open" /\ CanSend(c, part, tail)
    /\ \E o \in ReadOutcomes(ctx[c], part, tail),
          fields \in FewNodes(IF ctx[c].parser = "dead" THEN {} ELSE Hdr \ hdrOut) :
         LET x == [ctx[c] EXCEPT !.parser = o[1], !.pstate = o[2],
                                 !.reqHdrs = @ \cup fields, !.reqBuf = TRUE]
             q == Sent(peer[c], part, tail)
         IN  \/ /\ x.pstate # "complete"
                /\ ctx' = [ctx EXCEPT ![c] = x]
                /\ hdrOut' = hdrOut \cup fields
                /\ peer' = [peer EXCEPT ![c] = q]
                /\ UNCHANGED <<bufHeap, wq>>
             \/ /\ x.pstate = "complete"
                /\ \E nodes \in FewNodes((Hdr \ hdrOut) \ fields) :
                     /\ Serve(c, x, nodes)
                     /\ hdrOut' = hdrOut \cup fields \cup nodes
                /\ peer' = [peer EXCEPT ![c] = [q EXCEPT !.served = @ + 1]]
    /\ UNCHANGED <<conn, crashed>>

\* nread = 0: on_allocing has made sure of a page, on_readed returns at once.
on_readed_nothing(c) ==
    /\ conn[c] = "open" /\ ~ctx[c].reqBuf
    /\ ctx' = [ctx EXCEPT ![c].reqBuf = TRUE]
    /\ UNCHANGED <<conn, hdrOut, bufHeap, wq, peer, crashed>>

\* The peer closes its end, or the network fails.
PeerLeaves(c) ==
    /\ conn[c] = "open" /\ ~peer[c].gone
    /\ peer' = [peer EXCEPT ![c].gone = TRUE]
    /\ UNCHANGED <<conn, ctx, hdrOut, bufHeap, wq, crashed>>

\* Mutant: the error is taken for a read without data.
EofIgnored(c) ==
    /\ conn[c] = "open" /\ peer[c].gone
    /\ ctx' = [ctx EXCEPT ![c].reqBuf = TRUE]
    /\ UNCHANGED <<conn, hdrOut, bufHeap, wq, peer, crashed>>

\* nread < 0 (in a page of its own): uv_close, after which nothing is read.
on_readed_error(c) ==
    /\ conn[c] = "open" /\ peer[c].gone
    /\ conn' = [conn EXCEPT ![c] = "closing"]
    /\ ctx' = [ctx EXCEPT ![c].reqBuf = TRUE]
    /\ UNCHANGED <<hdrOut, bufHeap, wq, peer, crashed>>

\* Mutant: the array stays allocated.
BufsKept(c) == bufHeap

\* free(*pbufs)
BufsFreed(c) == bufHeap \ {<<c, ctx[c].wbufs>>}

\* The write at the head of the queue has ended, well or not.
on_writed(c) ==
    /\ wq[c] # <<>>
    /\ ctx[c].wbufs # 0
    /\ bufHeap' = BufsFreed(c)
    /\ hdrOut' = hdrOut \ NodesOf(ctx[c])
    /\ ctx' = [ctx EXCEPT ![c] = Reset(ctx[c])]
    /\ wq' = [wq EXCEPT ![c] = Tail(@)]
    /\ peer' = [peer EXCEPT ![c].answered = @ + 1, ![c].misled = FALSE]
    /\ UNCHANGED <<conn, crashed>>

\* log_write_status reads pbufs[0] although write_bufs is NULL.
log_write_status_fault(c) ==
    /\ wq[c] # <<>>
    /\ ctx[c].wbufs = 0
    /\ crashed' = TRUE
    /\ UNCHANGED <<conn, ctx, hdrOut, bufHeap, wq, peer>>

\* The close callback, after libuv has completed the pending writes.
on_closed(c) ==
    /\ conn[c] = "closing" /\ wq[c] = <<>>
    /\ bufHeap' = BufsFreed(c)
    /\ hdrOut' = hdrOut \ NodesOf(ctx[c])
    /\ ctx' = [ctx EXCEPT ![c].reqHdrs = {}, ![c].resHdrs = {},
                          ![c].reqBuf = FALSE, ![c].resData = {}]
    /\ conn' = [conn EXCEPT ![c] = "free"]
    /\ UNCHANGED <<wq, peer, crashed>>

Callback(c) ==
    \/ on_new_connection(c)
    \/ \E part \in {"whole", "first", "rest"}, tail \in Tails :
          on_readed(c, part, tail)
    \/ on_readed_nothing(c)
    \/ PeerLeaves(c)
    \/ on_readed_error(c)
    \/ on_writed(c)
    \/ log_write_status_fault(c)
    \/ on_closed(c)

Next == ~crashed /\ \E c \in Ctx : Callback(c)

Spec == Init /\ [][Next]_vars

\* libuv reports the end of the peer, of each write and of each close.
FairSpec == Spec /\ \A c \in Ctx : /\ WF_vars(on_readed_error(c) /\ ~crashed)
                                   /\ WF_vars(on_writed(c) /\ ~crashed)
                                   /\ WF_vars(on_closed(c) /\ ~crashed)

(***************************************************************************)
(* Properties.                                                             *)
(***************************************************************************)
HttpCtx == [parser : {"start", "mid", "lost", "dead"},
            pstate : {"begin", "part", "complete"},
            reqHdrs : SUBSET Hdr, reqBuf : BOOLEAN,
            resHdrs : SUBSET Hdr, resData : SUBSET Nat, wbufs : Nat]

Peer == [inside : BOOLEAN, arrived : Nat, served : Nat, answered : Nat,
         misled : BOOLEAN, gone : BOOLEAN]

TypeOK == /\ conn \in [Ctx -> {"free", "open", "closing"}]
          /\ ctx \in [Ctx -> HttpCtx]
          /\ hdrOut \subseteq Hdr
          /\ bufHeap \subseteq Ctx \X Nat
          /\ wq \in [Ctx -> Seq(Nat)]
          /\ peer \in [Ctx -> Peer]
          /\ crashed \in BOOLEAN

\* The data of a reply stays in res.data until libuv has written it, as the
\* comment at the end of on_readed says: the request's buffer is released
\* early, the reply's only when the write is complete.
WriteDataIntact ==
    \A c \in Ctx : \A i \in DOMAIN wq[c] : wq[c][i] \in ctx[c].resData

\* Every uv_buf_t array that was allocated is the one its context records, so
\* on_writed or on_closed frees it: no reply loses its array.
BufsOwned == bufHeap = {<<c, ctx[c].wbufs>> : c \in {d \in Ctx : ctx[d].wbufs # 0}}

\* on_writed always finds the array of the write that has ended.
NoCrash == ~crashed

\* Every header node that left the pool is in exactly one list of one context,
\* through resets, closes and reuse of contexts.
HeadersConserved ==
    /\ hdrOut = UNION {NodesOf(ctx[c]) : c \in Ctx}
    /\ \A c \in Ctx : ctx[c].reqHdrs \cap ctx[c].resHdrs = {}
    /\ \A c, d \in Ctx : c # d => NodesOf(ctx[c]) \cap NodesOf(ctx[d]) = {}

\* A context in the pool owns no node, no buffer and no unfinished write:
\* on_new_connection zeroes it without releasing anything.
FreedClean ==
    \A c \in Ctx : conn[c] = "free" =>
        /\ NodesOf(ctx[c]) = {} /\ ~ctx[c].reqBuf /\ ctx[c].resData = {}
        /\ wq[c] = <<>>
        /\ \A k \in 1 .. peer[c].served : <<c, k>> \notin bufHeap

\* The arrays of a connection's replies live exactly as long as the context
\* records them, also when its peer leaves while replies are being written.
BuffersReturned == BufsOwned /\ FreedClean

\* The callback runs only for requests that were received to their last byte
\* (httpserver.h: each time a request has been received and parsed).
ServedReceived == \A c \in Ctx : peer[c].served <= peer[c].arrived

\* The reset after a write never throws away the first part of a request.
NoRequestDropped ==
    [][\A c \in Ctx : wq'[c] # wq[c] /\ Len(wq'[c]) < Len(wq[c]) /\ conn[c] = "open"
          => ~peer[c].inside]_vars

\* The context of a peer that has left returns to the pool.
ContextReturned == \A c \in Ctx : (conn[c] = "open" /\ peer[c].gone) ~> conn[c] = "free"

\* A request that was received is answered, unless its peer leaves or the
\* parser was given old bytes with it: on_readed parses the whole buffer, and
\* what a page held before, which comes from plain malloc, may swallow the
\* request.  (Zeros behind a request do not; zeros inside one may, which
\* ShortFragments allows.)
Answered ==
    \A c \in Ctx : \A n \in 1 .. MaxReq :
        (conn[c] = "open" /\ peer[c].arrived = n) ~>
            (peer[c].answered >= n \/ peer[c].misled \/ peer[c].gone \/ conn[c] # "open")

HttpConnOf == INSTANCE HttpConn WITH Conns    <- Ctx,
                                     phase    <- conn,
                                     busy     <- [c \in Ctx |-> wq[c] # <<>>],
                                     received <- [c \in Ctx |-> peer[c].arrived],
                                     replied  <- [c \in Ctx |-> peer[c].answered]

\* The callbacks of httpserver.c implement the request-reply connection.
OneReplyAtATime == HttpConnOf!CSpec
=============================================================================
