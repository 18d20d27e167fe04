-------------------------- MODULE HttpServerProofs --------------------------
(***************************************************************************)
(* What httpserver.c guarantees for any number of contexts, header nodes   *)
(* and requests.  The header nodes are conserved whatever the peers do; the *)
(* rest holds for peers that wait for their replies and whose requests end *)
(* in the read that brings their last byte or fill the buffers before it.  *)
(***************************************************************************)
EXTENDS ServerExit, HttpServer, TLAPS

Places == {"start", "mid", "lost", "dead"}
States == {"begin", "part", "complete"}

\* Peers as the serial runs have them.
Serial == ~Overlap /\ ~ShortFragments

(***************************************************************************)
(* Parsing.                                                                *)
(***************************************************************************)

\* Where old bytes of a page may leave the parser.
LEMMA GarbageType ==
    ASSUME NEW p \in Places, NEW ps \in States
    PROVE  Garbage(p, ps) \subseteq Places \X States
  BY DEF Garbage, Places, States

\* Where the bytes behind those of a read may leave the parser.
LEMMA TailType ==
    ASSUME NEW p \in Places, NEW ps \in States, NEW tail
    PROVE  TailBytes(p, ps, tail) \subseteq Places \X States
  BY GarbageType DEF TailBytes, Places, States

\* Where the bytes of a read leave the parser.
LEMMA ParseType ==
    ASSUME NEW p \in Places, NEW ps \in States, NEW part
    PROVE  Parse(p, ps, part) \subseteq Places \X States
  BY GarbageType DEF Parse, Places, States

\* Whatever is read, the parser stays in one of its places.
LEMMA ReadType ==
    ASSUME NEW x \in HttpCtx, NEW part, NEW tail,
           NEW o \in ReadOutcomes(x, part, tail)
    PROVE  /\ o = <<o[1], o[2]>>
           /\ o[1] \in Places
           /\ o[2] \in States
<1>1. x.parser \in Places /\ x.pstate \in States
  BY DEF HttpCtx, Places, States
<1> DEFINE own == Parse(x.parser, x.pstate, part)
<1>2. own \subseteq Places \X States
  BY <1>1, ParseType
<1>3. o \in own \/ \E q \in own : o \in TailBytes(q[1], q[2], tail)
  BY DEF ReadOutcomes
<1>4. o \in Places \X States
  BY <1>2, <1>3, TailType
<1> QED
  BY <1>4

\* A first part that fills its buffer leaves the parser inside it.
LEMMA ReadFirst ==
    ASSUME NEW x, x.parser = "start", NEW o \in ReadOutcomes(x, "first", "none")
    PROVE  o[1] = "mid" /\ o[2] \in {x.pstate, "part"}
  BY DEF ReadOutcomes, Parse

(***************************************************************************)
(* Types.                                                                  *)
(***************************************************************************)
LEMMA BlankType == Blank \in HttpCtx
  BY DEF Blank, HttpCtx

\* The type invariant holds at the start.
LEMMA InitType == Init => TypeOK
<1> SUFFICES ASSUME Init PROVE TypeOK
  OBVIOUS
<1>1. ctx \in [Ctx -> HttpCtx]
  BY BlankType DEF Init
<1>2. peer \in [Ctx -> Peer]
  BY DEF Init, NewPeer, Peer
<1>3. crashed \in BOOLEAN
  BY Zenon DEF Init
<1> QED
  BY <1>1, <1>2, <1>3 DEF Init, TypeOK

\* The context after a read, before the reply.
AfterRead(x, o, fields) == [x EXCEPT !.parser = o[1], !.pstate = o[2],
                                     !.reqHdrs = @ \cup fields, !.reqBuf = TRUE]

\* A context after a read is a context.
LEMMA AfterReadType ==
    ASSUME NEW x \in HttpCtx, NEW o, o[1] \in Places, o[2] \in States,
           NEW fields \in SUBSET Hdr
    PROVE  /\ AfterRead(x, o, fields) \in HttpCtx
           /\ AfterRead(x, o, fields).pstate = o[2]
           /\ AfterRead(x, o, fields).parser = o[1]
           /\ AfterRead(x, o, fields).reqHdrs = x.reqHdrs \cup fields
           /\ AfterRead(x, o, fields).resHdrs = x.resHdrs
           /\ AfterRead(x, o, fields).resData = x.resData
           /\ AfterRead(x, o, fields).wbufs = x.wbufs
  BY DEF AfterRead, HttpCtx, Places, States

\* A context after its reply is composed is a context.
LEMMA ReplyType ==
    ASSUME NEW x \in HttpCtx, NEW k \in Nat, NEW nodes \in SUBSET Hdr
    PROVE  /\ ClearRequest(Reply(x, k, nodes)) \in HttpCtx
           /\ ClearRequest(Reply(x, k, nodes)).reqHdrs = x.reqHdrs
           /\ ClearRequest(Reply(x, k, nodes)).resHdrs = x.resHdrs \cup nodes
           /\ ClearRequest(Reply(x, k, nodes)).resData = x.resData \cup {k}
           /\ ClearRequest(Reply(x, k, nodes)).wbufs = k
  BY DEF Reply, ClearRequest, HttpCtx

\* The effect of a read, with its two outcomes.
ReadEffect(c, part, tail, o, fields) ==
    LET x == AfterRead(ctx[c], o, fields)
        q == Sent(peer[c], part, tail)
    IN  \/ /\ o[2] # "complete"
           /\ ctx' = [ctx EXCEPT ![c] = x]
           /\ hdrOut' = hdrOut \cup fields
           /\ peer' = [peer EXCEPT ![c] = q]
           /\ UNCHANGED <<bufHeap, wq>>
        \/ /\ o[2] = "complete"
           /\ \E nodes \in SUBSET ((Hdr \ hdrOut) \ fields) :
                /\ Serve(c, x, nodes)
                /\ hdrOut' = hdrOut \cup fields \cup nodes
           /\ peer' = [peer EXCEPT ![c] = [q EXCEPT !.served = @ + 1]]

\* A read either fails, or parses and may call the callback.
LEMMA ReadCases ==
    ASSUME TypeOK, NEW c \in Ctx, NEW part, NEW tail, on_readed(c, part, tail)
    PROVE  /\ conn[c] = "open" /\ CanSend(c, part, tail)
           /\ UNCHANGED <<conn, crashed>>
           /\ \E o \in ReadOutcomes(ctx[c], part, tail), fields \in SUBSET (Hdr \ hdrOut) :
                 /\ o[1] \in Places /\ o[2] \in States
                 /\ ReadEffect(c, part, tail, o, fields)
<1>1. conn[c] = "open" /\ CanSend(c, part, tail) /\ UNCHANGED <<conn, crashed>>
  BY DEF on_readed
<1>2. ctx[c] \in HttpCtx
  BY DEF TypeOK
<1>3. PICK o \in ReadOutcomes(ctx[c], part, tail),
           fields \in FewNodes(IF ctx[c].parser = "dead" THEN {} ELSE Hdr \ hdrOut) :
         LET x == AfterRead(ctx[c], o, fields)
             q == Sent(peer[c], part, tail)
         IN  \/ /\ x.pstate # "complete"
                /\ ctx' = [ctx EXCEPT ![c] = x]
                /\ hdrOut' = hdrOut \cup fields
                /\ peer' = [peer EXCEPT ![c] = q]
                /\ UNCHANGED <<bufHeap, wq>>
             \/ /\ x.pstate = "complete"
                /\ \E nodes \in FewNodes((Hdr \ hdrOut) \ fields) :
                     /\ Serve(c, x, nodes)
                     /\ hdrOut' = hdrOut \cup fields \cup nodes
                /\ peer' = [peer EXCEPT ![c] = [q EXCEPT !.served = @ + 1]]
  BY DEF on_readed, AfterRead
<1>4. fields \in SUBSET (Hdr \ hdrOut)
  BY DEF FewNodes
<1>5. o[1] \in Places /\ o[2] \in States
  BY <1>2, ReadType
<1>6. AfterRead(ctx[c], o, fields).pstate = o[2]
  BY <1>2, <1>4, <1>5, AfterReadType
<1>7. \A nodes \in FewNodes((Hdr \ hdrOut) \ fields) : nodes \in SUBSET ((Hdr \ hdrOut) \ fields)
  BY DEF FewNodes
<1>8. ReadEffect(c, part, tail, o, fields)
  BY <1>3, <1>6, <1>7 DEF ReadEffect
<1> QED
  BY <1>1, <1>4, <1>5, <1>8

\* What a peer has sent after one more part of a request.
LEMMA SentType ==
    \A q \in Peer : \A part, tail :
       /\ Sent(q, part, tail) \in Peer
       /\ [Sent(q, part, tail) EXCEPT !.served = @ + 1] \in Peer
<1> SUFFICES ASSUME NEW q \in Peer, NEW part, NEW tail
             PROVE  /\ Sent(q, part, tail) \in Peer
                    /\ [Sent(q, part, tail) EXCEPT !.served = @ + 1] \in Peer
  OBVIOUS
<1> DEFINE b == part = "first"
           n == IF part = "first" THEN q.arrived ELSE q.arrived + 1
           m == q.misled \/ tail = "old"
<1>1. b \in BOOLEAN /\ n \in Nat /\ m \in BOOLEAN
  BY DEF Peer
<1>2. Sent(q, part, tail) = [q EXCEPT !.inside = b, !.arrived = n, !.misled = m]
  BY DEF Sent
<1> HIDE DEF b, n, m
<1>3. \A r \in Peer : [r EXCEPT !.served = @ + 1] \in Peer
  BY DEF Peer
<1>4. [q EXCEPT !.inside = b, !.arrived = n, !.misled = m] \in Peer
  BY <1>1 DEF Peer
<1> QED
  BY <1>2, <1>3, <1>4

LEMMA SentFields ==
    \A q \in Peer : \A part, tail :
       /\ Sent(q, part, tail).served = q.served
       /\ Sent(q, part, tail).answered = q.answered
       /\ Sent(q, part, tail).inside = (part = "first")
       /\ part = "first" => Sent(q, part, tail).arrived = q.arrived
       /\ part # "first" => Sent(q, part, tail).arrived = q.arrived + 1
BY DEF Sent, Peer

\* Every step keeps the type invariant.
LEMMA NextType == TypeOK /\ [Next]_vars => TypeOK'
<1> SUFFICES ASSUME TypeOK, [Next]_vars PROVE TypeOK'
  OBVIOUS
<1>1. ASSUME NEW c \in Ctx, NEW part, NEW tail, on_readed(c, part, tail)
      PROVE  TypeOK'
  <2>1. PICK o \in ReadOutcomes(ctx[c], part, tail), fields \in SUBSET (Hdr \ hdrOut) :
          /\ o[1] \in Places /\ o[2] \in States
          /\ ReadEffect(c, part, tail, o, fields)
    BY <1>1, ReadCases
  <2>2. conn' = conn /\ crashed' = crashed
    BY <1>1, ReadCases
  <2> DEFINE x == AfterRead(ctx[c], o, fields)
             q == Sent(peer[c], part, tail)
  <2>3. x \in HttpCtx
    BY <2>1, AfterReadType DEF TypeOK
  <2>4. q \in Peer /\ [q EXCEPT !.served = @ + 1] \in Peer
    BY SentType DEF TypeOK
  <2>5. CASE o[2] # "complete"
    <3>1. /\ ctx' = [ctx EXCEPT ![c] = x]
          /\ hdrOut' = hdrOut \cup fields
          /\ peer' = [peer EXCEPT ![c] = q]
          /\ UNCHANGED <<bufHeap, wq>>
      BY <2>1, <2>5 DEF ReadEffect
    <3> HIDE DEF x, q
    <3> QED
      BY <2>2, <2>3, <2>4, <3>1 DEF TypeOK
  <2>6. CASE o[2] = "complete"
    <3>1. PICK nodes \in SUBSET ((Hdr \ hdrOut) \ fields) :
            /\ Serve(c, x, nodes)
            /\ hdrOut' = hdrOut \cup fields \cup nodes
      BY <2>1, <2>6 DEF ReadEffect
    <3>2. peer' = [peer EXCEPT ![c] = [q EXCEPT !.served = @ + 1]]
      BY <2>1, <2>6 DEF ReadEffect
    <3> DEFINE k == peer[c].served + 1
               y == ClearRequest(Reply(x, k, nodes))
    <3>3. k \in Nat
      BY DEF TypeOK, Peer
    <3>4. y \in HttpCtx
      BY <2>3, <3>3, ReplyType
    <3>5. /\ ctx' = [ctx EXCEPT ![c] = y]
          /\ bufHeap' = bufHeap \cup {<<c, k>>}
          /\ wq' = [wq EXCEPT ![c] = Append(@, k)]
      BY <3>1 DEF Serve
    <3> HIDE DEF x, q, k, y
    <3>6. wq' \in [Ctx -> Seq(Nat)]
      BY <3>3, <3>5 DEF TypeOK
    <3>7. bufHeap' \subseteq Ctx \X Nat
      BY <3>3, <3>5 DEF TypeOK
    <3> QED
      BY <2>2, <2>4, <3>1, <3>2, <3>4, <3>5, <3>6, <3>7 DEF TypeOK
  <2> QED
    BY <2>5, <2>6
<1>2. ASSUME NEW c \in Ctx, on_new_connection(c) PROVE TypeOK'
  <2>1. NewPeer \in Peer
    BY DEF NewPeer, Peer
  <2> QED
    BY <1>2, <2>1, BlankType DEF on_new_connection, TypeOK
<1>3. ASSUME NEW c \in Ctx, on_readed_nothing(c) PROVE TypeOK'
  BY <1>3 DEF on_readed_nothing, TypeOK, HttpCtx
<1>4. ASSUME NEW c \in Ctx, PeerLeaves(c) PROVE TypeOK'
  BY <1>4 DEF PeerLeaves, TypeOK, Peer
<1>5. ASSUME NEW c \in Ctx, on_readed_error(c) PROVE TypeOK'
  BY <1>5 DEF on_readed_error, TypeOK, HttpCtx
<1>6. ASSUME NEW c \in Ctx, on_writed(c) PROVE TypeOK'
  <2>1. peer' \in [Ctx -> Peer]
    <3>1. peer' = [peer EXCEPT ![c].answered = @ + 1, ![c].misled = FALSE]
      BY <1>6 DEF on_writed
    <3>2. [peer[c] EXCEPT !.answered = @ + 1, !.misled = FALSE] \in Peer
      <4>1. peer[c] \in Peer
        BY DEF TypeOK
      <4>2. [peer[c] EXCEPT !.answered = @ + 1] \in Peer
        BY <4>1 DEF Peer
      <4>3. \A r \in Peer : [r EXCEPT !.misled = FALSE] \in Peer
        BY DEF Peer
      <4> QED
        BY <4>2, <4>3
    <3> QED
      BY <3>1, <3>2 DEF TypeOK
  <2>2. wq' \in [Ctx -> Seq(Nat)]
    BY <1>6 DEF on_writed, TypeOK
  <2> QED
    BY <1>6, <2>1, <2>2, BlankType DEF on_writed, TypeOK, Reset, BufsFreed
<1>7. ASSUME NEW c \in Ctx, log_write_status_fault(c) PROVE TypeOK'
  <2>1. crashed' \in BOOLEAN
    BY <1>7, Zenon DEF log_write_status_fault
  <2> QED
    BY <1>7, <2>1 DEF log_write_status_fault, TypeOK
<1>8. ASSUME NEW c \in Ctx, on_closed(c) PROVE TypeOK'
  <2>1. ctx[c] \in HttpCtx
    BY DEF TypeOK
  <2>2. [ctx[c] EXCEPT !.reqHdrs = {}, !.resHdrs = {}, !.reqBuf = FALSE, !.resData = {}]
           \in HttpCtx
    BY <2>1 DEF HttpCtx
  <2>3. ctx' = [ctx EXCEPT ![c] = [ctx[c] EXCEPT !.reqHdrs = {}, !.resHdrs = {},
                                                 !.reqBuf = FALSE, !.resData = {}]]
    BY <1>8 DEF on_closed
  <2> QED
    BY <1>8, <2>2, <2>3 DEF on_closed, TypeOK, BufsFreed
<1>9. CASE UNCHANGED vars
  BY <1>9 DEF vars, TypeOK
<1> QED
  BY <1>1, <1>2, <1>3, <1>4, <1>5, <1>6, <1>7, <1>8, <1>9 DEF Next, Callback

\* Every variable keeps its type, whatever peers send.
THEOREM ServerTypeCorrect == Spec => []TypeOK
  BY InitType, NextType, PTL DEF Spec

(***************************************************************************)
(* Header nodes, for any peers.  on_new_connection zeroes a context, so    *)
(* conservation needs that a free context owns none.                       *)
(***************************************************************************)
FreeOwnsNone == \A c \in Ctx : conn[c] = "free" => NodesOf(ctx[c]) = {}

NodesInv == TypeOK /\ HeadersConserved /\ FreeOwnsNone

\* One context changes its nodes by the nodes that enter or leave hdrOut.
LEMMA NodesStep ==
    ASSUME TypeOK, TypeOK', HeadersConserved, NEW c \in Ctx,
           \A d \in Ctx \ {c} : ctx'[d] = ctx[d],
           ctx'[c].reqHdrs \cap ctx'[c].resHdrs = {},
           \/ \E N \in SUBSET Hdr :
                /\ N \cap hdrOut = {}
                /\ hdrOut' = hdrOut \cup N
                /\ NodesOf(ctx'[c]) = NodesOf(ctx[c]) \cup N
           \/ /\ hdrOut' = hdrOut \ NodesOf(ctx[c])
              /\ NodesOf(ctx'[c]) = {}
    PROVE  HeadersConserved'
<1>1. \A d \in Ctx : NodesOf(ctx[d]) \subseteq hdrOut
  BY DEF HeadersConserved
<1>2. \A d \in Ctx \ {c} : NodesOf(ctx'[d]) = NodesOf(ctx[d])
  OBVIOUS
<1>3. \A d \in Ctx : ctx'[d].reqHdrs \cap ctx'[d].resHdrs = {}
  BY DEF HeadersConserved
<1>4. \A d \in Ctx \ {c} : NodesOf(ctx[d]) \cap NodesOf(ctx[c]) = {}
  BY DEF HeadersConserved
<1>5. hdrOut' = UNION {NodesOf(ctx'[d]) : d \in Ctx}
  <2>1. hdrOut' \subseteq UNION {NodesOf(ctx'[d]) : d \in Ctx}
    <3> SUFFICES ASSUME NEW n \in hdrOut' PROVE \E d \in Ctx : n \in NodesOf(ctx'[d])
      OBVIOUS
    <3>1. n \in hdrOut => \E d \in Ctx : n \in NodesOf(ctx[d])
      BY DEF HeadersConserved
    <3> HIDE DEF NodesOf
    <3> QED
      BY <1>2, <3>1
  <2>2. \A d \in Ctx : NodesOf(ctx'[d]) \subseteq hdrOut'
    <3> HIDE DEF NodesOf
    <3> QED
      BY <1>1, <1>2, <1>4
  <2> QED
    BY <2>1, <2>2
<1>6. \A d, e \in Ctx : d # e => NodesOf(ctx'[d]) \cap NodesOf(ctx'[e]) = {}
  <2>1. \A d, e \in Ctx : d # e => NodesOf(ctx[d]) \cap NodesOf(ctx[e]) = {}
    BY DEF HeadersConserved
  <2> HIDE DEF NodesOf
  <2> QED
    BY <1>1, <1>2, <2>1
<1> QED
  BY <1>3, <1>5, <1>6 DEF HeadersConserved

\* Every step keeps the nodes of the contexts apart.
LEMMA NodesNext == NodesInv /\ [Next]_vars => NodesInv'
<1> SUFFICES ASSUME NodesInv, [Next]_vars PROVE NodesInv'
  OBVIOUS
<1>0. TypeOK /\ TypeOK'
  BY NextType DEF NodesInv
<1>1. ASSUME NEW c \in Ctx, NEW part, NEW tail, on_readed(c, part, tail)
      PROVE  NodesInv'
  <2>1. PICK o \in ReadOutcomes(ctx[c], part, tail), fields \in SUBSET (Hdr \ hdrOut) :
          /\ o[1] \in Places /\ o[2] \in States
          /\ ReadEffect(c, part, tail, o, fields)
    BY <1>0, <1>1, ReadCases
  <2>2. conn[c] = "open" /\ conn' = conn
    BY <1>0, <1>1, ReadCases
  <2> DEFINE x == AfterRead(ctx[c], o, fields)
  <2>3. x \in HttpCtx /\ x.reqHdrs = ctx[c].reqHdrs \cup fields /\ x.resHdrs = ctx[c].resHdrs
    BY <1>0, <2>1, AfterReadType DEF TypeOK
  <2>4. \E nodes \in SUBSET ((Hdr \ hdrOut) \ fields) :
          /\ hdrOut' = hdrOut \cup (fields \cup nodes)
          /\ ctx'[c].reqHdrs = ctx[c].reqHdrs \cup fields
          /\ ctx'[c].resHdrs = ctx[c].resHdrs \cup nodes
          /\ \A d \in Ctx \ {c} : ctx'[d] = ctx[d]
    <3>1. CASE o[2] # "complete"
      <4>1. ctx' = [ctx EXCEPT ![c] = x] /\ hdrOut' = hdrOut \cup fields
        BY <2>1, <3>1 DEF ReadEffect
      <4>2. {} \in SUBSET ((Hdr \ hdrOut) \ fields)
        OBVIOUS
      <4>3. ctx'[c] = x
        BY <1>0, <4>1 DEF TypeOK
      <4>4. \A d \in Ctx \ {c} : ctx'[d] = ctx[d]
        BY <1>0, <4>1 DEF TypeOK
      <4> HIDE DEF x
      <4> QED
        BY <2>3, <4>1, <4>2, <4>3, <4>4
    <3>2. CASE o[2] = "complete"
      <4>1. PICK nodes \in SUBSET ((Hdr \ hdrOut) \ fields) :
              /\ Serve(c, x, nodes)
              /\ hdrOut' = hdrOut \cup fields \cup nodes
        BY <2>1, <3>2 DEF ReadEffect
      <4> DEFINE k == peer[c].served + 1
                 y == ClearRequest(Reply(x, k, nodes))
      <4>2. k \in Nat
        BY <1>0 DEF TypeOK, Peer
      <4>3. y.reqHdrs = x.reqHdrs /\ y.resHdrs = x.resHdrs \cup nodes
        BY <2>3, <4>2, ReplyType
      <4>4. ctx' = [ctx EXCEPT ![c] = y]
        BY <4>1 DEF Serve
      <4> HIDE DEF y, x
      <4>5. ctx'[c] = y /\ \A d \in Ctx \ {c} : ctx'[d] = ctx[d]
        BY <1>0, <4>4 DEF TypeOK
      <4> QED
        BY <2>3, <4>1, <4>3, <4>5
    <3> QED
      BY <3>1, <3>2
  <2>5. PICK nodes \in SUBSET ((Hdr \ hdrOut) \ fields) :
          /\ hdrOut' = hdrOut \cup (fields \cup nodes)
          /\ ctx'[c].reqHdrs = ctx[c].reqHdrs \cup fields
          /\ ctx'[c].resHdrs = ctx[c].resHdrs \cup nodes
          /\ \A d \in Ctx \ {c} : ctx'[d] = ctx[d]
    BY <2>4
  <2>6. NodesOf(ctx[c]) \subseteq hdrOut /\ ctx[c].reqHdrs \cap ctx[c].resHdrs = {}
    BY DEF NodesInv, HeadersConserved
  <2>7. ctx'[c].reqHdrs \cap ctx'[c].resHdrs = {}
    BY <2>5, <2>6 DEF NodesOf
  <2>8. /\ fields \cup nodes \in SUBSET Hdr
        /\ (fields \cup nodes) \cap hdrOut = {}
        /\ NodesOf(ctx'[c]) = NodesOf(ctx[c]) \cup (fields \cup nodes)
    BY <2>5 DEF NodesOf
  <2>9. HeadersConserved'
    BY <1>0, <2>5, <2>7, <2>8, NodesStep DEF NodesInv
  <2>10. FreeOwnsNone'
    BY <2>2, <2>5 DEF NodesInv, FreeOwnsNone
  <2> QED
    BY <1>0, <2>9, <2>10 DEF NodesInv
<1>2. ASSUME NEW c \in Ctx, on_new_connection(c) PROVE NodesInv'
  <2>1. NodesOf(Blank) = {} /\ Blank.reqHdrs = {} /\ Blank.resHdrs = {}
    BY DEF NodesOf, Blank
  <2>2. NodesOf(ctx[c]) = {} /\ hdrOut' = hdrOut
    BY <1>2 DEF on_new_connection, NodesInv, FreeOwnsNone
  <2>3. ctx'[c] = Blank /\ \A d \in Ctx \ {c} : ctx'[d] = ctx[d] /\ conn'[d] = conn[d]
    BY <1>0, <1>2 DEF on_new_connection, TypeOK
  <2>4. HeadersConserved'
    <3>1. hdrOut' = hdrOut \ NodesOf(ctx[c]) /\ NodesOf(ctx'[c]) = {}
      BY <2>1, <2>2, <2>3
    <3> QED
      BY <1>0, <2>1, <2>3, <3>1, NodesStep DEF NodesInv
  <2>5. FreeOwnsNone'
    BY <2>1, <2>3 DEF NodesInv, FreeOwnsNone
  <2> QED
    BY <1>0, <2>4, <2>5 DEF NodesInv
<1>3. ASSUME NEW c \in Ctx, on_readed_nothing(c) \/ on_readed_error(c) PROVE NodesInv'
  <2>1. /\ hdrOut' = hdrOut
        /\ ctx' = [ctx EXCEPT ![c] = [ctx[c] EXCEPT !.reqBuf = TRUE]]
        /\ \A d \in Ctx : conn'[d] = "free" => conn[d] = "free"
    BY <1>0, <1>3 DEF on_readed_nothing, on_readed_error, TypeOK
  <2>2. [ctx[c] EXCEPT !.reqBuf = TRUE].reqHdrs = ctx[c].reqHdrs
        /\ [ctx[c] EXCEPT !.reqBuf = TRUE].resHdrs = ctx[c].resHdrs
    BY <1>0 DEF TypeOK, HttpCtx
  <2>3. \A d \in Ctx : ctx'[d].reqHdrs = ctx[d].reqHdrs /\ ctx'[d].resHdrs = ctx[d].resHdrs
    BY <1>0, <2>1, <2>2 DEF TypeOK
  <2>4. \A d \in Ctx : NodesOf(ctx'[d]) = NodesOf(ctx[d])
    BY <2>3 DEF NodesOf
  <2>5. {NodesOf(ctx'[d]) : d \in Ctx} = {NodesOf(ctx[d]) : d \in Ctx}
    BY <2>4
  <2>6. HeadersConserved'
    BY <2>1, <2>3, <2>4, <2>5 DEF NodesInv, HeadersConserved
  <2>7. FreeOwnsNone'
    BY <2>1, <2>4 DEF NodesInv, FreeOwnsNone
  <2> QED
    BY <1>0, <2>6, <2>7 DEF NodesInv
<1>4. ASSUME NEW c \in Ctx, on_writed(c) PROVE NodesInv'
  <2>1. NodesOf(Blank) = {} /\ Blank.reqHdrs = {} /\ Blank.resHdrs = {}
    BY DEF NodesOf, Blank
  <2>2. hdrOut' = hdrOut \ NodesOf(ctx[c]) /\ conn' = conn
    BY <1>4 DEF on_writed
  <2>3. ctx'[c] = Blank /\ \A d \in Ctx \ {c} : ctx'[d] = ctx[d]
    BY <1>0, <1>4 DEF on_writed, TypeOK, Reset
  <2>4. HeadersConserved'
    BY <1>0, <2>1, <2>2, <2>3, NodesStep DEF NodesInv
  <2>5. FreeOwnsNone'
    BY <2>1, <2>2, <2>3 DEF NodesInv, FreeOwnsNone
  <2> QED
    BY <1>0, <2>4, <2>5 DEF NodesInv
<1>5. ASSUME NEW c \in Ctx, on_closed(c) PROVE NodesInv'
  <2> DEFINE y == [ctx[c] EXCEPT !.reqHdrs = {}, !.resHdrs = {},
                                 !.reqBuf = FALSE, !.resData = {}]
  <2>1. hdrOut' = hdrOut \ NodesOf(ctx[c]) /\ ctx' = [ctx EXCEPT ![c] = y]
    BY <1>5 DEF on_closed
  <2>2. y.reqHdrs = {} /\ y.resHdrs = {}
    BY <1>0 DEF TypeOK, HttpCtx
  <2>3. NodesOf(y) = {}
    BY <2>2 DEF NodesOf
  <2> HIDE DEF y
  <2>4. ctx'[c] = y /\ \A d \in Ctx \ {c} : ctx'[d] = ctx[d] /\ conn'[d] = conn[d]
    BY <1>0, <1>5, <2>1 DEF TypeOK, on_closed
  <2>5. HeadersConserved'
    BY <1>0, <2>1, <2>2, <2>3, <2>4, NodesStep DEF NodesInv
  <2>6. FreeOwnsNone'
    BY <2>3, <2>4 DEF NodesInv, FreeOwnsNone
  <2> QED
    BY <1>0, <2>5, <2>6 DEF NodesInv
<1>6. ASSUME NEW c \in Ctx, PeerLeaves(c) \/ log_write_status_fault(c) PROVE NodesInv'
  <2>1. UNCHANGED <<ctx, hdrOut, conn>>
    BY <1>6 DEF PeerLeaves, log_write_status_fault
  <2>2. HeadersConserved'
    BY <2>1 DEF NodesInv, HeadersConserved
  <2>3. FreeOwnsNone'
    BY <2>1 DEF NodesInv, FreeOwnsNone
  <2> QED
    BY <1>0, <2>2, <2>3 DEF NodesInv
<1>7. CASE UNCHANGED vars
  <2>1. UNCHANGED <<ctx, hdrOut, conn>>
    BY <1>7 DEF vars
  <2>2. HeadersConserved'
    BY <2>1 DEF NodesInv, HeadersConserved
  <2>3. FreeOwnsNone'
    BY <2>1 DEF NodesInv, FreeOwnsNone
  <2> QED
    BY <1>0, <2>2, <2>3 DEF NodesInv
<1> QED
  BY <1>1, <1>2, <1>3, <1>4, <1>5, <1>6, <1>7 DEF Next, Callback

\* No header node is lost, freed twice or shared, whatever the peers send and
\* however reads and writes overlap.
THEOREM NodesConserved == Spec => []HeadersConserved
<1>1. Init => NodesInv
  <2> SUFFICES ASSUME Init PROVE NodesInv
    OBVIOUS
  <2>1. NodesOf(Blank) = {} /\ Blank.reqHdrs = {} /\ Blank.resHdrs = {}
    BY DEF NodesOf, Blank
  <2>2. \A c \in Ctx : ctx[c] = Blank
    BY DEF Init
  <2>3. HeadersConserved
    BY <2>1, <2>2 DEF Init, HeadersConserved
  <2>4. FreeOwnsNone
    BY <2>1, <2>2 DEF FreeOwnsNone
  <2> QED
    BY <2>3, <2>4, InitType DEF NodesInv
<1>2. NodesInv => HeadersConserved
  BY DEF NodesInv
<1> QED
  BY <1>1, <1>2, NodesNext, PTL DEF Spec

(***************************************************************************)
(* Peers that wait for their replies.  Each connection is in one of four   *)
(* phases; which one says how the parser, the write queue and the counts   *)
(* of requests and replies go together.                                    *)
(***************************************************************************)
Calm(c) == /\ wq[c] = <<>>
           /\ ctx[c].wbufs = 0 /\ ctx[c].resData = {}
           /\ peer[c].served = peer[c].answered

\* Between two requests.
Idle(c) == /\ Calm(c)
           /\ ~peer[c].inside /\ peer[c].arrived = peer[c].answered
           /\ ctx[c].parser = "start" /\ ctx[c].pstate = "begin"

\* The first part of a request has been read.
Inside(c) == /\ Calm(c)
             /\ peer[c].inside /\ peer[c].arrived = peer[c].answered

\* The tail of a buffer has swallowed a request.
Stuck(c) == /\ Calm(c)
            /\ ~peer[c].inside /\ peer[c].arrived = peer[c].answered + 1

\* A reply is being written.
Busy(c) == /\ wq[c] = <<peer[c].served>>
           /\ ctx[c].wbufs = peer[c].served /\ ctx[c].resData = {peer[c].served}
           /\ peer[c].served = peer[c].answered + 1
           /\ ~peer[c].inside /\ peer[c].arrived = peer[c].served
           /\ conn[c] # "free"

Phase(c) == Idle(c) \/ Inside(c) \/ Stuck(c) \/ Busy(c)

FreeNoRequest == \A c \in Ctx : conn[c] = "free" => ctx[c].reqBuf = FALSE

SerialInv == /\ NodesInv
             /\ BufsOwned
             /\ \A c \in Ctx : Phase(c)
             /\ FreeNoRequest
             /\ crashed = FALSE

\* A context trades the array it records for another one, or for none.
LEMMA BufsStep ==
    ASSUME TypeOK, TypeOK', BufsOwned, NEW c \in Ctx,
           \A d \in Ctx \ {c} : ctx'[d] = ctx[d],
           bufHeap' = (bufHeap \ {<<c, ctx[c].wbufs>>})
                        \cup (IF ctx'[c].wbufs = 0 THEN {} ELSE {<<c, ctx'[c].wbufs>>})
    PROVE  BufsOwned'
<1>1. \A b \in bufHeap : \E d \in Ctx : ctx[d].wbufs # 0 /\ b = <<d, ctx[d].wbufs>>
  BY DEF BufsOwned
<1>2. \A d \in Ctx : ctx[d].wbufs # 0 => <<d, ctx[d].wbufs>> \in bufHeap
  BY DEF BufsOwned
<1>3. \A b \in bufHeap' : \E d \in Ctx : ctx'[d].wbufs # 0 /\ b = <<d, ctx'[d].wbufs>>
  <2> SUFFICES ASSUME NEW b \in bufHeap'
               PROVE  \E d \in Ctx : ctx'[d].wbufs # 0 /\ b = <<d, ctx'[d].wbufs>>
    OBVIOUS
  <2>1. CASE b \in bufHeap /\ b # <<c, ctx[c].wbufs>>
    <3>1. PICK d \in Ctx : ctx[d].wbufs # 0 /\ b = <<d, ctx[d].wbufs>>
      BY <1>1, <2>1
    <3>2. d # c
      BY <2>1, <3>1
    <3> QED
      BY <3>1, <3>2
  <2>2. CASE ctx'[c].wbufs # 0 /\ b = <<c, ctx'[c].wbufs>>
    BY <2>2
  <2> QED
    BY <2>1, <2>2
<1>4. \A d \in Ctx : ctx'[d].wbufs # 0 => <<d, ctx'[d].wbufs>> \in bufHeap'
  <2> SUFFICES ASSUME NEW d \in Ctx, ctx'[d].wbufs # 0
               PROVE  <<d, ctx'[d].wbufs>> \in bufHeap'
    OBVIOUS
  <2>1. CASE d = c
    BY <2>1
  <2>2. CASE d # c
    BY <1>2, <2>2
  <2> QED
    BY <2>1, <2>2
<1> QED
  BY <1>3, <1>4 DEF BufsOwned

\* In the serial runs only the connections between two requests, or inside
\* one, are read from.
LEMMA SerialRead ==
    ASSUME Serial, SerialInv, NEW c \in Ctx, NEW part \in {"whole", "first", "rest"},
           NEW tail, CanSend(c, part, tail)
    PROVE  \/ part = "whole" /\ Idle(c)
           \/ part = "first" /\ tail = "none" /\ Idle(c)
           \/ part = "rest" /\ Inside(c)
<1>1. peer[c] \in Peer
  BY DEF SerialInv, NodesInv, TypeOK
<1>2. Phase(c)
  BY DEF SerialInv
<1>3. CASE part = "rest"
  BY <1>2, <1>3 DEF CanSend, Phase, Idle, Stuck, Busy
<1>4. CASE part # "rest"
  <2>1. MayStart(c) /\ (part = "first" => tail = "none")
    BY <1>4 DEF CanSend, Serial
  <2>2. ~peer[c].inside /\ wq[c] = <<>> /\ peer[c].answered = peer[c].arrived
    BY <2>1 DEF MayStart, Serial
  <2>3. Idle(c)
    BY <1>1, <1>2, <2>2 DEF Phase, Inside, Stuck, Busy, Peer
  <2> QED
    BY <1>4, <2>1, <2>3
<1> QED
  BY <1>3, <1>4

\* A connection that a step does not touch keeps its phase.
LEMMA PhaseUnchanged ==
    ASSUME NEW d \in Ctx, Phase(d), conn'[d] = conn[d], ctx'[d] = ctx[d],
           wq'[d] = wq[d], peer'[d] = peer[d]
    PROVE  Phase(d)'
  BY DEF Phase, Idle, Inside, Stuck, Busy, Calm

\* A read moves a connection from one phase to another.
LEMMA SerialReadStep ==
    ASSUME Serial, SerialInv, NEW c \in Ctx, NEW part \in {"whole", "first", "rest"},
           NEW tail \in Tails, on_readed(c, part, tail)
    PROVE  SerialInv' /\ wq'[c] \in {wq[c], <<peer[c].served + 1>>} /\ wq[c] = <<>>
<1>0. TypeOK /\ NodesInv' /\ TypeOK'
  <2>1. [Next]_vars
    BY DEF SerialInv, Next, Callback
  <2> QED
    BY <2>1, NodesNext DEF SerialInv, NodesInv
<1>1. PICK o \in ReadOutcomes(ctx[c], part, tail), fields \in SUBSET (Hdr \ hdrOut) :
        /\ o[1] \in Places /\ o[2] \in States
        /\ ReadEffect(c, part, tail, o, fields)
  BY <1>0, ReadCases
<1>2. conn[c] = "open" /\ CanSend(c, part, tail) /\ UNCHANGED <<conn, crashed>>
  BY <1>0, ReadCases
<1>3. /\ peer[c] \in Peer /\ Calm(c) /\ peer[c].arrived = peer[c].answered
      /\ \/ part = "whole" /\ Idle(c)
         \/ part = "first" /\ tail = "none" /\ Idle(c)
         \/ part = "rest" /\ Inside(c)
  BY <1>0, <1>2, SerialRead DEF Idle, Inside, TypeOK
<1> DEFINE x == AfterRead(ctx[c], o, fields)
           q == Sent(peer[c], part, tail)
<1>4. /\ x \in HttpCtx /\ x.parser = o[1] /\ x.pstate = o[2]
      /\ x.resData = {} /\ x.wbufs = 0
  <2>1. ctx[c] \in HttpCtx /\ fields \in SUBSET Hdr
    BY <1>0 DEF TypeOK
  <2>2. ctx[c].resData = {} /\ ctx[c].wbufs = 0
    BY <1>3 DEF Calm
  <2> QED
    BY <1>1, <2>1, <2>2, AfterReadType
<1>5. /\ q \in Peer /\ q.served = peer[c].served /\ q.answered = peer[c].answered
      /\ q.inside = (part = "first")
      /\ q.arrived = IF part = "first" THEN peer[c].arrived ELSE peer[c].arrived + 1
  <2>1. q \in Peer
    BY <1>3, SentType
  <2>2. /\ q.served = peer[c].served /\ q.answered = peer[c].answered
        /\ q.inside = (part = "first")
    BY <1>3, SentFields
  <2>3. /\ part = "first" => q.arrived = peer[c].arrived
        /\ part # "first" => q.arrived = peer[c].arrived + 1
    BY <1>3, SentFields
  <2> HIDE DEF q
  <2> QED
    BY <2>1, <2>2, <2>3
<1>6. FreeNoRequest'
  <2>1. \A d \in Ctx \ {c} : ctx'[d] = ctx[d]
    BY <1>0, <1>1 DEF ReadEffect, Serve, TypeOK
  <2> QED
    BY <1>2, <2>1 DEF SerialInv, FreeNoRequest
<1>7. CASE o[2] # "complete"
  <2>1. /\ ctx' = [ctx EXCEPT ![c] = x] /\ peer' = [peer EXCEPT ![c] = q]
        /\ UNCHANGED <<bufHeap, wq>>
    BY <1>1, <1>7 DEF ReadEffect
  <2> HIDE DEF x, q
  <2>2. ctx'[c] = x /\ peer'[c] = q /\ wq'[c] = <<>>
        /\ \A d \in Ctx \ {c} : ctx'[d] = ctx[d] /\ peer'[d] = peer[d]
    BY <1>0, <1>3, <2>1 DEF TypeOK, Calm
  <2>3. Calm(c)'
    BY <1>3, <1>4, <1>5, <2>2 DEF Calm
  <2>4. ASSUME part = "first" PROVE Phase(c)'
    BY <1>3, <1>5, <2>2, <2>3, <2>4 DEF Inside, Phase
  <2>5. ASSUME part # "first" PROVE Phase(c)'
    <3>1. ~peer'[c].inside /\ peer'[c].arrived = peer'[c].answered + 1
      BY <1>3, <1>5, <2>2, <2>5
    <3> QED
      BY <2>3, <3>1 DEF Stuck, Phase
  <2>6. \A d \in Ctx : Phase(d)'
    BY <1>2, <2>1, <2>2, <2>4, <2>5, PhaseUnchanged DEF SerialInv
  <2>7. BufsOwned'
    <3>1. \A d \in Ctx : ctx'[d].wbufs = ctx[d].wbufs
      BY <1>3, <1>4, <2>2 DEF Calm
    <3> QED
      BY <2>1, <3>1 DEF SerialInv, BufsOwned
  <2> QED
    BY <1>0, <1>2, <1>3, <1>6, <2>1, <2>6, <2>7 DEF SerialInv, Calm
<1>8. CASE o[2] = "complete"
  <2>0. part # "first"
    <3>1. CASE part = "first"
      BY <1>3, <1>8, <3>1, ReadFirst DEF Idle
    <3> QED
      BY <3>1
  <2>1. PICK nodes \in SUBSET ((Hdr \ hdrOut) \ fields) : Serve(c, x, nodes)
    BY <1>1, <1>8 DEF ReadEffect
  <2> DEFINE k == peer[c].served + 1
             y == ClearRequest(Reply(x, k, nodes))
             r == [q EXCEPT !.served = @ + 1]
  <2>2. /\ ctx' = [ctx EXCEPT ![c] = y] /\ bufHeap' = bufHeap \cup {<<c, k>>}
        /\ wq' = [wq EXCEPT ![c] = Append(@, k)] /\ peer' = [peer EXCEPT ![c] = r]
    BY <1>1, <1>8, <2>1 DEF ReadEffect, Serve
  <2>3. k \in Nat /\ k # 0
    BY <1>3 DEF Peer
  <2>4. y.resData = {k} /\ y.wbufs = k
    BY <1>4, <2>3, ReplyType
  <2>5. /\ r.served = k /\ r.answered = peer[c].answered /\ r.inside = FALSE
        /\ r.arrived = peer[c].arrived + 1
    BY <1>5, <2>0 DEF Peer
  <2> HIDE DEF x, q, y, r
  <2>6. /\ ctx'[c] = y /\ peer'[c] = r
        /\ \A d \in Ctx \ {c} : ctx'[d] = ctx[d] /\ peer'[d] = peer[d] /\ wq'[d] = wq[d]
    BY <1>0, <2>2 DEF TypeOK
  <2>7. wq'[c] = <<k>> /\ wq[c] = <<>>
    <3>1. wq'[c] = Append(wq[c], k) /\ wq[c] = <<>>
      BY <1>0, <1>3, <2>2 DEF TypeOK, Calm
    <3> QED
      BY <3>1
  <2>8. Busy(c)'
    <3>1. k = peer[c].answered + 1 /\ k = peer[c].arrived + 1
      BY <1>3 DEF Calm
    <3> HIDE DEF k
    <3> QED
      BY <1>2, <2>4, <2>5, <2>6, <2>7, <3>1 DEF Busy
  <2>9. \A d \in Ctx : Phase(d)'
    BY <1>2, <2>6, <2>8, PhaseUnchanged DEF SerialInv, Phase
  <2>10. BufsOwned'
    <3>1. <<c, ctx[c].wbufs>> \notin bufHeap
      <4>1. ctx[c].wbufs = 0
        BY <1>3 DEF Calm
      <4> QED
        BY <4>1 DEF SerialInv, BufsOwned
    <3>2. bufHeap' = (bufHeap \ {<<c, ctx[c].wbufs>>})
                       \cup (IF ctx'[c].wbufs = 0 THEN {} ELSE {<<c, ctx'[c].wbufs>>})
      BY <2>2, <2>3, <2>4, <2>6, <3>1
    <3> QED
      BY <1>0, <2>6, <3>2, BufsStep DEF SerialInv
  <2> QED
    BY <1>0, <1>2, <1>6, <2>7, <2>9, <2>10 DEF SerialInv
<1> QED
  BY <1>7, <1>8

\* A new connection takes a clean context.
LEMMA SerialConnect ==
    ASSUME SerialInv, NEW c \in Ctx, on_new_connection(c)
    PROVE  SerialInv' /\ wq[c] = <<>>
<1>0. TypeOK /\ NodesInv' /\ TypeOK'
  <2>1. [Next]_vars
    BY DEF SerialInv, Next, Callback
  <2> QED
    BY <2>1, NodesNext DEF SerialInv, NodesInv
<1>1. ctx'[c] = Blank /\ peer'[c] = NewPeer
      /\ \A d \in Ctx \ {c} : ctx'[d] = ctx[d] /\ peer'[d] = peer[d] /\ conn'[d] = conn[d]
  BY <1>0 DEF on_new_connection, TypeOK
<1>2. UNCHANGED <<bufHeap, wq, crashed>> /\ conn[c] = "free"
  BY DEF on_new_connection
<1>3. Calm(c)
  BY <1>2 DEF SerialInv, Phase, Idle, Inside, Stuck, Busy
<1>4. Idle(c)'
  BY <1>1, <1>2, <1>3 DEF Idle, Calm, Blank, NewPeer
<1>5. \A d \in Ctx : Phase(d)'
  BY <1>1, <1>2, <1>4, PhaseUnchanged DEF SerialInv, Phase
<1>6. BufsOwned'
  <2>1. \A d \in Ctx : ctx'[d].wbufs = ctx[d].wbufs
    BY <1>1, <1>3 DEF Calm, Blank
  <2> QED
    BY <1>2, <2>1 DEF SerialInv, BufsOwned
<1>7. FreeNoRequest'
  BY <1>1 DEF SerialInv, FreeNoRequest, Blank
<1> QED
  BY <1>0, <1>2, <1>3, <1>5, <1>6, <1>7 DEF SerialInv, Calm

\* The end of a write leaves the context ready for the next request.
LEMMA SerialWritten ==
    ASSUME SerialInv, NEW c \in Ctx, on_writed(c)
    PROVE  SerialInv' /\ Busy(c) /\ wq'[c] = <<>>
<1>0. TypeOK /\ NodesInv' /\ TypeOK'
  <2>1. [Next]_vars
    BY DEF SerialInv, Next, Callback
  <2> QED
    BY <2>1, NodesNext DEF SerialInv, NodesInv
<1>1. Busy(c)
  BY DEF on_writed, SerialInv, Phase, Idle, Inside, Stuck, Calm
<1>2. /\ ctx'[c] = Blank
      /\ \A d \in Ctx \ {c} : ctx'[d] = ctx[d] /\ peer'[d] = peer[d] /\ wq'[d] = wq[d]
  BY <1>0 DEF on_writed, TypeOK, Reset
<1>3. UNCHANGED <<conn, crashed>> /\ bufHeap' = bufHeap \ {<<c, ctx[c].wbufs>>}
  BY DEF on_writed, BufsFreed
<1>4. wq'[c] = <<>>
  <2>1. wq'[c] = Tail(<<peer[c].served>>)
    BY <1>0, <1>1 DEF on_writed, TypeOK, Busy
  <2> QED
    BY <2>1
<1>5. /\ peer'[c].answered = peer[c].answered + 1 /\ peer'[c].served = peer[c].served
      /\ peer'[c].arrived = peer[c].arrived /\ peer'[c].inside = peer[c].inside
  <2>1. peer[c] \in Peer /\ peer'[c] = [peer[c] EXCEPT !.answered = @ + 1, !.misled = FALSE]
    BY <1>0 DEF on_writed, TypeOK
  <2> QED
    BY <2>1 DEF Peer
<1>6. Idle(c)'
  BY <1>1, <1>2, <1>4, <1>5 DEF Idle, Calm, Busy, Blank
<1>7. \A d \in Ctx : Phase(d)'
  BY <1>2, <1>3, <1>6, PhaseUnchanged DEF SerialInv, Phase
<1>8. BufsOwned'
  <2>1. ctx'[c].wbufs = 0
    BY <1>2 DEF Blank
  <2> QED
    BY <1>0, <1>2, <1>3, <2>1, BufsStep DEF SerialInv
<1>9. FreeNoRequest'
  BY <1>2, <1>3 DEF SerialInv, FreeNoRequest, Blank
<1> QED
  BY <1>0, <1>1, <1>3, <1>4, <1>7, <1>8, <1>9 DEF SerialInv

\* The end of a close leaves a clean context.
LEMMA SerialClosed ==
    ASSUME SerialInv, NEW c \in Ctx, on_closed(c)
    PROVE  SerialInv'
<1>0. TypeOK /\ NodesInv' /\ TypeOK'
  <2>1. [Next]_vars
    BY DEF SerialInv, Next, Callback
  <2> QED
    BY <2>1, NodesNext DEF SerialInv, NodesInv
<1> DEFINE y == [ctx[c] EXCEPT !.reqHdrs = {}, !.resHdrs = {},
                               !.reqBuf = FALSE, !.resData = {}]
<1>1. Calm(c)
  <2>1. wq[c] = <<>>
    BY DEF on_closed
  <2>2. Idle(c) \/ Inside(c) \/ Stuck(c) \/ Busy(c)
    BY DEF SerialInv, Phase
  <2> QED
    BY <2>1, <2>2 DEF Idle, Inside, Stuck, Busy
<1>2. /\ y.wbufs = ctx[c].wbufs /\ y.parser = ctx[c].parser /\ y.pstate = ctx[c].pstate
      /\ y.resData = {} /\ y.reqBuf = FALSE
  BY <1>0 DEF TypeOK, HttpCtx
<1>3. ctx' = [ctx EXCEPT ![c] = y]
  BY DEF on_closed
<1> HIDE DEF y
<1>4. /\ ctx'[c] = y
      /\ \A d \in Ctx \ {c} : ctx'[d] = ctx[d] /\ conn'[d] = conn[d]
  BY <1>0, <1>3 DEF on_closed, TypeOK
<1>5. UNCHANGED <<wq, peer, crashed>> /\ bufHeap' = bufHeap \ {<<c, ctx[c].wbufs>>}
  BY DEF on_closed, BufsFreed
<1>6. Phase(c)'
  BY <1>1, <1>2, <1>4, <1>5 DEF SerialInv, Phase, Idle, Inside, Stuck, Busy, Calm
<1>7. \A d \in Ctx : Phase(d)'
  BY <1>4, <1>5, <1>6, PhaseUnchanged DEF SerialInv
<1>8. BufsOwned'
  <2>1. ctx'[c].wbufs = 0
    BY <1>1, <1>2, <1>4 DEF Calm
  <2> QED
    BY <1>0, <1>4, <1>5, <2>1, BufsStep DEF SerialInv
<1>9. FreeNoRequest'
  BY <1>2, <1>4 DEF SerialInv, FreeNoRequest
<1> QED
  BY <1>0, <1>5, <1>7, <1>8, <1>9 DEF SerialInv

\* The end of a read without data, and of the connection; the peer leaving.
LEMMA SerialQuiet ==
    ASSUME SerialInv, NEW c \in Ctx,
           on_readed_nothing(c) \/ PeerLeaves(c) \/ on_readed_error(c)
    PROVE  SerialInv' /\ wq' = wq
<1>0. TypeOK /\ NodesInv' /\ TypeOK'
  <2>1. [Next]_vars
    BY DEF SerialInv, Next, Callback
  <2> QED
    BY <2>1, NodesNext DEF SerialInv, NodesInv
<1>1. UNCHANGED <<bufHeap, wq, crashed>> /\ conn[c] = "open"
  BY DEF on_readed_nothing, PeerLeaves, on_readed_error
<1>2. \A d \in Ctx : /\ ctx'[d].wbufs = ctx[d].wbufs /\ ctx'[d].resData = ctx[d].resData
                     /\ ctx'[d].parser = ctx[d].parser /\ ctx'[d].pstate = ctx[d].pstate
                     /\ d # c => ctx'[d] = ctx[d]
  <2>1. CASE ctx' = ctx
    BY <2>1
  <2>2. CASE ctx' = [ctx EXCEPT ![c] = [ctx[c] EXCEPT !.reqBuf = TRUE]]
    <3>1. ctx[c] \in HttpCtx
      BY <1>0 DEF TypeOK
    <3>2. LET y == [ctx[c] EXCEPT !.reqBuf = TRUE]
          IN  /\ y.wbufs = ctx[c].wbufs /\ y.resData = ctx[c].resData
              /\ y.parser = ctx[c].parser /\ y.pstate = ctx[c].pstate
      BY <3>1 DEF HttpCtx
    <3> QED
      BY <1>0, <2>2, <3>2 DEF TypeOK
  <2>3. ctx' = ctx \/ ctx' = [ctx EXCEPT ![c] = [ctx[c] EXCEPT !.reqBuf = TRUE]]
    BY <1>0 DEF on_readed_nothing, PeerLeaves, on_readed_error
  <2> QED
    BY <2>1, <2>2, <2>3
<1>3. \A d \in Ctx : /\ peer'[d].inside = peer[d].inside /\ peer'[d].arrived = peer[d].arrived
                     /\ peer'[d].served = peer[d].served
                     /\ peer'[d].answered = peer[d].answered
  <2>1. CASE peer' = peer
    BY <2>1
  <2>2. CASE peer' = [peer EXCEPT ![c] = [peer[c] EXCEPT !.gone = TRUE]]
    <3>1. peer[c] \in Peer
      BY <1>0 DEF TypeOK
    <3>2. LET q == [peer[c] EXCEPT !.gone = TRUE]
          IN  /\ q.inside = peer[c].inside /\ q.arrived = peer[c].arrived
              /\ q.served = peer[c].served /\ q.answered = peer[c].answered
      BY <3>1 DEF Peer
    <3> QED
      BY <1>0, <2>2, <3>2 DEF TypeOK
  <2>3. peer' = peer \/ peer' = [peer EXCEPT ![c] = [peer[c] EXCEPT !.gone = TRUE]]
    BY <1>0 DEF on_readed_nothing, PeerLeaves, on_readed_error
  <2> QED
    BY <2>1, <2>2, <2>3
<1>4. \A d \in Ctx : conn'[d] = "free" => conn[d] = "free" /\ d # c
  BY <1>0, <1>1 DEF on_readed_nothing, PeerLeaves, on_readed_error, TypeOK
<1>5. \A d \in Ctx : Phase(d)'
  BY <1>1, <1>2, <1>3, <1>4 DEF SerialInv, Phase, Idle, Inside, Stuck, Busy, Calm
<1>6. BufsOwned'
  BY <1>1, <1>2 DEF SerialInv, BufsOwned
<1>7. FreeNoRequest'
  BY <1>2, <1>4 DEF SerialInv, FreeNoRequest
<1> QED
  BY <1>0, <1>1, <1>5, <1>6, <1>7 DEF SerialInv

\* The log of a write finds its array.
LEMMA NoFault ==
    ASSUME SerialInv, NEW c \in Ctx
    PROVE  ~log_write_status_fault(c)
<1>1. peer[c] \in Peer
  BY DEF SerialInv, NodesInv, TypeOK
<1> QED
  BY <1>1 DEF log_write_status_fault, SerialInv, Phase, Idle, Inside, Stuck, Busy, Calm, Peer

\* Every step keeps the phases, when peers wait for their replies.
LEMMA SerialNext == Serial /\ SerialInv /\ [Next]_vars => SerialInv'
<1> SUFFICES ASSUME Serial, SerialInv, [Next]_vars PROVE SerialInv'
  OBVIOUS
<1>1. CASE UNCHANGED vars
  <2>1. NodesInv'
    BY NodesNext DEF SerialInv
  <2>2. \A d \in Ctx : Phase(d)'
    BY <1>1, PhaseUnchanged DEF vars, SerialInv
  <2> QED
    BY <1>1, <2>1, <2>2 DEF vars, SerialInv, BufsOwned, FreeNoRequest
<1> QED
  BY <1>1, SerialReadStep, SerialConnect, SerialWritten, SerialClosed, SerialQuiet, NoFault
  DEF Next, Callback

\* The phases hold at the start.
LEMMA SerialInit == Init => SerialInv
<1> SUFFICES ASSUME Init PROVE SerialInv
  OBVIOUS
<1>1. \A c \in Ctx : ctx[c] = Blank /\ peer[c] = NewPeer /\ wq[c] = <<>>
  BY DEF Init
<1>2. \A c \in Ctx : Phase(c)
  BY <1>1 DEF Phase, Idle, Calm, Blank, NewPeer
<1>3. BufsOwned
  BY <1>1 DEF Init, BufsOwned, Blank
<1>4. FreeNoRequest
  BY <1>1 DEF FreeNoRequest, Blank
<1>5. NodesInv
  <2>1. NodesOf(Blank) = {} /\ Blank.reqHdrs = {} /\ Blank.resHdrs = {}
    BY DEF NodesOf, Blank
  <2>2. HeadersConserved
    BY <1>1, <2>1 DEF Init, HeadersConserved
  <2>3. FreeOwnsNone
    BY <1>1, <2>1 DEF FreeOwnsNone
  <2> QED
    BY <2>2, <2>3, InitType DEF NodesInv
<1>6. crashed = FALSE
  BY DEF Init
<1> QED
  BY <1>2, <1>3, <1>4, <1>5, <1>6 DEF SerialInv

\* The phases hold in every reachable state.
LEMMA SerialAlways ==
    ASSUME Serial
    PROVE  Spec => []SerialInv
<1>1. SerialInv /\ [Next]_vars => SerialInv'
  BY SerialNext
<1> QED
  BY <1>1, SerialInit, PTL DEF Spec

\* The memory of a reply is released only after libuv has written it.
THEOREM ReplyKeptUntilWritten ==
    ASSUME Serial
    PROVE  Spec => []WriteDataIntact
<1>1. SerialInv => WriteDataIntact
  <2> SUFFICES ASSUME SerialInv, NEW c \in Ctx, NEW i \in DOMAIN wq[c]
               PROVE  wq[c][i] \in ctx[c].resData
    BY DEF WriteDataIntact
  <2>1. CASE wq[c] = <<>>
    BY <2>1
  <2>2. CASE Busy(c)
    <3>1. wq[c] = <<peer[c].served>> /\ ctx[c].resData = {peer[c].served}
      BY <2>2 DEF Busy
    <3>2. i = 1
      BY <3>1
    <3> QED
      BY <3>1, <3>2
  <2> QED
    BY <2>1, <2>2 DEF SerialInv, Phase, Idle, Inside, Stuck, Calm
<1> QED
  BY <1>1, SerialAlways, PTL

\* Every uv_buf_t array is recorded in its context, which frees it.
THEOREM ArraysOwned ==
    ASSUME Serial
    PROVE  Spec => []BufsOwned
<1>1. SerialInv => BufsOwned
  BY DEF SerialInv
<1> QED
  BY <1>1, SerialAlways, PTL

\* log_write_status never reads through a NULL write_bufs.
THEOREM NeverFaults ==
    ASSUME Serial
    PROVE  Spec => []NoCrash
<1>1. SerialInv => NoCrash
  BY DEF SerialInv, NoCrash
<1> QED
  BY <1>1, SerialAlways, PTL

\* A context is back in the pool only with nothing left to release.
THEOREM ReturnedClean ==
    ASSUME Serial
    PROVE  Spec => []FreedClean
<1>1. SerialInv => FreedClean
  <2> SUFFICES ASSUME SerialInv, NEW c \in Ctx, conn[c] = "free"
               PROVE  /\ NodesOf(ctx[c]) = {} /\ ~ctx[c].reqBuf /\ ctx[c].resData = {}
                      /\ wq[c] = <<>>
                      /\ \A k \in 1 .. peer[c].served : <<c, k>> \notin bufHeap
    BY DEF FreedClean
  <2>1. Calm(c)
    BY DEF SerialInv, Phase, Idle, Inside, Stuck, Busy
  <2>2. NodesOf(ctx[c]) = {} /\ ~ctx[c].reqBuf
    BY DEF SerialInv, NodesInv, FreeOwnsNone, FreeNoRequest
  <2>3. \A k : <<c, k>> \notin bufHeap
    BY <2>1 DEF SerialInv, BufsOwned, Calm
  <2> QED
    BY <2>1, <2>2, <2>3 DEF Calm
<1> QED
  BY <1>1, SerialAlways, PTL

\* Both together: what a connection allocates is released, and once.
THEOREM BuffersBack ==
    ASSUME Serial
    PROVE  Spec => []BuffersReturned
  BY ArraysOwned, ReturnedClean, PTL DEF BuffersReturned

\* The callback runs only for requests received to their last byte.
THEOREM OnlyReceivedServed ==
    ASSUME Serial
    PROVE  Spec => []ServedReceived
<1>1. SerialInv => ServedReceived
  <2> SUFFICES ASSUME SerialInv, NEW c \in Ctx PROVE peer[c].served <= peer[c].arrived
    BY DEF ServedReceived
  <2>1. peer[c].served \in Nat /\ peer[c].arrived \in Nat /\ peer[c].answered \in Nat
    BY DEF SerialInv, NodesInv, TypeOK, Peer
  <2>2. Phase(c)
    BY DEF SerialInv
  <2> QED
    BY <2>1, <2>2 DEF Phase, Idle, Inside, Stuck, Busy, Calm
<1> QED
  BY <1>1, SerialAlways, PTL

\* The reset after a write never falls inside a request.
THEOREM NothingDropped ==
    ASSUME Serial
    PROVE  Spec => NoRequestDropped
<1> DEFINE Keeps == \A c \in Ctx :
              wq'[c] # wq[c] /\ Len(wq'[c]) < Len(wq[c]) /\ conn[c] = "open"
                 => ~peer[c].inside
<1>1. SerialInv /\ SerialInv' /\ [Next]_vars => Keeps
  <2> SUFFICES ASSUME SerialInv, SerialInv', NEW c \in Ctx,
                      Len(wq'[c]) < Len(wq[c]), wq'[c] # wq[c]
               PROVE  ~peer[c].inside
    OBVIOUS
  <2>1. CASE wq[c] = <<>>
    <3>1. wq'[c] = <<>> \/ wq'[c] = <<peer'[c].served>>
      BY DEF SerialInv, Phase, Idle, Inside, Stuck, Calm, Busy
    <3> QED
      BY <2>1, <3>1
  <2> QED
    BY <2>1 DEF SerialInv, Phase, Idle, Inside, Stuck, Calm, Busy
<1>2. [Keeps]_vars <=> [\A c \in Ctx :
          wq'[c] # wq[c] /\ Len(wq'[c]) < Len(wq[c]) /\ conn[c] = "open"
             => ~peer[c].inside]_vars
  OBVIOUS
<1> QED
  BY <1>1, SerialAlways, PTL DEF Spec, NoRequestDropped

(***************************************************************************)
(* Refinement.                                                             *)
(***************************************************************************)
busyBar == [c \in Ctx |-> wq[c] # <<>>]
recvBar == [c \in Ctx |-> peer[c].arrived]
replBar == [c \in Ctx |-> peer[c].answered]

\* The first state is the first state of the abstract connection.
LEMMA ConnInit == Init => HttpConnOf!CInit
<1> SUFFICES ASSUME Init PROVE HttpConnOf!CInit
  OBVIOUS
<1>1. \A c \in Ctx : ~(wq[c] # <<>>)
  BY DEF Init
<1>2. [c \in Ctx |-> wq[c] # <<>>] = [c \in Ctx |-> FALSE]
  BY <1>1, Zenon
<1>3. \A c \in Ctx : peer[c].arrived = 0 /\ peer[c].answered = 0
  BY DEF Init, NewPeer
<1>4. /\ [c \in Ctx |-> peer[c].arrived] = [c \in Ctx |-> 0]
      /\ [c \in Ctx |-> peer[c].answered] = [c \in Ctx |-> 0]
  BY <1>3
<1> QED
  BY <1>2, <1>4 DEF Init, HttpConnOf!CInit

\* A read is a step of the abstract connection, or none.
LEMMA ConnRead ==
    ASSUME Serial, SerialInv, NEW c \in Ctx, NEW part \in {"whole", "first", "rest"},
           NEW tail \in Tails, on_readed(c, part, tail)
    PROVE  HttpConnOf!Receive(c) \/ UNCHANGED HttpConnOf!connVars
<1>0. TypeOK /\ TypeOK'
  <2>1. [Next]_vars
    BY DEF SerialInv, Next, Callback
  <2> QED
    BY <2>1, NextType DEF SerialInv, NodesInv
<1>1. PICK o \in ReadOutcomes(ctx[c], part, tail), fields \in SUBSET (Hdr \ hdrOut) :
        /\ o[1] \in Places /\ o[2] \in States
        /\ ReadEffect(c, part, tail, o, fields)
  BY <1>0, ReadCases
<1>2. conn[c] = "open" /\ conn' = conn /\ CanSend(c, part, tail)
  BY <1>0, ReadCases
<1>3. /\ Calm(c) /\ peer[c].arrived = peer[c].answered
      /\ \/ part # "first"
         \/ part = "first" /\ tail = "none" /\ Idle(c)
  BY <1>2, SerialRead DEF Idle, Inside
<1> DEFINE q == Sent(peer[c], part, tail)
<1>4. peer[c] \in Peer
  BY <1>0 DEF TypeOK
<1>5. /\ q \in Peer /\ q.answered = peer[c].answered
      /\ q.arrived = IF part = "first" THEN peer[c].arrived ELSE peer[c].arrived + 1
  <2>1. q \in Peer
    BY <1>4, SentType
  <2>2. /\ q.served = peer[c].served /\ q.answered = peer[c].answered
        /\ q.inside = (part = "first")
    BY <1>4, SentFields
  <2>3. /\ part = "first" => q.arrived = peer[c].arrived
        /\ part # "first" => q.arrived = peer[c].arrived + 1
    BY <1>4, SentFields
  <2> HIDE DEF q
  <2> QED
    BY <2>1, <2>2, <2>3
<1>6. /\ peer'[c].answered = peer[c].answered /\ peer'[c].arrived = q.arrived
      /\ \A d \in Ctx \ {c} : peer'[d] = peer[d]
  <2>1. peer' = [peer EXCEPT ![c] = q] \/ peer' = [peer EXCEPT ![c] = [q EXCEPT !.served = @ + 1]]
    BY <1>1 DEF ReadEffect
  <2>2. [q EXCEPT !.served = @ + 1].answered = q.answered
        /\ [q EXCEPT !.served = @ + 1].arrived = q.arrived
    BY <1>5 DEF Peer
  <2> HIDE DEF q
  <2> QED
    BY <1>0, <1>5, <2>1, <2>2 DEF TypeOK
<1> HIDE DEF q
<1>7. \A d \in Ctx \ {c} : wq'[d] = wq[d]
  BY <1>0, <1>1 DEF ReadEffect, Serve, TypeOK
<1>8. CASE part = "first"
  <2>1. o[2] # "complete"
    BY <1>3, <1>8, ReadFirst DEF Idle
  <2>2. wq' = wq
    BY <1>1, <2>1 DEF ReadEffect
  <2>3. \A d \in Ctx : peer'[d].arrived = peer[d].arrived /\ peer'[d].answered = peer[d].answered
    BY <1>5, <1>6, <1>8
  <2> QED
    BY <1>2, <2>2, <2>3 DEF HttpConnOf!connVars
<1>9. CASE part # "first"
  <2>1. recvBar' = [recvBar EXCEPT ![c] = @ + 1]
    BY <1>5, <1>6, <1>9 DEF recvBar
  <2>2. replBar' = replBar
    BY <1>6 DEF replBar
  <2>3. \E b \in BOOLEAN : busyBar' = [busyBar EXCEPT ![c] = b]
    <3>1. busyBar' = [busyBar EXCEPT ![c] = (wq'[c] # <<>>)]
      BY <1>7 DEF busyBar
    <3> QED
      BY <3>1
  <2>4. ~busyBar[c] /\ recvBar[c] = replBar[c]
    BY <1>3 DEF Calm, busyBar, recvBar, replBar
  <2> QED
    BY <1>2, <2>1, <2>2, <2>3, <2>4 DEF HttpConnOf!Receive, busyBar, recvBar, replBar
<1> QED
  BY <1>8, <1>9

\* Every step is a step of the abstract connection, or none.
LEMMA ConnNext == Serial /\ SerialInv /\ [Next]_vars => [HttpConnOf!CNext]_(HttpConnOf!connVars)
<1> SUFFICES ASSUME Serial, SerialInv, [Next]_vars
             PROVE  HttpConnOf!CNext \/ UNCHANGED HttpConnOf!connVars
  OBVIOUS
<1>0. TypeOK
  BY DEF SerialInv, NodesInv
<1>1. ASSUME NEW c \in Ctx, on_new_connection(c) PROVE HttpConnOf!Connect(c)
  <2>1. wq' = wq /\ conn[c] = "free" /\ peer' = [peer EXCEPT ![c] = NewPeer]
        /\ \E s \in {"open", "closing"} : conn' = [conn EXCEPT ![c] = s]
    BY <1>1 DEF on_new_connection
  <2>2. recvBar' = [recvBar EXCEPT ![c] = 0] /\ replBar' = [replBar EXCEPT ![c] = 0]
    BY <1>0, <2>1 DEF TypeOK, NewPeer, recvBar, replBar
  <2>3. busyBar' = busyBar
    BY <2>1 DEF busyBar
  <2> QED
    BY <2>1, <2>2, <2>3 DEF HttpConnOf!Connect, busyBar, recvBar, replBar
<1>2. ASSUME NEW c \in Ctx, on_writed(c) PROVE HttpConnOf!Written(c)
  <2>1. Busy(c) /\ wq'[c] = <<>>
    BY <1>2, SerialWritten
  <2>2. conn' = conn /\ \A d \in Ctx \ {c} : wq'[d] = wq[d] /\ peer'[d] = peer[d]
    BY <1>0, <1>2 DEF on_writed, TypeOK
  <2>3. peer'[c].answered = peer[c].answered + 1 /\ peer'[c].arrived = peer[c].arrived
    <3>1. peer[c] \in Peer /\ peer'[c] = [peer[c] EXCEPT !.answered = @ + 1, !.misled = FALSE]
      BY <1>0, <1>2 DEF on_writed, TypeOK
    <3> QED
      BY <3>1 DEF Peer
  <2>4. peer[c].answered + 1 = peer[c].arrived
    BY <2>1 DEF Busy
  <2>5. busyBar' = [busyBar EXCEPT ![c] = FALSE]
    BY <2>1, <2>2 DEF busyBar
  <2>6. recvBar' = recvBar /\ replBar' = [replBar EXCEPT ![c] = recvBar[c]]
    BY <2>2, <2>3, <2>4 DEF recvBar, replBar
  <2>7. busyBar[c]
    <3>1. wq[c] # <<>>
      BY <1>2 DEF on_writed
    <3> QED
      BY <3>1 DEF busyBar
  <2> QED
    BY <2>2, <2>5, <2>6, <2>7 DEF HttpConnOf!Written, busyBar, recvBar, replBar
<1>3. ASSUME NEW c \in Ctx, on_readed_error(c) PROVE HttpConnOf!Leave(c)
  BY <1>3 DEF on_readed_error, HttpConnOf!Leave
<1>4. ASSUME NEW c \in Ctx, on_closed(c) PROVE HttpConnOf!Close(c)
  BY <1>4 DEF on_closed, HttpConnOf!Close
<1>5. ASSUME NEW c \in Ctx, on_readed_nothing(c) \/ PeerLeaves(c)
      PROVE  UNCHANGED HttpConnOf!connVars
  <2>1. conn' = conn /\ wq' = wq
    BY <1>5 DEF on_readed_nothing, PeerLeaves
  <2>2. \A d \in Ctx : peer'[d].arrived = peer[d].arrived /\ peer'[d].answered = peer[d].answered
    <3>1. CASE peer' = peer
      BY <3>1
    <3>2. CASE peer' = [peer EXCEPT ![c] = [peer[c] EXCEPT !.gone = TRUE]]
      <4>1. peer[c] \in Peer
        BY <1>0 DEF TypeOK
      <4>2. LET q == [peer[c] EXCEPT !.gone = TRUE]
            IN  q.arrived = peer[c].arrived /\ q.answered = peer[c].answered
        BY <4>1 DEF Peer
      <4> QED
        BY <1>0, <3>2, <4>2 DEF TypeOK
    <3> QED
      BY <1>5, <3>1, <3>2 DEF on_readed_nothing, PeerLeaves
  <2> QED
    BY <2>1, <2>2 DEF HttpConnOf!connVars
<1>6. CASE UNCHANGED vars
  BY <1>6 DEF vars, HttpConnOf!connVars
<1> QED
  BY <1>1, <1>2, <1>3, <1>4, <1>5, <1>6, ConnRead, NoFault DEF Next, Callback, HttpConnOf!CNext

\* The callbacks implement the request-reply connection: one reply at a time,
\* for the request just received, and nothing under way when it is gone.
THEOREM ImplementsConn ==
    ASSUME Serial
    PROVE  Spec => OneReplyAtATime
<1>1. SerialInv /\ [Next]_vars => [HttpConnOf!CNext]_(HttpConnOf!connVars)
  BY ConnNext
<1> QED
  BY <1>1, ConnInit, SerialAlways, PTL DEF Spec, OneReplyAtATime, HttpConnOf!CSpec

(***************************************************************************)
(* The first walk of the exit function frees the pools of any number of    *)
(* servers.                                                                *)
(* The invariant is the way of the exit function: while the program runs   *)
(* every pool is in use; in the first walk the pools up to the place of the *)
(* walk are; after it none is, and a second walk stops being defined at its *)
(* first node.                                                             *)
(***************************************************************************)

ExitTypeOK ==
    /\ pools \in [list : Seq(Nat), handlers : Nat, live : SUBSET Nat, listening : SUBSET Nat]
    /\ ending \in [state : {"no", "walking", "walked", "astray"}, at : Nat, freed : Seq(Nat)]

(* The pools are listed in the order of the calls that made them.           *)
InOrder == \A i \in 1 .. Calls : pools.list[i] = i

(* The first k pools that were freed are the newest k.                      *)
Newest(k) == \A i \in 1 .. k : ending.freed[i] = (Calls + 1) - i

GivenBack(k) == Len(ending.freed) = k /\ Newest(k)

Serving == /\ ending.state = "no" /\ pools.handlers = Calls
           /\ pools.live = 1 .. Calls /\ GivenBack(0)

FirstWalk == /\ ending.state = "walking" /\ ending.at <= Calls
             /\ Calls > 0 /\ pools.handlers = Calls - 1
             /\ pools.live = 1 .. ending.at /\ GivenBack(Calls - ending.at)

Walked == /\ ending.state = "walked" /\ Calls > 0 /\ pools.handlers = Calls - 1
          /\ pools.live = {} /\ GivenBack(Calls)

SecondWalk == /\ ending.state = "walking" /\ ending.at = Calls /\ Calls > 1
              /\ pools.handlers = Calls - 2
              /\ pools.live = {} /\ GivenBack(Calls)

(* A link was read from a freed node that was written over, or a pool was   *)
(* freed again.                                                             *)
LinkLost == /\ ending.state = "astray" /\ ending.at < Calls
            /\ pools.live = 1 .. ending.at /\ GivenBack(Calls - ending.at)

FreedTwice == /\ ending.state = "astray" /\ Calls > 1 /\ pools.live = {}
              /\ Len(ending.freed) = Calls + 1 /\ Newest(Calls)
              /\ ending.freed[Calls + 1] = Calls

ExitPhase == Serving \/ FirstWalk \/ Walked \/ SecondWalk \/ LinkLost \/ FreedTwice

ExitInv == ExitTypeOK /\ InOrder /\ ExitPhase

-----------------------------------------------------------------------------
LEMMA ExitStarts == ExitInit => ExitInv
  BY DEF ExitInit, ExitInv, ExitTypeOK, InOrder, ExitPhase, Serving, GivenBack, Newest, Calls

(* A call of http_server lists one more pool, which is in use.              *)
LEMMA ServerListed == ASSUME ExitInv, http_server PROVE ExitInv'
<1>1. Serving /\ ExitTypeOK /\ InOrder /\ Calls \in Nat
  BY DEF http_server, ExitInv, ExitPhase, Serving, FirstWalk, Walked, SecondWalk, LinkLost,
         FreedTwice, ExitTypeOK, Calls
<1>2. PICK listens \in BOOLEAN :
        pools' = [list |-> Append(pools.list, Calls + 1), handlers |-> pools.handlers + 1,
                  live |-> pools.live \cup {Calls + 1},
                  listening |-> pools.listening \cup (IF listens THEN {Calls + 1} ELSE {})]
  BY DEF http_server, ListedLast
<1>3. ending' = ending
  BY DEF http_server
<1>4. Calls' = Calls + 1 /\ InOrder'
  BY <1>1, <1>2 DEF ExitTypeOK, InOrder, Calls
<1>5. ExitTypeOK'
  BY <1>1, <1>2, <1>3 DEF ExitTypeOK
<1>6. pools'.live = 1 .. Calls'
  BY <1>1, <1>2, <1>4 DEF Serving
<1>7. Serving'
  BY <1>1, <1>2, <1>3, <1>4, <1>6 DEF Serving, GivenBack, Newest
<1> QED
  BY <1>4, <1>5, <1>7 DEF ExitInv, ExitPhase

(* A handler is called: the first of them, or the second after the walk of  *)
(* the first.                                                               *)
LEMMA WalkStarts == ASSUME ExitInv, Exit PROVE ExitInv'
<1>1. ExitTypeOK /\ InOrder /\ Calls \in Nat
  BY DEF ExitInv, ExitTypeOK, Calls
<1>2. /\ ending' = [ending EXCEPT !.state = "walking", !.at = Calls]
      /\ pools' = [pools EXCEPT !.handlers = @ - 1]
      /\ pools.handlers > 0
  BY DEF Exit
<1>3. /\ pools'.list = pools.list /\ pools'.live = pools.live /\ Calls' = Calls
      /\ pools'.handlers = pools.handlers - 1 /\ pools.handlers \in Nat
      /\ ending'.state = "walking" /\ ending'.at = Calls /\ ending'.freed = ending.freed
  BY <1>1, <1>2 DEF ExitTypeOK, Calls
<1>4. ExitTypeOK'
  <2>0. /\ pools.list \in Seq(Nat) /\ pools.live \in SUBSET Nat
        /\ pools.listening \in SUBSET Nat /\ pools.handlers - 1 \in Nat
    BY <1>1, <1>2, <1>3 DEF ExitTypeOK
  <2>1. pools' = [list |-> pools.list, handlers |-> pools.handlers - 1,
                  live |-> pools.live, listening |-> pools.listening]
    BY <1>1, <1>2 DEF ExitTypeOK
  <2>2. /\ ending.freed \in Seq(Nat)
        /\ ending' = [state |-> "walking", at |-> Calls, freed |-> ending.freed]
    BY <1>1, <1>2 DEF ExitTypeOK
  <2> QED
    BY <1>1, <2>0, <2>1, <2>2 DEF ExitTypeOK
<1>5. InOrder'
  BY <1>1, <1>3 DEF InOrder
<1>6. CASE Serving
  BY <1>1, <1>2, <1>3, <1>4, <1>5, <1>6
     DEF Serving, FirstWalk, GivenBack, Newest, ExitInv, ExitPhase
<1>7. CASE Walked
  BY <1>1, <1>2, <1>3, <1>4, <1>5, <1>7
     DEF Walked, SecondWalk, GivenBack, Newest, ExitInv, ExitPhase
<1> QED
  BY <1>6, <1>7 DEF Exit, ExitInv, ExitPhase, FirstWalk, SecondWalk, LinkLost, FreedTwice

-----------------------------------------------------------------------------
(* A node of the first walk: its pool is the newest in use.                 *)
LEMMA PoolFreed == ASSUME ExitInv, FreePool PROVE ExitInv'
<1>1. ExitTypeOK /\ InOrder /\ Calls \in Nat
  BY DEF ExitInv, ExitTypeOK, Calls
<1>2. FirstWalk
  BY DEF ExitInv, ExitPhase, FreePool, Serving, Walked, SecondWalk, LinkLost, FreedTwice
<1>3. Here = ending.at /\ ending.at \in 1 .. Calls
  BY <1>1, <1>2 DEF FreePool, FirstWalk, ExitTypeOK, InOrder, Here
<1>4. PICK state \in {"walking", "astray"} :
        ending' = [state |-> state, at |-> ending.at - 1,
                   freed |-> Append(ending.freed, ending.at)]
  BY <1>3 DEF FreePool
<1>5. /\ pools'.list = pools.list /\ pools'.handlers = pools.handlers
      /\ pools'.live = pools.live \ {ending.at} /\ Calls' = Calls
  BY <1>1, <1>3 DEF FreePool, ExitTypeOK, Calls
<1>6. ExitTypeOK'
  <2>1. /\ pools.list \in Seq(Nat) /\ pools.live \ {ending.at} \in SUBSET Nat
        /\ pools.listening \in SUBSET Nat /\ pools.handlers \in Nat
        /\ pools' = [list |-> pools.list, handlers |-> pools.handlers,
                     live |-> pools.live \ {ending.at}, listening |-> pools.listening]
    BY <1>1, <1>3 DEF FreePool, ExitTypeOK
  <2>2. ending.at - 1 \in Nat /\ Append(ending.freed, ending.at) \in Seq(Nat)
    BY <1>1, <1>3 DEF ExitTypeOK
  <2> QED
    BY <1>4, <2>1, <2>2 DEF ExitTypeOK
<1>7. InOrder'
  BY <1>1, <1>5 DEF InOrder
<1>8. pools'.live = 1 .. ending'.at
  BY <1>2, <1>3, <1>4, <1>5 DEF FirstWalk
<1>9. GivenBack(Calls - ending.at)
  BY <1>2 DEF FirstWalk
<1>10. GivenBack(Calls - ending.at)'
  <2>1. ending.freed \in Seq(Nat) /\ Len(ending.freed) = Calls - ending.at
    BY <1>1, <1>9 DEF ExitTypeOK, GivenBack
  <2>2. Len(ending'.freed) = (Calls - ending.at) + 1
    BY <1>3, <1>4, <2>1
  <2>3. \A i \in 1 .. ((Calls - ending.at) + 1) : ending'.freed[i] = (Calls + 1) - i
    <3> DEFINE s == ending.freed
               k == Calls - ending.at
    <3>1. s \in Seq(Nat) /\ Len(s) = k /\ k \in Nat /\ (Calls + 1) - (k + 1) = ending.at
      BY <1>1, <1>3, <2>1
    <3>2. ending'.freed = Append(s, ending.at)
      BY <1>4
    <3>3. \A i \in 1 .. k : s[i] = (Calls + 1) - i
      BY <1>9 DEF GivenBack, Newest
    <3> HIDE DEF s, k
    <3>4. ASSUME NEW i \in 1 .. (k + 1) PROVE ending'.freed[i] = (Calls + 1) - i
      <4>1. CASE i \in 1 .. k
        BY <3>1, <3>2, <3>3, <4>1
      <4>2. CASE i = k + 1
        BY <3>1, <3>2, <4>2
      <4> QED
        BY <3>1, <4>1, <4>2
    <3> QED
      BY <3>4 DEF k
  <2>4. (Calls - ending.at)' = (Calls - ending.at) + 1
    BY <1>1, <1>3, <1>4, <1>5
  <2>5. Newest(Calls - ending.at)'
    BY <1>5, <2>3, <2>4 DEF Newest
  <2> QED
    BY <2>2, <2>4, <2>5 DEF GivenBack
<1> QED
  BY <1>1, <1>2, <1>3, <1>4, <1>5, <1>6, <1>7, <1>8, <1>10
     DEF ExitInv, ExitPhase, FirstWalk, LinkLost

(* A node of the second walk: its pool was freed by the first.              *)
LEMMA PoolFreedAgain == ASSUME ExitInv, FreeAgain PROVE ExitInv'
<1>1. ExitTypeOK /\ InOrder /\ Calls \in Nat
  BY DEF ExitInv, ExitTypeOK, Calls
<1>2. ~FirstWalk
  BY <1>1 DEF FreeAgain, FirstWalk, Here, InOrder, ExitTypeOK
<1>3. SecondWalk
  BY <1>2 DEF ExitInv, ExitPhase, FreeAgain, Serving, Walked, LinkLost, FreedTwice
<1>4. Here = Calls
  BY <1>1, <1>3 DEF SecondWalk, Here, InOrder
<1>5. /\ ending' = [state |-> "astray", at |-> ending.at,
                    freed |-> Append(ending.freed, Calls)]
      /\ pools' = pools /\ Calls' = Calls
  BY <1>1, <1>4 DEF FreeAgain, ExitTypeOK, Calls
<1>6. ending.freed \in Seq(Nat) /\ Len(ending.freed) = Calls /\ Newest(Calls)
  BY <1>1, <1>3 DEF ExitTypeOK, SecondWalk, GivenBack
<1>7. ExitTypeOK' /\ InOrder'
  BY <1>1, <1>5, <1>6 DEF ExitTypeOK, InOrder
<1>8. /\ Len(ending'.freed) = Calls + 1 /\ ending'.freed[Calls + 1] = Calls
      /\ \A i \in 1 .. Calls : ending'.freed[i] = ending.freed[i]
  BY <1>1, <1>5, <1>6
<1>9. FreedTwice'
  BY <1>3, <1>5, <1>6, <1>8 DEF FreedTwice, SecondWalk, Newest
<1> QED
  BY <1>7, <1>9 DEF ExitInv, ExitPhase

(* Only the first walk comes to its end.                                    *)
LEMMA WalkEnded == ASSUME ExitInv, WalkEnds PROVE ExitInv'
<1>1. ExitTypeOK /\ InOrder /\ Calls \in Nat
  BY DEF ExitInv, ExitTypeOK, Calls
<1>2. FirstWalk
  BY <1>1 DEF ExitInv, ExitPhase, WalkEnds, Serving, Walked, SecondWalk, LinkLost, FreedTwice
<1>3. /\ ending' = [state |-> "walked", at |-> ending.at, freed |-> ending.freed]
      /\ pools' = pools /\ Calls' = Calls
  BY <1>1 DEF WalkEnds, ExitTypeOK, Calls
<1>4. ExitTypeOK' /\ InOrder'
  BY <1>1, <1>3 DEF ExitTypeOK, InOrder
<1>5. Walked'
  BY <1>1, <1>2, <1>3 DEF WalkEnds, FirstWalk, Walked, GivenBack, Newest
<1> QED
  BY <1>4, <1>5 DEF ExitInv, ExitPhase

THEOREM ExitWalksInv == ExitSpec => []ExitInv
<1>1. ASSUME ExitInv, [ExitNext]_exitVars PROVE ExitInv'
  <2>1. CASE UNCHANGED exitVars
    BY <1>1, <2>1 DEF exitVars, ExitInv, ExitTypeOK, InOrder, ExitPhase, Serving, FirstWalk,
       Walked, SecondWalk, LinkLost, FreedTwice, GivenBack, Newest, Calls
  <2> QED
    BY <1>1, <2>1, ServerListed, WalkStarts, PoolFreed, PoolFreedAgain, WalkEnded
       DEF ExitNext, on_httpctx_pool_destroy
<1> QED
  BY <1>1, ExitStarts, PTL DEF ExitSpec

-----------------------------------------------------------------------------
(* The pools in the order in which they are to be freed.                    *)
LEMMA NewestFirstIs ==
    ASSUME ExitTypeOK
    PROVE  /\ NewestFirst \in Seq(Nat) /\ Len(NewestFirst) = Calls
           /\ \A i \in 1 .. Calls : NewestFirst[i] = (Calls + 1) - i
<1>1. Calls \in Nat
  BY DEF ExitTypeOK, Calls
<1> DEFINE all == [i \in 1 .. Calls |-> i]
<1>2. all \in Seq(Nat) /\ Len(all) = Calls /\ \A i \in 1 .. Calls : all[i] = i
  BY <1>1
<1>3. NewestFirst = Reverse(all)
  BY DEF NewestFirst
<1> HIDE DEF all
<1>4. \A i \in 1 .. Calls : all[(Calls - i) + 1] = (Calls + 1) - i /\ (Calls + 1) - i \in Nat
  BY <1>1, <1>2
<1>5. NewestFirst = [i \in 1 .. Calls |-> all[(Calls - i) + 1]]
  BY <1>2, <1>3 DEF Reverse
<1> QED
  BY <1>1, <1>4, <1>5

(* Sequences that agree on the length of the shorter are prefixes.          *)
LEMMA PrefixByElements ==
    ASSUME NEW s \in Seq(Nat), NEW t \in Seq(Nat), Len(s) <= Len(t),
           \A i \in 1 .. Len(s) : s[i] = t[i]
    PROVE  IsPrefix(s, t)
  BY DEF IsPrefix

(* The elements of a sequence are a set when each is in it and it has no    *)
(* others.                                                                  *)
LEMMA SetByElements ==
    ASSUME NEW s, NEW S, \A i \in DOMAIN s : s[i] \in S,
           \A p \in S : \E i \in DOMAIN s : s[i] = p
    PROVE  ToSet(s) = S
  BY Zenon DEF ToSet

LEMMA InvGivesBack == ExitInv => PoolsGivenBack
<1> SUFFICES ASSUME ExitInv PROVE PoolsGivenBack
  OBVIOUS
<1>1. ExitTypeOK /\ InOrder /\ Calls \in Nat /\ ending.freed \in Seq(Nat)
  BY DEF ExitInv, ExitTypeOK, Calls
<1>2. ToSet(pools.list) = 1 .. Calls
  BY <1>1 DEF ToSet, InOrder, ExitTypeOK, Calls
<1>3. ASSUME NEW k \in 0 .. Calls, GivenBack(k)
      PROVE  /\ ToSet(ending.freed) = ((Calls - k) + 1) .. Calls
             /\ IsPrefix(ending.freed, NewestFirst)
  <2>1. \A i \in 1 .. k : ending.freed[i] = (Calls + 1) - i
    BY <1>3 DEF GivenBack, Newest
  <2>2. DOMAIN ending.freed = 1 .. k
    BY <1>1, <1>3 DEF GivenBack
  <2>3. \A p \in ((Calls - k) + 1) .. Calls :
            (Calls + 1) - p \in 1 .. k /\ ending.freed[(Calls + 1) - p] = p
    BY <1>1, <2>1
  <2>4. ToSet(ending.freed) = ((Calls - k) + 1) .. Calls
    <3>1. \A i \in DOMAIN ending.freed : ending.freed[i] \in ((Calls - k) + 1) .. Calls
      BY <1>1, <2>1, <2>2
    <3>2. \A p \in ((Calls - k) + 1) .. Calls :
              \E i \in DOMAIN ending.freed : ending.freed[i] = p
      BY <2>2, <2>3, Zenon
    <3> QED
      BY <3>1, <3>2, SetByElements
  <2>5. /\ Len(ending.freed) <= Len(NewestFirst) /\ NewestFirst \in Seq(Nat)
        /\ \A i \in 1 .. Len(ending.freed) : ending.freed[i] = NewestFirst[i]
    BY <1>1, <1>3, <2>1, NewestFirstIs DEF GivenBack
  <2> QED
    BY <1>1, <2>4, <2>5, PrefixByElements
<1>4. CASE Serving
  <2>1. ending.state = "no" /\ pools.live = 1 .. Calls
    BY <1>4 DEF Serving
  <2> QED
    BY <1>2, <2>1 DEF PoolsGivenBack, FirstWalkWhole
<1>5. CASE FirstWalk
  <2>1. /\ ending.at \in 0 .. Calls /\ Calls - ending.at \in 0 .. Calls
        /\ GivenBack(Calls - ending.at) /\ pools.live = 1 .. ending.at
        /\ ending.state = "walking"
    BY <1>1, <1>5 DEF FirstWalk, ExitTypeOK
  <2>2. 1 .. ending.at = (1 .. Calls) \ (((Calls - (Calls - ending.at)) + 1) .. Calls)
    BY <1>1, <2>1
  <2> QED
    BY <1>2, <1>3, <2>1, <2>2 DEF PoolsGivenBack
<1>6. CASE Walked
  <2>1. /\ GivenBack(Calls) /\ pools.live = {} /\ Calls \in 0 .. Calls
        /\ ending.state = "walked"
    BY <1>1, <1>6 DEF Walked
  <2>2. (1 .. Calls) \ (((Calls - Calls) + 1) .. Calls) = {}
    BY <1>1
  <2> QED
    BY <1>2, <1>3, <2>1, <2>2 DEF PoolsGivenBack
<1>7. CASE SecondWalk \/ LinkLost \/ FreedTwice
  <2>1. ending.state # "no" /\ ~FirstWalkWhole
    BY <1>1, <1>7 DEF SecondWalk, LinkLost, FreedTwice, FirstWalkWhole
  <2> QED
    BY <2>1 DEF PoolsGivenBack
<1> QED
  BY <1>4, <1>5, <1>6, <1>7 DEF ExitInv, ExitPhase

(* However many servers were started, and whichever of them could not have  *)
(* their port, every pool is in use while they run, and the first walk of   *)
(* the exit function, where its links are whole, frees each once, the       *)
(* newest first, and leaves none.                                           *)
THEOREM ExitGivesPoolsBack == ExitSpec => []PoolsGivenBack
  BY ExitWalksInv, InvGivesBack, PTL
=============================================================================
