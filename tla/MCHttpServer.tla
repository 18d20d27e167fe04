---------------------------- MODULE MCHttpServer ----------------------------
(* Two contexts share the header nodes; nodes are interchangeable.         *)
EXTENDS HttpServer, TLC

CONSTANTS c1, c2, h1, h2, h3

MCCtx == {c1, c2}
MCOneCtx == {c1}
MCHdr == {h1, h2, h3}
MCTwoHdr == {h1, h2}

NodeSymmetry == Permutations(MCHdr)
=============================================================================
