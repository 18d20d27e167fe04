------------------------------ MODULE MCHttpCtx ------------------------------
(* HttpCtx with pages of twelve bytes and header names of two letters: two  *)
(* of them fit in the first page, and a body or a url touches up to three.  *)
EXTENDS HttpCtx

MCChar == {"_", "/", "?", "a", "b", "x", "y", "h", "o", "H", "O", "c", "t", "l", "1", "2"}
MCHost == <<"h", "o">>
MCContentType == <<"c", "t">>
MCContentLength == <<"c", "l">>
MCLowerCase == [c \in {"H", "O"} |-> IF c = "H" THEN "h" ELSE "o"]

MCPaths == {<<"/">>, <<"/", "a">>, <<"/", "a", "/">>, <<"/", "a", "/", "b">>}

Urls == MCPaths \cup {<<"/", "a", "b">>, <<"/", "a", "?", "b">>, <<"/", "a", "/", "?", "?">>,
                      <<"/", "a", "/", "b", "/", "a", "?", "b", "/">>,
                      <<"/", "a", "/", "b", "/", "a", "/", "b", "/", "a", "/", "b", "?", "b">>}

Names == {MCHost, <<"H", "O">>, <<"h", "x">>, <<"h", "o", "x">>, MCContentType, MCContentLength}

Fields == (Names \X {<<"1", "2">>}) \cup ({<<"h", "x">>, MCHost} \X {<<>>})

MCRequests ==
    [url : Urls, headers : {<<>>} \cup {<<f>> : f \in Fields} \cup (Fields \X Fields),
     body : {<<>>, <<"x">>, [k \in 1 .. 14 |-> IF k % 2 = 0 THEN "x" ELSE "y"]}]
=============================================================================
