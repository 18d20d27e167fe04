----------------------------- MODULE MCMessages -----------------------------
(* What comes in and what goes out: the message parser on streams that      *)
(* reach every branch of it, the parser of addresses on urls made of every  *)
(* combination of a few parts, and replies in pages of eight bytes.  A      *)
(* behaviour is of one of the three.                                        *)
EXTENDS HttpMessage, HttpUrl, RespBufs

VARIABLE side        \* what this behaviour is of

At(c, r) == [at |-> c, reply |-> r]
Plainly == {At("none", "none")}

MCPieces == {1, 3}
MCCallbacks == {"message_begin", "url", "status", "header_field", "header_value",
                "headers_complete", "body", "message_complete", "chunk_header",
                "chunk_complete"}
Pausing == {At(c, "pause") : c \in MCCallbacks \ {"status"}}
Failing == {At(c, "fail") : c \in MCCallbacks \ {"status"}}

-----------------------------------------------------------------------------
Raw(name, raw, value) == [name |-> name, raw |-> raw, value |-> value]
Line(m, line) == [m EXCEPT !.line = line]
Tail_(s, rest) == [s EXCEPT !.data = @ \o rest]
Lenient(s) == [s EXCEPT !.lenient = TRUE]

Length(n) == Header("Content-Length", n)
Encoding(e) == Header("Transfer-Encoding", e)
Connection(v) == Header("Connection", v)
Folded == Raw("X", "  a" \o CRLF \o "\tb\n", "a\tb")
Empty == Raw("E", " " \o CRLF, "")
EmptyFolded == Raw("Copy", "\n \n", "")

Get == Request("GET", "/a?b#c", <<Header("H", "h")>>, NoBody)
Post == Request("POST", "/", <<Length("3")>>, Plain("xyz"))
Chunks == Request("PUT", "a://h:1/", <<Encoding("gzip, chunked")>>,
                  Chunked(<<"a", "bcdefghijklmnopqr">>, <<Header("T", "v")>>))
Bare(methods) == [i \in DOMAIN methods |-> Request(methods[i], "*", <<>>, NoBody)]
Ok(headers, body) == Response("200", "OK", headers, body)

Requests == {
    Accepted("REQUEST", <<Get, Post, Chunks>>, Plainly),
    Accepted("REQUEST", <<Post, Chunks, Get>>, Pausing \cup Failing),
    Accepted("REQUEST", <<Request("OPTIONS", "*", <<Empty, Connection("close")>>, NoBody)>>, Plainly),
    Accepted("REQUEST", <<Request("GET", "/", <<Folded, EmptyFolded, Connection("a,close")>>, NoBody)>>, Plainly),
    Accepted("REQUEST", Bare(<<"DELETE", "COPY", "CHECKOUT", "PATCH", "PURGE", "PROPPATCH">>), Plainly),
    Accepted("REQUEST", Bare(<<"MKCALENDAR", "M-SEARCH", "REBIND", "UNLINK", "UNBIND">>), Plainly),
    Accepted("REQUEST", Bare(<<"LINK", "SEARCH", "MERGE", "ACL", "MKACTIVITY", "NOTIFY">>), Plainly),
    Accepted("REQUEST", <<Request("GET", "/", <<Length("0"), Header("Proxy-Connection", "k")>>, NoBody), Get>>, Plainly),
    Accepted("REQUEST", <<Line(Request("GET", "/a", <<Connection("keep-alive")>>, NoBody),
                               "GET /a HTTP/1.0\n"), Line(Get, "GET /a?b#c\n")>>, Plainly),
    Accepted("BOTH", <<Request("HEAD", "/", <<Header("Ti", "u")>>, NoBody), Post>>, Plainly),
    Tail_(Accepted("REQUEST", <<Request("GET", "/", <<Connection("keep-alive, upgrade"),
                                          Header("Upgrade", "w")>>, NoBody)>>, Plainly), "raw"),
    Tail_(Accepted("REQUEST", <<Request("POST", "/", <<Header("Upgrade", "w"), Connection("upgrade"),
                                          Length("2")>>, Plain("xy"))>>, Plainly), "raw"),
    Tail_(Accepted("REQUEST", <<Request("CONNECT", "h:1", <<>>, NoBody)>>, Plainly), "raw"),
    Lenient(Accepted("REQUEST", <<Request("POST", "/", <<Length("3"), Encoding("gzip")>>,
                                          Plain("to the end"))>>, Plainly))}

Responses == {
    Accepted("RESPONSE", <<Response("100", "Go", <<>>, NoBody), Ok(<<Length("12")>>, Plain("abcdefghijkl")),
                           Response("204", "No", <<>>, NoBody)>>, Plainly \cup {At("status", "pause")}),
    Accepted("RESPONSE", <<Ok(<<Encoding("chunked")>>, Chunked(<<"abc">>, <<>>)),
                           Ok(<<>>, Plain("to the end"))>>, Plainly),
    Accepted("RESPONSE", <<Ok(<<Encoding("chunked, gzip")>>, Plain("end"))>>, Plainly),
    Accepted("BOTH", <<Line(Response("304", "", <<>>, NoBody), "HTTP/1.1 304\n")>>, Plainly),
    Accepted("RESPONSE", <<Ok(<<Length("5")>>, NoBody)>>, {At("headers_complete", "skip")}),
    Tail_(Accepted("RESPONSE", <<Ok(<<Length("5")>>, NoBody)>>,
                   {At("headers_complete", "upgrade")}), "raw"),
    Tail_(Accepted("RESPONSE", <<Response("101", "S", <<Connection("upgrade"), Header("Upgrade", "w")>>,
                                          NoBody)>>, Plainly), "raw")}

-----------------------------------------------------------------------------
Bad(rest, error) == RefusedAfter("REQUEST", <<>>, rest, error)
BadHead(rest, error) == Bad("GET / HTTP/1.1" \o CRLF \o rest, error)
BadAnswer(rest, error) == RefusedAfter("RESPONSE", <<>>, rest, error)
BadChunk(rest, error) ==
    BadHead("Transfer-Encoding: chunked" \o CRLF \o CRLF \o rest, error)
Xs(n) == Joining([i \in 1..n |-> "x"])
Long == Xs(60)
OneTooMany == Request("GET", "/", <<Header("A", Xs(78))>>, NoBody)

Errors == {
    Bad("GEX", "INVALID_METHOD"), Bad("1", "INVALID_METHOD"), Bad("GET a b", "INVALID_URL"),
    Bad("GET /\t", "INVALID_URL"), Bad("GET / X", "INVALID_CONSTANT"),
    Bad("GET / I", "INVALID_CONSTANT"), Bad("GET / HTX", "STRICT"),
    Bad("GET / HTTP/x", "INVALID_VERSION"), Bad("GET / HTTP/1x", "INVALID_VERSION"),
    Bad("GET / HTTP/1.1x", "INVALID_VERSION"), Bad("GET / HTTP/1.1\rx", "LF_EXPECTED"),
    Bad("SOURCE / ICE/1.0\r\nA", "INVALID_EOF_STATE"),
    BadHead(" A", "INVALID_HEADER_TOKEN"), BadHead("A B: c", "INVALID_HEADER_TOKEN"),
    BadHead("A: b\f", "INVALID_HEADER_TOKEN"), BadHead("A:\r\nB: c\r\n\r\r", "STRICT"), BadHead("A: b\rc", "LF_EXPECTED"),
    BadHead("Content-Length: 3\nContent-Length: 3\n\n", "UNEXPECTED_CONTENT_LENGTH"),
    BadHead("Content-Length: 3x", "INVALID_CONTENT_LENGTH"),
    BadHead("Content-Length: 3 4", "INVALID_CONTENT_LENGTH"),
    BadHead("Content-Length: 3\n 4", "INVALID_CONTENT_LENGTH"),
    BadHead("Content-Length:\n\n", "INVALID_CONTENT_LENGTH"),
    BadHead("Content-Length: 1999\nContent-length: 1", "UNEXPECTED_CONTENT_LENGTH"),
    BadHead("Content-Length: 2000", "INVALID_CONTENT_LENGTH"),
    BadHead("Content-Length: 1\nTransfer-Encoding: chunked\n\n", "UNEXPECTED_CONTENT_LENGTH"),
    BadHead("Transfer-Encoding: chunked,gzip\n\n", "INVALID_TRANSFER_ENCODING"),
    BadHead("A: " \o Long \o Long, "HEADER_OVERFLOW"),
    BadHead(Long \o Long \o ":", "HEADER_OVERFLOW"),
    BadHead("A: " \o Long \o "\nB: " \o Long \o "\n\n", "HEADER_OVERFLOW"),
    [Accepted("REQUEST", <<OneTooMany>>, Plainly) EXCEPT !.told = <<>>, !.error = "HEADER_OVERFLOW"],
    BadChunk("g", "INVALID_CHUNK_SIZE"), BadChunk("1g", "INVALID_CHUNK_SIZE"),
    BadChunk("1;x\r\nab", "STRICT"), BadChunk("7d0", "INVALID_CONTENT_LENGTH"),
    BadChunk("1\r\na\r\n7cF\r\nb", "INVALID_EOF_STATE"),
    BadAnswer("HTTP/1.1 2x", "INVALID_STATUS"), BadAnswer("HTTP/1.1 x", "INVALID_STATUS"),
    BadAnswer("HTTP/1.1 1000", "INVALID_STATUS"), BadAnswer("X", "INVALID_CONSTANT"),
    BadAnswer("HTTP/1.1 200 OK\rx", "STRICT"),
    RefusedAfter("BOTH", <<>>, "HX", "INVALID_CONSTANT"),
    RefusedAfter("REQUEST", <<Request("GET", "/", <<Connection("close")>>, NoBody)>>,
                 "\nGET", "CLOSED_CONNECTION"),
    RefusedAfter("REQUEST", <<Post>>, "POS", "INVALID_EOF_STATE")}

MCStreams == Requests \cup Responses \cup Errors

-----------------------------------------------------------------------------
MCSchemaParts == {"", "a://", "ab://"}
MCUserParts == {"", "u@", "u:p@", "@"}
MCHostParts == {"", "h", "h-.1", "[::1]", "[fe::%z]", "[x]"}
MCPortParts == {"", ":", ":80", ":99", ":100"}
MCPathParts == {"", "/", "/a:b@", "*"}
MCQueryParts == {"", "?", "?q/?"}
MCFragmentParts == {"", "#", "#f?#"}

ParserIdle ==
    /\ stream = [data |-> "", error |-> "OK", told |-> <<>>, head |-> 0]
    /\ fed = 0 /\ events = <<>> /\ asserts = TRUE /\ closed = TRUE
    /\ parser = http_parser_init("REQUEST", At("none", "none"), FALSE)
UrlIdle ==
    /\ parts = [schema |-> "", user |-> "", host |-> "", port |-> "", path |-> "",
                query |-> "", fragment |-> ""]
    /\ connect = FALSE /\ result = Refused

MCInit ==
    /\ side \in {"message", "url", "reply"} /\ Init
    /\ IF side = "message" THEN ParserInit ELSE ParserIdle
    /\ IF side = "url" THEN UrlInit ELSE UrlIdle
MCNext ==
    \/ side = "message" /\ ParserNext /\ UNCHANGED <<side, urlVars, vars>>
    \/ side = "url" /\ ParseUrl /\ UNCHANGED <<side, parserVars, vars>>
    \/ side = "reply" /\ Next /\ UNCHANGED <<side, parserVars, urlVars>>
messageVars == <<side, parserVars, urlVars, vars>>

MCSpec == MCInit /\ [][MCNext]_messageVars

-----------------------------------------------------------------------------
(* A head of one byte too many, of a user who pauses at its first callback. *)
MCPausedStreams == {Accepted("REQUEST", <<OneTooMany>>, {At("message_begin", "pause")})}

MessageSpec == side = "message" /\ Init /\ ParserInit /\ UrlIdle /\ [][MCNext]_messageVars
=============================================================================
