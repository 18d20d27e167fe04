----------------------------- MODULE HttpMessage -----------------------------
(* What the message parser promises.  A message is a record of its parts;   *)
(* Text is the message on the wire and Told the callbacks it must cause.    *)
(* The parser is right when every stream of messages, cut into pieces in    *)
(* any way, is told as it was written.                                      *)
EXTENDS HttpParser

CRLF == "\r\n"

(* A header line: raw is all that follows the colon, value what of it the   *)
(* user is told.                                                            *)
Header(name, value) == [name |-> name, raw |-> " " \o value \o CRLF, value |-> value]

NoBody == [kind |-> "none", pieces |-> <<>>, trailer |-> <<>>]
Plain(text) == [kind |-> "plain", pieces |-> <<text>>, trailer |-> <<>>]
Chunked(pieces, trailer) == [kind |-> "chunked", pieces |-> pieces, trailer |-> trailer]

Request(method, url, headers, body) ==
    [line |-> method \o " " \o url \o " HTTP/1.1" \o CRLF, told |-> <<"url", url>>,
     headers |-> headers, body |-> body]
Response(code, phrase, headers, body) ==
    [line |-> "HTTP/1.1 " \o code \o " " \o phrase \o CRLF, told |-> <<"status", phrase>>,
     headers |-> headers, body |-> body]

-----------------------------------------------------------------------------
Joining(texts) == FoldLeft(LAMBDA x, y : x \o y, "", texts)

HeaderText(hs) == Joining([i \in DOMAIN hs |-> hs[i].name \o ":" \o hs[i].raw])

HexDigit(n) == CharAt("0123456789abcdef", n + 1)
Hex(n) == (IF n < 16 THEN "" ELSE HexDigit(n \div 16)) \o HexDigit(n % 16)

ChunkText(c) == Hex(Len(c)) \o CRLF \o c \o CRLF

BodyText(b) ==
    IF b.kind # "chunked" THEN Joining(b.pieces)
    ELSE Joining([i \in DOMAIN b.pieces |-> ChunkText(b.pieces[i])])
         \o "0" \o CRLF \o HeaderText(b.trailer) \o CRLF

HeadText(m) == m.line \o HeaderText(m.headers) \o CRLF
MessageText(m) == HeadText(m) \o BodyText(m.body)

-----------------------------------------------------------------------------
HeaderTold(hs) == FlattenSeq([i \in DOMAIN hs |->
    <<<<"header_field", hs[i].name>>, <<"header_value", hs[i].value>>>>])

ChunkTold(c) == <<<<"chunk_header", "">>, <<"body", c>>, <<"chunk_complete", "">>>>

BodyTold(b) ==
    CASE b.kind = "none" -> <<>>
      [] b.kind = "plain" -> <<<<"body", b.pieces[1]>>>>
      [] OTHER -> FlattenSeq([i \in DOMAIN b.pieces |-> ChunkTold(b.pieces[i])])
                  \o <<<<"chunk_header", "">>>> \o HeaderTold(b.trailer)
                  \o <<<<"chunk_complete", "">>>>

MessageTold(m) ==
    <<<<"message_begin", "">>, m.told>> \o HeaderTold(m.headers)
    \o <<<<"headers_complete", "">>>> \o BodyTold(m.body) \o <<<<"message_complete", "">>>>

(* A stream of messages that a right parser tells whole, and one whose last *)
(* part it must refuse with the error.                                      *)
Accepted(type, messages, users) ==
    [type |-> type, lenient |-> FALSE, users |-> users, error |-> "OK",
     data |-> Joining([i \in DOMAIN messages |-> MessageText(messages[i])]),
     told |-> FlattenSeq([i \in DOMAIN messages |-> MessageTold(messages[i])]),
     head |-> IF messages = <<>> THEN 0 ELSE Len(HeadText(messages[1]))]

RefusedAfter(type, messages, rest, error) ==
    LET s == Accepted(type, messages, {[at |-> "none", reply |-> "none"]})
    IN  [s EXCEPT !.data = @ \o rest, !.error = error]

-----------------------------------------------------------------------------
Failed == parser.http_errno \notin {"OK", "PAUSED"}
Ended == closed \/ Failed \/ Upgraded

(* The events so far are the first of those told, the last perhaps in part. *)
TellsPartOf(told) ==
    LET n == Len(events)
    IN  /\ n <= Len(told)
        /\ \A i \in 1..(n - 1) : events[i] = told[i]
        /\ n > 0 => /\ events[n][1] = told[n][1]
                    /\ IsPrefix(events[n][2], told[n][2])

Completed(es) == Cardinality({i \in DOMAIN es : es[i][1] = "message_complete"})

(* However the stream is cut into pieces, and wherever the user pauses the  *)
(* parser and lets it go on, no byte is told that was not sent, in another  *)
(* place or twice; when the stream ends everything was told; a stream in    *)
(* error is refused with its error and no more messages are completed than  *)
(* came before it.                                                          *)
ToldAsSent ==
    IF stream.error = "OK"
    THEN /\ TellsPartOf(stream.told)
         /\ Failed => parser.user.reply = "fail"
         /\ Ended /\ ~Failed => events = stream.told
    ELSE /\ Completed(events) <= Completed(stream.told)
         /\ Ended => parser.http_errno = stream.error

(* The pieces leave no trace: after the same bytes in one piece the parser, *)
(* with its counters and half-matched words, and what was told are the      *)
(* same.                                                                    *)
Whole == http_parser_execute(http_parser_init(stream.type, parser.user, stream.lenient),
                             SubSeq(stream.data, 1, fed))

CutsLeaveNoTrace ==
    ~closed /\ parser.user.reply # "pause" /\ parser.http_errno = "OK" /\ fed > 0 =>
        LET r == Whole IN Kept(r) = parser /\ r.events = events

(* The code's own assertions: a callback is made in a call without error,   *)
(* one datum at most is cut by the end of a piece, a chunk's size starts on  *)
(* a fresh count, a body expects bytes.                                      *)
AssertsHold == asserts

(* The headers of a message that is accepted have max_header_size bytes at  *)
(* most, the first line among them (http_parser.c:143).                     *)
HeaderLimit ==
    (\E i \in DOMAIN events : events[i][1] = "headers_complete") => stream.head <= MaxHeader

(* So it is of a user who never pauses.  A callback that pauses returns     *)
(* without storing the count of the call (http_parser.c:84-93), and the     *)
(* bytes of that call are not counted: there HeaderLimit fails.             *)
LimitUnpaused == parser.user.reply # "pause" => HeaderLimit
=============================================================================
