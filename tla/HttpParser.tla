----------------------------- MODULE HttpParser -----------------------------
(* http_parser.c: http_parser_execute, fed a stream of bytes in pieces of   *)
(* any length, for requests and responses, with callbacks that accept, fail,*)
(* pause the parser or (on_headers_complete) skip the body.                 *)
(*                                                                          *)
(* A parser is struct http_parser as a record.  During a call the record    *)
(* also holds the call's local variables: data, p (from 1), the marks, the  *)
(* local nread, and ret, the value returned (-1 while the call runs).       *)
EXTENDS UrlBytes, SequencesExt

CONSTANTS
    MaxHeader,       \* max_header_size
    MaxLength,       \* ULLONG_MAX
    Callbacks,       \* the callbacks the settings name
    Streams,         \* what may be sent: bytes, type of parser, users
    Pieces           \* how long a piece given to one call may be

(* How long a piece may be of n bytes left: one of the lengths, or all.     *)
PieceLengths(n) == {k \in Pieces : k < n} \cup {n}

(* A text and a piece of it have a length, and a digit the value of one: of *)
(* a string the provers know neither, and TLC evaluates both.               *)
ASSUME ParserAssumption ==
    /\ MaxHeader \in Nat /\ MaxLength \in Nat /\ MaxLength >= 16
    /\ Pieces \subseteq Nat \ {0}
    /\ \A s \in Streams : Len(s.data) \in Nat
    /\ \A s \in Streams : \A f \in 0..(Len(s.data) - 1) :
            \A n \in PieceLengths(Len(s.data) - f) : Len(SubSeq(s.data, f + 1, f + n)) = n
    /\ \A c \in Digits : DigitValue(c) \in 0..9
    /\ \A c \in HexDigits : HexValue(c) \in 0..15

VARIABLES
    stream,          \* what is sent on the connection
    fed,             \* bytes of it that the parser has consumed
    parser,          \* struct http_parser
    events,          \* callbacks made, adjacent pieces of one datum joined
    asserts,         \* every assert of the code held
    closed           \* the parser was told of the end of the stream

parserVars == <<stream, fed, parser, events, asserts, closed>>

CR == "\r"
LF == "\n"

-----------------------------------------------------------------------------
(* enum state and its tables.                                               *)

(* States that expect one byte: the byte, the next state, the error.        *)
Literal ==
    [s_res_H |-> <<"T", "s_res_HT", "STRICT">>,
     s_res_HT |-> <<"T", "s_res_HTT", "STRICT">>,
     s_res_HTT |-> <<"P", "s_res_HTTP", "STRICT">>,
     s_res_HTTP |-> <<"/", "s_res_http_major", "STRICT">>,
     s_res_http_dot |-> <<".", "s_res_http_minor", "INVALID_VERSION">>,
     s_res_http_end |-> <<" ", "s_res_first_status_code", "INVALID_VERSION">>,
     s_res_line_almost_done |-> <<LF, "s_header_field_start", "STRICT">>,
     s_req_http_H |-> <<"T", "s_req_http_HT", "STRICT">>,
     s_req_http_HT |-> <<"T", "s_req_http_HTT", "STRICT">>,
     s_req_http_HTT |-> <<"P", "s_req_http_HTTP", "STRICT">>,
     s_req_http_I |-> <<"C", "s_req_http_IC", "STRICT">>,
     s_req_http_IC |-> <<"E", "s_req_http_HTTP", "STRICT">>,
     s_req_http_HTTP |-> <<"/", "s_req_http_major", "STRICT">>,
     s_req_http_dot |-> <<".", "s_req_http_minor", "INVALID_VERSION">>,
     s_req_line_almost_done |-> <<LF, "s_header_field_start", "LF_EXPECTED">>,
     s_header_almost_done |-> <<LF, "s_header_value_lws", "LF_EXPECTED">>,
     s_header_value_discard_ws_almost_done |->
         <<LF, "s_header_value_discard_lws", "STRICT">>]

(* States that read one digit of the version.                               *)
Version == [s_res_http_major |-> <<"http_major", "s_res_http_dot">>,
            s_res_http_minor |-> <<"http_minor", "s_res_http_end">>,
            s_req_http_major |-> <<"http_major", "s_req_http_dot">>,
            s_req_http_minor |-> <<"http_minor", "s_req_http_end">>]

BodyStates == {"s_chunk_data", "s_chunk_data_almost_done", "s_chunk_data_done",
               "s_body_identity", "s_body_identity_eof", "s_message_done"}

(* The method guessed from the first byte, and the guesses that a later     *)
(* byte at a position corrects.                                             *)
FirstMethod == [A |-> "ACL", B |-> "BIND", C |-> "CONNECT", D |-> "DELETE", G |-> "GET",
                H |-> "HEAD", L |-> "LOCK", M |-> "MKCOL", N |-> "NOTIFY", O |-> "OPTIONS",
                P |-> "POST", R |-> "REPORT", S |-> "SUBSCRIBE", T |-> "TRACE",
                U |-> "UNLOCK"]

OtherMethod == {
    <<"POST", 1, "U", "PUT">>, <<"POST", 1, "A", "PATCH">>, <<"POST", 1, "R", "PROPFIND">>,
    <<"PUT", 2, "R", "PURGE">>, <<"CONNECT", 1, "H", "CHECKOUT">>,
    <<"CONNECT", 2, "P", "COPY">>, <<"MKCOL", 1, "O", "MOVE">>, <<"MKCOL", 1, "E", "MERGE">>,
    <<"MKCOL", 1, "-", "M-SEARCH">>, <<"MKCOL", 2, "A", "MKACTIVITY">>,
    <<"MKCOL", 3, "A", "MKCALENDAR">>, <<"SUBSCRIBE", 1, "E", "SEARCH">>,
    <<"SUBSCRIBE", 1, "O", "SOURCE">>, <<"REPORT", 2, "B", "REBIND">>,
    <<"PROPFIND", 4, "P", "PROPPATCH">>, <<"LOCK", 1, "I", "LINK">>,
    <<"UNLOCK", 2, "S", "UNSUBSCRIBE">>, <<"UNLOCK", 2, "B", "UNBIND">>,
    <<"UNLOCK", 3, "I", "UNLINK">>}

(* Header names and values that matter: the word a header_state matches,    *)
(* the header_state when all of it is there, and the one at a mismatch.     *)
FieldWord ==
    [h_matching_connection |-> <<"connection", "h_connection">>,
     h_matching_proxy_connection |-> <<"proxy-connection", "h_connection">>,
     h_matching_content_length |-> <<"content-length", "h_content_length">>,
     h_matching_transfer_encoding |-> <<"transfer-encoding", "h_transfer_encoding">>,
     h_matching_upgrade |-> <<"upgrade", "h_upgrade">>]

ValueWord ==
    [h_matching_transfer_encoding_chunked |->
         <<"chunked", "h_transfer_encoding_chunked", "h_matching_transfer_encoding_token">>,
     h_matching_connection_keep_alive |->
         <<"keep-alive", "h_connection_keep_alive", "h_matching_connection_token">>,
     h_matching_connection_close |->
         <<"close", "h_connection_close", "h_matching_connection_token">>,
     h_matching_connection_upgrade |->
         <<"upgrade", "h_connection_upgrade", "h_matching_connection_token">>]

(* The flag a header sets when its value ends in a header_state.            *)
ValueFlag == [h_connection_keep_alive |-> "CONNECTION_KEEP_ALIVE",
              h_connection_close |-> "CONNECTION_CLOSE",
              h_transfer_encoding_chunked |-> "CHUNKED",
              h_connection_upgrade |-> "CONNECTION_UPGRADE"]

ConnectionStart == [k |-> "h_matching_connection_keep_alive",
                    c |-> "h_matching_connection_close",
                    u |-> "h_matching_connection_upgrade"]

TokenChars == Letters \cup Digits \cup CharsOf("!#$%&'*+-.^_|~") \cup {"0x60"}
LowerCase(c) == IF c \in Upper THEN Lower[c] ELSE c
HeaderChar(c) == c \in {CR, LF, "\t"} \/ (Code[c] > 31 /\ Code[c] # 127)

-----------------------------------------------------------------------------
(* The macros of the code on the record of a running call.                  *)
Marks == {"header_field", "header_value", "url", "body", "status"}
NoMarks == [m \in Marks |-> 0]

Ch(q) == CharAt(q.data, q.p)
Stopped(q) == q.ret # -1
Goto(q, s) == [q EXCEPT !.state = s]
Again(q) == [q EXCEPT !.again = TRUE]                      \* REEXECUTE
Flag(q, f) == [q EXCEPT !.flags = @ \cup {f}]
Return(q, v) == [q EXCEPT !.saved = q.nread, !.ret = v]    \* RETURN
Fail(q, e) == Return([q EXCEPT !.http_errno = e], q.p - 1) \* SET_ERRNO, goto error
Assert_(q, held) == [q EXCEPT !.asserts = @ /\ held]
Mark(q, m) == IF q.mark[m] = 0 THEN [q EXCEPT !.mark[m] = q.p] ELSE q

\* Mutant: the limit is compared before the bytes are added.
CountsLate(q, n) ==
    IF q.nread > MaxHeader THEN Fail(q, "HEADER_OVERFLOW") ELSE [q EXCEPT !.nread = @ + n]

Count(q, n) ==                                             \* COUNT_HEADER_SIZE
    LET r == [q EXCEPT !.nread = @ + n]
    IN  IF r.nread > MaxHeader THEN Fail(r, "HEADER_OVERFLOW") ELSE r

(* What a callback answers: http_parser_pause and 0, or not 0; the call     *)
(* then returns er.  Only the second saves nread.                           *)
React(q, name, er) ==
    IF q.user.at # name THEN q
    ELSE IF q.user.reply = "pause" THEN [q EXCEPT !.http_errno = "PAUSED", !.ret = er]
    ELSE IF q.user.reply = "fail" THEN Return([q EXCEPT !.http_errno = "CB"], er)
    ELSE q

Emit(q, name, piece) ==
    LET n == Len(q.events)
        joins == n > 0 /\ name \in Marks /\ q.events[n][1] = name
    IN  IF joins THEN [q EXCEPT !.events[n][2] = @ \o piece]
        ELSE [q EXCEPT !.events = Append(@, <<name, piece>>)]

(* A callback is made only while the call has met no error.                 *)
NoError(q) == Assert_(q, q.http_errno = "OK")

Notify(q, name, er) ==
    IF name \in Callbacks THEN React(Emit(NoError(q), name, ""), name, er) ELSE NoError(q)

Unmark(q, name) == IF Stopped(q) THEN q ELSE [q EXCEPT !.mark[name] = 0]

(* The bytes from the mark to the one at position last.                     *)
DataOf(q, name, last, er) ==
    IF q.mark[name] = 0 THEN q
    ELSE IF name \notin Callbacks THEN Unmark(q, name)
    ELSE Unmark(React(Emit(q, name, SubSeq(q.data, q.mark[name], last)), name, er), name)
Data(q, name, last, er) == DataOf(NoError(q), name, last, er)

CallData(q, name) == Data(q, name, q.p - 1, q.p)           \* CALLBACK_DATA
CallDataNoAdvance(q, name) == Data(q, name, q.p - 1, q.p - 1)
CallNotify(q, name) == Notify(q, name, q.p)                \* CALLBACK_NOTIFY
CallNotifyNoAdvance(q, name) == Notify(q, name, q.p - 1)

Then(q, Op(_)) == IF Stopped(q) THEN q ELSE Op(q)

(* A loop: n turns, or some more of those that change nothing any more, in  *)
(* rows of sixteen, which keep the recursion low.                           *)
Row == 16
Turns(Body(_), q) ==
    LET after[k \in Nat] == IF k = 0 THEN q ELSE Body(after[k - 1])
    IN  IF Stopped(q) THEN q ELSE after[Row]
Loop(Body(_), q, n) ==
    LET after[k \in Nat] == IF k = 0 THEN q ELSE Turns(Body, after[k - 1])
    IN  after[(n \div Row) + 1]

\* Mutant: only the parser's own counter is reset, not the call's copy.
OldCount(q) == [q EXCEPT !.saved = 0]

NewCount(q) == [q EXCEPT !.nread = 0, !.saved = 0]

-----------------------------------------------------------------------------
(* Does the message end with the stream?  May another follow it?            *)
http_message_needs_eof(q) ==
    /\ q.type # "REQUEST"
    /\ ~(q.status_code \div 100 = 1 \/ q.status_code \in {204, 304})
    /\ "SKIPBODY" \notin q.flags
    /\ "CHUNKED" \notin q.flags
    /\ "TRANSFER_ENCODING" \in q.flags \/ q.content_length = MaxLength

http_should_keep_alive(q) ==
    /\ IF q.http_major > 0 /\ q.http_minor > 0 THEN "CONNECTION_CLOSE" \notin q.flags
       ELSE "CONNECTION_KEEP_ALIVE" \in q.flags
    /\ ~http_message_needs_eof(q)

NewMessage(q) ==
    Goto(q, IF ~http_should_keep_alive(q) THEN "s_dead"
            ELSE IF q.type = "REQUEST" THEN "s_start_req" ELSE "s_start_res")

Complete(q) == CallNotify(NewMessage(q), "message_complete")

-----------------------------------------------------------------------------
(* The first line of a message.                                             *)
Begin(q) == [q EXCEPT !.flags = {}, !.content_length = MaxLength]

Start(q) ==
    LET b == Begin(q)
        c == Ch(q)
    IN  IF c \in {CR, LF} THEN q
        ELSE CASE q.state = "s_start_req_or_res" ->
                IF c = "H" THEN CallNotify(Goto(b, "s_res_or_resp_H"), "message_begin")
                ELSE Again(Goto([b EXCEPT !.type = "REQUEST"], "s_start_req"))
          [] q.state = "s_start_res" ->
                IF c = "H" THEN CallNotify(Goto(b, "s_res_H"), "message_begin")
                ELSE Fail(b, "INVALID_CONSTANT")
          [] OTHER ->
                IF c \in DOMAIN FirstMethod
                THEN CallNotify(Goto([b EXCEPT !.method = FirstMethod[c], !.index = 1],
                                     "s_req_method"), "message_begin")
                ELSE Fail(b, "INVALID_METHOD")

ResponseOrRequest(q) ==
    CASE Ch(q) = "T" -> Goto([q EXCEPT !.type = "RESPONSE"], "s_res_HT")
      [] Ch(q) = "E" -> Goto([q EXCEPT !.type = "REQUEST", !.method = "HEAD", !.index = 2],
                             "s_req_method")
      [] OTHER -> Fail(q, "INVALID_CONSTANT")

OneByte(q) ==
    LET rule == Literal[q.state]
    IN  IF Ch(q) = rule[1] THEN Goto(q, rule[2]) ELSE Fail(q, rule[3])

VersionDigit(q) ==
    LET rule == Version[q.state]
    IN  IF Ch(q) \in Digits THEN Goto([q EXCEPT ![rule[1]] = DigitValue(Ch(q))], rule[2])
        ELSE Fail(q, "INVALID_VERSION")

StatusCode(q) ==
    LET c == Ch(q)
        value == q.status_code * 10 + DigitValue(c)
    IN  IF q.state = "s_res_first_status_code"
        THEN CASE c \in Digits ->
                    Goto([q EXCEPT !.status_code = DigitValue(c)], "s_res_status_code")
               [] c = " " -> q
               [] OTHER -> Fail(q, "INVALID_STATUS")
        ELSE CASE c \in Digits ->
                    IF value > 999 THEN Fail([q EXCEPT !.status_code = value], "INVALID_STATUS")
                    ELSE [q EXCEPT !.status_code = value]
               [] c = " " -> Goto(q, "s_res_status_start")
               [] c \in {CR, LF} -> Again(Goto(q, "s_res_status_start"))
               [] OTHER -> Fail(q, "INVALID_STATUS")

StatusText(q) ==
    LET c == Ch(q)
        started == Goto([Mark(q, "status") EXCEPT !.index = 0], "s_res_status")
    IN  IF q.state = "s_res_status_start"
        THEN IF c \in {CR, LF} THEN Again(started) ELSE started
        ELSE CASE c = CR -> CallData(Goto(q, "s_res_line_almost_done"), "status")
               [] c = LF -> CallData(Goto(q, "s_header_field_start"), "status")
               [] OTHER -> q

MethodByte(q) ==
    LET c == Ch(q)
        fits == OffsetAt(q.method, q.index)
        other == {r \in OtherMethod : r[1] = q.method /\ r[2] = q.index /\ r[3] = c}
        next == [q EXCEPT !.index = @ + 1]
    IN  CASE c = " " /\ fits = "NUL" -> Goto(next, "s_req_spaces_before_url")
          [] c = fits /\ c # "NUL" -> next
          [] other # {} -> [next EXCEPT !.method = (CHOOSE r \in other : TRUE)[4]]
          [] OTHER -> Fail(q, "INVALID_METHOD")

UrlByte(q) ==
    LET r == Goto(q, parse_url_char(q.state, Ch(q)))
    IN  IF r.state = "s_dead" THEN Fail(r, "INVALID_URL") ELSE r

UrlStart(q) ==
    IF Ch(q) = " " THEN q
    ELSE LET r == Mark(q, "url")
         IN  UrlByte(IF q.method = "CONNECT" THEN Goto(r, "s_req_server_start") ELSE r)

(* A blank ends the address, an end of line the request (HTTP/0.9).         *)
Url(q) ==
    LET c == Ch(q)
        old == [q EXCEPT !.http_major = 0, !.http_minor = 9]
        inside == q.state \notin {"s_req_schema", "s_req_schema_slash",
                                  "s_req_schema_slash_slash", "s_req_server_start"}
    IN  CASE c = " " /\ inside -> CallData(Goto(q, "s_req_http_start"), "url")
          [] c = CR /\ inside -> CallData(Goto(old, "s_req_line_almost_done"), "url")
          [] c = LF /\ inside -> CallData(Goto(old, "s_header_field_start"), "url")
          [] c \in {" ", CR, LF} /\ ~inside -> Fail(q, "INVALID_URL")
          [] OTHER -> UrlByte(q)

AfterUrl(q) ==
    CASE Ch(q) = " " -> q
      [] Ch(q) = "H" -> Goto(q, "s_req_http_H")
      [] Ch(q) = "I" /\ q.method = "SOURCE" -> Goto(q, "s_req_http_I")
      [] OTHER -> Fail(q, "INVALID_CONSTANT")

RequestLineEnd(q) ==
    CASE Ch(q) = CR -> Goto(q, "s_req_line_almost_done")
      [] Ch(q) = LF -> Goto(q, "s_header_field_start")
      [] OTHER -> Fail(q, "INVALID_VERSION")

-----------------------------------------------------------------------------
(* The name of a header.                                                    *)
FieldStart(q) ==
    LET c == Ch(q)
        guess == CASE LowerCase(c) = "c" -> "h_C"
                   [] LowerCase(c) = "p" -> "h_matching_proxy_connection"
                   [] LowerCase(c) = "t" -> "h_matching_transfer_encoding"
                   [] LowerCase(c) = "u" -> "h_matching_upgrade"
                   [] OTHER -> "h_general"
    IN  IF c = CR THEN Goto(q, "s_headers_almost_done")
        ELSE IF c = LF THEN Again(Goto(q, "s_headers_almost_done"))
        ELSE IF c \notin TokenChars THEN Fail(q, "INVALID_HEADER_TOKEN")
        ELSE Goto([Mark(q, "header_field") EXCEPT !.index = 0, !.header_state = guess],
                  "s_header_field")

(* One more byte of a word being matched, at index + 1.                     *)
MatchWord(q, c, rule, mismatch) ==
    LET i == q.index + 1
        next == IF c # OffsetAt(rule[1], i) THEN mismatch
                ELSE IF i = Len(rule[1]) - 1 THEN rule[2] ELSE q.header_state
    IN  [q EXCEPT !.index = i, !.header_state = next]

FieldByte(q, c) ==
    LET h == q.header_state
        next == [q EXCEPT !.index = @ + 1]
    IN  CASE h = "h_C" -> [next EXCEPT !.header_state = IF c = "o" THEN "h_CO" ELSE "h_general"]
          [] h = "h_CO" -> [next EXCEPT !.header_state = IF c = "n" THEN "h_CON" ELSE "h_general"]
          [] h = "h_CON" -> [next EXCEPT !.header_state =
                                CASE c = "n" -> "h_matching_connection"
                                  [] c = "t" -> "h_matching_content_length"
                                  [] OTHER -> "h_general"]
          [] h \in DOMAIN FieldWord ->
                LET r == MatchWord(q, c, FieldWord[h], "h_general")
                IN  IF r.header_state = "h_transfer_encoding"
                    THEN Flag(r, "TRANSFER_ENCODING") ELSE r
          [] h \in {"h_connection", "h_content_length", "h_transfer_encoding", "h_upgrade"} ->
                [q EXCEPT !.header_state = "h_general"]
          [] h = "h_general" -> q
          [] OTHER -> Assert_(q, FALSE)

(* The name's bytes in this piece.                                          *)
NextFieldByte(q) ==
    IF q.p > Len(q.data) \/ Ch(q) \notin TokenChars THEN q
    ELSE [FieldByte(q, LowerCase(Ch(q))) EXCEPT !.p = @ + 1]

FieldBytes(q) == Loop(NextFieldByte, q, Len(q.data) - q.p)

Named(q) == IF Ch(q) = ":" THEN CallData(Goto(q, "s_header_value_discard_ws"), "header_field")
            ELSE Fail(q, "INVALID_HEADER_TOKEN")

(* A run of the name's bytes in one piece, counted at its end.              *)
EndOfField(r, n) ==
    IF r.p > Len(r.data) THEN Count([r EXCEPT !.p = @ - 1], n - 1)
    ELSE Then(Count(r, n), Named)

FieldRun(q) == LET r == FieldBytes(q) IN EndOfField(r, r.p - q.p)

-----------------------------------------------------------------------------
(* The value of a header.                                                   *)
ValueStart(q) ==
    LET c == Ch(q)
        low == Lower[c]
        h == q.header_state
        r == Goto([Mark(q, "header_value") EXCEPT !.index = 0], "s_header_value")
    IN  CASE h = "h_upgrade" -> [Flag(r, "UPGRADE") EXCEPT !.header_state = "h_general"]
          [] h = "h_transfer_encoding" ->
                [r EXCEPT !.header_state = IF low = "c" THEN "h_matching_transfer_encoding_chunked"
                                           ELSE "h_matching_transfer_encoding_token"]
          [] h = "h_content_length" ->
                IF c \notin Digits THEN Fail(r, "INVALID_CONTENT_LENGTH")
                ELSE IF "CONTENTLENGTH" \in r.flags THEN Fail(r, "UNEXPECTED_CONTENT_LENGTH")
                ELSE [Flag(r, "CONTENTLENGTH") EXCEPT !.content_length = DigitValue(c),
                                                      !.header_state = "h_content_length_num"]
          [] h = "h_connection" ->
                [r EXCEPT !.header_state = IF low \in DOMAIN ConnectionStart
                                           THEN ConnectionStart[low]
                                           ELSE "h_matching_connection_token"]
          [] h \in {"h_matching_transfer_encoding_token_start", "h_content_length_ws",
                    "h_matching_connection_token_start"} -> r
          [] OTHER -> [r EXCEPT !.header_state = "h_general"]

ValueBlank(q) ==
    CASE Ch(q) \in {" ", "\t"} -> q
      [] Ch(q) = CR -> Goto(q, "s_header_value_discard_ws_almost_done")
      [] Ch(q) = LF -> Goto(q, "s_header_value_discard_lws")
      [] OTHER -> ValueStart(q)

(* One byte of a value that is a list of tokens.  The blank that follows a  *)
(* comma is compared after LOWER, under which a tab is a parenthesis.       *)
TokenByte(q, c) ==
    LET h == q.header_state
        low == Lower[c]
        To(s) == [q EXCEPT !.header_state = s]
        Next(s) == [q EXCEPT !.header_state = s, !.index = 0]
        blank == IF low \in {" ", "\t"} THEN h ELSE "h_general"
    IN  CASE h = "h_matching_transfer_encoding_token_start" ->
                To(IF low = "c" THEN "h_matching_transfer_encoding_chunked"
                   ELSE IF low \in TokenChars THEN "h_matching_transfer_encoding_token"
                   ELSE blank)
          [] h = "h_matching_connection_token_start" ->
                To(IF low \in DOMAIN ConnectionStart THEN ConnectionStart[low]
                   ELSE IF low \in TokenChars THEN "h_matching_connection_token"
                   ELSE blank)
          [] h \in DOMAIN ValueWord -> MatchWord(q, low, ValueWord[h], ValueWord[h][3])
          [] h = "h_matching_transfer_encoding_token" ->
                IF c = "," THEN Next("h_matching_transfer_encoding_token_start") ELSE q
          [] h = "h_matching_connection_token" ->
                IF c = "," THEN Next("h_matching_connection_token_start") ELSE q
          [] h = "h_transfer_encoding_chunked" ->
                IF c = " " THEN q ELSE To("h_matching_transfer_encoding_token")
          [] OTHER ->
                IF c = "," THEN Flag(Next("h_matching_connection_token_start"), ValueFlag[h])
                ELSE IF c = " " THEN q ELSE To("h_matching_connection_token")

(* One byte of Content-Length: digits, then blanks.                         *)
LengthByte(q, c) ==
    LET h == IF q.header_state = "h_content_length" THEN "h_content_length_num"
             ELSE q.header_state
        r == [q EXCEPT !.header_state = h]
    IN  IF c = " "
        THEN IF q.header_state = "h_content_length" THEN q
             ELSE [r EXCEPT !.header_state = "h_content_length_ws"]
        ELSE IF \/ h = "h_content_length_ws" \/ c \notin Digits
                \/ (MaxLength - 10) \div 10 < q.content_length
        THEN Fail(r, "INVALID_CONTENT_LENGTH")
        ELSE [r EXCEPT !.content_length = @ * 10 + DigitValue(c)]

ValueByte(q, c) ==
    CASE q.header_state \in {"h_content_length", "h_content_length_num",
                             "h_content_length_ws"} -> LengthByte(q, c)
      [] q.header_state \in {"h_connection", "h_transfer_encoding"} -> Assert_(q, FALSE)
      [] q.header_state \in DOMAIN ValueWord \cup DOMAIN ValueFlag \cup
            {"h_matching_transfer_encoding_token_start", "h_matching_transfer_encoding_token",
             "h_matching_connection_token_start", "h_matching_connection_token"} ->
            TokenByte(q, c)
      [] OTHER -> [q EXCEPT !.header_state = "h_general"]

Refused_(q, i) == ~q.lenient /\ ~HeaderChar(CharAt(q.data, i))

(* The inner scan of a general value: to the end of line, the end of the    *)
(* piece or max_header_size bytes on.  At the last the byte there is passed *)
(* over unread.                                                             *)
GeneralScan(q, end) ==
    LET stops == {i \in q.p..(end - 1) : CharAt(q.data, i) \in {CR, LF} \/ Refused_(q, i)}
        r == [q EXCEPT !.p = IF stops = {} THEN end ELSE Min(stops)]
    IN  IF stops = {} THEN IF end > Len(q.data) THEN [r EXCEPT !.p = @ - 1] ELSE r
        ELSE IF Ch(r) \in {CR, LF} THEN [r EXCEPT !.p = @ - 1]
        ELSE Fail(r, "INVALID_HEADER_TOKEN")

Least(a, b) == IF a < b THEN a ELSE b

ReadValue(q) ==
    IF Refused_(q, q.p) THEN Fail(q, "INVALID_HEADER_TOKEN")
    ELSE IF q.header_state = "h_general"
    THEN GeneralScan(q, q.p + Least(Len(q.data) - q.p + 1, MaxHeader))
    ELSE ValueByte(q, Ch(q))

Advance(q) == IF Stopped(q) THEN q ELSE [q EXCEPT !.p = @ + 1]

(* The value's bytes in this piece: every turn passes at least one.         *)
NextValueBytes(q) ==
    IF Stopped(q) \/ q.p > Len(q.data) \/ Ch(q) \in {CR, LF} THEN q ELSE Advance(ReadValue(q))

ValueBytes(q) == Loop(NextValueBytes, q, Len(q.data) - q.p)

(* A run of the value's bytes in one piece, n of them before the one at p.  *)
(* The callback comes before the count when a CR ends the run, after the    *)
(* count when a LF does.                                                    *)
CountRun(q, n) == IF Stopped(q) THEN q ELSE Count(q, n)
ValueAtLf(q) == Again(CallDataNoAdvance(q, "header_value"))

EndOfRun(r, n) ==
    IF Stopped(r) THEN r
    ELSE IF r.p > Len(r.data) THEN Count([r EXCEPT !.p = @ - 1], n - 1)
    ELSE IF Ch(r) = CR
    THEN CountRun(CallData(Goto(r, "s_header_almost_done"), "header_value"), n)
    ELSE Then(Count(Goto(r, "s_header_almost_done"), n), ValueAtLf)

ValueRun(q) == LET r == ValueBytes(q) IN EndOfRun(r, r.p - q.p)

EndValue(q) ==
    IF q.header_state \in DOMAIN ValueFlag THEN Flag(q, ValueFlag[q.header_state]) ELSE q

(* After the end of line: a blank folds the value, anything else ends it.   *)
ValueFold(q) ==
    IF Ch(q) \in {" ", "\t"}
    THEN Again(Goto(IF q.header_state = "h_content_length_num"
                    THEN [q EXCEPT !.header_state = "h_content_length_ws"] ELSE q,
                    "s_header_value_start"))
    ELSE Again(Goto(EndValue(q), "s_header_field_start"))

EmptyValue(q) ==
    IF Ch(q) \in {" ", "\t"} THEN Goto(q, "s_header_value_discard_ws")
    ELSE IF q.header_state = "h_content_length" THEN Fail(q, "INVALID_CONTENT_LENGTH")
    ELSE Again(CallDataNoAdvance(Goto(Mark(EndValue(q), "header_value"), "s_header_field_start"),
                                 "header_value"))

-----------------------------------------------------------------------------
(* The end of the headers decides how the body is delimited.                *)
HeadersComplete(q) ==
    LET r == Emit(q, "headers_complete", "")
        hit == q.user.at = "headers_complete"
    IN  IF "headers_complete" \notin Callbacks THEN Again(q)
        ELSE CASE hit /\ q.user.reply = "pause" ->
                    Return([r EXCEPT !.http_errno = "PAUSED"], q.p - 1)
               [] hit /\ q.user.reply = "fail" -> Fail(r, "CB")
               [] hit /\ q.user.reply = "skip" -> Again(Flag(r, "SKIPBODY"))
               [] hit /\ q.user.reply = "upgrade" ->
                    Again(Flag([r EXCEPT !.upgrade = TRUE], "SKIPBODY"))
               [] OTHER -> Again(r)

HeadersAlmostDone(q) ==
    LET both == {"TRANSFER_ENCODING", "CONTENTLENGTH"} \subseteq q.flags
        upgrade == IF {"UPGRADE", "CONNECTION_UPGRADE"} \subseteq q.flags
                   THEN q.type = "REQUEST" \/ q.status_code = 101
                   ELSE q.method = "CONNECT"
    IN  IF Ch(q) # LF THEN Fail(q, "STRICT")
        ELSE IF "TRAILING" \in q.flags
        THEN Again(CallNotifyNoAdvance(Goto(q, "s_message_done"), "chunk_complete"))
        ELSE IF both /\ (~q.lenient \/ "CHUNKED" \in q.flags)
        THEN Fail(q, "UNEXPECTED_CONTENT_LENGTH")
        ELSE HeadersComplete(Goto([q EXCEPT !.upgrade = upgrade], "s_headers_done"))

(* After an upgrade what follows is left to the user.                       *)
Leave(q) == IF q.upgrade THEN Return(q, q.p) ELSE q

HeadersDone(q) ==
    LET r == NewCount(q)
        body == "CHUNKED" \in q.flags \/ q.content_length \notin {0, MaxLength}
        leaves == q.upgrade /\ (q.method = "CONNECT" \/ "SKIPBODY" \in q.flags \/ ~body)
    IN  IF Ch(q) # LF THEN Fail(q, "STRICT")
        ELSE IF leaves THEN Then(Complete(r), Leave)
        ELSE IF "SKIPBODY" \in q.flags THEN Complete(r)
        ELSE IF "CHUNKED" \in q.flags THEN Goto(r, "s_chunk_size_start")
        ELSE IF "TRANSFER_ENCODING" \in q.flags
        THEN IF q.type = "REQUEST" /\ ~q.lenient THEN Fail(r, "INVALID_TRANSFER_ENCODING")
             ELSE Goto(r, "s_body_identity_eof")
        ELSE IF q.content_length = 0 THEN Complete(r)
        ELSE IF q.content_length # MaxLength THEN Goto(r, "s_body_identity")
        ELSE IF http_message_needs_eof(q) THEN Goto(r, "s_body_identity_eof")
        ELSE Complete(r)

-----------------------------------------------------------------------------
(* The body.                                                                *)

(* As much of the expected bytes as the piece has; p is left on the last.   *)
Take(q) ==
    LET n == Least(q.content_length, Len(q.data) - q.p + 1)
        r == Mark(Assert_(q, q.content_length \notin {0, MaxLength}), "body")
    IN  [r EXCEPT !.content_length = @ - n, !.p = @ + n - 1]

IfWhole(r) ==
    IF r.content_length > 0 THEN r
    ELSE Again(Data(Goto(r, "s_message_done"), "body", r.p, r.p - 1))

Identity(q) == IfWhole(Take(q))

MessageDone(q) == Then(Complete(q), Leave)

ChunkSize(q) ==
    LET c == Ch(q)
        value == q.content_length * 16 + HexValue(c)
    IN  IF q.state = "s_chunk_size_start"
        THEN IF c \in HexDigits
             THEN Goto([Assert_(q, q.nread = 1) EXCEPT !.content_length = HexValue(c)],
                       "s_chunk_size")
             ELSE Fail(q, "INVALID_CHUNK_SIZE")
        ELSE IF c = CR THEN Goto(q, "s_chunk_size_almost_done")
        ELSE IF c \in {";", " "} THEN Goto(q, "s_chunk_parameters")
        ELSE IF c \notin HexDigits THEN Fail(q, "INVALID_CHUNK_SIZE")
        ELSE IF (MaxLength - 16) \div 16 < q.content_length THEN Fail(q, "INVALID_CONTENT_LENGTH")
        ELSE [q EXCEPT !.content_length = value]

ChunkSizeDone(q) ==
    IF Ch(q) # LF THEN Fail(q, "STRICT")
    ELSE CallNotify(IF q.content_length = 0
                    THEN Goto(Flag(NewCount(q), "TRAILING"), "s_header_field_start")
                    ELSE Goto(NewCount(q), "s_chunk_data"), "chunk_header")

IfChunkEnds(r) ==
    IF r.content_length = 0 THEN Goto(r, "s_chunk_data_almost_done") ELSE r

ChunkData(q) ==
    CASE q.state = "s_chunk_data" -> IfChunkEnds(Take(q))
      [] q.state = "s_chunk_data_almost_done" ->
            IF Ch(q) # CR THEN Fail(q, "STRICT")
            ELSE CallData(Goto(Assert_(q, q.content_length = 0), "s_chunk_data_done"), "body")
      [] OTHER ->
            IF Ch(q) # LF THEN Fail(q, "STRICT")
            ELSE CallNotify(Goto(NewCount(q), "s_chunk_size_start"), "chunk_complete")

Chunk(r) ==
    CASE r.state \in {"s_chunk_size_start", "s_chunk_size"} -> ChunkSize(r)
      [] r.state = "s_chunk_parameters" ->
            IF Ch(r) = CR THEN Goto(r, "s_chunk_size_almost_done") ELSE r
      [] r.state = "s_chunk_size_almost_done" -> ChunkSizeDone(r)
      [] OTHER -> ChunkData(r)

-----------------------------------------------------------------------------
(* The switch on the state, for the byte at p.                              *)
StartStates == {"s_start_req_or_res", "s_start_res", "s_start_req"}
ChunkStates == {"s_chunk_size_start", "s_chunk_size", "s_chunk_parameters",
                "s_chunk_size_almost_done", "s_chunk_data", "s_chunk_data_almost_done",
                "s_chunk_data_done"}

Byte(q) ==
    LET s == q.state
    IN  CASE s \in DOMAIN Literal -> OneByte(q)
          [] s = "s_header_field" -> FieldRun(q)
          [] s = "s_header_value" -> ValueRun(q)
          [] s = "s_header_value_start" -> ValueStart(q)
          [] s = "s_header_value_discard_ws" -> ValueBlank(q)
          [] s = "s_header_field_start" -> FieldStart(q)
          [] s = "s_header_value_lws" -> ValueFold(q)
          [] s = "s_header_value_discard_lws" -> EmptyValue(q)
          [] s = "s_headers_almost_done" -> HeadersAlmostDone(q)
          [] s = "s_headers_done" -> HeadersDone(q)
          [] s = "s_req_method" -> MethodByte(q)
          [] s = "s_req_spaces_before_url" -> UrlStart(q)
          [] s \in InUrl -> Url(q)
          [] s = "s_req_http_start" -> AfterUrl(q)
          [] s = "s_req_http_end" -> RequestLineEnd(q)
          [] s \in DOMAIN Version -> VersionDigit(q)
          [] s \in StartStates -> Start(q)
          [] s = "s_res_or_resp_H" -> ResponseOrRequest(q)
          [] s \in {"s_res_first_status_code", "s_res_status_code"} -> StatusCode(q)
          [] s \in {"s_res_status_start", "s_res_status"} -> StatusText(q)
          [] s \in ChunkStates -> Chunk(Assert_(q, "CHUNKED" \in q.flags))
          [] s = "s_body_identity" -> Identity(q)
          [] s = "s_body_identity_eof" -> [Mark(q, "body") EXCEPT !.p = Len(q.data)]
          [] s = "s_message_done" -> MessageDone(q)
          [] s = "s_dead" -> IF Ch(q) \in {CR, LF} THEN q ELSE Fail(q, "CLOSED_CONNECTION")
          [] OTHER -> Fail(Assert_(q, FALSE), "INVALID_INTERNAL_STATE")

\* Mutant: a piece ends without RETURN, and its count is lost.
LosesCount(q) == IF Stopped(q) THEN q ELSE [q EXCEPT !.ret = q.p - 1]

ReturnAll(q) == IF Stopped(q) THEN q ELSE Return(q, q.p - 1)  \* RETURN(len)
Flush(q, m) == IF Stopped(q) THEN q ELSE CallDataNoAdvance(q, m)
OneMark(q) == Cardinality({m \in Marks : q.mark[m] # 0}) <= 1

(* The callbacks for the datum the end of the piece cuts.                   *)
OutOfBytes(q) ==
    ReturnAll(Flush(Flush(Flush(Flush(Flush(Assert_(q, OneMark(q)), "header_field"),
                                      "header_value"), "url"), "body"), "status"))

Counted(q) == IF q.again \/ q.state \in BodyStates THEN q ELSE Count(q, 1)
Look(q) == Byte([q EXCEPT !.again = FALSE])

LookAt(q) == Then(Counted(q), Look)
GoOn(q) == IF q.again THEN q ELSE Advance(q)

(* One turn of the loop: the byte at p is looked at, once more after a      *)
(* REEXECUTE; or the piece is at its end.  No state looks at a byte more    *)
(* than four times.                                                         *)
Turn(q) ==
    IF Stopped(q) THEN q
    ELSE IF q.p > Len(q.data) THEN OutOfBytes(q) ELSE GoOn(LookAt(q))

Walk(q) == Loop(Turn, q, 4 * Len(q.data))

\* Mutant: a value cut by the end of a piece is not marked again.
ValueUnmarked(s) ==
    CASE s = "s_header_field" -> "header_field"
      [] s \in InUrl -> "url"
      [] s = "s_res_status" -> "status"
      [] OTHER -> "none"

(* The mark of a datum that the last piece left unfinished.                 *)
EntryMark(s) ==
    CASE s = "s_header_field" -> "header_field"
      [] s = "s_header_value" -> "header_value"
      [] s \in InUrl -> "url"
      [] s = "s_res_status" -> "status"
      [] OTHER -> "none"

AtEof(q) ==
    CASE q.state = "s_body_identity_eof" ->
            [Notify(q, "message_complete", 0) EXCEPT !.ret = 0]
      [] q.state \in StartStates \cup {"s_dead"} -> [q EXCEPT !.ret = 0]
      [] OTHER -> [q EXCEPT !.http_errno = "INVALID_EOF_STATE", !.saved = q.nread, !.ret = 1]

Execute(r) ==
    IF r.http_errno # "OK" THEN [r EXCEPT !.ret = 0]
    ELSE IF r.data = "" THEN AtEof(r) ELSE Walk(r)

http_parser_execute(q, data) ==
    LET m == EntryMark(q.state)
    IN  Execute([q EXCEPT !.data = data, !.p = 1, !.ret = -1, !.again = FALSE,
                          !.nread = q.saved, !.asserts = TRUE, !.events = <<>>,
                          !.mark = [x \in Marks |-> IF x = m THEN 1 ELSE 0]])

http_parser_init(t, user, lenient) ==
    [type |-> t, flags |-> {}, header_state |-> "h_general", index |-> 0,
     state |-> CASE t = "REQUEST" -> "s_start_req" [] t = "RESPONSE" -> "s_start_res"
                 [] OTHER -> "s_start_req_or_res",
     lenient |-> lenient, saved |-> 0, content_length |-> 0, http_major |-> 0,
     http_minor |-> 0, status_code |-> 0, method |-> "DELETE", http_errno |-> "OK",
     upgrade |-> FALSE, user |-> user,
     data |-> "", p |-> 1, mark |-> NoMarks, nread |-> 0, ret |-> 0, again |-> FALSE,
     asserts |-> TRUE, events |-> <<>>]

http_parser_pause(q, paused) ==
    IF q.http_errno \in {"OK", "PAUSED"}
    THEN [q EXCEPT !.http_errno = IF paused THEN "PAUSED" ELSE "OK"]
    ELSE Assert_(q, FALSE)

(* What remains of a call in struct http_parser.                            *)
Kept(q) == [q EXCEPT !.data = "", !.p = 1, !.mark = NoMarks, !.nread = 0, !.ret = 0,
                     !.again = FALSE, !.asserts = TRUE, !.events = <<>>]

(* The events of a call after those of the earlier ones.                    *)
Joined(old, new) ==
    IF old # <<>> /\ new # <<>> /\ Head(new)[1] = Last(old)[1] /\ Head(new)[1] \in Marks
    THEN Front(old) \o <<<<Head(new)[1], Last(old)[2] \o Head(new)[2]>>>> \o Tail(new)
    ELSE old \o new

-----------------------------------------------------------------------------
ParserInit ==
    /\ stream \in Streams
    /\ \E user \in stream.users : parser = http_parser_init(stream.type, user, stream.lenient)
    /\ fed = 0
    /\ events = <<>>
    /\ asserts = TRUE
    /\ closed = FALSE

Called(r) ==
    /\ parser' = Kept(r)
    /\ events' = Joined(events, r.events)
    /\ asserts' = (asserts /\ r.asserts)
    /\ fed' = fed + r.ret

Running == parser.http_errno = "OK" /\ ~closed
Left == Len(stream.data) - fed
Upgraded == parser.upgrade /\ events # <<>> /\ Last(events)[1] = "message_complete"

(* A piece of the stream.                                                   *)
Feed ==
    /\ Running /\ Left > 0 /\ ~Upgraded
    /\ \E n \in PieceLengths(Left) :
        Called(http_parser_execute(parser, SubSeq(stream.data, fed + 1, fed + n)))
    /\ UNCHANGED <<stream, closed>>

(* The peer closes: a call with no bytes.                                   *)
Close ==
    /\ Running /\ Left = 0
    /\ LET r == http_parser_execute(parser, "") IN Called([r EXCEPT !.ret = 0])
    /\ closed' = TRUE
    /\ UNCHANGED stream

(* The user lets a paused parser go on.                                     *)
Resume ==
    /\ parser.http_errno = "PAUSED"
    /\ parser' = http_parser_pause(parser, FALSE)
    /\ UNCHANGED <<stream, fed, events, asserts, closed>>

ParserNext == Feed \/ Close \/ Resume

ParserSpec == ParserInit /\ [][ParserNext]_parserVars
=============================================================================
