------------------------------- MODULE HttpCtx -------------------------------
(***************************************************************************)
(* httpctx.c: from the callbacks of http_parser to the fields of a         *)
(* request.  The request arrives in reads that each fill a page of its     *)
(* buffer; http_parser reports each element (url, name or value of a       *)
(* header field, body) in as many parts as the reads cut it into, while    *)
(* the read is not yet counted in the length of the buffer.                *)
(*                                                                         *)
(* An element is a range of the buffer; the text around the elements is    *)
(* one byte at each place.  Bodies have a length of their own: those in    *)
(* chunks, whose data on_body would get in pieces with the sizes between   *)
(* them, and the trailer fields behind such a body, are left out.          *)
(***************************************************************************)
EXTENDS Integers, SequencesExt

CONSTANTS Page,           \* the page size of the buffer
          Char,           \* the characters of a request
          Requests,       \* the requests that clients send
          Host, ContentType, ContentLength,   \* names, in lower case
          LowerCase,      \* the upper case letters in use, and their lower case
          Junk,           \* the bytes that memory never written may hold
          Paths           \* the paths a service compares requests with

\* The method lies in the first page.
ASSUME PageAssumption == Page \in Nat /\ Page > 1

\* http_parser lets no url and no name of a header field be empty, and a url
\* begins with its path (only that of CONNECT may begin with its parameters
\* and is left out).
ASSUME RequestsAssumption ==
    /\ "_" \in Char
    /\ Requests \subseteq [url : Seq(Char) \ {<<>>},
                            headers : Seq((Seq(Char) \ {<<>>}) \X Seq(Char)), body : Seq(Char)]
    /\ \A r \in Requests : r.url[1] # "?"

ASSUME NamesAssumption == {Host, ContentType, ContentLength} \subseteq Seq(Char)

\* A path is written without parameters, and with at most one slash at its end.
ASSUME PathsAssumption ==
    \A p \in Paths :
        /\ p \in Seq(Char) \ {<<>>} /\ \A k \in 1 .. Len(p) : p[k] # "?"
        /\ Len(p) > 1 => p[Len(p) - 1] # "/" \/ p[Len(p)] # "/"

VARIABLES request,   \* the request of the client
          reads,     \* reads begun: pages of req.data
          reading,   \* whether one of them is being parsed
          done,      \* parts reported by http_parser
          len,       \* length of req.data
          req        \* httpreq_t

vars == <<request, reads, reading, done, len, req>>

P_BEGIN == 0
P_URL == 1
P_HEAD_FIELD == 2
P_HEAD_VALUE == 3
P_BODY == 4
HTTP_PARSER_COMPLETE == 100

(***************************************************************************)
(* What arrives.                                                           *)
(***************************************************************************)
Gap == [kind |-> "gap", text |-> <<"_">>]

Parts(r) ==
    <<Gap, [kind |-> "url", text |-> r.url], Gap>>
    \o FlattenSeq([i \in DOMAIN r.headers |->
           <<[kind |-> "field", text |-> r.headers[i][1]], Gap,
             [kind |-> "value", text |-> r.headers[i][2]], Gap>>])
    \o <<Gap, [kind |-> "body", text |-> r.body]>>

Stream(r) == FlattenSeq([i \in DOMAIN Parts(r) |-> Parts(r)[i].text])

\* The position of part i.
At(r, i) ==
    LET parts == Parts(r)
        end[k \in 0 .. i - 1] == IF k = 0 THEN 0 ELSE end[k - 1] + Len(parts[k].text)
    IN  end[i - 1]

Larger(a, b) == IF a >= b THEN a ELSE b
Lesser(a, b) == IF a <= b THEN a ELSE b

\* The calls for one element: one for each page it touches, one for a value
\* that is empty, none for a body that is.
Calls(kind, a, n) ==
    IF n = 0 THEN IF kind = "value" THEN <<[kind |-> kind, at |-> a, length |-> 0]>> ELSE <<>>
    ELSE LET k == a \div Page
         IN  [j \in 1 .. ((a + n - 1) \div Page) - k + 1 |->
                 LET from == Larger(a, (k + j - 1) * Page)
                 IN  [kind |-> kind, at |-> from,
                      length |-> Lesser(a + n, (k + j) * Page) - from]]

AllCalls(r) ==
    FlattenSeq([i \in DOMAIN Parts(r) |->
        IF Parts(r)[i].kind = "gap" THEN <<>>
        ELSE Calls(Parts(r)[i].kind, At(r, i), Len(Parts(r)[i].text))])

\* The next call, if it is one of the current read.
NextCall(kind) ==
    /\ reading /\ done < Len(AllCalls(request))
    /\ AllCalls(request)[done + 1].kind = kind
    /\ AllCalls(request)[done + 1].at < reads * Page

(***************************************************************************)
(* The buffer: cap is reads * Page.                                        *)
(***************************************************************************)
mem(p) == IF p < Len(Stream(request)) THEN Stream(request)[p + 1] ELSE "0"

Text(v) == [k \in 1 .. v.len |-> mem(v.pos + k - 1)]

dynmem_offset(at) == at % Page

\* dynmem_foreach starts with the part of the range in its first page.
FirstChunk(off, n) == Lesser(n, Page - (off % Page))

\* dynmem_equal of a range below the length.
dynmem_equal(off, s) ==
    /\ off < len /\ off + Len(s) <= len
    /\ \A k \in DOMAIN s : mem(off + k - 1) = s[k]

dynmem_chr(off, n, ch) ==
    LET S == {p \in off .. off + n - 1 : mem(p) = ch}
    IN  IF off >= len \/ S = {} THEN -1 ELSE CHOOSE p \in S : \A q \in S : p <= q

(***************************************************************************)
(* Looking a header field up.                                              *)
(***************************************************************************)
Lower(c) == IF c \in DOMAIN LowerCase THEN LowerCase[c] ELSE c

\* The answer is that of the first chunk: a later one can stop the walk, but
\* does not take a `true' back.
equal_ignore_case(pos, name) ==
    \A k \in 1 .. FirstChunk(pos, Len(name)) : Lower(mem(pos + k - 1)) = name[k]

\* The header whose value is returned, 0 for NULL.
get_http_header(name) ==
    LET S == {i \in DOMAIN req.headers :
                 /\ req.headers[i].field.len = Len(name)
                 /\ equal_ignore_case(req.headers[i].field.pos, name)}
    IN  IF S = {} THEN 0 ELSE CHOOSE i \in S : \A j \in S : i <= j

Digits == [c \in {ToString(d) : d \in 0 .. 9} |-> CHOOSE d \in 0 .. 9 : ToString(d) = c]

atoi(t) ==
    LET n == CHOOSE n \in 0 .. Len(t) :
                 /\ \A k \in 1 .. n : t[k] \in DOMAIN Digits
                 /\ n = Len(t) \/ t[n + 1] \notin DOMAIN Digits
    IN  FoldLeft(LAMBDA a, c : 10 * a + Digits[c], 0, SubSeq(t, 1, n))

\* dynmem_read copies what is below the length; what is behind it in tmp was
\* never written.
get_http_header_uint(name) ==
    LET i == get_http_header(name)
        v == req.headers[i].value
    IN  IF i = 0 THEN {0}
        ELSE {atoi([k \in 1 .. v.len |->
                       IF v.pos + k <= len THEN mem(v.pos + k - 1) ELSE j[k]]) :
              j \in [1 .. v.len -> Junk]}

(***************************************************************************)
(* Reading.  on_readed parses the page and adds it to the length after.    *)
(***************************************************************************)
Nothing == [pos |-> 0, len |-> 0]

EmptyReq == [url |-> Nothing, host |-> 0, content_type |-> 0, path |-> Nothing,
             url_param |-> Nothing, content_length |-> 0, headers |-> <<>>,
             body |-> Nothing, parser_state |-> P_BEGIN]

Init ==
    /\ request \in Requests
    /\ reads = 0 /\ reading = FALSE /\ done = 0 /\ len = 0
    /\ req = EmptyReq

on_allocing ==
    /\ ~reading /\ req.parser_state # HTTP_PARSER_COMPLETE
    /\ reads' = reads + 1 /\ reading' = TRUE
    /\ UNCHANGED <<request, done, len, req>>

Call == AllCalls(request)[done + 1]

Begin == [pos |-> dynmem_offset(Call.at), len |-> Call.length]

\* Mutant: such a part also moves the element.
Moved(v) == [pos |-> dynmem_offset(Call.at), len |-> v.len + Call.length]

More(v) == [v EXCEPT !.len = @ + Call.length]

on_url ==
    /\ NextCall("url")
    /\ req' = [req EXCEPT !.parser_state = P_URL,
                          !.url = IF req.parser_state # P_URL THEN Begin ELSE More(@)]
    /\ done' = done + 1
    /\ UNCHANGED <<request, reads, reading, len>>

on_header_field ==
    LET n == Len(req.headers)
    IN  /\ NextCall("field")
        /\ req' = [req EXCEPT !.parser_state = P_HEAD_FIELD,
                              !.headers =
                      IF req.parser_state # P_HEAD_FIELD
                      THEN Append(req.headers, [field |-> Begin, value |-> Nothing])
                      ELSE [req.headers EXCEPT ![n].field = More(req.headers[n].field)]]
        /\ done' = done + 1
        /\ UNCHANGED <<request, reads, reading, len>>

on_header_value ==
    /\ NextCall("value")
    /\ req' = [req EXCEPT !.parser_state = P_HEAD_VALUE,
                          !.headers[Len(req.headers)].value =
                  IF req.parser_state = P_HEAD_FIELD THEN Begin ELSE More(@)]
    /\ done' = done + 1
    /\ UNCHANGED <<request, reads, reading, len>>

on_body ==
    /\ NextCall("body")
    /\ req' = [req EXCEPT !.parser_state = P_BODY,
                          !.body = IF req.parser_state # P_BODY THEN Begin ELSE More(@)]
    /\ done' = done + 1
    /\ UNCHANGED <<request, reads, reading, len>>

\* Where the parameters of the url start, -1 when there are none.
get_param(url) ==
    LET q == dynmem_chr(url.pos, url.len, "?")
    IN  IF q = -1 THEN -1 ELSE q + 1

\* A trailing slash of the path is dropped.
WithoutSlash(v) ==
    IF mem(v.pos + v.len - 1) = "/" THEN [v EXCEPT !.len = @ - 1] ELSE v

PathOf(url) ==
    LET q == get_param(url)
    IN  WithoutSlash([pos |-> url.pos, len |-> IF q # -1 THEN (q - url.pos) - 1 ELSE url.len])

ParamOf(url) ==
    LET q == get_param(url)
    IN  IF q = -1 THEN Nothing ELSE [pos |-> q, len |-> (url.pos + url.len) - q]

on_message_complete ==
    /\ reading /\ req.parser_state # HTTP_PARSER_COMPLETE
    /\ done = Len(AllCalls(request)) /\ Len(Stream(request)) <= reads * Page
    /\ \E n \in get_http_header_uint(ContentLength) :
           req' = [req EXCEPT !.host = get_http_header(Host),
                              !.content_type = get_http_header(ContentType),
                              !.content_length = n,
                              !.path = PathOf(req.url),
                              !.url_param = ParamOf(req.url),
                              !.parser_state = HTTP_PARSER_COMPLETE]
    /\ UNCHANGED <<request, reads, reading, done, len>>

\* http_parser has taken the whole page.
PageParsed ==
    \/ req.parser_state = HTTP_PARSER_COMPLETE
    \/ /\ reads * Page < Len(Stream(request))
       /\ done < Len(AllCalls(request)) => AllCalls(request)[done + 1].at >= reads * Page

on_readed ==
    /\ reading /\ PageParsed
    /\ len' = len + Page /\ reading' = FALSE
    /\ UNCHANGED <<request, reads, done, req>>

\* The callback of the service and the reply run on this state.
Served == ~reading /\ req.parser_state = HTTP_PARSER_COMPLETE

\* httpctx_reset at the end of the reply; the client sends another request.
on_writed ==
    /\ Served
    /\ request' \in Requests
    /\ reads' = 0 /\ done' = 0 /\ len' = 0 /\ req' = EmptyReq
    /\ UNCHANGED reading

Next ==
    \/ on_allocing
    \/ on_url
    \/ on_header_field
    \/ on_header_value
    \/ on_body
    \/ on_message_complete
    \/ on_readed
    \/ on_writed

Spec == Init /\ [][Next]_vars

(***************************************************************************)
(* What a service asks of the request.                                     *)
(***************************************************************************)
httpctx_get_header(name) == get_http_header(name)

\* The path asked for without its slash at the end.
Asked(path) == IF path[Len(path)] = "/" THEN Front(path) ELSE path

httpctx_path_equal(path) ==
    /\ Len(Asked(path)) = req.path.len
    /\ dynmem_equal(req.path.pos, Asked(path))

\* Mutant: any path that begins with the one asked for.
httpctx_path_begins(path) ==
    /\ Len(Asked(path)) <= req.path.len
    /\ dynmem_equal(req.path.pos, Asked(path))

httpctx_path_prefix(path) ==
    LET n == Len(Asked(path))
    IN  /\ n <= req.path.len
        /\ dynmem_equal(req.path.pos, Asked(path))
        /\ n = req.path.len \/ mem(req.path.pos + n) \in {"/", "?"}

(***************************************************************************)
(* Properties.                                                             *)
(***************************************************************************)
Value == [pos : Nat, len : Nat]

\* The fields of httpreq_t; at most one page beyond the request is read.
TypeOK ==
    /\ request \in Requests /\ reading \in BOOLEAN
    /\ len \in {reads * Page, (reads - 1) * Page}
    /\ done \in 0 .. Len(AllCalls(request))
    /\ req.url \in Value /\ req.path \in Value /\ req.url_param \in Value /\ req.body \in Value
    /\ req.content_length \in Nat
    /\ req.headers \in Seq([field : Value, value : Value])
    /\ {req.host, req.content_type} \subseteq 0 .. Len(req.headers)

\* The element that part i of the request became.
Element(i) ==
    CASE i = 2 -> req.url
      [] i = Len(Parts(request)) -> req.body
      [] i \in 4 .. Len(Parts(request)) - 2 /\ i % 4 = 0 -> req.headers[i \div 4].field
      [] i \in 4 .. Len(Parts(request)) - 2 /\ i % 4 = 2 -> req.headers[i \div 4].value

Elements == {i \in DOMAIN Parts(request) : Parts(request)[i].kind # "gap"}

\* However the reads cut a request, each element is found once and with its
\* whole length: no part opens a new element and no element takes the parts of
\* the next (parser_state in the callbacks of httpctx.c).
LengthsExact ==
    Served => /\ Len(req.headers) = Len(request.headers)
              /\ \A i \in Elements : Element(i).len = Len(Parts(request)[i].text)

\* An element that starts in the first page reads back as it was sent, also
\* when it runs on over later pages.
FirstPageExact ==
    Served => \A i \in Elements :
        At(request, i) < Page => Text(Element(i)) = Parts(request)[i].text

\* What the callbacks found is what was sent: the lengths always, the bytes of
\* the elements of the first page.
ElementsFound == LengthsExact /\ FirstPageExact

SameName(s, name) == [k \in DOMAIN s |-> Lower(s[k])] = name

\* The first header field of a name, as the client sent them; 0 for none.
Named(name) ==
    LET S == {i \in DOMAIN request.headers : SameName(request.headers[i][1], name)}
    IN  IF S = {} THEN 0 ELSE CHOOSE i \in S : \A j \in S : i <= j

\* The names that the search for a name has to compare lie in the first page:
\* those up to the one it is to find, all of them when there is none.
SearchedInFirstPage(name) ==
    \A i \in DOMAIN request.headers :
        Named(name) = 0 \/ i <= Named(name)
            => At(request, 4 * i) + Len(request.headers[i][1]) <= Page

\* When these names lie in the first page, a lookup finds the first field of the
\* name, whatever the case of its letters, and no field when there is none; what
\* follows behind the field may lie anywhere.  A name that is cut by a page, or
\* lies behind the first one, may be missed or taken for another.  When a read
\* was counted before (reads > 1), the content length is the number of a field
\* that lies in the first page; in a request of one read dynmem_read finds
\* nothing below the length, and the number is whatever the memory held.
FoundByName ==
    /\ SearchedInFirstPage(Host) => req.host = Named(Host)
    /\ SearchedInFirstPage(ContentType) => req.content_type = Named(ContentType)
    /\ SearchedInFirstPage(ContentLength) =>
           LET i == Named(ContentLength)
           IN  /\ i = 0 => req.content_length = 0
               /\ i # 0 /\ reads > 1 /\ At(request, 4 * i + 2) + Len(request.headers[i][2]) <= Page
                      => req.content_length = atoi(request.headers[i][2])

LookupExact ==
    Served => /\ FoundByName
              /\ \A name \in {Host, ContentType, ContentLength} :
                     SearchedInFirstPage(name) => httpctx_get_header(name) = Named(name)

\* What the callbacks found of a request is what the client sent, however the
\* reads cut it, and so is what is looked up in it where LookupExact says so.
RequestExact == ElementsFound /\ LookupExact

\* The url as the client sent it, cut at its question mark.
Marks(url) == {k \in DOMAIN url : url[k] = "?"}

PathSent(url) ==
    LET p == IF Marks(url) = {} THEN url
             ELSE SubSeq(url, 1, (CHOOSE k \in Marks(url) : \A j \in Marks(url) : k <= j) - 1)
    IN  Asked(p)

ParamsSent(url) ==
    IF Marks(url) = {} THEN <<>>
    ELSE SubSeq(url, (CHOOSE k \in Marks(url) : \A j \in Marks(url) : k <= j) + 1, Len(url))

\* dynmem_chr finds a question mark only below the length of the buffer, in
\* which a read is counted after its parsing: a request of one read is not cut.
Divided == reads > 1 \/ Marks(request.url) = {}

\* on_message_complete cuts the url at the first question mark, unless the
\* request came in one read, and drops one slash from the end of the path.
UrlSplit ==
    Served /\ Divided => /\ Text(req.path) = PathSent(request.url)
                         /\ Text(req.url_param) = ParamsSent(request.url)

\* httpctx.h of the path: "the path of the url, without the parameters".
PathWithoutParams == Served => Text(req.path) = PathSent(request.url)

\* The prefixes of httpctx.h: "/x" matches "/x", "/x/", "/x?t=", "/x/?t=" and
\* "/x/y/z", and not "/x1", also when the parameters were not cut off.
PrefixMatches ==
    Served => \A p \in Paths :
        httpctx_path_prefix(p) <=>
            LET n == Len(Asked(p))
            IN  /\ n <= Len(request.url) /\ SubSeq(request.url, 1, n) = Asked(p)
                /\ n = Len(request.url) \/ request.url[n + 1] \in {"/", "?"}

\* A path is equal to the path of the url, up to one slash at the end of each,
\* where the url was cut.
EqualMatches ==
    Served /\ Divided =>
        \A p \in Paths : httpctx_path_equal(p) <=> Asked(p) = PathSent(request.url)

\* Routing: the prefixes are those of httpctx.h for every request; the url is
\* cut where its path ends and the comparison for equality is right for every
\* request but one of a single read with parameters.
PathsMatch == UrlSplit /\ PrefixMatches /\ EqualMatches
=============================================================================
