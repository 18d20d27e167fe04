------------------------------- MODULE HttpUrl -------------------------------
(* Addresses: http_parser_parse_url, which cuts an address into its fields. *)
(* A url is built here from the parts it is written with, so that what each *)
(* field must hold is known.                                                *)
EXTENDS UrlBytes

CONSTANTS
    MaxPort,         \* 0xffff, the largest port
    SchemaParts,     \* the texts each part of a url is drawn from
    UserParts, HostParts, PortParts, PathParts, QueryParts, FragmentParts

VARIABLES
    parts,           \* the parts url is made of
    connect,         \* is_connect: the target of a CONNECT request
    result           \* what http_parser_parse_url returned, with the fields

urlVars == <<parts, connect, result>>

-----------------------------------------------------------------------------
(* http_parse_host_char, by state.                                          *)
LOCAL V6 == {<<HexDigits \cup {":", "."}, "s_http_host_v6">>}
LOCAL Zone == {<<Letters \cup Digits \cup CharsOf("%.-_~"), "s_http_host_v6_zone">>}
LOCAL User == {<<{"@"}, "s_http_host_start">>, <<UserInfoChars, "s_http_userinfo">>}
LOCAL V6Close == <<{"]"}, "s_http_host_v6_end">>
LOCAL ToPort == <<{":"}, "s_http_host_port_start">>
LOCAL Port == {<<Digits, "s_http_host_port">>}

HostTable == [
    s_http_userinfo_start |-> User,
    s_http_userinfo |-> User,
    s_http_host_start |-> {<<{"["}, "s_http_host_v6_start">>, <<HostChars, "s_http_host">>},
    s_http_host |-> {<<HostChars, "s_http_host">>, ToPort},
    s_http_host_v6_end |-> {ToPort},
    s_http_host_v6_start |-> V6,
    s_http_host_v6 |-> V6 \cup {V6Close, <<{"%"}, "s_http_host_v6_zone_start">>},
    s_http_host_v6_zone_start |-> Zone,
    s_http_host_v6_zone |-> Zone \cup {V6Close},
    s_http_host_port_start |-> Port,
    s_http_host_port |-> Port]

http_parse_host_char(s, c) == Follow(HostTable[s], c, "s_http_host_dead")

-----------------------------------------------------------------------------
(* struct http_parser_url: where each field starts and how long it is.      *)
Fields == {"schema", "host", "port", "path", "query", "fragment", "userinfo"}
Word16 == 65536

NoUrl == [set |-> {}, off |-> [f \in Fields |-> 0], len |-> [f \in Fields |-> 0],
          port |-> 0]

Open(u, f, at, n) ==
    [u EXCEPT !.set = @ \cup {f}, !.off[f] = at % Word16, !.len[f] = n]
Longer(u, f) == [u EXCEPT !.len[f] = (@ + 1) % Word16]

FieldOfHostState ==
    [s_http_host |-> "host", s_http_host_v6 |-> "host", s_http_host_port |-> "port",
     s_http_userinfo |-> "userinfo"]

\* Mutant: the host stays where it was cut before its user was known.
HostKeepsPlace(u, s, new, i) ==
    CASE new \in DOMAIN FieldOfHostState ->
            LET f == FieldOfHostState[new]
            IN  IF new = s \/ f = "host" THEN Longer(u, f) ELSE Open(u, f, i, 1)
      [] OTHER -> u

(* One byte of http_parse_host at offset i: a field starts when its state   *)
(* is entered, and the zone of an address only makes the host longer.       *)
HostByte(u, s, new, i) ==
    CASE new \in DOMAIN FieldOfHostState ->
            LET f == FieldOfHostState[new]
            IN  IF new = s THEN Longer(u, f)
                ELSE IF f = "host" THEN Longer([u EXCEPT !.off.host = i % Word16], f)
                ELSE Open(u, f, i, 1)
      [] new \in {"s_http_host_v6_zone_start", "s_http_host_v6_zone"} -> Longer(u, "host")
      [] OTHER -> u

RECURSIVE HostFrom(_, _, _, _, _)
HostFrom(text, u, s, i, end) ==
    IF i = end \/ s = "s_http_host_dead" THEN <<u, s>>
    ELSE LET new == http_parse_host_char(s, OffsetAt(text, i))
         IN  HostFrom(text, HostByte(u, s, new, i), new, i + 1, end)

(* http_parse_host: the host, cut again into user, host and port; <<u, ok>>.*)
http_parse_host(text, u, found_at) ==
    LET r == HostFrom(text, [u EXCEPT !.len.host = 0],
                      IF found_at THEN "s_http_userinfo_start" ELSE "s_http_host_start",
                      u.off.host, u.off.host + u.len.host)
    IN  <<r[1], r[2] \in {"s_http_host", "s_http_host_v6_end", "s_http_host_port"}>>

FieldOfState ==
    [s_req_schema |-> "schema", s_req_server_with_at |-> "host", s_req_server |-> "host",
     s_req_path |-> "path", s_req_query_string |-> "query", s_req_fragment |-> "fragment"]

(* The scan of http_parser_parse_url over the bytes from offset i.          *)
RECURSIVE Scan(_, _, _, _, _, _)
Scan(text, u, s, i, old, found_at) ==
    IF i = Len(text) \/ s = "s_dead" THEN [u |-> u, s |-> s, found_at |-> found_at]
    ELSE LET new == parse_url_char(s, OffsetAt(text, i))
             f == FieldOfState[new]
             at == found_at \/ new = "s_req_server_with_at"
         IN  IF new \notin DOMAIN FieldOfState THEN Scan(text, u, new, i + 1, old, at)
             ELSE IF f = old THEN Scan(text, Longer(u, f), new, i + 1, old, at)
             ELSE Scan(text, Open(u, f, i, 1), new, i + 1, f, at)

(* The port's value, or one above the limit once it passes it.              *)
RECURSIVE PortValue(_, _, _)
PortValue(text, v, i) ==
    IF i = Len(text) \/ v > MaxPort THEN v
    ELSE PortValue(text, v * 10 + DigitValue(OffsetAt(text, i)), i + 1)

Slice(text, u, f) == SubSeq(text, u.off[f] + 1, u.off[f] + u.len[f])

Refused == [ok |-> FALSE, u |-> NoUrl]
NotParsed == [ok |-> FALSE, u |-> [NoUrl EXCEPT !.port = -1]]

http_parser_parse_url(text, is_connect) ==
    LET scan == Scan(text, NoUrl,
                     IF is_connect THEN "s_req_server_start" ELSE "s_req_spaces_before_url",
                     0, "none", FALSE)
        host == IF "host" \in scan.u.set THEN http_parse_host(text, scan.u, scan.found_at)
                ELSE <<scan.u, TRUE>>
        u == host[1]
        port == IF "port" \in u.set THEN PortValue(Slice(text, u, "port"), 0, 0) ELSE 0
    IN  IF \/ Len(text) = 0
           \/ scan.s = "s_dead"
           \/ "schema" \in scan.u.set /\ "host" \notin scan.u.set
           \/ ~host[2]
           \/ is_connect /\ u.set # {"host", "port"}
           \/ port > MaxPort
        THEN Refused
        ELSE [ok |-> TRUE, u |-> [u EXCEPT !.port = port]]

-----------------------------------------------------------------------------
(* A url is written from its parts; each is cut once.                       *)
Parts == [schema : SchemaParts, user : UserParts, host : HostParts, port : PortParts,
          path : PathParts, query : QueryParts, fragment : FragmentParts]

Text(q) == q.schema \o q.user \o q.host \o q.port \o q.path \o q.query \o q.fragment

UrlInit ==
    /\ parts \in Parts
    /\ connect \in BOOLEAN
    /\ result = NotParsed

ParseUrl ==
    /\ result = NotParsed
    /\ result' = http_parser_parse_url(Text(parts), connect)
    /\ UNCHANGED <<parts, connect>>

-----------------------------------------------------------------------------
(* What each field of a url made of these parts is: the part without the    *)
(* punctuation around it.                                                   *)
Strip(s, front, back) == SubSeq(s, front + 1, Len(s) - back)

InBrackets(h) == Len(h) > 0 /\ CharAt(h, 1) = "["

Meant(q) == [
    schema |-> Strip(q.schema, 0, 3),
    userinfo |-> Strip(q.user, 0, 1),
    host |-> IF InBrackets(q.host) THEN Strip(q.host, 1, 1) ELSE q.host,
    port |-> Strip(q.port, 1, 0),
    path |-> q.path,
    query |-> Strip(q.query, 1, 0),
    fragment |-> Strip(q.fragment, 1, 0)]

Given(q, f) == Meant(q)[f] # ""

(* In brackets, an address of version 6: hexadecimal up to its zone.        *)
Address(h) == \A i \in 2..(Len(h) - 1) :
    CharAt(h, i) \in HexDigits \cup {":", "."} \/ \E j \in 2..i : CharAt(h, j) = "%"

(* A url names a host after its schema or is a path alone; a port has a     *)
(* value of 16 bits; a fragment follows a path or a query; CONNECT has      *)
(* nothing but a host and a port.                                           *)
Valid(q, is_connect) ==
    /\ Len(q.port) # 1
    /\ InBrackets(q.host) => Address(q.host)
    /\ PortValue(Meant(q).port, 0, 0) <= MaxPort
    /\ Given(q, "host") => Given(q, "schema") \/ is_connect
    /\ Given(q, "schema") => Given(q, "host")
    /\ q.user # "" \/ q.port # "" => Given(q, "host")
    /\ Given(q, "host") \/ Given(q, "path")
    /\ Given(q, "host") => q.path # "*"
    /\ q.fragment # "" => Given(q, "path") \/ q.query # ""
    /\ is_connect => /\ {f \in Fields : Given(q, f)} = {"host", "port"}

(* A url is accepted exactly when its parts make one, and every field is    *)
(* then the text of its part, inside the url, with the port's value; no     *)
(* address, however its user, its brackets, its zone and its port are       *)
(* combined, moves a byte of one field into another.                        *)
UrlExact ==
    result # NotParsed =>
        /\ result.ok <=> Valid(parts, connect)
        /\ result.ok =>
            \A f \in Fields :
                /\ f \in result.u.set <=> Given(parts, f)
                /\ f \in result.u.set => Slice(Text(parts), result.u, f) = Meant(parts)[f]
        /\ result.ok => result.u.port = PortValue(Meant(parts).port, 0, 0)
=============================================================================
