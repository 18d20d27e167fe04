------------------------------ MODULE UrlBytes ------------------------------
(* The bytes of an address: the state machine of http_parser.c that reads   *)
(* them one by one, for the message parser and for the parser of addresses. *)
EXTENDS Chars, FiniteSets

(* Character classes of the strict build.                                   *)
MarkChars == CharsOf("-_.!~*'()")
UserInfoChars == Letters \cup Digits \cup MarkChars \cup CharsOf("%;:&=+$,")
HostChars == Letters \cup Digits \cup {".", "-"}
UrlChars == {c \in Bytes : Code[c] \in 33..126} \ {"#", "?"}

(* parse_url_char by state: the classes of bytes that leave it and the      *)
(* state each leads to; any other byte is an error (s_dead).                *)
ServerRules == {<<{"/"}, "s_req_path">>, <<{"?"}, "s_req_query_string_start">>,
                <<{"@"}, "s_req_server_with_at">>,
                <<UserInfoChars \cup {"[", "]"}, "s_req_server">>}
QueryRules == {<<UrlChars \cup {"?"}, "s_req_query_string">>,
               <<{"#"}, "s_req_fragment_start">>}

UrlTable == [
    s_req_spaces_before_url |-> {<<{"/", "*"}, "s_req_path">>,
                                 <<Letters, "s_req_schema">>},
    s_req_schema |-> {<<Letters, "s_req_schema">>, <<{":"}, "s_req_schema_slash">>},
    s_req_schema_slash |-> {<<{"/"}, "s_req_schema_slash_slash">>},
    s_req_schema_slash_slash |-> {<<{"/"}, "s_req_server_start">>},
    s_req_server_start |-> ServerRules,
    s_req_server |-> ServerRules,
    s_req_server_with_at |-> {r \in ServerRules : "@" \notin r[1]},
    s_req_path |-> {<<UrlChars, "s_req_path">>, <<{"?"}, "s_req_query_string_start">>,
                    <<{"#"}, "s_req_fragment_start">>},
    s_req_query_string_start |-> QueryRules,
    s_req_query_string |-> QueryRules,
    s_req_fragment_start |-> {<<UrlChars \cup {"?"}, "s_req_fragment">>,
                              <<{"#"}, "s_req_fragment_start">>},
    s_req_fragment |-> {<<UrlChars \cup {"?", "#"}, "s_req_fragment">>}]

UrlStates == DOMAIN UrlTable
InUrl == UrlStates \ {"s_req_spaces_before_url"}     \* some byte of it was read

(* The state a byte leads to under a table of such rules, dead when none.   *)
Follow(rules, c, dead) ==
    IF \E r \in rules : c \in r[1] THEN (CHOOSE r \in rules : c \in r[1])[2] ELSE dead

parse_url_char(s, c) == Follow(UrlTable[s], c, "s_dead")
=============================================================================
