---------------------------- MODULE ParserProofs ----------------------------
(* The assertions of http_parser.c hold: whatever bytes come, in whatever   *)
(* pieces, and whatever the callbacks answer.                               *)
(*                                                                          *)
(* Between two calls the state of the parser fits its other fields          *)
(* (StateFits).  Inside a call a datum is marked only in the states that    *)
(* read it (MarksFit), so that two are never marked at once.  Each handler  *)
(* ends in such a state or returns (Good), and where it asks for another    *)
(* look at its byte the state has a lower rank, so that a byte is looked at *)
(* four times at most (Effort), and the call returns.                       *)
EXTENDS HttpMessage, DataInduction, FiniteSetTheorems, TLAPS

(***************************************************************************)
(* What a call keeps true at every byte.                                   *)
(***************************************************************************)
CallFields == {"type", "flags", "header_state", "index", "state", "lenient", "saved",
               "content_length", "http_major", "http_minor", "status_code", "method",
               "http_errno", "upgrade", "user", "data", "p", "mark", "nread", "ret", "again",
               "asserts", "events"}

IsCall(q) == CallFields \subseteq DOMAIN q

(* The states in which a byte is expected that has no effect but the state. *)
HeadStates == {"s_res_H", "s_res_HT", "s_res_HTT", "s_res_HTTP", "s_res_http_dot",
               "s_res_http_end", "s_res_line_almost_done", "s_req_http_H", "s_req_http_HT",
               "s_req_http_HTT", "s_req_http_I", "s_req_http_IC", "s_req_http_HTTP",
               "s_req_http_dot", "s_req_line_almost_done", "s_header_almost_done",
               "s_header_value_discard_ws_almost_done"}

VersionStates == {"s_res_http_major", "s_res_http_minor", "s_req_http_major", "s_req_http_minor"}

AddressStates == {"s_req_schema", "s_req_schema_slash", "s_req_schema_slash_slash",
                  "s_req_server_start", "s_req_server", "s_req_server_with_at", "s_req_path",
                  "s_req_query_string_start", "s_req_query_string", "s_req_fragment_start",
                  "s_req_fragment"}

(* States in which no datum is marked and nothing but the type is known.    *)
PlainStates == HeadStates \cup VersionStates \cup StartStates \cup
    {"s_dead", "s_res_or_resp_H", "s_res_first_status_code", "s_res_status_code",
     "s_res_status_start", "s_req_method", "s_req_spaces_before_url", "s_req_http_start",
     "s_req_http_end", "s_header_field_start", "s_header_value_discard_ws",
     "s_header_value_discard_lws", "s_header_value_start", "s_header_value_lws",
     "s_headers_almost_done", "s_headers_done", "s_message_done"}

States == PlainStates \cup AddressStates \cup ChunkStates \cup
    {"s_res_status", "s_header_field", "s_header_value", "s_body_identity",
     "s_body_identity_eof"}

FieldStates == {"h_C", "h_CO", "h_CON", "h_matching_connection", "h_matching_proxy_connection",
                "h_matching_content_length", "h_matching_transfer_encoding",
                "h_matching_upgrade", "h_connection", "h_content_length",
                "h_transfer_encoding", "h_upgrade", "h_general"}

StateFits(q) ==
    /\ q.state \in States /\ q.content_length \in 0 .. MaxLength
    /\ q.state = "s_header_field" => q.header_state \in FieldStates
    /\ q.state = "s_header_value" => q.header_state \notin {"h_connection", "h_transfer_encoding"}
    /\ q.state \in {"s_body_identity", "s_chunk_data"} => q.content_length \notin {0, MaxLength}
    /\ q.state \in {"s_chunk_size", "s_chunk_parameters", "s_chunk_size_almost_done"}
          => q.content_length # MaxLength
    /\ q.state = "s_chunk_data_almost_done" => q.content_length = 0
    /\ q.state \in ChunkStates => "CHUNKED" \in q.flags
    /\ q.state = "s_chunk_size_start" => q.saved = 0

(* A datum is marked only in the states that read it.                       *)
MarkStates == [header_field |-> {"s_header_field"}, header_value |-> {"s_header_value"},
               url |-> AddressStates, status |-> {"s_res_status"},
               body |-> {"s_body_identity", "s_body_identity_eof", "s_chunk_data",
                         "s_chunk_data_almost_done"}]
MarksFit(q) ==
    q.mark \in [Marks -> Nat] /\ \A m \in Marks : q.mark[m] # 0 => q.state \in MarkStates[m]
Unmarked(q) == q.mark = NoMarks

(* A call that goes on, and one that has returned.                          *)
Going(q) == /\ IsCall(q) /\ q.ret = -1 /\ q.http_errno = "OK" /\ q.asserts = TRUE
            /\ StateFits(q) /\ MarksFit(q)
Live(q) == Going(q) /\ (q.state = "s_chunk_size_start" => q.nread = 0 /\ q.again = FALSE)
Returned(q) == /\ IsCall(q) /\ q.ret \in 0 .. Len(q.data) /\ q.asserts = TRUE
               /\ q.http_errno \in {"OK", "PAUSED"} => StateFits(q)

(* How often a state can still look at the same byte.                       *)
Rank(s) == IF s \in {"s_header_value_lws", "s_header_value_discard_lws"} THEN 3
           ELSE IF s \in {"s_res_status_code", "s_header_field_start"} THEN 2
           ELSE IF s \in {"s_headers_almost_done", "s_res_status_start", "s_start_req_or_res",
                          "s_body_identity", "s_header_value"} THEN 1
           ELSE 0

(* The byte is about to be looked at.                                       *)
Inside(q) == Len(q.data) \in Nat /\ q.p \in 1 .. Len(q.data)
Ready(q) == /\ Going(q) /\ Inside(q) /\ q.again = FALSE
            /\ q.state = "s_chunk_size_start" => q.nread = 1

(* What a handler makes of it.                                              *)
Goes(q, r) == Live(r) /\ r.again \in BOOLEAN /\ (r.again => Rank(r.state) < Rank(q.state))
Good(q, r) == /\ r.data = q.data /\ r.p \in q.p .. Len(q.data)
              /\ Goes(q, r) \/ Returned(r)

-----------------------------------------------------------------------------
(* The macros.                                                              *)

(* Nothing differs that the invariant speaks of.                            *)
Alike(q, r) == /\ r.state = q.state /\ r.header_state = q.header_state /\ r.flags = q.flags
               /\ r.content_length = q.content_length /\ r.nread = q.nread /\ r.p = q.p
               /\ r.data = q.data /\ r.again = q.again /\ r.asserts = q.asserts
Same(q, r) == /\ IsCall(r) /\ Alike(q, r) /\ r.mark = q.mark /\ r.saved = q.saved
              /\ r.ret = q.ret /\ r.http_errno = q.http_errno

(* A callback was made: the call goes on, or returns er.                    *)
Asked(q, r, er) == /\ IsCall(r) /\ Alike(q, r)
                   /\ \/ Same(q, r)
                      \/ r.ret = er /\ r.http_errno = "PAUSED" /\ r.saved = q.saved
                      \/ r.ret = er /\ r.http_errno = "CB"

(* The same of a datum, whose mark is then gone.                            *)
Told(q, r, name, er) == /\ IsCall(r) /\ Alike(q, r)
                        /\ \/ /\ r.ret = q.ret /\ r.saved = q.saved /\ r.http_errno = q.http_errno
                              /\ r.mark = [q.mark EXCEPT ![name] = 0]
                           \/ r.ret = er /\ r.http_errno = "PAUSED" /\ r.saved = q.saved
                           \/ r.ret = er /\ r.http_errno = "CB"

(* An event does not touch what the invariant speaks of.                    *)
LEMMA EmitSame ==
    ASSUME NEW q, IsCall(q), NEW name, NEW piece PROVE Same(q, Emit(q, name, piece))
  BY DEF Emit, Same, Alike, IsCall, CallFields

(* What a callback answers.                                                 *)
LEMMA ReactAsked ==
    ASSUME NEW q, IsCall(q), NEW name, NEW er PROVE Asked(q, React(q, name, er), er)
  BY DEF React, Return, Same, Alike, Asked, IsCall, CallFields

(* The assertion at the entry of a callback holds of a call without error.  *)
LEMMA NoErrorSame ==
    ASSUME NEW q, IsCall(q), q.http_errno = "OK", q.asserts = TRUE PROVE Same(q, NoError(q))
  BY DEF NoError, Assert_, Same, Alike, IsCall, CallFields

(* A callback without data.                                                 *)
LEMMA NotifyAsked ==
    ASSUME NEW q, IsCall(q), q.http_errno = "OK", q.asserts = TRUE, NEW name, NEW er
    PROVE  Asked(q, Notify(q, name, er), er)
<1>0. PICK c : c = NoError(q)
  OBVIOUS
<1>1. Same(q, c)
  BY <1>0, NoErrorSame
<1>2. PICK e : e = Emit(c, name, "")
  OBVIOUS
<1>3. Same(c, e)
  BY <1>1, <1>2, EmitSame DEF Same
<1>4. Asked(e, React(e, name, er), er)
  BY <1>3, ReactAsked DEF Same
<1>5. Asked(q, React(e, name, er), er)
  BY <1>1, <1>3, <1>4 DEF Asked, Same, Alike
<1> QED
  BY <1>0, <1>1, <1>2, <1>5 DEF Notify, Asked, Same, Alike

(* A callback with data: whatever it answers, the datum is told or the call *)
(* returns.                                                                 *)
LEMMA DataOfTold ==
    ASSUME NEW q, IsCall(q), q.ret = -1, NEW name \in Marks, q.mark \in [Marks -> Nat], NEW last,
           NEW er \in Nat
    PROVE  Told(q, DataOf(q, name, last, er), name, er)
<1>1. CASE q.mark[name] = 0
  <2>1. DataOf(q, name, last, er) = q /\ [q.mark EXCEPT ![name] = 0] = q.mark
    BY <1>1 DEF DataOf
  <2> QED
    BY <2>1 DEF Told, Alike
<1>2. CASE q.mark[name] # 0 /\ name \notin Callbacks
  <2>1. DataOf(q, name, last, er) = [q EXCEPT !.mark[name] = 0]
    BY <1>2 DEF DataOf, Unmark, Stopped
  <2> QED
    BY <2>1 DEF Told, Alike, IsCall, CallFields
<1>3. CASE q.mark[name] # 0 /\ name \in Callbacks
  <2>1. PICK e : e = Emit(q, name, SubSeq(q.data, q.mark[name], last))
    OBVIOUS
  <2>2. PICK a : a = React(e, name, er)
    OBVIOUS
  <2>3. DataOf(q, name, last, er) = Unmark(a, name)
    BY <1>3, <2>1, <2>2 DEF DataOf
  <2>4. Same(q, e)
    BY <2>1, EmitSame
  <2>5. Asked(e, a, er)
    BY <2>2, <2>4, ReactAsked DEF Same
  <2>6. CASE Same(e, a)
    <3>1. Unmark(a, name) = [a EXCEPT !.mark[name] = 0] /\ IsCall(a) /\ a.mark = q.mark
      BY <2>4, <2>6 DEF Unmark, Stopped, Same
    <3> QED
      BY <2>3, <2>4, <2>6, <3>1 DEF Told, Same, Alike, IsCall, CallFields
  <2>7. CASE ~Same(e, a)
    <3>1. a.ret = er /\ IsCall(a) /\ Alike(e, a)
          /\ ((a.http_errno = "PAUSED" /\ a.saved = q.saved) \/ a.http_errno = "CB")
      BY <2>4, <2>5, <2>7 DEF Asked, Same
    <3>2. Unmark(a, name) = a
      BY <3>1 DEF Unmark, Stopped
    <3> QED
      BY <2>3, <2>4, <3>1, <3>2 DEF Told, Same, Alike
  <2> QED
    BY <2>6, <2>7
<1> QED
  BY <1>1, <1>2, <1>3

(* ... and the assertion at its entry holds.                                *)
LEMMA DataTold ==
    ASSUME NEW q, IsCall(q), q.ret = -1, q.http_errno = "OK", q.asserts = TRUE,
           NEW name \in Marks, q.mark \in [Marks -> Nat], NEW last, NEW er \in Nat
    PROVE  Told(q, Data(q, name, last, er), name, er)
<1>1. PICK c : c = NoError(q)
  OBVIOUS
<1>2. Same(q, c)
  BY <1>1, NoErrorSame
<1>3. Told(c, DataOf(c, name, last, er), name, er)
  BY <1>2, DataOfTold DEF Same
<1> QED
  BY <1>1, <1>2, <1>3 DEF Data, Told, Same, Alike

-----------------------------------------------------------------------------
(* How a handler may end.                                                   *)

(* The call goes on, inside the piece.                                      *)
Steady(z, q) == /\ IsCall(q) /\ q.ret = -1 /\ q.http_errno = "OK" /\ q.asserts = TRUE
                /\ q.data = z.data /\ q.p \in z.p .. Len(z.data) /\ q.again = FALSE

(* An error ends the call.                                                  *)
LEMMA FailGood ==
    ASSUME NEW z, Inside(z), NEW q, IsCall(q), q.asserts = TRUE, q.data = z.data,
           q.p \in z.p .. Len(z.data), NEW e, e \notin {"OK", "PAUSED"}
    PROVE  Good(z, Fail(q, e))
<1>1. PICK r : r = Fail(q, e)
  OBVIOUS
<1>2. /\ IsCall(r) /\ r.data = q.data /\ r.p = q.p /\ r.asserts = q.asserts
      /\ r.ret = q.p - 1 /\ r.http_errno = e
  BY <1>1 DEF Fail, Return, IsCall, CallFields
<1> QED
  BY <1>1, <1>2 DEF Good, Returned, Inside

(* A handler may end in any state that needs no mark.                       *)
LEMMA PlainGood ==
    ASSUME NEW z, NEW q, Steady(z, q), q.state \in PlainStates,
           q.content_length \in 0 .. MaxLength, Unmarked(q)
    PROVE  Live(q) /\ Good(z, q)
<1>1. /\ q.state \in States /\ q.state \notin ChunkStates
      /\ q.state \notin {"s_header_field", "s_header_value", "s_body_identity", "s_chunk_data"}
  BY DEF PlainStates, States, ChunkStates, HeadStates, VersionStates, StartStates
<1>2. StateFits(q) /\ q.state # "s_chunk_size_start"
  BY <1>1 DEF StateFits, ChunkStates
<1>3. MarksFit(q)
  BY DEF MarksFit, Unmarked, NoMarks, Marks
<1> QED
  BY <1>2, <1>3 DEF Steady, Live, Going, Good, Goes

(* ... and in what a callback without data leaves, in the same state ...    *)
LEMMA AskedGood ==
    ASSUME NEW z, Inside(z), NEW q, Steady(z, q), Live(q), NEW er \in 0 .. Len(z.data),
           NEW r, Asked(q, r, er)
    PROVE  Good(z, r) /\ r.state = q.state
<1>1. /\ IsCall(r) /\ r.data = z.data /\ r.p = q.p /\ r.asserts = TRUE /\ r.state = q.state
      /\ r.again = FALSE
  BY DEF Asked, Alike, Steady
<1>2. CASE Same(q, r)
  <2>1. Live(r)
    BY <1>1, <1>2 DEF Live, Going, Same, Alike, StateFits, MarksFit
  <2> QED
    BY <1>1, <2>1 DEF Good, Goes, Steady
<1>3. CASE ~Same(q, r)
  <2>1. r.ret = er /\ ((r.http_errno = "PAUSED" /\ r.saved = q.saved) \/ r.http_errno = "CB")
    BY <1>3 DEF Asked
  <2>2. r.http_errno = "PAUSED" => StateFits(r)
    BY <2>1 DEF Asked, Alike, Live, Going, StateFits
  <2> QED
    BY <1>1, <2>1, <2>2 DEF Good, Returned, Steady
<1> QED
  BY <1>1, <1>2, <1>3

(* Only one datum is marked.                                                *)
Only(q, name) == q.mark \in [Marks -> Nat] /\ \A m \in Marks \ {name} : q.mark[m] = 0

(* ... and in what a callback for the only marked datum leaves.             *)
LEMMA ToldGood ==
    ASSUME NEW z, Inside(z), NEW q, Steady(z, q), StateFits(q), q.state # "s_chunk_size_start",
           NEW name \in Marks, Only(q, name), NEW er \in 0 .. Len(z.data),
           NEW r, Told(q, r, name, er)
    PROVE  Good(z, r) /\ r.state = q.state
<1>1. /\ IsCall(r) /\ r.data = z.data /\ r.p = q.p /\ r.asserts = TRUE /\ r.state = q.state
      /\ r.again = FALSE
  BY DEF Told, Alike, Steady
<1>2. CASE /\ r.ret = q.ret /\ r.saved = q.saved /\ r.http_errno = q.http_errno
           /\ r.mark = [q.mark EXCEPT ![name] = 0]
  <2>1. StateFits(r)
    BY <1>1, <1>2 DEF StateFits, Told, Alike
  <2>2. MarksFit(r)
    BY <1>2 DEF MarksFit, Only
  <2>3. Live(r)
    BY <1>1, <1>2, <2>1, <2>2 DEF Live, Going, Steady
  <2> QED
    BY <1>1, <2>3 DEF Good, Goes, Steady
<1>3. CASE r.ret = er /\ ((r.http_errno = "PAUSED" /\ r.saved = q.saved) \/ r.http_errno = "CB")
  <2>1. r.http_errno = "PAUSED" => StateFits(r)
    BY <1>3 DEF Told, Alike, StateFits
  <2> QED
    BY <1>1, <1>3, <2>1 DEF Good, Returned, Steady
<1> QED
  BY <1>1, <1>2, <1>3 DEF Told

(* A handler may ask for another look at the byte from a state of lower     *)
(* rank.                                                                    *)
LEMMA AgainGood ==
    ASSUME NEW z, Inside(z), NEW r, Good(z, r), r.state # "s_chunk_size_start",
           Rank(r.state) < Rank(z.state)
    PROVE  Good(z, Again(r))
<1>1. PICK a : a = Again(r)
  OBVIOUS
<1>2. IsCall(r)
  BY DEF Good, Goes, Live, Going, Returned
<1>3. /\ IsCall(a) /\ a.state = r.state /\ a.header_state = r.header_state /\ a.flags = r.flags
      /\ a.content_length = r.content_length /\ a.p = r.p /\ a.data = r.data /\ a.again = TRUE
      /\ a.asserts = r.asserts /\ a.mark = r.mark /\ a.saved = r.saved /\ a.ret = r.ret
      /\ a.http_errno = r.http_errno
  BY <1>1, <1>2 DEF Again, IsCall, CallFields
<1>4. StateFits(r) => StateFits(a)
  BY <1>3 DEF StateFits
<1>5. MarksFit(r) => MarksFit(a)
  BY <1>3 DEF MarksFit
<1>6. CASE Goes(z, r)
  <2>1. Live(a)
    BY <1>3, <1>4, <1>5, <1>6 DEF Goes, Live, Going
  <2> QED
    BY <1>1, <1>3, <2>1 DEF Good, Goes
<1>7. CASE Returned(r)
  <2>1. Returned(a)
    BY <1>3, <1>4, <1>7 DEF Returned
  <2> QED
    BY <1>1, <1>3, <2>1 DEF Good
<1> QED
  BY <1>6, <1>7 DEF Good

(***************************************************************************)
(* The handlers of the first line and of what needs no mark.               *)
(***************************************************************************)

(* No datum is marked.                                                      *)
Fresh(z, q) == Steady(z, q) /\ Unmarked(q) /\ q.content_length \in 0 .. MaxLength

(* The byte of z is looked at: what a handler starts from.                  *)
Looked(z) == /\ Inside(z) /\ Steady(z, z) /\ StateFits(z) /\ MarksFit(z)
             /\ z.state = "s_chunk_size_start" => z.nread = 1

(* What a handler knows of the byte it looks at.                            *)
LEMMA ReadyLooked ==
    ASSUME NEW q, Ready(q)
    PROVE  Looked(q) /\ (q.state \in PlainStates => Fresh(q, q))
<1>1. Looked(q)
  BY DEF Ready, Looked, Going, Inside, Steady
<1>2. ASSUME q.state \in PlainStates PROVE Unmarked(q)
  <2>1. \A m \in Marks : q.state \notin MarkStates[m]
    BY <1>2 DEF PlainStates, HeadStates, VersionStates, StartStates, MarkStates, Marks, AddressStates
  <2> QED
    BY <1>1, <2>1 DEF Looked, MarksFit, Unmarked, NoMarks
<1> QED
  BY <1>1, <1>2 DEF Looked, Fresh, StateFits

(* A change of state marks nothing.                                         *)
LEMMA FreshGoto ==
    ASSUME NEW z, NEW q, Fresh(z, q), NEW s, NEW r, r = Goto(q, s)
    PROVE  Fresh(z, r) /\ r.state = s
  BY DEF Fresh, Steady, Goto, Unmarked, IsCall, CallFields

(* No mark, and a state that needs none.                                    *)
LEMMA FreshPlain ==
    ASSUME NEW z, NEW q, Fresh(z, q), q.state \in PlainStates
    PROVE  Live(q) /\ Good(z, q)
  BY PlainGood DEF Fresh

(* No mark, and an error.                                                   *)
LEMMA FreshFail ==
    ASSUME NEW z, Inside(z), NEW q, Fresh(z, q), NEW e, e \notin {"OK", "PAUSED"}
    PROVE  Good(z, Fail(q, e))
  BY FailGood DEF Fresh, Steady

(* No mark, and a callback without data.                                    *)
LEMMA NotifyEnds ==
    ASSUME NEW z, Inside(z), NEW q, Fresh(z, q), Live(q), NEW name,
           NEW er \in 0 .. Len(z.data), NEW r, r = Notify(q, name, er)
    PROVE  Good(z, r) /\ r.state = q.state /\ (Stopped(r) \/ Fresh(z, r))
<1>1. Asked(q, r, er) /\ Steady(z, q)
  BY NotifyAsked DEF Fresh, Steady, Live, Going
<1>2. Good(z, r) /\ r.state = q.state
  BY <1>1, AskedGood
<1>3. er # -1
  BY DEF Inside
<1> QED
  BY <1>1, <1>2, <1>3 DEF Asked, Same, Alike, Stopped, Fresh, Steady, Unmarked

(* CALLBACK_NOTIFY and CALLBACK_NOTIFY_NOADVANCE where no datum is marked.  *)
LEMMA FreshNotify ==
    ASSUME NEW z, Inside(z), NEW q, Fresh(z, q), q.state \in PlainStates, NEW name
    PROVE  /\ Good(z, CallNotify(q, name)) /\ CallNotify(q, name).state = q.state
           /\ Stopped(CallNotify(q, name)) \/ Fresh(z, CallNotify(q, name))
           /\ Good(z, CallNotifyNoAdvance(q, name)) /\ CallNotifyNoAdvance(q, name).state = q.state
<1>1. q.p \in 0 .. Len(z.data) /\ q.p - 1 \in 0 .. Len(z.data)
  BY DEF Fresh, Steady, Inside
<1>2. Live(q)
  BY FreshPlain
<1> QED
  BY <1>1, <1>2, NotifyEnds DEF CallNotify, CallNotifyNoAdvance

(* A handler that only changes the state.                                   *)
LEMMA GotoGood ==
    ASSUME NEW z, NEW q, Fresh(z, q), NEW s \in PlainStates
    PROVE  Good(z, Goto(q, s)) /\ Live(Goto(q, s))
<1>1. PICK r : r = Goto(q, s)
  OBVIOUS
<1>2. Fresh(z, r) /\ r.state = s
  BY <1>1, FreshGoto
<1> QED
  BY <1>1, <1>2, FreshPlain

(* A handler that changes the state and makes a callback.                   *)
LEMMA GotoNotifyGood ==
    ASSUME NEW z, Inside(z), NEW q, Fresh(z, q), NEW s \in PlainStates, NEW name
    PROVE  Good(z, CallNotify(Goto(q, s), name))
<1>1. PICK r : r = Goto(q, s)
  OBVIOUS
<1>2. Fresh(z, r) /\ r.state = s
  BY <1>1, FreshGoto
<1> QED
  BY <1>1, <1>2, FreshNotify

(* A handler that changes the state and looks at the byte again.            *)
LEMMA GotoAgainGood ==
    ASSUME NEW z, Inside(z), NEW q, Fresh(z, q), NEW s \in PlainStates,
           Rank(s) < Rank(z.state)
    PROVE  Good(z, Again(Goto(q, s)))
<1>1. PICK r : r = Goto(q, s)
  OBVIOUS
<1>2. Fresh(z, r) /\ r.state = s
  BY <1>1, FreshGoto
<1>3. s # "s_chunk_size_start"
  BY DEF PlainStates, HeadStates, VersionStates, StartStates
<1> QED
  BY <1>1, <1>2, <1>3, FreshPlain, AgainGood

-----------------------------------------------------------------------------
(* One lemma for each handler.                                              *)

(* The table of the states that expect one byte leads to states that need   *)
(* no mark.                                                                 *)
LEMMA LiteralRows ==
    /\ DOMAIN Literal = HeadStates
    /\ \A s \in HeadStates : /\ Literal[s][2] \in PlainStates
                             /\ Literal[s][3] \notin {"OK", "PAUSED"}
<1>1. DOMAIN Literal = HeadStates
  BY DEF Literal, HeadStates
<1> DEFINE Right(s) == /\ Literal[s][2] \in PlainStates
                       /\ Literal[s][3] \notin {"OK", "PAUSED"}
<1>2. Right("s_res_H")
  BY DEF Literal, PlainStates, HeadStates, VersionStates
<1>3. Right("s_res_HT")
  BY DEF Literal, PlainStates, HeadStates, VersionStates
<1>4. Right("s_res_HTT")
  BY DEF Literal, PlainStates, HeadStates, VersionStates
<1>5. Right("s_res_HTTP")
  BY DEF Literal, PlainStates, HeadStates, VersionStates
<1>6. Right("s_res_http_dot")
  BY DEF Literal, PlainStates, HeadStates, VersionStates
<1>7. Right("s_res_http_end")
  BY DEF Literal, PlainStates, HeadStates, VersionStates
<1>8. Right("s_res_line_almost_done")
  BY DEF Literal, PlainStates, HeadStates, VersionStates
<1>9. Right("s_req_http_H")
  BY DEF Literal, PlainStates, HeadStates, VersionStates
<1>10. Right("s_req_http_HT")
  BY DEF Literal, PlainStates, HeadStates, VersionStates
<1>11. Right("s_req_http_HTT")
  BY DEF Literal, PlainStates, HeadStates, VersionStates
<1>12. Right("s_req_http_I")
  BY DEF Literal, PlainStates, HeadStates, VersionStates
<1>13. Right("s_req_http_IC")
  BY DEF Literal, PlainStates, HeadStates, VersionStates
<1>14. Right("s_req_http_HTTP")
  BY DEF Literal, PlainStates, HeadStates, VersionStates
<1>15. Right("s_req_http_dot")
  BY DEF Literal, PlainStates, HeadStates, VersionStates
<1>16. Right("s_req_line_almost_done")
  BY DEF Literal, PlainStates, HeadStates, VersionStates
<1>17. Right("s_header_almost_done")
  BY DEF Literal, PlainStates, HeadStates, VersionStates
<1>18. Right("s_header_value_discard_ws_almost_done")
  BY DEF Literal, PlainStates, HeadStates, VersionStates
<1> HIDE DEF Right
<1>19. \A s \in HeadStates : Right(s)
  BY <1>2, <1>3, <1>4, <1>5, <1>6, <1>7, <1>8, <1>9, <1>10, <1>11, <1>12, <1>13, <1>14,
     <1>15, <1>16, <1>17, <1>18 DEF HeadStates
<1> QED
  BY <1>1, <1>19 DEF Right

(* The states that expect one byte.                                         *)
LEMMA OneByteGood ==
    ASSUME NEW q, Ready(q), q.state \in HeadStates
    PROVE  Good(q, OneByte(q))
<1>1. /\ Literal[q.state][2] \in PlainStates
      /\ Literal[q.state][3] \notin {"OK", "PAUSED"}
  BY LiteralRows
<1>2. Fresh(q, q) /\ Inside(q)
  BY ReadyLooked DEF PlainStates, Looked
<1>3. Good(q, Goto(q, Literal[q.state][2]))
  BY <1>1, <1>2, GotoGood
<1>4. Good(q, Fail(q, Literal[q.state][3]))
  BY <1>1, <1>2, FreshFail
<1> QED
  BY <1>3, <1>4 DEF OneByte

(* The digits of the version.                                               *)
LEMMA VersionDigitGood ==
    ASSUME NEW q, Ready(q), q.state \in VersionStates
    PROVE  Good(q, VersionDigit(q))
<1>1. /\ Version[q.state][2] \in PlainStates
      /\ Version[q.state][1] \in {"http_major", "http_minor"}
  BY DEF Version, VersionStates, HeadStates, PlainStates
<1>2. Fresh(q, q) /\ Inside(q)
  BY ReadyLooked DEF PlainStates, Looked
<1>3. PICK r : r = [q EXCEPT ![Version[q.state][1]] = DigitValue(Ch(q))]
  OBVIOUS
<1>4. Fresh(q, r)
  BY <1>1, <1>2, <1>3 DEF Fresh, Steady, Unmarked, IsCall, CallFields
<1>5. Good(q, Goto(r, Version[q.state][2]))
  BY <1>1, <1>4, GotoGood
<1>6. Good(q, Fail(q, "INVALID_VERSION"))
  BY <1>2, FreshFail
<1> QED
  BY <1>3, <1>5, <1>6 DEF VersionDigit

(* The first byte of a message.                                             *)
LEMMA StartGood ==
    ASSUME NEW q, Ready(q), q.state \in StartStates
    PROVE  Good(q, Start(q))
<1>1. Fresh(q, q) /\ Inside(q) /\ q.state \in PlainStates
  BY ReadyLooked DEF PlainStates, Looked
<1>2. PICK b : b = Begin(q)
  OBVIOUS
<1>3. Fresh(q, b)
  BY <1>1, <1>2, ParserAssumption DEF Begin, Fresh, Steady, Unmarked, IsCall, CallFields
<1>4. PICK t : t = [b EXCEPT !.type = "REQUEST"]
  OBVIOUS
<1>5. PICK f : f = [b EXCEPT !.method = FirstMethod[Ch(q)], !.index = 1]
  OBVIOUS
<1>6. Fresh(q, t) /\ Fresh(q, f)
  BY <1>3, <1>4, <1>5 DEF Fresh, Steady, Unmarked, IsCall, CallFields
<1>7. {"s_res_or_resp_H", "s_res_H", "s_req_method", "s_start_req"} \subseteq PlainStates
  BY DEF PlainStates, HeadStates, StartStates
<1>8. /\ Good(q, CallNotify(Goto(b, "s_res_or_resp_H"), "message_begin"))
      /\ Good(q, CallNotify(Goto(b, "s_res_H"), "message_begin"))
      /\ Good(q, CallNotify(Goto(f, "s_req_method"), "message_begin"))
  BY <1>1, <1>3, <1>6, <1>7, GotoNotifyGood
<1>9. Good(q, Fail(b, "INVALID_CONSTANT")) /\ Good(q, Fail(b, "INVALID_METHOD"))
  BY <1>1, <1>3, FreshFail
<1>10. Good(q, q)
  BY <1>1, FreshPlain
<1>11. CASE q.state = "s_start_req_or_res"
  <2>1. Rank("s_start_req") < Rank(q.state)
    BY <1>11 DEF Rank
  <2>2. Good(q, Again(Goto(t, "s_start_req")))
    BY <2>1, <1>1, <1>6, <1>7, GotoAgainGood
  <2> QED
    BY <1>2, <1>4, <1>8, <1>10, <1>11, <2>2 DEF Start
<1>12. CASE q.state = "s_start_res"
  BY <1>2, <1>8, <1>9, <1>10, <1>12 DEF Start
<1>13. CASE q.state = "s_start_req"
  BY <1>2, <1>5, <1>8, <1>9, <1>10, <1>13 DEF Start
<1> QED
  BY <1>11, <1>12, <1>13 DEF StartStates

(* HT or HE: an answer or the request HEAD.                                 *)
LEMMA ResponseOrRequestGood ==
    ASSUME NEW q, Ready(q), q.state = "s_res_or_resp_H"
    PROVE  Good(q, ResponseOrRequest(q))
<1>1. Fresh(q, q) /\ Inside(q)
  BY ReadyLooked DEF PlainStates, Looked
<1>2. PICK a : a = [q EXCEPT !.type = "RESPONSE"]
  OBVIOUS
<1>3. PICK b : b = [q EXCEPT !.type = "REQUEST", !.method = "HEAD", !.index = 2]
  OBVIOUS
<1>4. Fresh(q, a) /\ Fresh(q, b)
  BY <1>1, <1>2, <1>3 DEF Fresh, Steady, Unmarked, IsCall, CallFields
<1>5. {"s_res_HT", "s_req_method"} \subseteq PlainStates
  BY DEF PlainStates, HeadStates
<1>6. Good(q, Goto(a, "s_res_HT")) /\ Good(q, Goto(b, "s_req_method"))
  BY <1>4, <1>5, GotoGood
<1>7. Good(q, Fail(q, "INVALID_CONSTANT"))
  BY <1>1, FreshFail
<1> QED
  BY <1>2, <1>3, <1>6, <1>7 DEF ResponseOrRequest

(* The digits of the status.                                                *)
LEMMA StatusCodeGood ==
    ASSUME NEW q, Ready(q), q.state \in {"s_res_first_status_code", "s_res_status_code"}
    PROVE  Good(q, StatusCode(q))
<1>1. Fresh(q, q) /\ Inside(q) /\ q.state \in PlainStates
  BY ReadyLooked DEF PlainStates, Looked
<1>2. PICK a : a = [q EXCEPT !.status_code = DigitValue(Ch(q))]
  OBVIOUS
<1>3. PICK b : b = [q EXCEPT !.status_code = q.status_code * 10 + DigitValue(Ch(q))]
  OBVIOUS
<1>4. Fresh(q, a) /\ Fresh(q, b) /\ b.state = q.state
  BY <1>1, <1>2, <1>3 DEF Fresh, Steady, Unmarked, IsCall, CallFields
<1>5. {"s_res_status_code", "s_res_status_start"} \subseteq PlainStates
  BY DEF PlainStates
<1>6. /\ Good(q, Goto(a, "s_res_status_code")) /\ Good(q, Goto(q, "s_res_status_start"))
      /\ Good(q, q) /\ Good(q, b)
  BY <1>1, <1>4, <1>5, GotoGood, FreshPlain
<1>7. Good(q, Fail(q, "INVALID_STATUS")) /\ Good(q, Fail(b, "INVALID_STATUS"))
  BY <1>1, <1>4, FreshFail
<1>8. CASE q.state = "s_res_first_status_code"
  BY <1>2, <1>6, <1>7, <1>8 DEF StatusCode
<1>9. CASE q.state = "s_res_status_code"
  <2>1. Rank("s_res_status_start") < Rank(q.state)
    BY <1>9 DEF Rank
  <2>2. Good(q, Again(Goto(q, "s_res_status_start")))
    BY <1>1, <1>5, <2>1, GotoAgainGood
  <2> QED
    BY <1>3, <1>6, <1>7, <1>9, <2>2 DEF StatusCode
<1> QED
  BY <1>8, <1>9

(***************************************************************************)
(* Handlers that mark a datum, or end one.                                 *)
(***************************************************************************)

(* At most one datum is marked.                                             *)
Holds(z, q, name) ==
    Steady(z, q) /\ Only(q, name) /\ q.content_length \in 0 .. MaxLength

(* Where no datum is marked, no other than the one named is.                *)
LEMMA FreshHolds ==
    ASSUME NEW z, NEW q, Fresh(z, q), NEW name \in Marks
    PROVE  Holds(z, q, name)
  BY DEF Fresh, Holds, Unmarked, Only, NoMarks

(* In a state that reads a datum no other is marked.                        *)
LEMMA LookedHolds ==
    ASSUME NEW z, Looked(z), NEW name \in Marks, z.state \in MarkStates[name]
    PROVE  Holds(z, z, name)
<1>1. ASSUME NEW m \in Marks \ {name} PROVE z.state \notin MarkStates[m]
  BY <1>1 DEF MarkStates, Marks, AddressStates
<1> QED
  BY <1>1 DEF Looked, Holds, StateFits, MarksFit, Only

(* A change of state keeps the marks.                                       *)
LEMMA HoldsGoto ==
    ASSUME NEW z, NEW name, NEW q, Holds(z, q, name), NEW s, NEW r, r = Goto(q, s)
    PROVE  Holds(z, r, name) /\ r.state = s
  BY DEF Holds, Steady, Goto, Only, IsCall, CallFields

(* MARK of the datum that may be marked.                                    *)
LEMMA HoldsMark ==
    ASSUME NEW z, Inside(z), NEW name \in Marks, NEW q, Holds(z, q, name), NEW r, r = Mark(q, name)
    PROVE  Holds(z, r, name) /\ Alike(q, r) /\ r.saved = q.saved
<1>1. q.p \in Nat /\ IsCall(q)
  BY DEF Holds, Steady, Inside
<1>2. CASE q.mark[name] = 0
  <2>1. r = [q EXCEPT !.mark[name] = q.p]
    BY <1>2 DEF Mark
  <2>2. r.mark = [q.mark EXCEPT ![name] = q.p]
    BY <1>1, <2>1 DEF IsCall, CallFields
  <2>3. Only(r, name)
    BY <1>1, <2>2 DEF Holds, Only
  <2> QED
    BY <1>1, <2>1, <2>3 DEF Holds, Steady, Alike, IsCall, CallFields
<1>3. CASE q.mark[name] # 0
  <2> QED
    BY <1>3 DEF Mark, Alike
<1> QED
  BY <1>2, <1>3

(* The callback for the only marked datum leaves none marked, or returns.   *)
LEMMA DataEnds ==
    ASSUME NEW z, Inside(z), NEW name \in Marks, NEW r, Holds(z, r, name),
           StateFits(r), r.state # "s_chunk_size_start", NEW er \in 0 .. Len(z.data),
           NEW last, NEW d, d = Data(r, name, last, er)
    PROVE  /\ Good(z, d) /\ d.state = r.state
           /\ Stopped(d) \/ Fresh(z, d)
<1>3. /\ Steady(z, r) /\ Only(r, name) /\ IsCall(r) /\ r.ret = -1 /\ r.mark \in [Marks -> Nat]
      /\ er \in Nat /\ r.http_errno = "OK" /\ r.asserts = TRUE
  BY DEF Holds, Steady, Inside, Only
<1>4. Told(r, d, name, er)
  BY <1>3, DataTold
<1>5. Good(z, d) /\ d.state = r.state
  BY <1>3, <1>4, ToldGood
<1>6. Stopped(d) \/ Fresh(z, d)
  <2>1. CASE d.ret = er
    BY <1>3, <2>1 DEF Stopped
  <2>2. CASE /\ d.ret = r.ret /\ d.http_errno = r.http_errno
             /\ d.mark = [r.mark EXCEPT ![name] = 0]
    <3>1. d.mark = [m \in Marks |-> 0]
      BY <1>3, <2>2 DEF Only
    <3> QED
      BY <1>4, <2>2, <3>1 DEF Told, Alike, Fresh, Steady, Holds, Unmarked, NoMarks
  <2> QED
    BY <1>4, <2>1, <2>2 DEF Told
<1> QED
  BY <1>5, <1>6

(* CALLBACK_DATA and CALLBACK_DATA_NOADVANCE at the end of a datum, in the  *)
(* state after it.                                                          *)
LEMMA DataAtGood ==
    ASSUME NEW z, Inside(z), NEW name \in Marks, NEW r, Holds(z, r, name),
           r.state \in PlainStates
    PROVE  /\ Good(z, CallData(r, name)) /\ CallData(r, name).state = r.state
           /\ Stopped(CallData(r, name)) \/ Fresh(z, CallData(r, name))
           /\ Good(z, CallDataNoAdvance(r, name))
           /\ CallDataNoAdvance(r, name).state = r.state
<1>1. r.p \in 0 .. Len(z.data) /\ r.p - 1 \in 0 .. Len(z.data)
  BY DEF Holds, Steady, Inside
<1>2. /\ r.state \in States /\ r.state \notin ChunkStates
      /\ r.state \notin {"s_header_field", "s_header_value", "s_body_identity", "s_chunk_data"}
  BY DEF PlainStates, States, ChunkStates, HeadStates, VersionStates, StartStates
<1>3. StateFits(r) /\ r.state # "s_chunk_size_start"
  BY <1>2 DEF StateFits, ChunkStates, Holds
<1> QED
  BY <1>1, <1>3, DataEnds DEF CallData, CallDataNoAdvance

(* A handler that ends a datum and changes the state.                       *)
LEMMA DataGood ==
    ASSUME NEW z, Inside(z), NEW name \in Marks, NEW q, Holds(z, q, name),
           NEW s \in PlainStates
    PROVE  /\ Good(z, CallData(Goto(q, s), name))
           /\ Good(z, CallDataNoAdvance(Goto(q, s), name))
           /\ CallDataNoAdvance(Goto(q, s), name).state = s
<1>1. PICK r : r = Goto(q, s)
  OBVIOUS
<1>2. Holds(z, r, name) /\ r.state = s
  BY <1>1, HoldsGoto
<1> QED
  BY <1>1, <1>2, DataAtGood

(* States that read a datum and expect nothing else.                        *)
DatumStates == AddressStates \cup {"s_res_status"}

(* A handler may end in a state that reads the marked datum.                *)
LEMMA DatumGood ==
    ASSUME NEW z, NEW name \in Marks, NEW q, Holds(z, q, name), q.state \in DatumStates,
           q.state \in MarkStates[name]
    PROVE  Live(q) /\ Good(z, q)
<1>1. /\ q.state \in States /\ q.state \notin ChunkStates
      /\ q.state \notin {"s_header_field", "s_header_value", "s_body_identity", "s_chunk_data"}
  BY DEF DatumStates, AddressStates, States, ChunkStates
<1>2. StateFits(q) /\ q.state # "s_chunk_size_start"
  BY <1>1 DEF StateFits, ChunkStates, Holds
<1>3. MarksFit(q)
  BY DEF MarksFit, Holds, Only
<1> QED
  BY <1>2, <1>3 DEF Holds, Steady, Live, Going, Good, Goes

(* A marked datum, and an error.                                            *)
LEMMA HoldsFail ==
    ASSUME NEW z, Inside(z), NEW name, NEW q, Holds(z, q, name), NEW e, e \notin {"OK", "PAUSED"}
    PROVE  Good(z, Fail(q, e))
  BY FailGood DEF Holds, Steady

-----------------------------------------------------------------------------
(* The phrase of the status.                                                *)
LEMMA StatusTextGood ==
    ASSUME NEW q, Ready(q), q.state \in {"s_res_status_start", "s_res_status"}
    PROVE  Good(q, StatusText(q))
<1>1. Looked(q) /\ Inside(q) /\ "status" \in Marks /\ "s_res_status" \in DatumStates
      /\ "s_res_status" \in MarkStates["status"]
  BY ReadyLooked DEF Looked, Marks, DatumStates, MarkStates
<1>2. CASE q.state = "s_res_status_start"
  <2>1. Holds(q, q, "status")
    BY <1>1, <1>2, ReadyLooked, FreshHolds DEF PlainStates
  <2>2. PICK m : m = Mark(q, "status")
    OBVIOUS
  <2>3. PICK n : n = [m EXCEPT !.index = 0]
    OBVIOUS
  <2>4. PICK s : s = Goto(n, "s_res_status")
    OBVIOUS
  <2>0. Holds(q, m, "status")
    BY <1>1, <2>1, <2>2, HoldsMark
  <2>5. Holds(q, n, "status")
    BY <2>0, <2>3 DEF Holds, Steady, Only, IsCall, CallFields
  <2>6. Holds(q, s, "status") /\ s.state = "s_res_status"
    BY <2>4, <2>5, HoldsGoto
  <2>7. Good(q, s)
    BY <1>1, <2>6, DatumGood
  <2>8. Rank(s.state) < Rank(q.state)
    BY <1>2, <2>6 DEF Rank
  <2>9. Good(q, Again(s))
    BY <1>1, <2>6, <2>7, <2>8, AgainGood
  <2> QED
    BY <1>2, <2>2, <2>3, <2>4, <2>7, <2>9 DEF StatusText
<1>3. CASE q.state = "s_res_status"
  <2>1. Holds(q, q, "status")
    BY <1>1, <1>3, LookedHolds
  <2>2. {"s_res_line_almost_done", "s_header_field_start"} \subseteq PlainStates
    BY DEF PlainStates, HeadStates
  <2>3. /\ Good(q, CallData(Goto(q, "s_res_line_almost_done"), "status"))
        /\ Good(q, CallData(Goto(q, "s_header_field_start"), "status"))
    BY <1>1, <2>1, <2>2, DataGood
  <2>4. Good(q, q)
    BY <1>1, <1>3, <2>1, DatumGood
  <2> QED
    BY <1>3, <2>3, <2>4 DEF StatusText
<1> QED
  BY <1>2, <1>3

(* The method.                                                              *)
LEMMA MethodByteGood ==
    ASSUME NEW q, Ready(q), q.state = "s_req_method"
    PROVE  Good(q, MethodByte(q))
<1>1. Fresh(q, q) /\ Inside(q) /\ {"s_req_method", "s_req_spaces_before_url"} \subseteq PlainStates
  BY ReadyLooked DEF PlainStates, Looked
<1>2. PICK n : n = [q EXCEPT !.index = @ + 1]
  OBVIOUS
<1>3. Fresh(q, n) /\ n.state = q.state
  BY <1>1, <1>2 DEF Fresh, Steady, Unmarked, IsCall, CallFields
<1>4. ASSUME NEW m PROVE Good(q, [n EXCEPT !.method = m])
  <2>1. PICK r : r = [n EXCEPT !.method = m]
    OBVIOUS
  <2>2. Fresh(q, r) /\ r.state = q.state
    BY <1>3, <2>1 DEF Fresh, Steady, Unmarked, IsCall, CallFields
  <2> QED
    BY <1>1, <2>1, <2>2, FreshPlain
<1>5. Good(q, Goto(n, "s_req_spaces_before_url")) /\ Good(q, n)
  BY <1>1, <1>3, GotoGood, FreshPlain
<1>6. Good(q, Fail(q, "INVALID_METHOD"))
  BY <1>1, FreshFail
<1> QED
  BY <1>2, <1>4, <1>5, <1>6 DEF MethodByte

(* The blanks behind the address.                                           *)
LEMMA AfterUrlGood ==
    ASSUME NEW q, Ready(q), q.state = "s_req_http_start"
    PROVE  Good(q, AfterUrl(q))
<1>1. /\ Fresh(q, q) /\ Inside(q)
      /\ {"s_req_http_start", "s_req_http_H", "s_req_http_I"} \subseteq PlainStates
  BY ReadyLooked DEF PlainStates, Looked, HeadStates
<1>2. Good(q, q) /\ Good(q, Goto(q, "s_req_http_H")) /\ Good(q, Goto(q, "s_req_http_I"))
  BY <1>1, GotoGood, FreshPlain
<1>3. Good(q, Fail(q, "INVALID_CONSTANT"))
  BY <1>1, FreshFail
<1> QED
  BY <1>2, <1>3 DEF AfterUrl

(* The end of the request line.                                             *)
LEMMA RequestLineEndGood ==
    ASSUME NEW q, Ready(q), q.state = "s_req_http_end"
    PROVE  Good(q, RequestLineEnd(q))
<1>1. /\ Fresh(q, q) /\ Inside(q)
      /\ {"s_req_line_almost_done", "s_header_field_start"} \subseteq PlainStates
  BY ReadyLooked DEF PlainStates, Looked, HeadStates
<1>2. Good(q, Goto(q, "s_req_line_almost_done")) /\ Good(q, Goto(q, "s_header_field_start"))
  BY <1>1, GotoGood
<1>3. Good(q, Fail(q, "INVALID_VERSION"))
  BY <1>1, FreshFail
<1> QED
  BY <1>2, <1>3 DEF RequestLineEnd

-----------------------------------------------------------------------------
(* The address.                                                             *)
(* A table of rules leads nowhere else than its rules say.                  *)
LEMMA FollowIn ==
    ASSUME NEW rules, NEW S, \A r \in rules : r[2] \in S, NEW c, NEW dead
    PROVE  Follow(rules, c, dead) \in S \cup {dead}
<1>1. CASE \E r \in rules : c \in r[1]
  <2>1. (CHOOSE r \in rules : c \in r[1]) \in rules
    BY <1>1
  <2> QED
    BY <1>1, <2>1 DEF Follow
<1>2. CASE ~\E r \in rules : c \in r[1]
  BY <1>2 DEF Follow
<1> QED
  BY <1>1, <1>2

(* parse_url_char stays in the states of the address, or refuses the byte.  *)
LEMMA UrlRules ==
    /\ UrlStates = AddressStates \cup {"s_req_spaces_before_url"} /\ InUrl = AddressStates
    /\ \A s \in UrlStates : \A r \in UrlTable[s] : r[2] \in AddressStates
<1>1. UrlStates = AddressStates \cup {"s_req_spaces_before_url"} /\ InUrl = AddressStates
  BY DEF UrlStates, InUrl, UrlTable, AddressStates
<1> DEFINE Right(s) == \A r \in UrlTable[s] : r[2] \in AddressStates
<1>2. (\A r \in ServerRules : r[2] \in AddressStates) /\ \A r \in QueryRules : r[2] \in AddressStates
  BY DEF ServerRules, QueryRules, AddressStates
<1>3. Right("s_req_spaces_before_url")
  BY DEF UrlTable, AddressStates
<1>4. Right("s_req_schema")
  BY DEF UrlTable, AddressStates
<1>5. Right("s_req_schema_slash")
  BY DEF UrlTable, AddressStates
<1>6. Right("s_req_schema_slash_slash")
  BY DEF UrlTable, AddressStates
<1>7. Right("s_req_server_start")
  BY <1>2 DEF UrlTable
<1>8. Right("s_req_server")
  BY <1>2 DEF UrlTable
<1>9. Right("s_req_server_with_at")
  BY <1>2 DEF UrlTable
<1>10. Right("s_req_path")
  BY DEF UrlTable, AddressStates
<1>11. Right("s_req_query_string_start")
  BY <1>2 DEF UrlTable
<1>12. Right("s_req_query_string")
  BY <1>2 DEF UrlTable
<1>13. Right("s_req_fragment_start")
  BY DEF UrlTable, AddressStates
<1>14. Right("s_req_fragment")
  BY DEF UrlTable, AddressStates
<1> HIDE DEF Right
<1>15. \A s \in UrlStates : Right(s)
  BY <1>1, <1>3, <1>4, <1>5, <1>6, <1>7, <1>8, <1>9, <1>10, <1>11, <1>12, <1>13, <1>14
     DEF AddressStates
<1> QED
  BY <1>1, <1>15 DEF Right

(* A byte of the address.                                                   *)
LEMMA UrlByteGood ==
    ASSUME NEW z, Inside(z), NEW q, Holds(z, q, "url"), q.state \in UrlStates
    PROVE  Good(z, UrlByte(q))
<1>1. PICK s : s = parse_url_char(q.state, Ch(q))
  OBVIOUS
<1>2. s \in AddressStates \cup {"s_dead"}
  BY <1>1, UrlRules, FollowIn DEF parse_url_char
<1>3. PICK r : r = Goto(q, s)
  OBVIOUS
<1>4. Holds(z, r, "url") /\ r.state = s
  BY <1>3, HoldsGoto
<1>5. Good(z, Fail(r, "INVALID_URL"))
  BY <1>4, HoldsFail
<1>6. s # "s_dead" => Good(z, r)
  BY <1>2, <1>4, DatumGood DEF DatumStates, MarkStates, Marks
<1> QED
  BY <1>1, <1>3, <1>4, <1>5, <1>6 DEF UrlByte

(* The blanks before the address and its first byte.                        *)
LEMMA UrlStartGood ==
    ASSUME NEW q, Ready(q), q.state = "s_req_spaces_before_url"
    PROVE  Good(q, UrlStart(q))
<1>1. Fresh(q, q) /\ Inside(q) /\ q.state \in PlainStates /\ "url" \in Marks
  BY ReadyLooked DEF PlainStates, Looked, Marks
<1>2. PICK r : r = Mark(q, "url")
  OBVIOUS
<1>3. Holds(q, r, "url") /\ r.state = q.state
  BY <1>1, <1>2, FreshHolds, HoldsMark DEF Alike
<1>4. PICK s : s = Goto(r, "s_req_server_start")
  OBVIOUS
<1>5. Holds(q, s, "url") /\ s.state = "s_req_server_start"
  BY <1>3, <1>4, HoldsGoto
<1>6. Good(q, UrlByte(r)) /\ Good(q, UrlByte(s))
  BY <1>1, <1>3, <1>5, UrlByteGood, UrlRules DEF AddressStates
<1>7. Good(q, q)
  BY <1>1, FreshPlain
<1> QED
  BY <1>2, <1>4, <1>6, <1>7 DEF UrlStart

(* The address, up to the blank or the end of line behind it.               *)
LEMMA UrlGood ==
    ASSUME NEW q, Ready(q), q.state \in AddressStates
    PROVE  Good(q, Url(q))
<1>1. Looked(q) /\ Inside(q) /\ "url" \in Marks /\ MarkStates["url"] = AddressStates
  BY ReadyLooked DEF Looked, Marks, MarkStates
<1>2. Holds(q, q, "url")
  BY <1>1, LookedHolds
<1>3. PICK o : o = [q EXCEPT !.http_major = 0, !.http_minor = 9]
  OBVIOUS
<1>4. Holds(q, o, "url")
  BY <1>2, <1>3 DEF Holds, Steady, Only, IsCall, CallFields
<1>5. {"s_req_http_start", "s_req_line_almost_done", "s_header_field_start"} \subseteq PlainStates
  BY DEF PlainStates, HeadStates
<1>6. /\ Good(q, CallData(Goto(q, "s_req_http_start"), "url"))
      /\ Good(q, CallData(Goto(o, "s_req_line_almost_done"), "url"))
      /\ Good(q, CallData(Goto(o, "s_header_field_start"), "url"))
  BY <1>1, <1>2, <1>4, <1>5, DataGood
<1>7. Good(q, Fail(q, "INVALID_URL")) /\ Good(q, UrlByte(q))
  BY <1>1, <1>2, HoldsFail, UrlByteGood, UrlRules
<1> QED
  BY <1>3, <1>6, <1>7 DEF Url

(***************************************************************************)
(* The loops of the model: the values after each turn.                     *)
(***************************************************************************)

FieldRow(q) == Turns(NextFieldByte, q)
ValueRow(q) == Turns(NextValueBytes, q)
TurnRow(q) == Turns(Turn, q)

(* What one turn of each loop does, and one row of sixteen turns.           *)
OneTurn(loop, q) ==
    CASE loop = "field" -> NextFieldByte(q)
      [] loop = "fieldRows" -> FieldRow(q)
      [] loop = "value" -> NextValueBytes(q)
      [] loop = "valueRows" -> ValueRow(q)
      [] loop = "bytes" -> Turn(q)
      [] OTHER -> TurnRow(q)

Iterate(loop, q) ==
    CHOOSE g : g = [k \in Nat |-> IF k = 0 THEN q ELSE OneTurn(loop, g[k - 1])]

(* The turns of a loop: none changes nothing, one more is the body of the   *)
(* loop once more.                                                          *)
LEMMA Iterates ==
    ASSUME NEW loop, NEW q
    PROVE  /\ Iterate(loop, q)[0] = q
           /\ \A k \in Nat : Iterate(loop, q)[k + 1] = OneTurn(loop, Iterate(loop, q)[k])
<1> DEFINE Right(f, k) == /\ f = [n \in 0 .. k |-> f[n]] /\ f[0] = q
                          /\ \A n \in 1 .. k : f[n] = OneTurn(loop, f[n - 1])
           S == {k \in Nat : \E f : Right(f, k)}
           upTo(k) == CHOOSE f : Right(f, k)
           g == [k \in Nat |-> upTo(k)[k]]
<1>1. 0 \in S
  <2>1. Right([n \in 0 .. 0 |-> q], 0)
    OBVIOUS
  <2> HIDE DEF Right
  <2> QED
    BY <2>1
<1>2. ASSUME NEW k \in Nat, k \in S PROVE k + 1 \in S
  <2>1. PICK f : Right(f, k)
    BY <1>2
  <2> DEFINE h == [n \in 0 .. k + 1 |-> IF n = k + 1 THEN OneTurn(loop, f[k]) ELSE f[n]]
  <2>2. h[0] = q
    BY <2>1
  <2>3. ASSUME NEW n \in 1 .. k + 1 PROVE h[n] = OneTurn(loop, h[n - 1])
    <3>1. n - 1 \in 0 .. k /\ n - 1 # k + 1 /\ h[n - 1] = f[n - 1]
      OBVIOUS
    <3>2. CASE n = k + 1
      <4>1. n - 1 = k /\ h[n] = OneTurn(loop, f[k])
        BY <3>2
      <4> QED
        BY <3>1, <4>1
    <3>3. CASE n # k + 1
      <4>1. n \in 1 .. k /\ h[n] = f[n]
        BY <3>3
      <4> QED
        BY <2>1, <3>1, <4>1
    <3> QED
      BY <3>2, <3>3
  <2>4. h = [n \in 0 .. k + 1 |-> h[n]]
    OBVIOUS
  <2>5. Right(h, k + 1)
    BY <2>2, <2>3, <2>4
  <2> HIDE DEF Right, h
  <2> QED
    BY <2>5
<1>3. \A k \in Nat : k \in S
  <2> HIDE DEF S
  <2> QED
    BY <1>1, <1>2, NatSetInduction
<1>4. ASSUME NEW k \in Nat PROVE Right(upTo(k), k)
  <2>1. \E f : Right(f, k)
    BY <1>3
  <2> HIDE DEF Right
  <2> QED
    BY <2>1
<1>5. ASSUME NEW k \in Nat PROVE upTo(k + 1)[k] = upTo(k)[k]
  <2> DEFINE a == upTo(k + 1)
             b == upTo(k)
             E == {n \in Nat : n <= k => a[n] = b[n]}
  <2>1. Right(a, k + 1) /\ Right(b, k)
    <3> HIDE DEF Right, upTo
    <3> QED
      BY <1>4
  <2> HIDE DEF upTo
  <2>2. 0 \in E
    BY <2>1
  <2>3. ASSUME NEW n \in Nat, n \in E PROVE n + 1 \in E
    <3>1. CASE n + 1 <= k
      <4>1. n + 1 \in 1 .. k + 1 /\ n + 1 \in 1 .. k /\ (n + 1) - 1 = n /\ a[n] = b[n]
        BY <2>3, <3>1
      <4>2. a[n + 1] = OneTurn(loop, a[n]) /\ b[n + 1] = OneTurn(loop, b[n])
        <5> HIDE DEF a, b
        <5> QED
          BY <2>1, <4>1
      <4> QED
        BY <4>1, <4>2
    <3>2. CASE ~(n + 1 <= k)
      BY <3>2
    <3> QED
      BY <3>1, <3>2
  <2>4. k \in E
    <3> HIDE DEF E
    <3> QED
      BY <2>2, <2>3, NatSetInduction
  <2> QED
    BY <2>4
<1>6. g[0] = q
  BY <1>4
<1>7. ASSUME NEW k \in Nat PROVE g[k + 1] = OneTurn(loop, g[k])
  <2>1. Right(upTo(k + 1), k + 1)
    <3> HIDE DEF Right, upTo
    <3> QED
      BY <1>4
  <2>2. k + 1 \in 1 .. k + 1 /\ (k + 1) - 1 = k
    OBVIOUS
  <2>3. upTo(k + 1)[k + 1] = OneTurn(loop, upTo(k + 1)[k])
    <3> HIDE DEF upTo
    <3> QED
      BY <2>1, <2>2
  <2> HIDE DEF upTo
  <2> QED
    BY <1>5, <2>3
<1> HIDE DEF g
<1>8. g = [k \in Nat |-> IF k = 0 THEN q ELSE OneTurn(loop, g[k - 1])]
  <2>1. ASSUME NEW k \in Nat PROVE g[k] = IF k = 0 THEN q ELSE OneTurn(loop, g[k - 1])
    <3>1. CASE k = 0
      BY <1>6, <3>1
    <3>2. CASE k # 0
      <4>1. k - 1 \in Nat /\ (k - 1) + 1 = k
        BY <3>2
      <4> QED
        BY <1>7, <3>2, <4>1
    <3> QED
      BY <3>1, <3>2
  <2>2. g = [k \in Nat |-> g[k]]
    BY DEF g
  <2> QED
    BY <2>1, <2>2
<1>9. Iterate(loop, q) = [k \in Nat |-> IF k = 0 THEN q ELSE OneTurn(loop, Iterate(loop, q)[k - 1])]
  BY <1>8 DEF Iterate
<1>10. PICK i : i = Iterate(loop, q)
  OBVIOUS
<1>11. i[0] = q
  BY <1>9, <1>10
<1>12. ASSUME NEW k \in Nat PROVE i[k + 1] = OneTurn(loop, i[k])
  <2>1. k + 1 \in Nat /\ k + 1 # 0 /\ (k + 1) - 1 = k
    OBVIOUS
  <2> QED
    BY <1>9, <1>10, <2>1
<1> QED
  BY <1>10, <1>11, <1>12

(* The loop over the bytes of a name is such a row of rows.                 *)
LEMMA FieldLoop ==
    ASSUME NEW q, NEW n
    PROVE  /\ FieldRow(q) = IF Stopped(q) THEN q ELSE Iterate("field", q)[Row]
           /\ Loop(NextFieldByte, q, n) = Iterate("fieldRows", q)[(n \div Row) + 1]
<1>1. \A r : OneTurn("field", r) = NextFieldByte(r)
  BY DEF OneTurn
<1>2. \A r : OneTurn("fieldRows", r) = Turns(NextFieldByte, r)
  BY DEF OneTurn, FieldRow
<1>3. FieldRow(q) = IF Stopped(q) THEN q ELSE Iterate("field", q)[Row]
  <2>1. CASE Stopped(q)
    BY <2>1 DEF Turns, FieldRow
  <2>2. CASE ~Stopped(q)
    <3>1. FieldRow(q) = Iterate("field", q)[Row]
      BY <1>1, <2>2 DEF Turns, FieldRow, Iterate
    <3> QED
      BY <2>2, <3>1
  <2> QED
    BY <2>1, <2>2
<1>4. Loop(NextFieldByte, q, n) = Iterate("fieldRows", q)[(n \div Row) + 1]
  BY <1>2 DEF Loop, Iterate
<1> QED
  BY <1>3, <1>4

(* So is the one over the bytes of a value ...                              *)
LEMMA ValueLoop ==
    ASSUME NEW q, NEW n
    PROVE  /\ ValueRow(q) = IF Stopped(q) THEN q ELSE Iterate("value", q)[Row]
           /\ Loop(NextValueBytes, q, n) = Iterate("valueRows", q)[(n \div Row) + 1]
<1>1. \A r : OneTurn("value", r) = NextValueBytes(r)
  BY DEF OneTurn
<1>2. \A r : OneTurn("valueRows", r) = Turns(NextValueBytes, r)
  BY DEF OneTurn, ValueRow
<1>3. ValueRow(q) = IF Stopped(q) THEN q ELSE Iterate("value", q)[Row]
  <2>1. CASE Stopped(q)
    BY <2>1 DEF Turns, ValueRow
  <2>2. CASE ~Stopped(q)
    <3>1. ValueRow(q) = Iterate("value", q)[Row]
      BY <1>1, <2>2 DEF Turns, ValueRow, Iterate
    <3> QED
      BY <2>2, <3>1
  <2> QED
    BY <2>1, <2>2
<1>4. Loop(NextValueBytes, q, n) = Iterate("valueRows", q)[(n \div Row) + 1]
  BY <1>2 DEF Loop, Iterate
<1> QED
  BY <1>3, <1>4

(* ... and the one over the bytes of a piece.                               *)
LEMMA TurnLoop ==
    ASSUME NEW q, NEW n
    PROVE  /\ TurnRow(q) = IF Stopped(q) THEN q ELSE Iterate("bytes", q)[Row]
           /\ Loop(Turn, q, n) = Iterate("byteRows", q)[(n \div Row) + 1]
<1>1. \A r : OneTurn("bytes", r) = Turn(r)
  BY DEF OneTurn
<1>2. \A r : OneTurn("byteRows", r) = Turns(Turn, r)
  BY DEF OneTurn, TurnRow
<1>3. TurnRow(q) = IF Stopped(q) THEN q ELSE Iterate("bytes", q)[Row]
  <2>1. CASE Stopped(q)
    BY <2>1 DEF Turns, TurnRow
  <2>2. CASE ~Stopped(q)
    <3>1. TurnRow(q) = Iterate("bytes", q)[Row]
      BY <1>1, <2>2 DEF Turns, TurnRow, Iterate
    <3> QED
      BY <2>2, <3>1
  <2> QED
    BY <2>1, <2>2
<1>4. Loop(Turn, q, n) = Iterate("byteRows", q)[(n \div Row) + 1]
  BY <1>2 DEF Loop, Iterate
<1> QED
  BY <1>3, <1>4

(***************************************************************************)
(* The name of a header.                                                   *)
(***************************************************************************)

(* The bytes of a datum are run through: up to the end of the piece.        *)
Run(z, q, name, s) ==
    /\ IsCall(q) /\ q.ret = -1 /\ q.http_errno = "OK" /\ q.asserts = TRUE /\ q.again = FALSE
    /\ q.data = z.data /\ q.p \in z.p .. Len(z.data) + 1
    /\ q.state = s /\ Only(q, name) /\ q.content_length \in 0 .. MaxLength

(* A run over a datum starts at the byte looked at ...                      *)
LEMMA LookedRun ==
    ASSUME NEW z, Looked(z), NEW name \in Marks, z.state \in MarkStates[name]
    PROVE  Run(z, z, name, z.state)
<1>1. Holds(z, z, name)
  BY LookedHolds
<1> QED
  BY <1>1 DEF Holds, Run, Steady, Looked, Inside

(* ... and where it stops inside the piece the datum is the only one        *)
(* marked.                                                                  *)
LEMMA RunHolds ==
    ASSUME NEW z, Inside(z), NEW name, NEW s, NEW q, Run(z, q, name, s), q.p <= Len(z.data)
    PROVE  Holds(z, q, name) /\ q.state = s
  BY DEF Run, Holds, Steady, Inside

(* COUNT_HEADER_SIZE inside a datum: the limit holds, or the call returns.  *)
LEMMA CountHolds ==
    ASSUME NEW z, Inside(z), NEW name, NEW q, Holds(z, q, name), NEW n, NEW r, r = Count(q, n)
    PROVE  \/ Holds(z, r, name) /\ r.state = q.state /\ r.header_state = q.header_state /\ ~Stopped(r)
           \/ Good(z, r) /\ Stopped(r)
<1>1. PICK c : c = [q EXCEPT !.nread = @ + n]
  OBVIOUS
<1>2. Holds(z, c, name) /\ c.state = q.state /\ c.header_state = q.header_state /\ ~Stopped(c)
  BY <1>1 DEF Holds, Steady, Only, Stopped, IsCall, CallFields
<1>3. CASE c.nread > MaxHeader
  <2>1. r = Fail(c, "HEADER_OVERFLOW")
    BY <1>1, <1>3 DEF Count
  <2>2. Good(z, r)
    BY <1>2, <2>1, HoldsFail
  <2>3. r.ret = c.p - 1 /\ c.p - 1 # -1
    BY <1>2, <2>1 DEF Fail, Return, Holds, Steady, IsCall, CallFields, Inside
  <2> QED
    BY <2>2, <2>3 DEF Stopped
<1>4. CASE ~(c.nread > MaxHeader)
  BY <1>1, <1>2, <1>4 DEF Count
<1> QED
  BY <1>3, <1>4

(* The same where no datum is marked.                                       *)
LEMMA CountFresh ==
    ASSUME NEW z, Inside(z), NEW q, Fresh(z, q), NEW n, NEW r, r = Count(q, n)
    PROVE  \/ Fresh(z, r) /\ r.state = q.state /\ ~Stopped(r)
           \/ Good(z, r) /\ Stopped(r)
<1>1. PICK c : c = [q EXCEPT !.nread = @ + n]
  OBVIOUS
<1>2. Fresh(z, c) /\ c.state = q.state /\ ~Stopped(c)
  BY <1>1 DEF Fresh, Steady, Unmarked, Stopped, IsCall, CallFields
<1>3. CASE c.nread > MaxHeader
  <2>1. r = Fail(c, "HEADER_OVERFLOW")
    BY <1>1, <1>3 DEF Count
  <2>2. Good(z, r)
    BY <1>2, <2>1, FreshFail
  <2>3. r.ret = c.p - 1 /\ c.p - 1 # -1
    BY <1>2, <2>1 DEF Fail, Return, Fresh, Steady, IsCall, CallFields, Inside
  <2> QED
    BY <2>2, <2>3 DEF Stopped
<1>4. CASE ~(c.nread > MaxHeader)
  BY <1>1, <1>2, <1>4 DEF Count
<1> QED
  BY <1>3, <1>4

(* The first byte of a header line.                                         *)
LEMMA FieldStartGood ==
    ASSUME NEW q, Ready(q), q.state = "s_header_field_start"
    PROVE  Good(q, FieldStart(q))
<1>1. /\ Fresh(q, q) /\ Inside(q) /\ q.state \in PlainStates /\ "header_field" \in Marks
      /\ "s_headers_almost_done" \in PlainStates
  BY ReadyLooked DEF PlainStates, Looked, Marks
<1>2. Rank("s_headers_almost_done") < Rank(q.state)
  BY DEF Rank
<1>3. /\ Good(q, Goto(q, "s_headers_almost_done"))
      /\ Good(q, Again(Goto(q, "s_headers_almost_done")))
  BY <1>1, <1>2, GotoGood, GotoAgainGood
<1>4. Good(q, Fail(q, "INVALID_HEADER_TOKEN"))
  BY <1>1, FreshFail
<1>5. PICK m : m = Mark(q, "header_field")
  OBVIOUS
<1>6. Holds(q, m, "header_field")
  BY <1>1, <1>5, FreshHolds, HoldsMark
<1>7. ASSUME NEW guess \in FieldStates
      PROVE  Good(q, Goto([m EXCEPT !.index = 0, !.header_state = guess], "s_header_field"))
  <2>1. PICK r : r = Goto([m EXCEPT !.index = 0, !.header_state = guess], "s_header_field")
    OBVIOUS
  <2>2. /\ Holds(q, r, "header_field") /\ r.state = "s_header_field" /\ r.header_state = guess
    BY <1>6, <2>1 DEF Goto, Holds, Steady, Only, IsCall, CallFields
  <2>3. StateFits(r) /\ r.state # "s_chunk_size_start"
    BY <2>2 DEF StateFits, Holds, States, ChunkStates
  <2>4. MarksFit(r)
    BY <2>2 DEF MarksFit, Holds, Only, MarkStates
  <2> QED
    BY <2>1, <2>2, <2>3, <2>4 DEF Good, Goes, Live, Going, Holds, Steady
<1> DEFINE guess == CASE LowerCase(Ch(q)) = "c" -> "h_C"
                      [] LowerCase(Ch(q)) = "p" -> "h_matching_proxy_connection"
                      [] LowerCase(Ch(q)) = "t" -> "h_matching_transfer_encoding"
                      [] LowerCase(Ch(q)) = "u" -> "h_matching_upgrade"
                      [] OTHER -> "h_general"
<1>8. guess \in FieldStates
  BY DEF FieldStates
<1>9. Good(q, Goto([m EXCEPT !.index = 0, !.header_state = guess], "s_header_field"))
  <2> HIDE DEF guess
  <2> QED
    BY <1>7, <1>8
<1> QED
  BY <1>3, <1>4, <1>5, <1>9 DEF FieldStart

(* The words a name is compared with lead to states of a name.              *)
LEMMA FieldWordRows ==
    /\ DOMAIN FieldWord \subseteq FieldStates
    /\ \A h \in DOMAIN FieldWord : FieldWord[h][2] \in FieldStates
<1> DEFINE Right(h) == FieldWord[h][2] \in FieldStates
<1>1. DOMAIN FieldWord = {"h_matching_connection", "h_matching_proxy_connection",
            "h_matching_content_length", "h_matching_transfer_encoding", "h_matching_upgrade"}
  BY DEF FieldWord
<1>2. Right("h_matching_connection") /\ Right("h_matching_proxy_connection")
  BY DEF FieldWord, FieldStates
<1>3. Right("h_matching_content_length") /\ Right("h_matching_transfer_encoding")
  BY DEF FieldWord, FieldStates
<1>4. Right("h_matching_upgrade")
  BY DEF FieldWord, FieldStates
<1> HIDE DEF Right
<1>5. \A h \in DOMAIN FieldWord : Right(h)
  BY <1>1, <1>2, <1>3, <1>4
<1> QED
  BY <1>1, <1>5 DEF Right, FieldStates

(* A byte of a name.                                                        *)
LEMMA FieldByteKeeps ==
    ASSUME NEW z, NEW q, Run(z, q, "header_field", "s_header_field"),
           q.header_state \in FieldStates, NEW c, NEW r, r = FieldByte(q, c)
    PROVE  /\ Run(z, r, "header_field", "s_header_field") /\ r.header_state \in FieldStates
           /\ r.p = q.p
<1> DEFINE Right(s) == /\ Run(z, s, "header_field", "s_header_field")
                       /\ s.header_state \in FieldStates /\ s.p = q.p
<1>1. PICK next : next = [q EXCEPT !.index = @ + 1]
  OBVIOUS
<1>2. Right(next) /\ Right(q)
  BY <1>1 DEF Run, Only, IsCall, CallFields
<1>3. ASSUME NEW s, Right(s), NEW h \in FieldStates PROVE Right([s EXCEPT !.header_state = h])
  BY <1>3 DEF Run, Only, IsCall, CallFields
<1>4. ASSUME NEW s, Right(s), NEW f PROVE Right(Flag(s, f))
  BY <1>4 DEF Flag, Run, Only, IsCall, CallFields
<1>5. ASSUME NEW rule, rule[2] \in FieldStates
      PROVE  Right(MatchWord(q, c, rule, "h_general"))
  <2>1. PICK i : i = q.index + 1
    OBVIOUS
  <2>2. PICK h : h = IF c # OffsetAt(rule[1], i) THEN "h_general"
                     ELSE IF i = Len(rule[1]) - 1 THEN rule[2] ELSE q.header_state
    OBVIOUS
  <2>3. h \in FieldStates
    BY <1>5, <2>2 DEF FieldStates
  <2>4. MatchWord(q, c, rule, "h_general") = [q EXCEPT !.index = i, !.header_state = h]
    BY <2>1, <2>2 DEF MatchWord
  <2> QED
    BY <2>3, <2>4 DEF Run, Only, IsCall, CallFields
<1> HIDE DEF Right
<1>6. {"h_CO", "h_CON", "h_general", "h_matching_connection", "h_matching_content_length"}
      \subseteq FieldStates
  BY DEF FieldStates
<1>7. CASE q.header_state = "h_C"
  <2>1. r = [next EXCEPT !.header_state = IF c = "o" THEN "h_CO" ELSE "h_general"]
    BY <1>1, <1>7 DEF FieldByte, FieldWord
  <2> QED
    BY <1>2, <1>3, <1>6, <2>1 DEF Right
<1>8. CASE q.header_state = "h_CO"
  <2>1. r = [next EXCEPT !.header_state = IF c = "n" THEN "h_CON" ELSE "h_general"]
    BY <1>1, <1>8 DEF FieldByte, FieldWord
  <2> QED
    BY <1>2, <1>3, <1>6, <2>1 DEF Right
<1>9. CASE q.header_state = "h_CON"
  <2>1. PICK h : h = CASE c = "n" -> "h_matching_connection"
                       [] c = "t" -> "h_matching_content_length"
                       [] OTHER -> "h_general"
    OBVIOUS
  <2>2. r = [next EXCEPT !.header_state = h]
    BY <1>1, <1>9, <2>1 DEF FieldByte, FieldWord
  <2>3. h \in FieldStates
    BY <1>6, <2>1
  <2> QED
    BY <1>2, <1>3, <2>2, <2>3 DEF Right
<1>10. CASE q.header_state \in DOMAIN FieldWord
  <2>1. PICK w : w = MatchWord(q, c, FieldWord[q.header_state], "h_general")
    OBVIOUS
  <2>2. Right(w) /\ Right(Flag(w, "TRANSFER_ENCODING"))
    BY <1>4, <1>5, <1>10, <2>1, FieldWordRows
  <2>3. q.header_state \notin {"h_C", "h_CO", "h_CON", "h_connection", "h_content_length",
                              "h_transfer_encoding", "h_upgrade", "h_general"}
    BY <1>10 DEF FieldWord
  <2>4. r = IF w.header_state = "h_transfer_encoding" THEN Flag(w, "TRANSFER_ENCODING") ELSE w
    BY <1>10, <2>1, <2>3 DEF FieldByte
  <2> QED
    BY <2>2, <2>4 DEF Right
<1>11. CASE q.header_state \in {"h_connection", "h_content_length", "h_transfer_encoding",
                                "h_upgrade"}
  <2>1. q.header_state \notin DOMAIN FieldWord
    BY <1>11 DEF FieldWord
  <2>2. r = [q EXCEPT !.header_state = "h_general"]
    BY <1>11, <2>1 DEF FieldByte
  <2> QED
    BY <1>2, <1>3, <1>6, <2>2 DEF Right
<1>12. CASE q.header_state = "h_general"
  <2>1. q.header_state \notin DOMAIN FieldWord
    BY <1>12 DEF FieldWord
  <2>2. r = q
    BY <1>12, <2>1 DEF FieldByte
  <2> QED
    BY <1>2, <2>2 DEF Right
<1> QED
  <2>1. q.header_state \in DOMAIN FieldWord \cup {"h_C", "h_CO", "h_CON", "h_connection",
            "h_content_length", "h_transfer_encoding", "h_upgrade", "h_general"}
    BY DEF FieldStates, FieldWord
  <2> QED
    BY <2>1, <1>7, <1>8, <1>9, <1>10, <1>11, <1>12

InField(z, q) == Run(z, q, "header_field", "s_header_field") /\ q.header_state \in FieldStates

(* One turn of the loop over the bytes of a name.                           *)
LEMMA NextFieldByteKeeps ==
    ASSUME NEW z, Inside(z), NEW q, InField(z, q), NEW r, r = NextFieldByte(q)
    PROVE  InField(z, r)
<1>1. CASE q.p > Len(q.data) \/ Ch(q) \notin TokenChars
  BY <1>1 DEF NextFieldByte
<1>2. CASE ~(q.p > Len(q.data) \/ Ch(q) \notin TokenChars)
  <2>1. PICK b : b = FieldByte(q, LowerCase(Ch(q)))
    OBVIOUS
  <2>2. InField(z, b) /\ b.p = q.p
    BY <2>1, FieldByteKeeps DEF InField
  <2>3. r = [b EXCEPT !.p = @ + 1]
    BY <1>2, <2>1 DEF NextFieldByte
  <2>4. q.p + 1 \in z.p .. Len(z.data) + 1
    BY <1>2 DEF InField, Run, Inside
  <2> QED
    BY <2>2, <2>3, <2>4 DEF InField, Run, Only, IsCall, CallFields
<1> QED
  BY <1>1, <1>2

(* The loop: it stays inside the piece, or has passed its end.              *)
LEMMA FieldBytesKeep ==
    ASSUME NEW z, Looked(z), z.state = "s_header_field"
    PROVE  InField(z, FieldBytes(z))
<1>1. Inside(z) /\ InField(z, z)
  BY LookedRun DEF Looked, InField, StateFits, Marks, MarkStates
<1>2. ASSUME NEW q, InField(z, q) PROVE InField(z, FieldRow(q))
  <2> DEFINE g == Iterate("field", q)
             S == {k \in Nat : InField(z, g[k])}
  <2>0. \A s : OneTurn("field", s) = NextFieldByte(s)
    BY DEF OneTurn
  <2>1. g[0] = q /\ \A k \in Nat : g[k + 1] = NextFieldByte(g[k])
    BY <2>0, Iterates
  <2> HIDE DEF g
  <2>2. 0 \in S /\ \A k \in Nat : k \in S => k + 1 \in S
    BY <1>1, <1>2, <2>1, NextFieldByteKeeps
  <2>3. \A k \in Nat : k \in S
    <3> HIDE DEF S
    <3> QED
      BY <2>2, NatSetInduction
  <2>4. InField(z, g[Row])
    BY <2>3 DEF Row
  <2> QED
    BY <1>2, <2>4, FieldLoop DEF g
<1> DEFINE g == Iterate("fieldRows", z)
           S == {k \in Nat : InField(z, g[k])}
<1>0. \A s : OneTurn("fieldRows", s) = FieldRow(s)
  BY DEF OneTurn
<1>3. g[0] = z /\ \A k \in Nat : g[k + 1] = FieldRow(g[k])
  <2>1. g[0] = z /\ \A k \in Nat : g[k + 1] = OneTurn("fieldRows", g[k])
    BY Iterates
  <2> HIDE DEF g
  <2> QED
    BY <1>0, <2>1
<1> HIDE DEF g
<1>4. 0 \in S /\ \A k \in Nat : k \in S => k + 1 \in S
  BY <1>1, <1>2, <1>3
<1>5. \A k \in Nat : k \in S
  <2> HIDE DEF S
  <2> QED
    BY <1>4, NatSetInduction
<1>6. ((Len(z.data) - z.p) \div Row) + 1 \in Nat
  BY <1>1 DEF Row, Inside
<1>7. InField(z, g[((Len(z.data) - z.p) \div Row) + 1])
  BY <1>5, <1>6
<1> QED
  BY <1>7, FieldLoop DEF FieldBytes, g

(* The name of a header, up to its colon or the end of the piece.           *)
LEMMA FieldRunGood ==
    ASSUME NEW q, Ready(q), q.state = "s_header_field"
    PROVE  Good(q, FieldRun(q))
<1>1. Looked(q) /\ Inside(q)
  BY ReadyLooked DEF Looked
<1>2. PICK r : r = FieldBytes(q)
  OBVIOUS
<1>3. InField(q, r)
  BY <1>1, <1>2, FieldBytesKeep
<1>4. PICK n : n = r.p - q.p
  OBVIOUS
<1>5. FieldRun(q) = EndOfField(r, n)
  BY <1>2, <1>4 DEF FieldRun
<1>6. CASE r.p > Len(r.data)
  <2>1. PICK b : b = [r EXCEPT !.p = @ - 1]
    OBVIOUS
  <2>2. /\ Holds(q, b, "header_field") /\ b.state = "s_header_field"
        /\ b.header_state \in FieldStates
    BY <1>1, <1>3, <1>6, <2>1 DEF InField, Run, Holds, Steady, Only, Inside, IsCall, CallFields
  <2>3. PICK c : c = Count(b, n - 1)
    OBVIOUS
  <2>4. \/ /\ Holds(q, c, "header_field") /\ c.state = "s_header_field"
           /\ c.header_state \in FieldStates
        \/ Good(q, c)
    BY <1>1, <2>2, <2>3, CountHolds
  <2>5. ASSUME /\ Holds(q, c, "header_field") /\ c.state = "s_header_field"
               /\ c.header_state \in FieldStates
        PROVE  Good(q, c)
    <3>1. StateFits(c) /\ c.state # "s_chunk_size_start"
      BY <2>5 DEF StateFits, Holds, States, ChunkStates
    <3>2. MarksFit(c)
      BY <2>5 DEF MarksFit, Holds, Only, MarkStates
    <3> QED
      BY <2>5, <3>1, <3>2 DEF Good, Goes, Live, Going, Holds, Steady
  <2> QED
    BY <1>5, <1>6, <2>1, <2>3, <2>4, <2>5 DEF EndOfField
<1>7. CASE ~(r.p > Len(r.data))
  <2>1. Holds(q, r, "header_field") /\ r.state = "s_header_field"
    <3>1. Run(q, r, "header_field", "s_header_field") /\ r.p <= Len(q.data)
      BY <1>1, <1>3, <1>7 DEF InField, Run, Inside
    <3> QED
      BY <1>1, <3>1, RunHolds
  <2>2. PICK c : c = Count(r, n)
    OBVIOUS
  <2>3. (Holds(q, c, "header_field") /\ ~Stopped(c)) \/ (Good(q, c) /\ Stopped(c))
    BY <1>1, <2>1, <2>2, CountHolds
  <2>4. ASSUME Holds(q, c, "header_field") PROVE Good(q, Named(c))
    <3>1. "s_header_value_discard_ws" \in PlainStates /\ "header_field" \in Marks
      BY DEF PlainStates, Marks
    <3>2. Good(q, CallData(Goto(c, "s_header_value_discard_ws"), "header_field"))
      BY <1>1, <2>4, <3>1, DataGood
    <3>3. Good(q, Fail(c, "INVALID_HEADER_TOKEN"))
      BY <1>1, <2>4, HoldsFail
    <3> QED
      BY <3>2, <3>3 DEF Named
  <2> QED
    BY <1>5, <1>7, <2>2, <2>3, <2>4 DEF EndOfField, Then
<1> QED
  BY <1>6, <1>7

(***************************************************************************)
(* The value of a header.                                                  *)
(***************************************************************************)
Unread == {"h_connection", "h_transfer_encoding"}    \* no value is read in these

(* A handler may end inside a value, in a state a value is read in.         *)
LEMMA ValueGood ==
    ASSUME NEW z, NEW q, Holds(z, q, "header_value"), q.state = "s_header_value",
           q.header_state \notin Unread
    PROVE  Good(z, q)
<1>1. StateFits(q) /\ q.state # "s_chunk_size_start"
  BY DEF StateFits, Holds, States, ChunkStates, Unread
<1>2. MarksFit(q)
  BY DEF MarksFit, Holds, Only, MarkStates
<1> QED
  BY <1>1, <1>2 DEF Good, Goes, Live, Going, Holds, Steady

(* No word of Connection starts in a state that the code takes for          *)
(* unreachable.                                                             *)
LEMMA ConnectionStartRows == \A c \in DOMAIN ConnectionStart : ConnectionStart[c] \notin Unread
  BY DEF ConnectionStart, Unread

(* No word a value is compared with leads to such a state.                  *)
LEMMA ValueWordRows ==
    \A h \in DOMAIN ValueWord : ValueWord[h][2] \notin Unread /\ ValueWord[h][3] \notin Unread
<1> DEFINE Right(h) == ValueWord[h][2] \notin Unread /\ ValueWord[h][3] \notin Unread
<1>1. DOMAIN ValueWord = {"h_matching_transfer_encoding_chunked",
            "h_matching_connection_keep_alive", "h_matching_connection_close",
            "h_matching_connection_upgrade"}
  BY DEF ValueWord
<1>2. Right("h_matching_transfer_encoding_chunked") /\ Right("h_matching_connection_keep_alive")
  BY DEF ValueWord, Unread
<1>3. Right("h_matching_connection_close") /\ Right("h_matching_connection_upgrade")
  BY DEF ValueWord, Unread
<1> HIDE DEF Right
<1>4. \A h \in DOMAIN ValueWord : Right(h)
  BY <1>1, <1>2, <1>3
<1> QED
  BY <1>4 DEF Right

(* The first byte of a value.                                               *)
LEMMA ValueStartGood ==
    ASSUME NEW z, Inside(z), NEW q, Fresh(z, q)
    PROVE  Good(z, ValueStart(q))
<1> DEFINE Right(s) == Holds(z, s, "header_value") /\ s.state = "s_header_value"
<1>1. "header_value" \in Marks
  BY DEF Marks
<1>2. PICK m : m = Mark(q, "header_value")
  OBVIOUS
<1>3. Holds(z, m, "header_value") /\ m.header_state = q.header_state
  BY <1>1, <1>2, FreshHolds, HoldsMark DEF Alike
<1>4. PICK r : r = Goto([m EXCEPT !.index = 0], "s_header_value")
  OBVIOUS
<1>5. Right(r) /\ r.header_state = q.header_state
  BY <1>3, <1>4 DEF Goto, Holds, Steady, Only, IsCall, CallFields
<1>6. ASSUME NEW s, Right(s), NEW h, h \notin Unread
      PROVE  Good(z, [s EXCEPT !.header_state = h])
  <2>1. PICK t : t = [s EXCEPT !.header_state = h]
    OBVIOUS
  <2>2. Right(t) /\ t.header_state = h
    BY <1>6, <2>1 DEF Holds, Steady, Only, IsCall, CallFields
  <2> QED
    BY <1>6, <2>1, <2>2, ValueGood
<1>7. ASSUME NEW s, Right(s), NEW f PROVE Right(Flag(s, f))
  BY <1>7 DEF Flag, Holds, Steady, Only, IsCall, CallFields
<1>8. ASSUME NEW s, Right(s), NEW v \in 0 .. MaxLength PROVE Right([s EXCEPT !.content_length = v])
  BY <1>8 DEF Holds, Steady, Only, IsCall, CallFields
<1> DEFINE low == Lower[Ch(q)]
<1>9. CASE q.header_state = "h_upgrade"
  <2>1. ValueStart(q) = [Flag(r, "UPGRADE") EXCEPT !.header_state = "h_general"]
    BY <1>2, <1>4, <1>9 DEF ValueStart
  <2>2. Right(Flag(r, "UPGRADE"))
    BY <1>5, <1>7
  <2> HIDE DEF Right
  <2> QED
    BY <1>6, <2>1, <2>2 DEF Unread
<1>10. CASE q.header_state = "h_transfer_encoding"
  <2>1. PICK h : h = IF low = "c" THEN "h_matching_transfer_encoding_chunked"
                     ELSE "h_matching_transfer_encoding_token"
    OBVIOUS
  <2>2. ValueStart(q) = [r EXCEPT !.header_state = h]
    BY <1>2, <1>4, <1>10, <2>1 DEF ValueStart
  <2>3. h \notin Unread
    BY <2>1 DEF Unread
  <2> HIDE DEF Right
  <2> QED
    BY <1>5, <1>6, <2>2, <2>3
<1>11. CASE q.header_state = "h_content_length"
  <2>1. PICK f : f = Flag(r, "CONTENTLENGTH")
    OBVIOUS
  <2>2. PICK t : t = [f EXCEPT !.content_length = DigitValue(Ch(q)),
                               !.header_state = "h_content_length_num"]
    OBVIOUS
  <2>3. ASSUME Ch(q) \in Digits PROVE Good(z, t)
    <3>1. DigitValue(Ch(q)) \in 0 .. MaxLength
      BY <2>3, ParserAssumption
    <3>2. Right(f)
      BY <1>5, <1>7, <2>1
    <3>3. Right(t) /\ t.header_state \notin Unread
      BY <2>2, <3>1, <3>2 DEF Holds, Steady, Only, IsCall, CallFields, Unread
    <3> QED
      BY <3>3, ValueGood
  <2>4. Good(z, Fail(r, "INVALID_CONTENT_LENGTH")) /\ Good(z, Fail(r, "UNEXPECTED_CONTENT_LENGTH"))
    BY <1>5, HoldsFail
  <2>5. ValueStart(q) = IF Ch(q) \notin Digits THEN Fail(r, "INVALID_CONTENT_LENGTH")
                        ELSE IF "CONTENTLENGTH" \in r.flags
                        THEN Fail(r, "UNEXPECTED_CONTENT_LENGTH") ELSE t
    BY <1>2, <1>4, <1>11, <2>1, <2>2 DEF ValueStart
  <2> QED
    BY <2>3, <2>4, <2>5
<1>12. CASE q.header_state = "h_connection"
  <2>1. PICK h : h = IF low \in DOMAIN ConnectionStart THEN ConnectionStart[low]
                     ELSE "h_matching_connection_token"
    OBVIOUS
  <2>2. ValueStart(q) = [r EXCEPT !.header_state = h]
    BY <1>2, <1>4, <1>12, <2>1 DEF ValueStart
  <2>3. h \notin Unread
    <3>1. CASE low \in DOMAIN ConnectionStart
      <4> HIDE DEF low
      <4> QED
        BY <2>1, <3>1, ConnectionStartRows
    <3>2. CASE low \notin DOMAIN ConnectionStart
      BY <2>1, <3>2 DEF Unread
    <3> QED
      BY <3>1, <3>2
  <2> HIDE DEF Right
  <2> QED
    BY <1>5, <1>6, <2>2, <2>3
<1>13. CASE q.header_state \in {"h_matching_transfer_encoding_token_start",
                                "h_content_length_ws", "h_matching_connection_token_start"}
  <2>1. ValueStart(q) = r
    BY <1>2, <1>4, <1>13 DEF ValueStart
  <2> QED
    BY <1>5, <1>13, <2>1, ValueGood DEF Unread
<1>14. CASE q.header_state \notin {"h_upgrade", "h_transfer_encoding", "h_content_length",
                "h_connection", "h_matching_transfer_encoding_token_start",
                "h_content_length_ws", "h_matching_connection_token_start"}
  <2>1. ValueStart(q) = [r EXCEPT !.header_state = "h_general"]
    BY <1>2, <1>4, <1>14 DEF ValueStart
  <2> HIDE DEF Right
  <2> QED
    BY <1>5, <1>6, <2>1 DEF Unread
<1> QED
  BY <1>9, <1>10, <1>11, <1>12, <1>13, <1>14

(* The blanks before a value.                                               *)
LEMMA ValueBlankGood ==
    ASSUME NEW q, Ready(q), q.state = "s_header_value_discard_ws"
    PROVE  Good(q, ValueBlank(q))
<1>1. Fresh(q, q) /\ Inside(q) /\ q.state \in PlainStates
  BY ReadyLooked DEF PlainStates, Looked
<1>2. {"s_header_value_discard_ws_almost_done", "s_header_value_discard_lws"} \subseteq PlainStates
  BY DEF PlainStates, HeadStates
<1>3. /\ Good(q, q) /\ Good(q, Goto(q, "s_header_value_discard_lws"))
      /\ Good(q, Goto(q, "s_header_value_discard_ws_almost_done")) /\ Good(q, ValueStart(q))
  BY <1>1, <1>2, FreshPlain, GotoGood, ValueStartGood
<1> QED
  BY <1>3 DEF ValueBlank

(* The flags that a value sets.                                             *)
LEMMA EndValueFresh ==
    ASSUME NEW z, NEW q, Fresh(z, q)
    PROVE  Fresh(z, EndValue(q))
  BY DEF EndValue, Flag, Fresh, Steady, Unmarked, IsCall, CallFields

(* The byte behind the end of a line: a folded value goes on, or the header *)
(* ends.                                                                    *)
LEMMA ValueFoldGood ==
    ASSUME NEW q, Ready(q), q.state = "s_header_value_lws"
    PROVE  Good(q, ValueFold(q))
<1>1. Fresh(q, q) /\ Inside(q)
  BY ReadyLooked DEF PlainStates, Looked
<1>2. /\ {"s_header_value_start", "s_header_field_start"} \subseteq PlainStates
      /\ Rank("s_header_value_start") < Rank(q.state) /\ Rank("s_header_field_start") < Rank(q.state)
  BY DEF PlainStates, Rank
<1>3. PICK w : w = [q EXCEPT !.header_state = "h_content_length_ws"]
  OBVIOUS
<1>4. PICK e : e = EndValue(q)
  OBVIOUS
<1>5. Fresh(q, w) /\ Fresh(q, e)
  BY <1>1, <1>3, <1>4, EndValueFresh DEF Fresh, Steady, Unmarked, IsCall, CallFields
<1>6. /\ Good(q, Again(Goto(w, "s_header_value_start")))
      /\ Good(q, Again(Goto(q, "s_header_value_start")))
      /\ Good(q, Again(Goto(e, "s_header_field_start")))
  BY <1>1, <1>2, <1>5, GotoAgainGood
<1> QED
  BY <1>3, <1>4, <1>6 DEF ValueFold

(* The same behind an empty value.                                          *)
LEMMA EmptyValueGood ==
    ASSUME NEW q, Ready(q), q.state = "s_header_value_discard_lws"
    PROVE  Good(q, EmptyValue(q))
<1>1. Fresh(q, q) /\ Inside(q)
  BY ReadyLooked DEF PlainStates, Looked
<1>2. /\ {"s_header_value_discard_ws", "s_header_field_start"} \subseteq PlainStates
      /\ Rank("s_header_field_start") < Rank(q.state) /\ "header_value" \in Marks
  BY DEF PlainStates, Rank, Marks
<1>3. Good(q, Goto(q, "s_header_value_discard_ws"))
  BY <1>1, <1>2, GotoGood
<1>4. Good(q, Fail(q, "INVALID_CONTENT_LENGTH"))
  BY <1>1, FreshFail
<1>5. PICK m : m = Mark(EndValue(q), "header_value")
  OBVIOUS
<1>6. Holds(q, m, "header_value")
  BY <1>1, <1>2, <1>5, EndValueFresh, FreshHolds, HoldsMark
<1>7. PICK d : d = CallDataNoAdvance(Goto(m, "s_header_field_start"), "header_value")
  OBVIOUS
<1>8. Good(q, d) /\ d.state = "s_header_field_start"
  BY <1>1, <1>2, <1>6, <1>7, DataGood
<1>9. Good(q, Again(d))
  BY <1>1, <1>2, <1>8, AgainGood
<1>10. EmptyValue(q) \in {Goto(q, "s_header_value_discard_ws"), Fail(q, "INVALID_CONTENT_LENGTH"),
                          Again(d)}
  BY <1>5, <1>7 DEF EmptyValue
<1> QED
  BY <1>3, <1>4, <1>9, <1>10

(* The byte at which a value starts.                                        *)
LEMMA ValueStartStateGood ==
    ASSUME NEW q, Ready(q), q.state = "s_header_value_start"
    PROVE  Good(q, ValueStart(q))
<1>1. Fresh(q, q) /\ Inside(q)
  BY ReadyLooked DEF PlainStates, Looked
<1> QED
  BY <1>1, ValueStartGood

InValue(z, q) == Run(z, q, "header_value", "s_header_value") /\ q.header_state \notin Unread
ValueKept(z, q) == InValue(z, q) \/ (Stopped(q) /\ Good(z, q))

(* A byte of a list of words.                                               *)
LEMMA TokenByteKeeps ==
    ASSUME NEW z, NEW q, InValue(z, q), NEW c, NEW r, r = TokenByte(q, c),
           q.header_state \in DOMAIN ValueWord \cup DOMAIN ValueFlag \cup
            {"h_matching_transfer_encoding_token_start", "h_matching_transfer_encoding_token",
             "h_matching_connection_token_start", "h_matching_connection_token"}
    PROVE  InValue(z, r) /\ r.p = q.p
<1> DEFINE Right(s) == InValue(z, s) /\ s.p = q.p
           h == q.header_state
           low == Lower[c]
           blank == IF low \in {" ", "\t"} THEN h ELSE "h_general"
           To(s) == [q EXCEPT !.header_state = s]
           Next(s) == [q EXCEPT !.header_state = s, !.index = 0]
<1>1. Right(q) /\ h \notin Unread
  BY DEF InValue
<1>2. ASSUME NEW s, s \notin Unread PROVE Right(To(s)) /\ Right(Next(s))
  BY <1>2 DEF InValue, Run, Only, IsCall, CallFields
<1>3. ASSUME NEW s, Right(s), NEW f PROVE Right(Flag(s, f))
  BY <1>3 DEF Flag, InValue, Run, Only, IsCall, CallFields
<1>4. blank \notin Unread
  BY <1>1 DEF Unread
<1>5. DOMAIN ValueWord = {"h_matching_transfer_encoding_chunked",
            "h_matching_connection_keep_alive", "h_matching_connection_close",
            "h_matching_connection_upgrade"}
      /\ DOMAIN ValueFlag = {"h_connection_keep_alive", "h_connection_close",
            "h_transfer_encoding_chunked", "h_connection_upgrade"}
  BY DEF ValueWord, ValueFlag
<1>6. {"h_matching_transfer_encoding_chunked", "h_matching_transfer_encoding_token",
       "h_matching_transfer_encoding_token_start", "h_matching_connection_token",
       "h_matching_connection_token_start"} \intersect Unread = {}
  BY DEF Unread
<1>7. CASE h = "h_matching_transfer_encoding_token_start"
  <2>1. PICK s : s = IF low = "c" THEN "h_matching_transfer_encoding_chunked"
                     ELSE IF low \in TokenChars THEN "h_matching_transfer_encoding_token"
                     ELSE blank
    OBVIOUS
  <2>2. r = To(s)
    BY <1>5, <1>7, <2>1 DEF TokenByte
  <2>3. s \notin Unread
    <3> HIDE DEF low, blank
    <3> QED
      BY <1>4, <1>6, <2>1
  <2> HIDE DEF Right, To
  <2>4. Right(r)
    BY <1>2, <2>2, <2>3
  <2> QED
    BY <2>4 DEF Right
<1>8. CASE h = "h_matching_connection_token_start"
  <2>1. PICK s : s = IF low \in DOMAIN ConnectionStart THEN ConnectionStart[low]
                     ELSE IF low \in TokenChars THEN "h_matching_connection_token"
                     ELSE blank
    OBVIOUS
  <2>2. r = To(s)
    BY <1>5, <1>8, <2>1 DEF TokenByte
  <2>3. s \notin Unread
    <3> HIDE DEF low, blank
    <3> QED
      BY <1>4, <1>6, <2>1, ConnectionStartRows
  <2> HIDE DEF Right, To
  <2>4. Right(r)
    BY <1>2, <2>2, <2>3
  <2> QED
    BY <2>4 DEF Right
<1>9. CASE h \in DOMAIN ValueWord
  <2>1. PICK rule : rule = ValueWord[h]
    OBVIOUS
  <2>2. PICK i : i = q.index + 1
    OBVIOUS
  <2>3. PICK s : s = IF low # OffsetAt(rule[1], i) THEN rule[3]
                     ELSE IF i = Len(rule[1]) - 1 THEN rule[2] ELSE q.header_state
    OBVIOUS
  <2>4. r = MatchWord(q, low, rule, rule[3])
    BY <1>5, <1>9, <2>1 DEF TokenByte
  <2>5. r = [q EXCEPT !.index = i, !.header_state = s]
    BY <2>2, <2>3, <2>4 DEF MatchWord
  <2>6. s \notin Unread
    <3>1. rule[2] \notin Unread /\ rule[3] \notin Unread
      BY <1>9, <2>1, ValueWordRows
    <3> HIDE DEF low
    <3> QED
      BY <1>1, <2>3, <3>1
  <2> QED
    BY <2>5, <2>6 DEF InValue, Run, Only, IsCall, CallFields
<1>10. CASE h = "h_matching_transfer_encoding_token"
  <2>1. r = IF c = "," THEN Next("h_matching_transfer_encoding_token_start") ELSE q
    BY <1>5, <1>10 DEF TokenByte
  <2> HIDE DEF Right, Next
  <2>2. Right(r)
    BY <1>1, <1>2, <1>6, <2>1
  <2> QED
    BY <2>2 DEF Right
<1>11. CASE h = "h_matching_connection_token"
  <2>1. r = IF c = "," THEN Next("h_matching_connection_token_start") ELSE q
    BY <1>5, <1>11 DEF TokenByte
  <2> HIDE DEF Right, Next
  <2>2. Right(r)
    BY <1>1, <1>2, <1>6, <2>1
  <2> QED
    BY <2>2 DEF Right
<1>12. CASE h = "h_transfer_encoding_chunked"
  <2>1. r = IF c = " " THEN q ELSE To("h_matching_transfer_encoding_token")
    BY <1>5, <1>12 DEF TokenByte
  <2> HIDE DEF Right, To
  <2>2. Right(r)
    BY <1>1, <1>2, <1>6, <2>1
  <2> QED
    BY <2>2 DEF Right
<1>13. CASE h \in {"h_connection_keep_alive", "h_connection_close", "h_connection_upgrade"}
  <2>1. r = IF c = "," THEN Flag(Next("h_matching_connection_token_start"), ValueFlag[h])
            ELSE IF c = " " THEN q ELSE To("h_matching_connection_token")
    BY <1>5, <1>13 DEF TokenByte
  <2> HIDE DEF Right, To, Next
  <2>2. Right(r)
    BY <1>1, <1>2, <1>3, <1>6, <2>1
  <2> QED
    BY <2>2 DEF Right
<1> QED
  BY <1>5, <1>7, <1>8, <1>9, <1>10, <1>11, <1>12, <1>13

(* An error in a value: the call returned inside the piece.                  *)
LEMMA ValueFails ==
    ASSUME NEW z, Inside(z), NEW q, InValue(z, q), q.p <= Len(z.data),
           NEW e, e \notin {"OK", "PAUSED"}
    PROVE  Stopped(Fail(q, e)) /\ Good(z, Fail(q, e))
<1>1. Holds(z, q, "header_value")
  BY RunHolds DEF InValue
<1>2. Good(z, Fail(q, e))
  BY <1>1, HoldsFail
<1>3. Fail(q, e).ret = q.p - 1 /\ q.p - 1 # -1
  BY <1>1 DEF Fail, Return, Holds, Steady, IsCall, CallFields, Inside
<1> QED
  BY <1>2, <1>3 DEF Stopped

(* A byte of Content-Length: the count stays below ULLONG_MAX, or the call  *)
(* fails.                                                                   *)
LEMMA LengthByteKeeps ==
    ASSUME NEW z, Inside(z), NEW q, InValue(z, q), q.p <= Len(z.data), NEW c,
           q.header_state \in {"h_content_length", "h_content_length_num", "h_content_length_ws"},
           NEW r, r = LengthByte(q, c)
    PROVE  (InValue(z, r) /\ r.p = q.p) \/ (Stopped(r) /\ Good(z, r))
<1> DEFINE Right(s) == InValue(z, s) /\ s.p = q.p
<1>1. PICK h : h = IF q.header_state = "h_content_length" THEN "h_content_length_num"
                   ELSE q.header_state
  OBVIOUS
<1>2. PICK t : t = [q EXCEPT !.header_state = h]
  OBVIOUS
<1>3. Right(t) /\ h \in {"h_content_length_num", "h_content_length_ws"} /\ Right(q)
      /\ t.content_length = q.content_length /\ q.content_length \in 0 .. MaxLength
  BY <1>1, <1>2 DEF InValue, Run, Only, IsCall, CallFields, Unread
<1>4. PICK w : w = [t EXCEPT !.header_state = "h_content_length_ws"]
  OBVIOUS
<1>5. Right(w)
  BY <1>3, <1>4 DEF InValue, Run, Only, IsCall, CallFields, Unread
<1>6. PICK f : f = Fail(t, "INVALID_CONTENT_LENGTH")
  OBVIOUS
<1>7. Stopped(f) /\ Good(z, f)
  BY <1>3, <1>6, ValueFails
<1>8. PICK v : v = [t EXCEPT !.content_length = @ * 10 + DigitValue(c)]
  OBVIOUS
<1>9. ASSUME c \in Digits, ~((MaxLength - 10) \div 10 < q.content_length) PROVE Right(v)
  <2>1. DigitValue(c) \in 0 .. 9 /\ MaxLength \in Nat /\ MaxLength >= 16
    BY <1>9, ParserAssumption
  <2>2. PICK d : d = DigitValue(c)
    OBVIOUS
  <2>3. PICK l : l = q.content_length
    OBVIOUS
  <2>4. PICK m : m = (MaxLength - 10) \div 10
    OBVIOUS
  <2>5. l <= m /\ 10 * m <= MaxLength - 10 /\ m \in Int /\ l \in Nat /\ d \in 0 .. 9
    BY <1>3, <1>9, <2>1, <2>2, <2>3, <2>4
  <2>6. l * 10 + d \in 0 .. MaxLength
    BY <2>1, <2>5
  <2>7. v = [t EXCEPT !.content_length = l * 10 + d]
    BY <1>3, <1>8, <2>2, <2>3
  <2> QED
    BY <1>3, <2>6, <2>7 DEF InValue, Run, Only, IsCall, CallFields, Unread
<1>10. r = IF c = " " THEN IF q.header_state = "h_content_length" THEN q ELSE w
           ELSE IF \/ h = "h_content_length_ws" \/ c \notin Digits
                   \/ (MaxLength - 10) \div 10 < q.content_length THEN f
           ELSE v
  BY <1>1, <1>2, <1>4, <1>6, <1>8 DEF LengthByte
<1> HIDE DEF Right
<1>11. Right(r) \/ r = f
  BY <1>3, <1>5, <1>9, <1>10
<1> QED
  BY <1>7, <1>11 DEF Right

(* A byte of any value.                                                     *)
LEMMA ValueByteKeeps ==
    ASSUME NEW z, Inside(z), NEW q, InValue(z, q), q.p <= Len(z.data), NEW c,
           NEW r, r = ValueByte(q, c)
    PROVE  (InValue(z, r) /\ r.p = q.p) \/ (Stopped(r) /\ Good(z, r))
<1> DEFINE lengths == {"h_content_length", "h_content_length_num", "h_content_length_ws"}
           tokens == DOMAIN ValueWord \cup DOMAIN ValueFlag \cup
            {"h_matching_transfer_encoding_token_start", "h_matching_transfer_encoding_token",
             "h_matching_connection_token_start", "h_matching_connection_token"}
<1>1. q.header_state \notin Unread
  BY DEF InValue
<1>2. tokens \intersect lengths = {} /\ tokens \intersect Unread = {} /\ lengths \intersect Unread = {}
  BY DEF ValueWord, ValueFlag, Unread
<1>3. CASE q.header_state \in lengths
  <2>1. r = LengthByte(q, c)
    <3> HIDE DEF tokens
    <3> QED
      BY <1>1, <1>2, <1>3 DEF ValueByte, tokens, Unread
  <2> QED
    BY <1>3, <2>1, LengthByteKeeps
<1>4. CASE q.header_state \in tokens
  <2>1. r = TokenByte(q, c)
    BY <1>1, <1>2, <1>4 DEF ValueByte, Unread
  <2>2. InValue(z, r) /\ r.p = q.p
    BY <1>4, <2>1, TokenByteKeeps
  <2> QED
    BY <2>2
<1>5. CASE q.header_state \notin tokens \cup lengths
  <2>1. r = [q EXCEPT !.header_state = "h_general"]
    BY <1>1, <1>5 DEF ValueByte, Unread
  <2> QED
    BY <2>1 DEF InValue, Run, Only, IsCall, CallFields, Unread
<1> QED
  BY <1>3, <1>4, <1>5

(* The scan of a value nobody reads stays inside the piece.                 *)
LEMMA GeneralScanKeeps ==
    ASSUME NEW z, Inside(z), NEW q, InValue(z, q), q.p <= Len(z.data),
           Ch(q) \notin {CR, LF}, ~Refused_(q, q.p), NEW r,
           r = GeneralScan(q, q.p + Least(Len(q.data) - q.p + 1, MaxHeader))
    PROVE  (InValue(z, r) /\ r.p \in q.p .. Len(z.data)) \/ (Stopped(r) /\ Good(z, r))
<1>1. PICK end : end = q.p + Least(Len(q.data) - q.p + 1, MaxHeader)
  OBVIOUS
<1>2. /\ q.data = z.data /\ Len(q.data) \in Nat /\ q.p \in Nat /\ q.p \in z.p .. Len(z.data)
      /\ z.p \in Nat /\ z.p >= 1 /\ IsCall(q)
  BY DEF InValue, Run, Inside
<1>3. end \in q.p .. Len(q.data) + 1
  <2>1. PICK k : k = Least(Len(q.data) - q.p + 1, MaxHeader)
    OBVIOUS
  <2>2. k \in 0 .. (Len(q.data) - q.p + 1)
    <3>1. MaxHeader \in Nat /\ Len(q.data) - q.p + 1 \in Nat
      BY <1>2, ParserAssumption
    <3> QED
      BY <2>1, <3>1 DEF Least
  <2> QED
    BY <1>1, <1>2, <2>1, <2>2
<1>4. PICK stops : stops = {i \in q.p .. (end - 1) : CharAt(q.data, i) \in {CR, LF} \/ Refused_(q, i)}
  OBVIOUS
<1>5. ASSUME NEW p \in z.p .. Len(z.data) + 1, NEW s, s = [q EXCEPT !.p = p]
      PROVE  InValue(z, s) /\ s.p = p
  BY <1>5 DEF InValue, Run, Only, IsCall, CallFields
<1>6. CASE stops = {}
  <2>1. PICK s : s = [q EXCEPT !.p = end]
    OBVIOUS
  <2>2. r = IF end > Len(q.data) THEN [s EXCEPT !.p = @ - 1] ELSE s
    BY <1>1, <1>4, <1>6, <2>1 DEF GeneralScan
  <2>3. InValue(z, s) /\ s.p = end
    BY <1>2, <1>3, <1>5, <2>1
  <2>4. CASE end > Len(q.data)
    <3>1. r = [q EXCEPT !.p = end - 1]
      BY <1>2, <2>1, <2>2, <2>4 DEF IsCall, CallFields
    <3>2. end - 1 \in z.p .. Len(z.data) + 1 /\ end - 1 \in q.p .. Len(z.data)
      BY <1>2, <1>3, <2>4
    <3> QED
      BY <1>5, <3>1, <3>2
  <2>5. CASE ~(end > Len(q.data))
    BY <1>2, <1>3, <2>2, <2>3, <2>5
  <2> QED
    BY <2>4, <2>5
<1>7. CASE stops # {}
  <2>1. stops \subseteq Nat
    BY <1>2, <1>3, <1>4
  <2>2. PICK m : m = Min(stops)
    OBVIOUS
  <2>3. m \in stops
    BY <1>7, <2>1, <2>2, LeastNat DEF Min
  <2>4. PICK s : s = [q EXCEPT !.p = m]
    OBVIOUS
  <2>5. m \in q.p .. Len(z.data) /\ m \in z.p .. Len(z.data) + 1
    BY <1>2, <1>3, <1>4, <2>3
  <2>6. InValue(z, s) /\ s.p = m
    BY <1>5, <2>4, <2>5
  <2>7. r = IF Ch(s) \in {CR, LF} THEN [s EXCEPT !.p = @ - 1] ELSE Fail(s, "INVALID_HEADER_TOKEN")
    BY <1>1, <1>4, <1>7, <2>2, <2>4 DEF GeneralScan
  <2>8. CASE Ch(s) \in {CR, LF}
    <3>1. m # q.p
      <4>1. Ch(s) = CharAt(q.data, m)
        BY <2>4, <2>6, <1>2 DEF Ch, IsCall, CallFields
      <4> QED
        BY <2>8, <4>1 DEF Ch
    <3>2. r = [q EXCEPT !.p = m - 1]
      BY <1>2, <2>4, <2>7, <2>8 DEF IsCall, CallFields
    <3>3. m - 1 \in q.p .. Len(z.data) /\ m - 1 \in z.p .. Len(z.data) + 1
      BY <1>2, <2>5, <3>1
    <3> QED
      BY <1>5, <3>2, <3>3
  <2>9. CASE Ch(s) \notin {CR, LF}
    <3>1. s.p <= Len(z.data)
      BY <1>2, <2>5, <2>6
    <3> QED
      BY <2>6, <2>7, <2>9, <3>1, ValueFails
  <2> QED
    BY <2>8, <2>9
<1> QED
  BY <1>6, <1>7

(* One turn of the loop over the bytes of a value.                          *)
LEMMA NextValueBytesKeep ==
    ASSUME NEW z, Inside(z), NEW q, ValueKept(z, q), NEW r, r = NextValueBytes(q)
    PROVE  ValueKept(z, r)
<1>1. CASE Stopped(q) \/ q.p > Len(q.data) \/ Ch(q) \in {CR, LF}
  BY <1>1 DEF NextValueBytes
<1>2. CASE ~(Stopped(q) \/ q.p > Len(q.data) \/ Ch(q) \in {CR, LF})
  <2>1. InValue(z, q) /\ q.data = z.data /\ q.p <= Len(z.data)
    BY <1>2 DEF ValueKept, InValue, Run, Inside
  <2>2. PICK v : v = ReadValue(q)
    OBVIOUS
  <2>3. (InValue(z, v) /\ v.p \in q.p .. Len(z.data)) \/ (Stopped(v) /\ Good(z, v))
    <3>1. CASE Refused_(q, q.p)
      BY <2>1, <2>2, <3>1, ValueFails DEF ReadValue
    <3>2. CASE ~Refused_(q, q.p) /\ q.header_state = "h_general"
      BY <1>2, <2>1, <2>2, <3>2, GeneralScanKeeps DEF ReadValue
    <3>3. CASE ~Refused_(q, q.p) /\ q.header_state # "h_general"
      <4>1. v = ValueByte(q, Ch(q))
        BY <2>2, <3>3 DEF ReadValue
      <4>2. (InValue(z, v) /\ v.p = q.p) \/ (Stopped(v) /\ Good(z, v))
        BY <2>1, <4>1, ValueByteKeeps
      <4>3. q.p \in q.p .. Len(z.data)
        BY <2>1 DEF InValue, Run, Inside
      <4> QED
        BY <4>2, <4>3
    <3> QED
      BY <3>1, <3>2, <3>3
  <2>4. r = Advance(v)
    BY <1>2, <2>2 DEF NextValueBytes
  <2>5. CASE Stopped(v) /\ Good(z, v)
    BY <2>4, <2>5 DEF Advance, ValueKept
  <2>6. CASE InValue(z, v) /\ v.p \in q.p .. Len(z.data)
    <3>1. ~Stopped(v)
      BY <2>6 DEF InValue, Run, Stopped
    <3>2. r = [v EXCEPT !.p = @ + 1]
      BY <2>4, <3>1 DEF Advance
    <3>3. v.p + 1 \in z.p .. Len(z.data) + 1
      BY <2>6, <2>1 DEF InValue, Run, Inside
    <3>4. InValue(z, r)
      BY <2>6, <3>2, <3>3 DEF InValue, Run, Only, IsCall, CallFields
    <3> QED
      BY <3>4 DEF ValueKept
  <2> QED
    BY <2>3, <2>5, <2>6
<1> QED
  BY <1>1, <1>2

(* The loop: it stays inside the piece, has passed its end, or the call     *)
(* returns.                                                                 *)
LEMMA ValueBytesKeep ==
    ASSUME NEW z, Looked(z), z.state = "s_header_value"
    PROVE  ValueKept(z, ValueBytes(z))
<1>1. Inside(z) /\ ValueKept(z, z)
  BY LookedRun DEF Looked, ValueKept, InValue, StateFits, Marks, MarkStates, Unread
<1>2. ASSUME NEW q, ValueKept(z, q) PROVE ValueKept(z, ValueRow(q))
  <2> DEFINE g == Iterate("value", q)
             S == {k \in Nat : ValueKept(z, g[k])}
  <2>0. \A s : OneTurn("value", s) = NextValueBytes(s)
    BY DEF OneTurn
  <2>1. g[0] = q /\ \A k \in Nat : g[k + 1] = NextValueBytes(g[k])
    BY <2>0, Iterates
  <2> HIDE DEF g
  <2>2. 0 \in S /\ \A k \in Nat : k \in S => k + 1 \in S
    BY <1>1, <1>2, <2>1, NextValueBytesKeep
  <2>3. \A k \in Nat : k \in S
    <3> HIDE DEF S
    <3> QED
      BY <2>2, NatSetInduction
  <2>4. ValueKept(z, g[Row])
    BY <2>3 DEF Row
  <2> QED
    BY <1>2, <2>4, ValueLoop DEF g
<1> DEFINE g == Iterate("valueRows", z)
           S == {k \in Nat : ValueKept(z, g[k])}
<1>0. \A s : OneTurn("valueRows", s) = ValueRow(s)
  BY DEF OneTurn
<1>3. g[0] = z /\ \A k \in Nat : g[k + 1] = ValueRow(g[k])
  BY <1>0, Iterates
<1> HIDE DEF g
<1>4. 0 \in S /\ \A k \in Nat : k \in S => k + 1 \in S
  BY <1>1, <1>2, <1>3
<1>5. \A k \in Nat : k \in S
  <2> HIDE DEF S
  <2> QED
    BY <1>4, NatSetInduction
<1>6. ((Len(z.data) - z.p) \div Row) + 1 \in Nat
  BY <1>1 DEF Row, Inside
<1>7. ValueKept(z, g[((Len(z.data) - z.p) \div Row) + 1])
  BY <1>5, <1>6
<1> QED
  BY <1>7, ValueLoop DEF ValueBytes, g

(* The value of a header, up to the end of its line or of the piece.        *)
LEMMA ValueRunGood ==
    ASSUME NEW q, Ready(q), q.state = "s_header_value"
    PROVE  Good(q, ValueRun(q))
<1>1. Looked(q) /\ Inside(q) /\ "header_value" \in Marks /\ "s_header_almost_done" \in PlainStates
  BY ReadyLooked DEF Looked, Marks, PlainStates, HeadStates
<1>2. PICK r : r = ValueBytes(q)
  OBVIOUS
<1>3. ValueKept(q, r)
  BY <1>1, <1>2, ValueBytesKeep
<1>4. PICK n : n = r.p - q.p
  OBVIOUS
<1>5. ValueRun(q) = EndOfRun(r, n)
  BY <1>2, <1>4 DEF ValueRun
<1>6. CASE Stopped(r)
  <2>1. Good(q, r)
    BY <1>3, <1>6 DEF ValueKept, InValue, Run, Stopped
  <2> QED
    BY <1>5, <1>6, <2>1 DEF EndOfRun
<1>7. CASE ~Stopped(r) /\ r.p > Len(r.data)
  <2>0. InValue(q, r)
    BY <1>3, <1>7 DEF ValueKept
  <2>1. PICK b : b = [r EXCEPT !.p = @ - 1]
    OBVIOUS
  <2>2. /\ Holds(q, b, "header_value") /\ b.state = "s_header_value"
        /\ b.header_state \notin Unread
    BY <1>1, <2>0, <1>7, <2>1 DEF InValue, Run, Holds, Steady, Only, Inside, IsCall, CallFields
  <2>3. PICK c : c = Count(b, n - 1)
    OBVIOUS
  <2>4. \/ /\ Holds(q, c, "header_value") /\ c.state = "s_header_value"
           /\ c.header_state \notin Unread
        \/ Good(q, c)
    BY <1>1, <2>2, <2>3, CountHolds
  <2>5. Good(q, c)
    BY <2>4, ValueGood
  <2> QED
    BY <1>5, <1>7, <2>1, <2>3, <2>5 DEF EndOfRun
<1>8. CASE ~Stopped(r) /\ ~(r.p > Len(r.data))
  <2>0. InValue(q, r)
    BY <1>3, <1>8 DEF ValueKept
  <2>1. Holds(q, r, "header_value")
    <3>1. Run(q, r, "header_value", "s_header_value") /\ r.p <= Len(q.data)
      BY <1>1, <2>0, <1>8 DEF InValue, Run, Inside
    <3> QED
      BY <1>1, <3>1, RunHolds
  <2>2. CASE Ch(r) = CR
    <3>1. PICK t : t = Goto(r, "s_header_almost_done")
      OBVIOUS
    <3>2. Holds(q, t, "header_value") /\ t.state = "s_header_almost_done"
      BY <2>1, <3>1, HoldsGoto
    <3>3. PICK d : d = CallData(t, "header_value")
      OBVIOUS
    <3>4. Good(q, d) /\ d.state = "s_header_almost_done" /\ (Stopped(d) \/ Fresh(q, d))
      BY <1>1, <3>2, <3>3, DataAtGood
    <3>5. ValueRun(q) = CountRun(d, n)
      BY <1>5, <1>8, <2>2, <3>1, <3>3 DEF EndOfRun
    <3>6. PICK c : c = Count(d, n)
      OBVIOUS
    <3>7. ~Stopped(d) => Good(q, c)
      BY <1>1, <3>4, <3>6, CountFresh, FreshPlain
    <3> QED
      BY <3>4, <3>5, <3>6, <3>7 DEF CountRun
  <2>3. CASE Ch(r) # CR
    <3>1. PICK t : t = Goto(r, "s_header_almost_done")
      OBVIOUS
    <3>2. Holds(q, t, "header_value") /\ t.state = "s_header_almost_done"
      BY <2>1, <3>1, HoldsGoto
    <3>3. PICK c : c = Count(t, n)
      OBVIOUS
    <3>4. ValueRun(q) = Then(c, ValueAtLf)
      BY <1>5, <1>8, <2>3, <3>1, <3>3 DEF EndOfRun
    <3>5. \/ Holds(q, c, "header_value") /\ c.state = "s_header_almost_done" /\ ~Stopped(c)
          \/ Good(q, c) /\ Stopped(c)
      BY <1>1, <3>2, <3>3, CountHolds
    <3>6. ASSUME Holds(q, c, "header_value"), c.state = "s_header_almost_done"
          PROVE  Good(q, ValueAtLf(c))
      <4>1. PICK d : d = CallDataNoAdvance(c, "header_value")
        OBVIOUS
      <4>2. Good(q, d) /\ d.state = "s_header_almost_done"
        BY <1>1, <3>6, <4>1, DataAtGood
      <4>3. Rank(d.state) < Rank(q.state)
        BY <4>2 DEF Rank
      <4> QED
        BY <1>1, <4>1, <4>2, <4>3, AgainGood DEF ValueAtLf
    <3> QED
      BY <3>4, <3>5, <3>6 DEF Then
  <2> QED
    BY <2>2, <2>3
<1> QED
  BY <1>6, <1>7, <1>8

(***************************************************************************)
(* The end of the headers, and the body.                                   *)
(***************************************************************************)
(* RETURN where no datum is marked.                                         *)
LEMMA ReturnGood ==
    ASSUME NEW z, Inside(z), NEW q, Fresh(z, q), q.state \in PlainStates,
           NEW v \in 0 .. Len(z.data)
    PROVE  Good(z, Return(q, v))
<1>1. PICK r : r = Return(q, v)
  OBVIOUS
<1>2. /\ IsCall(r) /\ r.data = q.data /\ r.p = q.p /\ r.asserts = q.asserts /\ r.ret = v
      /\ r.state = q.state /\ r.content_length = q.content_length
  BY <1>1 DEF Return, Fresh, Steady, IsCall, CallFields
<1>3. StateFits(r)
  BY <1>2 DEF StateFits, Fresh, PlainStates, States, ChunkStates, HeadStates, VersionStates, StartStates
<1> QED
  BY <1>1, <1>2, <1>3 DEF Good, Returned, Fresh, Steady

(* The end of a message, with and without the return behind it.             *)
LEMMA CompleteGood ==
    ASSUME NEW z, Inside(z), NEW q, Fresh(z, q)
    PROVE  Good(z, Complete(q)) /\ Good(z, Then(Complete(q), Leave))
<1>1. PICK s : s = IF ~http_should_keep_alive(q) THEN "s_dead"
                   ELSE IF q.type = "REQUEST" THEN "s_start_req" ELSE "s_start_res"
  OBVIOUS
<1>2. s \in PlainStates
  BY <1>1 DEF PlainStates, StartStates
<1>3. PICK n : n = Goto(q, s)
  OBVIOUS
<1>4. Fresh(z, n) /\ n.state = s
  BY <1>3, FreshGoto
<1>5. PICK c : c = CallNotify(n, "message_complete")
  OBVIOUS
<1>6. Good(z, c) /\ c.state = s /\ (Stopped(c) \/ Fresh(z, c))
  BY <1>2, <1>4, <1>5, FreshNotify
<1>7. Complete(q) = c
  BY <1>1, <1>3, <1>5 DEF Complete, NewMessage
<1>8. ASSUME ~Stopped(c) PROVE Good(z, Leave(c))
  <2>1. Fresh(z, c) /\ c.state \in PlainStates /\ c.p \in 0 .. Len(z.data)
    BY <1>2, <1>6, <1>8 DEF Fresh, Steady, Inside
  <2>2. Good(z, Return(c, c.p))
    BY <2>1, ReturnGood
  <2> QED
    BY <1>6, <2>2 DEF Leave
<1> QED
  BY <1>6, <1>7, <1>8 DEF Then

(* What on_headers_complete answers: go on, skip the body, upgrade, or      *)
(* fail.                                                                    *)
LEMMA HeadersCompleteGood ==
    ASSUME NEW z, Inside(z), z.state = "s_headers_almost_done", NEW q, Fresh(z, q),
           q.state = "s_headers_done"
    PROVE  Good(z, HeadersComplete(q))
<1>1. /\ "s_headers_done" \in PlainStates /\ Rank("s_headers_done") < Rank(z.state)
      /\ "s_headers_done" # "s_chunk_size_start"
  BY DEF PlainStates, Rank
<1> DEFINE Right(s) == Fresh(z, s) /\ s.state = "s_headers_done"
<1>2. PICK r : r = Emit(q, "headers_complete", "")
  OBVIOUS
<1>3. Same(q, r)
  BY <1>2, EmitSame DEF Fresh, Steady
<1>4. Right(r) /\ Right(q)
  BY <1>3 DEF Same, Alike, Fresh, Steady, Unmarked
<1>5. ASSUME NEW s, Right(s) PROVE Good(z, Again(s))
  BY <1>1, <1>5, FreshPlain, AgainGood
<1>6. PICK f : f = Flag(r, "SKIPBODY")
  OBVIOUS
<1>7. PICK u : u = [r EXCEPT !.upgrade = TRUE]
  OBVIOUS
<1>8. Right(f) /\ Right(u)
  BY <1>4, <1>6, <1>7 DEF Flag, Fresh, Steady, Unmarked, IsCall, CallFields
<1>9. PICK g : g = Flag(u, "SKIPBODY")
  OBVIOUS
<1>10. Right(g)
  BY <1>8, <1>9 DEF Flag, Fresh, Steady, Unmarked, IsCall, CallFields
<1>11. Good(z, Fail(r, "CB"))
  BY <1>4, FreshFail
<1>12. Good(z, Return([r EXCEPT !.http_errno = "PAUSED"], q.p - 1))
  <2>1. PICK w : w = Return([r EXCEPT !.http_errno = "PAUSED"], q.p - 1)
    OBVIOUS
  <2>2. /\ IsCall(w) /\ w.data = q.data /\ w.p = q.p /\ w.asserts = q.asserts /\ w.ret = q.p - 1
        /\ w.state = q.state /\ w.content_length = q.content_length
    BY <1>3, <2>1 DEF Return, Same, Alike, IsCall, CallFields
  <2>3. StateFits(w)
    BY <2>2 DEF StateFits, Fresh, PlainStates, States, ChunkStates
  <2> QED
    BY <2>1, <2>2, <2>3 DEF Good, Returned, Fresh, Steady, Inside
<1>13. /\ Good(z, Again(q)) /\ Good(z, Again(r)) /\ Good(z, Again(f)) /\ Good(z, Again(g))
  BY <1>4, <1>5, <1>8, <1>10
<1>14. HeadersComplete(q) \in {Again(q), Again(r), Again(f), Again(g), Fail(r, "CB"),
                               Return([r EXCEPT !.http_errno = "PAUSED"], q.p - 1)}
  BY <1>2, <1>6, <1>7, <1>9 DEF HeadersComplete
<1> QED
  BY <1>11, <1>12, <1>13, <1>14

(* The last byte of the headers, or of the trailer.                         *)
LEMMA HeadersAlmostDoneGood ==
    ASSUME NEW q, Ready(q), q.state = "s_headers_almost_done"
    PROVE  Good(q, HeadersAlmostDone(q))
<1>1. Fresh(q, q) /\ Inside(q)
  BY ReadyLooked DEF PlainStates, Looked
<1>2. Good(q, Fail(q, "STRICT")) /\ Good(q, Fail(q, "UNEXPECTED_CONTENT_LENGTH"))
  BY <1>1, FreshFail
<1>3. PICK m : m = Goto(q, "s_message_done")
  OBVIOUS
<1>4. Fresh(q, m) /\ m.state = "s_message_done" /\ m.state \in PlainStates
  BY <1>1, <1>3, FreshGoto DEF PlainStates
<1>5. PICK c : c = CallNotifyNoAdvance(m, "chunk_complete")
  OBVIOUS
<1>6. Good(q, c) /\ c.state = "s_message_done"
  BY <1>1, <1>4, <1>5, FreshNotify
<1>7. Rank(c.state) < Rank(q.state)
  BY <1>6 DEF Rank
<1>8. Good(q, Again(c))
  BY <1>1, <1>6, <1>7, AgainGood
<1>9. ASSUME NEW up PROVE Good(q, HeadersComplete(Goto([q EXCEPT !.upgrade = up], "s_headers_done")))
  <2>1. PICK h : h = Goto([q EXCEPT !.upgrade = up], "s_headers_done")
    OBVIOUS
  <2>2. Fresh(q, h) /\ h.state = "s_headers_done"
    BY <1>1, <2>1 DEF Goto, Fresh, Steady, Unmarked, IsCall, CallFields
  <2> QED
    BY <1>1, <2>1, <2>2, HeadersCompleteGood
<1>10. PICK up : up = IF {"UPGRADE", "CONNECTION_UPGRADE"} \subseteq q.flags
                      THEN q.type = "REQUEST" \/ q.status_code = 101
                      ELSE q.method = "CONNECT"
  OBVIOUS
<1>11. HeadersAlmostDone(q) \in {Fail(q, "STRICT"), Fail(q, "UNEXPECTED_CONTENT_LENGTH"), Again(c),
                                 HeadersComplete(Goto([q EXCEPT !.upgrade = up], "s_headers_done"))}
  BY <1>3, <1>5, <1>10 DEF HeadersAlmostDone
<1> QED
  BY <1>2, <1>8, <1>9, <1>11

(* What follows the headers: nothing, chunks, a body of a length, or a body *)
(* to the end.                                                              *)
LEMMA HeadersDoneGood ==
    ASSUME NEW q, Ready(q), q.state = "s_headers_done"
    PROVE  Good(q, HeadersDone(q))
<1>1. Fresh(q, q) /\ Inside(q)
  BY ReadyLooked DEF PlainStates, Looked
<1>2. PICK r : r = NewCount(q)
  OBVIOUS
<1>3. /\ Fresh(q, r) /\ r.nread = 0 /\ r.saved = 0 /\ r.flags = q.flags
      /\ r.content_length = q.content_length
  BY <1>1, <1>2 DEF NewCount, Fresh, Steady, Unmarked, IsCall, CallFields
<1>4. Good(q, Complete(r)) /\ Good(q, Then(Complete(r), Leave))
  BY <1>1, <1>3, CompleteGood
<1>5. Good(q, Fail(q, "STRICT")) /\ Good(q, Fail(r, "INVALID_TRANSFER_ENCODING"))
  BY <1>1, <1>3, FreshFail
<1>6. ASSUME NEW s, s \in States, StateFits(Goto(r, s)) PROVE Good(q, Goto(r, s))
  <2>1. PICK g : g = Goto(r, s)
    OBVIOUS
  <2>2. Fresh(q, g) /\ g.state = s /\ g.nread = 0
    BY <1>3, <2>1 DEF Goto, Fresh, Steady, Unmarked, IsCall, CallFields
  <2>3. MarksFit(g)
    BY <2>2 DEF Fresh, MarksFit, Unmarked, NoMarks, Marks
  <2>4. StateFits(g)
    BY <1>6, <2>1
  <2> QED
    BY <2>1, <2>2, <2>3, <2>4 DEF Good, Goes, Live, Going, Fresh, Steady
<1>7. ASSUME NEW s PROVE /\ Goto(r, s).state = s /\ Goto(r, s).saved = 0
                         /\ Goto(r, s).flags = q.flags
                         /\ Goto(r, s).content_length = q.content_length
  BY <1>3 DEF Goto, Fresh, Steady, IsCall, CallFields
<1>8. q.content_length \in 0 .. MaxLength
  BY <1>1 DEF Fresh
<1>9. Good(q, Goto(r, "s_body_identity_eof"))
  BY <1>6, <1>7, <1>8 DEF StateFits, States, ChunkStates
<1>10. ASSUME "CHUNKED" \in q.flags PROVE Good(q, Goto(r, "s_chunk_size_start"))
  BY <1>6, <1>7, <1>8, <1>10 DEF StateFits, States, ChunkStates
<1>11. ASSUME q.content_length \notin {0, MaxLength} PROVE Good(q, Goto(r, "s_body_identity"))
  BY <1>6, <1>7, <1>8, <1>11 DEF StateFits, States, ChunkStates
<1>12. \/ HeadersDone(q) \in {Fail(q, "STRICT"), Fail(r, "INVALID_TRANSFER_ENCODING"), Complete(r),
                              Then(Complete(r), Leave), Goto(r, "s_body_identity_eof")}
       \/ "CHUNKED" \in q.flags /\ HeadersDone(q) = Goto(r, "s_chunk_size_start")
       \/ q.content_length \notin {0, MaxLength} /\ HeadersDone(q) = Goto(r, "s_body_identity")
  <2>1. PICK t : t = Then(Complete(r), Leave)
    OBVIOUS
  <2>2. PICK l : l = (q.upgrade /\ (q.method = "CONNECT" \/ "SKIPBODY" \in q.flags
                        \/ ~("CHUNKED" \in q.flags \/ q.content_length \notin {0, MaxLength})))
    OBVIOUS
  <2>3. HeadersDone(q) =
        IF Ch(q) # LF THEN Fail(q, "STRICT")
        ELSE IF l THEN t
        ELSE IF "SKIPBODY" \in q.flags THEN Complete(r)
        ELSE IF "CHUNKED" \in q.flags THEN Goto(r, "s_chunk_size_start")
        ELSE IF "TRANSFER_ENCODING" \in q.flags
        THEN IF q.type = "REQUEST" /\ ~q.lenient THEN Fail(r, "INVALID_TRANSFER_ENCODING")
             ELSE Goto(r, "s_body_identity_eof")
        ELSE IF q.content_length = 0 THEN Complete(r)
        ELSE IF q.content_length # MaxLength THEN Goto(r, "s_body_identity")
        ELSE IF http_message_needs_eof(q) THEN Goto(r, "s_body_identity_eof")
        ELSE Complete(r)
    BY <1>2, <2>1, <2>2 DEF HeadersDone
  <2>4. HeadersDone(q) = Fail(q, "STRICT") \/ HeadersDone(q) = t \/ HeadersDone(q) = Complete(r)
        \/ HeadersDone(q) = Fail(r, "INVALID_TRANSFER_ENCODING")
        \/ HeadersDone(q) = Goto(r, "s_body_identity_eof")
        \/ ("CHUNKED" \in q.flags /\ HeadersDone(q) = Goto(r, "s_chunk_size_start"))
        \/ (q.content_length \notin {0, MaxLength} /\ HeadersDone(q) = Goto(r, "s_body_identity"))
    BY <2>3
  <2> QED
    BY <2>1, <2>4
<1> QED
  BY <1>4, <1>5, <1>9, <1>10, <1>11, <1>12

(* The last byte of a body of a length.                                     *)
LEMMA MessageDoneGood ==
    ASSUME NEW q, Ready(q), q.state = "s_message_done"
    PROVE  Good(q, MessageDone(q))
<1>1. Fresh(q, q) /\ Inside(q)
  BY ReadyLooked DEF PlainStates, Looked
<1> QED
  BY <1>1, CompleteGood DEF MessageDone

(* Bytes behind a message that closes the connection.                       *)
LEMMA DeadGood ==
    ASSUME NEW q, Ready(q), q.state = "s_dead"
    PROVE  Good(q, q) /\ Good(q, Fail(q, "CLOSED_CONNECTION"))
<1>1. Fresh(q, q) /\ Inside(q) /\ q.state \in PlainStates
  BY ReadyLooked DEF PlainStates, Looked
<1> QED
  BY <1>1, FreshPlain, FreshFail

BodyMarked == {"s_body_identity", "s_chunk_data"}

(* The bytes of a body that are in the piece: no more than are expected, so *)
(* the count stays below ULLONG_MAX.                                        *)
LEMMA TakeHolds ==
    ASSUME NEW z, Looked(z), z.state \in BodyMarked, NEW t, t = Take(z)
    PROVE  /\ Holds(z, t, "body") /\ t.state = z.state /\ t.flags = z.flags /\ t.saved = z.saved
           /\ t.content_length # MaxLength
<1>1. /\ "body" \in Marks /\ z.state \in MarkStates["body"] /\ Inside(z)
      /\ z.content_length \in 0 .. MaxLength /\ z.content_length \notin {0, MaxLength}
  BY DEF BodyMarked, Marks, MarkStates, Looked, StateFits
<1>2. Holds(z, z, "body")
  BY <1>1, LookedHolds
<1>3. PICK a : a = Assert_(z, z.content_length \notin {0, MaxLength})
  OBVIOUS
<1>4. /\ Holds(z, a, "body") /\ a.state = z.state /\ a.flags = z.flags /\ a.saved = z.saved
      /\ a.content_length = z.content_length /\ a.p = z.p
  BY <1>1, <1>2, <1>3 DEF Assert_, Holds, Steady, Only, IsCall, CallFields
<1>5. PICK m : m = Mark(a, "body")
  OBVIOUS
<1>6. Holds(z, m, "body") /\ Alike(a, m) /\ m.saved = a.saved
  BY <1>1, <1>4, <1>5, HoldsMark
<1>7. PICK n : n = Least(z.content_length, Len(z.data) - z.p + 1)
  OBVIOUS
<1>8. n \in 1 .. z.content_length /\ n <= Len(z.data) - z.p + 1
  BY <1>1, <1>7 DEF Least, Inside
<1>9. t = [m EXCEPT !.content_length = @ - n, !.p = @ + n - 1]
  BY <1>3, <1>5, <1>7 DEF Take
<1>10. /\ z.content_length - n \in 0 .. MaxLength /\ z.content_length - n # MaxLength
       /\ z.p + n - 1 \in z.p .. Len(z.data)
  BY <1>1, <1>8, ParserAssumption DEF Inside
<1>11. m.content_length = z.content_length /\ m.p = z.p /\ m.state = z.state /\ m.flags = z.flags
       /\ m.saved = z.saved
  BY <1>4, <1>6 DEF Alike
<1>12. t.content_length = z.content_length - n /\ t.p = z.p + n - 1 /\ t.state = m.state
       /\ t.flags = m.flags /\ t.saved = m.saved
  BY <1>6, <1>9, <1>11 DEF Holds, Steady, IsCall, CallFields
<1>13. Holds(z, t, "body")
  BY <1>6, <1>9, <1>10, <1>12 DEF Holds, Steady, Only, IsCall, CallFields
<1> QED
  BY <1>10, <1>11, <1>12, <1>13

(* A handler may end inside a body.                                         *)
LEMMA BodyGood ==
    ASSUME NEW z, NEW q, Holds(z, q, "body"), StateFits(q), q.state # "s_chunk_size_start",
           q.state \in MarkStates["body"]
    PROVE  Good(z, q)
<1>1. MarksFit(q)
  BY DEF MarksFit, Holds, Only
<1> QED
  BY <1>1 DEF Good, Goes, Live, Going, Holds, Steady

(* A body of a length: the bytes taken end it, and the byte is looked at    *)
(* again, or the piece ends.                                                *)
LEMMA IdentityGood ==
    ASSUME NEW q, Ready(q), q.state = "s_body_identity"
    PROVE  Good(q, Identity(q))
<1>1. Looked(q) /\ Inside(q) /\ "body" \in Marks
  BY ReadyLooked DEF Looked, Marks
<1>2. PICK t : t = Take(q)
  OBVIOUS
<1>3. /\ Holds(q, t, "body") /\ t.state = "s_body_identity" /\ t.content_length # MaxLength
      /\ t.content_length \in 0 .. MaxLength
  BY <1>1, <1>2, TakeHolds DEF BodyMarked, Holds
<1>4. CASE t.content_length > 0
  <2>1. StateFits(t) /\ t.state \in MarkStates["body"]
    BY <1>3, <1>4 DEF StateFits, States, ChunkStates, MarkStates
  <2>2. Good(q, t)
    BY <1>3, <2>1, BodyGood
  <2> QED
    BY <1>2, <1>4, <2>2 DEF Identity, IfWhole
<1>5. CASE ~(t.content_length > 0)
  <2>1. PICK m : m = Goto(t, "s_message_done")
    OBVIOUS
  <2>2. Holds(q, m, "body") /\ m.state = "s_message_done"
    BY <1>3, <2>1, HoldsGoto
  <2>3. StateFits(m) /\ m.p - 1 \in 0 .. Len(q.data) /\ m.p = t.p
    BY <1>1, <1>3, <2>1, <2>2
       DEF StateFits, States, PlainStates, ChunkStates, Holds, Steady, Inside, Goto, IsCall, CallFields
  <2>4. PICK d : d = Data(m, "body", m.p, m.p - 1)
    OBVIOUS
  <2>6. Good(q, d) /\ d.state = "s_message_done"
    BY <1>1, <2>2, <2>3, <2>4, DataEnds
  <2>7. Rank(d.state) < Rank(q.state)
    BY <2>6 DEF Rank
  <2>8. Good(q, Again(d))
    BY <1>1, <2>6, <2>7, AgainGood
  <2>9. Identity(q) = Again(d)
    BY <1>2, <1>5, <2>1, <2>3, <2>4 DEF Identity, IfWhole
  <2> QED
    BY <2>8, <2>9
<1> QED
  BY <1>4, <1>5

(* A body to the end of the stream takes the piece.                         *)
LEMMA IdentityEofGood ==
    ASSUME NEW q, Ready(q), q.state = "s_body_identity_eof"
    PROVE  Good(q, [Mark(q, "body") EXCEPT !.p = Len(q.data)])
<1>1. Looked(q) /\ Inside(q) /\ "body" \in Marks /\ q.state \in MarkStates["body"]
  BY ReadyLooked DEF Looked, Marks, MarkStates
<1>2. PICK m : m = Mark(q, "body")
  OBVIOUS
<1>3. Holds(q, m, "body") /\ Alike(q, m)
  BY <1>1, <1>2, LookedHolds, HoldsMark
<1>4. PICK r : r = [m EXCEPT !.p = Len(q.data)]
  OBVIOUS
<1>5. Holds(q, r, "body") /\ r.state = "s_body_identity_eof"
  BY <1>1, <1>3, <1>4 DEF Holds, Steady, Only, Alike, IsCall, CallFields, Inside
<1>6. StateFits(r) /\ r.state \in MarkStates["body"]
  BY <1>5 DEF StateFits, States, ChunkStates, MarkStates, Holds
<1>7. Good(q, r)
  BY <1>5, <1>6, BodyGood
<1> QED
  BY <1>2, <1>4, <1>7

-----------------------------------------------------------------------------
(* The chunks.                                                              *)
SizeStates == {"s_chunk_size_start", "s_chunk_size", "s_chunk_parameters",
               "s_chunk_size_almost_done", "s_chunk_data_done"}

(* No datum is marked between the chunks.                                   *)
LEMMA ChunkFresh ==
    ASSUME NEW z, Looked(z), z.state \in SizeStates
    PROVE  Fresh(z, z) /\ Inside(z) /\ "CHUNKED" \in z.flags
<1>1. \A m \in Marks : z.state \notin MarkStates[m]
  BY DEF SizeStates, MarkStates, Marks, AddressStates
<1>2. Unmarked(z)
  BY <1>1 DEF Looked, MarksFit, Unmarked, NoMarks
<1> QED
  BY <1>2 DEF Looked, Fresh, StateFits, SizeStates, ChunkStates

(* A handler may end between the size of a chunk and its end of line.       *)
LEMMA ChunkSteps ==
    ASSUME NEW z, NEW q, Fresh(z, q), "CHUNKED" \in q.flags, q.content_length # MaxLength,
           q.state \in {"s_chunk_size", "s_chunk_parameters", "s_chunk_size_almost_done"}
    PROVE  Good(z, q)
<1>1. StateFits(q)
  BY DEF StateFits, States, ChunkStates, Fresh
<1>2. MarksFit(q)
  BY DEF MarksFit, Fresh, Unmarked, NoMarks, Marks
<1> QED
  BY <1>1, <1>2 DEF Good, Goes, Live, Going, Fresh, Steady

(* The size of a chunk: a digit more stays below ULLONG_MAX, or the call    *)
(* fails.                                                                   *)
LEMMA ChunkSizeGood ==
    ASSUME NEW z, Looked(z), z.state \in {"s_chunk_size_start", "s_chunk_size"}
    PROVE  Good(z, ChunkSize(z))
<1>1. Fresh(z, z) /\ Inside(z) /\ "CHUNKED" \in z.flags
  BY ChunkFresh DEF SizeStates
<1>2. Good(z, Fail(z, "INVALID_CHUNK_SIZE")) /\ Good(z, Fail(z, "INVALID_CONTENT_LENGTH"))
  BY <1>1, FreshFail
<1>3. ASSUME NEW s, s \in {"s_chunk_size", "s_chunk_parameters", "s_chunk_size_almost_done"},
             z.content_length # MaxLength
      PROVE  Good(z, Goto(z, s))
  <2>1. PICK g : g = Goto(z, s)
    OBVIOUS
  <2>2. Fresh(z, g) /\ g.state = s /\ g.flags = z.flags /\ g.content_length = z.content_length
    BY <1>1, <2>1 DEF Goto, Fresh, Steady, Unmarked, IsCall, CallFields
  <2> QED
    BY <1>1, <1>3, <2>1, <2>2, ChunkSteps
<1>4. CASE z.state = "s_chunk_size_start"
  <2>1. PICK a : a = Assert_(z, z.nread = 1)
    OBVIOUS
  <2>2. z.nread = 1
    BY <1>4 DEF Looked
  <2>3. Fresh(z, a) /\ a.flags = z.flags
    BY <1>1, <2>1, <2>2 DEF Assert_, Fresh, Steady, Unmarked, IsCall, CallFields
  <2>4. ASSUME Ch(z) \in HexDigits
        PROVE  Good(z, Goto([a EXCEPT !.content_length = HexValue(Ch(z))], "s_chunk_size"))
    <3>1. PICK g : g = Goto([a EXCEPT !.content_length = HexValue(Ch(z))], "s_chunk_size")
      OBVIOUS
    <3>2. HexValue(Ch(z)) \in 0 .. MaxLength /\ HexValue(Ch(z)) # MaxLength
      <4>1. HexValue(Ch(z)) \in 0 .. 15 /\ MaxLength \in Nat /\ MaxLength >= 16
        BY <2>4, ParserAssumption
      <4>2. PICK v : v = HexValue(Ch(z))
        OBVIOUS
      <4> QED
        BY <4>1, <4>2
    <3>3. PICK v : v = HexValue(Ch(z))
      OBVIOUS
    <3>4. Fresh(z, g) /\ g.state = "s_chunk_size" /\ g.flags = z.flags /\ g.content_length = v
      BY <2>3, <3>1, <3>2, <3>3 DEF Goto, Fresh, Steady, Unmarked, IsCall, CallFields
    <3> QED
      BY <1>1, <3>1, <3>2, <3>3, <3>4, ChunkSteps
  <2>5. ChunkSize(z) = IF Ch(z) \in HexDigits
            THEN Goto([a EXCEPT !.content_length = HexValue(Ch(z))], "s_chunk_size")
            ELSE Fail(z, "INVALID_CHUNK_SIZE")
    BY <1>4, <2>1 DEF ChunkSize
  <2> QED
    BY <1>2, <2>4, <2>5
<1>5. CASE z.state = "s_chunk_size"
  <2>1. z.content_length # MaxLength /\ z.content_length \in 0 .. MaxLength
    BY <1>5 DEF Looked, StateFits
  <2>2. /\ Good(z, Goto(z, "s_chunk_size_almost_done")) /\ Good(z, Goto(z, "s_chunk_parameters"))
    BY <1>3, <2>1
  <2>3. ASSUME Ch(z) \in HexDigits, ~((MaxLength - 16) \div 16 < z.content_length)
        PROVE  Good(z, [z EXCEPT !.content_length = z.content_length * 16 + HexValue(Ch(z))])
    <3>1. HexValue(Ch(z)) \in 0 .. 15 /\ MaxLength \in Nat /\ MaxLength >= 16
      BY <2>3, ParserAssumption
    <3>2. PICK v : v = HexValue(Ch(z))
      OBVIOUS
    <3>3. PICK l : l = z.content_length
      OBVIOUS
    <3>4. PICK m : m = (MaxLength - 16) \div 16
      OBVIOUS
    <3>5. l <= m /\ 16 * m <= MaxLength - 16 /\ m \in Int /\ l \in Nat /\ v \in 0 .. 15
      BY <2>1, <2>3, <3>1, <3>2, <3>3, <3>4
    <3>6. l * 16 + v \in 0 .. MaxLength /\ l * 16 + v # MaxLength
      BY <3>1, <3>5
    <3>7. PICK g : g = [z EXCEPT !.content_length = l * 16 + v]
      OBVIOUS
    <3>8. Fresh(z, g) /\ g.state = "s_chunk_size" /\ g.flags = z.flags
          /\ g.content_length = l * 16 + v
      BY <1>1, <1>5, <3>6, <3>7 DEF Fresh, Steady, Unmarked, IsCall, CallFields
    <3>9. Good(z, g)
      BY <1>1, <3>6, <3>8, ChunkSteps
    <3> QED
      BY <3>2, <3>3, <3>7, <3>9
  <2>4. ChunkSize(z) = IF Ch(z) = CR THEN Goto(z, "s_chunk_size_almost_done")
        ELSE IF Ch(z) \in {";", " "} THEN Goto(z, "s_chunk_parameters")
        ELSE IF Ch(z) \notin HexDigits THEN Fail(z, "INVALID_CHUNK_SIZE")
        ELSE IF (MaxLength - 16) \div 16 < z.content_length THEN Fail(z, "INVALID_CONTENT_LENGTH")
        ELSE [z EXCEPT !.content_length = z.content_length * 16 + HexValue(Ch(z))]
    BY <1>5 DEF ChunkSize
  <2> QED
    BY <1>2, <2>2, <2>3, <2>4
<1> QED
  BY <1>4, <1>5

(* The end of line behind the size: the last chunk, or the bytes of one.    *)
LEMMA ChunkSizeDoneGood ==
    ASSUME NEW z, Looked(z), z.state = "s_chunk_size_almost_done"
    PROVE  Good(z, ChunkSizeDone(z))
<1>1. Fresh(z, z) /\ Inside(z) /\ "CHUNKED" \in z.flags
  BY ChunkFresh DEF SizeStates
<1>2. Good(z, Fail(z, "STRICT"))
  BY <1>1, FreshFail
<1>3. PICK n : n = NewCount(z)
  OBVIOUS
<1>4. Fresh(z, n) /\ n.flags = z.flags /\ n.content_length = z.content_length
  BY <1>1, <1>3 DEF NewCount, Fresh, Steady, Unmarked, IsCall, CallFields
<1>5. PICK f : f = Flag(n, "TRAILING")
  OBVIOUS
<1>6. Fresh(z, f)
  BY <1>4, <1>5 DEF Flag, Fresh, Steady, Unmarked, IsCall, CallFields
<1>7. Good(z, CallNotify(Goto(f, "s_header_field_start"), "chunk_header"))
  BY <1>1, <1>6, GotoNotifyGood DEF PlainStates
<1>8. PICK g : g = Goto(n, "s_chunk_data")
  OBVIOUS
<1>9. ASSUME z.content_length # 0 PROVE Good(z, CallNotify(g, "chunk_header"))
  <2>1. Fresh(z, g) /\ g.state = "s_chunk_data" /\ g.flags = z.flags
        /\ g.content_length = z.content_length
    BY <1>4, <1>8 DEF Goto, Fresh, Steady, Unmarked, IsCall, CallFields
  <2>2. z.content_length # MaxLength
    BY DEF Looked, StateFits
  <2>3. StateFits(g)
    BY <1>1, <1>9, <2>1, <2>2 DEF StateFits, States, ChunkStates, Fresh
  <2>4. MarksFit(g)
    BY <2>1 DEF MarksFit, Fresh, Unmarked, NoMarks, Marks
  <2>5. Live(g) /\ g.p \in 0 .. Len(z.data)
    BY <1>1, <2>1, <2>3, <2>4 DEF Live, Going, Fresh, Steady, Inside
  <2> QED
    BY <1>1, <2>1, <2>5, NotifyEnds DEF CallNotify
<1>10. ChunkSizeDone(z) = IF Ch(z) # LF THEN Fail(z, "STRICT")
          ELSE IF z.content_length = 0
          THEN CallNotify(Goto(f, "s_header_field_start"), "chunk_header")
          ELSE CallNotify(g, "chunk_header")
  BY <1>3, <1>5, <1>8 DEF ChunkSizeDone
<1> QED
  BY <1>2, <1>7, <1>9, <1>10

(* The bytes of a chunk and the end of line behind them, where the count    *)
(* starts afresh.                                                           *)
LEMMA ChunkDataGood ==
    ASSUME NEW z, Looked(z),
           z.state \in {"s_chunk_data", "s_chunk_data_almost_done", "s_chunk_data_done"}
    PROVE  Good(z, ChunkData(z))
<1>1. Inside(z) /\ "CHUNKED" \in z.flags /\ "body" \in Marks
  BY DEF Looked, StateFits, ChunkStates, Marks
<1>2. CASE z.state = "s_chunk_data"
  <2>1. PICK t : t = Take(z)
    OBVIOUS
  <2>2. /\ Holds(z, t, "body") /\ t.state = "s_chunk_data" /\ t.content_length # MaxLength
        /\ t.content_length \in 0 .. MaxLength /\ t.flags = z.flags
    BY <1>2, <2>1, TakeHolds DEF BodyMarked, Holds
  <2>3. CASE t.content_length = 0
    <3>1. PICK g : g = Goto(t, "s_chunk_data_almost_done")
      OBVIOUS
    <3>2. /\ Holds(z, g, "body") /\ g.state = "s_chunk_data_almost_done" /\ g.content_length = 0
          /\ g.flags = z.flags
      BY <2>2, <2>3, <3>1 DEF Goto, Holds, Steady, Only, IsCall, CallFields
    <3>3. StateFits(g) /\ g.state \in MarkStates["body"]
      BY <1>1, <3>2 DEF StateFits, States, ChunkStates, MarkStates, Holds
    <3>4. Good(z, g)
      BY <3>2, <3>3, BodyGood
    <3> QED
      BY <1>2, <2>1, <2>3, <3>1, <3>4 DEF ChunkData, IfChunkEnds
  <2>4. CASE t.content_length # 0
    <3>1. StateFits(t) /\ t.state \in MarkStates["body"]
      BY <1>1, <2>2, <2>4 DEF StateFits, States, ChunkStates, MarkStates
    <3>2. Good(z, t)
      BY <2>2, <3>1, BodyGood
    <3> QED
      BY <1>2, <2>1, <2>4, <3>2 DEF ChunkData, IfChunkEnds
  <2> QED
    BY <2>3, <2>4
<1>3. CASE z.state = "s_chunk_data_almost_done"
  <2>1. Holds(z, z, "body") /\ z.content_length = 0
    BY <1>1, <1>3, LookedHolds DEF MarkStates, Looked, StateFits
  <2>2. Good(z, Fail(z, "STRICT"))
    BY <1>1, <2>1, HoldsFail
  <2>3. PICK g : g = Goto(Assert_(z, z.content_length = 0), "s_chunk_data_done")
    OBVIOUS
  <2>4. Holds(z, g, "body") /\ g.state = "s_chunk_data_done" /\ g.flags = z.flags
    BY <2>1, <2>3 DEF Goto, Assert_, Holds, Steady, Only, IsCall, CallFields
  <2>5. StateFits(g) /\ g.p \in 0 .. Len(z.data)
    BY <1>1, <2>4 DEF StateFits, States, ChunkStates, Holds, Steady, Inside
  <2>6. Good(z, CallData(g, "body"))
    BY <1>1, <2>4, <2>5, DataEnds DEF CallData
  <2>7. ChunkData(z) = IF Ch(z) # CR THEN Fail(z, "STRICT") ELSE CallData(g, "body")
    BY <1>3, <2>3 DEF ChunkData
  <2> QED
    BY <2>2, <2>6, <2>7
<1>4. CASE z.state = "s_chunk_data_done"
  <2>1. Fresh(z, z)
    BY <1>4, ChunkFresh DEF SizeStates
  <2>2. Good(z, Fail(z, "STRICT"))
    BY <1>1, <2>1, FreshFail
  <2>3. PICK g : g = Goto(NewCount(z), "s_chunk_size_start")
    OBVIOUS
  <2>4. /\ Fresh(z, g) /\ g.state = "s_chunk_size_start" /\ g.flags = z.flags
        /\ g.nread = 0 /\ g.saved = 0
    BY <2>1, <2>3 DEF Goto, NewCount, Fresh, Steady, Unmarked, IsCall, CallFields
  <2>5. StateFits(g)
    BY <1>1, <2>4 DEF StateFits, States, ChunkStates, Fresh
  <2>6. MarksFit(g)
    BY <2>4 DEF MarksFit, Fresh, Unmarked, NoMarks, Marks
  <2>7. Live(g) /\ g.p \in 0 .. Len(z.data)
    BY <1>1, <2>4, <2>5, <2>6 DEF Live, Going, Fresh, Steady, Inside
  <2>8. Good(z, CallNotify(g, "chunk_complete"))
    BY <1>1, <2>4, <2>7, NotifyEnds DEF CallNotify
  <2>9. ChunkData(z) = IF Ch(z) # LF THEN Fail(z, "STRICT") ELSE CallNotify(g, "chunk_complete")
    BY <1>4, <2>3 DEF ChunkData
  <2> QED
    BY <2>2, <2>8, <2>9
<1> QED
  BY <1>2, <1>3, <1>4

(* The chunks: the assertions that a handler makes hold.                    *)
LEMMA ChunkGood ==
    ASSUME NEW q, Ready(q), q.state \in ChunkStates
    PROVE  Good(q, Chunk(Assert_(q, "CHUNKED" \in q.flags)))
<1>1. Looked(q) /\ Inside(q) /\ "CHUNKED" \in q.flags
  BY ReadyLooked DEF Looked, StateFits
<1>2. PICK a : a = Assert_(q, "CHUNKED" \in q.flags)
  OBVIOUS
<1>3. /\ IsCall(a) /\ Same(q, a)
  BY <1>1, <1>2 DEF Assert_, Looked, Steady, Same, Alike, IsCall, CallFields
<1>4. Looked(a)
  BY <1>1, <1>3 DEF Looked, Same, Alike, Steady, StateFits, MarksFit, Inside
<1>9. Good(a, Chunk(a))
  <2>1. CASE a.state \in {"s_chunk_size_start", "s_chunk_size"}
    BY <1>4, <2>1, ChunkSizeGood DEF Chunk
  <2>2. CASE a.state = "s_chunk_parameters"
    <3>1. Fresh(a, a) /\ "CHUNKED" \in a.flags /\ a.content_length # MaxLength
      BY <1>4, <2>2, ChunkFresh DEF SizeStates, Looked, StateFits
    <3>2. PICK g : g = Goto(a, "s_chunk_size_almost_done")
      OBVIOUS
    <3>3. Fresh(a, g) /\ g.state = "s_chunk_size_almost_done" /\ g.flags = a.flags
          /\ g.content_length = a.content_length
      BY <3>1, <3>2 DEF Goto, Fresh, Steady, Unmarked, IsCall, CallFields
    <3>4. Good(a, a) /\ Good(a, g)
      BY <2>2, <3>1, <3>3, ChunkSteps
    <3> QED
      BY <2>2, <3>2, <3>4 DEF Chunk
  <2>3. CASE a.state = "s_chunk_size_almost_done"
    BY <1>4, <2>3, ChunkSizeDoneGood DEF Chunk
  <2>4. CASE a.state \in {"s_chunk_data", "s_chunk_data_almost_done", "s_chunk_data_done"}
    BY <1>4, <2>4, ChunkDataGood DEF Chunk
  <2> QED
    BY <1>3, <2>1, <2>2, <2>3, <2>4 DEF ChunkStates, Same, Alike
<1>10. PICK c : c = Chunk(a)
  OBVIOUS
<1>11. Good(q, c)
  BY <1>3, <1>9, <1>10 DEF Good, Goes, Same, Alike
<1> QED
  BY <1>2, <1>10, <1>11

-----------------------------------------------------------------------------
(* The switch: in every state the byte is one that some handler expects.    *)
(* The sets of states that the tables name.                                 *)
LEMMA Apart ==
    /\ DOMAIN Literal = HeadStates /\ DOMAIN Version = VersionStates /\ InUrl = AddressStates
  BY LiteralRows, UrlRules DEF Version, VersionStates

(* The switch over the states.                                              *)
LEMMA ByteGood ==
    ASSUME NEW q, Ready(q)
    PROVE  Good(q, Byte(q))
<1> USE Apart
<1>0. q.state \in States
  BY DEF Ready, Going, StateFits
<1>1. CASE q.state \in HeadStates
  BY <1>1, OneByteGood DEF Byte, HeadStates, VersionStates, AddressStates, StartStates, ChunkStates
<1>2. CASE q.state \in VersionStates
  BY <1>2, VersionDigitGood DEF Byte, HeadStates, VersionStates, AddressStates, StartStates, ChunkStates
<1>3. CASE q.state \in StartStates
  BY <1>3, StartGood DEF Byte, HeadStates, VersionStates, AddressStates, StartStates, ChunkStates
<1>4. CASE q.state \in AddressStates
  BY <1>4, UrlGood DEF Byte, HeadStates, VersionStates, AddressStates, StartStates, ChunkStates
<1>5. CASE q.state \in ChunkStates
  BY <1>5, ChunkGood DEF Byte, HeadStates, VersionStates, AddressStates, StartStates, ChunkStates
<1> DEFINE Others == HeadStates \cup VersionStates \cup StartStates \cup AddressStates \cup ChunkStates
<1>6. CASE q.state \in {"s_header_field", "s_header_value", "s_header_value_start",
                        "s_header_value_discard_ws", "s_header_field_start"}
  BY <1>6, FieldRunGood, ValueRunGood, ValueStartStateGood, ValueBlankGood, FieldStartGood
     DEF Byte, HeadStates, VersionStates, AddressStates, StartStates, ChunkStates
<1>7. CASE q.state \in {"s_header_value_lws", "s_header_value_discard_lws",
                        "s_headers_almost_done", "s_headers_done"}
  BY <1>7, ValueFoldGood, EmptyValueGood, HeadersAlmostDoneGood, HeadersDoneGood
     DEF Byte, HeadStates, VersionStates, AddressStates, StartStates, ChunkStates
<1>8. CASE q.state \in {"s_req_method", "s_req_spaces_before_url", "s_req_http_start",
                        "s_req_http_end"}
  BY <1>8, MethodByteGood, UrlStartGood, AfterUrlGood, RequestLineEndGood
     DEF Byte, HeadStates, VersionStates, AddressStates, StartStates, ChunkStates
<1>9. CASE q.state \in {"s_res_or_resp_H", "s_res_first_status_code", "s_res_status_code",
                        "s_res_status_start", "s_res_status"}
  BY <1>9, ResponseOrRequestGood, StatusCodeGood, StatusTextGood
     DEF Byte, HeadStates, VersionStates, AddressStates, StartStates, ChunkStates
<1>10. CASE q.state \in {"s_body_identity", "s_body_identity_eof", "s_message_done", "s_dead"}
  BY <1>10, IdentityGood, IdentityEofGood, MessageDoneGood, DeadGood
     DEF Byte, HeadStates, VersionStates, AddressStates, StartStates, ChunkStates
<1> QED
  BY <1>0, <1>1, <1>2, <1>3, <1>4, <1>5, <1>6, <1>7, <1>8, <1>9, <1>10 DEF States, PlainStates

(***************************************************************************)
(* One byte: it is counted, then looked at until no state asks again.      *)
(***************************************************************************)
(* The count of the byte before it is looked at: 1 at the start of a        *)
(* chunk's size.                                                            *)
LEMMA CountedReady ==
    ASSUME NEW q, Live(q), Inside(q), q.again \in BOOLEAN, NEW c, c = Counted(q)
    PROVE  \/ Stopped(c) /\ Good(q, c)
           \/ ~Stopped(c) /\ Same(q, [c EXCEPT !.nread = q.nread])
              /\ Ready([c EXCEPT !.again = FALSE])
<1>0. IsCall(q) /\ q.ret = -1 /\ q.http_errno = "OK" /\ q.asserts = TRUE /\ StateFits(q)
      /\ MarksFit(q)
  BY DEF Live, Going
<1> DEFINE Right(s) == /\ ~Stopped(s) /\ Same(q, [s EXCEPT !.nread = q.nread])
                       /\ Ready([s EXCEPT !.again = FALSE])
<1>1. CASE q.again \/ q.state \in BodyStates
  <2>1. c = q /\ q.state # "s_chunk_size_start"
    BY <1>1 DEF Counted, BodyStates, Live
  <2>2. PICK l : l = [q EXCEPT !.again = FALSE]
    OBVIOUS
  <2>3. Ready(l)
    BY <1>0, <2>1, <2>2 DEF Ready, Going, StateFits, MarksFit, Inside, IsCall, CallFields
  <2>4. Same(q, [q EXCEPT !.nread = q.nread]) /\ ~Stopped(q)
    BY <1>0 DEF Same, Alike, Stopped, IsCall, CallFields
  <2> QED
    BY <2>1, <2>2, <2>3, <2>4
<1>2. CASE ~(q.again \/ q.state \in BodyStates)
  <2>1. PICK m : m = [q EXCEPT !.nread = @ + 1]
    OBVIOUS
  <2>2. /\ IsCall(m) /\ m.nread = q.nread + 1 /\ m.again = FALSE /\ m.data = q.data /\ m.p = q.p
        /\ m.state = q.state /\ m.asserts = TRUE
    BY <1>0, <1>2, <2>1 DEF IsCall, CallFields
  <2>3. c = IF m.nread > MaxHeader THEN Fail(m, "HEADER_OVERFLOW") ELSE m
    BY <1>2, <2>1 DEF Counted, Count
  <2>4. CASE m.nread > MaxHeader
    <3>1. q.p \in q.p .. Len(q.data)
      BY DEF Inside
    <3>2. Good(q, Fail(m, "HEADER_OVERFLOW"))
      BY <2>2, <3>1, FailGood
    <3>3. Fail(m, "HEADER_OVERFLOW").ret = q.p - 1 /\ q.p - 1 # -1
      BY <2>2 DEF Fail, Return, IsCall, CallFields, Inside
    <3> QED
      BY <2>3, <2>4, <3>2, <3>3 DEF Stopped
  <2>5. CASE ~(m.nread > MaxHeader)
    <3>1. PICK l : l = [m EXCEPT !.again = FALSE]
      OBVIOUS
    <3>2. l.state = "s_chunk_size_start" => l.nread = 1
      BY <1>0, <2>1, <2>2, <3>1 DEF Live, IsCall, CallFields
    <3>3. Ready(l)
      BY <1>0, <2>1, <2>2, <3>1, <3>2 DEF Ready, Going, StateFits, MarksFit, Inside, IsCall, CallFields
    <3>4. Same(q, [m EXCEPT !.nread = q.nread]) /\ ~Stopped(m)
      BY <1>0, <2>1 DEF Same, Alike, Stopped, IsCall, CallFields
    <3> QED
      BY <2>3, <2>5, <3>1, <3>3, <3>4
  <2> QED
    BY <2>4, <2>5
<1> QED
  BY <1>1, <1>2

(* One look at the byte.                                                    *)
LEMMA LookAtGood ==
    ASSUME NEW q, Live(q), Inside(q), q.again \in BOOLEAN
    PROVE  Good(q, LookAt(q))
<1>1. PICK c : c = Counted(q)
  OBVIOUS
<1>2. LookAt(q) = IF Stopped(c) THEN c ELSE Look(c)
  BY <1>1 DEF LookAt, Then
<1>3. CASE Stopped(c) /\ Good(q, c)
  BY <1>2, <1>3
<1>4. CASE /\ ~Stopped(c) /\ Same(q, [c EXCEPT !.nread = q.nread])
           /\ Ready([c EXCEPT !.again = FALSE])
  <2>1. PICK l : l = [c EXCEPT !.again = FALSE]
    OBVIOUS
  <2>2. PICK b : b = Byte(l)
    OBVIOUS
  <2>3. Good(l, b)
    BY <1>4, <2>1, <2>2, ByteGood
  <2>4. l.data = q.data /\ l.p = q.p /\ l.state = q.state
    <3>1. PICK s : s = [c EXCEPT !.nread = q.nread]
      OBVIOUS
    <3>2. s.data = q.data /\ s.p = q.p /\ s.state = q.state
      BY <1>4, <3>1 DEF Same, Alike
    <3>3. c.data = s.data /\ c.p = s.p /\ c.state = s.state
      BY <3>1
    <3>4. l.data = c.data /\ l.p = c.p /\ l.state = c.state
      BY <2>1
    <3> QED
      BY <3>2, <3>3, <3>4
  <2>5. Good(q, b)
    BY <2>3, <2>4 DEF Good, Goes
  <2> QED
    BY <1>2, <1>4, <2>1, <2>2, <2>5 DEF Look
<1> QED
  BY <1>1, <1>3, <1>4, CountedReady

(***************************************************************************)
(* The end of the piece, and the loop over its bytes.                      *)
(***************************************************************************)
(* The callbacks for the data cut are being made.                           *)
Flushing(z, q) ==
    /\ IsCall(q) /\ q.ret = -1 /\ q.http_errno = "OK" /\ q.asserts = TRUE
    /\ q.data = z.data /\ Len(q.data) \in Nat /\ q.p - 1 \in 0 .. Len(q.data)
    /\ StateFits(q) /\ q.mark \in [Marks -> Nat]
    /\ q.state = "s_chunk_size_start" => q.nread = 0
Flushed(z, q) == Flushing(z, q) \/ (Returned(q) /\ q.data = z.data)

(* A call that has returned is stopped.                                     *)
LEMMA ReturnedStops ==
    ASSUME NEW q, Returned(q), Len(q.data) \in Nat PROVE Stopped(q)
  BY DEF Returned, Stopped

(* The callback for one datum at the end of a piece.                        *)
LEMMA FlushKeeps ==
    ASSUME NEW z, Len(z.data) \in Nat, NEW q, Flushed(z, q), NEW m \in Marks, NEW r, r = Flush(q, m)
    PROVE  Flushed(z, r)
<1>1. CASE ~Flushing(z, q)
  <2>1. Stopped(q)
    BY <1>1, ReturnedStops DEF Flushed
  <2> QED
    BY <2>1 DEF Flush
<1>2. CASE Flushing(z, q)
  <2>1. /\ IsCall(q) /\ q.ret = -1 /\ q.mark \in [Marks -> Nat] /\ q.p - 1 \in Nat
        /\ q.http_errno = "OK" /\ q.asserts = TRUE
    BY <1>2 DEF Flushing
  <2>2. r = Data(q, m, q.p - 1, q.p - 1)
    BY <2>1 DEF Flush, CallDataNoAdvance, Stopped
  <2>3. Told(q, r, m, q.p - 1)
    BY <2>1, <2>2, DataTold
  <2>4. CASE /\ r.ret = q.ret /\ r.saved = q.saved /\ r.http_errno = q.http_errno
             /\ r.mark = [q.mark EXCEPT ![m] = 0]
    <3>1. StateFits(r)
      BY <1>2, <2>3, <2>4 DEF StateFits, Told, Alike, Flushing
    <3>2. r.mark \in [Marks -> Nat]
      BY <2>1, <2>4
    <3>3. Flushing(z, r)
      BY <1>2, <2>3, <2>4, <3>1, <3>2 DEF Flushing, Told, Alike
    <3> QED
      BY <3>3 DEF Flushed
  <2>5. CASE /\ r.ret = q.p - 1
             /\ ((r.http_errno = "PAUSED" /\ r.saved = q.saved) \/ r.http_errno = "CB")
    <3>1. r.http_errno = "PAUSED" => StateFits(r)
      BY <1>2, <2>3, <2>5 DEF StateFits, Told, Alike, Flushing
    <3>2. Returned(r) /\ r.data = z.data
      BY <1>2, <2>3, <2>5, <3>1 DEF Returned, Flushing, Told, Alike
    <3> QED
      BY <3>2 DEF Flushed
  <2> QED
    BY <2>3, <2>4, <2>5 DEF Told
<1> QED
  BY <1>1, <1>2

(* One datum at most is marked: no two are read in one state.               *)
LEMMA OneMarkHolds ==
    ASSUME NEW q, MarksFit(q) PROVE OneMark(q)
<1> DEFINE M == {m \in Marks : q.mark[m] # 0}
<1>1. ASSUME NEW m \in M, NEW n \in M PROVE m = n
  <2>1. q.state \in MarkStates[m] /\ q.state \in MarkStates[n] /\ m \in Marks /\ n \in Marks
    BY DEF MarksFit
  <2> QED
    BY <2>1 DEF MarkStates, Marks, AddressStates
<1>2. Cardinality(M) <= 1
  <2>1. CASE M = {}
    BY <2>1, FS_EmptySet
  <2>2. CASE M # {}
    <3>1. PICK m : m \in M
      BY <2>2
    <3>2. M = {m}
      BY <1>1, <3>1
    <3>3. Cardinality({m}) = 1
      BY FS_Singleton
    <3> HIDE DEF M
    <3> QED
      BY <3>2, <3>3
  <2> QED
    BY <2>1, <2>2
<1> QED
  BY <1>2 DEF OneMark

(* The loop runs: all of the piece before p is read, and the byte at p is   *)
(* looked at again or for the first time.                                   *)
Looping(z, q) ==
    /\ Live(q) /\ q.data = z.data /\ Len(q.data) \in Nat /\ q.p \in 1 .. Len(q.data) + 1
    /\ q.again \in BOOLEAN /\ (q.again => q.p \in 1 .. Len(q.data))

(* The end of the piece: the assertion that one datum at most is cut holds, *)
(* and the call returns.                                                    *)
LEMMA OutOfBytesGood ==
    ASSUME NEW z, NEW q, Looping(z, q), NEW r, r = OutOfBytes(q)
    PROVE  Returned(r) /\ r.data = z.data
<1>0. Len(z.data) \in Nat /\ IsCall(q)
  BY DEF Looping, Live, Going
<1>1. PICK a : a = Assert_(q, OneMark(q))
  OBVIOUS
<1>2. OneMark(q)
  BY OneMarkHolds DEF Looping, Live, Going
<1>3. /\ IsCall(a) /\ a.state = q.state /\ a.header_state = q.header_state /\ a.flags = q.flags
      /\ a.content_length = q.content_length /\ a.nread = q.nread /\ a.p = q.p
      /\ a.data = q.data /\ a.asserts = (q.asserts /\ OneMark(q)) /\ a.mark = q.mark
      /\ a.saved = q.saved /\ a.ret = q.ret /\ a.http_errno = q.http_errno
  BY <1>0, <1>1 DEF Assert_, IsCall, CallFields
<1>4. Flushed(z, a)
  <2>0. a.asserts = TRUE
    BY <1>2, <1>3 DEF Looping, Live, Going
  <2>1. StateFits(a) /\ a.p - 1 \in 0 .. Len(a.data)
    BY <1>3 DEF StateFits, Looping, Live, Going
  <2> QED
    BY <1>3, <2>0, <2>1 DEF Flushed, Flushing, Looping, Live, Going, MarksFit
<1>5. PICK b : b = Flush(a, "header_field")
  OBVIOUS
<1>6. PICK c : c = Flush(b, "header_value")
  OBVIOUS
<1>7. PICK d : d = Flush(c, "url")
  OBVIOUS
<1>8. PICK e : e = Flush(d, "body")
  OBVIOUS
<1>9. PICK f : f = Flush(e, "status")
  OBVIOUS
<1>10. {"header_field", "header_value", "url", "body", "status"} \subseteq Marks
  BY DEF Marks
<1>11. Flushed(z, b)
  BY <1>0, <1>4, <1>5, <1>10, FlushKeeps
<1>12. Flushed(z, c)
  BY <1>0, <1>6, <1>10, <1>11, FlushKeeps
<1>13. Flushed(z, d)
  BY <1>0, <1>7, <1>10, <1>12, FlushKeeps
<1>14. Flushed(z, e)
  BY <1>0, <1>8, <1>10, <1>13, FlushKeeps
<1>15. Flushed(z, f)
  BY <1>0, <1>9, <1>10, <1>14, FlushKeeps
<1>16. r = ReturnAll(f)
  BY <1>1, <1>5, <1>6, <1>7, <1>8, <1>9 DEF OutOfBytes
<1>17. CASE ~Flushing(z, f)
  BY <1>0, <1>15, <1>16, <1>17, ReturnedStops DEF Flushed, ReturnAll
<1>18. CASE Flushing(z, f)
  <2>1. r = Return(f, f.p - 1)
    BY <1>16, <1>18 DEF ReturnAll, Flushing, Stopped
  <2>2. /\ IsCall(r) /\ r.state = f.state /\ r.header_state = f.header_state /\ r.flags = f.flags
        /\ r.content_length = f.content_length /\ r.data = f.data /\ r.asserts = f.asserts
        /\ r.saved = f.nread /\ r.ret = f.p - 1 /\ r.http_errno = f.http_errno
    BY <1>18, <2>1 DEF Return, Flushing, IsCall, CallFields
  <2>3. StateFits(r)
    BY <1>18, <2>2 DEF StateFits, Flushing
  <2> QED
    BY <1>18, <2>2, <2>3 DEF Returned, Flushing
<1> QED
  BY <1>17, <1>18

(* The looks at the bytes so far, or more: four for each byte passed, and   *)
(* those that the rank of the state shows for the byte at p.                *)
Effort(q) == 4 * (q.p - 1) + (IF q.again THEN 3 - Rank(q.state) ELSE 0)

(* Before the return the effort is at least k.                              *)
Passed(z, q, k) == (Looping(z, q) /\ Effort(q) >= k) \/ (Returned(q) /\ q.data = z.data)

(* The looks stay below four for each byte of the piece.                    *)
LEMMA EffortBounded ==
    ASSUME NEW z, NEW q, Looping(z, q)
    PROVE  Effort(q) \in Nat /\ Effort(q) <= 4 * Len(z.data)
<1>1. Rank(q.state) \in 0 .. 3
  BY DEF Rank
<1>2. PICK n : n = Len(q.data)
  OBVIOUS
<1>3. n \in Nat /\ q.p \in 1 .. n + 1 /\ (q.again => q.p \in 1 .. n) /\ n = Len(z.data)
  BY <1>2 DEF Looping
<1> QED
  BY <1>1, <1>3 DEF Effort

(* A byte looked at again: the rank has fallen, or p has moved.             *)
LEMMA AgainCosts ==
    ASSUME NEW q, NEW r, q.p \in Nat, r.p \in Nat, r.p >= q.p, q.again \in BOOLEAN, r.again = TRUE,
           Rank(r.state) < Rank(q.state)
    PROVE  Effort(r) >= Effort(q) + 1
<1>1. Rank(q.state) \in 0 .. 3 /\ Rank(r.state) \in 0 .. 3
  BY DEF Rank
<1> QED
  BY <1>1 DEF Effort

(* A byte done with: p moves on.                                            *)
LEMMA NextCosts ==
    ASSUME NEW q, NEW r, q.p \in Nat, r.p \in Nat, r.p >= q.p + 1, q.again \in BOOLEAN,
           r.again = FALSE
    PROVE  Effort(r) >= Effort(q) + 1
<1>1. Rank(q.state) \in 0 .. 3
  BY DEF Rank
<1> QED
  BY <1>1 DEF Effort

(* Each turn adds to the effort, unless the call has returned.              *)
LEMMA TurnPasses ==
    ASSUME NEW z, Len(z.data) \in Nat, NEW k \in Nat, NEW q, Passed(z, q, k), NEW r, r = Turn(q)
    PROVE  Passed(z, r, k + 1)
<1>1. CASE Returned(q) /\ q.data = z.data
  <2>1. Stopped(q)
    BY <1>1, ReturnedStops
  <2> QED
    BY <1>1, <2>1 DEF Turn, Passed
<1>2. CASE Looping(z, q) /\ Effort(q) >= k
  <2>1. ~Stopped(q)
    BY <1>2 DEF Stopped, Looping, Live, Going
  <2>2. CASE q.p > Len(q.data)
    <3>1. r = OutOfBytes(q)
      BY <2>1, <2>2 DEF Turn
    <3> QED
      BY <1>2, <3>1, OutOfBytesGood DEF Passed
  <2>3. CASE ~(q.p > Len(q.data))
    <3>1. PICK a : a = LookAt(q)
      OBVIOUS
    <3>2. Live(q) /\ Inside(q) /\ q.again \in BOOLEAN
      BY <1>2, <2>3 DEF Looping, Inside
    <3>3. Good(q, a)
      BY <3>1, <3>2, LookAtGood
    <3>4. r = IF a.again THEN a ELSE Advance(a)
      BY <2>1, <2>3, <3>1 DEF Turn, GoOn
    <3>5. CASE Returned(a)
      <4>1. Stopped(a) /\ a.data = z.data
        BY <1>2, <3>3, <3>5, ReturnedStops DEF Looping, Good
      <4>2. r = a
        BY <3>4, <4>1 DEF Advance
      <4> QED
        BY <3>5, <4>1, <4>2 DEF Passed
    <3>6. CASE Goes(q, a) /\ a.again
      <4>1. r = a /\ Live(r) /\ r.again = TRUE /\ Rank(r.state) < Rank(q.state)
        BY <3>4, <3>6 DEF Goes
      <4>2. r.data = z.data /\ Len(r.data) \in Nat /\ r.p \in 1 .. Len(r.data) /\ r.p >= q.p
        <5>1. PICK n : n = Len(q.data)
          OBVIOUS
        <5>2. r.data = q.data /\ q.data = z.data
          BY <1>2, <3>3, <4>1 DEF Good, Looping
        <5>3. n \in Nat /\ q.p \in 1 .. n /\ r.p \in q.p .. n
          BY <3>2, <3>3, <4>1, <5>1 DEF Good, Inside
        <5>4. n \in Nat /\ r.p \in 1 .. n /\ r.p >= q.p
          BY <5>3
        <5> QED
          BY <5>1, <5>2, <5>4
      <4>3. Looping(z, r)
        <5>1. PICK n : n = Len(r.data)
          OBVIOUS
        <5>2. n \in Nat /\ r.p \in 1 .. n /\ r.p \in 1 .. n + 1
          BY <4>2, <5>1
        <5> QED
          BY <4>1, <4>2, <5>1, <5>2 DEF Looping
      <4>4. q.p \in Nat /\ r.p \in Nat
        BY <3>2, <4>2 DEF Inside
      <4>5. Effort(r) >= Effort(q) + 1
        BY <3>2, <4>1, <4>2, <4>4, AgainCosts
      <4>6. Effort(r) \in Nat /\ Effort(q) \in Nat
        BY <1>2, <4>3, EffortBounded
      <4>7. Effort(r) >= k + 1
        BY <1>2, <4>5, <4>6
      <4> QED
        BY <4>3, <4>7 DEF Passed
    <3>7. CASE Goes(q, a) /\ ~a.again
      <4>0. Live(a) /\ a.again = FALSE
        BY <3>7 DEF Goes
      <4>1. r = [a EXCEPT !.p = @ + 1]
        BY <3>4, <4>0 DEF Advance, Stopped, Live, Going
      <4>2. /\ IsCall(r) /\ r.state = a.state /\ r.header_state = a.header_state
            /\ r.flags = a.flags /\ r.content_length = a.content_length /\ r.nread = a.nread
            /\ r.p = a.p + 1 /\ r.data = a.data /\ r.asserts = a.asserts /\ r.mark = a.mark
            /\ r.saved = a.saved /\ r.ret = a.ret /\ r.http_errno = a.http_errno
            /\ r.again = a.again
        BY <4>0, <4>1 DEF Live, Going, IsCall, CallFields
      <4>3. StateFits(r) /\ MarksFit(r)
        BY <4>0, <4>2 DEF Live, Going, StateFits, MarksFit
      <4>4. Live(r)
        BY <4>0, <4>2, <4>3 DEF Live, Going
      <4>5. q.p \in Nat /\ r.p \in 1 .. Len(r.data) + 1 /\ r.p >= q.p + 1 /\ r.data = z.data
        BY <1>2, <3>2, <3>3, <4>2 DEF Looping, Inside, Good
      <4>6. Looping(z, r)
        <5>1. PICK n : n = Len(r.data)
          OBVIOUS
        <5>2. n \in Nat /\ r.p \in 1 .. n + 1 /\ Live(r) /\ r.data = z.data /\ r.again = FALSE
          BY <1>2, <4>0, <4>2, <4>4, <4>5, <5>1 DEF Looping
        <5> QED
          BY <5>1, <5>2 DEF Looping
      <4>7. r.p \in Nat
        BY <4>6 DEF Looping
      <4>8. Effort(r) >= Effort(q) + 1
        BY <3>2, <4>0, <4>2, <4>5, <4>7, NextCosts
      <4>9. Effort(r) \in Nat /\ Effort(q) \in Nat
        BY <1>2, <4>6, EffortBounded
      <4>10. Effort(r) >= k + 1
        BY <1>2, <4>8, <4>9
      <4> QED
        BY <4>6, <4>10 DEF Passed
    <3> QED
      BY <3>3, <3>5, <3>6, <3>7 DEF Good
  <2> QED
    BY <2>2, <2>3
<1> QED
  BY <1>1, <1>2 DEF Passed

(* The loop over the bytes of a piece is long enough: the call returns.     *)
LEMMA WalkReturns ==
    ASSUME NEW q, Looping(q, q), q.p = 1, NEW r, r = Walk(q)
    PROVE  Returned(r) /\ r.data = q.data
<1>0. Len(q.data) \in Nat
  BY DEF Looping
<1>1. ASSUME NEW k \in Nat, NEW s, Passed(q, s, k) PROVE Passed(q, TurnRow(s), k + Row)
  <2> DEFINE g == Iterate("bytes", s)
             S == {n \in Nat : Passed(q, g[n], k + n)}
  <2>0. \A t : OneTurn("bytes", t) = Turn(t)
    BY DEF OneTurn
  <2>1. g[0] = s /\ \A n \in Nat : g[n + 1] = Turn(g[n])
    BY <2>0, Iterates
  <2> HIDE DEF g
  <2>2. 0 \in S
    BY <1>1, <2>1
  <2>3. ASSUME NEW n \in Nat, n \in S PROVE n + 1 \in S
    <3>1. k + n \in Nat /\ (k + n) + 1 = k + (n + 1) /\ Passed(q, g[n], k + n)
      BY <2>3
    <3>2. Passed(q, g[n + 1], (k + n) + 1)
      BY <1>0, <2>1, <3>1, TurnPasses
    <3> QED
      BY <3>1, <3>2
  <2>4. \A n \in Nat : n \in S
    <3> HIDE DEF S
    <3> QED
      BY <2>2, <2>3, NatSetInduction
  <2>5. Passed(q, g[Row], k + Row)
    BY <2>4 DEF Row
  <2>6. CASE Stopped(s)
    <3>1. TurnRow(s) = s /\ Returned(s)
      BY <1>1, <2>6, TurnLoop DEF Passed, Looping, Live, Going, Stopped
    <3> QED
      BY <1>1, <3>1 DEF Passed, Looping, Live, Going, Stopped
  <2>7. CASE ~Stopped(s)
    BY <2>5, <2>7, TurnLoop DEF g
  <2> QED
    BY <2>6, <2>7
<1> DEFINE g == Iterate("byteRows", q)
           S == {n \in Nat : Passed(q, g[n], n * Row)}
<1>2. \A s : OneTurn("byteRows", s) = TurnRow(s)
  BY DEF OneTurn
<1>3. g[0] = q /\ \A n \in Nat : g[n + 1] = TurnRow(g[n])
  BY <1>2, Iterates
<1> HIDE DEF g
<1>4. 0 \in S
  <2>1. Effort(q) >= 0
    BY EffortBounded
  <2>2. 0 * Row = 0
    BY DEF Row
  <2> QED
    BY <1>3, <2>1, <2>2 DEF Passed
<1>5. ASSUME NEW n \in Nat, n \in S PROVE n + 1 \in S
  <2>1. n * Row \in Nat /\ n * Row + Row = (n + 1) * Row /\ Passed(q, g[n], n * Row)
    BY <1>5 DEF Row
  <2>2. Passed(q, g[n + 1], n * Row + Row)
    BY <1>1, <1>3, <2>1
  <2> QED
    BY <2>1, <2>2
<1>6. \A n \in Nat : n \in S
  <2> HIDE DEF S
  <2> QED
    BY <1>4, <1>5, NatSetInduction
<1>7. PICK n : n = (4 * Len(q.data)) \div Row + 1
  OBVIOUS
<1>8. n \in Nat /\ n * Row \in Nat /\ n * Row >= 4 * Len(q.data) + 1
  <2>0. ASSUME NEW x \in Nat PROVE x \div 16 \in Nat /\ (x \div 16) * 16 + 16 >= x + 1
    OBVIOUS
  <2>1. PICK l \in Nat : l = 4 * Len(q.data)
    BY <1>0
  <2>2. PICK d : d = l \div 16
    OBVIOUS
  <2>3. l \in Nat /\ d \in Nat /\ d * 16 + 16 >= l + 1
    BY <2>0, <2>2
  <2>4. n = d + 1
    BY <1>7, <2>1, <2>2 DEF Row
  <2> QED
    BY <2>1, <2>3, <2>4 DEF Row
<1>9. Passed(q, g[n], n * Row)
  BY <1>6, <1>8
<1>10. r = g[n]
  BY <1>7, TurnLoop DEF Walk, g
<1>11. ~(Looping(q, r) /\ Effort(r) >= n * Row)
  BY <1>0, <1>8, EffortBounded
<1> QED
  BY <1>9, <1>10, <1>11 DEF Passed

(***************************************************************************)
(* A call, and the calls of a connection.                                  *)
(***************************************************************************)
(* A call without bytes.                                                    *)
LEMMA AtEofReturns ==
    ASSUME NEW q, IsCall(q), q.asserts = TRUE, q.http_errno = "OK", StateFits(q),
           NEW r, r = AtEof(q)
    PROVE  /\ IsCall(r) /\ r.asserts = TRUE /\ r.ret \in {0, 1}
           /\ r.http_errno \in {"OK", "PAUSED"} => StateFits(r)
<1>1. CASE q.state = "s_body_identity_eof"
  <2>1. PICK n : n = Notify(q, "message_complete", 0)
    OBVIOUS
  <2>2. Asked(q, n, 0)
    BY <2>1, NotifyAsked
  <2>3. r = [n EXCEPT !.ret = 0]
    BY <1>1, <2>1 DEF AtEof, StartStates
  <2>4. /\ IsCall(r) /\ r.asserts = TRUE /\ r.ret = 0 /\ r.state = q.state
        /\ r.content_length = q.content_length
    BY <2>2, <2>3 DEF Asked, Alike, IsCall, CallFields
  <2>5. StateFits(r)
    BY <1>1, <2>4 DEF StateFits, ChunkStates
  <2> QED
    BY <2>4, <2>5
<1>2. CASE q.state \in StartStates \cup {"s_dead"}
  <2>1. r = [q EXCEPT !.ret = 0]
    BY <1>2 DEF AtEof, StartStates
  <2> QED
    BY <2>1 DEF StateFits, IsCall, CallFields
<1>3. CASE q.state \notin StartStates \cup {"s_dead", "s_body_identity_eof"}
  <2>1. r = [q EXCEPT !.http_errno = "INVALID_EOF_STATE", !.saved = q.nread, !.ret = 1]
    BY <1>3 DEF AtEof
  <2> QED
    BY <2>1 DEF IsCall, CallFields
<1> QED
  BY <1>1, <1>2, <1>3

(* A datum cut by the end of the last piece is marked again in the state    *)
(* that reads it.                                                           *)
LEMMA EntryMarks ==
    ASSUME NEW s PROVE EntryMark(s) \in Marks => s \in MarkStates[EntryMark(s)]
<1>1. CASE s = "s_header_field"
  BY <1>1, Apart DEF EntryMark, MarkStates, Marks, AddressStates
<1>2. CASE s = "s_header_value"
  BY <1>2, Apart DEF EntryMark, MarkStates, Marks, AddressStates
<1>3. CASE s \in AddressStates
  BY <1>3, Apart DEF EntryMark, MarkStates, Marks, AddressStates
<1>4. CASE s = "s_res_status"
  BY <1>4, Apart DEF EntryMark, MarkStates, Marks, AddressStates
<1>5. CASE s \notin AddressStates \cup {"s_header_field", "s_header_value", "s_res_status"}
  BY <1>5, Apart DEF EntryMark, Marks
<1> QED
  BY <1>1, <1>2, <1>3, <1>4, <1>5

(* The first byte of a piece is at its place 1.                             *)
LEMMA OneFirst ==
    ASSUME NEW n \in Nat PROVE 1 \in 1 .. n + 1
OBVIOUS

(* A call from any state the parser may be in: no assertion fails, no more  *)
(* bytes are taken than given, and the parser may be called again unless it *)
(* has failed.                                                              *)
LEMMA ExecuteReturns ==
    ASSUME NEW q, IsCall(q), q.http_errno = "OK", StateFits(q), NEW data,
           data # "" => Len(data) \in Nat, NEW r, r = http_parser_execute(q, data)
    PROVE  /\ IsCall(r) /\ r.asserts = TRUE
           /\ r.http_errno \in {"OK", "PAUSED"} => StateFits(r)
           /\ data = "" => r.ret \in {0, 1}
           /\ data # "" => r.ret \in 0 .. Len(data)
<1>1. PICK m : m = EntryMark(q.state)
  OBVIOUS
<1>2. PICK e : e = [q EXCEPT !.data = data, !.p = 1, !.ret = -1, !.again = FALSE,
                             !.nread = q.saved, !.asserts = TRUE, !.events = <<>>,
                             !.mark = [x \in Marks |-> IF x = m THEN 1 ELSE 0]]
  OBVIOUS
<1>3. r = Execute(e)
  BY <1>1, <1>2 DEF http_parser_execute
<1>4. /\ IsCall(e) /\ e.data = data /\ e.p = 1 /\ e.ret = -1 /\ e.again = FALSE
      /\ e.nread = q.saved /\ e.asserts = TRUE /\ e.http_errno = "OK" /\ e.state = q.state
      /\ e.header_state = q.header_state /\ e.flags = q.flags /\ e.saved = q.saved
      /\ e.content_length = q.content_length
      /\ e.mark = [x \in Marks |-> IF x = m THEN 1 ELSE 0]
  BY <1>2 DEF IsCall, CallFields
<1>5. StateFits(e)
  BY <1>4 DEF StateFits
<1>6. CASE data = ""
  <2>1. r = AtEof(e)
    BY <1>3, <1>4, <1>6 DEF Execute
  <2>2. /\ IsCall(r) /\ r.asserts = TRUE /\ r.ret \in {0, 1}
        /\ r.http_errno \in {"OK", "PAUSED"} => StateFits(r)
    BY <1>4, <1>5, <2>1, AtEofReturns
  <2> QED
    BY <1>6, <2>2
<1>7. CASE data # ""
  <2>1. r = Walk(e)
    BY <1>3, <1>4, <1>7 DEF Execute
  <2>2. MarksFit(e)
    <3>1. m \in Marks => q.state \in MarkStates[m]
      BY <1>1, EntryMarks
    <3>2. e.mark \in [Marks -> Nat]
      <4>1. \A x \in Marks : (IF x = m THEN 1 ELSE 0) \in Nat
        OBVIOUS
      <4>2. PICK k : k = e.mark
        OBVIOUS
      <4>3. k = [x \in Marks |-> IF x = m THEN 1 ELSE 0]
        BY <1>4, <4>2
      <4>4. k \in [Marks -> Nat]
        BY <4>1, <4>3
      <4> QED
        BY <4>2, <4>4
    <3>3. ASSUME NEW x \in Marks, e.mark[x] # 0 PROVE e.state \in MarkStates[x]
      <4>1. x = m
        BY <1>4, <3>3
      <4> QED
        BY <1>4, <3>1, <3>3, <4>1
    <3>4. ASSUME NEW x \in Marks PROVE e.mark[x] \in {0, 1}
      BY <1>4, <3>4
    <3> QED
      BY <3>2, <3>3, <3>4 DEF MarksFit
  <2>3. Live(e)
    BY <1>4, <1>5, <2>2 DEF Live, Going, StateFits
  <2>4. Looping(e, e)
    <3>1. PICK n : n = Len(data)
      OBVIOUS
    <3>2. n \in Nat
      BY <1>7, <3>1
    <3>3. 1 \in 1 .. n + 1
      BY <3>2, OneFirst
    <3> QED
      BY <1>4, <1>7, <2>3, <3>1, <3>2, <3>3 DEF Looping
  <2>5. Returned(r) /\ r.data = data
    BY <1>4, <2>1, <2>4, WalkReturns
  <2> QED
    BY <1>7, <2>5 DEF Returned
<1> QED
  BY <1>6, <1>7

(***************************************************************************)
(* The invariant.  The parser keeps the fields of its record; unless it    *)
(* has failed its state fits them, which the next call starts from.        *)
(***************************************************************************)
ParserFits == /\ stream \in Streams
              /\ IsCall(parser)
              /\ parser.http_errno \in {"OK", "PAUSED"} => StateFits(parser)
FedInStream == fed \in 0 .. Len(stream.data)
ParserInv == ParserFits /\ FedInStream /\ asserts = TRUE

(* A new parser.                                                            *)
LEMMA ParserInitInv == ParserInit => ParserInv
<1> SUFFICES ASSUME ParserInit PROVE ParserInv
  OBVIOUS
<1>1. PICK user \in stream.users : parser = http_parser_init(stream.type, user, stream.lenient)
  BY DEF ParserInit
<1>2. /\ IsCall(parser) /\ parser.state \in StartStates /\ parser.content_length = 0
      /\ parser.header_state = "h_general"
  BY <1>1 DEF http_parser_init, IsCall, CallFields, StartStates
<1>3. StateFits(parser)
  BY <1>2, ParserAssumption DEF StateFits, StartStates, States, PlainStates, ChunkStates
<1>4. stream \in Streams /\ fed = 0 /\ asserts = TRUE
  BY DEF ParserInit
<1>5. FedInStream
  BY <1>4, ParserAssumption DEF FedInStream
<1> QED
  BY <1>2, <1>3, <1>4, <1>5 DEF ParserInv, ParserFits

(* What a call leaves in the parser is what the next one needs.             *)
LEMMA KeptFits ==
    ASSUME NEW r, IsCall(r)
    PROVE  /\ IsCall(Kept(r)) /\ Kept(r).http_errno = r.http_errno
           /\ StateFits(r) => StateFits(Kept(r))
<1>1. PICK k : k = Kept(r)
  OBVIOUS
<1>2. /\ IsCall(k) /\ k.state = r.state /\ k.header_state = r.header_state /\ k.flags = r.flags
      /\ k.content_length = r.content_length /\ k.saved = r.saved /\ k.http_errno = r.http_errno
  BY <1>1 DEF Kept, IsCall, CallFields
<1>3. StateFits(r) => StateFits(k)
  BY <1>2 DEF StateFits
<1> QED
  BY <1>1, <1>2, <1>3

(* A piece of the stream.                                                   *)
LEMMA FeedInv == ParserInv /\ Feed => ParserInv'
<1> SUFFICES ASSUME ParserInv, Feed PROVE ParserInv'
  OBVIOUS
<1>1. /\ stream \in Streams /\ stream' = stream /\ IsCall(parser) /\ parser.http_errno = "OK"
      /\ StateFits(parser) /\ fed \in 0 .. Len(stream.data) /\ asserts = TRUE
      /\ Len(stream.data) \in Nat /\ Len(stream.data) - fed > 0
  BY ParserAssumption DEF ParserInv, ParserFits, FedInStream, Feed, Running, Left
<1>2. PICK n \in PieceLengths(Left) :
        Called(http_parser_execute(parser, SubSeq(stream.data, fed + 1, fed + n)))
  BY DEF Feed
<1>3. n \in Nat /\ n >= 1 /\ fed + n <= Len(stream.data)
  BY <1>1, <1>2, ParserAssumption DEF Left, PieceLengths
<1>4. PICK data : data = SubSeq(stream.data, fed + 1, fed + n)
  OBVIOUS
<1>5. Len(data) = n
  <2>1. fed \in 0 .. Len(stream.data) - 1 /\ n \in PieceLengths(Len(stream.data) - fed)
    BY <1>1, <1>2 DEF Left
  <2> QED
    BY <1>1, <1>4, <2>1, ParserAssumption
<1>6. PICK r : r = http_parser_execute(parser, data)
  OBVIOUS
<1>7. /\ IsCall(r) /\ r.asserts = TRUE
      /\ r.http_errno \in {"OK", "PAUSED"} => StateFits(r)
      /\ data = "" => r.ret \in {0, 1}
      /\ data # "" => r.ret \in 0 .. Len(data)
  BY <1>1, <1>3, <1>5, <1>6, ExecuteReturns
<1>8. r.ret \in 0 .. n
  <2>1. CASE data = ""
    <3>1. r.ret \in {0, 1}
      BY <1>7, <2>1
    <3> QED
      BY <1>3, <3>1
  <2>2. CASE data # ""
    BY <1>5, <1>7, <2>2
  <2> QED
    BY <2>1, <2>2
<1>9. parser' = Kept(r) /\ asserts' = (asserts /\ r.asserts) /\ fed' = fed + r.ret
  BY <1>2, <1>4, <1>6 DEF Called
<1>10. IsCall(parser') /\ (parser'.http_errno \in {"OK", "PAUSED"} => StateFits(parser'))
  BY <1>7, <1>9, KeptFits
<1>11. asserts' = TRUE
  BY <1>1, <1>7, <1>9
<1>12. FedInStream'
  BY <1>1, <1>3, <1>8, <1>9 DEF FedInStream
<1>13. ParserFits'
  BY <1>1, <1>10 DEF ParserFits, StateFits, IsCall
<1> QED
  BY <1>11, <1>12, <1>13 DEF ParserInv

(* The end of the stream.                                                   *)
LEMMA CloseInv == ParserInv /\ Close => ParserInv'
<1> SUFFICES ASSUME ParserInv, Close PROVE ParserInv'
  OBVIOUS
<1>1. /\ stream \in Streams /\ stream' = stream /\ IsCall(parser) /\ parser.http_errno = "OK"
      /\ StateFits(parser) /\ fed \in 0 .. Len(stream.data) /\ asserts = TRUE
      /\ Len(stream.data) \in Nat
  BY ParserAssumption DEF ParserInv, ParserFits, FedInStream, Close, Running
<1>2. PICK e : e = http_parser_execute(parser, "")
  OBVIOUS
<1>3. IsCall(e) /\ e.asserts = TRUE /\ (e.http_errno \in {"OK", "PAUSED"} => StateFits(e))
  BY <1>1, <1>2, ExecuteReturns
<1>4. PICK r : r = [e EXCEPT !.ret = 0]
  OBVIOUS
<1>5. /\ IsCall(r) /\ r.asserts = TRUE /\ r.ret = 0 /\ r.http_errno = e.http_errno
      /\ StateFits(e) => StateFits(r)
  BY <1>3, <1>4 DEF StateFits, IsCall, CallFields
<1>6. parser' = Kept(r) /\ asserts' = (asserts /\ r.asserts) /\ fed' = fed + r.ret
  BY <1>2, <1>4 DEF Close, Called
<1>7. IsCall(parser') /\ (parser'.http_errno \in {"OK", "PAUSED"} => StateFits(parser'))
  BY <1>3, <1>5, <1>6, KeptFits
<1>8. asserts' = TRUE
  BY <1>1, <1>5, <1>6
<1>9. FedInStream'
  BY <1>1, <1>5, <1>6 DEF FedInStream
<1>10. ParserFits'
  BY <1>1, <1>7 DEF ParserFits, StateFits, IsCall
<1> QED
  BY <1>8, <1>9, <1>10 DEF ParserInv

(* A paused parser goes on.                                                 *)
LEMMA ResumeInv == ParserInv /\ Resume => ParserInv'
<1> SUFFICES ASSUME ParserInv, Resume PROVE ParserInv'
  OBVIOUS
<1>1. /\ stream \in Streams /\ stream' = stream /\ IsCall(parser) /\ StateFits(parser)
      /\ fed' = fed /\ asserts' = asserts /\ asserts = TRUE /\ FedInStream
      /\ parser' = [parser EXCEPT !.http_errno = "OK"]
  BY DEF ParserInv, ParserFits, Resume, http_parser_pause
<1>2. /\ IsCall(parser') /\ parser'.state = parser.state /\ parser'.saved = parser.saved
      /\ parser'.header_state = parser.header_state /\ parser'.flags = parser.flags
      /\ parser'.content_length = parser.content_length
  BY <1>1 DEF IsCall, CallFields
<1>3. StateFits(parser')
  BY <1>1, <1>2 DEF StateFits
<1>4. ParserFits'
  BY <1>1, <1>2, <1>3 DEF ParserFits, StateFits, IsCall
<1> QED
  BY <1>1, <1>4 DEF ParserInv, FedInStream

(* The invariant is inductive: every call finds the parser in a state that  *)
(* fits its fields and leaves it so.                                        *)
LEMMA ParserInvariant == ParserSpec => []ParserInv
<1>1. ParserInv /\ [ParserNext]_parserVars => ParserInv'
  <2>1. ParserInv /\ UNCHANGED parserVars => ParserInv'
    BY DEF ParserInv, ParserFits, FedInStream, parserVars, StateFits, IsCall
  <2> QED
    BY <2>1, FeedInv, CloseInv, ResumeInv DEF ParserNext
<1> QED
  BY <1>1, ParserInitInv, PTL DEF ParserSpec

(* The assertions of http_parser.c hold whatever is sent, however it is cut *)
(* into pieces and whatever the callbacks answer: one datum at most is      *)
(* marked at the end of a piece, the size of a chunk starts on a fresh      *)
(* count, in a chunk's states the message is chunked, and a body expects    *)
(* bytes and fewer than ULLONG_MAX.                                         *)
THEOREM ParserAsserts == ParserSpec => []AssertsHold
<1>1. ParserInv => AssertsHold
  BY DEF ParserInv, AssertsHold
<1> QED
  BY <1>1, ParserInvariant, PTL

(* http_parser_execute returns, and never says that it has taken more bytes *)
(* than it was given: what it has taken of a stream is a first part of it.  *)
THEOREM ParserConsumes == ParserSpec => []FedInStream
<1>1. ParserInv => FedInStream
  BY DEF ParserInv
<1> QED
  BY <1>1, ParserInvariant, PTL
=============================================================================
