--------------------------- MODULE RequestParser ---------------------------
(***************************************************************************)
(* rtsp::request_parser as functions: the automaton over the characters of *)
(* a request's head, and what parse does to the request with a character   *)
(* of the head and with a piece of the body.  The loops around them are    *)
(* actions of RtspInput.  A character is its class, as far as the          *)
(* automaton tells characters apart.                                       *)
(***************************************************************************)
EXTENDS Naturals, Sequences

Digit == {"1", "2"}

\* is_char, neither is_ctl nor is_tspecial; "L" is the name Content-Length,
\* "dollar" opens an RTCP packet inside the connection.
Token == {"word", "L", "dollar", "R", "T", "S", "P", "H", "dot"} \cup Digit
Visible == Token \cup {"sp", "colon", "slash"}
Char == Visible \cup {"cr", "lf", "ctl"}

\* enum state
States ==
  {"method_start", "method", "uri", "http_version_h", "http_version_t_1", "http_version_t_2",
   "http_version_p", "rtsp_version_t", "rtsp_version_s", "rtsp_version_p", "version_slash",
   "version_major_start", "version_major", "version_minor_start", "version_minor",
   "expecting_newline_1", "header_line_start", "header_line_next", "header_lws", "header_name",
   "space_before_header_value", "header_value", "expecting_newline_2", "expecting_newline_3",
   "done"}

Letters(from, chars, to) == {<<from, ch, to>> : ch \in chars}

\* Between two parts of the head (header_line_next is header_line_start when there
\* is a header already, "done" the end of the head)
Separators ==
  { <<"method", "sp", "uri">>, <<"uri", "sp", "http_version_h">>,
    <<"http_version_h", "H", "http_version_t_1">>, <<"http_version_h", "R", "rtsp_version_t">>,
    <<"http_version_t_1", "T", "http_version_t_2">>, <<"http_version_t_2", "T", "http_version_p">>,
    <<"http_version_p", "P", "version_slash">>,
    <<"rtsp_version_t", "T", "rtsp_version_s">>, <<"rtsp_version_s", "S", "rtsp_version_p">>,
    <<"rtsp_version_p", "P", "version_slash">>, <<"version_slash", "slash", "version_major_start">>,
    <<"version_major", "dot", "version_minor_start">>, <<"version_minor", "cr", "expecting_newline_1">>,
    <<"expecting_newline_1", "lf", "header_line_start">>,
    <<"header_line_start", "cr", "expecting_newline_3">>,
    <<"header_line_next", "cr", "expecting_newline_3">>, <<"header_line_next", "sp", "header_lws">>,
    <<"header_lws", "cr", "expecting_newline_2">>, <<"header_lws", "sp", "header_lws">>,
    <<"header_name", "colon", "space_before_header_value">>,
    <<"space_before_header_value", "sp", "header_value">>,
    <<"header_value", "cr", "expecting_newline_2">>,
    <<"expecting_newline_2", "lf", "header_line_next">>,
    <<"expecting_newline_3", "lf", "done">> }

\* consume: from a state, with a character, to a state; what is not listed is an
\* error.
Consumes ==
  Letters("method_start", Token, "method")
  \cup Letters("method", Token, "method")
  \cup Letters("uri", Visible \ {"sp"}, "uri")
  \cup Letters("version_major_start", Digit, "version_major")
  \cup Letters("version_major", Digit, "version_major")
  \cup Letters("version_minor_start", Digit, "version_minor")
  \cup Letters("version_minor", Digit, "version_minor")
  \cup Letters("header_line_start", Token, "header_name")
  \cup Letters("header_line_next", Token, "header_name")
  \cup Letters("header_lws", Visible \ {"sp"}, "header_value")
  \cup Letters("header_name", Token, "header_name")
  \cup Letters("header_value", Visible, "header_value")
  \cup Separators

NextStates(state, ch) == {e[3] : e \in {c \in Consumes : c[1] = state /\ c[2] = ch}}

-----------------------------------------------------------------------------
(* The parser and the request it fills in.  Of the headers Content-Length    *)
(* matters; of its value the last digit.                                     *)

\* handle_reset
NewRequest == [state |-> "method_start", method |-> <<>>, named |-> FALSE, counted |-> FALSE,
               need |-> 0, head |-> FALSE, data |-> <<>>]

Numeral(ch) == IF ch = "1" THEN 1 ELSE 2

\* A character that consume takes in the state it is in; it changes to
Takes(q, ch) == NextStates(q.state, ch) # {}
Consume(q, ch) == CHOOSE s \in NextStates(q.state, ch) : TRUE

\* and fills in the request; behind the last one the body follows.
TakeHead(q, ch) ==
  LET to == Consume(q, ch) IN
  [q EXCEPT !.state = to,
            !.method = IF to = "method" THEN Append(@, ch) ELSE @,
            !.named = CASE to = "header_name" -> q.state # "header_name" /\ ch = "L"
                        [] to = "header_line_next" -> FALSE
                        [] OTHER -> @,
            !.counted = @ \/ (q.named /\ to = "header_line_next"),
            !.need = IF q.named /\ ~q.counted /\ to = "header_value" /\ ch \in Digit
                       THEN Numeral(ch) ELSE @,
            !.head = to = "done"]

\* need_data_len
Missing(q) == q.need - Len(q.data)

\* Mutant: the chunk is copied to its end.
BodyTakesAll(q, chunk) == [q EXCEPT !.data = @ \o chunk]

\* memcpy of the body, up to content_len
TakeBody(q, chunk) ==
  [q EXCEPT !.data = @ \o IF Len(chunk) >= Missing(q) THEN SubSeq(chunk, 1, Missing(q)) ELSE chunk]
=============================================================================
