--------------------------- MODULE ResponseMachine ---------------------------
(***************************************************************************)
(* The state machine ragel generated from httpclient_parser.rl: a status   *)
(* line with headers, or the header of a chunk.  Three headers are read    *)
(* for themselves and, at the same time, as any header is, so a state of   *)
(* the machine is a set of threads, each a name and a count (the bytes of  *)
(* a word that matched).  A line end inside the spaces before the value of *)
(* one of the three may end the header or be one of the spaces: both       *)
(* threads go on, and the machine may be done and not done.                *)
(***************************************************************************)
EXTENDS RequestMachine

Space == {" ", "\t", "VT", "\n", "\r"}
TokenChar == Token \ Control

(* A word the machine compares without regard to case. *)
Word == [Connection |-> <<"c", "o", "n", "n", "e", "c", "t", "i", "o", "n">>,
         Length |-> <<"c", "o", "n", "t", "e", "n", "t", "-", "l", "e", "n", "g", "t", "h">>,
         Encoding |-> <<"t", "r", "a", "n", "s", "f", "e", "r", "-",
                        "e", "n", "c", "o", "d", "i", "n", "g">>,
         close |-> <<"c", "l", "o", "s", "e">>,
         chunked |-> <<"c", "h", "u", "n", "k", "e", "d">>]

Small == <<"a", "b", "c", "d", "e", "f", "g", "h", "i", "j", "k", "l", "m",
           "n", "o", "p", "q", "r", "s", "t", "u", "v", "w", "x", "y", "z">>
Capital == <<"A", "B", "C", "D", "E", "F", "G", "H", "I", "J", "K", "L", "M",
             "N", "O", "P", "Q", "R", "S", "T", "U", "V", "W", "X", "Y", "Z">>
Folded(c) == {c} \cup {Capital[i] : i \in {i \in 1..26 : Small[i] = c}}

Matching(w) == {<<w, n, Folded(Word[w][n + 1]), w, n + 1>> : n \in 1..(Len(Word[w]) - 1)}

-----------------------------------------------------------------------------
(* The moves of a thread.                                                  *)

SizeMoves ==
    {<<"start", 0, XDigit, "size", 0>>, <<"size", 0, XDigit, "size", 0>>,
     <<"size", 0, {";"}, "ext", 0>>, <<"size", 0, {"\r"}, "end_cr", 0>>,
     <<"size", 0, {"\n"}, "done", 0>>, <<"end_cr", 0, {"\n"}, "done", 0>>}

ExtensionMoves ==
    {<<"ext", 0, TokenChar, "ext_name", 0>>, <<"ext_name", 0, TokenChar, "ext_name", 0>>,
     <<"ext_name", 0, {"="}, "ext_value0", 0>>}
    \cup {<<a, 0, TokenChar, "ext_value", 0>> : a \in {"ext_value0", "ext_value"}}
    \cup {<<a, 0, m[1], m[2], 0>> :
            a \in {"ext_name", "ext_value"},
            m \in {<<{";"}, "ext">>, <<{"\r"}, "end_cr">>, <<{"\n"}, "done">>}}

VersionOfReply ==
    {<<"start", 0, {"H"}, "http", 1>>, <<"http", 1, {"T"}, "http", 2>>,
     <<"http", 2, {"T"}, "http", 3>>, <<"http", 3, {"P"}, "http", 4>>,
     <<"http", 4, {"/"}, "http", 5>>, <<"http", 5, Digit, "major", 0>>,
     <<"major", 0, Digit, "major", 0>>, <<"major", 0, {"."}, "minor", 0>>,
     <<"minor", 0, Digit, "minor", 1>>, <<"minor", 1, Digit, "minor", 1>>,
     <<"minor", 1, {" "}, "status", 0>>}

StatusMoves ==
    {<<"status", 0, Digit, "status", 1>>, <<"status", 1, Digit, "status", 1>>,
     <<"status", 1, {" "}, "reason", 0>>, <<"reason", 0, Byte \ {"\n"}, "reason", 1>>,
     <<"reason", 1, Byte \ {"\n", "\r"}, "reason", 1>>,
     <<"reason", 1, {"\n"}, "line", 0>>, <<"reason", 1, {"\r"}, "cr", 0>>}

(* `closed' is the line after "Connection: close". *)
LineMoves ==
    {<<"cr", 0, {"\n"}, "line", 0>>}
    \cup {<<a, 0, TokenChar, "name", 0>> : a \in {"line", "closed"}}
    \cup {<<a, 0, {"\r"}, "end_cr", 0>> : a \in {"line", "closed"}}
    \cup {<<a, 0, {"\n"}, "done", 0>> : a \in {"line", "closed"}}
    \cup {<<a, 0, Folded(Word[w][1]), w, 1>> :
            a \in {"line", "closed"}, w \in {"Connection", "Length", "Encoding"}}

FieldMoves ==
    {<<"name", 0, TokenChar, "name", 0>>, <<"name", 0, {":"}, "colon", 0>>,
     <<"colon", 0, Space \ {"\n", "\r"}, "colon", 0>>,
     <<"colon", 0, Byte \ Space, "value", 0>>,
     <<"value", 0, Byte \ {"\n", "\r"}, "value", 0>>}
    \cup {<<a, 0, {"\n"}, "line", 0>> : a \in {"colon", "value"}}
    \cup {<<a, 0, {"\r"}, "cr", 0>> : a \in {"colon", "value"}}

ConnectionMoves == Matching("Connection") \cup {<<"Connection", 10, {":"}, "close", 0>>}

CloseMoves ==
    Matching("close")
    \cup {<<"close", 0, Space, "close", 0>>, <<"close", 0, Folded("c"), "close", 1>>,
          <<"close", 5, {"\n"}, "closed", 0>>, <<"close", 5, {"\r"}, "close", 6>>,
          <<"close", 6, {"\n"}, "closed", 0>>}

EncodingMoves == Matching("Encoding") \cup {<<"Encoding", 17, {":"}, "chunked", 0>>}

ChunkedMoves ==
    Matching("chunked")
    \cup {<<"chunked", 0, Space, "chunked", 0>>, <<"chunked", 0, Folded("c"), "chunked", 1>>,
          <<"chunked", 7, {"\n"}, "line", 0>>, <<"chunked", 7, {"\r"}, "chunked", 8>>,
          <<"chunked", 8, {"\n"}, "line", 0>>}

LengthMoves == Matching("Length") \cup {<<"Length", 14, {":"}, "digits", 0>>}

DigitsMoves ==
    {<<"digits", 0, Space, "digits", 0>>, <<"digits", 0, Digit, "digits", 1>>,
     <<"digits", 1, Digit, "digits", 1>>, <<"digits", 1, {"\n"}, "line", 0>>,
     <<"digits", 1, {"\r"}, "cr", 0>>}

-----------------------------------------------------------------------------
ResponseStart == {<<"start", 0>>}

Threads == SizeMoves \cup ExtensionMoves \cup VersionOfReply \cup StatusMoves \cup LineMoves
           \cup FieldMoves \cup ConnectionMoves \cup CloseMoves \cup EncodingMoves
           \cup ChunkedMoves \cup LengthMoves \cup DigitsMoves

Taken(s, c) == {m \in Threads : <<m[1], m[2]>> \in s /\ c \in m[3]}

ResponseStep(s, c) == {<<m[4], m[5]>> : m \in Taken(s, c)}

(* No thread is left; is_finished compares with one final state, the one   *)
(* in which no other thread is.                                            *)
ResponseFailed(s) == s = {}
ResponseFinal(s) == s = {<<"done", 0>>}

(* What is due in a step that takes these moves.                           *)
Due(taken, a) ==
    LET leaves(from, to) ==
            \E m \in taken : <<m[1], m[2]>> \in from /\ (m[4] \in to \/ to = {})
        name == {<<"ext_name", 0>>}
        lined == {"line", "cr"}
        ended == {"ext", "end_cr", "done"}
    IN  CASE a = "mark" ->
               \/ leaves({<<"start", 0>>, <<"status", 0>>, <<"reason", 0>>, <<"colon", 0>>,
                          <<"ext_value0", 0>>}, {})
               \/ leaves(name, {"ext_value0"} \cup ended)
               \/ \E m \in taken : m[1] \in {"chunked", "digits"} /\ m[2] = 0 /\ m[5] = 1
          [] a = "start_field" -> \/ leaves({<<"line", 0>>, <<"closed", 0>>}, {"name"})
                                  \/ leaves({<<"ext", 0>>}, {})
          [] a = "write_field" -> \/ leaves({<<"name", 0>>}, {"colon"})
                                  \/ leaves(name, {"ext_value0"} \cup ended)
          [] a = "close" -> leaves({<<"closed", 0>>}, {})
          [] a = "version" -> leaves({<<"minor", 1>>}, {"status"})
          [] a = "status" -> leaves({<<"status", 1>>}, {"reason"})
          [] a = "reason" -> leaves({<<"reason", 1>>}, lined)
          [] a = "chunk" -> leaves({<<"size", 0>>}, ended)
          [] a = "content_len" -> leaves({<<"digits", 1>>}, lined)
          [] a = "field" -> \/ leaves({<<"colon", 0>>, <<"value", 0>>, <<"digits", 1>>}, lined)
                            \/ leaves({<<"chunked", 7>>}, {"line", "chunked"})
                            \/ leaves(name \cup {<<"ext_value", 0>>}, ended)
          [] a = "chunked" -> leaves({<<"chunked", 7>>, <<"chunked", 8>>}, {"line"})
          [] a = "done" -> leaves({<<"line", 0>>, <<"closed", 0>>, <<"end_cr", 0>>, <<"size", 0>>,
                                   <<"ext_name", 0>>, <<"ext_value", 0>>}, {"done"})

(* What such a step does, in order. *)
MoveActs(taken) ==
    LET act(a) == Act(Due(taken, a), a)
    IN  act("mark") \o act("start_field") \o act("write_field") \o act("close")
        \o act("version") \o act("status") \o act("reason") \o act("chunk")
        \o act("content_len") \o act("field") \o act("chunked") \o act("done")

ResponseActs(s, c) == MoveActs(Taken(s, c))
=============================================================================
