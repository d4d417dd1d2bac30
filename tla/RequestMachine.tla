--------------------------- MODULE RequestMachine ---------------------------
(***************************************************************************)
(* The state machine ragel generated from http11_parser.rl: which byte of  *)
(* a request takes it where.  A state is a name and a count: the bytes of  *)
(* a method read, the hexadecimal digits an escape still needs, the place  *)
(* in "HTTP/1."; inside an IP literal it is what may still follow.  The    *)
(* marks and callbacks of a step depend on the two states it joins         *)
(* (RequestActs).                                                          *)
(*                                                                         *)
(* Three things of the grammar are not what its comment ("as per RFC       *)
(* 3986") says, and are kept as they run: `5( h16 ":" )' is the byte 5     *)
(* followed by one group, not five groups; `"1"-"9"' is the string "1";    *)
(* and `0 - 31' is the byte 0, so every other control byte, a line end     *)
(* included, continues a header's name.                                    *)
(***************************************************************************)
EXTENDS Naturals, Sequences, TLC

-----------------------------------------------------------------------------
(* Bytes.  A byte the machine treats alone has its own token; "VT" stands  *)
(* for 11 and 12, "CTL" for the other control bytes, "HIGH" for 128-255.   *)

Digit == {"0", "1", "2", "3", "4", "5", "6", "7", "8", "9"}
Upper == {"A", "B", "C", "D", "E", "F", "G", "H", "I", "J", "K", "L", "M",
          "N", "O", "P", "Q", "R", "S", "T", "U", "V", "W", "X", "Y", "Z"}
Lower == {"a", "b", "c", "d", "e", "f", "g", "h", "i", "j", "k", "l", "m",
          "n", "o", "p", "q", "r", "s", "t", "u", "v", "w", "x", "y", "z"}
Alpha == Upper \cup Lower
XDigit == Digit \cup {"A", "B", "C", "D", "E", "F", "a", "b", "c", "d", "e", "f"}
Raw == {"b2", "b3", "b4", "b5", "b6"}
Control == Raw \cup {"CTL", "VT", "\t", "\n", "\r"}
Marks == {"!", "$", "&", "'", "(", ")", "*", "+", ",", ";", "=", "-", ".", "_", "~",
          "\"", "#", "%", "/", ":", "<", ">", "?", "@", "[", "\\", "]", "^", "GRAVE",
          "{", "|", "}"}
Byte == Alpha \cup Digit \cup Control \cup Marks \cup {"NUL", " ", "DEL", "HIGH"}

(* What a registered name is made of; '{', '}' and '^' would need the flag *)
(* uri_relaxed, which nothing sets.                                        *)
Unreserved == Alpha \cup Digit \cup {"-", ".", "_", "~"}
Reg == Unreserved \cup {"!", "$", "&", "'", "(", ")", "*", "+", ",", ";", "="}
SegmentNc == Reg \cup {"@"}
Pchar == SegmentNc \cup {":", "HIGH"}
Token == (Byte \ ({"NUL", "\t", " ", "DEL", "HIGH"} \cup Marks))
            \cup {"!", "#", "$", "%", "&", "'", "*", "+", "-", ".", "^", "_", "GRAVE", "|", "~"}

-----------------------------------------------------------------------------
(* The moves: from a name and count, on one of the bytes, to a name and    *)
(* count.  A target after "@" ends in a socket request's text.             *)

StartMoves ==
    {<<"start", 0, Upper \cup Digit, "method", 1>>,
     <<"start", 0, {"<"}, "xml", 0>>, <<"start", 0, {"@"}, "relative", 0>>}

MethodMoves ==
    {<<"method", n, Upper \cup Digit, "method", n + 1>> : n \in 1..19}
    \cup {<<"method", n, {" "}, "target", 0>> : n \in 1..20}

TargetMoves ==
    {<<"target", 0, Alpha, "scheme", 0>>, <<"target", 0, SegmentNc \ Alpha, "noscheme", 0>>,
     <<"target", 0, {"/"}, "slash", 0>>}

RelativeMoves == {<<"relative", 0, SegmentNc, "noscheme", 0>>, <<"relative", 0, {"/"}, "slash", 0>>}

SchemeMoves ==
    {<<"scheme", 0, Alpha \cup Digit \cup {"+", "-", "."}, "scheme", 0>>,
     <<"scheme", 0, SegmentNc \ (Alpha \cup Digit \cup {"+", "-", "."}), "noscheme", 0>>,
     <<"scheme", 0, {"/"}, "segments", 0>>, <<"scheme", 0, {":"}, "hier", 0>>,
     <<"hier", 0, Pchar, "segments", 0>>, <<"hier", 0, {"/"}, "slash", 0>>}

NoSchemeMoves ==
    {<<"noscheme", 0, SegmentNc, "noscheme", 0>>, <<"noscheme", 0, {"/"}, "segments", 0>>}

SlashMoves == {<<"slash", 0, Pchar, "segments", 0>>, <<"slash", 0, {"/"}, "slashes", 0>>}

SegmentMoves == {<<"segments", 0, Pchar \cup {"/"}, "segments", 0>>}

(* The authority: a user, a password, a host or an IP literal, a port; a   *)
(* host before a port may turn out to be a user before a password.         *)
UserMoves ==
    {<<"slashes", 0, {"["}, "literal", 0>>}
    \cup {<<a, 0, m[1], m[2], 0>> :
            a \in {"slashes", "user"},
            m \in {<<Reg, "user">>, <<{":"}, "port?">>, <<{"@"}, "at">>, <<{"/"}, "segments">>}}

PasswordMoves ==
    {<<"port?", 0, Digit, "port?", 0>>, <<"port?", 0, (Reg \ Digit) \cup {":"}, "password", 0>>,
     <<"port?", 0, {"/"}, "segments", 0>>, <<"password", 0, Reg \cup {":"}, "password", 0>>}
    \cup {<<a, 0, {"@"}, "at", 0>> : a \in {"port?", "password"}}

HostMoves ==
    {<<"at", 0, {"["}, "literal", 0>>}
    \cup {<<a, 0, m[1], m[2], 0>> :
            a \in {"at", "host"},
            m \in {<<Reg, "host">>, <<{":"}, "port">>, <<{"/"}, "segments">>}}

PortMoves == {<<"port", 0, Digit, "port", 0>>, <<"port", 0, {"/"}, "segments", 0>>}

ClosedMoves == {<<"closed", 0, {":"}, "port", 0>>, <<"closed", 0, {"/"}, "segments", 0>>}

QueryMoves == {<<a, 0, Pchar \cup {"/", "?"}, "query", 0>> : a \in {"query0", "query"}}

FragmentMoves ==
    {<<a, 0, Pchar \cup {"/", "?"}, "fragment", 0>> : a \in {"fragment0", "fragment"}}

(* An escape: "%" and two digits, in the element it belongs to. *)
Escaped ==
    [a \in {"target", "relative", "scheme", "noscheme", "hier", "slash", "segments", "slashes",
            "user", "port?", "password", "at", "host", "query0", "query", "fragment0",
            "fragment"} |->
        CASE a \in {"target", "relative", "scheme", "noscheme"} -> "noscheme"
          [] a \in {"hier", "slash", "segments"} -> "segments"
          [] a \in {"slashes", "user"} -> "user"
          [] a \in {"port?", "password"} -> "password"
          [] a \in {"at", "host"} -> "host"
          [] a \in {"query0", "query"} -> "query"
          [] a \in {"fragment0", "fragment"} -> "fragment"]

EscapeMoves ==
    {<<a, 0, {"%"}, Escaped[a], 2>> : a \in DOMAIN Escaped}
    \cup {<<a, n, XDigit, a, n - 1>> :
            a \in {Escaped[b] : b \in DOMAIN Escaped}, n \in {1, 2}}

(* The states in a target, a query and a fragment. *)
PathStates == {"target", "relative", "scheme", "hier", "noscheme", "slash", "segments",
               "slashes", "user", "port?", "at", "host", "port", "closed"}
QueryStates == {"query0", "query"}
FragmentStates == {"fragment0", "fragment"}

(* A fault: a query takes the fragment in. *)
EndMovesLate ==
    {<<a, 0, {" "}, "version", 0>> : a \in PathStates \cup QueryStates \cup FragmentStates}
    \cup {<<a, 0, {"#"}, "fragment0", 0>> : a \in PathStates}
    \cup {<<a, 0, {"#"}, "query", 0>> : a \in QueryStates}
    \cup {<<a, 0, {"?"}, "query0", 0>> : a \in PathStates}

(* Where a target, a query and a fragment end. *)
EndMoves ==
    {<<a, 0, {" "}, "version", 0>> : a \in PathStates \cup QueryStates \cup FragmentStates}
    \cup {<<a, 0, {"#"}, "fragment0", 0>> : a \in PathStates \cup QueryStates}
    \cup {<<a, 0, {"?"}, "query0", 0>> : a \in PathStates}

(* Where the target of a socket request does; it has no query or fragment. *)
JsonEndMoves == {<<a, 0, {" "}, "json", 0>> : a \in PathStates}

VersionText == <<"H", "T", "T", "P", "/", "1", ".">>

VersionMoves ==
    {<<"version", n, {VersionText[n + 1]}, "version", n + 1>> : n \in 0..6}
    \cup {<<"version", 7, {"0", "1"}, "version", 8>>,
          <<"version", 8, {"\n"}, "line", 0>>, <<"version", 8, {"\r"}, "cr", 0>>}

(* Headers.  A finished machine that is given another byte goes on as if   *)
(* the blank line had begun a header's name.                               *)
NameMoves ==
    {<<"line", 0, Token \ {"\n", "\r"}, "name", 0>>, <<"line", 0, {"\n"}, "done", 0>>,
     <<"line", 0, {"\r"}, "line_cr", 0>>, <<"name", 0, Token, "name", 0>>,
     <<"name", 0, {":"}, "colon", 0>>}

ValueMoves ==
    {<<"colon", 0, {" ", "\t"}, "colon", 0>>,
     <<"colon", 0, Byte \ {"NUL", "DEL", " ", "\t", "\n", "\r"}, "value", 0>>,
     <<"value", 0, Byte \ {"NUL", "DEL", "\n", "\r"}, "value", 0>>,
     <<"cr", 0, {"\n"}, "line", 0>>}
    \cup {<<a, 0, {"\n"}, "line", 0>> : a \in {"colon", "value"}}
    \cup {<<a, 0, {"\r"}, "cr", 0>> : a \in {"colon", "value"}}

BlankMoves ==
    {<<"line_cr", 0, Token \ {"\n"}, "name", 0>>, <<"line_cr", 0, {"\n"}, "done", 0>>,
     <<"done", 0, Token, "name", 0>>}
    \cup {<<a, 0, {":"}, "colon", 0>> : a \in {"line_cr", "done"}}

(* The two socket requests, ended by a byte 0. *)
XmlMoves ==
    {<<"xml", 0, Alpha \cup Digit \cup {"-", "."}, "xml", 1>>,
     <<"xml", 1, Alpha \cup Digit \cup {"-", "."}, "xml", 1>>,
     <<"xml", 1, {"\t", "\n", "VT", "\r", " ", "/", ">"}, "xml_text", 0>>,
     <<"xml_text", 0, Byte \ {">"}, "xml_text", 0>>,
     <<"xml_text", 1, Byte \ {">", "NUL"}, "xml_text", 0>>,
     <<"xml_text", 1, {"NUL"}, "sent", 0>>}
    \cup {<<"xml_text", n, {">"}, "xml_text", 1>> : n \in {0, 1}}

JsonMoves ==
    {<<"json", 0, {"{"}, "json_text", 0>>,
     <<"json_text", 0, Byte \ {"}"}, "json_text", 0>>,
     <<"json_text", 1, Byte \ {"}", "NUL"}, "json_text", 0>>,
     <<"json_text", 1, {"NUL"}, "sent", 0>>}
    \cup {<<"json_text", n, {"}"}, "json_text", 1>> : n \in {0, 1}}

-----------------------------------------------------------------------------
(* An IP literal.  What may follow is a set of alternatives, each the      *)
(* items still to come and the bytes the first of them has taken; `groups' *)
(* counts the groups before the double colon, seven standing for more.     *)

Alternative(todo, k) == [todo |-> todo, seen |-> <<>>, groups |-> k]

Pair == <<"h16", ":">>
Ls32 == {Pair \o <<"h16", "]">>,
         <<"octet", ".", "octet", ".", "octet", ".", "octet", "]">>}

Future == <<"v", "hex", ".", "future", "]">>

Literal ==
    {Alternative(<<"b6">> \o Pair \o l, 0) : l \in Ls32}
    \cup {Alternative(<<":", "gap">>, 0), Alternative(<<"h16", "more">>, 1),
          Alternative(Future, 0)}

(* What may follow the double colon after k groups: before the last 32     *)
(* bits, a byte that should have been a count of groups; or one group, or  *)
(* none.                                                                   *)
Lead(k) ==
    LET leads == {<< <<"b5">> \o Pair, {0}>>, << <<"b4">> \o Pair, {0, 1}>>,
                  << <<"b3">> \o Pair, {0} \cup 2..7>>, << <<"b2">> \o Pair, {0} \cup 3..7>>,
                  <<Pair, {0} \cup 4..7>>, << <<>>, {0} \cup 5..7>>}
    IN  {f[1] : f \in {f \in leads : k \in f[2]}}

Rest(k) ==
    {f \o l : f \in Lead(k), l \in Ls32}
    \cup (IF k \in {0, 6, 7} THEN {<<"h16", "]">>} ELSE {})
    \cup (IF k \in {0, 7} THEN {<<"]">>} ELSE {})

(* The octets the grammar knows: 30 to 99, 201 to 249 but 200 to 209, and  *)
(* 251 to 255 are not among them.                                          *)
Octet == {<<d>> : d \in Digit} \cup {<<"1", d>> : d \in Digit}
         \cup {<<"1", d, e>> : d \in Digit, e \in Digit}
         \cup {<<"2", "0", d>> : d \in Digit} \cup {<<"2", "5", "0">>}

(* Byte c goes on with the run a has begun, or ends it, or is the next.    *)
Longer(a, c) ==
    {[a EXCEPT !.seen = s] :
        s \in CASE Head(a.todo) = "h16" ->
                     IF c \in XDigit /\ Len(a.seen) < 4 THEN {Append(a.seen, "x")} ELSE {}
                [] Head(a.todo) = "octet" ->
                     {s \in {Append(a.seen, c)} :
                         \E o \in Octet : Len(s) <= Len(o) /\ SubSeq(o, 1, Len(s)) = s}
                [] Head(a.todo) = "hex" -> IF c \in XDigit THEN {<<"x">>} ELSE {}
                [] Head(a.todo) = "future" -> IF c \in Reg \cup {":"} THEN {<<"x">>} ELSE {}
                [] OTHER -> {}}

RunEnds(a) ==
    CASE Head(a.todo) = "octet" -> a.seen \in Octet
      [] Head(a.todo) \in {"h16", "hex", "future"} -> a.seen # <<>>
      [] OTHER -> FALSE

Single(a, c) ==
    CASE Head(a.todo) = "more" /\ c = ":" ->
           {Alternative(<<"gap">>, a.groups),
            Alternative(<<"h16", "more">>, IF a.groups < 7 THEN a.groups + 1 ELSE 7)}
      [] Head(a.todo) = "gap" /\ c = ":" -> {Alternative(r, 0) : r \in Rest(a.groups)}
      [] Head(a.todo) = c -> {Alternative(Tail(a.todo), a.groups)}
      [] OTHER -> {}

LiteralStep(left, c) ==
    UNION {Longer(a, c) \cup Single(a, c)
             \cup (IF RunEnds(a) THEN Single(Alternative(Tail(a.todo), a.groups), c) ELSE {})
             : a \in left}

-----------------------------------------------------------------------------
(* The step of the whole machine.                                          *)

RequestStart == [at |-> "start", n |-> 0, json |-> FALSE, left |-> {}]
RequestError == [at |-> "error", n |-> 0, json |-> FALSE, left |-> {}]

UriMoves ==
    TargetMoves \cup RelativeMoves \cup SchemeMoves \cup NoSchemeMoves \cup SlashMoves
    \cup SegmentMoves \cup UserMoves \cup PasswordMoves \cup HostMoves \cup PortMoves
    \cup ClosedMoves \cup QueryMoves \cup FragmentMoves \cup EscapeMoves

Moves == [json \in BOOLEAN |->
            StartMoves \cup MethodMoves \cup UriMoves \cup VersionMoves \cup NameMoves
            \cup ValueMoves \cup BlankMoves \cup XmlMoves \cup JsonMoves
            \cup IF json THEN JsonEndMoves ELSE EndMoves]

RequestStep(s, c) ==
    IF s.at = "literal"
    THEN LET left == LiteralStep(s.left, c)
         IN  IF left = {} THEN RequestError
             ELSE IF c = "]" THEN [s EXCEPT !.at = "closed", !.left = {}]
             ELSE [s EXCEPT !.left = left]
    ELSE LET to == {m \in Moves[s.json] : m[1] = s.at /\ m[2] = s.n /\ c \in m[3]}
         IN  IF to = {} THEN RequestError
             ELSE LET m == CHOOSE m \in to : TRUE
                  IN  [at |-> m[4], n |-> m[5],
                       json |-> s.json \/ m[4] = "relative",
                       left |-> IF m[4] = "literal" THEN Literal ELSE {}]

RequestFinal(s) == s.at \in {"done", "sent"}

(* What a step does under a condition. *)
Act(cond, a) == IF cond THEN <<a>> ELSE <<>>

(* What the step from s to t does, in order. *)
RequestActs(s, t) ==
    LET leaves(from, to) == s.at \in from /\ t.at \in to
        act(cond, a) == Act(cond /\ t.at # "error", a)
    IN  act(s.at \in {"start", "target", "hier", "fragment0", "colon", "json"}
              \/ (s.at = "version" /\ s.n = 0), "mark")
        \o act(s.at = "query0", "start_query") \o act(s.at = "line", "start_field")
        \o act(leaves({"method"}, {"target"}), "method")
        \o act(leaves(PathStates, {"version", "query0", "fragment0", "json"})
                 \/ leaves({"xml"}, {"xml_text"}), "path")
        \o act(leaves(QueryStates, {"version", "fragment0"}), "query")
        \o act(leaves(PathStates \cup QueryStates, {"version", "fragment0"}), "uri")
        \o act(leaves(FragmentStates, {"version"}), "fragment")
        \o act(leaves({"version"}, {"line", "cr"}), "version")
        \o act(t.at = "colon" /\ s.at # "colon", "write_field")
        \o act(leaves({"colon", "value"}, {"line", "cr"}), "field")
        \o act(leaves({"line", "line_cr"}, {"done"}), "done")
        \o act(t.at = "sent", "sent")
=============================================================================
