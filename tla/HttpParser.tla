----------------------------- MODULE HttpParser -----------------------------
(***************************************************************************)
(* HttpRequestParser and HttpResponseParser (http/http_parser.cpp): the    *)
(* caller hands the bytes of a stream over in buffers, one call of execute *)
(* each; the machine reports elements as offsets into the buffer it is     *)
(* given, and the callbacks copy them into the message.  The offsets are   *)
(* set to zero when a call begins, all but the start of the query, and the *)
(* state of the machine is what goes on from call to call.                 *)
(***************************************************************************)
EXTENDS ResponseMachine, Integers, FiniteSets

CONSTANTS Requests,    \* the streams a request parser may be given
          Responses,   \* the streams a response parser may be given
          Methods,     \* the names of HTTP_METHOD_MAP, in its order
          MaxCalls     \* bound on the calls of execute

ASSUME HttpAssumption ==
    /\ \A s \in Requests \cup Responses : s \in Seq(Byte)
    /\ MaxCalls \in Nat

VARIABLES side,      \* which parser: "request" or "response"
          stream,    \* the bytes that arrive
          parser,    \* http_parser or httpclient_parser
          message,   \* *m_data
          error,     \* m_error
          pos,       \* how much of the stream the parser has consumed
          calls,     \* calls of execute so far
          failure,   \* what ended the program, or "none"
          cuts,      \* ghost: where buffers began
          got,       \* ghost: the elements reported, as places in the stream
          whole      \* ghost: the parser that is given the stream in one buffer

httpVars == <<side, stream, parser, message, error, pos, calls, failure, cuts, got, whole>>

-----------------------------------------------------------------------------
(* Either machine. *)

Start(k) == IF k = "request" THEN RequestStart ELSE ResponseStart
Step(k, s, c) == IF k = "request" THEN RequestStep(s, c) ELSE ResponseStep(s, c)
Acts(k, s, c, t) == IF k = "request" THEN RequestActs(s, t) ELSE ResponseActs(s, c)
Failed(k, s) == IF k = "request" THEN s.at = "error" ELSE ResponseFailed(s)
Final(k, s) == IF k = "request" THEN RequestFinal(s) ELSE ResponseFinal(s)

(* http_parser_init, httpclient_parser_init.  The fields nothing reads     *)
(* (content_len, status, close, chunked) are left out; nread is p.         *)
Initial(k) == [cs |-> Start(k), mark |-> 0, field_start |-> 0, field_len |-> 0,
               query_start |-> 0, body_start |-> 0]

-----------------------------------------------------------------------------
(* A call.  r is the parser, the offset p, the elements reported (offset   *)
(* and length, of a header's name as well) and whether the call is over.   *)

Called(p, at) == [parser |-> p, p |-> at, got |-> <<>>, over |-> FALSE]

Element(r, kind) ==
    LET at == IF kind = "query" THEN r.parser.query_start ELSE r.parser.mark
    IN  [kind |-> kind, at |-> at, len |-> r.p - at,
         name |-> IF kind = "field" THEN r.parser.field_start ELSE at,
         name_len |-> IF kind = "field" THEN r.parser.field_len ELSE 0]

CallOver(r, start) == [r EXCEPT !.over = TRUE, !.parser.body_start = start]

Perform(r, a) ==
    CASE a = "mark" -> [r EXCEPT !.parser.mark = r.p]
      [] a = "start_query" -> [r EXCEPT !.parser.query_start = r.p]
      [] a = "start_field" -> [r EXCEPT !.parser.field_start = r.p]
      [] a = "write_field" -> [r EXCEPT !.parser.field_len = r.p - r.parser.field_start]
      [] a \in {"close", "chunked", "content_len"} -> r
      [] a = "done" -> CallOver(r, r.p + 1)
      [] a = "sent" -> CallOver(r, r.parser.mark)
      [] OTHER -> [r EXCEPT !.got = Append(@, Element(r, a))]

Performed(r, acts) ==
    LET done[i \in 0..Len(acts)] == IF i = 0 THEN r ELSE Perform(done[i - 1], acts[i])
    IN  done[Len(acts)]

Consume(k, r, c) ==
    LET enter(to) ==
          IF Failed(k, to) THEN [r EXCEPT !.parser.cs = to, !.over = TRUE]
          ELSE [Performed(r, Acts(k, r.parser.cs, c, to)) EXCEPT !.parser.cs = to, !.p = @ + 1]
    IN  enter(Step(k, r.parser.cs, c))

Run(k, r, bytes) ==
    LET upto[i \in 0..Len(bytes)] ==
          IF i = 0 THEN r
          ELSE LET before == upto[i - 1]
               IN  IF before.over THEN before ELSE Consume(k, before, bytes[i])
    IN  upto[Len(bytes)]

(* A fault: every call begins the machine anew. *)
ResumedAnew(p) == [p EXCEPT !.cs = Start(side), !.mark = 0, !.field_start = 0,
                            !.field_len = 0]

(* What execute sets back before it runs; body_start is not among it. *)
Resumed(p) == [p EXCEPT !.mark = 0, !.field_start = 0, !.field_len = 0]

-----------------------------------------------------------------------------
(* The callbacks.  m is the message and the error.                         *)

Bytes(at, len) == SubSeq(stream, at + 1, at + len)
Prefix(s, t) == Len(s) <= Len(t) /\ SubSeq(t, 1, Len(s)) = s

(* StringToHttpMethod compares as many bytes as the name it tries has. *)
StringToHttpMethod(text) ==
    LET hits == {i \in 1..Len(Methods) : Prefix(Methods[i], text)}
    IN  IF hits = {} THEN "INVALID_METHOD"
        ELSE Methods[CHOOSE i \in hits : \A j \in hits : i <= j]

HttpVersion(text) ==
    LET is(d) == Prefix(text, Append(VersionText, d))
    IN  IF is("1") THEN "1.1" ELSE IF is("0") THEN "1.0" ELSE "invalid"

(* A name, as the map's comparison sees it. *)
Name(text) == [i \in 1..Len(text) |->
                 IF \E j \in 1..26 : Capital[j] = text[i]
                 THEN Small[CHOOSE j \in 1..26 : Capital[j] = text[i]] ELSE text[i]]

(* A map that says v of k, and what it said of all else. *)
With(map, k, v) == [x \in DOMAIN map \cup {k} |-> IF x = k THEN v ELSE map[x]]

Report(m, g, base) ==
    LET text == Bytes(base + g.at, g.len)
        set(field, value) == [m EXCEPT !.data[field] = value]
    IN  CASE g.kind = "method" ->
               LET method == StringToHttpMethod(SubSeq(stream, base + g.at + 1, Len(stream)))
               IN  IF method = "INVALID_METHOD" THEN [m EXCEPT !.error = 1000]
                   ELSE set("method", method)
          [] g.kind = "version" ->
               IF HttpVersion(text) = "invalid" THEN [m EXCEPT !.error = 1001]
               ELSE set("version", HttpVersion(text))
          [] g.kind \in {"path", "query", "fragment", "status", "reason"} -> set(g.kind, text)
          [] g.kind = "field" ->
               IF g.name_len = 0 THEN [m EXCEPT !.error = 1002]
               ELSE set("headers", With(m.data.headers, Name(Bytes(base + g.name, g.name_len)), text))
          [] OTHER -> m

Reports(m, list, base) ==
    LET upto[i \in 0..Len(list)] == IF i = 0 THEN m ELSE Report(upto[i - 1], list[i], base)
    IN  upto[Len(list)]

Place(g, base) == [kind |-> g.kind, from |-> base + g.name, to |-> base + g.at + g.len]
Places(list, base) == {Place(list[i], base) : i \in 1..Len(list)}

-----------------------------------------------------------------------------
is_finished == Final(side, parser.cs)
has_error == error # 0 \/ Failed(side, parser.cs)

HttpInit ==
    /\ \/ side = "request" /\ stream \in Requests
       \/ side = "response" /\ stream \in Responses
    /\ parser = Initial(side) /\ whole = [Called(Initial(side), 0) EXCEPT !.got = {}]
    /\ message = [method |-> "GET", path |-> <<"/">>, query |-> <<>>, fragment |-> <<>>,
                  version |-> "1.1", status |-> <<>>, reason |-> <<>>, headers |-> <<>>]
    /\ error = 0 /\ pos = 0 /\ calls = 0 /\ failure = "none" /\ cuts = {} /\ got = {}

(* A fault: what is left in the buffer is dropped. *)
OffsetAll(r, n) == n

(* How far the call went: memmove then brings what is left to the front.   *)
Offset(r, n) == r.p

(* A call of execute has made r of the parser, and the whole parser w.     *)
(* At its end it asserts that body_start is not past the buffer, and after *)
(* an empty buffer it returns -1.  Of an element whose length is negative  *)
(* the callback could make no string.                                      *)
Return(n, r, w) ==
    /\ cuts' = cuts \cup {pos} /\ calls' = calls + 1
    /\ IF \E i \in 1..Len(r.got) : r.got[i].len < 0
       THEN /\ failure' = "length_error"
            /\ UNCHANGED <<parser, message, error, pos, got, whole>>
       ELSE LET m == Reports([data |-> message, error |-> error], r.got, pos)
            IN  /\ message' = m.data /\ error' = m.error
                /\ parser' = r.parser /\ pos' = pos + Offset(r, n)
                /\ failure' = IF r.parser.body_start > n THEN "assertion"
                              ELSE IF n = 0 THEN "negative_offset" ELSE "none"
                /\ got' = got \cup Places(r.got, pos)
                /\ whole' = [w EXCEPT !.got = whole.got \cup Places(w.got, 0)]
    /\ UNCHANGED <<side, stream>>

(* The caller's next buffer has n bytes.  `chunck' starts the response     *)
(* machine anew: for the first head and for the header of every chunk.     *)
Execute(n, chunck) ==
    LET before(p) == IF chunck THEN Initial(side) ELSE p
        uncut == [whole EXCEPT !.parser = before(@), !.over = FALSE, !.got = <<>>]
    IN  /\ failure = "none" /\ ~has_error /\ calls < MaxCalls
        /\ n <= Len(stream) - pos /\ (n = 0 => side = "response")
        /\ chunck => side = "response" /\ (pos = 0 \/ is_finished)
        /\ is_finished => chunck
        /\ Return(n, Run(side, Called(Resumed(before(parser)), 0), Bytes(pos, n)),
                  Run(side, uncut, Bytes(pos, n)))

HttpNext == \E n \in 0..Len(stream), chunck \in BOOLEAN : Execute(n, chunck)

HttpSpec == HttpInit /\ [][HttpNext]_httpVars

-----------------------------------------------------------------------------
(* Where the machine stands does not depend on how the stream was cut into *)
(* buffers: after as many bytes it is in the state of the parser that was  *)
(* given them at once, so finished and failed mean the same.               *)
VerdictUnsplit == failure # "length_error" => parser.cs = whole.parser.cs

Uncut(e) == \A c \in cuts : ~(e.from < c /\ c <= e.to)

(* An element all of whose bytes, and the byte after it, came in one       *)
(* buffer is reported as it is in the uncut stream, and whatever else is   *)
(* reported stands for an element that was cut.                            *)
WholeElements ==
    failure = "none" =>
      /\ \A e \in whole.got : Uncut(e) => e \in got
      /\ \A g \in got : \/ g \in whole.got
                        \/ \E e \in whole.got : e.kind = g.kind /\ e.to = g.to /\ ~Uncut(e)

(* The first byte of the set at or after place i, or the place j.          *)
First(set, i, j) ==
    LET at == {x \in i..(j - 1) : stream[x + 1] \in set}
    IN  IF at = {} THEN j ELSE CHOOSE x \in at : \A y \in at : x <= y

(* What a request line says, by its separators alone: the method before    *)
(* the first blank, the target up to the second, its scheme up to a colon  *)
(* that comes before any other mark, its fragment after "#", its query     *)
(* after the first "?" before that.                                        *)
Declared ==
    LET blank == First({" "}, 0, Len(stream))
        to == First({" "}, blank + 1, Len(stream))
        hash == First({"#"}, blank + 1, to)
        mark == First({"?"}, blank + 1, hash)
        colon == First(Byte \ (Alpha \cup Digit \cup {"+", "-", "."}), blank + 1, mark)
        from == IF colon < mark /\ stream[colon + 1] = ":" THEN colon + 1 ELSE blank + 1
        end == First({"\n", "\r"}, to, Len(stream))
        element(kind, i, j) == [kind |-> kind, from |-> i, to |-> j]
    IN  {element("method", 0, blank), element("path", from, mark), element("uri", from, hash),
         element("version", to + 1, end)}
        \cup (IF mark < hash THEN {element("query", mark + 1, hash)} ELSE {})
        \cup (IF hash < to THEN {element("fragment", hash + 1, to)} ELSE {})

(* The machine splits a request line where its separators are.             *)
TargetSplit ==
    side = "request" /\ whole.parser.cs.at = "done" =>
      {e \in whole.got : e.kind # "field"} = Declared
=============================================================================
