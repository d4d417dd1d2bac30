----------------------------- MODULE HttpMessage -----------------------------
(***************************************************************************)
(* HttpRequest (http/http.cpp, http.h), once the parser is done with it.   *)
(* The parameters and cookies are not parsed until something asks for one, *)
(* and then once (m_parser_param_flag); until then the program may already *)
(* have set, or deleted, some of them.                                     *)
(***************************************************************************)
EXTENDS HttpParser

CONSTANTS Keys,       \* the names a program uses, of parameters and cookies
          Values,     \* the values it sets
          Bodies,     \* the bodies a request gets
          Form,       \* a content type that says the body is a form
          MaxUses     \* bound on the calls on a request

ASSUME BodiesAssumption == \A b \in Bodies : b \in Seq(Byte)

VARIABLES taken,      \* the request has left the parser
          params, cookies,
          parsed,     \* m_parser_param_flag
          body,
          keep_alive,
          uses,
          last        \* ghost: per map and name, what the program did last

useVars == <<taken, params, cookies, parsed, body, keep_alive, uses, last>>
msgVars == <<httpVars, useVars>>

Nothing == <<>>   \* the empty map, or string
Cookie == <<"c", "o", "o", "k", "i", "e">>
ContentType == <<"content-type">>
Connection == Word.Connection
KeepAlive == <<"k", "e", "e", "p", "-", "a", "l", "i", "v", "e">>

-----------------------------------------------------------------------------
(* PARSE_PARAM, StringUtils::UrlDecode and Trim.                           *)

Printable ==
    <<" ", "!", "\"", "#", "$", "%", "&", "'", "(", ")", "*", "+", ",", "-", ".", "/",
      "0", "1", "2", "3", "4", "5", "6", "7", "8", "9", ":", ";", "<", "=", ">", "?", "@">>
    \o Capital \o <<"[", "\\", "]", "^", "_", "GRAVE">> \o Small \o <<"{", "|", "}", "~", "DEL">>

HexValue(c) == CHOOSE v \in 0..15 :
    \/ v <= 9 /\ Printable[v + 17] = c
    \/ v >= 10 /\ c \in Folded(Small[v - 9])

Decoded(h, l) ==
    LET code == 16 * HexValue(h) + HexValue(l)
    IN  CASE code >= 128 -> "HIGH" [] code = 0 -> "NUL" [] code = 9 -> "\t" [] code = 10 -> "\n"
          [] code = 13 -> "\r" [] code \in 32..127 -> Printable[code - 31] [] OTHER -> "CTL"

UrlDecode(s) ==
    LET from[i \in 1..(Len(s) + 1)] ==
          IF i > Len(s) THEN <<>>
          ELSE IF s[i] = "+" THEN <<" ">> \o from[i + 1]
          ELSE IF s[i] = "%" /\ i + 2 <= Len(s) /\ {s[i + 1], s[i + 2]} \subseteq XDigit
               THEN <<Decoded(s[i + 1], s[i + 2])>> \o from[i + 3]
          ELSE <<s[i]>> \o from[i + 1]
    IN  from[1]

(* Trim returns a pointer into the whole string: only its left is trimmed. *)
Trim(s) ==
    LET kept == {i \in 1..Len(s) : s[i] \notin {" ", "\t", "\r", "\n"}}
    IN  IF kept = {} THEN <<>> ELSE SubSeq(s, CHOOSE i \in kept : \A j \in kept : i <= j, Len(s))

(* A fault: the text replaces what is there. *)
InsertOver(map, k, v) == With(map, k, v)

(* insert, in the order of the text: what is there already stays.          *)
Insert(map, k, v) == [x \in DOMAIN map \cup {k} |-> IF x \in DOMAIN map THEN map[x] ELSE v]

(* The first c at or after place i, or the place after the text.           *)
Find(s, c, i) ==
    LET hits == {j \in i..Len(s) : s[j] = c}
    IN  IF hits = {} THEN Len(s) + 1 ELSE CHOOSE j \in hits : \A h \in hits : j <= h

(* A pass of the loop, of a map and the place the text goes on at.         *)
ParsePair(s, b, flag, trimmed) ==
    LET eq == Find(s, "=", b.at)
        end == Find(s, flag, eq)
        key == SubSeq(s, b.at, eq - 1)
        value == SubSeq(s, eq + 1, end - 1)
    IN  IF eq > Len(s) THEN b
        ELSE [map |-> Insert(b.map, Name(IF trimmed THEN Trim(key) ELSE key), UrlDecode(value)),
              at |-> end + 1]

(* Every pass but the last takes an "=" away.                              *)
ParseParam(s, map, flag, trimmed) ==
    LET pass[n \in 0..Len(s)] == IF n = 0 THEN [map |-> map, at |-> 1]
                                 ELSE ParsePair(s, pass[n - 1], flag, trimmed)
    IN  pass[Len(s)].map

-----------------------------------------------------------------------------
header(k) == IF k \in DOMAIN message.headers THEN message.headers[k] ELSE Nothing

InitQueryParam(map) ==
    IF "query" \in parsed THEN map ELSE ParseParam(message.query, map, "&", FALSE)
InitBodyParam(map) ==
    IF "body" \in parsed \/ header(ContentType) # Form THEN map
    ELSE ParseParam(body, map, "&", FALSE)
InitCookies(map) ==
    IF "cookies" \in parsed \/ header(Cookie) = Nothing THEN map
    ELSE ParseParam(header(Cookie), map, ";", TRUE)

(* What a look at the parameters, or at the cookies, leaves parsed.        *)
Looked(what) == parsed \cup what

Without(map, k) == [x \in DOMAIN map \ {k} |-> map[x]]

-----------------------------------------------------------------------------
Unused == /\ taken = FALSE /\ params = Nothing /\ cookies = Nothing /\ parsed = {}
          /\ body = Nothing /\ keep_alive = FALSE /\ uses = 0 /\ last = Nothing

MessageInit == HttpInit /\ Unused

Parse == ~taken /\ HttpNext /\ UNCHANGED useVars

(* The caller keeps the request and lets the parser go. *)
Take ==
    /\ ~taken /\ side = "request" /\ failure = "none" /\ is_finished /\ ~has_error
    /\ taken' = TRUE
    /\ stream' = Nothing /\ parser' = Initial(side) /\ pos' = 0 /\ calls' = 0
    /\ cuts' = {} /\ got' = {} /\ whole' = [Called(Initial(side), 0) EXCEPT !.got = {}]
    /\ UNCHANGED <<side, message, error, failure, params, cookies, parsed, body, keep_alive,
                   uses, last>>

Used == taken /\ uses < MaxUses /\ uses' = uses + 1 /\ UNCHANGED <<taken, side, stream, parser,
            error, pos, calls, failure, cuts, got, whole>>

(* get_param, has_param, get_param_as, check_get_param_as *)
GetParam == /\ Used /\ params' = InitBodyParam(InitQueryParam(params))
            /\ parsed' = Looked({"query", "body"})
            /\ UNCHANGED <<message, cookies, body, keep_alive, last>>

(* get_cookie, has_cookie, get_cookie_as, check_get_cookie_as *)
GetCookie == /\ Used /\ cookies' = InitCookies(cookies) /\ parsed' = Looked({"cookies"})
             /\ UNCHANGED <<message, params, body, keep_alive, last>>

(* init_param *)
InitParam == /\ Used /\ params' = InitBodyParam(InitQueryParam(params))
             /\ cookies' = InitCookies(cookies) /\ parsed' = Looked({"query", "body", "cookies"})
             /\ UNCHANGED <<message, body, keep_alive, last>>

(* set_param, del_param; what was deleted before the first look is not     *)
(* known to be gone.                                                       *)
SetParam(k, v) == /\ Used /\ params' = With(params, k, v)
                  /\ last' = With(last, <<"param", k>>, <<"set", v>>)
                  /\ UNCHANGED <<message, cookies, parsed, body, keep_alive>>

DelParam(k) == /\ Used /\ params' = Without(params, k)
               /\ last' = With(last, <<"param", k>>,
                               IF {"query", "body"} \subseteq parsed THEN <<"gone">> ELSE <<"unknown">>)
               /\ UNCHANGED <<message, cookies, parsed, body, keep_alive>>

SetCookie(k, v) == /\ Used /\ cookies' = With(cookies, k, v)
                   /\ last' = With(last, <<"cookie", k>>, <<"set", v>>)
                   /\ UNCHANGED <<message, params, parsed, body, keep_alive>>

DelCookie(k) == /\ Used /\ cookies' = Without(cookies, k)
                /\ last' = With(last, <<"cookie", k>>,
                                IF "cookies" \in parsed THEN <<"gone">> ELSE <<"unknown">>)
                /\ UNCHANGED <<message, params, parsed, body, keep_alive>>

(* set_header, del_header, of the headers that matter here *)
SetHeader(k, v) == /\ Used /\ message' = [message EXCEPT !.headers = With(@, k, v)]
                   /\ UNCHANGED <<params, cookies, parsed, body, keep_alive, last>>

DelHeader(k) == /\ Used /\ message' = [message EXCEPT !.headers = Without(@, k)]
                /\ UNCHANGED <<params, cookies, parsed, body, keep_alive, last>>

(* body is a public member *)
SetBody(b) == /\ Used /\ body' = b
              /\ UNCHANGED <<message, params, cookies, parsed, keep_alive, last>>

(* init *)
InitConnection ==
    /\ Used
    /\ keep_alive' = IF header(Connection) = Nothing THEN keep_alive
                     ELSE Name(header(Connection)) = KeepAlive
    /\ UNCHANGED <<message, params, cookies, parsed, body, last>>

Use == \/ GetParam \/ GetCookie \/ InitParam \/ InitConnection
       \/ \E k \in Keys : \/ DelParam(k) \/ DelCookie(k)
                          \/ \E v \in Values : SetParam(k, v) \/ SetCookie(k, v)
       \/ \E b \in Bodies : SetBody(b)
       \/ SetHeader(ContentType, Form) \/ SetHeader(Connection, KeepAlive)
       \/ DelHeader(ContentType) \/ DelHeader(Cookie)

MessageNext == Parse \/ Take \/ Use

MessageSpec == MessageInit /\ [][MessageNext]_msgVars

-----------------------------------------------------------------------------
(* What the program did last with a parameter or a cookie is what it finds *)
(* there, whenever the text is parsed: a value it set is never replaced,   *)
(* and a name it deleted after a look does not come back.                  *)
ProgramWins ==
    \A h \in DOMAIN last :
        LET map == IF h[1] = "param" THEN params ELSE cookies
        IN  /\ last[h][1] = "set" => h[2] \in DOMAIN map /\ map[h[2]] = last[h][2]
            /\ last[h][1] = "gone" => h[2] \notin DOMAIN map
=============================================================================
