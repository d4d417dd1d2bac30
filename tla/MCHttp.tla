------------------------------- MODULE MCHttp -------------------------------
(* Requests and responses with every kind of element, one of them twice    *)
(* named, an IP literal, and texts the grammar refuses.                    *)
EXTENDS HttpMessage

Line(target, version) == <<" ">> \o target \o <<" ", "H", "T", "T", "P", "/", "1", ".", version>>
GET == <<"G", "E", "T">>
LOCK == <<"L", "O", "C", "K">>
UNLOCK == <<"U", "N">> \o LOCK

MCMethods == <<GET, LOCK, UNLOCK>>
MCRequests ==
    {GET \o Line(<<"/", "?", "a", "=", "1", "#", "f">>, "0") \o <<"\n", "\n">>,
     GET \o Line(<<"?", "A", "=", "%", "4", "a", "&", "b", "=", "+", "&", "a", "=">>, "1")
         \o <<"\n">> \o Cookie \o <<":", "a", "=", "1", ";", " ", "b", "=", "2", "\n", "\n">>,
     UNLOCK \o Line(<<"/", "%", "4", "1">>, "1") \o <<"\r", "\n", "\r", "\n">>,
     GET \o Line(<<"/">>, "1") \o <<"\n", "A", ":", "b", "\n", "a", ":", " ", "c", "\n", "\n", "z">>,
     GET \o Line(<<"h", ":", "/", "/", "[", ":", ":", "1", "]", ":", "8", "/", "p", "?", "q">>, "1")
         \o <<"\n", "\n">>,
     GET \o Line(<<"/", "/", "u", "@", "h">>, "1") \o <<"\r", "\n", "\r", "k", ":", "\n", "\n">>,
     GET \o <<" ", "/", "/", "[", "a", ":", ":", "1", "]", " ">>,
     <<"@", "p", " ", "{", "}", "NUL">>, <<"<", "a", "/", ">", "NUL">>}

Status == <<"H", "T", "T", "P", "/", "1", ".", "1", " ", "2", "0", "0", " ", "O", "K", "\n">>
MCResponses ==
    {Status \o <<"a", ":", "b", "\n", "\n", "3", ";", "x", "=", "a", ";", "y", "\n", "z">>,
     Status \o <<"c", "o", "n", "n", "e", "c", "t", "i", "o", "n", ":", "\n", "\n">>,
     <<"f", "\r", "\n">>}

MCKeys == {<<"a">>, <<"b">>}
MCValues == {<<"v">>}
MCBodies == {<<"a", "=", "5">>}
MCForm == <<"form">>
=============================================================================
