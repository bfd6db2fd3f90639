------------------------------ MODULE MCServer ------------------------------
(* A small router and a client that sends a request with a body, one without, *)
(* and one to be upgraded, and then four frames.                              *)
EXTENDS Server, TLC

Get(path, key) == [method |-> "GET", path |-> path, body |-> 0, close |-> FALSE, key |-> key]
Post(path, body) == [method |-> "POST", path |-> path, body |-> body, close |-> FALSE,
                     key |-> FALSE]

MCScript == <<Post(<<"a">>, 2), Get(<<"a">>, FALSE), Get(<<"ws">>, TRUE)>>
MCFrames == <<"text", "ping", "text", "close">>

MCPaths == {<<>>, <<"a">>, <<Parameter>>}
MCTargets == {<<>>, <<"a">>, <<"ws">>, <<"a", "ws">>}

\* A path, and itself as that of a group.
TwoPaths == {<<>>, <<"a">>}
OnePath == {<<"a">>}

\* POST of one path for a page, GET of anything for a WebSocket.
MCServed == (<<"POST", <<"a">>>> :> "page") @@ (<<"GET", <<Parameter>>>> :> "socket")
=============================================================================
