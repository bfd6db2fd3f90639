-------------------------------- MODULE Server --------------------------------
(* The HTTP server of the http module: a router is set up, and a task serves  *)
(* one client with it: _whalli_http_serve_client with http.read_request and   *)
(* http.upgrade (stdlib/http.rs), and ws.read (stdlib/ws.rs) in the handler   *)
(* of an upgraded connection.                                                 *)
(*                                                                            *)
(* What a client sends is a sequence of units that TCP may deliver in any     *)
(* pieces: the head of a request is two units, of which the second ends with  *)
(* the empty line, its body is one unit for each of its parts, and a frame    *)
(* of a WebSocket is two units. The bytes of a body never begin a request.    *)
EXTENDS Router

CONSTANTS
    Script,        \* the requests the client sends
    Frames,        \* the kinds of the frames it sends when it is upgraded
    ChunkUnits,    \* what one read takes at most: 4096 bytes in the code
    Middlewares,
    Methods,       \* those of the routes that are declared
    Paths,         \* and their paths
    MaxSetup,      \* bound on the steps of setting the router up
    Served,        \* the routes the server is explored with, by method and path
    Targets        \* the paths requests are looked up for

ASSUME ServerAssumption ==
    /\ Script \in Seq([method : STRING, path : Seq(STRING), body : Nat,
                       close : BOOLEAN, key : BOOLEAN])
    /\ \A i \in DOMAIN Script : Script[i].key => i = Len(Script) /\ Script[i].body = 0
    /\ Frames \in Seq({"text", "binary", "ping", "close"})
    /\ ChunkUnits \in Nat \ {0}

ASSUME SetupAssumption == MaxSetup \in Nat /\ \A p \in Paths : p \in Seq(ToSet(p))

VARIABLES
    setup,       \* the number of steps of the set up
    pc,          \* where the task that serves the client is
    unsent,      \* what the client still has to send
    wire,        \* what the kernel has received and the server has not read
    fin,         \* the client has closed its side
    buffer,      \* total_buffer of http.read_request
    handled,     \* the requests read so far, with the parts of their bodies
    replies,     \* the answers written so far
    frames,      \* stream_buffers of the client
    messages,    \* the frames that ws.read has returned
    pongs,       \* the pings it has answered
    patient      \* every request arrived in one piece, after the reply to the last

connection == <<pc, unsent, wire, fin, buffer, handled, replies, frames, messages, pongs, patient>>
vars == <<routerVars, setup, connection>>

\* The units of a request and of a frame.
Units(i) == <<[of |-> i, part |-> "head"], [of |-> i, part |-> "blank"]>>
              \o [k \in 1..Script[i].body |-> [of |-> i, part |-> "body"]]
FrameUnits(i) == <<[of |-> i, part |-> "start"], [of |-> i, part |-> "end"]>>
AllUnits == FlattenSeq([i \in DOMAIN Script |-> Units(i)])
AllFrames == FlattenSeq([i \in DOMAIN Frames |-> FrameUnits(i)])

Init ==
    /\ RouterInit
    /\ setup = 0
    /\ pc = "setup"
    /\ unsent = AllUnits
    /\ wire = <<>>
    /\ fin = FALSE
    /\ buffer = <<>>
    /\ handled = <<>>
    /\ replies = <<>>
    /\ frames = <<>>
    /\ messages = <<>>
    /\ pongs = 0
    /\ patient = TRUE

(* ---- Setting up ---------------------------------------------------------- *)

SetUp ==
    /\ pc = "setup"
    /\ setup < MaxSetup
    /\ setup' = setup + 1
    /\ \E o \in Owners :
         \/ \E m \in Middlewares : Use(o, m)
         \/ \E p \in Paths : p # <<>> /\ Group(o, p)
         \/ \E m \in Methods, p \in Paths, h \in {"page", "socket"} : Route(o, m, p, h)
         \/ \E p \in Paths : Static(o, p)
         \/ \E which \in {"not_found", "method_not_allowed"} : SetCustom(which)
    /\ UNCHANGED connection

\* listen_and_serve has accepted the client.
Accept ==
    /\ pc = "setup"
    /\ routes = Served
    /\ pc' = "reading"
    /\ UNCHANGED <<routerVars, setup, unsent, wire, fin, buffer, handled, replies, frames,
                   messages, pongs, patient>>

(* ---- The client ---------------------------------------------------------- *)

Upgraded == pc = "socket"
Sent == {u.of : u \in ToSet(SubSeq(AllUnits, 1, Len(AllUnits) - Len(unsent)))}

\* Some more units arrive. Frames follow the answer to the request for them.
Arrive ==
    /\ pc \notin {"setup", "closed"}
    /\ ~fin
    /\ \E n \in 1..Len(unsent) :
         /\ wire' = wire \o SubSeq(unsent, 1, n)
         /\ unsent' = SubSeq(unsent, n + 1, Len(unsent))
         /\ patient' = (patient /\ (Upgraded \/
                          (Cardinality(Sent) = Len(replies) /\ Len(replies) < Len(Script)
                           /\ SubSeq(unsent, 1, n) = Units(Len(replies) + 1))))
    /\ UNCHANGED <<routerVars, setup, pc, fin, buffer, handled, replies, frames, messages,
                   pongs>>

Leave ==
    /\ pc \notin {"setup", "closed"}
    /\ ~fin
    /\ fin' = TRUE
    /\ UNCHANGED <<routerVars, setup, pc, unsent, wire, buffer, handled, replies, frames,
                   messages, pongs, patient>>

(* ---- http.read_request --------------------------------------------------- *)

Taken == SubSeq(wire, 1, IF Len(wire) < ChunkUnits THEN Len(wire) ELSE ChunkUnits)
Rest(seq, n) == SubSeq(seq, n + 1, Len(seq))

Blanks(buf) == {i \in DOMAIN buf : buf[i].part = "blank"}
HasHead(buf) == Len(buf) >= 2 /\ buf[1].part = "head" /\ buf[2].part = "blank"

\* Mutant: the head alone is enough.
HeadEnough(buf) == Blanks(buf) # {}

\* The empty line has been read, and as much as Content-Length asks for; what
\* is no request has none.
Enough(buf) ==
    /\ Blanks(buf) # {}
    /\ HasHead(buf) => Len(buf) >= 2 + Script[buf[1].of].body

ReadChunk ==
    /\ pc = "reading"
    /\ wire # <<>>
    /\ buffer' = buffer \o Taken
    /\ wire' = Rest(wire, Len(Taken))
    /\ pc' = IF Enough(buffer \o Taken) THEN "parse" ELSE "reading"
    /\ UNCHANGED <<routerVars, setup, unsent, fin, handled, replies, frames, messages, pongs,
                   patient>>

\* WouldBlock or the end of the stream with something read: that is parsed.
\* With nothing read, the native waits for the network in the first case.
ReadStops ==
    /\ pc = "reading"
    /\ wire = <<>>
    /\ buffer # <<>>
    /\ pc' = "parse"
    /\ UNCHANGED <<routerVars, setup, unsent, wire, fin, buffer, handled, replies, frames,
                   messages, pongs, patient>>

\* The end of the stream, or an error, which removes it too.
ReadEnd ==
    /\ pc = "reading"
    /\ wire = <<>>
    /\ buffer = <<>>
    /\ fin
    /\ pc' = "closing"
    /\ UNCHANGED <<routerVars, setup, unsent, wire, fin, buffer, handled, replies, frames,
                   messages, pongs, patient>>

(* ---- _whalli_http_serve_client ------------------------------------------- *)

\* Mutant: what was read is still there when the next request is read.
ParseKeeps ==
    /\ pc = "parse"
    /\ HasHead(buffer)
    /\ handled' = Append(handled, [of |-> buffer[1].of, body |-> Rest(buffer, 2)])
    /\ pc' = "dispatch"
    /\ UNCHANGED <<routerVars, setup, unsent, wire, fin, buffer, replies, frames, messages,
                   pongs, patient>>

\* parse_http_request_bytes: all that follows the head is the body.
Parse ==
    /\ pc = "parse"
    /\ HasHead(buffer)
    /\ handled' = Append(handled, [of |-> buffer[1].of, body |-> Rest(buffer, 2)])
    /\ buffer' = <<>>
    /\ pc' = "dispatch"
    /\ UNCHANGED <<routerVars, setup, unsent, wire, fin, replies, frames, messages, pongs,
                   patient>>

\* A 400 that ends the connection.
Refuse ==
    /\ pc = "parse"
    /\ ~HasHead(buffer)
    /\ replies' = Append(replies, [to |-> 0, by |-> "400", last |-> TRUE])
    /\ buffer' = <<>>
    /\ pc' = "closing"
    /\ UNCHANGED <<routerVars, setup, unsent, wire, fin, handled, frames, messages, pongs,
                   patient>>

Current == Script[handled[Len(handled)].of]
Outcomes == UNION {Dispatch(Current.method, Current.path, answering) :
                     answering \in SUBSET Middlewares}

\* Middlewares and handlers answer, with or without a request to close, or
\* with nothing, which becomes a 500 that closes.
Answer ==
    /\ pc = "dispatch"
    /\ \E out \in Outcomes, closes \in BOOLEAN :
         /\ out.by = "socket" => ~Current.key
         /\ replies' = Append(replies, [to |-> handled[Len(handled)].of, by |-> out.by,
                                        last |-> closes \/ Current.close])
         /\ pc' = IF closes \/ Current.close THEN "closing" ELSE "reading"
    /\ UNCHANGED <<routerVars, setup, unsent, wire, fin, buffer, handled, frames, messages,
                   pongs, patient>>

\* http.upgrade in a handler: 101 is written, and the loop leaves the
\* connection to the handler. From now on the client sends frames.
Upgrade ==
    /\ pc = "dispatch"
    /\ Current.key
    /\ \E out \in Outcomes : out.by = "socket"
    /\ pc' = "socket"
    /\ unsent' = IF unsent = <<>> THEN AllFrames ELSE unsent
    /\ UNCHANGED <<routerVars, setup, wire, fin, buffer, handled, replies, frames, messages,
                   pongs, patient>>

Close ==
    /\ pc = "closing"
    /\ pc' = "closed"
    /\ frames' = <<>>
    /\ UNCHANGED <<routerVars, setup, unsent, wire, fin, buffer, handled, replies, messages,
                   pongs, patient>>

(* ---- ws.read ------------------------------------------------------------- *)

Complete(buf) == Len(buf) >= 2
KindOf(buf) == Frames[buf[1].of]
IsMessage(buf) == Complete(buf) /\ KindOf(buf) \in {"text", "binary"}
IsClose(buf) == Complete(buf) /\ KindOf(buf) = "close"

\* Mutant: the buffer is looked at when something has arrived.
ReadMessageLater ==
    /\ pc = "socket"
    /\ IsMessage(frames)
    /\ wire # <<>>
    /\ messages' = Append(messages, frames[1].of)
    /\ frames' = Rest(frames, 2)
    /\ UNCHANGED <<routerVars, setup, pc, unsent, wire, fin, buffer, handled, replies, pongs,
                   patient>>

\* The buffer has a whole message: it is returned.
ReadMessage ==
    /\ pc = "socket"
    /\ IsMessage(frames)
    /\ messages' = Append(messages, frames[1].of)
    /\ frames' = Rest(frames, 2)
    /\ UNCHANGED <<routerVars, setup, pc, unsent, wire, fin, buffer, handled, replies, pongs,
                   patient>>

\* (nil, nil) for a close frame. That the handler closes then is an assumption of
\* the model: the loop the documents show (README.md) reads on at (nil, nil).
ReadClose ==
    /\ pc = "socket"
    /\ IsClose(frames)
    /\ frames' = <<>>
    /\ pc' = "closed"
    /\ UNCHANGED <<routerVars, setup, unsent, wire, fin, buffer, handled, replies, messages,
                   pongs, patient>>

\* A ping in the buffer is answered, and the socket read like without it.
Kept == IF Complete(frames) THEN Rest(frames, 2) ELSE frames
Pongs == pongs + IF Complete(frames) THEN 1 ELSE 0
ReadsOn == pc = "socket" /\ ~IsMessage(frames) /\ ~IsClose(frames)

\* Mutant: what was read after a message or a ping is dropped with it.
ReadFrameAlone ==
    LET got == Kept \o Taken
    IN  /\ ReadsOn
        /\ wire # <<>>
        /\ wire' = Rest(wire, Len(Taken))
        /\ pongs' = Pongs
        /\ messages' = IF IsMessage(got) THEN Append(messages, got[1].of) ELSE messages
        /\ frames' = IF Complete(got) THEN <<>> ELSE got
        /\ pc' = IF IsClose(got) THEN "closed" ELSE pc
        /\ UNCHANGED <<routerVars, setup, unsent, fin, buffer, handled, replies, patient>>

\* One chunk is added to the buffer and one frame taken out of it: a message
\* is returned, a ping is dropped.
ReadFrame ==
    LET got == Kept \o Taken
    IN  /\ ReadsOn
        /\ wire # <<>>
        /\ wire' = Rest(wire, Len(Taken))
        /\ pongs' = Pongs
        /\ messages' = IF IsMessage(got) THEN Append(messages, got[1].of) ELSE messages
        /\ frames' = IF Complete(got) /\ ~IsClose(got) THEN Rest(got, 2)
                     ELSE IF IsClose(got) THEN <<>> ELSE got
        /\ pc' = IF IsClose(got) THEN "closed" ELSE pc
        /\ UNCHANGED <<routerVars, setup, unsent, fin, buffer, handled, replies, patient>>

\* Mutant: the buffer outlives the connection.
ReadNothingKeeps ==
    /\ ReadsOn
    /\ wire = <<>>
    /\ Complete(frames) \/ fin
    /\ pongs' = Pongs
    /\ frames' = Kept
    /\ pc' = IF fin THEN "closed" ELSE pc
    /\ UNCHANGED <<routerVars, setup, unsent, wire, fin, buffer, handled, replies, messages,
                   patient>>

\* Nothing to read: ws.read says WouldBlock and is called again; at the end of
\* the stream it says (nil, nil).
ReadNothing ==
    /\ ReadsOn
    /\ wire = <<>>
    /\ Complete(frames) \/ fin
    /\ pongs' = Pongs
    /\ frames' = IF fin THEN <<>> ELSE Kept
    /\ pc' = IF fin THEN "closed" ELSE pc
    /\ UNCHANGED <<routerVars, setup, unsent, wire, fin, buffer, handled, replies, messages,
                   patient>>

ReadRequest == ReadChunk \/ ReadStops \/ ReadEnd
Serve == Parse \/ Refuse \/ Answer \/ Upgrade \/ Close
ReadSocket == ReadMessage \/ ReadClose \/ ReadFrame \/ ReadNothing

Next == SetUp \/ Accept \/ Arrive \/ Leave \/ ReadRequest \/ Serve \/ ReadSocket
Spec == Init /\ [][Next]_vars

\* The worker goes on with the task: ws.read never suspends it.
FairSpec == Spec /\ WF_vars(ReadSocket)

(* ---- Properties ---------------------------------------------------------- *)

\* What is read for one request is gone when the next is read, and what is left
\* of the frames of a connection when that is closed (net.rs, net_close).
TypeOK ==
    /\ setup \in 0..MaxSetup
    /\ pc \in {"setup", "reading", "parse", "dispatch", "closing", "closed", "socket"}
    /\ fin \in BOOLEAN
    /\ patient \in BOOLEAN
    /\ pongs \in 0..Len(Frames)
    /\ pc \notin {"reading", "parse"} => buffer = <<>>
    /\ pc # "socket" => frames = <<>>
    /\ \A i \in DOMAIN handled : handled[i].of \in DOMAIN Script
    /\ \A i \in DOMAIN messages : messages[i] \in DOMAIN Frames

\* However a router was set up, a request gets the handler and the middlewares
\* that were declared for it (value.rs, use, group and register_router_route;
\* http.rs, match_route and _whalli_http_serve_client).
RequestsFindTheirHandlers ==
    pc = "setup" => \A answering \in SUBSET Middlewares :
                        DispatchAsDeclared(Methods \cup {"HEAD"}, Targets, answering)

\* Whatever was declared, the server serves each method that it tells a client it
\* allows (http.rs, check_allowed_methods and match_route).
AllowedServed == pc = "setup" => AllowedMethodsServed(Targets)

\* However a router was set up, a route of a group is not reached around the
\* middlewares of the group (value.rs, group and register_router_route).
GroupsKeepTheirMiddlewares == pc = "setup" => NoMiddlewareSkipped(Methods, Targets)

\* However TCP cuts the stream and however many requests a client sends at
\* once: what the handlers see are requests it sent, in their order and none
\* twice; each gets one answer before the next is read, and nothing follows an
\* answer that closes, a refusal or an upgrade (http.rs, read_request and
\* _whalli_http_serve_client).
ExchangesInOrder ==
    /\ \A i, j \in DOMAIN handled : i < j => handled[i].of < handled[j].of
    /\ \A i \in DOMAIN replies :
         \/ i \in DOMAIN handled /\ replies[i].to = handled[i].of
         \/ i = Len(handled) + 1 /\ replies[i].to = 0
    /\ \A i \in DOMAIN replies :
         replies[i].last => i = Len(replies) /\ i >= Len(handled) /\ pc \in {"closing", "closed"}
    /\ pc = "reading" => Len(replies) = Len(handled)
    /\ pc = "socket" => Len(replies) = Len(handled) - 1

BodyOf(i) == Rest(Units(i), 2)

\* A client whose requests arrive in one piece, each after the answer to the
\* one before, is served as it should be, however many reads a request takes:
\* nothing is refused, nothing is skipped, and every body is the one it sent.
WholeRequestsServed ==
    patient =>
        /\ \A i \in DOMAIN replies : replies[i].to # 0
        /\ \A i \in DOMAIN handled : handled[i] = [of |-> i, body |-> BodyOf(i)]

\* The messages that arrive completely in what is left of a stream of frames.
Completes(u) ==
    IF u.part = "end" /\ Frames[u.of] \in {"text", "binary"} THEN <<u.of>> ELSE <<>>
MessagesIn(units) == FlattenSeq([k \in DOMAIN units |-> Completes(units[k])])

\* Wherever TCP cuts the frames: every message is returned once, in order, and
\* what has not been returned is still in the buffer, in the kernel or to be
\* sent (ws.rs, ws_read_internal).
MessagesExact ==
    Upgraded => messages \o MessagesIn(frames \o wire \o unsent) = MessagesIn(AllFrames)

\* A whole message is returned to a handler that keeps reading, whatever came
\* before it and even if nothing comes after it, as long as the client stays:
\* none is left lying in the buffer behind a ping.
MessagesReturned ==
    \A i \in DOMAIN Frames :
        (Upgraded /\ i \in ToSet(MessagesIn(frames \o wire)))
            ~> (i \in ToSet(messages) \/ fin \/ ~Upgraded)

\* read_request answers with a request when its whole body has been read: what
\* the manual says (04-io-net.md), and the code does not wait for.
BodiesWhole == \A i \in DOMAIN handled : handled[i].body = BodyOf(handled[i].of)
=============================================================================
