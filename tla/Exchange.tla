------------------------------ MODULE Exchange ------------------------------
(***************************************************************************)
(* The headers of a call and the status it ends with: RequestMetadata of   *)
(* the client's invoker, what ServerTransportListener.on_headers makes of  *)
(* them, the headers and trailers of the answer, and the status that       *)
(* ClientTransportListener reads out of them.                              *)
(*                                                                         *)
(* Messages and threads are in ServerCall and ClientCall. Something        *)
(* between the two may answer in the server's place: a proxy knows HTTP    *)
(* statuses, and no status of gRPC. A path is the sequence of its          *)
(* segments, a name the sequence of its own.                               *)
(***************************************************************************)
EXTENDS Integers, Sequences, SequencesExt

CONSTANTS
    Names,          \* of the services and methods that are called
    Exported,       \* the services a server was given, as [service, methods]
    Compressions,   \* what the URL of an invoker may say
    Foreign,        \* requests of other clients
    HttpCodes,      \* HTTP statuses of a proxy, known to HttpStatus or not
    RpcCodes,       \* numbers a method may end its call with
    ErrorCodes      \* of the peer's RST_STREAM

\* A header that there is not.
Missing == -1
Blank == ""

ASSUME ExchangeAssumption ==
    /\ Names \subseteq Seq(STRING) /\ HttpCodes \subseteq Nat /\ RpcCodes \subseteq Nat
    /\ ErrorCodes \subseteq Nat /\ Blank \notin Compressions

VARIABLES
    place,          \* of the call: "new", "sent", "called", "answered"
    request, own,   \* its headers; whether an invoker of this package made them
    answered,       \* by "method", "refused", "plain" text, "proxy", "reset", or "none"
    said,           \* the status of gRPC in that answer
    attached,       \* the content type a method sends with its status
    wire,           \* the frames of the answer
    listener        \* ClientTransportListener

exchangeVars == <<place, request, own, answered, said, attached, wire, listener>>

----------------------------------------------------------------------------
(* Registries *)

\* GRpcCode
OK == 0
CANCELLED == 1
UNKNOWN == 2
NOT_FOUND == 5
PERMISSION_DENIED == 7
UNIMPLEMENTED == 12
INTERNAL == 13
UNAVAILABLE == 14
UNAUTHENTICATED == 16
FromCode(n) == IF n \in 0..16 THEN n ELSE UNKNOWN

\* HttpStatus; from_code of another number is None, and asking None for its value raises.
HttpStatus ==
    100..101 \cup 200..206 \cup (300..308 \ {306}) \cup 400..418 \cup 421..424
        \cup {426, 428, 429, 431, 451} \cup 500..508 \cup {510, 511}

\* Http2ErrorCode, and its get
Http2ErrorCode == 0..13
INTERNAL_ERROR == 2
GetError(n) == IF n \in Http2ErrorCode THEN n ELSE INTERNAL_ERROR

FromHttpCode(n) ==
    CASE n \in 100..199 \cup {400, 431} -> INTERNAL
      [] n = 401 -> UNAUTHENTICATED
      [] n = 403 -> PERMISSION_DENIED
      [] n = 404 -> NOT_FOUND
      [] n \in {429, 502, 503, 504} -> UNAVAILABLE
      [] OTHER -> UNKNOWN

\* The extensions for Compressor and for Decompressor have the same names.
Identity == "identity"
Encodings == {Identity, "gzip", "bzip2"}

IsGrpc(content) == content \in {"application/grpc", "application/grpc+data"}

----------------------------------------------------------------------------
(* The client's invoker *)

Headers(method, content, path, encoding) ==
    [method |-> method, content |-> content, path |-> path, encoding |-> encoding]
NoRequest == Headers("none", Blank, <<>>, Blank)

\* Client._callable gives a copy of the invoker's URL a method; the callable makes an
\* invocation of its path and of that method for each call.
Callable(service, method) == [path |-> service, descriptor |-> method]
CreateInvocation(callable) == [service |-> callable.path, method |-> callable.descriptor]

\* RequestMetadata.to_headers
ToHeaders(invocation, compression) ==
    Headers("POST", "application/grpc+data", <<Blank>> \o invocation.service \o invocation.method,
            IF compression = Identity THEN Blank ELSE compression)

Silent == [headersReceived |-> FALSE, code |-> Missing, decoder |-> FALSE, raised |-> FALSE,
           completed |-> <<>>]

ExchangeInit ==
    /\ place = "new" /\ request = NoRequest /\ own = FALSE
    /\ answered = "none" /\ said = Missing /\ attached = Blank
    /\ wire = <<>> /\ listener = Silent

Send(h, mine) ==
    /\ place = "new" /\ place' = "sent"
    /\ request' = h /\ own' = mine
    /\ UNCHANGED <<answered, said, attached, wire, listener>>

\* A compressor nobody registered is an exception of invoke: no call is made.
Invoke(service, method, compression) ==
    /\ compression \in Encodings
    /\ Send(ToHeaders(CreateInvocation(Callable(service, method)), compression), TRUE)

----------------------------------------------------------------------------
(* The server *)

Response(status, content, code) ==
    [status |-> status, content |-> content, code |-> code, encoding |-> Blank]
WireFrame(kind, headers, end) == [kind |-> kind, headers |-> headers, end |-> end]
NoHeaders == Response(Missing, Blank, Missing)

\* Whoever answers, the answer is sent once.
AnswerWith(who, code, frames) ==
    /\ place' = "answered" /\ answered' = who /\ said' = code /\ wire' = frames
    /\ UNCHANGED <<request, own, listener>>

Refusal(kind, status, code) == [kind |-> kind, status |-> status, code |-> code]
Plain(status, code) == Refusal("plain", status, code)
Error(code) == Refusal("refused", 200, code)
Accepted == Refusal("none", 200, OK)

\* RpcServiceHandler keeps its methods by their names.
MethodHandlers(service) == ToSet(service.methods)

\* The dictionary TripleProtocol.export makes: of two services with one name the last.
ServiceHandles ==
    [s \in {Exported[i].service : i \in DOMAIN Exported} |->
        SelectLastInSeq(Exported, LAMBDA h : h.service = s)]

\* _get_handler
Handled(service, method) ==
    /\ service \in DOMAIN ServiceHandles
    /\ method \in MethodHandlers(Exported[ServiceHandles[service]])

\* The segments of the path that are compared with names.
BadPath(h) == Len(h.path) # 3

\* The checks of on_headers, in their order.
Verdict(h) ==
    IF h.method # "POST" THEN Plain(405, INTERNAL)
    ELSE IF ~IsGrpc(h.content) THEN Plain(415, UNIMPLEMENTED)
    ELSE IF h.path = <<>> \/ h.path[1] # Blank THEN Plain(404, UNIMPLEMENTED)
    ELSE IF BadPath(h) \/ ~Handled(h.path[2], h.path[3]) THEN Error(UNIMPLEMENTED)
    ELSE IF h.encoding \notin Encodings \cup {Blank} THEN Error(UNIMPLEMENTED)
    ELSE Accepted

\* _response_plain_text_error and _response_error
RefusalHeaders(verdict) ==
    Response(verdict.status,
             IF verdict.kind = "plain" THEN "text/plain" ELSE "application/grpc+data", verdict.code)

OnRequestHeaders ==
    /\ place = "sent"
    /\ LET verdict == Verdict(request)
       IN \/ /\ verdict # Accepted
             /\ AnswerWith(verdict.kind, verdict.code,
                           <<WireFrame("headers", RefusalHeaders(verdict), TRUE)>>)
             /\ UNCHANGED attached
          \/ /\ verdict = Accepted
             /\ place' = "called"
             /\ UNCHANGED <<request, own, answered, said, attached, wire, listener>>

\* TripleServerCall.send_message, before the first message.
FirstHeaders == WireFrame("headers", Response(200, "application/grpc+data", Missing), FALSE)

\* The trailers: without headers before them they are the headers, too.
BareTrailers(wrote, content, code) == Response(Missing, content, code)   \* Mutation
Trailers(wrote, content, code) ==
    Response(IF wrote THEN Missing ELSE 200,
             IF content = Blank THEN "application/grpc+data" ELSE content, code)

\* done_writing: the method has written messages, or none; handle_exception ends a call
\* with INTERNAL.
MethodEnds(wrote, content, n) ==
    /\ place = "called"
    /\ AnswerWith("method", FromCode(n),
                  (IF wrote THEN <<FirstHeaders, WireFrame("data", NoHeaders, FALSE)>> ELSE <<>>)
                      \o <<WireFrame("headers", Trailers(wrote, content, FromCode(n)), TRUE)>>)
    /\ attached' = content

\* A proxy answers for the server: with a page, or without.
ProxyAnswers(status, content, page) ==
    /\ place \in {"sent", "called"}
    /\ AnswerWith("proxy", Missing,
                  <<WireFrame("headers", Response(status, content, Missing), ~page)>>
                      \o IF page THEN <<WireFrame("data", NoHeaders, TRUE)>> ELSE <<>>)
    /\ UNCHANGED attached

\* The peer resets the stream, instead of its answer or of the rest of it. (A reset
\* behind the frame that ends the stream is not delivered: Inbound.)
PeerResets(n, error) ==
    /\ place # "new" /\ answered # "reset"
    /\ n < Len(wire) \/ answered = "none"
    /\ answered' = "reset" /\ place' = "answered"
    /\ wire' = Append(SubSeq(wire, 1, n),
                      WireFrame("reset", Response(Missing, Blank, GetError(error)), TRUE))
    /\ UNCHANGED <<request, own, said, attached, listener>>

----------------------------------------------------------------------------
(* ClientTransportListener *)

\* The listener takes the next frame; none after it raised.
Takes(l) ==
    /\ wire # <<>> /\ ~listener.raised
    /\ wire' = Tail(wire) /\ listener' = l
    /\ UNCHANGED <<place, request, own, answered, said, attached>>

Raises == Takes([listener EXCEPT !.raised = TRUE])
Completes(l, code) == [l EXCEPT !.code = code, !.completed = Append(@, code)]

\* _validate_headers: the status that headers which are not those of gRPC stand for, and
\* whether it can be told.
Invalid(h) == h.status = Missing \/ ~IsGrpc(h.content)
StatusOf(h) == IF h.status = Missing THEN INTERNAL ELSE FromHttpCode(h.status)
Untold(h) == h.status \notin HttpStatus \cup {Missing}

\* _on_headers_received
OnResponseHeaders ==
    /\ wire # <<>> /\ Head(wire).kind = "headers" /\ ~Head(wire).end
    /\ LET h == Head(wire).headers
           l == [listener EXCEPT !.headersReceived = TRUE]
       IN \/ Invalid(h) /\ Untold(h) /\ Raises
          \/ Invalid(h) /\ ~Untold(h) /\ Takes([l EXCEPT !.code = StatusOf(h)])
          \/ /\ ~Invalid(h) /\ h.encoding \notin Encodings \cup {Blank}
             /\ Takes([l EXCEPT !.code = UNIMPLEMENTED])
          \/ /\ ~Invalid(h) /\ h.encoding \in Encodings \cup {Blank}
             /\ Takes([l EXCEPT !.decoder = TRUE])

\* _get_status_from_trailers
Optimistic(h) == OK        \* Mutation
WithoutCode(h) == IF listener.headersReceived THEN UNKNOWN ELSE StatusOf(h)
FromTrailers(h) == IF h.code # Missing THEN FromCode(h.code) ELSE WithoutCode(h)

\* _on_trailers_received: the headers' status stays; trailers without headers are
\* validated first, and complete the call a second time, as a transport error.
TrailersStatus(h) ==
    IF listener.code # Missing THEN listener.code
    ELSE IF ~listener.headersReceived /\ Invalid(h) THEN StatusOf(h)
    ELSE FromTrailers(h)

OnResponseTrailers ==
    /\ wire # <<>> /\ Head(wire).kind = "headers" /\ Head(wire).end
    /\ LET h == Head(wire).headers
           once == Completes(listener, TrailersStatus(h))
           needsHttp == listener.code = Missing /\ ~listener.headersReceived
                            /\ (Invalid(h) \/ h.code = Missing)
       IN \/ needsHttp /\ Untold(h) /\ Raises
          \/ /\ ~(needsHttp /\ Untold(h))
             /\ Takes(IF listener.headersReceived THEN once ELSE Completes(once, once.code))

\* The page of a proxy describes the status; its end completes the call.
OnResponseData ==
    /\ wire # <<>> /\ Head(wire).kind = "data"
    /\ Takes(IF listener.code # Missing /\ Head(wire).end
             THEN Completes(listener, listener.code) ELSE listener)

\* Whatever the error, NO_ERROR and a refused stream included.
OnReset ==
    /\ wire # <<>> /\ Head(wire).kind = "reset"
    /\ Takes(Completes(listener, CANCELLED))

----------------------------------------------------------------------------
Contents == {Blank, "text/plain", "application/grpc"}

Client ==
    \/ \E s, m \in Names, c \in Compressions : Invoke(s, m, c)
    \/ OnResponseHeaders \/ OnResponseTrailers \/ OnResponseData \/ OnReset

Server ==
    \/ OnRequestHeaders
    \/ \E wrote \in BOOLEAN, c \in Contents, n \in RpcCodes : MethodEnds(wrote, c, n)

Others ==
    \/ \E h \in Foreign : Send(h, FALSE)
    \/ \E n \in HttpCodes, c \in Contents, page \in BOOLEAN : ProxyAnswers(n, c, page)
    \/ \E n \in 0..Len(wire), error \in ErrorCodes : PeerResets(n, error)

ExchangeNext == Client \/ Server \/ Others
ExchangeSpec == ExchangeInit /\ [][ExchangeNext]_exchangeVars

----------------------------------------------------------------------------
(* Properties *)

ExchangeTypes ==
    /\ place \in {"new", "sent", "called", "answered"} /\ own \in BOOLEAN
    /\ answered \in {"none", "method", "refused", "plain", "proxy", "reset"}
    /\ said \in {Missing} \cup 0..16 /\ attached \in Contents
    /\ listener.code \in {Missing} \cup 0..16 /\ Len(listener.completed) <= 3

\* What a call is completed with first counts; TripleClientCall ignores the rest.
CompletedWith == listener.completed[1]

\* A call that the server answered, and that was not reset, is completed at the client,
\* with the status the server gave it: with or without messages before it, refused or
\* run. A status without messages is lost when the method attached a content type of its
\* own (client_stream.py 154-287, server_stream.py 88-115, 293-316).
StatusReported ==
    wire = <<>> /\ answered \in {"method", "refused"} /\ attached # "text/plain" =>
        /\ listener.completed # <<>>
        /\ CompletedWith = said

\* The client reports success only for a call whose method ended it with OK, whatever
\* answers in the server's place (client_stream.py 211-277, status.py 126-149).
OkIsServers ==
    OK \in ToSet(listener.completed) => said = OK /\ answered \in {"method", "reset"}

\* The requests of this package's invoker are never answered with plain text, and
\* refused only when there is no such method, or its name or its service's has a slash
\* (metadata.py 42-75, server_stream.py 139-233).
OwnIsServed ==
    own /\ answered \in {"plain", "refused"} =>
        /\ answered = "refused"
        /\ \/ Len(request.path) # 3
           \/ ~Handled(request.path[2], request.path[3])
=============================================================================
