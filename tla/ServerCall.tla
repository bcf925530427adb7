----------------------------- MODULE ServerCall -----------------------------
(***************************************************************************)
(* The calls of a server (protocol/triple): for each, a listener           *)
(* (ServerTransportListener, TriDecoder, TripleServerCall) that is given   *)
(* the frames of its stream one at a time, a read stream, and a method     *)
(* runner on a thread pool that all calls share.                           *)
(*                                                                         *)
(* Listener and runner are different threads; they share the read stream.  *)
(* A method is user code: it reads, writes, completes, returns or raises   *)
(* in any order its interface allows.                                      *)
(***************************************************************************)
EXTENDS TriDecoder, Integers, FiniteSets

CONSTANTS
    Calls,
    RpcType,      \* of the method of each call
    Requests,     \* of each call, the requests its client may send
    Refused,      \* payloads the decompressor or the deserializer raises on
    Threads,      \* SERVER_THREAD_POOL_SIZE, 10
    QueueSize,    \* of a read stream, 1000
    MaxReads,     \* bound of the reads of a method
    MaxWrites     \* bound of the messages a method writes

ASSUME ServerCallAssumption ==
    /\ Threads \in Nat \ {0} /\ QueueSize \in Nat \ {0}
    /\ MaxReads \in Nat /\ MaxWrites \in Nat
    /\ \A c \in Calls : RpcType[c] \in {"unary", "client_stream", "server_stream", "bi_stream"}

\* The bytes of a request.
Bytes(messages) == FlattenSeq([i \in DOMAIN messages |-> Encode(messages[i])])

ASSUME RequestsAreMessages ==
    \A c \in Calls : Requests[c] \subseteq Seq([flag : Nat, payload : Seq(Nat)])

VARIABLES
    request,      \* the messages the client means to send
    wire,         \* their bytes, as far as they are not sent
    peer,         \* the client's side: "idle", "open", "ended", "reset"
    listener,     \* the frame being handled, or what became of the listener
    ending,       \* the frame has END_STREAM
    decoder,
    storage,      \* TriReadStream._storage
    readDone,     \* TriReadStream._read_done
    pool,         \* the method executor's queue
    method,       \* the method runner's place
    resume,       \* where user code continues after a read
    reads,        \* what the method was given (history)
    writeDone,    \* TriServerWriteStream._write_done
    ops           \* what was posted on the stream

listenerVars == <<request, wire, peer, listener, ending, decoder>>
methodVars == <<pool, method, resume, reads, writeDone, ops>>
vars == <<listenerVars, storage, readDone, methodVars>>

\* No message: its bytes are natural numbers.
EOF == <<-1>>

Streaming(c) == RpcType[c] # "unary"
ServerStream(c) == RpcType[c] \in {"server_stream", "bi_stream"}

Init ==
    /\ request \in {r \in [Calls -> UNION Range(Requests)] : \A c \in Calls : r[c] \in Requests[c]}
    /\ wire = [c \in Calls |-> Bytes(request[c])]
    /\ peer = [c \in Calls |-> "idle"]
    /\ listener = [c \in Calls |-> "none"]
    /\ ending = [c \in Calls |-> FALSE]
    /\ decoder = [c \in Calls |-> NewDecoder]
    /\ storage = [c \in Calls |-> <<>>]
    /\ readDone = [c \in Calls |-> FALSE]
    /\ pool = <<>>
    /\ method = [c \in Calls |-> "none"]
    /\ resume = [c \in Calls |-> "func"]
    /\ reads = [c \in Calls |-> <<>>]
    /\ writeDone = [c \in Calls |-> FALSE]
    /\ ops = [c \in Calls |-> <<>>]

----------------------------------------------------------------------------
(* The listener.  A frame comes only when the one before it was handled     *)
(* without an exception.                                                    *)

Listen(c, place) == listener' = [listener EXCEPT ![c] = place]

\* Headers that are refused, for their method, content type, path, service or
\* encoding, are answered at once.
RefuseHeaders(c) ==
    /\ peer[c] = "idle"
    /\ \E end \in BOOLEAN : peer' = [peer EXCEPT ![c] = IF end THEN "ended" ELSE "open"]
    /\ ops' = [ops EXCEPT ![c] = <<"trailers">>]
    /\ UNCHANGED <<request, wire, listener, ending, decoder, storage, readDone,
                   pool, method, resume, reads, writeDone>>

\* A request without data is ignored: nothing runs, nothing is answered.
IgnoreHeaders(c) ==
    /\ peer[c] = "idle"
    /\ peer' = [peer EXCEPT ![c] = "ended"]
    /\ UNCHANGED <<request, wire, listener, ending, decoder, storage, readDone, methodVars>>

OnHeaders(c) ==
    /\ peer[c] = "idle"
    /\ peer' = [peer EXCEPT ![c] = "open"]
    /\ Listen(c, "idle")
    /\ method' = [method EXCEPT ![c] = "queued"]
    /\ pool' = Append(pool, c)
    /\ UNCHANGED <<request, wire, ending, decoder, storage, readDone, resume, reads,
                   writeDone, ops>>

\* The next n bytes of the request, or fewer than all of them with END_STREAM.
OnData(c, n, end) ==
    /\ peer[c] = "open" /\ listener[c] = "idle"
    /\ n > 0 \/ end
    /\ decoder' = [decoder EXCEPT ![c] = Feed(@, SubSeq(wire[c], 1, n))]
    /\ wire' = [wire EXCEPT ![c] = SubSeq(@, n + 1, Len(@))]
    /\ peer' = [peer EXCEPT ![c] = IF end THEN "ended" ELSE "open"]
    /\ ending' = [ending EXCEPT ![c] = end]
    /\ Listen(c, "decoding")
    /\ UNCHANGED <<request, storage, readDone, methodVars>>

DecodeHeader(c) ==
    /\ listener[c] = "decoding" /\ AtHeader(decoder[c])
    /\ IF Malformed(decoder[c])
       THEN Listen(c, "failed") /\ UNCHANGED decoder
       ELSE /\ decoder' = [decoder EXCEPT ![c] = ProcessHeader(@)]
            /\ UNCHANGED listener
    /\ UNCHANGED <<request, wire, peer, ending, storage, readDone, methodVars>>

Full(c) == Len(storage[c]) >= QueueSize

\* An empty message is the client's end of writing, not a message.
OnMessage(c) ==
    /\ listener[c] = "decoding" /\ AtPayload(decoder[c])
    /\ LET payload == Cut(decoder[c])
       IN  \/ /\ payload = <<>>
              /\ UNCHANGED <<listener, storage>>
           \/ /\ payload # <<>> /\ (payload \in Refused \/ Full(c))
              /\ Listen(c, "failed")
              /\ UNCHANGED storage
           \/ /\ payload # <<>> /\ payload \notin Refused /\ ~Full(c)
              /\ storage' = [storage EXCEPT ![c] = Append(@, payload)]
              /\ UNCHANGED listener
    /\ decoder' = [decoder EXCEPT ![c] = ProcessPayload(@)]
    /\ UNCHANGED <<request, wire, peer, ending, readDone, methodVars>>

NoFlag(c) == UNCHANGED readDone
\* put_eof sets the flag first; the queue may be full.
EndReading(c) == readDone' = [readDone EXCEPT ![c] = TRUE]

\* END_STREAM closes the decoder, once its bytes are used up.
Closes(c) == ending[c]

DecodeEnds(c) ==
    /\ listener[c] = "decoding" /\ ~HasEnoughBytes(decoder[c])
    /\ IF Closes(c) THEN Listen(c, "ends") /\ EndReading(c)
                    ELSE Listen(c, "idle") /\ UNCHANGED readDone
    /\ UNCHANGED <<request, wire, peer, ending, decoder, storage, methodVars>>

\* cancel_by_remote ends the read stream, too; that it raises afterwards is
\* not seen, no frame follows a reset.
OnCancelByRemote(c) ==
    /\ peer[c] = "open" /\ listener[c] = "idle"
    /\ peer' = [peer EXCEPT ![c] = "reset"]
    /\ Listen(c, "ends") /\ EndReading(c)
    /\ UNCHANGED <<request, wire, ending, decoder, storage, methodVars>>

PutEof(c) ==
    /\ listener[c] = "ends"
    /\ IF Full(c) THEN UNCHANGED storage
                  ELSE storage' = [storage EXCEPT ![c] = Append(@, EOF)]
    /\ Listen(c, "done")
    /\ UNCHANGED <<request, wire, peer, ending, decoder, readDone, methodVars>>

Listener(c) == DecodeHeader(c) \/ OnMessage(c) \/ DecodeEnds(c) \/ PutEof(c)

----------------------------------------------------------------------------
(* The method runner.                                                       *)

Goto(c, place) == method' = [method EXCEPT ![c] = place]

Running == {c \in Calls : method[c] \notin {"none", "queued", "done"}}

\* A unary method is given the first message, the others their stream.
Start ==
    /\ pool # <<>> /\ Cardinality(Running) < Threads
    /\ LET c == Head(pool) IN Goto(c, IF Streaming(c) THEN "func" ELSE "read")
    /\ pool' = Tail(pool)
    /\ UNCHANGED <<listenerVars, storage, readDone, resume, reads, writeDone, ops>>

Got(c, data) ==
    /\ reads' = [reads EXCEPT ![c] = Append(@, data)]
    /\ Goto(c, resume[c])
    /\ UNCHANGED <<listenerVars, readDone, pool, resume, writeDone, ops>>

\* After the end the queue is not waited for.
MayWait(c) == ~(readDone[c] /\ storage[c] = <<>>)

Read(c) ==
    /\ method[c] = "read"
    /\ \/ ~MayWait(c) /\ Got(c, EOF) /\ UNCHANGED storage
       \/ /\ MayWait(c) /\ Goto(c, "get")
          /\ UNCHANGED <<listenerVars, storage, readDone, pool, resume, reads, writeDone, ops>>

Get(c) ==
    /\ method[c] = "get"
    /\ storage[c] # <<>>
    /\ storage' = [storage EXCEPT ![c] = Tail(@)]
    /\ Got(c, Head(storage[c]))

\* The method, or the iteration of the generator it returned.
InUserCode(c) == method[c] \in {"func", "iterate"}

UserReads(c) ==
    /\ InUserCode(c) /\ Streaming(c)
    /\ Len(reads[c]) < MaxReads
    /\ Goto(c, "read") /\ resume' = [resume EXCEPT ![c] = method[c]]
    /\ UNCHANGED <<listenerVars, storage, readDone, pool, reads, writeDone, ops>>

Written(c) == Len(SelectSeq(ops[c], LAMBDA op : op = "data"))

\* The headers go before the first message, once.
Headers(c) == IF ops[c] = <<>> THEN <<"headers">> ELSE <<>>

\* write: the headers are sent before the message is serialized.
WriteMessage(c) ==
    /\ ~writeDone[c]
    /\ ops' = [ops EXCEPT ![c] = @ \o Headers(c) \o <<"data">>]
    /\ UNCHANGED writeDone

WriteRaises(c) ==
    /\ \/ writeDone[c] /\ UNCHANGED ops
       \/ ~writeDone[c] /\ ops' = [ops EXCEPT ![c] = @ \o Headers(c)]
    /\ UNCHANGED writeDone

\* done_writing
Complete(c) ==
    /\ ops' = [ops EXCEPT ![c] = Append(@, "trailers")]
    /\ writeDone' = [writeDone EXCEPT ![c] = TRUE]

UserWrites(c) ==
    /\ InUserCode(c) /\ Streaming(c)
    /\ \/ Written(c) < MaxWrites /\ WriteMessage(c) /\ UNCHANGED method
       \/ WriteRaises(c) /\ (UNCHANGED method \/ Goto(c, "error"))
    /\ UNCHANGED <<listenerVars, storage, readDone, pool, resume, reads>>

UserCompletes(c) ==
    /\ InUserCode(c) /\ Streaming(c)
    /\ \/ ~writeDone[c] /\ Complete(c) /\ UNCHANGED method
       \/ writeDone[c] /\ Goto(c, "error") /\ UNCHANGED <<ops, writeDone>>
    /\ UNCHANGED <<listenerVars, storage, readDone, pool, resume, reads>>

UserRaises(c) ==
    /\ InUserCode(c)
    /\ Goto(c, "error")
    /\ UNCHANGED <<listenerVars, storage, readDone, pool, resume, reads, writeDone, ops>>

\* A method that completed its call itself has nothing left to write.
NothingToWrite(c) == writeDone[c]

UserReturns(c) ==
    /\ method[c] = "func"
    /\ Goto(c, IF NothingToWrite(c) THEN "done"
               ELSE IF ServerStream(c) THEN "iterate" ELSE "result")
    /\ UNCHANGED <<listenerVars, storage, readDone, pool, resume, reads, writeDone, ops>>

\* handle_result: one result, or the messages the returned iterator yields.
WriteResult(c) ==
    /\ method[c] = "result" \/ (method[c] = "iterate" /\ Written(c) < MaxWrites)
    /\ \/ WriteMessage(c) /\ Goto(c, IF ServerStream(c) THEN "iterate" ELSE "finish")
       \/ WriteRaises(c) /\ Goto(c, "error")
    /\ UNCHANGED <<listenerVars, storage, readDone, pool, resume, reads>>

IterationEnds(c) ==
    /\ method[c] = "iterate"
    /\ Goto(c, "finish")
    /\ UNCHANGED <<listenerVars, storage, readDone, pool, resume, reads, writeDone, ops>>

FinishResult(c) ==
    /\ method[c] = "finish"
    /\ IF writeDone[c] THEN Goto(c, "error") /\ UNCHANGED <<ops, writeDone>>
                       ELSE Goto(c, "done") /\ Complete(c)
    /\ UNCHANGED <<listenerVars, storage, readDone, pool, resume, reads>>

AnswersAlways(c) == TRUE
AnswersUnsent(c) == ops[c] = <<>>
\* handle_exception: nothing more can be said once the call is complete.
MayAnswerError(c) == ~writeDone[c]

HandleException(c) ==
    /\ method[c] = "error"
    /\ Goto(c, "done")
    /\ IF MayAnswerError(c) THEN Complete(c) ELSE UNCHANGED <<ops, writeDone>>
    /\ UNCHANGED <<listenerVars, storage, readDone, pool, resume, reads>>

UserCode(c) == UserReads(c) \/ UserWrites(c) \/ UserCompletes(c) \/ UserRaises(c)
               \/ UserReturns(c) \/ IterationEnds(c)
Runner(c) == Read(c) \/ Get(c) \/ WriteResult(c) \/ FinishResult(c) \/ HandleException(c)

Next ==
    \/ \E c \in Calls :
         \/ RefuseHeaders(c) \/ IgnoreHeaders(c) \/ OnHeaders(c) \/ OnCancelByRemote(c)
         \/ \E n \in 0..Len(wire[c]), end \in BOOLEAN : OnData(c, n, end)
         \/ Listener(c) \/ UserCode(c) \/ Runner(c)
    \/ Start

Spec == Init /\ [][Next]_vars

----------------------------------------------------------------------------
(* Properties *)

TypeOK ==
    /\ \A c \in Calls : request[c] \in Requests[c]
    /\ peer \in [Calls -> {"idle", "open", "ended", "reset"}]
    /\ listener \in [Calls -> {"none", "idle", "decoding", "ends", "failed", "done"}]
    /\ ending \in [Calls -> BOOLEAN] /\ readDone \in [Calls -> BOOLEAN]
    /\ writeDone \in [Calls -> BOOLEAN]
    /\ \A c \in Calls : Len(storage[c]) <= QueueSize
    /\ pool \in Seq(Calls)
    /\ method \in [Calls -> {"none", "queued", "func", "iterate", "read", "get",
                             "result", "finish", "error", "done"}]
    /\ resume \in [Calls -> {"func", "iterate"}]
    /\ \A c \in Calls : ToSet(ops[c]) \subseteq {"headers", "data", "trailers"}

\* The messages a method can be given are those with contents.
Without(s, a) == FlattenSeq([i \in DOMAIN s |-> IF s[i] = a THEN <<>> ELSE <<s[i]>>])

Messages(c) == Without([i \in DOMAIN request[c] |-> request[c][i].payload], <<>>)

Given(c) == Without(reads[c] \o storage[c], EOF)

\* However the bytes are cut into frames, a method is given the messages of its
\* request in order, none lost, repeated, or after the end; and EOF means the end: a
\* method that read it was given all the messages, unless the client reset the stream
\* or ended it early.
GivenInOrder == \A c \in Calls :
    /\ IsPrefix(Given(c), Messages(c))
    /\ \A i \in DOMAIN reads[c] : reads[c][i] = EOF =>
         /\ \A j \in DOMAIN reads[c] : j >= i => reads[c][j] = EOF
         /\ \/ peer[c] = "reset"
            \/ peer[c] = "ended" /\ wire[c] # <<>>
            \/ Given(c) = Messages(c)

\* What is posted on a stream is what its sending side accepts: headers first,
\* then messages, the trailers last and once, whatever the method does.
AnswerWellFormed == \A c \in Calls : \A i \in DOMAIN ops[c] :
    /\ ops[c][i] = "headers" <=> (i = 1 /\ ops[c] # <<"trailers">>)
    /\ ops[c][i] = "trailers" => i = Len(ops[c])

\* No lost wakeup: a method waits only while the listener can still put
\* something or has raised, never for an end that was put into a full queue or
\* flagged between its check and its wait.
EndIsSeen == \A c \in Calls :
    method[c] = "get" /\ storage[c] = <<>> => listener[c] # "done"

\* A method that ran to its end, an exception on whatever path included, has
\* left its call answered.
EndedIsAnswered == \A c \in Calls :
    method[c] = "done" => "trailers" \in ToSet(ops[c])
=============================================================================
