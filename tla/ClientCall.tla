----------------------------- MODULE ClientCall -----------------------------
(***************************************************************************)
(* One call of a client (protocol/triple): the thread that invokes it and  *)
(* the thread that handles the frames of its stream share a                *)
(* TripleClientCall, without a lock.  Each reads _done, and then acts.     *)
(*                                                                         *)
(* A unary call completes a future; the other kinds fill a read stream.    *)
(* Both end in on_close.  DATA carries whole messages here: ServerCall has *)
(* the decoder.                                                            *)
(***************************************************************************)
EXTENDS Integers, Sequences, FiniteSets, SequencesExt

CONSTANTS
    RpcTypes,     \* the kinds of call explored
    MaxWrites,    \* bound of the messages a caller writes
    MaxMessages,  \* bound of the messages a server sends
    MaxResets,    \* bound of the resets posted by a listener
    QueueSize     \* of the read stream, 1000

ASSUME ClientCallAssumption ==
    /\ RpcTypes \subseteq {"unary", "client_stream", "server_stream", "bi_stream"}
    /\ MaxWrites \in Nat /\ MaxMessages \in Nat /\ MaxResets \in Nat
    /\ QueueSize \in Nat \ {0}

VARIABLES
    rpcType,
    pc,               \* of each thread, "caller" and "listener"
    status,           \* of each thread: the status it closes the call with
    \* TripleClientCall and TriClientWriteStream
    headersSent, done, writeDone,
    writes,           \* messages the caller has begun to write
    last,             \* the message being written is the last one
    \* Http2Stream
    ops,              \* what was posted on the stream
    localClosed,
    \* ClientTransportListener
    peer,             \* the server's side: "idle", "open", "ended", "reset"
    rpcStatus,        \* _rpc_status: "none", "ok" or "error"
    headersReceived, decoder,
    received,         \* number of messages received
    \* the call's result
    future,           \* "pending", "result" or "exception"
    message,          \* FutureToClientCallListenerAdapter._message
    storage, readDone,  \* TriReadStream
    \* history
    faults            \* what went wrong on this side

callVars == <<headersSent, done, writeDone, writes, last>>
streamVars == <<ops, localClosed>>
peerVars == <<peer, rpcStatus, headersReceived, decoder, received>>
resultVars == <<future, message, storage, readDone>>
vars == <<rpcType, pc, status, callVars, streamVars, peerVars, resultVars, faults>>

Threads == {"caller", "listener"}

Faults == {"unserializable",   \* the caller's message cannot be serialized
           "undeserializable", \* a message of the server cannot be deserialized
           "too_large",        \* the encoder refuses the caller's message
           "overflow",         \* the read stream is full
           "closed_twice"}     \* the future was already completed

Unary == rpcType = "unary"
\* invoke itself writes the only message of these calls, and completes them.
OneMessage == rpcType \in {"unary", "server_stream"}

Init ==
    /\ rpcType \in RpcTypes
    /\ pc = [t \in Threads |-> "ready"]
    /\ status = [t \in Threads |-> "none"]
    /\ headersSent = FALSE /\ done = FALSE /\ writeDone = FALSE
    /\ writes = 0 /\ last = FALSE
    /\ ops = <<>> /\ localClosed = FALSE
    /\ peer = "idle" /\ rpcStatus = "none"
    /\ headersReceived = FALSE /\ decoder = FALSE /\ received = 0
    /\ future = "pending" /\ message = 0 /\ storage = <<>> /\ readDone = FALSE
    /\ faults = {}

Goto(t, label) == pc' = [pc EXCEPT ![t] = label]
Close(t, label, st) == Goto(t, label) /\ status' = [status EXCEPT ![t] = st]

----------------------------------------------------------------------------
(* The caller.                                                              *)

HeadersFirst == ~headersSent

\* send_message: a call that is done drops the message; else the headers go
\* before the first one.
SendMessage(end) ==
    /\ pc["caller"] = "ready" /\ ~writeDone
    /\ IF end THEN OneMessage => writes = 1
              ELSE writes < IF OneMessage THEN 1 ELSE MaxWrites
    /\ writes' = IF end THEN writes ELSE writes + 1
    /\ \/ /\ done
          /\ writeDone' = end
          /\ UNCHANGED <<pc, headersSent, last, ops>>
       \/ /\ ~done
          /\ Goto("caller", "serialize") /\ last' = end
          /\ headersSent' = TRUE
          /\ ops' = IF HeadersFirst THEN Append(ops, "headers") ELSE ops
          /\ UNCHANGED writeDone
    /\ UNCHANGED <<rpcType, status, done, localClosed, peerVars, resultVars, faults>>

\* send_data refuses a stream that was closed meanwhile.
PostMessage ==
    /\ pc["caller"] = "serialize"
    /\ \/ /\ ~localClosed
          /\ ops' = Append(ops, IF last THEN "end" ELSE "data")
          /\ writeDone' = last
          /\ Goto("caller", "ready")
       \/ /\ localClosed
          /\ Goto("caller", "raised")
          /\ UNCHANGED <<ops, writeDone>>
    /\ UNCHANGED <<rpcType, status, headersSent, done, writes, last, localClosed, peerVars,
                   resultVars, faults>>

\* Only a SerializationError is handled; the stream of a message that is too
\* large stays open.  The end of writing is an empty message, which is neither.
SerializeFails ==
    /\ pc["caller"] = "serialize" /\ ~last
    /\ \/ Close("caller", "cancel", "error") /\ faults' = faults \cup {"unserializable"}
       \/ Close("caller", "raised", "none") /\ faults' = faults \cup {"too_large"}
    /\ UNCHANGED <<rpcType, callVars, streamVars, peerVars, resultVars>>

\* A caller that holds its stream may write on after an exception.
WriteOn ==
    /\ pc["caller"] = "raised" /\ ~OneMessage
    /\ Goto("caller", "ready")
    /\ UNCHANGED <<rpcType, status, callVars, streamVars, peerVars, resultVars, faults>>

----------------------------------------------------------------------------
(* Ending the call.  cancel_by_local sets _done if it is not set; its       *)
(* callers close the listener either way.  on_complete closes only if it    *)
(* was the one to set _done.                                                *)

Cancel(t) ==
    /\ pc[t] = "cancel"
    /\ Goto(t, IF ~done THEN "cancelling" ELSE "close")
    /\ UNCHANGED <<rpcType, status, callVars, streamVars, peerVars, resultVars, faults>>

Reset == IF localClosed THEN ops ELSE Append(ops, "rst")

Cancelling(t) ==
    /\ pc[t] = "cancelling"
    /\ Goto(t, "close")
    /\ done' = TRUE
    /\ ops' = Reset
    /\ UNCHANGED <<rpcType, status, headersSent, writeDone, writes, last, localClosed,
                   peerVars, resultVars, faults>>

\* Trailers without headers are a transport error, too: after the call was
\* completed the stream is reset, and the call completed again.
Continue(t) == IF t = "listener" /\ peer = "trailers_only" THEN "transport" ELSE "ready"

CompletesAlways == TRUE
MayComplete == ~done

Complete ==
    /\ pc["listener"] = "complete"
    /\ Goto("listener", IF MayComplete THEN "completing" ELSE Continue("listener"))
    /\ UNCHANGED <<rpcType, status, callVars, streamVars, peerVars, resultVars, faults>>

Completing ==
    /\ pc["listener"] = "completing"
    /\ Goto("listener", "close") /\ done' = TRUE
    /\ UNCHANGED <<rpcType, status, headersSent, writeDone, writes, last, streamVars,
                   peerVars, resultVars, faults>>

TransportError ==
    /\ pc["listener"] = "transport"
    /\ Goto("listener", "complete")
    /\ ops' = Reset /\ peer' = "ended"
    /\ UNCHANGED <<rpcType, status, callVars, localClosed, rpcStatus, headersReceived,
                   decoder, received, resultVars, faults>>

\* FutureToClientCallListenerAdapter.on_close: a future is completed once,
\* the second attempt raises.
CloseFuture(t) ==
    /\ Unary
    /\ IF future = "pending"
       THEN /\ future' = IF status[t] = "ok" THEN "result" ELSE "exception"
            /\ Goto(t, Continue(t)) /\ UNCHANGED faults
       ELSE /\ Goto(t, "raised") /\ faults' = faults \cup {"closed_twice"}
            /\ UNCHANGED future
    /\ UNCHANGED <<storage, readDone>>

Full == Len(storage) >= QueueSize
EOF == 0

\* ReadStreamToClientCallListenerAdapter.on_close: both ways end the read
\* stream, and the exception of an error is raised here, not at the reader.
CloseReadStream(t) ==
    /\ ~Unary
    /\ readDone' = TRUE
    /\ storage' = IF readDone \/ Full THEN storage ELSE Append(storage, EOF)
    /\ Goto(t, IF status[t] # "ok" \/ (Full /\ ~readDone) THEN "raised" ELSE Continue(t))
    /\ UNCHANGED <<future, faults>>

OnClose(t) ==
    /\ pc[t] = "close"
    /\ CloseFuture(t) \/ CloseReadStream(t)
    /\ UNCHANGED <<rpcType, status, callVars, streamVars, peerVars, message>>

----------------------------------------------------------------------------
(* The listener is given the frames of the server one at a time, and none   *)
(* after it raised.  A server may answer at any time.                       *)

Frame == pc["listener"] = "ready" /\ UNCHANGED <<rpcType, callVars, resultVars, faults>>

OnHeaders ==
    /\ Frame
    /\ peer = "idle" /\ headersSent
    /\ peer' = "open" /\ headersReceived' = TRUE
    \* A content type, HTTP status or encoding that is not supported.
    /\ \/ rpcStatus' = "error" /\ UNCHANGED decoder
       \/ decoder' = TRUE /\ UNCHANGED rpcStatus
    /\ UNCHANGED <<pc, status, streamVars, received>>

Overwrites(st) == st
\* A status found earlier stays.
FirstStatus(st) == IF rpcStatus = "none" THEN st ELSE rpcStatus

NotClosing(st) == Goto("listener", "ready") /\ UNCHANGED status
\* With or without a decoder, trailers complete the call.
CloseCall(st) == Close("listener", "complete", st)

OnTrailers(st) ==
    /\ Frame
    /\ peer \in {"idle", "open"} /\ headersSent
    /\ peer' = IF headersReceived THEN "ended" ELSE "trailers_only"
    /\ rpcStatus' = FirstStatus(st)
    /\ CloseCall(FirstStatus(st))
    /\ UNCHANGED <<streamVars, headersReceived, decoder, received>>

CancelByRemote ==
    /\ Frame
    /\ peer \in {"idle", "open"} /\ headersSent
    /\ peer' = "reset" /\ rpcStatus' = "error"
    /\ Close("listener", "complete", "error")
    /\ UNCHANGED <<streamVars, headersReceived, decoder, received>>

Resets == Len(SelectSeq(ops, LAMBDA op : op = "rst"))

\* DATA of a stream whose headers were invalid describes the error; at its end,
\* or when there is enough of it, the call is given up, with every frame again.
OnErrorData(end) ==
    /\ Frame /\ Resets < MaxResets
    /\ peer = "open" /\ rpcStatus = "error"
    /\ peer' = IF end THEN "ended" ELSE "open"
    /\ \/ ops' = Reset /\ Close("listener", "complete", "error")
       \/ ~end /\ UNCHANGED <<ops, pc, status>>
    /\ UNCHANGED <<localClosed, rpcStatus, headersReceived, decoder, received>>

\* DATA that completes a message, or none; END_STREAM without trailers is
\* not looked at.
OnData(complete, end) ==
    /\ Frame
    /\ peer = "open" /\ decoder /\ rpcStatus = "none"
    /\ peer' = IF end THEN "ended" ELSE "open"
    /\ IF complete THEN received < MaxMessages /\ received' = received + 1
                   ELSE UNCHANGED received
    /\ Goto("listener", IF complete /\ ~done THEN "message" ELSE "ready")
    /\ UNCHANGED <<status, streamVars, rpcStatus, headersReceived, decoder>>

\* A status that is not a number, a message the decoder refuses, an error text
\* that is not UTF-8: the listener raises, and is given no frame any more.
OnMalformed(end) ==
    /\ Frame
    /\ peer \in {"idle", "open"} /\ headersSent
    /\ peer' = IF end THEN "ended" ELSE "open"
    /\ Goto("listener", "raised")
    /\ UNCHANGED <<status, streamVars, rpcStatus, headersReceived, decoder, received>>

OnMessage ==
    /\ pc["listener"] = "message"
    /\ \/ /\ Unary \/ readDone
          /\ message' = IF Unary THEN received ELSE message
          /\ Goto("listener", "ready") /\ UNCHANGED <<storage, status, faults>>
       \/ /\ ~Unary /\ ~readDone /\ ~Full
          /\ storage' = Append(storage, received)
          /\ Goto("listener", "ready") /\ UNCHANGED <<message, status, faults>>
       \/ /\ ~Unary /\ ~readDone /\ Full
          /\ Goto("listener", "raised") /\ faults' = faults \cup {"overflow"}
          /\ UNCHANGED <<message, storage, status>>
       \/ /\ Close("listener", "cancel", "error")
          /\ faults' = faults \cup {"undeserializable"}
          /\ UNCHANGED <<message, storage>>
    /\ UNCHANGED <<rpcType, callVars, streamVars, peerVars, future, readDone>>

----------------------------------------------------------------------------
(* The reader takes messages; the loop closes the local side after the last *)
(* frame or a reset.                                                        *)

Read ==
    /\ storage # <<>> /\ storage' = Tail(storage)
    /\ UNCHANGED <<rpcType, pc, status, callVars, streamVars, peerVars, future, message,
                   readDone, faults>>

CloseLocal ==
    /\ ~localClosed /\ {"end", "rst"} \cap ToSet(ops) # {}
    /\ localClosed' = TRUE
    /\ UNCHANGED <<rpcType, pc, status, callVars, ops, peerVars, resultVars, faults>>

Frames ==
    \/ OnHeaders \/ CancelByRemote
    \/ \E st \in {"ok", "error"} : OnTrailers(st)
    \/ \E end \in BOOLEAN : OnErrorData(end) \/ OnMalformed(end)
    \/ \E complete, end \in BOOLEAN : OnData(complete, end)

Step(t) == Cancel(t) \/ Cancelling(t) \/ OnClose(t)
Caller == (\E end \in BOOLEAN : SendMessage(end)) \/ PostMessage \/ SerializeFails \/ WriteOn
Listener == OnMessage \/ Complete \/ Completing \/ TransportError

Next == Caller \/ Listener \/ Frames \/ Read \/ CloseLocal \/ \E t \in Threads : Step(t)

Spec == Init /\ [][Next]_vars

\* Threads run.  The server, the reader and the writes of the caller are free.
Fairness ==
    /\ \A t \in Threads : WF_vars(Step(t))
    /\ WF_vars(Listener) /\ WF_vars(PostMessage \/ SerializeFails)

FairSpec == Spec /\ Fairness

----------------------------------------------------------------------------
(* Properties *)

Labels == {"ready", "serialize", "raised", "cancel", "cancelling", "close",
           "complete", "completing", "transport", "message"}

TypeOK ==
    /\ rpcType \in RpcTypes
    /\ pc \in [Threads -> Labels]
    /\ status \in [Threads -> {"none", "ok", "error"}]
    /\ headersSent \in BOOLEAN /\ done \in BOOLEAN /\ writeDone \in BOOLEAN
    /\ writes \in Nat /\ last \in BOOLEAN
    /\ ops \in Seq({"headers", "data", "end", "rst"}) /\ localClosed \in BOOLEAN
    /\ peer \in {"idle", "open", "trailers_only", "ended", "reset"}
    /\ rpcStatus \in {"none", "ok", "error"}
    /\ headersReceived \in BOOLEAN /\ decoder \in BOOLEAN /\ received \in Nat
    /\ future \in {"pending", "result", "exception"} /\ message \in Nat
    /\ storage \in Seq(Nat) /\ Len(storage) <= QueueSize /\ readDone \in BOOLEAN
    /\ faults \subseteq Faults

\* A future has a result only if the server said OK in trailers, the headers
\* were valid, and nothing failed to be deserialized; the result is the last
\* message of the server.
ResultIsServers == future = "result" =>
    /\ rpcStatus = "ok" /\ peer \in {"ended", "trailers_only"}
    /\ headersReceived => decoder
    /\ "undeserializable" \notin faults
    /\ message = received

\* The future is completed twice only when a message of the caller could not
\* be serialized, and the answer came all the same: frames alone, whatever
\* their order and contents, complete it once.
CompletedOnce == "closed_twice" \in faults => "unserializable" \in faults

\* What the stream is given is what its sending side accepts: headers first
\* and once, and no message after the last one.
RequestWellFormed == \A i \in DOMAIN ops :
    /\ ops[i] = "headers" <=> i = 1
    /\ ops[i] = "end" => \A j \in i + 1..Len(ops) : ops[j] = "rst"

Reported == future # "pending" \/ readDone

\* The listener was given the server's last frame and has a status: a reset, trailers
\* with any status, after valid headers, invalid ones or none, or the end of the
\* text that follows invalid headers.  END_STREAM on DATA alone is no end of the call:
\* on_data does not look at it.
ServerEnded == peer \in {"reset", "trailers_only"} \/ (peer = "ended" /\ rpcStatus # "none")

\* The listener raised before it had a status to close the call with: on a frame that is
\* malformed, or a message that found the read stream full.  It is given no frame any more.
ListenerLost == pc["listener"] = "raised" /\ status["listener"] = "none"

\* A call that its server ended, whatever its status, and one whose message could not
\* be converted, are reported to whoever waits for the result: no interleaving of the
\* two threads leaves the report to a thread that skips it.  The one exception is an end
\* that comes to a listener which raises in on_headers, on_data or on_message itself.
CallEnds ==
    /\ ServerEnded ~> (Reported \/ ListenerLost)
    /\ ({"unserializable", "undeserializable"} \cap faults # {}) ~> Reported
=============================================================================
