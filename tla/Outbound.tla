------------------------------ MODULE Outbound ------------------------------
(***************************************************************************)
(* FrameOutboundController (remoting/aio/http2/controllers.py) and the     *)
(* sending side of DefaultHttp2Stream (stream.py), one instance per        *)
(* stream, over the connection's RemoteFlowController.                     *)
(*                                                                         *)
(* The threads of the callers post callbacks to the event loop with        *)
(* call_soon_threadsafe; the coroutine of each stream sends the headers,   *)
(* then the queued data, then the trailers.                                *)
(***************************************************************************)
EXTENDS Integers, Sequences, FiniteSets

CONSTANTS
    Streams, InitialWindow, ConnWindow, MaxWindow, MaxBytes,
    Rivals,         \* streams seen only through their writes to the flow controller
    Sides           \* the sides explored: TRUE for a client, FALSE for a server

VARIABLES
    held, data, endStream, event, queue, blocked, task, localClosed,
    streamWindow, connWindow, marks, accepted, sent, writes, fired, settings

FC == INSTANCE FlowControl WITH EndFlags <- BOOLEAN, SettingsDeltas <- {}

ASSUME OutboundAssumption ==
    /\ IsFiniteSet(Streams) /\ Rivals \subseteq Streams /\ Sides \subseteq BOOLEAN
    /\ InitialWindow \in Nat /\ ConnWindow \in Nat /\ MaxWindow \in Nat
    /\ MaxBytes \in Nat \ {0}

\* The streams whose controllers are modelled.
Calls == Streams \ Rivals

VARIABLES
    clientSide,     \* which side of the connection this is
    caller,         \* what the call layer has sent: "new", "open", "done"
    cancelled,      \* the call layer has called cancel_by_local
    given,          \* bytes passed to send_data (history)
    callbacks,      \* operations posted to the loop, not yet run
    known,          \* the streams with an id (id # -1)
    headers,        \* _headers: "none", "open", or "end" with END_STREAM
    dataQueue,      \* _data_queue: writes, and LAST_DATA_FRAME
    dataSent,       \* _data_sent_event: a write's event; 0 is the initial one
    pc              \* the coroutine _run

flowVars == <<held, data, endStream, event, queue, blocked, task, localClosed,
              streamWindow, connWindow, marks, accepted, sent, writes, fired,
              settings>>
callVars == <<caller, cancelled, given>>
ctlVars  == <<known, headers, dataQueue, dataSent, pc>>
vars     == <<flowVars, clientSide, callVars, callbacks, ctlVars>>

Op(kind, n, end) == [kind |-> kind, n |-> n, end |-> end]
LastDataFrame == Op("last", 0, FALSE)

Init ==
    /\ FC!Init
    /\ clientSide \in Sides
    /\ caller = [s \in Streams |-> "new"]
    /\ cancelled = [s \in Streams |-> FALSE]
    /\ given = [s \in Streams |-> 0]
    /\ callbacks = [s \in Streams |-> <<>>]
    \* The server creates a stream with the id of the request.
    /\ known = IF clientSide THEN Rivals ELSE Streams
    /\ headers = [s \in Streams |-> "none"]
    /\ dataQueue = [s \in Streams |-> <<>>]
    /\ dataSent = [s \in Streams |-> 0]
    /\ pc = [s \in Streams |-> "headers"]

----------------------------------------------------------------------------
(* The call layer, on its own threads: every operation checks               *)
(* local_closed and posts a callback; what it checked may change before the *)
(* callback runs.                                                           *)

Post(s, op) ==
    /\ ~localClosed[s]
    /\ callbacks' = [callbacks EXCEPT ![s] = Append(@, op)]
    /\ UNCHANGED <<flowVars, clientSide, ctlVars>>

\* A server whose call fails before a message answers with headers alone.
SendHeaders(s, end) ==
    /\ caller[s] = "new" /\ (end => ~clientSide)
    /\ Post(s, Op("headers", 0, end))
    /\ caller' = [caller EXCEPT ![s] = IF end THEN "done" ELSE "open"]
    /\ UNCHANGED <<cancelled, given>>

\* A client ends its side with a last message, a server with trailers.
SendData(s, n, end) ==
    /\ caller[s] = "open" /\ (end => clientSide)
    /\ given[s] + n <= MaxBytes
    /\ Post(s, Op("data", n, end))
    /\ given' = [given EXCEPT ![s] = @ + n]
    /\ caller' = [caller EXCEPT ![s] = IF end THEN "done" ELSE "open"]
    /\ UNCHANGED cancelled

SendTrailers(s) ==
    /\ caller[s] = "open" /\ ~clientSide
    /\ Post(s, Op("headers", 0, TRUE))
    /\ caller' = [caller EXCEPT ![s] = "done"]
    /\ UNCHANGED <<cancelled, given>>

CancelByLocal(s) ==
    /\ ~cancelled[s] /\ caller[s] # "new"
    /\ Post(s, Op("rst", 0, FALSE))
    /\ cancelled' = [cancelled EXCEPT ![s] = TRUE]
    /\ UNCHANGED <<caller, given>>

----------------------------------------------------------------------------
(* The callbacks, in the order they were posted.                            *)

NextCallback(s, kind) ==
    /\ callbacks[s] # <<>> /\ Head(callbacks[s]).kind = kind
    /\ callbacks' = [callbacks EXCEPT ![s] = Tail(@)]
    /\ UNCHANGED <<clientSide, callVars>>

\* The first headers start the coroutine; the second are the trailers and
\* put the sentinel behind the data.
HeadersCallback(s) ==
    /\ NextCallback(s, "headers")
    /\ IF headers[s] = "none"
       THEN /\ headers' = [headers EXCEPT ![s] =
                             IF Head(callbacks[s]).end THEN "end" ELSE "open"]
            /\ UNCHANGED dataQueue
       ELSE /\ dataQueue' = [dataQueue EXCEPT ![s] = Append(@, LastDataFrame)]
            /\ UNCHANGED headers
    /\ UNCHANGED <<flowVars, known, dataSent, pc>>

DataCallback(s) ==
    /\ NextCallback(s, "data")
    /\ dataQueue' = [dataQueue EXCEPT ![s] = Append(@, Head(callbacks[s]))]
    /\ UNCHANGED <<flowVars, known, headers, dataSent, pc>>

\* The reset is dropped while the stream has no id.  On a stream the peer
\* has reset, h2 may raise before the local side is closed.
RstCallback(s) ==
    /\ NextCallback(s, "rst")
    /\ \/ s \in known /\ FC!LocalReset(s)
       \/ (s \notin known \/ "peer_rst" \in marks[s]) /\ UNCHANGED flowVars
    /\ UNCHANGED ctlVars

----------------------------------------------------------------------------
(* The coroutine.  close_local cancels it, so it runs only while the local  *)
(* side is open; h2 raises on a stream the peer has reset.                  *)

At(s, label) == pc[s] = label /\ ~localClosed[s]

Goto(s, label) == pc' = [pc EXCEPT ![s] = label]

Fails(s) ==
    /\ marks[s] # {}
    /\ Goto(s, "failed")
    /\ UNCHANGED flowVars

WriteHeaders(s) ==
    /\ At(s, "headers") /\ headers[s] # "none"
    /\ known' = known \cup {s}
    /\ \/ Fails(s)
       \/ headers[s] = "end" /\ FC!SendTrailers(s) /\ Goto(s, "done")
       \/ headers[s] = "open" /\ marks[s] = {} /\ Goto(s, "data") /\ UNCHANGED flowVars
    /\ UNCHANGED <<clientSide, callVars, callbacks, headers, dataQueue, dataSent>>

NextWrite(s) ==
    /\ At(s, "data")
    /\ dataQueue[s] # <<>>
    /\ dataQueue' = [dataQueue EXCEPT ![s] = Tail(@)]
    /\ UNCHANGED <<clientSide, callVars, callbacks, known, headers>>

\* The frame goes to the flow controller with an event of its own.
KeepEvent(s) == UNCHANGED dataSent
NewEvent(s) == dataSent' = [dataSent EXCEPT ![s] = writes[s] + 1]

ForwardData(s) ==
    /\ NextWrite(s)
    /\ LET frame == Head(dataQueue[s])
       IN  /\ frame.kind = "data"
           /\ FC!WriteData(s, frame.n, frame.end)
           /\ Goto(s, IF frame.end THEN "done" ELSE "data")
    /\ NewEvent(s)

ReachLast(s) ==
    /\ NextWrite(s)
    /\ Head(dataQueue[s]).kind = "last"
    /\ Goto(s, "trailers")
    /\ UNCHANGED <<flowVars, dataSent>>

NoWait(s) == TRUE
\* Nothing ever sets the event the controller is created with.
LastDataSent(s) == dataSent[s] \in fired[s]

WriteTrailers(s) ==
    /\ At(s, "trailers")
    /\ LastDataSent(s)
    /\ \/ Fails(s)
       \/ FC!SendTrailers(s) /\ Goto(s, "done")
    /\ UNCHANGED <<clientSide, callVars, callbacks, known, headers, dataQueue, dataSent>>

----------------------------------------------------------------------------
(* The connection: its flow controller and its peer.                        *)

Own == <<clientSide, callVars, callbacks, ctlVars>>

Transmit(s) == FC!Transmit(s) /\ UNCHANGED Own

WindowUpdate ==
    /\ \E d \in 1..MaxWindow :
         \/ \E s \in Streams : FC!StreamWindowUpdate(s, d)
         \/ FC!ConnWindowUpdate(d)
    /\ UNCHANGED Own

\* A peer resets a stream once it knows of it.
PeerReset(s) ==
    /\ s \in known /\ "peer_rst" \notin marks[s]
    /\ FC!PeerReset(s)
    /\ UNCHANGED Own

ConnectionLost == FC!ConnectionLost /\ UNCHANGED Own

\* Other streams compete for the connection's window: one byte each (a bound).
RivalWrites(s) ==
    /\ writes[s] = 0
    /\ FC!WriteData(s, 1, FALSE)
    /\ UNCHANGED Own

Callers(s) ==
    \/ \E end \in BOOLEAN : SendHeaders(s, end)
    \/ \E n \in 1..MaxBytes, end \in BOOLEAN : SendData(s, n, end)
    \/ SendTrailers(s) \/ CancelByLocal(s)

Callback(s) == HeadersCallback(s) \/ DataCallback(s) \/ RstCallback(s)

Run(s) == WriteHeaders(s) \/ ForwardData(s) \/ ReachLast(s) \/ WriteTrailers(s)

Next ==
    \/ \E s \in Calls : Callers(s) \/ Callback(s) \/ Run(s)
    \/ \E s \in Rivals : RivalWrites(s)
    \/ \E s \in Streams : Transmit(s) \/ PeerReset(s)
    \/ WindowUpdate
    \/ ConnectionLost

Spec == Init /\ [][Next]_vars

\* The event loop serves its callbacks and its coroutines, and the peer keeps
\* granting windows; callers, resets and the loss of the connection are free.
Fairness ==
    /\ \A s \in Calls : WF_vars(Callback(s)) /\ WF_vars(Run(s))
    /\ \A s \in Streams :
         WF_vars(\E d \in 1..MaxWindow :
                    FC!StreamWindowUpdate(s, d) /\ UNCHANGED Own)
    /\ WF_vars(\E s \in Streams : Transmit(s))
    /\ WF_vars(\E d \in 1..MaxWindow : FC!ConnWindowUpdate(d) /\ UNCHANGED Own)

FairSpec == Spec /\ Fairness

----------------------------------------------------------------------------
(* Properties *)

Label == {"headers", "data", "trailers", "done", "failed"}

TypeOK ==
    /\ FC!TypeOK
    /\ clientSide \in BOOLEAN
    /\ caller \in [Streams -> {"new", "open", "done"}]
    /\ cancelled \in [Streams -> BOOLEAN]
    /\ given \in [Streams -> Nat]
    /\ known \subseteq Streams
    /\ headers \in [Streams -> {"none", "open", "end"}]
    /\ dataSent \in [Streams -> Nat]
    /\ pc \in [Streams -> Label]

\* A response that ended without a reset is complete: every byte the method
\* runner handed to send_data is on the wire before the trailers, however the
\* windows, the callbacks and the coroutines interleave.
CompleteResponse == \A s \in Calls :
    (~clientSide /\ marks[s] = {"end"}) => sent[s] = given[s]

Dead(s) == localClosed[s] \/ marks[s] # {} \/ task # "running"

\* A server stream that completed the call and sent a message gets its
\* trailers out, unless the stream or the connection ends.
TrailersFollowData == \A s \in Calls :
    (caller[s] = "done" /\ ~clientSide /\ given[s] > 0) ~> Dead(s)

\* The sending side implements ResponseStream for a server; nothing is
\* claimed for a client, which stays in the initial state.
Response(f, initial) == [s \in Calls |-> IF clientSide THEN initial ELSE f[s]]

WireStatus == [s \in Streams |->
    CASE marks[s] = {} -> "open" [] marks[s] = {"end"} -> "ended" [] OTHER -> "reset"]

RS == INSTANCE ResponseStream WITH
    Streams <- Calls,
    given <- Response(given, 0),
    finished <- Response([s \in Streams |-> caller[s] = "done"], FALSE),
    delivered <- Response(sent, 0),
    status <- Response(WireStatus, "open")

Implements == RS!Spec
=============================================================================
