---------------------------- MODULE FlowControl ----------------------------
(***************************************************************************)
(* RemoteFlowController (remoting/aio/http2/controllers.py): the one       *)
(* coroutine of a connection that writes the DATA of all its streams under *)
(* the peer's flow-control windows.                                        *)
(*                                                                         *)
(* Every action is one callback or one resumption of the coroutine: they   *)
(* all run on the event loop's thread, so each is atomic up to its await.  *)
(* Data is counted in bytes.  How a chunk is cut into frames of            *)
(* max_outbound_frame_size is abstracted: only its last frame can carry    *)
(* END_STREAM, and all of them leave in the same step.                     *)
(***************************************************************************)
EXTENDS Integers, Sequences, FiniteSets, Functions

CONSTANTS
    Streams,        \* the connection's streams, open from the start
    InitialWindow,  \* SETTINGS_INITIAL_WINDOW_SIZE of the peer
    ConnWindow,     \* the initial window of the connection
    MaxWindow,      \* bound of a window (2^31-1 in HTTP/2)
    MaxBytes,       \* bound of the bytes written to one stream
    EndFlags,       \* the end_stream flags DATA is written with
    SettingsDeltas  \* changes the peer makes to its initial window size

ASSUME FlowControlAssumption ==
    /\ IsFiniteSet(Streams)
    /\ InitialWindow \in Nat /\ ConnWindow \in Nat
    /\ MaxWindow \in Nat /\ MaxBytes \in Nat
    /\ EndFlags \subseteq BOOLEAN
    /\ SettingsDeltas \subseteq Int

VARIABLES
    \* RemoteFlowController
    held,         \* the keys of _stream_dict
    data,         \* Item.data: bytes buffered for the stream
    endStream,    \* Item.end_stream
    event,        \* Item.event: the number of the write it belongs to
    queue,        \* _outbound_queue
    blocked,      \* _flow_controls
    task,         \* the coroutine _run
    \* Http2Stream
    localClosed,  \* _local_closed
    \* h2's H2Connection
    streamWindow, connWindow,
    marks,        \* what closed the stream's sending side on the wire
    \* history
    accepted,     \* bytes write_data took for the stream
    sent,         \* bytes handed to h2.send_data
    writes,       \* number of writes taken; the last one's event has it
    fired,        \* the events that are set
    settings      \* "grew", "shrank": how SETTINGS moved the windows

itemVars == <<held, data, endStream, event>>
h2Vars   == <<streamWindow, connWindow, marks>>
ghosts   == <<accepted, sent, writes, fired, settings>>
vars     == <<itemVars, queue, blocked, task, localClosed, h2Vars, ghosts>>

Marks == {"end",        \* END_STREAM was sent
          "rst",        \* RST_STREAM was sent
          "peer_rst"}   \* RST_STREAM was received

Min2(a, b) == IF a <= b THEN a ELSE b

Init ==
    /\ held = {} /\ blocked = {} /\ queue = <<>>
    /\ data = [s \in Streams |-> 0]
    /\ endStream = [s \in Streams |-> FALSE]
    /\ event = [s \in Streams |-> 0]
    /\ task = "running"
    /\ localClosed = [s \in Streams |-> FALSE]
    /\ streamWindow = [s \in Streams |-> InitialWindow]
    /\ connWindow = ConnWindow
    /\ marks = [s \in Streams |-> {}]
    /\ accepted = [s \in Streams |-> 0]
    /\ sent = [s \in Streams |-> 0]
    /\ writes = [s \in Streams |-> 0]
    /\ fired = [s \in Streams |-> {}]
    /\ settings = {}

----------------------------------------------------------------------------
(* write_data.  On a stream that is closed locally the frame is dropped and *)
(* its event set, which changes nothing here.                               *)

\* item.data.extend(frame.data); a new item starts from nothing.
ExtendData(s, n) == data[s] + n

\* An existing item is extended where it is: queued, or flow-controlled.
Requeue(s) == IF s \in held THEN queue ELSE Append(queue, s)

SupersedeSwapped(s) ==
    IF s \in held THEN [fired EXCEPT ![s] = @ \cup {writes[s] + 1}] ELSE fired
\* The event of the write an extension supersedes is set at once.
Supersede(s) ==
    IF s \in held THEN [fired EXCEPT ![s] = @ \cup {event[s]}] ELSE fired

WriteData(s, n, e) ==
    /\ ~localClosed[s]
    /\ data' = [data EXCEPT ![s] = ExtendData(s, n)]
    /\ endStream' = [endStream EXCEPT ![s] = e]
    /\ fired' = Supersede(s)
    /\ event' = [event EXCEPT ![s] = writes[s] + 1]
    /\ writes' = [writes EXCEPT ![s] = @ + 1]
    /\ accepted' = [accepted EXCEPT ![s] = @ + n]
    /\ queue' = Requeue(s)
    /\ held' = held \cup {s}
    /\ UNCHANGED <<blocked, task, localClosed, h2Vars, sent, settings>>

----------------------------------------------------------------------------
(* WINDOW_UPDATE and SETTINGS of the peer.  h2 moves the window, then       *)
(* release_flow_control puts streams back; SETTINGS releases nothing.       *)

ReleasedByConnOnly(s) == {}
\* The streams an update of stream s puts back into the queue.
Released(s) == blocked \cap {s}

StreamWindowUpdate(s, d) ==
    /\ streamWindow[s] + d <= MaxWindow
    /\ streamWindow' = [streamWindow EXCEPT ![s] = @ + d]
    /\ blocked' = blocked \ Released(s)
    /\ queue' = IF s \in Released(s) THEN Append(queue, s) ELSE queue
    /\ UNCHANGED <<itemVars, task, localClosed, connWindow, marks, ghosts>>

\* The whole set is released, in the order the set is iterated: any order.
ReleaseOrders == Bijection(1..Cardinality(blocked), blocked)

ConnWindowUpdate(d) ==
    /\ connWindow + d <= MaxWindow
    /\ connWindow' = connWindow + d
    /\ \E order \in ReleaseOrders : queue' = queue \o order
    /\ blocked' = {}
    /\ UNCHANGED <<itemVars, task, localClosed, streamWindow, marks, ghosts>>

Direction(d) == IF d < 0 THEN "shrank" ELSE "grew"

PeerSettings(d) ==
    /\ \A s \in Streams : streamWindow[s] + d <= MaxWindow
    /\ streamWindow' = [s \in Streams |-> streamWindow[s] + d]
    /\ settings' = settings \cup {Direction(d)}
    /\ UNCHANGED <<itemVars, queue, blocked, task, localClosed, connWindow,
                   marks, accepted, sent, writes, fired>>

----------------------------------------------------------------------------
(* One turn of _run: the stream at the head of the queue.                   *)

\* h2.local_flow_control_window
Window(s) == Min2(streamWindow[s], connWindow)

\* Bytes of data[:c] for c = min(window, len(data)); a negative c, under a
\* negative window, cuts from the end as Python slices do.
ToSend(s) ==
    LET c == Min2(Window(s), data[s])
    IN  IF c >= 0 THEN c
        ELSE IF data[s] + c > 0 THEN data[s] + c ELSE 0

Rest(s) == data[s] - ToSend(s)

MustSend(s) == ToSend(s) > 0 \/ endStream[s]

\* h2.send_data raises on a side that is closed, or beyond the window.
Refused(s) == marks[s] # {} \/ ToSend(s) > Window(s)

Serving(s) ==
    /\ task = "running"
    /\ queue # <<>> /\ Head(queue) = s
    /\ queue' = Tail(queue)

SkipsNone(s) == FALSE
\* A stream that was closed locally while it waited is not sent.
Skips(s) == localClosed[s]

\* Its event is set, its item stays in the dict.
TransmitClosed(s) ==
    /\ Serving(s)
    /\ Skips(s)
    /\ fired' = [fired EXCEPT ![s] = @ \cup {event[s]}]
    /\ UNCHANGED <<itemVars, blocked, task, localClosed, h2Vars,
                   accepted, sent, writes, settings>>

\* h2 raises: nothing catches the exception and the coroutine ends.  Asking
\* for the window of a reset stream may raise too, once h2 has forgotten it.
TransmitFails(s) ==
    /\ Serving(s)
    /\ ~Skips(s)
    /\ (MustSend(s) /\ Refused(s)) \/ "peer_rst" \in marks[s]
    /\ task' = "failed"
    /\ UNCHANGED <<itemVars, blocked, localClosed, h2Vars, ghosts>>

Emit(s) ==
    /\ ~Skips(s)
    /\ ~(MustSend(s) /\ Refused(s))
    /\ sent' = [sent EXCEPT ![s] = @ + ToSend(s)]
    /\ data' = [data EXCEPT ![s] = Rest(s)]
    /\ streamWindow' = [streamWindow EXCEPT ![s] = @ - ToSend(s)]
    /\ connWindow' = connWindow - ToSend(s)
    /\ UNCHANGED <<endStream, event, task, accepted, writes, settings>>

\* Part of the data stays.  With nothing sent and end_stream set, "no
\* outbound data" is taken for "nothing left" and an empty END_STREAM leaves.
TransmitPart(s) ==
    /\ Serving(s)
    /\ Emit(s)
    /\ Rest(s) > 0
    /\ blocked' = blocked \cup {s}
    /\ marks' = IF MustSend(s) /\ ToSend(s) = 0
                THEN [marks EXCEPT ![s] = @ \cup {"end"}] ELSE marks
    /\ UNCHANGED <<held, localClosed, fired>>

\* All the data leaves, with END_STREAM on the last frame if it was asked for.
TransmitAll(s) ==
    /\ Serving(s)
    /\ Emit(s)
    /\ ~(Rest(s) > 0)
    /\ held' = held \ {s}
    /\ fired' = [fired EXCEPT ![s] = @ \cup {event[s]}]
    /\ marks' = IF endStream[s] THEN [marks EXCEPT ![s] = @ \cup {"end"}] ELSE marks
    /\ localClosed' = [localClosed EXCEPT ![s] = @ \/ endStream[s]]
    /\ UNCHANGED blocked

Transmit(s) == \/ TransmitClosed(s) \/ TransmitFails(s)
               \/ TransmitPart(s) \/ TransmitAll(s)

----------------------------------------------------------------------------
(* What other coroutines do to a stream and to the connection.              *)

\* FrameOutboundController.write_rst: RST_STREAM and close_local.
LocalReset(s) ==
    /\ marks' = [marks EXCEPT ![s] = @ \cup {"rst"}]
    /\ localClosed' = [localClosed EXCEPT ![s] = TRUE]
    /\ UNCHANGED <<itemVars, queue, blocked, task, streamWindow, connWindow, ghosts>>

\* A HEADERS frame with END_STREAM (trailers) and close_local.
SendTrailers(s) ==
    /\ ~localClosed[s] /\ marks[s] = {}
    /\ marks' = [marks EXCEPT ![s] = {"end"}]
    /\ localClosed' = [localClosed EXCEPT ![s] = TRUE]
    /\ UNCHANGED <<itemVars, queue, blocked, task, streamWindow, connWindow, ghosts>>

\* A RST_STREAM of the peer closes h2's stream; _local_closed stays unset.
PeerReset(s) ==
    /\ marks' = [marks EXCEPT ![s] = @ \cup {"peer_rst"}]
    /\ UNCHANGED <<itemVars, queue, blocked, task, localClosed, streamWindow,
                   connWindow, ghosts>>

\* AbstractHttp2Protocol.connection_lost cancels the coroutine.
ConnectionLost ==
    /\ task = "running"
    /\ task' = "cancelled"
    /\ UNCHANGED <<itemVars, queue, blocked, localClosed, h2Vars, ghosts>>

----------------------------------------------------------------------------
(* The controller alone, under callers that respect the protocol: nothing   *)
(* is written after end_stream, and trailers wait for the last event.  The  *)
(* peer moves its initial window once in each direction.                    *)

LastEventSet(s) == writes[s] = 0 \/ writes[s] \in fired[s]

Write(s) == \E n \in 0..MaxBytes, e \in EndFlags :
    /\ ~endStream[s]
    /\ n = 0 => e
    /\ accepted[s] + n <= MaxBytes
    /\ WriteData(s, n, e)

Next ==
    \/ \E s \in Streams : Write(s)
    \/ \E s \in Streams : Transmit(s)
    \/ \E s \in Streams, d \in 1..MaxWindow : StreamWindowUpdate(s, d)
    \/ \E d \in 1..MaxWindow : ConnWindowUpdate(d)
    \/ \E d \in SettingsDeltas : Direction(d) \notin settings /\ PeerSettings(d)
    \/ \E s \in Streams : "rst" \notin marks[s] /\ LocalReset(s)
    \/ \E s \in Streams : LastEventSet(s) /\ SendTrailers(s)
    \/ \E s \in Streams : "peer_rst" \notin marks[s] /\ PeerReset(s)
    \/ ConnectionLost

Spec == Init /\ [][Next]_vars

----------------------------------------------------------------------------
(* Properties *)

TypeOK ==
    /\ held \subseteq Streams /\ blocked \subseteq Streams
    /\ queue \in Seq(Streams)
    /\ data \in [Streams -> Nat]
    /\ endStream \in [Streams -> BOOLEAN]
    /\ event \in [Streams -> Nat]
    /\ task \in {"running", "failed", "cancelled"}
    /\ localClosed \in [Streams -> BOOLEAN]
    /\ streamWindow \in [Streams -> Int] /\ connWindow \in Int
    /\ marks \in [Streams -> SUBSET Marks]
    /\ accepted \in [Streams -> Nat] /\ sent \in [Streams -> Nat]
    /\ writes \in [Streams -> Nat]
    /\ fired \in [Streams -> SUBSET Nat]
    /\ settings \subseteq {"grew", "shrank"}

\* A stream with data waits in exactly one place: once in the queue, or in
\* _flow_controls.  write_data relies on it when it extends an item without
\* queueing it, and _run when it looks the queued id up in _stream_dict.
Located ==
    /\ IsInjective(queue)
    /\ Range(queue) \cap blocked = {}
    /\ Range(queue) \cup blocked \subseteq held
    /\ task # "failed" =>
         \A s \in held : localClosed[s] \/ s \in Range(queue) \cup blocked

\* No byte is lost or sent twice between write_data and the wire, across
\* extensions, partial sends and resets.
Conserved == \A s \in Streams :
    sent[s] + data[s] = accepted[s] /\ (s \notin held => data[s] = 0)

\* The event of the last write is set only when all bytes are on the wire,
\* unless the stream was reset locally: FrameOutboundController sends the
\* trailers on the strength of it.
EventMeansSent == \A s \in Streams :
    (writes[s] \in fired[s] /\ "rst" \notin marks[s]) => sent[s] = accepted[s]

\* No lost wakeup: a stream parks in _flow_controls only as long as no window
\* is open for it.  SETTINGS that raise the windows are the exception, since
\* RemoteSettingsChanged is not turned into a release.
NoLostWakeup == "grew" \notin settings => \A s \in blocked : Window(s) <= 0

\* END_STREAM left while data of the stream was still buffered.
Truncated(s) == "end" \in marks[s] /\ sent[s] < accepted[s]

\* What can end the coroutine, and with it the DATA of every stream of the
\* connection: a peer's reset of one stream, a window made negative by
\* SETTINGS, or a truncated stream that is served again.
FailureHasCause == task = "failed" =>
    \/ "shrank" \in settings
    \/ \E s \in Streams : "peer_rst" \in marks[s] \/ Truncated(s)
=============================================================================
