------------------------------- MODULE Inbound -------------------------------
(***************************************************************************)
(* FrameInboundController (remoting/aio/http2/controllers.py) with the     *)
(* stream registry of stream_handler.py: how the frames of the peer reach  *)
(* the listener of their stream.                                           *)
(*                                                                         *)
(* The connection puts frames into the queue of their stream on the event  *)
(* loop; a coroutine per stream hands them one at a time to a shared       *)
(* thread pool; the worker's acknowledgement travels back to the loop, and *)
(* returns the flow-control credit of DATA.                                *)
(*                                                                         *)
(* A stream here is a stream object with its listener.  A server makes one *)
(* for every HEADERS frame, so that the trailers of a request get an object *)
(* of their own, which takes the stream's place in the registry.           *)
(***************************************************************************)
EXTENDS Integers, Sequences, FiniteSets, SequencesExt

CONSTANTS
    Streams,
    Workers,     \* threads of the handler's ThreadPoolExecutor
    MaxFrames,   \* bound of the frames a peer sends on one stream
    Sides        \* the sides explored: TRUE for a client, FALSE for a server

ASSUME InboundAssumption ==
    Workers \in Nat \ {0} /\ MaxFrames \in Nat /\ Sides \subseteq BOOLEAN

VARIABLES
    clientSide,
    peer,          \* the peer's side: "idle", "open", "ended", "reset"; "replaced"
    heir,          \* the stream registered in the place of this one, or itself
    received,      \* number of frames received on the stream (history)
    registered,    \* the keys of StreamMultiplexHandler._streams
    localClosed, remoteClosed,   \* Http2Stream
    inbound,       \* _inbound_queue
    pc,            \* _run: "get", "wait" on the condition, or "done"
    pool,          \* the executor's queue
    running,       \* the frames worker threads are handling
    acks,          \* ack_frame coroutines scheduled on the loop
    delivered,     \* the frames given to the listener (history)
    unacked,       \* DATA frames whose credit h2 has not given back
    raised,        \* streams whose listener raised (history)
    ignored        \* frames for which no stream was found (history)

peerVars   == <<clientSide, peer, heir, received, ignored>>
streamVars == <<localClosed, remoteClosed>>
vars == <<peerVars, registered, streamVars, inbound, pc, pool, running, acks,
          delivered, unacked, raised>>

Kinds == {"HEADERS", "DATA", "RST_STREAM"}

\* A frame, with its position among the frames of its stream.
Frames == [stream : Streams, kind : Kinds, end : BOOLEAN, n : 1..MaxFrames]

Init ==
    /\ clientSide \in Sides
    /\ peer = [s \in Streams |-> "idle"]
    /\ heir = [s \in Streams |-> s]
    /\ received = [s \in Streams |-> 0]
    \* A client's stream is put when its headers are sent.
    /\ registered = IF clientSide THEN Streams ELSE {}
    /\ localClosed = [s \in Streams |-> FALSE]
    /\ remoteClosed = [s \in Streams |-> FALSE]
    /\ inbound = [s \in Streams |-> <<>>]
    /\ pc = [s \in Streams |-> "get"]
    /\ pool = <<>> /\ running = {} /\ acks = {}
    /\ delivered = [s \in Streams |-> <<>>]
    /\ unacked = [s \in Streams |-> 0]
    /\ raised = {} /\ ignored = {}

----------------------------------------------------------------------------
(* The peer: HEADERS, then DATA, with one END_STREAM; a client also gets    *)
(* trailers, which carry it, and so may a server (RequestTrailers).         *)
(* RST_STREAM may come at any time.  Of a stream that both sides ended, or  *)
(* one of them reset, h2 reports nothing; the objects of one HTTP/2 stream  *)
(* close the same local side.                                               *)

ClosedInH2(s) ==
    \/ peer[s] = "reset"
    \/ \E other \in Streams : /\ heir[other] = s /\ localClosed[other]
                             /\ (peer[s] = "ended" \/ remoteClosed[other])

Exists(s) == clientSide \/ peer[s] # "idle"

MayFollow(s, kind, end) ==
    \/ kind = "HEADERS" /\ (peer[s] = "idle" \/ (clientSide /\ peer[s] = "open" /\ end))
    \/ kind = "DATA" /\ peer[s] = "open"
    \/ /\ kind = "RST_STREAM" /\ end
       /\ peer[s] \in {"open", "ended"} \/ (clientSide /\ peer[s] = "idle")

PeerState(kind, end) ==
    IF kind = "RST_STREAM" THEN "reset" ELSE IF end THEN "ended" ELSE "open"

\* A server registers a stream for every HEADERS frame.
Known(frame) ==
    registered \cup IF frame.kind = "HEADERS" /\ ~clientSide THEN {frame.stream} ELSE {}

ResetFirst(q, frame) == IF frame.kind = "RST_STREAM" THEN <<frame>> \o q ELSE Append(q, frame)
\* write_frame
Enqueue(q, frame) == Append(q, frame)

\* handle_frame forgets a stream on its last frame, if the local side is closed.
Forgets(frame) == frame.end /\ localClosed[frame.stream]

ReceiveFrame(s, kind, end) ==
    /\ received[s] < MaxFrames /\ ~ClosedInH2(s)
    /\ MayFollow(s, kind, end)
    /\ LET frame == [stream |-> s, kind |-> kind, end |-> end, n |-> received[s] + 1]
           found == s \in Known(frame)
       IN  /\ inbound' = IF found THEN [inbound EXCEPT ![s] = Enqueue(@, frame)] ELSE inbound
           /\ registered' = Known(frame) \ (IF Forgets(frame) THEN {s} ELSE {})
           /\ ignored' = IF found THEN ignored ELSE ignored \cup {frame}
           /\ unacked' = IF kind = "DATA" THEN [unacked EXCEPT ![s] = @ + 1] ELSE unacked
    /\ peer' = [peer EXCEPT ![s] = PeerState(kind, end)]
    /\ received' = [received EXCEPT ![s] = @ + 1]
    /\ UNCHANGED <<clientSide, heir, streamVars, pc, pool, running, acks, delivered, raised>>

\* A client's trailers are HEADERS like any others to the server's handler: it
\* registers a new stream, with a new listener, over the one they end.  The first
\* listener gets neither them nor what follows.
RequestTrailers(s, new) ==
    /\ ~clientSide /\ peer[s] = "open" /\ ~ClosedInH2(s)
    /\ peer[new] = "idle" /\ received[new] < MaxFrames
    /\ LET frame == [stream |-> new, kind |-> "HEADERS", end |-> TRUE, n |-> received[new] + 1]
       IN  /\ inbound' = [inbound EXCEPT ![new] = Enqueue(@, frame)]
           /\ registered' = Known(frame) \ {s}
    /\ heir' = [heir EXCEPT ![s] = new]
    /\ peer' = [peer EXCEPT ![s] = "replaced", ![new] = "ended"]
    /\ received' = [received EXCEPT ![new] = @ + 1]
    /\ UNCHANGED <<clientSide, ignored, streamVars, pc, pool, running, acks, delivered,
                   unacked, raised>>

----------------------------------------------------------------------------
(* The coroutine.  close_remote cancels it, so it runs only while the       *)
(* remote side is open.  It holds the condition's lock while it awaits the  *)
(* queue, and releases it in wait().                                        *)

NoWait(frame) == IF frame.end THEN "done" ELSE "get"
\* After a frame: wait for its acknowledgement, unless it is the last one.
After(frame) == IF frame.end THEN "done" ELSE "wait"

Dispatch(s) ==
    /\ pc[s] = "get" /\ ~remoteClosed[s]
    /\ inbound[s] # <<>>
    /\ LET frame == Head(inbound[s])
       IN  /\ pool' = Append(pool, frame)
           /\ pc' = [pc EXCEPT ![s] = After(frame)]
           /\ remoteClosed' = [remoteClosed EXCEPT ![s] = frame.end]
    /\ inbound' = [inbound EXCEPT ![s] = Tail(@)]
    /\ UNCHANGED <<peerVars, registered, localClosed, running, acks, delivered,
                   unacked, raised>>

----------------------------------------------------------------------------
(* The thread pool: _handle_frame calls the listener, then acknowledges.    *)

StartFrame ==
    /\ pool # <<>> /\ Cardinality(running) < Workers
    /\ LET frame == Head(pool)
       IN  /\ running' = running \cup {frame}
           /\ delivered' = [delivered EXCEPT ![frame.stream] = Append(@, frame)]
    /\ pool' = Tail(pool)
    /\ UNCHANGED <<peerVars, registered, streamVars, inbound, pc, acks, unacked, raised>>

FinishFrame(frame) ==
    /\ frame \in running
    /\ running' = running \ {frame}
    /\ acks' = acks \cup {frame}
    /\ UNCHANGED <<peerVars, registered, streamVars, inbound, pc, pool, delivered,
                   unacked, raised>>

\* The exception stays in the executor's future, and nothing is acknowledged.
ListenerRaises(frame) ==
    /\ frame \in running
    /\ running' = running \ {frame}
    /\ raised' = raised \cup {frame.stream}
    /\ UNCHANGED <<peerVars, registered, streamVars, inbound, pc, pool, acks,
                   delivered, unacked>>

LockHeld(s) == pc[s] = "get" /\ ~remoteClosed[s]

CreditNone(frame) == 0
\* ack_received_data returns the credit of a DATA frame.
Credit(frame) == IF frame.kind = "DATA" THEN 1 ELSE 0

AckOnlyData(frame) == frame.kind = "DATA" /\ pc[frame.stream] = "wait"
\* notify_all wakes the coroutine if it waits.
Wakes(frame) == pc[frame.stream] = "wait"

AckFrame(frame) ==
    /\ frame \in acks
    /\ ~LockHeld(frame.stream)
    /\ acks' = acks \ {frame}
    /\ unacked' = [unacked EXCEPT ![frame.stream] = @ - Credit(frame)]
    /\ pc' = IF Wakes(frame) THEN [pc EXCEPT ![frame.stream] = "get"] ELSE pc
    /\ UNCHANGED <<peerVars, registered, streamVars, inbound, pool, running,
                   delivered, raised>>

----------------------------------------------------------------------------
(* The sending side closes, after its last frame or by a reset.             *)

CloseLocal(s) ==
    /\ Exists(s) /\ ~localClosed[s]
    /\ localClosed' = [localClosed EXCEPT ![s] = TRUE]
    /\ UNCHANGED <<peerVars, registered, remoteClosed, inbound, pc, pool, running,
                   acks, delivered, unacked, raised>>

\* write_rst closes both sides.  The stream stays registered.
LocalReset(s) ==
    /\ Exists(s) /\ ~(localClosed[s] /\ remoteClosed[s])
    /\ localClosed' = [localClosed EXCEPT ![s] = TRUE]
    /\ remoteClosed' = [remoteClosed EXCEPT ![s] = TRUE]
    /\ UNCHANGED <<peerVars, registered, inbound, pc, pool, running, acks,
                   delivered, unacked, raised>>

Next ==
    \/ \E s \in Streams, kind \in Kinds, end \in BOOLEAN : ReceiveFrame(s, kind, end)
    \/ \E s, new \in Streams : RequestTrailers(s, new)
    \/ \E s \in Streams : Dispatch(s) \/ CloseLocal(s) \/ LocalReset(s)
    \/ StartFrame
    \/ \E frame \in running : FinishFrame(frame) \/ ListenerRaises(frame)
    \/ \E frame \in acks : AckFrame(frame)

Spec == Init /\ [][Next]_vars

\* The loop and the pool run what is ready, and a listener returns or raises:
\* the listeners of this program only put into queues and complete futures.
Fairness ==
    /\ \A s \in Streams : WF_vars(Dispatch(s))
    /\ WF_vars(StartFrame)
    /\ \A s \in Streams :
         /\ WF_vars(\E frame \in running : frame.stream = s
                       /\ (FinishFrame(frame) \/ ListenerRaises(frame)))
         /\ WF_vars(\E frame \in acks : frame.stream = s /\ AckFrame(frame))

FairSpec == Spec /\ Fairness

----------------------------------------------------------------------------
(* Properties *)

TypeOK ==
    /\ clientSide \in BOOLEAN
    /\ peer \in [Streams -> {"idle", "open", "ended", "reset", "replaced"}]
    /\ heir \in [Streams -> Streams]
    /\ received \in [Streams -> 0..MaxFrames]
    /\ registered \subseteq Streams
    /\ localClosed \in [Streams -> BOOLEAN] /\ remoteClosed \in [Streams -> BOOLEAN]
    /\ inbound \in [Streams -> Seq(Frames)]
    /\ pc \in [Streams -> {"get", "wait", "done"}]
    /\ pool \in Seq(Frames)
    /\ running \subseteq Frames /\ acks \subseteq Frames
    /\ delivered \in [Streams -> Seq(Frames)]
    /\ unacked \in [Streams -> Nat]
    /\ raised \subseteq Streams /\ ignored \subseteq Frames

\* The frames between the coroutine and their acknowledgement.
InFlight(s) == {frame \in ToSet(pool) \cup running \cup acks : frame.stream = s}

\* A listener never runs for two frames of its stream at once, whatever the
\* number of worker threads: the next frame waits for the acknowledgement, which
\* always finds the condition's lock free. The coroutine holds it across the await
\* of the queue: an acknowledgement that had to wait for the next frame would leave
\* the stream one frame behind for good.
OneAtATime ==
    /\ \A s \in Streams :
          /\ Cardinality(InFlight(s)) <= 1
          /\ pc[s] = "get" /\ ~remoteClosed[s] => InFlight(s) = {}
    /\ \A frame \in acks : ~LockHeld(frame.stream)

Replaced(s) == heir[s] # s

\* The listener sees the frames of its stream in the order they were received,
\* without gaps, and nothing after the one that ended the stream; a stream is only
\* forgotten when both sides are closed, so that no frame, a late reset included,
\* finds no stream.  The one way to miss a frame is that of handle_frame at a server:
\* the trailers of a request replace the stream under its listener, which waits for
\* an end that it never gets.
InOrder ==
    /\ \A s \in Streams : \A i \in DOMAIN delivered[s] :
          /\ delivered[s][i].n = i
          /\ delivered[s][i].end => i = Len(delivered[s])
    /\ ignored = {}
    /\ \A s \in Streams : Replaced(s) =>
          /\ ~clientSide
          /\ \A i \in DOMAIN delivered[s] : ~delivered[s][i].end

\* A local reset cancels the coroutine before it has passed on the last frame.
Cancelled(s) == remoteClosed[s] /\ pc[s] # "done"

\* The credit of every DATA frame returns to the peer, that of the frame that ends
\* the stream included, unless the listener raised or a reset on this side has
\* cancelled the coroutine.
CreditReturned == \A s \in Streams :
    (unacked[s] > 0) ~> (unacked[s] = 0 \/ s \in raised \/ Cancelled(s))

\* Frames do not stay in the queue of an open stream whose listener is sound.
FramesDelivered == \A s \in Streams :
    (inbound[s] # <<>>) ~> (inbound[s] = <<>> \/ s \in raised \/ remoteClosed[s])
=============================================================================
