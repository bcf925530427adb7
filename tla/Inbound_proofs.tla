--------------------------- MODULE Inbound_proofs ---------------------------
(***************************************************************************)
(* A listener sees the frames of its stream one at a time and in order,    *)
(* for any streams, any number of worker threads and of frames.            *)
(***************************************************************************)
EXTENDS Inbound, FiniteSetTheorems, TLAPS

\* A frame is in one place between the coroutine and its acknowledgement, alone of
\* its stream, and the coroutine waits for it or is done.
Single ==
    /\ \A i, j \in DOMAIN pool : pool[i].stream = pool[j].stream => i = j
    /\ \A frame, other \in running : frame.stream = other.stream => frame = other
    /\ \A frame, other \in acks : frame.stream = other.stream => frame = other
    /\ \A frame \in running, other \in acks : frame.stream # other.stream
    /\ \A i \in DOMAIN pool, frame \in running \cup acks : pool[i].stream # frame.stream
    /\ \A i \in DOMAIN pool : pc[pool[i].stream] # "get"
    /\ \A frame \in running \cup acks : pc[frame.stream] # "get"

\* A stream is unknown before its first frame, once it is closed, and once a server
\* has put another in its place.
Gone(s) == ClosedInH2(s) \/ (~clientSide /\ peer[s] = "idle") \/ peer[s] = "replaced"

Remembered ==
    /\ ignored = {}
    /\ \A s \in Streams : s \notin registered => Gone(s)
    /\ \A s \in Streams : Replaced(s) => peer[s] = "replaced" /\ ~clientSide

Pooled(q, s) == \E i \in DOMAIN q : q[i].stream = s
\* How many frames of a stream have left its queue.
Passed(s) == Len(delivered[s]) + (IF Pooled(pool, s) THEN 1 ELSE 0)

\* The frames of a stream, delivered, in the pool and in the queue, have the
\* numbers from 1 to that of the last one received.
Numbered ==
    /\ \A s \in Streams : \A i \in DOMAIN delivered[s] : delivered[s][i].n = i
    /\ \A i \in DOMAIN pool : pool[i].n = Len(delivered[pool[i].stream]) + 1
    /\ \A frame \in running \cup acks : frame.n <= Len(delivered[frame.stream])
    /\ \A s \in Streams : \A i \in DOMAIN inbound[s] :
          inbound[s][i].n = Passed(s) + i /\ inbound[s][i].stream = s
    /\ \A s \in Streams : received[s] = Passed(s) + Len(inbound[s])

\* The coroutine is done once it has passed on a frame that ends the stream.
Final ==
    /\ \A i \in DOMAIN pool : pool[i].end => pc[pool[i].stream] = "done"
    /\ \A s \in Streams : \A i \in DOMAIN delivered[s] :
          delivered[s][i].end => i = Len(delivered[s]) /\ pc[s] = "done" /\ ~Pooled(pool, s)

\* The DATA frames of a stream that are received and not acknowledged, for each of
\* which h2 holds back credit.
Pending(s) == {frame \in ToSet(inbound[s]) \cup InFlight(s) : frame.kind = "DATA"}
Charged == \A s \in Streams : IsFiniteSet(Pending(s)) /\ Cardinality(Pending(s)) <= unacked[s]

InboundInv == TypeOK /\ Single /\ Remembered /\ Numbered /\ Final /\ Charged

----------------------------------------------------------------------------
LEMMA FrameFields ==
    ASSUME NEW frame \in Frames
    PROVE  /\ frame.stream \in Streams /\ frame.kind \in Kinds
           /\ frame.end \in BOOLEAN /\ frame.n \in 1..MaxFrames
  BY DEF Frames

\* How a frame moves at the ends of a queue.
LEMMA Appended ==
    ASSUME NEW q \in Seq(Frames), NEW frame \in Frames
    PROVE  /\ Append(q, frame) \in Seq(Frames)
           /\ DOMAIN Append(q, frame) = 1..(Len(q) + 1) /\ DOMAIN q = 1..Len(q)
           /\ Len(Append(q, frame)) = Len(q) + 1
           /\ \A i \in DOMAIN q : Append(q, frame)[i] = q[i]
           /\ Append(q, frame)[Len(q) + 1] = frame
           /\ ToSet(Append(q, frame)) = ToSet(q) \cup {frame}
<1>1. /\ Append(q, frame) \in Seq(Frames)
      /\ DOMAIN Append(q, frame) = 1..(Len(q) + 1) /\ DOMAIN q = 1..Len(q)
      /\ Len(Append(q, frame)) = Len(q) + 1
      /\ \A i \in DOMAIN q : Append(q, frame)[i] = q[i]
      /\ Append(q, frame)[Len(q) + 1] = frame
  OBVIOUS
<1>2. ToSet(Append(q, frame)) = ToSet(q) \cup {frame}
  BY <1>1, Len(q) \in Nat DEF ToSet
<1> QED
  BY <1>1, <1>2

LEMMA Removed ==
    ASSUME NEW q \in Seq(Frames), q # <<>>
    PROVE  /\ Tail(q) \in Seq(Frames) /\ Head(q) \in Frames /\ Head(q) = q[1] /\ 1 \in DOMAIN q
           /\ DOMAIN q = 1..Len(q) /\ DOMAIN Tail(q) = 1..(Len(q) - 1) /\ Len(Tail(q)) = Len(q) - 1
           /\ \A i \in DOMAIN Tail(q) : i + 1 \in DOMAIN q /\ Tail(q)[i] = q[i + 1]
           /\ ToSet(q) = {Head(q)} \cup ToSet(Tail(q))
<1>1. /\ Tail(q) \in Seq(Frames) /\ Head(q) \in Frames /\ Head(q) = q[1] /\ 1 \in DOMAIN q
      /\ DOMAIN q = 1..Len(q) /\ DOMAIN Tail(q) = 1..(Len(q) - 1) /\ Len(Tail(q)) = Len(q) - 1
      /\ \A i \in DOMAIN Tail(q) : i + 1 \in DOMAIN q /\ Tail(q)[i] = q[i + 1]
      /\ Len(q) \in Nat
  OBVIOUS
<1>2. ToSet(q) = {Head(q)} \cup ToSet(Tail(q))
  <2>1. ASSUME NEW frame \in ToSet(q) PROVE frame \in {Head(q)} \cup ToSet(Tail(q))
    <3>1. PICK i \in DOMAIN q : q[i] = frame
      BY DEF ToSet
    <3>2. i = 1 \/ (i - 1 \in DOMAIN Tail(q) /\ Tail(q)[i - 1] = q[i])
      BY <1>1
    <3> QED
      BY <1>1, <3>1, <3>2 DEF ToSet
  <2>2. Head(q) \in ToSet(q)
    BY <1>1 DEF ToSet
  <2>3. ASSUME NEW frame \in ToSet(Tail(q)) PROVE frame \in ToSet(q)
    BY <1>1 DEF ToSet
  <2> QED
    BY <2>1, <2>2, <2>3
<1> QED
  BY <1>1, <1>2

LEMMA OneMore ==
    ASSUME NEW S, IsFiniteSet(S), NEW x, NEW n \in Nat, Cardinality(S) <= n
    PROVE  IsFiniteSet(S \cup {x}) /\ Cardinality(S \cup {x}) <= n + 1
<1>1. /\ IsFiniteSet(S \cup {x}) /\ Cardinality(S) \in Nat
      /\ Cardinality(S \cup {x}) = IF x \in S THEN Cardinality(S) ELSE Cardinality(S) + 1
  BY FS_AddElement, FS_CardinalityType
<1> QED
  BY <1>1

LEMMA OneLess ==
    ASSUME NEW S, IsFiniteSet(S), NEW x \in S, NEW n \in Nat, Cardinality(S) <= n
    PROVE  IsFiniteSet(S \ {x}) /\ Cardinality(S \ {x}) <= n - 1 /\ n - 1 \in Nat
<1>1. /\ IsFiniteSet(S \ {x}) /\ Cardinality(S) \in Nat /\ Cardinality(S \ {x}) \in Nat
      /\ Cardinality(S \ {x}) = IF x \in S THEN Cardinality(S) - 1 ELSE Cardinality(S)
  <2>1. IsFiniteSet(S \ {x}) /\ Cardinality(S \ {x}) = IF x \in S THEN Cardinality(S) - 1 ELSE Cardinality(S)
    BY FS_RemoveElement
  <2> QED
    BY <2>1, FS_CardinalityType
<1> QED
  BY <1>1

LEMMA Fewer ==
    ASSUME NEW S, IsFiniteSet(S), NEW T, T \subseteq S, NEW n \in Nat, Cardinality(S) <= n
    PROVE  IsFiniteSet(T) /\ Cardinality(T) <= n
<1>1. IsFiniteSet(T) /\ Cardinality(T) <= Cardinality(S)
  BY FS_Subset
<1>2. Cardinality(T) \in Nat /\ Cardinality(S) \in Nat
  BY <1>1, FS_CardinalityType
<1> QED
  BY <1>1, <1>2

LEMMA Starts == Init => InboundInv
<1> SUFFICES ASSUME Init PROVE InboundInv
  OBVIOUS
<1>1. TypeOK
  BY InboundAssumption DEF Init, TypeOK
<1>2. Single
  BY DEF Init, Single
<1>3. Remembered
  BY DEF Init, Remembered, Gone, Replaced
<1>4. Numbered
  BY DEF Init, Numbered, Passed, Pooled
<1>5. Final
  BY DEF Init, Final
<1>6. \A s \in Streams : Pending(s) = {}
  <2>1. ASSUME NEW s \in Streams PROVE ToSet(inbound[s]) = {} /\ InFlight(s) = {}
    BY DEF Init, InFlight, ToSet
  <2>2. ASSUME NEW s \in Streams PROVE Pending(s) = {}
    <3>1. \A frame : frame \notin ToSet(inbound[s]) \cup InFlight(s)
      BY <2>1
    <3> QED
      BY <3>1 DEF Pending
  <2> QED
    BY <2>2
<1>7. Charged
  <2>1. IsFiniteSet({}) /\ Cardinality({}) = 0
    BY FS_EmptySet
  <2> SUFFICES ASSUME NEW s \in Streams PROVE IsFiniteSet(Pending(s)) /\ Cardinality(Pending(s)) <= unacked[s]
    BY DEF Charged
  <2>2. unacked[s] = 0 /\ Pending(s) = {}
    BY <1>6 DEF Init
  <2> QED
    BY <2>1, <2>2
<1> QED
  BY <1>1, <1>2, <1>3, <1>4, <1>5, <1>7 DEF InboundInv

----------------------------------------------------------------------------
(* The peer: a frame enters the queue of its stream.                        *)

LEMMA ReceiveEffect ==
    ASSUME InboundInv, NEW s \in Streams, NEW kind \in Kinds, NEW end \in BOOLEAN,
           ReceiveFrame(s, kind, end),
           NEW frame, frame = [stream |-> s, kind |-> kind, end |-> end, n |-> received[s] + 1]
    PROVE  /\ frame \in Frames /\ s \in Known(frame)
           /\ inbound' = [inbound EXCEPT ![s] = Append(inbound[s], frame)]
           /\ received' = [received EXCEPT ![s] = received[s] + 1] /\ received[s] + 1 \in 0..MaxFrames
           /\ unacked' = [unacked EXCEPT ![s] = unacked[s] + Credit(frame)]
           /\ ignored' = ignored
<1>1. frame \in Frames /\ received[s] + 1 \in 0..MaxFrames
  BY InboundAssumption DEF InboundInv, TypeOK, ReceiveFrame, Frames
<1>2. s \in Known(frame)
  BY DEF InboundInv, Remembered, Gone, ReceiveFrame, MayFollow, Known, Kinds
<1>3. unacked' = [unacked EXCEPT ![s] = unacked[s] + Credit(frame)]
  <2>1. CASE kind = "DATA"
    BY <2>1 DEF ReceiveFrame, Credit
  <2>2. CASE kind # "DATA"
    <3>1. unacked[s] + 0 = unacked[s] /\ unacked = [unacked EXCEPT ![s] = unacked[s]]
      BY DEF InboundInv, TypeOK
    <3> QED
      BY <2>2, <3>1 DEF ReceiveFrame, Credit
  <2> QED
    BY <2>1, <2>2
<1> QED
  BY <1>1, <1>2, <1>3 DEF ReceiveFrame, Enqueue

(* A frame enters the queue of its stream: all but the peer's and the       *)
(* registry's state follows from that.                                      *)
LEMMA Queued ==
    ASSUME InboundInv, NEW s \in Streams, NEW frame \in Frames,
           frame.stream = s, frame.n = received[s] + 1,
           inbound' = [inbound EXCEPT ![s] = Append(inbound[s], frame)],
           received' = [received EXCEPT ![s] = received[s] + 1], received[s] + 1 \in 0..MaxFrames,
           unacked' = [unacked EXCEPT ![s] = unacked[s] + Credit(frame)],
           UNCHANGED <<pc, pool, running, acks, delivered>>
    PROVE  /\ Single' /\ Numbered' /\ Final' /\ Charged'
           /\ inbound' \in [Streams -> Seq(Frames)] /\ received' \in [Streams -> 0..MaxFrames]
           /\ unacked' \in [Streams -> Nat]
<1>1. /\ frame \in Frames /\ frame.stream = s /\ frame.n = received[s] + 1
      /\ inbound' = [inbound EXCEPT ![s] = Append(inbound[s], frame)]
      /\ received' = [received EXCEPT ![s] = received[s] + 1] /\ received[s] + 1 \in 0..MaxFrames
      /\ unacked' = [unacked EXCEPT ![s] = unacked[s] + Credit(frame)]
  OBVIOUS
<1>2. UNCHANGED <<pc, pool, running, acks, delivered>>
  OBVIOUS
<1>3. /\ Append(inbound[s], frame) \in Seq(Frames)
      /\ DOMAIN Append(inbound[s], frame) = 1..(Len(inbound[s]) + 1) /\ DOMAIN inbound[s] = 1..Len(inbound[s])
      /\ Len(Append(inbound[s], frame)) = Len(inbound[s]) + 1
      /\ \A i \in DOMAIN inbound[s] : Append(inbound[s], frame)[i] = inbound[s][i]
      /\ Append(inbound[s], frame)[Len(inbound[s]) + 1] = frame
      /\ ToSet(Append(inbound[s], frame)) = ToSet(inbound[s]) \cup {frame}
  <2>1. inbound[s] \in Seq(Frames)
    BY DEF InboundInv, TypeOK
  <2> QED
    BY <1>1, <2>1, Appended
<1>4. /\ inbound' \in [Streams -> Seq(Frames)] /\ received' \in [Streams -> 0..MaxFrames]
      /\ unacked' \in [Streams -> Nat]
  <2>1. Credit(frame) \in Nat
    BY DEF Credit
  <2> QED
    BY <1>1, <1>3, <2>1 DEF InboundInv, TypeOK
<1>5. Single'
  BY <1>2 DEF InboundInv, Single
<1>7. Numbered'
  <2>1. \A other \in Streams : Passed(other)' = Passed(other) /\ Passed(other) \in Nat
    BY <1>2 DEF Passed, Pooled, InboundInv, TypeOK
  <2>3. ASSUME NEW other \in Streams
        PROVE  /\ received'[other] = Passed(other) + Len(inbound'[other])
               /\ \A i \in DOMAIN inbound'[other] :
                     inbound'[other][i].n = Passed(other) + i /\ inbound'[other][i].stream = other
    <3>1. CASE other = s
      <4>1. received[s] = Passed(s) + Len(inbound[s]) /\ Len(inbound[s]) \in Nat
        BY DEF InboundInv, Numbered, TypeOK
      <4>2. inbound'[s] = Append(inbound[s], frame) /\ received'[s] = received[s] + 1
        BY <1>1 DEF InboundInv, TypeOK
      <4>3. \A i \in DOMAIN inbound[s] : inbound[s][i].n = Passed(s) + i /\ inbound[s][i].stream = s
        BY DEF InboundInv, Numbered
      <4>4. \A i \in DOMAIN inbound'[s] : i \in DOMAIN inbound[s] \/ i = Len(inbound[s]) + 1
        BY <1>3, <4>1, <4>2
      <4>5. received'[s] = Passed(s) + Len(inbound'[s])
        BY <1>3, <2>1, <4>1, <4>2
      <4>6. ASSUME NEW i \in DOMAIN inbound'[s]
            PROVE  inbound'[s][i].n = Passed(s) + i /\ inbound'[s][i].stream = s
        <5>1. CASE i \in DOMAIN inbound[s]
          BY <1>3, <4>2, <4>3, <5>1
        <5>2. CASE i = Len(inbound[s]) + 1
          BY <1>1, <1>3, <2>1, <4>1, <4>2, <5>2
        <5> QED
          BY <4>4, <4>6, <5>1, <5>2
      <4> QED
        BY <3>1, <4>5, <4>6
    <3>2. CASE other # s
      BY <1>1, <3>2 DEF InboundInv, Numbered, TypeOK
    <3> QED
      BY <3>1, <3>2
  <2>4. /\ \A other \in Streams : \A i \in DOMAIN delivered'[other] : delivered'[other][i].n = i
        /\ \A i \in DOMAIN pool' : pool'[i].n = Len(delivered'[pool'[i].stream]) + 1
        /\ \A other \in running' \cup acks' : other.n <= Len(delivered'[other.stream])
    BY <1>2 DEF InboundInv, Numbered
  <2> QED
    BY <2>1, <2>3, <2>4 DEF Numbered
<1>8. Final'
  BY <1>2 DEF InboundInv, Final, Pooled
<1>9. Charged'
  <2> SUFFICES ASSUME NEW other \in Streams
               PROVE  IsFiniteSet(Pending(other))' /\ Cardinality(Pending(other)') <= unacked'[other]
    BY DEF Charged
  <2>1. /\ IsFiniteSet(Pending(other)) /\ Cardinality(Pending(other)) <= unacked[other]
        /\ Cardinality(Pending(other)) \in Nat /\ unacked[other] \in Nat
    BY FS_CardinalityType DEF InboundInv, Charged, TypeOK
  <2>2. InFlight(other)' = InFlight(other)
    BY <1>2 DEF InFlight
  <2>3. CASE other # s
    <3>1. inbound'[other] = inbound[other] /\ unacked'[other] = unacked[other]
      BY <1>1, <2>3 DEF InboundInv, TypeOK
    <3>2. Pending(other)' = Pending(other)
      BY <2>2, <3>1 DEF Pending
    <3> QED
      BY <2>1, <3>1, <3>2
  <2>4. CASE other = s
    <3>1. inbound'[other] = Append(inbound[other], frame) /\ unacked'[other] = unacked[other] + Credit(frame)
      BY <1>1, <2>4 DEF InboundInv, TypeOK
    <3>2. CASE frame.kind = "DATA"
      <4>1. Pending(other)' = Pending(other) \cup {frame}
        BY <1>3, <2>2, <2>4, <3>1, <3>2 DEF Pending
      <4>2. Credit(frame) = 1
        BY <3>2 DEF Credit
      <4>3. /\ IsFiniteSet(Pending(other) \cup {frame})
            /\ Cardinality(Pending(other) \cup {frame}) <= unacked[other] + 1
        BY <2>1, OneMore
      <4> QED
        BY <3>1, <4>1, <4>2, <4>3
    <3>3. CASE frame.kind # "DATA"
      <4>1. Pending(other)' = Pending(other)
        BY <1>3, <2>2, <2>4, <3>1, <3>3 DEF Pending
      <4>2. Credit(frame) = 0
        BY <3>3 DEF Credit
      <4> QED
        BY <2>1, <2>4, <3>1, <4>1, <4>2
    <3> QED
      BY <3>2, <3>3
  <2> QED
    BY <2>3, <2>4
<1> QED
  BY <1>4, <1>5, <1>7, <1>8, <1>9

LEMMA ReceiveKeeps ==
    ASSUME InboundInv, NEW s \in Streams, NEW kind \in Kinds, NEW end \in BOOLEAN,
           ReceiveFrame(s, kind, end)
    PROVE  InboundInv'
<1> DEFINE frame == [stream |-> s, kind |-> kind, end |-> end, n |-> received[s] + 1]
<1>1. /\ frame \in Frames /\ s \in Known(frame)
      /\ inbound' = [inbound EXCEPT ![s] = Append(inbound[s], frame)]
      /\ received' = [received EXCEPT ![s] = received[s] + 1] /\ received[s] + 1 \in 0..MaxFrames
      /\ unacked' = [unacked EXCEPT ![s] = unacked[s] + Credit(frame)]
      /\ ignored' = ignored
  BY ReceiveEffect
<1>2. /\ UNCHANGED <<clientSide, heir, streamVars, pc, pool, running, acks, delivered, raised>>
      /\ registered' = Known(frame) \ (IF Forgets(frame) THEN {s} ELSE {})
      /\ peer' = [peer EXCEPT ![s] = PeerState(kind, end)]
  BY DEF ReceiveFrame
<1>3. /\ Single' /\ Numbered' /\ Final' /\ Charged'
      /\ inbound' \in [Streams -> Seq(Frames)] /\ received' \in [Streams -> 0..MaxFrames]
      /\ unacked' \in [Streams -> Nat]
  <2>1. frame.stream = s /\ frame.n = received[s] + 1
    OBVIOUS
  <2> HIDE DEF frame
  <2> QED
    BY <1>1, <1>2, <2>1, Queued
<1>4. TypeOK'
  <2>1. registered' \subseteq Streams
    BY <1>2 DEF InboundInv, TypeOK, Known
  <2>2. peer' \in [Streams -> {"idle", "open", "ended", "reset", "replaced"}]
    BY <1>2 DEF InboundInv, TypeOK, PeerState
  <2> HIDE DEF frame
  <2> QED
    BY <1>1, <1>2, <1>3, <2>1, <2>2 DEF InboundInv, TypeOK, streamVars
<1>5. Remembered'
  <2>1. ASSUME NEW other \in Streams, other \notin registered' PROVE Gone(other)'
    <3>1. CASE other # s
      <4>1. Gone(other)
        BY <1>2, <2>1, <3>1 DEF InboundInv, Remembered, Known
      <4> QED
        BY <1>2, <3>1, <4>1 DEF InboundInv, TypeOK, Gone, ClosedInH2, streamVars
    <3>2. CASE other = s
      <4>1. Forgets(frame)
        BY <1>1, <1>2, <2>1, <3>2
      <4>2. end /\ localClosed[s] /\ peer'[s] \in {"reset", "ended"}
        BY <1>2, <4>1 DEF Forgets, PeerState, InboundInv, TypeOK
      <4>3. heir[s] = s
        <5>1. peer[s] # "replaced"
          BY DEF ReceiveFrame, MayFollow, Kinds
        <5> QED
          BY <5>1 DEF InboundInv, Remembered, Replaced
      <4> QED
        BY <1>2, <3>2, <4>2, <4>3 DEF Gone, ClosedInH2, streamVars
    <3> QED
      BY <3>1, <3>2
  <2>2. \A other \in Streams : Replaced(other)' => peer'[other] = "replaced" /\ ~clientSide'
    <3>1. peer[s] # "replaced" /\ \A other \in Streams \ {s} : peer'[other] = peer[other]
      BY <1>2 DEF InboundInv, TypeOK, ReceiveFrame, MayFollow, Kinds
    <3> QED
      BY <1>2, <3>1 DEF InboundInv, Remembered, Replaced
  <2> QED
    BY <1>1, <2>1, <2>2 DEF InboundInv, Remembered
<1> QED
  BY <1>3, <1>4, <1>5 DEF InboundInv

LEMMA TrailersKeep ==
    ASSUME InboundInv, NEW s \in Streams, NEW new \in Streams, RequestTrailers(s, new)
    PROVE  InboundInv'
<1> DEFINE frame == [stream |-> new, kind |-> "HEADERS", end |-> TRUE, n |-> received[new] + 1]
<1>1. /\ frame \in Frames /\ frame.stream = new /\ frame.n = received[new] + 1
      /\ received' = [received EXCEPT ![new] = received[new] + 1] /\ received[new] + 1 \in 0..MaxFrames
  <2>1. received \in [Streams -> 0..MaxFrames] /\ MaxFrames \in Nat /\ received[new] < MaxFrames
    BY InboundAssumption DEF InboundInv, TypeOK, RequestTrailers
  <2>2. received[new] + 1 \in 1..MaxFrames
    BY <2>1
  <2>3. received' = [received EXCEPT ![new] = received[new] + 1]
    BY DEF RequestTrailers
  <2> QED
    BY <2>2, <2>3 DEF Frames, Kinds
<1>2. /\ inbound' = [inbound EXCEPT ![new] = Append(inbound[new], frame)]
      /\ UNCHANGED <<clientSide, ignored, streamVars, pc, pool, running, acks, delivered, unacked, raised>>
      /\ registered' = (registered \cup {new}) \ {s}
      /\ heir' = [heir EXCEPT ![s] = new]
      /\ peer' = [peer EXCEPT ![s] = "replaced", ![new] = "ended"]
      /\ ~clientSide /\ peer[s] = "open" /\ peer[new] = "idle"
  BY DEF RequestTrailers, Enqueue, Known
<1>3. unacked' = [unacked EXCEPT ![new] = unacked[new] + Credit(frame)]
  <2>1. Credit(frame) = 0
    BY DEF Credit
  <2>2. unacked[new] + 0 = unacked[new] /\ unacked = [unacked EXCEPT ![new] = unacked[new]]
    BY DEF InboundInv, TypeOK
  <2> QED
    BY <1>2, <2>1, <2>2
<1>4. /\ Single' /\ Numbered' /\ Final' /\ Charged'
      /\ inbound' \in [Streams -> Seq(Frames)] /\ received' \in [Streams -> 0..MaxFrames]
      /\ unacked' \in [Streams -> Nat]
  <2> HIDE DEF frame
  <2> QED
    BY <1>1, <1>2, <1>3, Queued
<1>5. TypeOK'
  <2>1. /\ registered' \subseteq Streams /\ heir' \in [Streams -> Streams]
        /\ peer' \in [Streams -> {"idle", "open", "ended", "reset", "replaced"}]
    BY <1>2 DEF InboundInv, TypeOK
  <2> HIDE DEF frame
  <2> QED
    BY <1>2, <1>4, <2>1 DEF InboundInv, TypeOK, streamVars
<1>6. Remembered'
  <2>1. ASSUME NEW other \in Streams, other \notin registered' PROVE Gone(other)'
    <3>1. CASE other = s
      <4>1. peer'[s] = "replaced"
        BY <1>2 DEF InboundInv, TypeOK
      <4> QED
        BY <3>1, <4>1 DEF Gone
    <3>2. CASE other # s
      <4>1. Gone(other) /\ other # new
        BY <1>2, <2>1, <3>2 DEF InboundInv, Remembered
      <4>2. peer'[other] = peer[other]
        BY <1>2, <3>2, <4>1 DEF InboundInv, TypeOK
      <4>3. \A third \in Streams : heir[third] = other => heir'[third] = other
        <5>1. heir[s] = s
          BY <1>2 DEF InboundInv, Remembered, Replaced
        <5> QED
          BY <1>2, <3>2, <5>1 DEF InboundInv, TypeOK
      <4> QED
        BY <1>2, <4>1, <4>2, <4>3 DEF Gone, ClosedInH2, streamVars
    <3> QED
      BY <3>1, <3>2
  <2>2. \A other \in Streams : Replaced(other)' => peer'[other] = "replaced" /\ ~clientSide'
    BY <1>2 DEF InboundInv, TypeOK, Remembered, Replaced
  <2> QED
    BY <1>2, <2>1, <2>2 DEF InboundInv, Remembered
<1> QED
  BY <1>4, <1>5, <1>6 DEF InboundInv

----------------------------------------------------------------------------
(* The coroutine and the thread pool.                                       *)

LEMMA DispatchKeeps ==
    ASSUME InboundInv, NEW s \in Streams, Dispatch(s)
    PROVE  InboundInv'
<1> DEFINE frame == Head(inbound[s])
<1>1. /\ pool' = Append(pool, frame)
      /\ pc' = [pc EXCEPT ![s] = After(frame)]
      /\ remoteClosed' = [remoteClosed EXCEPT ![s] = frame.end]
      /\ inbound' = [inbound EXCEPT ![s] = Tail(inbound[s])]
      /\ UNCHANGED <<peerVars, registered, localClosed, running, acks, delivered, unacked, raised>>
      /\ pc[s] = "get" /\ ~remoteClosed[s] /\ inbound[s] # <<>>
  BY DEF Dispatch
<1>2. /\ frame \in Frames /\ frame = inbound[s][1] /\ 1 \in DOMAIN inbound[s]
      /\ Tail(inbound[s]) \in Seq(Frames)
      /\ DOMAIN inbound[s] = 1..Len(inbound[s]) /\ DOMAIN Tail(inbound[s]) = 1..(Len(inbound[s]) - 1)
      /\ Len(Tail(inbound[s])) = Len(inbound[s]) - 1
      /\ \A i \in DOMAIN Tail(inbound[s]) :
            i + 1 \in DOMAIN inbound[s] /\ Tail(inbound[s])[i] = inbound[s][i + 1]
      /\ ToSet(inbound[s]) = {frame} \cup ToSet(Tail(inbound[s]))
  <2>1. inbound[s] \in Seq(Frames)
    BY DEF InboundInv, TypeOK
  <2> QED
    BY <1>1, <2>1, Removed
<1>3. /\ pool' \in Seq(Frames) /\ DOMAIN pool' = 1..(Len(pool) + 1) /\ DOMAIN pool = 1..Len(pool)
      /\ Len(pool) \in Nat
      /\ \A i \in DOMAIN pool : pool'[i] = pool[i]
      /\ pool'[Len(pool) + 1] = frame
      /\ ToSet(pool') = ToSet(pool) \cup {frame}
  <2>1. pool \in Seq(Frames)
    BY DEF InboundInv, TypeOK
  <2> HIDE DEF frame
  <2>2. Len(pool) \in Nat
    BY <2>1
  <2> QED
    BY <1>1, <1>2, <2>1, <2>2, Appended
<1>4. /\ \A i \in DOMAIN pool : pool[i].stream # s
      /\ \A other \in running \cup acks : other.stream # s
  BY <1>1 DEF InboundInv, Single
<1>5. frame.stream = s /\ frame.n = Len(delivered[s]) + 1 /\ ~Pooled(pool, s) /\ Len(delivered[s]) \in Nat
  <2>1. frame.stream = s /\ frame.n = Passed(s) + 1
    BY <1>2 DEF InboundInv, Numbered
  <2>2. ~Pooled(pool, s)
    BY <1>4 DEF Pooled
  <2>3. Len(delivered[s]) \in Nat
    BY DEF InboundInv, TypeOK
  <2> HIDE DEF frame
  <2> QED
    BY <2>1, <2>2, <2>3 DEF Passed
<1> HIDE DEF frame
<1>6. /\ pc' \in [Streams -> {"get", "wait", "done"}] /\ pc'[s] \in {"wait", "done"}
      /\ frame.end => pc'[s] = "done"
      /\ \A other \in Streams \ {s} : pc'[other] = pc[other]
      /\ pc[s] = "get"
  BY <1>1 DEF InboundInv, TypeOK, After
<1>7. TypeOK'
  BY <1>1, <1>2, <1>3, <1>6, FrameFields DEF InboundInv, TypeOK, peerVars
<1>8. \A i \in DOMAIN pool' : (i \in DOMAIN pool /\ pool'[i] = pool[i]) \/ (i = Len(pool) + 1 /\ pool'[i] = frame)
  BY <1>3
<1>9. Single'
  <2>1. \A i, j \in DOMAIN pool' : pool'[i].stream = pool'[j].stream => i = j
    BY <1>4, <1>5, <1>8 DEF InboundInv, Single
  <2>2. \A i \in DOMAIN pool', other \in running' \cup acks' : pool'[i].stream # other.stream
    BY <1>1, <1>4, <1>5, <1>8 DEF InboundInv, Single
  <2>3. \A i \in DOMAIN pool' : pc'[pool'[i].stream] # "get"
    <3>1. \A i \in DOMAIN pool : pool[i].stream \in Streams
      BY FrameFields DEF InboundInv, TypeOK
    <3> QED
      BY <1>5, <1>6, <1>8, <3>1 DEF InboundInv, Single
  <2>4. \A other \in running' \cup acks' : pc'[other.stream] # "get"
    BY <1>1, <1>4, <1>6, FrameFields DEF InboundInv, Single, TypeOK
  <2> QED
    BY <1>1, <2>1, <2>2, <2>3, <2>4 DEF InboundInv, Single
<1>10. Remembered'
  <2>1. \A other \in Streams : ClosedInH2(other) => ClosedInH2(other)'
    BY <1>1 DEF ClosedInH2, peerVars, InboundInv, TypeOK
  <2> QED
    BY <1>1, <2>1 DEF InboundInv, Remembered, Gone, Replaced, peerVars
<1>11. \A other \in Streams : /\ other # s => (Pooled(pool', other) <=> Pooled(pool, other))
                              /\ Pooled(pool', s)
  <2>1. Len(pool) + 1 \in DOMAIN pool'
    BY <1>3
  <2>2. Pooled(pool', s)
    BY <1>3, <1>5, <2>1 DEF Pooled
  <2>3. \A i \in DOMAIN pool : i \in DOMAIN pool' /\ pool'[i] = pool[i]
    BY <1>3
  <2>4. ASSUME NEW other \in Streams, other # s, Pooled(pool', other) PROVE Pooled(pool, other)
    <3>1. PICK i \in DOMAIN pool' : pool'[i].stream = other
      BY <2>4 DEF Pooled
    <3>2. i \in DOMAIN pool /\ pool'[i] = pool[i]
      BY <1>5, <1>8, <2>4, <3>1
    <3> QED
      BY <3>1, <3>2 DEF Pooled
  <2>5. ASSUME NEW other \in Streams, Pooled(pool, other) PROVE Pooled(pool', other)
    BY <2>3, <2>5 DEF Pooled
  <2> QED
    BY <2>2, <2>4, <2>5
<1>12. Numbered'
  <2>1. ASSUME NEW i \in DOMAIN pool' PROVE pool'[i].n = Len(delivered'[pool'[i].stream]) + 1
    <3>1. delivered' = delivered
      BY <1>1
    <3>2. CASE i \in DOMAIN pool /\ pool'[i] = pool[i]
      BY <3>1, <3>2 DEF InboundInv, Numbered
    <3>3. CASE pool'[i] = frame
      BY <1>5, <3>1, <3>3
    <3> QED
      BY <1>8, <3>2, <3>3
  <2>2. ASSUME NEW other \in Streams
        PROVE  /\ received'[other] = Passed(other)' + Len(inbound'[other])
               /\ \A i \in DOMAIN inbound'[other] :
                     inbound'[other][i].n = Passed(other)' + i /\ inbound'[other][i].stream = other
    <3>1. /\ received[other] = Passed(other) + Len(inbound[other])
          /\ \A i \in DOMAIN inbound[other] :
                inbound[other][i].n = Passed(other) + i /\ inbound[other][i].stream = other
          /\ Len(inbound[other]) \in Nat /\ Len(delivered[other]) \in Nat
      BY DEF InboundInv, Numbered, TypeOK
    <3>2. CASE other # s
      <4>1. inbound'[other] = inbound[other] /\ Passed(other)' = Passed(other)
        BY <1>1, <1>11, <3>2 DEF Passed, InboundInv, TypeOK
      <4> QED
        BY <1>1, <3>1, <4>1 DEF peerVars
    <3>3. CASE other = s
      <4>1. inbound'[other] = Tail(inbound[other])
        BY <1>1, <3>3 DEF InboundInv, TypeOK
      <4>2. Passed(other)' = Passed(other) + 1 /\ Passed(other) \in Nat
        <5>1. ~Pooled(pool, other) /\ Pooled(pool', other) /\ delivered' = delivered
          BY <1>1, <1>5, <1>11, <3>3
        <5>2. Len(delivered[other]) \in Nat
          BY <3>1
        <5> QED
          BY <5>1, <5>2 DEF Passed
      <4>3. received'[other] = Passed(other)' + Len(inbound'[other])
        <5>1. received'[other] = received[other]
          BY <1>1 DEF peerVars
        <5>2. Len(inbound'[other]) = Len(inbound[other]) - 1 /\ Len(inbound[other]) \in Nat
          BY <1>2, <3>1, <3>3, <4>1
        <5>3. received[other] = Passed(other) + Len(inbound[other])
          BY <3>1
        <5> QED
          BY <4>2, <5>1, <5>2, <5>3
      <4>4. ASSUME NEW i \in DOMAIN inbound'[other]
            PROVE  inbound'[other][i].n = Passed(other)' + i /\ inbound'[other][i].stream = other
        <5>1. i + 1 \in DOMAIN inbound[other] /\ inbound'[other][i] = inbound[other][i + 1] /\ i \in Nat
          BY <1>2, <3>3, <4>1
        <5>2. inbound[other][i + 1].n = Passed(other) + (i + 1) /\ inbound[other][i + 1].stream = other
          BY <3>1, <5>1
        <5> QED
          BY <4>2, <5>1, <5>2
      <4> QED
        BY <4>3, <4>4
    <3> QED
      BY <3>2, <3>3
  <2>3. /\ \A other \in Streams : \A i \in DOMAIN delivered'[other] : delivered'[other][i].n = i
        /\ \A other \in running' \cup acks' : other.n <= Len(delivered'[other.stream])
    BY <1>1 DEF InboundInv, Numbered
  <2> QED
    BY <2>1, <2>2, <2>3 DEF Numbered, Passed
<1>13. Final'
  <2>1. ASSUME NEW i \in DOMAIN pool', pool'[i].end PROVE pc'[pool'[i].stream] = "done"
    <3>1. CASE i \in DOMAIN pool /\ pool'[i] = pool[i]
      <4>1. pool[i].stream \in Streams \ {s}
        BY <1>4, <3>1, FrameFields DEF InboundInv, TypeOK
      <4>2. pc[pool[i].stream] = "done"
        BY <2>1, <3>1 DEF InboundInv, Final
      <4> QED
        BY <1>6, <3>1, <4>1, <4>2
    <3>2. CASE pool'[i] = frame
      BY <1>5, <1>6, <2>1, <3>2
    <3> QED
      BY <1>8, <3>1, <3>2
  <2>2. ASSUME NEW other \in Streams, NEW i \in DOMAIN delivered[other], delivered[other][i].end
        PROVE  i = Len(delivered[other]) /\ pc'[other] = "done" /\ ~Pooled(pool', other)
    BY <1>6, <1>11, <2>2 DEF InboundInv, Final
  <2> QED
    BY <1>1, <2>1, <2>2 DEF Final
<1>14. Charged'
  <2>1. ASSUME NEW other \in Streams PROVE Pending(other)' = Pending(other)
    <3>1. CASE other # s
      <4>1. inbound'[other] = inbound[other]
        BY <1>1, <3>1 DEF InboundInv, TypeOK
      <4> QED
        BY <1>1, <1>3, <1>5, <3>1, <4>1 DEF Pending, InFlight
    <3>2. CASE other = s
      <4>1. ToSet(inbound[other]) = {frame} \cup ToSet(inbound'[other])
        BY <1>1, <1>2, <3>2 DEF InboundInv, TypeOK
      <4> QED
        BY <1>1, <1>3, <1>5, <3>2, <4>1 DEF Pending, InFlight
    <3> QED
      BY <3>1, <3>2
  <2> QED
    BY <1>1, <2>1 DEF InboundInv, Charged
<1> QED
  BY <1>7, <1>9, <1>10, <1>12, <1>13, <1>14 DEF InboundInv

LEMMA StartKeeps ==
    ASSUME InboundInv, StartFrame
    PROVE  InboundInv'
<1> DEFINE frame == Head(pool)
           s == frame.stream
<1>1. /\ running' = running \cup {frame} /\ pool' = Tail(pool) /\ pool # <<>>
      /\ delivered' = [delivered EXCEPT ![s] = Append(delivered[s], frame)]
      /\ UNCHANGED <<peerVars, registered, streamVars, inbound, pc, acks, unacked, raised>>
  BY DEF StartFrame
<1>2. /\ frame \in Frames /\ frame = pool[1] /\ 1 \in DOMAIN pool /\ pool' \in Seq(Frames)
      /\ DOMAIN pool = 1..Len(pool) /\ DOMAIN pool' = 1..(Len(pool) - 1)
      /\ \A i \in DOMAIN pool' : i + 1 \in DOMAIN pool /\ pool'[i] = pool[i + 1]
      /\ ToSet(pool) = {frame} \cup ToSet(pool')
  <2>1. pool \in Seq(Frames)
    BY DEF InboundInv, TypeOK
  <2> QED
    BY <1>1, <2>1, Removed
<1>3. s \in Streams
  BY <1>2, FrameFields
<1>4. /\ delivered'[s] \in Seq(Frames)
      /\ DOMAIN delivered'[s] = 1..(Len(delivered[s]) + 1) /\ DOMAIN delivered[s] = 1..Len(delivered[s])
      /\ Len(delivered'[s]) = Len(delivered[s]) + 1 /\ Len(delivered[s]) \in Nat
      /\ \A i \in DOMAIN delivered[s] : delivered'[s][i] = delivered[s][i]
      /\ delivered'[s][Len(delivered[s]) + 1] = frame
      /\ \A other \in Streams \ {s} : delivered'[other] = delivered[other]
  <2>1. delivered \in [Streams -> Seq(Frames)]
    BY DEF InboundInv, TypeOK
  <2> HIDE DEF frame
  <2>2. delivered'[s] = Append(delivered[s], frame)
    BY <1>1, <1>3, <2>1
  <2>3. delivered[s] \in Seq(Frames) /\ Len(delivered[s]) \in Nat
    BY <1>3, <2>1
  <2>4. \A other \in Streams \ {s} : delivered'[other] = delivered[other]
    BY <1>1, <2>1
  <2>5. frame \in Frames
    BY <1>2
  <2> HIDE DEF s
  <2> QED
    BY <2>2, <2>3, <2>4, <2>5, Appended
<1>5. /\ frame.n = Len(delivered[s]) + 1
      /\ frame.end => pc[s] = "done"
      /\ \A i \in DOMAIN pool' : pool'[i].stream # s
      /\ \A other \in running \cup acks : other.stream # s
      /\ pc[s] # "get"
  <2>1. frame.n = Len(delivered[s]) + 1 /\ (frame.end => pc[s] = "done")
    BY <1>2 DEF InboundInv, Numbered, Final
  <2>2. ASSUME NEW i \in DOMAIN pool' PROVE pool'[i].stream # s
    <3>1. i + 1 \in DOMAIN pool /\ pool'[i] = pool[i + 1] /\ i + 1 # 1
      BY <1>2, <2>2
    <3> QED
      BY <1>2, <3>1 DEF InboundInv, Single
  <2>3. \A other \in running \cup acks : other.stream # s
    BY <1>2 DEF InboundInv, Single
  <2> QED
    BY <1>2, <2>1, <2>2, <2>3 DEF InboundInv, Single
<1>6. \A other \in Streams : /\ other # s => (Pooled(pool', other) <=> Pooled(pool, other))
                             /\ Pooled(pool, s) /\ ~Pooled(pool', s)
  <2>1. Pooled(pool, s) /\ ~Pooled(pool', s)
    BY <1>2, <1>5 DEF Pooled
  <2>2. \A i \in DOMAIN pool : i = 1 \/ (i - 1 \in DOMAIN pool' /\ pool'[i - 1] = pool[i])
    BY <1>2
  <2> QED
    BY <1>2, <2>1, <2>2 DEF Pooled
<1> HIDE DEF frame
<1>7. TypeOK'
  <2>1. delivered' \in [Streams -> Seq(Frames)]
    BY <1>1, <1>3, <1>4 DEF InboundInv, TypeOK
  <2> QED
    BY <1>1, <1>2, <2>1 DEF InboundInv, TypeOK, peerVars, streamVars
<1>8. Single'
  <2>1. ASSUME NEW i \in DOMAIN pool', NEW j \in DOMAIN pool', pool'[i].stream = pool'[j].stream
        PROVE  i = j
    <3>1. /\ i + 1 \in DOMAIN pool /\ j + 1 \in DOMAIN pool /\ i \in Int /\ j \in Int
          /\ pool'[i] = pool[i + 1] /\ pool'[j] = pool[j + 1]
      BY <1>2
    <3>2. i + 1 = j + 1
      BY <2>1, <3>1 DEF InboundInv, Single
    <3> QED
      BY <3>1, <3>2
  <2>2. \A i \in DOMAIN pool', other \in running' \cup acks' : pool'[i].stream # other.stream
    BY <1>1, <1>2, <1>5 DEF InboundInv, Single
  <2>3. \A one, other \in running' : one.stream = other.stream => one = other
    BY <1>1, <1>5 DEF InboundInv, Single
  <2>4. \A one \in running', other \in acks' : one.stream # other.stream
    BY <1>1, <1>5 DEF InboundInv, Single
  <2>5. \A i \in DOMAIN pool' : pc'[pool'[i].stream] # "get"
    BY <1>1, <1>2 DEF InboundInv, Single
  <2>6. \A other \in running' \cup acks' : pc'[other.stream] # "get"
    BY <1>1, <1>5 DEF InboundInv, Single
  <2> QED
    BY <1>1, <2>1, <2>2, <2>3, <2>4, <2>5, <2>6 DEF InboundInv, Single
<1>9. Remembered'
  BY <1>1 DEF InboundInv, Remembered, Gone, Replaced, ClosedInH2, peerVars, streamVars
<1>10. Numbered'
  <2>1. ASSUME NEW other \in Streams PROVE Passed(other)' = Passed(other)
    <3>1. CASE other = s
      <4>1. Pooled(pool, other) /\ ~Pooled(pool', other)
        BY <1>3, <1>6, <3>1
      <4>2. Len(delivered'[other]) = Len(delivered[other]) + 1 /\ Len(delivered[other]) \in Nat
        BY <1>4, <3>1
      <4> QED
        BY <4>1, <4>2 DEF Passed
    <3>2. CASE other # s
      <4>1. Pooled(pool, other) <=> Pooled(pool', other)
        BY <1>6, <3>2
      <4>2. delivered'[other] = delivered[other]
        BY <1>4, <3>2
      <4> QED
        BY <4>1, <4>2 DEF Passed
    <3> QED
      BY <3>1, <3>2
  <2>2. ASSUME NEW other \in Streams, NEW i \in DOMAIN delivered'[other]
        PROVE  delivered'[other][i].n = i
    <3>1. CASE other # s
      BY <1>4, <3>1 DEF InboundInv, Numbered
    <3>2. CASE other = s
      <4>1. i \in DOMAIN delivered[s] \/ i = Len(delivered[s]) + 1
        BY <1>4, <3>2
      <4> QED
        <5>1. CASE i \in DOMAIN delivered[s]
          <6>1. delivered[s][i].n = i
            BY <1>3, <5>1 DEF InboundInv, Numbered
          <6>2. delivered'[s][i] = delivered[s][i]
            BY <1>4, <5>1
          <6> QED
            BY <3>2, <6>1, <6>2
        <5>2. CASE i = Len(delivered[s]) + 1
          BY <1>4, <1>5, <3>2, <5>2
        <5> QED
          BY <4>1, <5>1, <5>2
    <3> QED
      BY <3>1, <3>2
  <2>3. ASSUME NEW i \in DOMAIN pool' PROVE pool'[i].n = Len(delivered'[pool'[i].stream]) + 1
    <3>1. /\ i + 1 \in DOMAIN pool /\ pool'[i] = pool[i + 1]
          /\ pool'[i].stream \in Streams \ {s}
      BY <1>2, <1>5, FrameFields
    <3>2. pool[i + 1].n = Len(delivered[pool[i + 1].stream]) + 1
      BY <3>1 DEF InboundInv, Numbered
    <3>3. delivered'[pool'[i].stream] = delivered[pool'[i].stream]
      BY <1>4, <3>1
    <3> QED
      BY <3>1, <3>2, <3>3
  <2>4. ASSUME NEW other \in running' \cup acks' PROVE other.n <= Len(delivered'[other.stream])
    <3>1. CASE other = frame
      BY <1>4, <1>5, <3>1
    <3>2. CASE other # frame
      BY <1>1, <1>4, <1>5, <3>2, FrameFields DEF InboundInv, Numbered, TypeOK
    <3> QED
      BY <3>1, <3>2
  <2> QED
    BY <1>1, <2>1, <2>2, <2>3, <2>4 DEF InboundInv, Numbered, peerVars
<1>11. Final'
  <2>1. \A i \in DOMAIN pool' : pool'[i].end => pc'[pool'[i].stream] = "done"
    BY <1>1, <1>2 DEF InboundInv, Final
  <2>2. ASSUME NEW other \in Streams, NEW i \in DOMAIN delivered'[other], delivered'[other][i].end
        PROVE  i = Len(delivered'[other]) /\ pc[other] = "done" /\ ~Pooled(pool', other)
    <3>1. CASE other # s
      BY <1>4, <1>6, <2>2, <3>1 DEF InboundInv, Final
    <3>2. CASE other = s
      <4>1. i \in DOMAIN delivered[s] \/ i = Len(delivered[s]) + 1
        BY <1>4, <3>2
      <4>2. i \notin DOMAIN delivered[s]
        <5>1. \A j \in DOMAIN delivered[s] : ~delivered[s][j].end
          BY <1>3, <1>6 DEF InboundInv, Final
        <5>2. \A j \in DOMAIN delivered[s] : delivered'[s][j] = delivered[s][j]
          BY <1>4
        <5> QED
          BY <2>2, <3>2, <5>1, <5>2
      <4> QED
        BY <1>3, <1>4, <1>5, <1>6, <2>2, <3>2, <4>1, <4>2
    <3> QED
      BY <3>1, <3>2
  <2> QED
    BY <1>1, <2>1, <2>2 DEF Final
<1>12. Charged'
  <2>1. ASSUME NEW other \in Streams PROVE Pending(other)' = Pending(other)
    BY <1>1, <1>2 DEF Pending, InFlight
  <2> QED
    BY <1>1, <2>1 DEF InboundInv, Charged
<1> QED
  BY <1>7, <1>8, <1>9, <1>10, <1>11, <1>12 DEF InboundInv

----------------------------------------------------------------------------
(* The end of a frame: acknowledged, or dropped by a listener that raises.  *)

LEMMA FinishKeeps ==
    ASSUME InboundInv, NEW frame \in running, FinishFrame(frame)
    PROVE  InboundInv'
<1>1. /\ running' = running \ {frame} /\ acks' = acks \cup {frame} /\ frame \in running
      /\ UNCHANGED <<peerVars, registered, streamVars, inbound, pc, pool, delivered, unacked, raised>>
  BY DEF FinishFrame
<1>2. TypeOK'
  BY <1>1 DEF InboundInv, TypeOK, peerVars, streamVars
<1>3. Single'
  BY <1>1 DEF InboundInv, Single
<1>4. Remembered'
  BY <1>1 DEF InboundInv, Remembered, Gone, Replaced, ClosedInH2, peerVars, streamVars
<1>5. Numbered'
  BY <1>1 DEF InboundInv, Numbered, Passed, peerVars
<1>6. Final'
  BY <1>1 DEF InboundInv, Final
<1>7. Charged'
  <2>1. \A s \in Streams : Pending(s)' = Pending(s)
    BY <1>1 DEF Pending, InFlight
  <2> QED
    BY <1>1, <2>1 DEF InboundInv, Charged
<1> QED
  BY <1>2, <1>3, <1>4, <1>5, <1>6, <1>7 DEF InboundInv

LEMMA RaisesKeeps ==
    ASSUME InboundInv, NEW frame \in running, ListenerRaises(frame)
    PROVE  InboundInv'
<1>1. /\ running' = running \ {frame} /\ raised' = raised \cup {frame.stream} /\ frame \in running
      /\ UNCHANGED <<peerVars, registered, streamVars, inbound, pc, pool, acks, delivered, unacked>>
  BY DEF ListenerRaises
<1>2. TypeOK'
  BY <1>1, FrameFields DEF InboundInv, TypeOK, peerVars, streamVars
<1>3. Single'
  BY <1>1 DEF InboundInv, Single
<1>4. Remembered'
  BY <1>1 DEF InboundInv, Remembered, Gone, Replaced, ClosedInH2, peerVars, streamVars
<1>5. Numbered'
  BY <1>1 DEF InboundInv, Numbered, Passed, peerVars
<1>6. Final'
  BY <1>1 DEF InboundInv, Final
<1>7. Charged'
  <2> SUFFICES ASSUME NEW s \in Streams
               PROVE  IsFiniteSet(Pending(s))' /\ Cardinality(Pending(s)') <= unacked'[s]
    BY DEF Charged
  <2>1. Pending(s)' \subseteq Pending(s)
    BY <1>1 DEF Pending, InFlight
  <2>2. /\ IsFiniteSet(Pending(s)) /\ Cardinality(Pending(s)) <= unacked[s] /\ unacked[s] \in Nat
        /\ unacked' = unacked
    BY <1>1 DEF InboundInv, Charged, TypeOK
  <2> QED
    BY <2>1, <2>2, Fewer
<1> QED
  BY <1>2, <1>3, <1>4, <1>5, <1>6, <1>7 DEF InboundInv

LEMMA AckKeeps ==
    ASSUME InboundInv, NEW frame \in acks, AckFrame(frame)
    PROVE  InboundInv'
<1> DEFINE s == frame.stream
<1>1. /\ acks' = acks \ {frame}
      /\ unacked' = [unacked EXCEPT ![s] = unacked[s] - Credit(frame)]
      /\ pc' = IF Wakes(frame) THEN [pc EXCEPT ![s] = "get"] ELSE pc
      /\ UNCHANGED <<peerVars, registered, streamVars, inbound, pool, running, delivered, raised>>
  BY DEF AckFrame
<1>2. frame \in Frames /\ s \in Streams
  BY FrameFields DEF InboundInv, TypeOK
<1>3. /\ \A i \in DOMAIN pool : pool[i].stream # s
      /\ \A other \in running \cup acks' : other.stream # s
  BY <1>1 DEF InboundInv, Single
<1>4. /\ \A other \in Streams : other # s => pc'[other] = pc[other]
      /\ \A other \in Streams : pc[other] = "done" => pc'[other] = "done"
      /\ pc' \in [Streams -> {"get", "wait", "done"}]
  BY <1>1, <1>2 DEF Wakes, InboundInv, TypeOK
<1>5. /\ frame \in InFlight(s) /\ InFlight(s)' = {}
      /\ \A other \in Streams \ {s} : InFlight(other)' = InFlight(other)
  <2>1. frame \in InFlight(s)
    BY DEF InFlight
  <2>2. ToSet(pool) = {pool[i] : i \in DOMAIN pool}
    BY DEF ToSet
  <2>3. \A other \in ToSet(pool) : other.stream # s
    BY <1>3, <2>2
  <2>4. InFlight(s)' = {}
    <3>1. \A other \in ToSet(pool) \cup running \cup acks' : other.stream # s
      BY <1>3, <2>3
    <3>2. pool' = pool /\ running' = running
      BY <1>1
    <3> HIDE DEF s
    <3>3. {other \in ToSet(pool) \cup running \cup acks' : other.stream = s} = {}
      BY <3>1
    <3> QED
      BY <3>2, <3>3 DEF InFlight, s
  <2>5. \A other \in Streams \ {s} : InFlight(other)' = InFlight(other)
    BY <1>1 DEF InFlight
  <2> QED
    BY <2>1, <2>4, <2>5
<1>6. frame \notin ToSet(inbound[s])
  <2>1. frame.n <= Len(delivered[s]) /\ frame.n \in Nat /\ Len(delivered[s]) \in Nat
    BY <1>2, FrameFields DEF InboundInv, Numbered, TypeOK
  <2>2. ASSUME NEW i \in DOMAIN inbound[s] PROVE inbound[s][i].n > Len(delivered[s])
    <3>1. inbound[s][i].n = Passed(s) + i
      BY <1>2, <2>2 DEF InboundInv, Numbered
    <3>2. i \in Nat \ {0}
      <4>1. inbound[s] \in Seq(Frames)
        BY <1>2 DEF InboundInv, TypeOK
      <4> QED
        BY <2>2, <4>1
    <3>3. Passed(s) \in Nat /\ Passed(s) >= Len(delivered[s])
      <4>1. CASE Pooled(pool, s)
        BY <2>1, <4>1 DEF Passed
      <4>2. CASE ~Pooled(pool, s)
        BY <2>1, <4>2 DEF Passed
      <4> QED
        BY <4>1, <4>2
    <3> QED
      BY <2>1, <3>1, <3>2, <3>3
  <2> QED
    BY <2>1, <2>2 DEF ToSet
<1>7. Charged' /\ unacked' \in [Streams -> Nat]
  <2> SUFFICES ASSUME NEW other \in Streams
               PROVE  /\ IsFiniteSet(Pending(other))' /\ Cardinality(Pending(other)') <= unacked'[other]
                      /\ unacked'[other] \in Nat
    BY <1>1 DEF Charged, InboundInv, TypeOK
  <2>1. /\ IsFiniteSet(Pending(other)) /\ Cardinality(Pending(other)) <= unacked[other]
        /\ unacked[other] \in Nat /\ inbound' = inbound
    BY <1>1 DEF InboundInv, Charged, TypeOK
  <2>2. CASE other # s
    <3>1. Pending(other)' = Pending(other)
      BY <1>5, <2>1, <2>2 DEF Pending
    <3>2. unacked'[other] = unacked[other]
      BY <1>1, <2>2 DEF InboundInv, TypeOK
    <3> QED
      BY <2>1, <3>1, <3>2
  <2>3. CASE other = s /\ frame.kind = "DATA"
    <3>1. unacked'[other] = unacked[other] - 1
      BY <1>1, <2>3 DEF Credit, InboundInv, TypeOK
    <3>2. frame \in Pending(other)
      BY <1>5, <2>3 DEF Pending
    <3>3. Pending(other)' \subseteq Pending(other) \ {frame}
      BY <1>5, <1>6, <2>1, <2>3 DEF Pending
    <3>4. /\ IsFiniteSet(Pending(other) \ {frame}) /\ Cardinality(Pending(other) \ {frame}) <= unacked[other] - 1
          /\ unacked[other] - 1 \in Nat
      BY <2>1, <3>2, OneLess
    <3> QED
      BY <3>1, <3>3, <3>4, Fewer
  <2>4. CASE other = s /\ frame.kind # "DATA"
    <3>1. unacked'[other] = unacked[other]
      BY <1>1, <2>1, <2>4 DEF Credit, InboundInv, TypeOK
    <3>2. Pending(other)' \subseteq Pending(other)
      BY <1>5, <2>1, <2>4 DEF Pending
    <3> QED
      BY <2>1, <3>1, <3>2, Fewer
  <2> QED
    BY <2>2, <2>3, <2>4
<1>8. TypeOK'
  <2>1. /\ acks' \subseteq Frames /\ peer' = peer /\ heir' = heir
        /\ clientSide' = clientSide /\ ignored' = ignored
    BY <1>1 DEF InboundInv, TypeOK, peerVars
  <2>2. received' = received /\ localClosed' = localClosed /\ remoteClosed' = remoteClosed
    BY <1>1 DEF peerVars, streamVars
  <2>3. UNCHANGED <<registered, inbound, pool, running, delivered, raised>>
    BY <1>1
  <2>4. unacked' \in [Streams -> Nat]
    BY <1>7
  <2> QED
    BY <1>4, <2>1, <2>2, <2>3, <2>4 DEF InboundInv, TypeOK
<1>9. Single'
  <2>1. /\ \A i \in DOMAIN pool : pool[i].stream \in Streams
        /\ \A other \in running \cup acks : other.stream \in Streams
    BY FrameFields DEF InboundInv, TypeOK
  <2>2. \A i \in DOMAIN pool : pc'[pool[i].stream] # "get"
    BY <1>3, <1>4, <2>1 DEF InboundInv, Single
  <2>3. \A other \in running \cup acks' : pc'[other.stream] # "get"
    BY <1>1, <1>3, <1>4, <2>1 DEF InboundInv, Single
  <2> QED
    BY <1>1, <2>2, <2>3 DEF InboundInv, Single
<1>10. Remembered'
  BY <1>1 DEF InboundInv, Remembered, Gone, Replaced, ClosedInH2, peerVars, streamVars
<1>11. Numbered'
  BY <1>1 DEF InboundInv, Numbered, Passed, peerVars
<1>12. Final'
  <2>1. \A i \in DOMAIN pool : pool[i].stream \in Streams
    BY FrameFields DEF InboundInv, TypeOK
  <2> QED
    BY <1>1, <1>4, <2>1 DEF InboundInv, Final
<1> QED
  BY <1>7, <1>8, <1>9, <1>10, <1>11, <1>12 DEF InboundInv

LEMMA CloseKeeps ==
    ASSUME InboundInv, NEW s \in Streams, CloseLocal(s) \/ LocalReset(s)
    PROVE  InboundInv'
<1>1. /\ localClosed' = [localClosed EXCEPT ![s] = TRUE]
      /\ remoteClosed' \in {remoteClosed, [remoteClosed EXCEPT ![s] = TRUE]}
      /\ UNCHANGED <<peerVars, registered, inbound, pc, pool, running, acks, delivered, unacked, raised>>
  BY DEF CloseLocal, LocalReset
<1>2. TypeOK'
  BY <1>1 DEF InboundInv, TypeOK, peerVars
<1>3. Single'
  BY <1>1 DEF InboundInv, Single
<1>4. Remembered'
  <2>1. \A other \in Streams : ClosedInH2(other) => ClosedInH2(other)'
    BY <1>1 DEF ClosedInH2, peerVars, InboundInv, TypeOK
  <2> QED
    BY <1>1, <2>1 DEF InboundInv, Remembered, Gone, Replaced, peerVars
<1>5. Numbered'
  BY <1>1 DEF InboundInv, Numbered, Passed, peerVars
<1>6. Final'
  BY <1>1 DEF InboundInv, Final
<1>7. Charged'
  BY <1>1 DEF InboundInv, Charged, Pending, InFlight
<1> QED
  BY <1>2, <1>3, <1>4, <1>5, <1>6, <1>7 DEF InboundInv

----------------------------------------------------------------------------
LEMMA NothingKeeps ==
    ASSUME InboundInv, UNCHANGED vars
    PROVE  InboundInv'
<1>1. /\ UNCHANGED <<clientSide, peer, heir, received, ignored, registered, localClosed, remoteClosed>>
      /\ UNCHANGED <<inbound, pc, pool, running, acks, delivered, unacked, raised>>
  BY DEF vars, peerVars, streamVars
<1>2. TypeOK' /\ Single' /\ Remembered'
  BY <1>1 DEF InboundInv, TypeOK, Single, Remembered, Gone, Replaced, ClosedInH2
<1>3. Numbered' /\ Final' /\ Charged'
  BY <1>1 DEF InboundInv, Numbered, Passed, Final, Charged, Pending, InFlight
<1> QED
  BY <1>2, <1>3 DEF InboundInv

LEMMA Inductive == Spec => []InboundInv
<1>1. InboundInv /\ [Next]_vars => InboundInv'
  <2> SUFFICES ASSUME InboundInv, [Next]_vars PROVE InboundInv'
    OBVIOUS
  <2>1. ASSUME NEW s \in Streams, NEW kind \in Kinds, NEW end \in BOOLEAN, ReceiveFrame(s, kind, end)
        PROVE  InboundInv'
    BY <2>1, ReceiveKeeps
  <2>2. ASSUME NEW s \in Streams, Dispatch(s) PROVE InboundInv'
    BY <2>2, DispatchKeeps
  <2>3. ASSUME NEW s \in Streams, CloseLocal(s) \/ LocalReset(s) PROVE InboundInv'
    BY <2>3, CloseKeeps
  <2>4. CASE StartFrame
    BY <2>4, StartKeeps
  <2>5. ASSUME NEW frame \in running, FinishFrame(frame) PROVE InboundInv'
    BY <2>5, FinishKeeps
  <2>6. ASSUME NEW frame \in running, ListenerRaises(frame) PROVE InboundInv'
    BY <2>6, RaisesKeeps
  <2>7. ASSUME NEW frame \in acks, AckFrame(frame) PROVE InboundInv'
    BY <2>7, AckKeeps
  <2>8. ASSUME NEW s \in Streams, NEW new \in Streams, RequestTrailers(s, new) PROVE InboundInv'
    BY <2>8, TrailersKeep
  <2>9. CASE UNCHANGED vars
    BY <2>9, NothingKeeps
  <2> QED
    BY <2>1, <2>2, <2>3, <2>4, <2>5, <2>6, <2>7, <2>8, <2>9 DEF Next
<1> QED
  BY Starts, <1>1, PTL DEF Spec

\* Every reachable state of the frame queues, the coroutines and the thread pool is
\* well typed: in particular the credit that h2 holds back is never negative, so that
\* no acknowledgement returns credit twice.
THEOREM TypesHold == Spec => []TypeOK
<1>1. InboundInv => TypeOK
  BY DEF InboundInv
<1> QED
  BY <1>1, Inductive, PTL

\* OneAtATime of _run, _handle_frame and ack_frame, for any number of streams and
\* worker threads.
THEOREM FramesOneAtATime == Spec => []OneAtATime
<1>1. InboundInv => OneAtATime
  <2> SUFFICES ASSUME InboundInv PROVE OneAtATime
    OBVIOUS
  <2>1. ASSUME NEW s \in Streams PROVE Cardinality(InFlight(s)) <= 1
    <3>1. \A one, other \in InFlight(s) : one = other
      <4>1. \A frame \in ToSet(pool) : \E i \in DOMAIN pool : pool[i] = frame
        BY DEF ToSet
      <4> QED
        BY <4>1 DEF InboundInv, Single, InFlight
    <3>2. InFlight(s) = {} \/ \E frame : InFlight(s) = {frame}
      BY <3>1
    <3>3. Cardinality({}) = 0 /\ \A frame : Cardinality({frame}) = 1
      BY FS_EmptySet, FS_Singleton
    <3> QED
      BY <3>2, <3>3
  <2>2. ASSUME NEW s \in Streams, pc[s] = "get" PROVE InFlight(s) = {}
    <3>1. \A frame \in ToSet(pool) : \E i \in DOMAIN pool : pool[i] = frame
      BY DEF ToSet
    <3> QED
      BY <2>2, <3>1 DEF InboundInv, Single, InFlight
  <2>3. \A frame \in acks : ~LockHeld(frame.stream)
    BY DEF InboundInv, Single, LockHeld
  <2> QED
    BY <2>1, <2>2, <2>3 DEF OneAtATime
<1> QED
  BY <1>1, Inductive, PTL

----------------------------------------------------------------------------
(* A stream whose peer has not ended it holds no frame that ends it, also   *)
(* after another took its place.                                            *)

Ends(q) == \E i \in DOMAIN q : q[i].end
EndsIn(q, s) == \E i \in DOMAIN q : q[i].stream = s /\ q[i].end
StillOpen(s) == peer[s] \in {"idle", "open", "replaced"}

Unended == \A s \in Streams : StillOpen(s) =>
    ~Ends(inbound[s]) /\ ~EndsIn(pool, s) /\ ~Ends(delivered[s])

LEMMA AppendedEnds ==
    ASSUME NEW q \in Seq(Frames), NEW frame \in Frames
    PROVE  /\ Ends(Append(q, frame)) => Ends(q) \/ frame.end
           /\ \A s : EndsIn(Append(q, frame), s) => EndsIn(q, s) \/ (frame.stream = s /\ frame.end)
<1>1. \A i \in DOMAIN Append(q, frame) :
         \/ i \in DOMAIN q /\ Append(q, frame)[i] = q[i]
         \/ Append(q, frame)[i] = frame
  <2>1. /\ DOMAIN Append(q, frame) = 1..(Len(q) + 1) /\ DOMAIN q = 1..Len(q) /\ Len(q) \in Nat
        /\ \A i \in DOMAIN q : Append(q, frame)[i] = q[i]
        /\ Append(q, frame)[Len(q) + 1] = frame
    BY Appended
  <2> QED
    BY <2>1
<1> QED
  BY <1>1 DEF Ends, EndsIn

LEMMA RemovedEnds ==
    ASSUME NEW q \in Seq(Frames), q # <<>>
    PROVE  /\ Ends(Tail(q)) => Ends(q)
           /\ \A s : EndsIn(Tail(q), s) => EndsIn(q, s)
           /\ Head(q).end => Ends(q) /\ EndsIn(q, Head(q).stream)
  BY Removed DEF Ends, EndsIn

LEMMA UnendedKept ==
    ASSUME InboundInv, Unended, [Next]_vars
    PROVE  Unended'
<1>1. /\ inbound \in [Streams -> Seq(Frames)] /\ pool \in Seq(Frames)
      /\ delivered \in [Streams -> Seq(Frames)]
      /\ peer \in [Streams -> {"idle", "open", "ended", "reset", "replaced"}]
  BY DEF InboundInv, TypeOK
<1>2. ASSUME NEW s \in Streams, NEW kind \in Kinds, NEW end \in BOOLEAN, ReceiveFrame(s, kind, end)
      PROVE  Unended'
  <2> DEFINE frame == [stream |-> s, kind |-> kind, end |-> end, n |-> received[s] + 1]
  <2>1. frame \in Frames /\ inbound' = [inbound EXCEPT ![s] = Append(inbound[s], frame)]
    BY <1>2, ReceiveEffect
  <2>2. /\ peer' = [peer EXCEPT ![s] = PeerState(kind, end)]
        /\ pool' = pool /\ delivered' = delivered /\ MayFollow(s, kind, end) /\ frame.end = end
    BY <1>2 DEF ReceiveFrame
  <2> HIDE DEF frame
  <2> SUFFICES ASSUME NEW other \in Streams, StillOpen(other)'
               PROVE  ~Ends(inbound'[other]) /\ ~EndsIn(pool, other) /\ ~Ends(delivered[other])
    BY <2>2 DEF Unended
  <2>3. CASE other # s
    BY <1>1, <2>1, <2>2, <2>3 DEF Unended, StillOpen
  <2>4. CASE other = s
    <3>1. ~end /\ StillOpen(s)
      BY <1>1, <2>2, <2>4 DEF StillOpen, PeerState, MayFollow, Kinds
    <3>2. inbound'[s] = Append(inbound[s], frame) /\ inbound[s] \in Seq(Frames)
      BY <1>1, <2>1
    <3>3. ~Ends(inbound[s]) /\ ~EndsIn(pool, s) /\ ~Ends(delivered[s])
      BY <3>1 DEF Unended
    <3> QED
      BY <2>1, <2>2, <2>4, <3>1, <3>2, <3>3, AppendedEnds
  <2> QED
    BY <2>3, <2>4
<1>3. ASSUME NEW s \in Streams, NEW new \in Streams, RequestTrailers(s, new) PROVE Unended'
  <2>1. /\ \A other \in Streams \ {new} : inbound'[other] = inbound[other]
        /\ peer' = [peer EXCEPT ![s] = "replaced", ![new] = "ended"]
        /\ pool' = pool /\ delivered' = delivered /\ peer[s] = "open" /\ peer[new] = "idle"
    BY <1>1, <1>3 DEF RequestTrailers
  <2>2. \A other \in Streams : StillOpen(other)' => other # new /\ StillOpen(other)
    BY <1>1, <2>1 DEF StillOpen
  <2> QED
    BY <2>1, <2>2 DEF Unended
<1>4. ASSUME NEW s \in Streams, Dispatch(s) PROVE Unended'
  <2>1. /\ pool' = Append(pool, Head(inbound[s])) /\ inbound[s] # <<>>
        /\ inbound' = [inbound EXCEPT ![s] = Tail(inbound[s])]
        /\ delivered' = delivered /\ peer' = peer
    BY <1>4 DEF Dispatch, peerVars
  <2>2. /\ Head(inbound[s]) \in Frames /\ inbound[s] \in Seq(Frames) /\ Head(inbound[s]).stream = s
    <3>1. Head(inbound[s]) = inbound[s][1] /\ 1 \in DOMAIN inbound[s] /\ Head(inbound[s]) \in Frames
      BY <1>1, <2>1, Removed
    <3> QED
      BY <1>1, <3>1 DEF InboundInv, Numbered
  <2>3. /\ Ends(Tail(inbound[s])) => Ends(inbound[s])
        /\ Head(inbound[s]).end => Ends(inbound[s])
    BY <2>1, <2>2, RemovedEnds
  <2>4. \A other : EndsIn(pool', other) =>
            EndsIn(pool, other) \/ (Head(inbound[s]).stream = other /\ Head(inbound[s]).end)
    BY <1>1, <2>1, <2>2, AppendedEnds
  <2>5. \A other \in Streams : Ends(inbound'[other]) => Ends(inbound[other])
    BY <1>1, <2>1, <2>3
  <2>6. \A other \in Streams : StillOpen(other)' <=> StillOpen(other)
    BY <2>1 DEF StillOpen
  <2> QED
    BY <2>1, <2>2, <2>3, <2>4, <2>5, <2>6 DEF Unended
<1>5. CASE StartFrame
  <2> DEFINE s == Head(pool).stream
  <2>1. /\ pool' = Tail(pool) /\ pool # <<>> /\ inbound' = inbound /\ peer' = peer
        /\ delivered' = [delivered EXCEPT ![s] = Append(delivered[s], Head(pool))]
    BY <1>5 DEF StartFrame, peerVars
  <2>2. Head(pool) \in Frames /\ s \in Streams
    BY <1>1, <2>1, Removed, FrameFields
  <2>3. /\ \A other : EndsIn(pool', other) => EndsIn(pool, other)
        /\ Head(pool).end => EndsIn(pool, s)
    BY <1>1, <2>1, RemovedEnds
  <2>4. Ends(delivered'[s]) => Ends(delivered[s]) \/ Head(pool).end
    <3>1. delivered'[s] = Append(delivered[s], Head(pool)) /\ delivered[s] \in Seq(Frames)
      BY <1>1, <2>1, <2>2
    <3> QED
      BY <2>2, <3>1, AppendedEnds
  <2>5. \A other \in Streams \ {s} : delivered'[other] = delivered[other]
    BY <1>1, <2>1
  <2>6. \A other \in Streams : StillOpen(other)' <=> StillOpen(other)
    BY <2>1 DEF StillOpen
  <2> HIDE DEF s
  <2> QED
    BY <2>1, <2>2, <2>3, <2>4, <2>5, <2>6 DEF Unended
<1>6. CASE \/ \E s \in Streams : CloseLocal(s) \/ LocalReset(s)
           \/ \E frame \in running : FinishFrame(frame) \/ ListenerRaises(frame)
           \/ \E frame \in acks : AckFrame(frame)
           \/ UNCHANGED vars
  <2>1. UNCHANGED <<inbound, pool, delivered, peer>>
    BY <1>6 DEF CloseLocal, LocalReset, FinishFrame, ListenerRaises, AckFrame, vars, peerVars
  <2> QED
    BY <2>1 DEF Unended, StillOpen
<1> QED
  BY <1>2, <1>3, <1>4, <1>5, <1>6 DEF Next

\* InOrder of handle_frame, _run and _handle_frame with the registry of streams, for
\* any number of frames: also that a stream which was replaced under its listener by
\* the trailers of a request never tells it of an end.
THEOREM FramesInOrder == Spec => []InOrder
<1>1. Init => Unended
  BY DEF Init, Unended, Ends, EndsIn
<1>2. InboundInv /\ Unended /\ [Next]_vars => Unended'
  BY UnendedKept
<1>3. InboundInv /\ Unended => InOrder
  <2> SUFFICES ASSUME InboundInv, Unended PROVE InOrder
    OBVIOUS
  <2>1. \A s \in Streams : Replaced(s) => ~clientSide /\ StillOpen(s)
    BY DEF InboundInv, Remembered, StillOpen
  <2>2. \A s \in Streams : StillOpen(s) => \A i \in DOMAIN delivered[s] : ~delivered[s][i].end
    BY DEF Unended, Ends
  <2> QED
    BY <2>1, <2>2 DEF InboundInv, Numbered, Final, Remembered, InOrder
<1> QED
  BY <1>1, <1>2, <1>3, Inductive, PTL DEF Spec
=============================================================================
