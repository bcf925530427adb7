------------------------- MODULE FlowControl_proofs -------------------------
(***************************************************************************)
(* Safety of FlowControl for any number of streams, any windows, any data  *)
(* and any SETTINGS of the peer.                                           *)
(***************************************************************************)
EXTENDS FlowControl, TLAPS, FiniteSetTheorems

----------------------------------------------------------------------------
(* Sequences as queues without duplicates *)

\* put_nowait of an id that is not queued keeps the queue free of duplicates.
LEMMA AppendInjective ==
    ASSUME NEW S, NEW q \in Seq(S), NEW s \in S, IsInjective(q), s \notin Range(q)
    PROVE  /\ Append(q, s) \in Seq(S)
           /\ IsInjective(Append(q, s))
           /\ Range(Append(q, s)) = Range(q) \cup {s}
<1> DEFINE a == Append(q, s)
<1>1. /\ a \in Seq(S) /\ Len(q) \in Nat
      /\ DOMAIN q = 1..Len(q) /\ DOMAIN a = 1..(Len(q) + 1)
      /\ \A i \in 1..Len(q) : a[i] = q[i]
      /\ a[Len(q) + 1] = s
  OBVIOUS
<1>2. IsInjective(a)
  BY <1>1 DEF IsInjective, Range
<1>3. \A x \in Range(a) : x \in Range(q) \cup {s}
  BY <1>1 DEF Range
<1>4. \A x \in Range(q) \cup {s} : x \in Range(a)
  BY <1>1 DEF Range
<1> QED
  BY <1>1, <1>2, <1>3, <1>4

\* get removes the head, and nothing else, from such a queue.
LEMMA TailInjective ==
    ASSUME NEW S, NEW q \in Seq(S), q # <<>>, IsInjective(q)
    PROVE  /\ Head(q) \in S /\ Head(q) \in Range(q)
           /\ Tail(q) \in Seq(S)
           /\ IsInjective(Tail(q))
           /\ Range(Tail(q)) = Range(q) \ {Head(q)}
<1>1. Head(q) \in S /\ Tail(q) \in Seq(S) /\ Len(q) \in Nat \ {0}
  OBVIOUS
<1>2. Head(q) = q[1] /\ DOMAIN q = 1..Len(q) /\ DOMAIN Tail(q) = 1..(Len(q) - 1)
  OBVIOUS
<1>3. \A i \in 1..(Len(q) - 1) : Tail(q)[i] = q[i + 1]
  OBVIOUS
<1>4. Head(q) \in Range(q)
  BY <1>1, <1>2 DEF Range
<1>5. IsInjective(Tail(q))
  BY <1>1, <1>2, <1>3 DEF IsInjective
<1>6. ASSUME NEW x \in Range(Tail(q)) PROVE x \in Range(q) \ {Head(q)}
  BY <1>1, <1>2, <1>3, <1>6 DEF IsInjective, Range
<1>7. ASSUME NEW x \in Range(q) \ {Head(q)} PROVE x \in Range(Tail(q))
  <2>1. PICK i \in 1..Len(q) : x = q[i]
    BY <1>2, <1>7 DEF Range
  <2>2. i # 1
    BY <1>2, <1>7, <2>1
  <2>3. PICK j \in 1..(Len(q) - 1) : j + 1 = i
    BY <1>1, <2>1, <2>2
  <2>4. Tail(q)[j] = x
    BY <1>3, <2>1, <2>3
  <2> QED
    BY <1>2, <2>3, <2>4 DEF Range
<1> QED
  BY <1>1, <1>4, <1>5, <1>6, <1>7

\* Disjoint queues without duplicates can be joined.
LEMMA ConcatInjective ==
    ASSUME NEW S, NEW q \in Seq(S), NEW r \in Seq(S),
           IsInjective(q), IsInjective(r), Range(q) \cap Range(r) = {}
    PROVE  /\ q \o r \in Seq(S)
           /\ IsInjective(q \o r)
           /\ Range(q \o r) = Range(q) \cup Range(r)
<1> DEFINE c == q \o r
<1>1. /\ c \in Seq(S) /\ Len(q) \in Nat /\ Len(r) \in Nat
      /\ DOMAIN q = 1..Len(q) /\ DOMAIN r = 1..Len(r)
      /\ DOMAIN c = 1..(Len(q) + Len(r))
  OBVIOUS
<1>2. \A i \in 1..(Len(q) + Len(r)) :
        c[i] = IF i <= Len(q) THEN q[i] ELSE r[i - Len(q)]
  OBVIOUS
<1>3. \A i \in 1..Len(q) : c[i] = q[i]
  BY <1>1, <1>2
<1>4. \A i \in 1..Len(r) : c[Len(q) + i] = r[i] /\ Len(q) + i \in DOMAIN c
  BY <1>1, <1>2
<1>5. IsInjective(c)
  <2> SUFFICES ASSUME NEW i \in DOMAIN c, NEW j \in DOMAIN c, c[i] = c[j]
               PROVE  i = j
    BY DEF IsInjective
  <2>1. CASE i <= Len(q) /\ j <= Len(q)
    BY <1>1, <1>2, <2>1 DEF IsInjective
  <2>2. CASE i > Len(q) /\ j > Len(q)
    BY <1>1, <1>2, <2>2 DEF IsInjective
  <2>3. CASE i <= Len(q) /\ j > Len(q)
    <3>1. c[i] \in Range(q) /\ c[j] \in Range(r)
      BY <1>1, <1>2, <2>3 DEF Range
    <3> QED
      BY <3>1
  <2>4. CASE i > Len(q) /\ j <= Len(q)
    <3>1. c[i] \in Range(r) /\ c[j] \in Range(q)
      BY <1>1, <1>2, <2>4 DEF Range
    <3> QED
      BY <3>1
  <2> QED
    BY <1>1, <2>1, <2>2, <2>3, <2>4
<1>6. ASSUME NEW x \in Range(c) PROVE x \in Range(q) \cup Range(r)
  <2>1. PICK i \in DOMAIN c : x = c[i]
    BY <1>6 DEF Range
  <2> QED
    BY <1>1, <1>2, <2>1 DEF Range
<1>7. ASSUME NEW x \in Range(q) \cup Range(r) PROVE x \in Range(c)
  <2>1. CASE x \in Range(q)
    BY <1>1, <1>3, <2>1 DEF Range
  <2>2. CASE x \in Range(r)
    <3>1. PICK i \in 1..Len(r) : x = r[i]
      BY <1>1, <2>2 DEF Range
    <3> QED
      BY <1>4, <3>1 DEF Range
  <2> QED
    BY <1>7, <2>1, <2>2
<1> QED
  BY <1>1, <1>5, <1>6, <1>7

\* An order in which a finite set is released is a queue of its elements.
LEMMA OrderInjective ==
    ASSUME NEW B, IsFiniteSet(B), NEW order \in Bijection(1..Cardinality(B), B)
    PROVE  /\ order \in Seq(B)
           /\ IsInjective(order)
           /\ Range(order) = B
<1>1. Cardinality(B) \in Nat
  BY FS_CardinalityType
<1>2. /\ order \in [1..Cardinality(B) -> B] /\ IsInjective(order)
      /\ \A b \in B : \E i \in 1..Cardinality(B) : order[i] = b
  BY DEF Bijection, Injection, Surjection
<1>3. order \in Seq(B)
  BY <1>1, <1>2
<1>4. Range(order) = B
  BY <1>2 DEF Range
<1> QED
  BY <1>2, <1>3, <1>4

----------------------------------------------------------------------------
(* Arithmetic of one turn *)

\* What is sent is part of the data; it exceeds the window only if the window
\* is negative, and what is left over has used up a window it fits in.
LEMMA Slice ==
    ASSUME TypeOK, NEW s \in Streams
    PROVE  /\ Window(s) \in Int
           /\ ToSend(s) \in Nat /\ ToSend(s) <= data[s]
           /\ Rest(s) \in Nat /\ Rest(s) + ToSend(s) = data[s]
           /\ ToSend(s) > Window(s) => Window(s) < 0
           /\ (Rest(s) > 0 /\ ToSend(s) > 0 /\ ToSend(s) <= Window(s)) => ToSend(s) = Window(s)
           /\ (Rest(s) > 0 /\ ToSend(s) = 0) => Window(s) <= 0
<1>1. /\ streamWindow[s] \in Int /\ connWindow \in Int
      /\ data[s] \in Nat
  BY DEF TypeOK
<1>2. Window(s) \in Int
  BY <1>1 DEF Window, Min2
<1> QED
  BY <1>1, <1>2 DEF ToSend, Rest, Min2

USE DEF itemVars, h2Vars, ghosts

----------------------------------------------------------------------------
(* Types *)

LEMMA InitType == Init => TypeOK
BY FlowControlAssumption DEF Init, TypeOK, Marks

\* Every action keeps every variable in its type.
LEMMA TypeStep == TypeOK /\ [Next]_vars => TypeOK'
<1> SUFFICES ASSUME TypeOK, [Next]_vars PROVE TypeOK'
  OBVIOUS
<1>1. ASSUME NEW s \in Streams, NEW n \in Nat, NEW e \in BOOLEAN, WriteData(s, n, e)
      PROVE TypeOK'
  <2>1. queue' \in Seq(Streams)
    BY <1>1 DEF WriteData, Requeue, TypeOK
  <2>2. fired' \in [Streams -> SUBSET Nat]
    BY <1>1 DEF WriteData, Supersede, TypeOK
  <2>3. data' \in [Streams -> Nat] /\ accepted' \in [Streams -> Nat]
    BY <1>1 DEF WriteData, ExtendData, TypeOK
  <2>4. event' \in [Streams -> Nat] /\ writes' \in [Streams -> Nat]
    BY <1>1 DEF WriteData, TypeOK
  <2>5. endStream' \in [Streams -> BOOLEAN] /\ held' \subseteq Streams
    BY <1>1 DEF WriteData, TypeOK
  <2> QED
    BY <1>1, <2>1, <2>2, <2>3, <2>4, <2>5 DEF WriteData, TypeOK
<1>2. ASSUME NEW s \in Streams, NEW d \in Int, StreamWindowUpdate(s, d)
      PROVE TypeOK'
  BY <1>2, SMTT(30) DEF StreamWindowUpdate, Released, TypeOK
<1>3. ASSUME NEW d \in Int, ConnWindowUpdate(d)
      PROVE TypeOK'
  <2>1. PICK order \in ReleaseOrders : queue' = queue \o order
    BY <1>3 DEF ConnWindowUpdate
  <2>2. IsFiniteSet(blocked)
    BY FlowControlAssumption, FS_Subset DEF TypeOK
  <2>3. order \in Seq(blocked)
    BY <2>1, <2>2, OrderInjective DEF ReleaseOrders
  <2>4. order \in Seq(Streams)
    BY <2>3 DEF TypeOK
  <2>5. queue' \in Seq(Streams)
    BY <2>1, <2>4 DEF TypeOK
  <2> QED
    BY <1>3, <2>5 DEF ConnWindowUpdate, TypeOK
<1>4. ASSUME NEW d \in Int, PeerSettings(d)
      PROVE TypeOK'
  BY <1>4 DEF PeerSettings, Direction, TypeOK
<1>5. ASSUME NEW s \in Streams, Transmit(s)
      PROVE TypeOK'
  <2>1. queue' \in Seq(Streams)
    <3>1. Serving(s)
      BY <1>5 DEF Transmit, TransmitClosed, TransmitFails, TransmitPart, TransmitAll
    <3> QED
      BY <3>1 DEF Serving, TypeOK
  <2>2. ToSend(s) \in Nat /\ Rest(s) \in Nat
    BY Slice
  <2>3. CASE TransmitClosed(s)
    BY <2>1, <2>3 DEF TransmitClosed, TypeOK
  <2>4. CASE TransmitFails(s)
    BY <2>1, <2>4 DEF TransmitFails, TypeOK
  <2>5. CASE TransmitPart(s)
    <3>1. data' \in [Streams -> Nat] /\ sent' \in [Streams -> Nat]
      BY <2>2, <2>5, SMTT(30) DEF TransmitPart, Emit, TypeOK
    <3>2. streamWindow' \in [Streams -> Int] /\ connWindow' \in Int
      BY <2>2, <2>5, SMTT(30) DEF TransmitPart, Emit, TypeOK
    <3>3. marks' \in [Streams -> SUBSET Marks] /\ blocked' \subseteq Streams
      BY <2>5 DEF TransmitPart, TypeOK, Marks
    <3> QED
      BY <2>1, <2>5, <3>1, <3>2, <3>3 DEF TransmitPart, Emit, TypeOK
  <2>6. CASE TransmitAll(s)
    <3>1. data' \in [Streams -> Nat] /\ sent' \in [Streams -> Nat]
      BY <2>2, <2>6 DEF TransmitAll, Emit, TypeOK
    <3>2. streamWindow' \in [Streams -> Int] /\ connWindow' \in Int
      BY <2>2, <2>6 DEF TransmitAll, Emit, TypeOK
    <3>3. marks' \in [Streams -> SUBSET Marks] /\ held' \subseteq Streams
      BY <2>6 DEF TransmitAll, TypeOK, Marks
    <3>4. localClosed' \in [Streams -> BOOLEAN] /\ fired' \in [Streams -> SUBSET Nat]
      BY <2>6 DEF TransmitAll, TypeOK
    <3> QED
      BY <2>1, <2>6, <3>1, <3>2, <3>3, <3>4 DEF TransmitAll, Emit, TypeOK
  <2> QED
    BY <1>5, <2>3, <2>4, <2>5, <2>6 DEF Transmit
<1>6. ASSUME NEW s \in Streams, LocalReset(s)
      PROVE TypeOK'
  BY <1>6 DEF LocalReset, TypeOK, Marks
<1>7. ASSUME NEW s \in Streams, SendTrailers(s)
      PROVE TypeOK'
  BY <1>7 DEF SendTrailers, TypeOK, Marks
<1>8. ASSUME NEW s \in Streams, PeerReset(s)
      PROVE TypeOK'
  BY <1>8 DEF PeerReset, TypeOK, Marks
<1>9. CASE ConnectionLost
  BY <1>9 DEF ConnectionLost, TypeOK
<1>10. CASE UNCHANGED vars
  BY <1>10 DEF vars, TypeOK
<1> QED
  BY <1>1, <1>2, <1>3, <1>4, <1>5, <1>6, <1>7, <1>8, <1>9, <1>10,
     FlowControlAssumption DEF Next, Write

\* TypeOK holds in every reachable state.
THEOREM TypeCorrect == Spec => []TypeOK
BY InitType, TypeStep, PTL DEF Spec
----------------------------------------------------------------------------
(* A stream waits in one place *)

\* A turn of the coroutine takes the head off the queue.
LEMMA Served ==
    ASSUME TypeOK, Located, NEW s \in Streams, Serving(s)
    PROVE  /\ task = "running" /\ s \in held /\ s \in Range(queue) /\ s \notin blocked
           /\ queue' \in Seq(Streams) /\ IsInjective(queue')
           /\ Range(queue') = Range(queue) \ {s}
BY TailInjective DEF Serving, Located, TypeOK

LEMMA LocatedInit == Init => Located
BY DEF Init, Located, IsInjective, Range

LEMMA LocatedStep == TypeOK /\ Located /\ [Next]_vars => Located'
<1> SUFFICES ASSUME TypeOK, Located, [Next]_vars PROVE Located'
  OBVIOUS
<1>1. ASSUME NEW s \in Streams, NEW n \in Nat, NEW e \in BOOLEAN, WriteData(s, n, e)
      PROVE Located'
  <2>1. CASE s \in held
    BY <1>1, <2>1 DEF WriteData, Requeue, Located
  <2>2. CASE s \notin held
    <3>1. s \notin Range(queue) /\ s \notin blocked
      BY <2>2 DEF Located
    <3>2. queue' = Append(queue, s)
      BY <1>1, <2>2 DEF WriteData, Requeue
    <3>3. IsInjective(queue') /\ Range(queue') = Range(queue) \cup {s}
      BY <3>1, <3>2, AppendInjective DEF Located, TypeOK
    <3> QED
      BY <1>1, <3>1, <3>3 DEF WriteData, Located
  <2> QED
    BY <2>1, <2>2
<1>2. ASSUME NEW s \in Streams, NEW d \in Int, StreamWindowUpdate(s, d)
      PROVE Located'
  <2>1. CASE s \in blocked
    <3>1. s \notin Range(queue)
      BY <2>1 DEF Located
    <3>2. queue' = Append(queue, s) /\ blocked' = blocked \ {s}
      BY <1>2, <2>1 DEF StreamWindowUpdate, Released
    <3>3. IsInjective(queue') /\ Range(queue') = Range(queue) \cup {s}
      BY <3>1, <3>2, AppendInjective DEF Located, TypeOK
    <3> QED
      BY <1>2, <2>1, <3>2, <3>3 DEF StreamWindowUpdate, Located
  <2>2. CASE s \notin blocked
    BY <1>2, <2>2 DEF StreamWindowUpdate, Released, Located
  <2> QED
    BY <2>1, <2>2
<1>3. ASSUME NEW d \in Int, ConnWindowUpdate(d)
      PROVE Located'
  <2>1. PICK order \in ReleaseOrders : queue' = queue \o order
    BY <1>3 DEF ConnWindowUpdate
  <2>2. IsFiniteSet(blocked) /\ blocked \subseteq Streams
    BY FlowControlAssumption, FS_Subset DEF TypeOK
  <2>3. order \in Seq(blocked) /\ IsInjective(order) /\ Range(order) = blocked
    BY <2>1, <2>2, OrderInjective DEF ReleaseOrders
  <2>4. order \in Seq(Streams)
    BY <2>2, <2>3
  <2>5. IsInjective(queue') /\ Range(queue') = Range(queue) \cup blocked
    BY <2>1, <2>3, <2>4, ConcatInjective DEF Located, TypeOK
  <2> QED
    BY <1>3, <2>5 DEF ConnWindowUpdate, Located
<1>4. ASSUME NEW d \in Int, PeerSettings(d)
      PROVE Located'
  BY <1>4 DEF PeerSettings, Located
<1>5. ASSUME NEW s \in Streams, Transmit(s)
      PROVE Located'
  <2>1. Serving(s)
    BY <1>5 DEF Transmit, TransmitClosed, TransmitFails, TransmitPart, TransmitAll
  <2>2. /\ task = "running" /\ s \in held /\ s \in Range(queue) /\ s \notin blocked
        /\ IsInjective(queue') /\ Range(queue') = Range(queue) \ {s}
    BY <2>1, Served
  <2>3. CASE TransmitClosed(s)
    BY <2>2, <2>3 DEF TransmitClosed, Skips, Located
  <2>4. CASE TransmitFails(s)
    BY <2>2, <2>4 DEF TransmitFails, Located
  <2>5. CASE TransmitPart(s)
    BY <2>2, <2>5 DEF TransmitPart, Emit, Located
  <2>6. CASE TransmitAll(s)
    <3>1. \A r \in Streams \ {s} : localClosed'[r] = localClosed[r]
      BY <2>6 DEF TransmitAll, TypeOK
    <3>2. held' = held \ {s} /\ blocked' = blocked /\ task' = task
      BY <2>6 DEF TransmitAll, Emit
    <3> QED
      BY <2>2, <3>1, <3>2 DEF Located, TypeOK
  <2> QED
    BY <1>5, <2>3, <2>4, <2>5, <2>6 DEF Transmit
<1>6. ASSUME NEW s \in Streams, LocalReset(s)
      PROVE Located'
  BY <1>6 DEF LocalReset, Located, TypeOK
<1>7. ASSUME NEW s \in Streams, SendTrailers(s)
      PROVE Located'
  BY <1>7 DEF SendTrailers, Located, TypeOK
<1>8. ASSUME NEW s \in Streams, PeerReset(s)
      PROVE Located'
  BY <1>8 DEF PeerReset, Located
<1>9. CASE ConnectionLost
  BY <1>9 DEF ConnectionLost, Located
<1>10. CASE UNCHANGED vars
  BY <1>10 DEF vars, Located
<1> QED
  BY <1>1, <1>2, <1>3, <1>4, <1>5, <1>6, <1>7, <1>8, <1>9, <1>10,
     FlowControlAssumption DEF Next, Write

\* Every stream with data is queued once or flow-controlled, for any number of
\* streams: an id the coroutine takes from the queue is in _stream_dict.
THEOREM LocatedCorrect == Spec => []Located
<1>1. TypeOK /\ Located /\ [Next]_vars => Located'
  BY LocatedStep
<1> QED
  BY <1>1, LocatedInit, TypeCorrect, PTL DEF Spec

----------------------------------------------------------------------------
(* The strengthening *)

\* The steps of the module, with the types of their parameters.
LEMMA Steps ==
    ASSUME [Next]_vars
    PROVE  \/ \E s \in Streams, n \in Nat, e \in BOOLEAN : WriteData(s, n, e)
           \/ \E s \in Streams : TransmitClosed(s)
           \/ \E s \in Streams : TransmitFails(s)
           \/ \E s \in Streams : TransmitPart(s)
           \/ \E s \in Streams : TransmitAll(s)
           \/ \E s \in Streams, d \in 1..MaxWindow : StreamWindowUpdate(s, d)
           \/ \E d \in 1..MaxWindow : ConnWindowUpdate(d)
           \/ \E d \in SettingsDeltas : PeerSettings(d)
           \/ \E s \in Streams : LocalReset(s)
           \/ \E s \in Streams : LastEventSet(s) /\ SendTrailers(s)
           \/ \E s \in Streams : PeerReset(s)
           \/ ConnectionLost
           \/ UNCHANGED vars
<1>1. ASSUME NEW s \in Streams, Write(s)
      PROVE  \E n \in Nat, e \in BOOLEAN : WriteData(s, n, e)
  BY <1>1, FlowControlAssumption DEF Write
<1> QED
  BY <1>1 DEF Next, Transmit

\* Events are numbered by their writes, and an item holds the last one.
Numbered == \A s \in Streams :
    /\ fired[s] \subseteq 1..writes[s]
    /\ s \in held => event[s] = writes[s] /\ writes[s] > 0

LEMMA NumberedInit == Init => Numbered
BY DEF Init, Numbered

LEMMA NumberedStep == TypeOK /\ Located /\ Numbered /\ [Next]_vars => Numbered'
<1> SUFFICES ASSUME TypeOK, Located, Numbered, [Next]_vars PROVE Numbered'
  OBVIOUS
<1>1. ASSUME NEW s \in Streams, NEW n \in Nat, NEW e \in BOOLEAN, WriteData(s, n, e)
      PROVE Numbered'
  <2>1. \A r \in Streams : writes[r] \in Nat /\ writes'[r] \in Nat /\ writes[r] <= writes'[r]
    BY <1>1, SMTT(30) DEF WriteData, TypeOK
  <2>2. fired'[s] \subseteq 1..writes'[s]
    BY <1>1, <2>1 DEF WriteData, Supersede, Numbered, TypeOK
  <2>3. event'[s] = writes'[s] /\ writes'[s] > 0
    BY <1>1 DEF WriteData, TypeOK
  <2>4. \A r \in Streams \ {s} :
          /\ fired'[r] = fired[r] /\ writes'[r] = writes[r] /\ event'[r] = event[r]
          /\ r \in held' => r \in held
    BY <1>1 DEF WriteData, Supersede, TypeOK
  <2> QED
    BY <2>2, <2>3, <2>4 DEF Numbered
<1>2. ASSUME NEW s \in Streams, TransmitClosed(s) PROVE Numbered'
  <2>1. s \in held
    BY <1>2, Served DEF TransmitClosed
  <2> QED
    BY <1>2, <2>1 DEF TransmitClosed, Numbered, TypeOK
<1>3. ASSUME NEW s \in Streams, TransmitFails(s) PROVE Numbered'
  BY <1>3 DEF TransmitFails, Numbered
<1>4. ASSUME NEW s \in Streams, TransmitPart(s) PROVE Numbered'
  BY <1>4 DEF TransmitPart, Emit, Numbered
<1>5. ASSUME NEW s \in Streams, TransmitAll(s) PROVE Numbered'
  <2>1. s \in held
    BY <1>5, Served DEF TransmitAll
  <2> QED
    BY <1>5, <2>1 DEF TransmitAll, Emit, Numbered, TypeOK
<1>6. ASSUME NEW s \in Streams, NEW d \in 1..MaxWindow, StreamWindowUpdate(s, d)
      PROVE Numbered'
  BY <1>6 DEF StreamWindowUpdate, Numbered
<1>7. ASSUME NEW d \in 1..MaxWindow, ConnWindowUpdate(d) PROVE Numbered'
  BY <1>7 DEF ConnWindowUpdate, Numbered
<1>8. ASSUME NEW d \in SettingsDeltas, PeerSettings(d) PROVE Numbered'
  BY <1>8 DEF PeerSettings, Numbered
<1>9. ASSUME NEW s \in Streams, LocalReset(s) PROVE Numbered'
  BY <1>9 DEF LocalReset, Numbered
<1>10. ASSUME NEW s \in Streams, SendTrailers(s) PROVE Numbered'
  BY <1>10 DEF SendTrailers, Numbered
<1>11. ASSUME NEW s \in Streams, PeerReset(s) PROVE Numbered'
  BY <1>11 DEF PeerReset, Numbered
<1>12. CASE ConnectionLost
  BY <1>12 DEF ConnectionLost, Numbered
<1>13. CASE UNCHANGED vars
  BY <1>13 DEF vars, Numbered
<1> QED
  BY Steps, <1>1, <1>2, <1>3, <1>4, <1>5, <1>6, <1>7, <1>8, <1>9, <1>10, <1>11, <1>12, <1>13

----------------------------------------------------------------------------
(* No byte is lost or sent twice *)

LEMMA ConservedInit == Init => Conserved
BY DEF Init, Conserved

\* What a turn that sends does to the bytes of its stream.
LEMMA Emitted ==
    ASSUME TypeOK, NEW s \in Streams, Emit(s)
    PROVE  /\ data'[s] = Rest(s) /\ sent'[s] = sent[s] + ToSend(s)
           /\ \A r \in Streams \ {s} : data'[r] = data[r] /\ sent'[r] = sent[r]
           /\ accepted' = accepted
           /\ sent'[s] + data'[s] = sent[s] + data[s]
<1>1. /\ ToSend(s) \in Nat /\ Rest(s) \in Nat /\ Rest(s) + ToSend(s) = data[s]
      /\ sent[s] \in Nat
  BY Slice DEF TypeOK
<1> QED
  BY <1>1 DEF Emit, TypeOK

LEMMA ConservedStep == TypeOK /\ Conserved /\ [Next]_vars => Conserved'
<1> SUFFICES ASSUME TypeOK, Conserved, [Next]_vars PROVE Conserved'
  OBVIOUS
<1>1. ASSUME NEW s \in Streams, NEW n \in Nat, NEW e \in BOOLEAN, WriteData(s, n, e)
      PROVE Conserved'
  <2>1. /\ data' = [data EXCEPT ![s] = @ + n]
        /\ accepted' = [accepted EXCEPT ![s] = @ + n]
        /\ sent' = sent /\ held' = held \cup {s}
    BY <1>1 DEF WriteData, ExtendData
  <2>2. /\ data[s] \in Nat /\ sent[s] \in Nat
        /\ data'[s] = data[s] + n /\ accepted'[s] = accepted[s] + n
        /\ \A r \in Streams \ {s} : data'[r] = data[r] /\ accepted'[r] = accepted[r]
    BY <2>1 DEF TypeOK
  <2>3. sent'[s] + data'[s] = accepted'[s]
    BY <2>1, <2>2 DEF Conserved
  <2> QED
    BY <2>1, <2>2, <2>3 DEF Conserved
<1>2. ASSUME NEW s \in Streams, TransmitClosed(s) PROVE Conserved'
  BY <1>2 DEF TransmitClosed, Conserved
<1>3. ASSUME NEW s \in Streams, TransmitFails(s) PROVE Conserved'
  BY <1>3 DEF TransmitFails, Conserved
<1>4. ASSUME NEW s \in Streams, TransmitPart(s) PROVE Conserved'
  <2>1. Emit(s) /\ held' = held /\ Rest(s) \in Nat /\ Rest(s) > 0 /\ Rest(s) <= data[s]
    BY <1>4, Slice DEF TransmitPart, TypeOK
  <2>2. s \in held
    BY <2>1 DEF Conserved, TypeOK
  <2>3. sent'[s] + data'[s] = accepted'[s]
    BY <2>1, Emitted DEF Conserved
  <2> QED
    BY <2>1, <2>2, <2>3, Emitted DEF Conserved
<1>5. ASSUME NEW s \in Streams, TransmitAll(s) PROVE Conserved'
  <2>1. Emit(s) /\ held' = held \ {s} /\ Rest(s) = 0
    BY <1>5, Slice DEF TransmitAll
  <2> QED
    BY <2>1, Emitted DEF Conserved, TypeOK
<1>6. ASSUME NEW s \in Streams, NEW d \in 1..MaxWindow, StreamWindowUpdate(s, d)
      PROVE Conserved'
  BY <1>6 DEF StreamWindowUpdate, Conserved
<1>7. ASSUME NEW d \in 1..MaxWindow, ConnWindowUpdate(d) PROVE Conserved'
  BY <1>7 DEF ConnWindowUpdate, Conserved
<1>8. ASSUME NEW d \in SettingsDeltas, PeerSettings(d) PROVE Conserved'
  BY <1>8 DEF PeerSettings, Conserved
<1>9. ASSUME NEW s \in Streams, LocalReset(s) PROVE Conserved'
  BY <1>9 DEF LocalReset, Conserved
<1>10. ASSUME NEW s \in Streams, SendTrailers(s) PROVE Conserved'
  BY <1>10 DEF SendTrailers, Conserved
<1>11. ASSUME NEW s \in Streams, PeerReset(s) PROVE Conserved'
  BY <1>11 DEF PeerReset, Conserved
<1>12. CASE ConnectionLost
  BY <1>12 DEF ConnectionLost, Conserved
<1>13. CASE UNCHANGED vars
  BY <1>13 DEF vars, Conserved
<1> QED
  BY Steps, <1>1, <1>2, <1>3, <1>4, <1>5, <1>6, <1>7, <1>8, <1>9, <1>10, <1>11, <1>12, <1>13

\* Every byte write_data took is on the wire or buffered, never both or lost.
THEOREM ConservedCorrect == Spec => []Conserved
BY ConservedInit, ConservedStep, TypeCorrect, PTL DEF Spec

----------------------------------------------------------------------------
(* How a stream closes *)

\* A stream with data is closed locally only by a reset; the last event is
\* set only when the item is gone or was reset; END_STREAM that left with
\* the stream still open locally left before the data.
Closing == \A s \in Streams :
    /\ "rst" \in marks[s] => localClosed[s]
    /\ (s \in held /\ localClosed[s]) => "rst" \in marks[s]
    /\ writes[s] \in fired[s] => s \notin held \/ "rst" \in marks[s]
    /\ "end" \in marks[s] => localClosed[s] \/ (s \in held /\ data[s] > 0)

LEMMA ClosingInit == Init => Closing
BY DEF Init, Closing

LEMMA ClosingStep ==
    TypeOK /\ Located /\ Numbered /\ Closing /\ [Next]_vars => Closing'
<1> SUFFICES ASSUME TypeOK, Located, Numbered, Closing, [Next]_vars PROVE Closing'
  OBVIOUS
<1>1. ASSUME NEW s \in Streams, NEW n \in Nat, NEW e \in BOOLEAN, WriteData(s, n, e)
      PROVE Closing'
  <2>1. \A r \in Streams \ {s} :
          /\ r \in held' <=> r \in held
          /\ data'[r] = data[r] /\ writes'[r] = writes[r] /\ fired'[r] = fired[r]
    BY <1>1 DEF WriteData, Supersede, TypeOK
  <2>2. marks' = marks /\ localClosed' = localClosed /\ ~localClosed[s] /\ s \in held'
    BY <1>1 DEF WriteData
  <2>3. writes'[s] \notin fired'[s]
    <3>1. writes'[s] = writes[s] + 1 /\ writes[s] \in Nat
      BY <1>1 DEF WriteData, TypeOK
    <3>2. fired'[s] \subseteq fired[s] \cup {writes[s]}
      BY <1>1 DEF WriteData, Supersede, Numbered, TypeOK
    <3> QED
      BY <3>1, <3>2 DEF Numbered
  <2>4. data'[s] >= data[s] /\ data[s] \in Nat /\ data'[s] \in Nat
    BY <1>1 DEF WriteData, ExtendData, TypeOK
  <2> QED
    BY <2>1, <2>2, <2>3, <2>4 DEF Closing
<1>2. ASSUME NEW s \in Streams, TransmitClosed(s) PROVE Closing'
  <2>1. s \in held /\ localClosed[s]
    BY <1>2, Served DEF TransmitClosed, Skips
  <2>2. "rst" \in marks[s]
    BY <2>1 DEF Closing
  <2> QED
    BY <1>2, <2>2 DEF TransmitClosed, Closing, TypeOK
<1>3. ASSUME NEW s \in Streams, TransmitFails(s) PROVE Closing'
  BY <1>3 DEF TransmitFails, Closing
<1>4. ASSUME NEW s \in Streams, TransmitPart(s) PROVE Closing'
  <2>1. Emit(s) /\ s \in held /\ data'[s] > 0
    BY <1>4, Served, Emitted DEF TransmitPart
  <2>2. \A r \in Streams \ {s} : data'[r] = data[r] /\ marks'[r] = marks[r]
    BY <1>4, <2>1, Emitted DEF TransmitPart, TypeOK
  <2>3. \A m \in Marks \ {"end"} : m \in marks'[s] => m \in marks[s]
    BY <1>4 DEF TransmitPart, TypeOK
  <2>4. \A m \in marks[s] : m \in marks'[s]
    BY <1>4 DEF TransmitPart, TypeOK
  <2>5. UNCHANGED <<held, localClosed, fired, writes>>
    BY <1>4 DEF TransmitPart, Emit
  <2> QED
    BY <2>1, <2>2, <2>3, <2>4, <2>5 DEF Closing, Marks
<1>5. ASSUME NEW s \in Streams, TransmitAll(s) PROVE Closing'
  <2>1. Emit(s) /\ Rest(s) = 0 /\ s \in held
    BY <1>5, Served, Slice DEF TransmitAll
  <2>2. \A r \in Streams \ {s} :
          /\ data'[r] = data[r] /\ marks'[r] = marks[r] /\ fired'[r] = fired[r]
          /\ localClosed'[r] = localClosed[r]
          /\ r \in held' <=> r \in held
    BY <1>5, <2>1, Emitted DEF TransmitAll, TypeOK
  <2>3. s \notin held' /\ writes' = writes /\ ~localClosed[s]
    BY <1>5 DEF TransmitAll, Emit, Skips
  <2>4. "rst" \notin marks'[s]
    BY <1>5, <2>3 DEF TransmitAll, Closing, TypeOK
  <2>5. ASSUME "end" \in marks'[s] PROVE localClosed'[s]
    <3>1. CASE endStream[s]
      BY <1>5, <3>1 DEF TransmitAll, TypeOK
    <3>2. CASE ~endStream[s]
      <4>1. "end" \in marks[s]
        BY <1>5, <2>5, <3>2 DEF TransmitAll
      <4>2. data[s] > 0 /\ ToSend(s) = data[s]
        BY <2>1, <2>3, <4>1, Slice DEF Closing, TypeOK
      <4>3. FALSE
        BY <2>1, <4>1, <4>2 DEF Emit, MustSend, Refused
      <4> QED
        BY <4>3
    <3> QED
      BY <3>1, <3>2
  <2> QED
    BY <2>2, <2>3, <2>4, <2>5 DEF Closing
<1>6. ASSUME NEW s \in Streams, NEW d \in 1..MaxWindow, StreamWindowUpdate(s, d)
      PROVE Closing'
  BY <1>6 DEF StreamWindowUpdate, Closing
<1>7. ASSUME NEW d \in 1..MaxWindow, ConnWindowUpdate(d) PROVE Closing'
  BY <1>7 DEF ConnWindowUpdate, Closing
<1>8. ASSUME NEW d \in SettingsDeltas, PeerSettings(d) PROVE Closing'
  BY <1>8 DEF PeerSettings, Closing
<1>9. ASSUME NEW s \in Streams, LocalReset(s) PROVE Closing'
  BY <1>9 DEF LocalReset, Closing, TypeOK
<1>10. ASSUME NEW s \in Streams, LastEventSet(s), SendTrailers(s) PROVE Closing'
  <2>1. s \notin held
    BY <1>10 DEF SendTrailers, LastEventSet, Closing, Numbered
  <2> QED
    BY <1>10, <2>1 DEF SendTrailers, Closing, TypeOK
<1>11. ASSUME NEW s \in Streams, PeerReset(s) PROVE Closing'
  BY <1>11 DEF PeerReset, Closing, TypeOK
<1>12. CASE ConnectionLost
  BY <1>12 DEF ConnectionLost, Closing
<1>13. CASE UNCHANGED vars
  BY <1>13 DEF vars, Closing
<1> QED
  BY Steps, <1>1, <1>2, <1>3, <1>4, <1>5, <1>6, <1>7, <1>8, <1>9, <1>10, <1>11, <1>12, <1>13

\* The event of the last write means that all bytes are on the wire.
THEOREM EventMeansSentCorrect == Spec => []EventMeansSent
<1>1. TypeOK /\ Conserved /\ Closing => EventMeansSent
  BY DEF TypeOK, Conserved, Closing, EventMeansSent
<1>2. TypeOK /\ Located /\ Numbered /\ [Next]_vars => Numbered'
  BY NumberedStep
<1>3. TypeOK /\ Located /\ Numbered /\ Closing /\ [Next]_vars => Closing'
  BY ClosingStep
<1> QED
  BY <1>1, <1>2, <1>3, NumberedInit, ClosingInit, TypeCorrect, LocatedCorrect,
     ConservedCorrect, PTL DEF Spec

----------------------------------------------------------------------------
(* Windows *)

\* Only SETTINGS make a window negative.
Windows ==
    /\ connWindow >= 0
    /\ "shrank" \notin settings => \A s \in Streams : streamWindow[s] >= 0

LEMMA WindowsInit == Init => Windows
BY FlowControlAssumption DEF Init, Windows

\* A turn takes from the windows what it sends, and never more than is there.
LEMMA Taken ==
    ASSUME TypeOK, NEW s \in Streams, Emit(s)
    PROVE  /\ connWindow' = connWindow - ToSend(s)
           /\ streamWindow'[s] = streamWindow[s] - ToSend(s)
           /\ \A r \in Streams \ {s} : streamWindow'[r] = streamWindow[r]
           /\ ToSend(s) \in Nat
           /\ ToSend(s) > 0 => ToSend(s) <= Window(s)
<1>1. ToSend(s) \in Nat /\ Window(s) \in Int
  BY Slice
<1>2. ToSend(s) > 0 => ToSend(s) <= Window(s)
  BY <1>1 DEF Emit, MustSend, Refused
<1> QED
  BY <1>1, <1>2 DEF Emit, TypeOK

LEMMA WindowsStep == TypeOK /\ Windows /\ [Next]_vars => Windows'
<1> SUFFICES ASSUME TypeOK, Windows, [Next]_vars PROVE Windows'
  OBVIOUS
<1>0. ASSUME NEW s \in Streams, Emit(s) PROVE Windows'
  <2>1. /\ connWindow \in Int /\ streamWindow[s] \in Int
        /\ ToSend(s) > 0 => ToSend(s) <= connWindow /\ ToSend(s) <= streamWindow[s]
    BY <1>0, Taken, SMTT(30) DEF Window, Min2, TypeOK
  <2>2. settings' = settings
    BY <1>0 DEF Emit
  <2> QED
    BY <1>0, <2>1, <2>2, Taken DEF Windows
<1>1. ASSUME NEW s \in Streams, NEW n \in Nat, NEW e \in BOOLEAN, WriteData(s, n, e)
      PROVE Windows'
  BY <1>1 DEF WriteData, Windows
<1>2. ASSUME NEW s \in Streams, TransmitClosed(s) PROVE Windows'
  BY <1>2 DEF TransmitClosed, Windows
<1>3. ASSUME NEW s \in Streams, TransmitFails(s) PROVE Windows'
  BY <1>3 DEF TransmitFails, Windows
<1>4. ASSUME NEW s \in Streams, TransmitPart(s) PROVE Windows'
  BY <1>0, <1>4 DEF TransmitPart
<1>5. ASSUME NEW s \in Streams, TransmitAll(s) PROVE Windows'
  BY <1>0, <1>5 DEF TransmitAll
<1>6. ASSUME NEW s \in Streams, NEW d \in 1..MaxWindow, StreamWindowUpdate(s, d)
      PROVE Windows'
  BY <1>6 DEF StreamWindowUpdate, Windows, TypeOK
<1>7. ASSUME NEW d \in 1..MaxWindow, ConnWindowUpdate(d) PROVE Windows'
  BY <1>7 DEF ConnWindowUpdate, Windows, TypeOK
<1>8. ASSUME NEW d \in SettingsDeltas, PeerSettings(d) PROVE Windows'
  <2>1. d \in Int
    BY FlowControlAssumption
  <2>2. CASE d < 0
    BY <1>8, <2>2 DEF PeerSettings, Direction, Windows
  <2>3. CASE d >= 0
    BY <1>8, <2>1, <2>3 DEF PeerSettings, Windows, TypeOK
  <2> QED
    BY <2>1, <2>2, <2>3
<1>9. ASSUME NEW s \in Streams, LocalReset(s) PROVE Windows'
  BY <1>9 DEF LocalReset, Windows
<1>10. ASSUME NEW s \in Streams, SendTrailers(s) PROVE Windows'
  BY <1>10 DEF SendTrailers, Windows
<1>11. ASSUME NEW s \in Streams, PeerReset(s) PROVE Windows'
  BY <1>11 DEF PeerReset, Windows
<1>12. CASE ConnectionLost
  BY <1>12 DEF ConnectionLost, Windows
<1>13. CASE UNCHANGED vars
  BY <1>13 DEF vars, Windows
<1> QED
  BY Steps, <1>1, <1>2, <1>3, <1>4, <1>5, <1>6, <1>7, <1>8, <1>9, <1>10, <1>11, <1>12, <1>13

----------------------------------------------------------------------------
(* No lost wakeup *)

\* A turn never opens a window, and one that parks its stream has used the
\* window up.
LEMMA Parked ==
    ASSUME TypeOK, NEW s \in Streams, Emit(s)
    PROVE  /\ \A r \in Streams : Window(r) <= 0 => Window(r)' <= 0
           /\ Rest(s) > 0 => Window(s)' <= 0
<1>1. /\ connWindow \in Int /\ \A r \in Streams : streamWindow[r] \in Int
      /\ \A r \in Streams \ {s} : streamWindow'[r] = streamWindow[r]
      /\ connWindow' = connWindow - ToSend(s)
      /\ streamWindow'[s] = streamWindow[s] - ToSend(s)
      /\ ToSend(s) \in Nat
  BY Taken DEF TypeOK
<1>2. \A r \in Streams : Window(r) <= 0 => Window(r)' <= 0
  BY <1>1 DEF Window, Min2
<1>3. ASSUME Rest(s) > 0 PROVE Window(s)' <= 0
  <2>1. Window(s) - ToSend(s) <= 0 /\ Window(s) \in Int
    BY <1>1, <1>3, Slice, Taken
  <2> QED
    BY <1>1, <2>1 DEF Window, Min2
<1> QED
  BY <1>2, <1>3

LEMMA NoLostWakeupStep == TypeOK /\ NoLostWakeup /\ [Next]_vars => NoLostWakeup'
<1> SUFFICES ASSUME TypeOK, NoLostWakeup, [Next]_vars, "grew" \notin settings'
             PROVE  \A r \in blocked' : Window(r)' <= 0
  BY DEF NoLostWakeup
<1> DEFINE Goal == \A r \in blocked' : Window(r)' <= 0
<1>0. blocked \subseteq Streams
  BY DEF TypeOK
<1>a. ASSUME UNCHANGED <<streamWindow, connWindow, settings>>, blocked' \subseteq blocked
      PROVE  Goal
  BY <1>a DEF NoLostWakeup, Window
<1>1. ASSUME NEW s \in Streams, NEW n \in Nat, NEW e \in BOOLEAN, WriteData(s, n, e)
      PROVE Goal
  BY <1>a, <1>1 DEF WriteData
<1>2. ASSUME NEW s \in Streams, TransmitClosed(s) PROVE Goal
  BY <1>a, <1>2 DEF TransmitClosed
<1>3. ASSUME NEW s \in Streams, TransmitFails(s) PROVE Goal
  BY <1>a, <1>3 DEF TransmitFails
<1>4. ASSUME NEW s \in Streams, TransmitPart(s) PROVE Goal
  <2>1. Emit(s) /\ Rest(s) > 0 /\ blocked' = blocked \cup {s} /\ settings' = settings
    BY <1>4 DEF TransmitPart, Emit
  <2> QED
    BY <1>0, <2>1, Parked DEF NoLostWakeup
<1>5. ASSUME NEW s \in Streams, TransmitAll(s) PROVE Goal
  <2>1. Emit(s) /\ blocked' = blocked /\ settings' = settings
    BY <1>5 DEF TransmitAll, Emit
  <2> QED
    BY <1>0, <2>1, Parked DEF NoLostWakeup
<1>6. ASSUME NEW s \in Streams, NEW d \in 1..MaxWindow, StreamWindowUpdate(s, d)
      PROVE Goal
  <2>1. /\ blocked' = blocked \ {s} /\ connWindow' = connWindow /\ settings' = settings
        /\ \A r \in Streams \ {s} : streamWindow'[r] = streamWindow[r]
    BY <1>6 DEF StreamWindowUpdate, Released, TypeOK
  <2> QED
    BY <1>0, <2>1 DEF NoLostWakeup, Window
<1>7. ASSUME NEW d \in 1..MaxWindow, ConnWindowUpdate(d) PROVE Goal
  BY <1>7 DEF ConnWindowUpdate
<1>8. ASSUME NEW d \in SettingsDeltas, PeerSettings(d) PROVE Goal
  <2>1. d \in Int /\ d < 0 /\ "grew" \notin settings
    BY <1>8, FlowControlAssumption DEF PeerSettings, Direction
  <2>2. /\ blocked' = blocked /\ connWindow' = connWindow /\ connWindow \in Int
        /\ \A r \in Streams : /\ streamWindow'[r] = streamWindow[r] + d
                             /\ streamWindow[r] \in Int
    BY <1>8 DEF PeerSettings, TypeOK
  <2>3. \A r \in Streams : Window(r) <= 0 => Window(r)' <= 0
    BY <2>1, <2>2 DEF Window, Min2
  <2> QED
    BY <1>0, <2>1, <2>2, <2>3 DEF NoLostWakeup
<1>9. ASSUME NEW s \in Streams, LocalReset(s) PROVE Goal
  BY <1>a, <1>9 DEF LocalReset
<1>10. ASSUME NEW s \in Streams, SendTrailers(s) PROVE Goal
  BY <1>a, <1>10 DEF SendTrailers
<1>11. ASSUME NEW s \in Streams, PeerReset(s) PROVE Goal
  BY <1>a, <1>11 DEF PeerReset
<1>12. CASE ConnectionLost
  BY <1>a, <1>12 DEF ConnectionLost
<1>13. CASE UNCHANGED vars
  BY <1>a, <1>13 DEF vars
<1> QED
  BY Steps, <1>1, <1>2, <1>3, <1>4, <1>5, <1>6, <1>7, <1>8, <1>9, <1>10, <1>11, <1>12, <1>13

\* A stream parks only as long as no window is open for it, unless SETTINGS
\* raised the windows.
THEOREM NoLostWakeupCorrect == Spec => []NoLostWakeup
<1>1. Init => NoLostWakeup
  BY DEF Init, NoLostWakeup
<1> QED
  BY <1>1, NoLostWakeupStep, TypeCorrect, PTL DEF Spec

----------------------------------------------------------------------------
(* What ends the coroutine *)

\* A turn fails only on a cause.
LEMMA Cause ==
    ASSUME TypeOK, Located, Conserved, Closing, Windows,
           NEW s \in Streams, TransmitFails(s)
    PROVE  "shrank" \in settings \/ "peer_rst" \in marks[s] \/ Truncated(s)
<1>1. ~localClosed[s] /\ ("peer_rst" \in marks[s] \/ Refused(s)) /\ Serving(s)
  BY DEF TransmitFails, Skips
<1>2. CASE marks[s] # {} /\ "peer_rst" \notin marks[s]
  <2>1. "end" \in marks[s]
    BY <1>1, <1>2 DEF Closing, TypeOK, Marks
  <2>2. data[s] > 0
    BY <1>1, <2>1 DEF Closing
  <2>3. sent[s] < accepted[s]
    BY <2>2 DEF Conserved, TypeOK
  <2> QED
    BY <2>1, <2>3 DEF Truncated
<1>3. CASE ToSend(s) > Window(s)
  <2>1. Window(s) < 0
    BY <1>3, Slice
  <2>2. streamWindow[s] < 0 \/ connWindow < 0
    BY <2>1 DEF Window, Min2
  <2> QED
    BY <2>2 DEF Windows, TypeOK
<1> QED
  BY <1>1, <1>2, <1>3 DEF Refused

LEMMA FailureHasCauseStep ==
    /\ TypeOK /\ Located /\ Conserved /\ Closing /\ Windows
    /\ FailureHasCause /\ [Next]_vars
    => FailureHasCause'
<1> SUFFICES ASSUME TypeOK, Located, Conserved, Closing, Windows, FailureHasCause,
                    [Next]_vars, task' = "failed"
             PROVE  FailureHasCause'
  BY DEF FailureHasCause
<1> DEFINE Caused(s) == "peer_rst" \in marks[s] \/ Truncated(s)
<1>a. ASSUME task = "failed", settings \subseteq settings', UNCHANGED sent,
             \A s \in Streams : marks[s] \subseteq marks'[s] /\ accepted[s] <= accepted'[s]
      PROVE  FailureHasCause'
  <2>1. \A s \in Streams : Caused(s) => Caused(s)'
    <3>1. \A s \in Streams : accepted[s] \in Nat /\ sent[s] \in Nat
      BY DEF TypeOK
    <3>2. TAKE s \in Streams
    <3>3. CASE "peer_rst" \in marks[s]
      BY <1>a, <3>3
    <3>4. CASE "end" \in marks[s] /\ sent[s] < accepted[s]
      <4>1. accepted'[s] \in Nat
        BY TypeStep DEF TypeOK
      <4>2. "end" \in marks'[s] /\ sent'[s] < accepted'[s]
        BY <1>a, <3>1, <3>4, <4>1
      <4> QED
        BY <4>2 DEF Truncated
    <3> QED
      BY <3>3, <3>4 DEF Truncated
  <2> QED
    BY <1>a, <2>1 DEF FailureHasCause
<1>1. ASSUME NEW s \in Streams, NEW n \in Nat, NEW e \in BOOLEAN, WriteData(s, n, e)
      PROVE FailureHasCause'
  <2>1. \A r \in Streams : accepted[r] <= accepted'[r]
    BY <1>1, SMTT(30) DEF WriteData, TypeOK
  <2> QED
    BY <1>a, <1>1, <2>1 DEF WriteData
<1>2. ASSUME NEW s \in Streams, TransmitClosed(s) PROVE FailureHasCause'
  BY <1>2 DEF TransmitClosed, Serving
<1>3. ASSUME NEW s \in Streams, TransmitFails(s) PROVE FailureHasCause'
  <2>1. "shrank" \in settings \/ Caused(s)
    BY <1>3, Cause
  <2>2. UNCHANGED <<settings, marks, sent, accepted>>
    BY <1>3 DEF TransmitFails
  <2> QED
    BY <2>1, <2>2 DEF FailureHasCause, Truncated
<1>4. ASSUME NEW s \in Streams, TransmitPart(s) PROVE FailureHasCause'
  BY <1>4 DEF TransmitPart, Emit, Serving
<1>5. ASSUME NEW s \in Streams, TransmitAll(s) PROVE FailureHasCause'
  BY <1>5 DEF TransmitAll, Emit, Serving
<1>b. \A s \in Streams : accepted[s] \in Nat
  BY DEF TypeOK
<1>6. ASSUME NEW s \in Streams, NEW d \in 1..MaxWindow, StreamWindowUpdate(s, d)
      PROVE FailureHasCause'
  BY <1>a, <1>b, <1>6 DEF StreamWindowUpdate
<1>7. ASSUME NEW d \in 1..MaxWindow, ConnWindowUpdate(d) PROVE FailureHasCause'
  BY <1>a, <1>b, <1>7 DEF ConnWindowUpdate
<1>8. ASSUME NEW d \in SettingsDeltas, PeerSettings(d) PROVE FailureHasCause'
  BY <1>a, <1>b, <1>8 DEF PeerSettings
<1>9. ASSUME NEW s \in Streams, LocalReset(s) PROVE FailureHasCause'
  <2>1. \A r \in Streams : marks[r] \subseteq marks'[r]
    BY <1>9 DEF LocalReset, TypeOK
  <2> QED
    BY <1>a, <1>b, <1>9, <2>1 DEF LocalReset
<1>10. ASSUME NEW s \in Streams, SendTrailers(s) PROVE FailureHasCause'
  <2>1. \A r \in Streams : marks[r] \subseteq marks'[r]
    BY <1>10 DEF SendTrailers, TypeOK
  <2> QED
    BY <1>a, <1>b, <1>10, <2>1 DEF SendTrailers
<1>11. ASSUME NEW s \in Streams, PeerReset(s) PROVE FailureHasCause'
  <2>1. \A r \in Streams : marks[r] \subseteq marks'[r]
    BY <1>11 DEF PeerReset, TypeOK
  <2> QED
    BY <1>a, <1>b, <1>11, <2>1 DEF PeerReset
<1>12. CASE ConnectionLost
  BY <1>12 DEF ConnectionLost
<1>13. CASE UNCHANGED vars
  BY <1>a, <1>b, <1>13 DEF vars
<1> QED
  BY Steps, <1>1, <1>2, <1>3, <1>4, <1>5, <1>6, <1>7, <1>8, <1>9, <1>10, <1>11, <1>12, <1>13

\* The connection's writer dies only of a peer's reset of a stream, of SETTINGS
\* that shrink the windows, or of a truncated stream.
THEOREM FailureHasCauseCorrect == Spec => []FailureHasCause
<1>1. Init => FailureHasCause
  BY DEF Init, FailureHasCause
<1>2. TypeOK /\ Located /\ Numbered /\ [Next]_vars => Numbered'
  BY NumberedStep
<1>3. TypeOK /\ Located /\ Numbered /\ Closing /\ [Next]_vars => Closing'
  BY ClosingStep
<1>4. TypeOK /\ Windows /\ [Next]_vars => Windows'
  BY WindowsStep
<1>5. /\ TypeOK /\ Located /\ Conserved /\ Closing /\ Windows
      /\ FailureHasCause /\ [Next]_vars
      => FailureHasCause'
  BY FailureHasCauseStep
<1> QED
  BY <1>1, <1>2, <1>3, <1>4, <1>5, NumberedInit, ClosingInit, WindowsInit,
     TypeCorrect, LocatedCorrect, ConservedCorrect, PTL DEF Spec

=============================================================================
